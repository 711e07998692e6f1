CONSTANT Scenarios <- NcclScenarios
SPECIFICATION OSpec
INVARIANTS AllDelivered OneTransport AllReleased ResourcesKept
PROPERTY AllComplete
