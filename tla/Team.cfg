SPECIFICATION FairSpec
CONSTANTS
    NCls = 2
    Params <- MCParams
CHECK_DEADLOCK FALSE
INVARIANTS
    OneOobAtATime
    CreatedIsReady
    ServiceTeamThere
    NothingLeft
PROPERTY CreationEnds
