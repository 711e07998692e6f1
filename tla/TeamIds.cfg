SPECIFICATION Spec
CONSTANTS
    p1 = p1
    p2 = p2
    p3 = p3
    a = a
    b = b
    c = c
    d = d
    e = e
    NoId = NoId
    Procs = {p1, p2, p3}
    Teams = {a, b, c}
    Members <- Overlapping
    External <- OneExternal
    WordBits = 3
    PoolSize = 1
    ExternalBit = 8
CHECK_DEADLOCK FALSE
INVARIANTS UniqueIds SameId
