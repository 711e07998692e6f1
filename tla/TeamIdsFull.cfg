SPECIFICATION Spec
CONSTANTS
    p1 = p1
    p2 = p2
    p3 = p3
    a = a
    b = b
    c = c
    d = d
    e = e
    NoId = NoId
    Procs = {p1, p2}
    Teams = {a, b, c, d, e}
    Members <- Same
    External <- NoneExternal
    WordBits = 2
    PoolSize = 2
    ExternalBit = 8
CHECK_DEADLOCK FALSE
SYMMETRY Symmetric
INVARIANT UniqueIds
