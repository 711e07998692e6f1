CONSTANTS
    Threads = {t1, t2}
    Elems = {e1, e2}
    NULL = NULL
    LINE_SIZE = 1
    POOL_MOD = 4
SPECIFICATION FairSpec
INVARIANT OwnedOnce
PROPERTIES PoolSpec EveryElemDequeued
