SPECIFICATION PFairSpec
CONSTANTS
    t1 = t1
    t2 = t2
    NULL = NULL
    Threads <- MCThreads
    Tasks <- MCTasks
    Root = "request"
    Requests <- TimesOut
    MaxPosts = 1
CHECK_DEADLOCK FALSE
PROPERTY TimeoutReported
