SPECIFICATION PFairSpec
CONSTANTS
    t1 = t1
    t2 = t2
    NULL = NULL
    Threads <- MCThreads
    Tasks <- MCTasks
    Root = "request"
    Requests <- MCRequests
    MaxPosts = 2
CHECK_DEADLOCK FALSE
INVARIANTS PostedOnce DependenciesFirst
INVARIANTS SetupsInOrder PipelineOrder AllFragmentsDone PipelineCount
PROPERTIES RequestSpec EventuallyDone 
