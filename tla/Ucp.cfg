CONSTANT Colls <- MCColls
SPECIFICATION FairSpec
INVARIANT ResultThere
INVARIANT NoTruncation
INVARIANT NothingPending
INVARIANT Synchronised
INVARIANT FailureContained
PROPERTY Completes
