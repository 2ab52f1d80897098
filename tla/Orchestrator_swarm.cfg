SPECIFICATION FairSpec
CONSTANTS
    N = 3
    MaxParallel = 2
    RetryEach = 1
    LedgerFails = TRUE
INVARIANT OKMeansEveryLeafRan
INVARIANT LedgerMatchesResult
PROPERTY ExecuteEnds
CHECK_DEADLOCK FALSE
