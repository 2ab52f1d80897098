SPECIFICATION FairSpec
CONSTANTS
    pd = pd  ntfy = ntfy
    NumHosts = 2
    Backends = {pd, ntfy}
    Pagers = {pd}
    StaleMax = 2
    DedupWindow = 5
    Interval = 2
    Envs <- MCEnvs
INVARIANT ReportedInTime
PROPERTY RecoveryFollowsAlert
PROPERTY RepeatsAreSpaced
PROPERTY StaleIsReported
