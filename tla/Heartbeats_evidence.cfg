SPECIFICATION Spec
CONSTANTS
    NumHosts = 2
    Interval = 2
    SSHTimeout = 1
    StaleMax = 1
    BeatPeriod = 1
    Threshold = 3
    Hangs = TRUE
    Faults = TRUE
INVARIANT FreshMeansAlive
INVARIANT LiveIsReported
