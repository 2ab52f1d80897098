SPECIFICATION Spec
CONSTANTS
    p1 = p1  p2 = p2  k1 = k1  k2 = k2
    Processes = {p1, p2}
    Keys = {k1, k2}
    Plists = {"v1", "v2"}
    Whats = {"hourly", "daily"}  JobEnvs = {"env1", "env2"}
    Inputs = {"i1", "i2"}
    Ids = {"id1", "id2"}
    MaxPublished = 3
    NumFiles = 2  MaxContent = 2  BadNames <- MCBadNames  NumSkills = 2  MaxEdits = 2
    NumHosts = 2  MaxLate = 1
    Callers = {"c1", "c2", "c3"}  TTL = 1  MaxBuilds = 2  Refreshes = TRUE  Leavers = {"c1"}
    MaxLines = 2  MaxConcurrent = 1
    MaxVersion = 1  MaxSnapshots = 2
    NumChecks = 3  NumShell = 1  NumSteps = 2  MaxParallel = 2
    Titles <- MCTitles  Semvers = {"v0.13.1", "v0.13.10", "v0.14.0"}
    Refs = {"main"}  ListLimit = 2
SYMMETRY Symmetry
INVARIANT ReportedIsInstalled
INVARIANT PromisedIsScheduled
INVARIANT SkipMeansDone
INVARIANT TokenHonoured
INVARIANT SuccessIsTrue
INVARIANT FirstKeyOnly
INVARIANT NothingLeaks
INVARIANT MonotonicReads
INVARIANT OKMeansPulled
INVARIANT SurvivesOneRotation
INVARIANT MarkersVouch
INVARIANT GreenMeansGood
INVARIANT TagIsOfPin
PROPERTY ReadersGoForward
PROPERTY VerdictIsRight
PROPERTY SkillsAreSigned
CHECK_DEADLOCK FALSE
