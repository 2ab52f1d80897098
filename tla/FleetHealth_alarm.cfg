SPECIFICATION FleetSpec
CONSTANTS
  NumHosts = 1
  BridgeInterval = 2
  SSHTimeout = 1
  BridgeStaleMax = 2
  BeatPeriod = 1
  Hangs = FALSE
  Backends = {"ntfy"}
  Pagers = {}
  StaleMax = 3
  DedupWindow = 9
  Interval = 2
  Envs <- MCEnvs
INVARIANT DeadIsReported
PROPERTY NoFalseAlarm
