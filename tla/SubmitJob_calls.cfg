SPECIFICATION FairSpec
CONSTANTS
    r1 = r1  r2 = r2  r3 = r3  c1 = c1  c2 = c2  j1 = j1  j2 = j2
    None = None
    Reqs = {r1, r2, r3}
    Jobs = {j1, j2}
    Cancellers = {c1, c2}
    JobOf <- MCJobOf
    Envs <- MCEnvs
INVARIANT SerialCallsDispatchOnce
INVARIANT SameTaskForRetries
INVARIANT RegistryIsExact
PROPERTY NoLostMapping
PROPERTY CallsEnd
CHECK_DEADLOCK FALSE
