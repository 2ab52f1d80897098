SPECIFICATION Spec
CONSTANTS
    l1 = l1  l2 = l2  r1 = r1  r2 = r2
    Logs = {l1, l2}
    Rotators = {r1, r2}
    MaxLines = 9
    MaxTime = 3
    Envs <- MCEnvs
INVARIANT LossOnlyInWindow
CHECK_DEADLOCK FALSE
