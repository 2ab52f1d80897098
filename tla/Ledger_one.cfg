SPECIFICATION FairSpec
CONSTANTS
    w1 = w1
    Writers = {w1}
    MaxTs = 5
    Envs <- OneAppender
INVARIANT AckedSurvives
INVARIANT TailExactlyOnce
PROPERTY TailDelivers
CHECK_DEADLOCK FALSE
