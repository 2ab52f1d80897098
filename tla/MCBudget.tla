------------------------------ MODULE MCBudget ------------------------------
(* Up to three fleetctl processes against one pairing with a cap of two    *)
(* requests and three cents a day: two calls fit, a third one does not.    *)
EXTENDS Budget

CONSTANTS p1, p2, p3

Consume(c) == [kind |-> "consume", cost |-> c]
Read(kind) == [kind |-> kind, cost |-> 2]
Limits(r, c) == [kind |-> "limits", maxReq |-> r, maxCost |-> c]

\* Three processes that may be killed; three and a power loss; two on a disk
\* that fails.
AllEnvs ==
    {[procs |-> {p1, p2, p3}, calls |-> {Consume(1), Consume(2), Limits(1, 0)},
      powerLosses |-> 0, diskFails |-> FALSE, dirSyncFails |-> FALSE],
     [procs |-> {p1, p2, p3}, calls |-> {Consume(2), Limits(1, 1)},
      powerLosses |-> 1, diskFails |-> FALSE, dirSyncFails |-> FALSE],
     [procs |-> {p1, p2}, calls |-> {Consume(2), Limits(0, 1), Read("check"), Read("get")},
      powerLosses |-> 0, diskFails |-> TRUE, dirSyncFails |-> TRUE]}
=============================================================================
