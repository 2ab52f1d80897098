----------------------------- MODULE MCWatchdog -----------------------------
(* A pager (PagerDuty) and a chat backend (ntfy).                           *)
EXTENDS Watchdog

CONSTANTS pd, ntfy

Calmly(w, n) == [workers |-> w, slowSends |-> FALSE, sendFails |-> FALSE,
                 diskFails |-> FALSE, maxCrashes |-> n]

\* Two hosts and no fault; one host and a crash; one host with failing sends and
\* disk operations, where either sends take time or the process may crash.
MCEnvs == {Calmly({1, 2}, 0), Calmly({1}, 1),
           [workers |-> {1}, slowSends |-> TRUE, sendFails |-> TRUE,
            diskFails |-> TRUE, maxCrashes |-> 0],
           [workers |-> {1}, slowSends |-> FALSE, sendFails |-> TRUE,
            diskFails |-> TRUE, maxCrashes |-> 1]}
=============================================================================
