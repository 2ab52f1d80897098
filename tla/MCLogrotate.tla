---------------------------- MODULE MCLogrotate ----------------------------
(* Instances of Logrotate for TLC.                                         *)
EXTENDS Logrotate

CONSTANTS l1, l2, r1, r2

\* Two logs, one rotator, any failure.
Failing == [logs |-> {l1, l2}, rotators |-> {r1}, threshold |-> 1, keep |-> 1,
            faults |-> TRUE, powerFails |-> FALSE, lines |-> 3, seconds |-> 1]

\* One log, one rotator, four runs that reach --keep.
Working == [logs |-> {l1}, rotators |-> {r1}, threshold |-> 2, keep |-> 2,
            faults |-> FALSE, powerFails |-> FALSE, lines |-> 9, seconds |-> 3]

\* One log, two rotators, any failure and power loss.
Crowded == [logs |-> {l1}, rotators |-> {r1, r2}, threshold |-> 1, keep |-> 1,
            faults |-> TRUE, powerFails |-> TRUE, lines |-> 2, seconds |-> 1]

MCEnvs == {Failing, Working, Crowded}
=============================================================================
