------------------------------ MODULE MCLedger ------------------------------
(* One writer appending up to MaxTs entries to one task file.               *)
EXTENDS Ledger

CONSTANT w1

\* One appender on a failing disk and with one power loss, on a good disk
\* with two and crashes, and undisturbed.
OneAppender ==
    {[writers |-> {w1}, powerLosses |-> 1, crashes |-> FALSE, diskFails |-> TRUE],
     [writers |-> {w1}, powerLosses |-> 2, crashes |-> TRUE, diskFails |-> FALSE],
     [writers |-> {w1}, powerLosses |-> 0, crashes |-> FALSE, diskFails |-> FALSE]}
=============================================================================
