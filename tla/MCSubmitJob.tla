---------------------------- MODULE MCSubmitJob ----------------------------
(* Instances of SubmitJob for TLC: r1 and r2 carry the same cloud_job_id,  *)
(* r2 being the customer plane's retry of r1; r3 is a call for another job. *)
EXTENDS SubmitJob, TLC

CONSTANTS r1, r2, r3, c1, c2, j1, j2

MCJobOf == (r1 :> j1) @@ (r2 :> j1) @@ (r3 :> j2)
Asking(s1, s2, s3) == (r1 :> s1) @@ (r2 :> s2) @@ (r3 :> s3)

\* A subscription, its serialised retry and another job; nothing fails but
\* clients hang up, a subscription is cancelled and the gateway restarts.
Serial == [calls |-> {r1, r2, r3}, skuOf |-> Asking("triage", "triage", "oneshot"),
           leavers |-> {r1}, cancels |-> {c1}, overlapOK |-> FALSE,
           diskFails |-> FALSE, powerFails |-> FALSE, maxRestarts |-> 1]

\* A delegate and a subscription overlap under one id, two CancelTask calls
\* and a client that hangs up.
Cancelled == [calls |-> {r1, r2}, skuOf |-> Asking("delegate", "triage", "unknown"),
              leavers |-> {r1}, cancels |-> {c1, c2}, overlapOK |-> TRUE,
              diskFails |-> FALSE, powerFails |-> FALSE, maxRestarts |-> 0]

\* The same calls and one CancelTask, with disk errors and a power loss.
PowerLoss == [calls |-> {r1, r2}, skuOf |-> Asking("delegate", "triage", "unknown"),
              leavers |-> {}, cancels |-> {c1}, overlapOK |-> TRUE,
              diskFails |-> TRUE, powerFails |-> TRUE, maxRestarts |-> 1]

\* A delegate and a one-shot job overlap with a call that lacks a field, and
\* the map file cannot always be read or written.
Contended == [calls |-> {r1, r2, r3}, skuOf |-> Asking("delegate", "oneshot", "malformed"),
              leavers |-> {}, cancels |-> {c1}, overlapOK |-> TRUE,
              diskFails |-> TRUE, powerFails |-> FALSE, maxRestarts |-> 0]

\* Overlapping calls of both jobs, one with a SKU nobody registered.
Mapped == [calls |-> {r1, r2, r3}, skuOf |-> Asking("oneshot", "unknown", "oneshot"),
           leavers |-> {}, cancels |-> {}, overlapOK |-> TRUE,
           diskFails |-> FALSE, powerFails |-> FALSE, maxRestarts |-> 1]

MCEnvs == {Serial, Cancelled, PowerLoss, Contended, Mapped}

\* Two delegates overlap under one id; nothing fails.
OverlapEnvs == {[calls |-> {r1, r2}, skuOf |-> Asking("delegate", "delegate", "unknown"),
                 leavers |-> {}, cancels |-> {}, overlapOK |-> TRUE,
                 diskFails |-> FALSE, powerFails |-> FALSE, maxRestarts |-> 0]}
=============================================================================
