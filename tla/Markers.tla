------------------------------- MODULE Markers -------------------------------
(***************************************************************************)
(* Step markers: markers.Store and `fleetctl markers', used as the help of *)
(* `markers verify' says: a run skips the step if verify succeeds, else it *)
(* does the step and then calls `markers hash'.  Runs of one step may      *)
(* overlap and die; the input changes under them.  Hashes are injective,   *)
(* so an input stands for its hash.                                        *)
(*                                                                         *)
(* Write goes through <marker>.tmp, a name all runs share: a descriptor    *)
(* keeps writing to the file it was opened for, which another run may by   *)
(* then have renamed to the marker or replaced.                            *)
(*                                                                         *)
(* Operators named A_xyz are plausible bugs of the definition A below them.*)
(***************************************************************************)
CONSTANTS
    Runs,       \* processes running the pipeline
    Inputs      \* contents of the input file

VARIABLES
    input,      \* what the input file holds
    marker,     \* <step>.json: absent, partial or the hash of an input
    tmp,        \* <step>.json.tmp, likewise
    run,        \* [Runs -> step, hash or input in hand, file of its descriptor]
    done,       \* history: inputs the step completed with
    slipped,    \* history: inputs that replaced the one a run was working on
    skipped     \* history: inputs for which the step was skipped

vars == <<input, marker, tmp, run, done, slipped, skipped>>
history == <<done, slipped, skipped>>

Files == Inputs \cup {"absent", "partial"}
NoInput == "none"
Idle == [at |-> "idle", on |-> NoInput, fd |-> "none"]

TypeOK ==
    /\ input \in Inputs
    /\ marker \in Files /\ tmp \in Files
    /\ run \in [Runs -> [at : {"idle", "verify", "step", "hash", "open", "write", "rename"},
                         on : Inputs \cup {NoInput},
                         fd : {"none", "tmp", "marker", "unlinked"}]]
    /\ done \subseteq Inputs /\ slipped \subseteq Inputs /\ skipped \subseteq Inputs

Init ==
    /\ input = CHOOSE i \in Inputs : TRUE
    /\ marker = "absent" /\ tmp = "absent"
    /\ run = [r \in Runs |-> Idle]
    /\ done = {} /\ slipped = {} /\ skipped = {}

At(r, step) == run[r].at = step
Goto(r, step) == run' = [run EXCEPT ![r].at = step]
End(r) == run' = [run EXCEPT ![r] = Idle]
Take(r, step) == run' = [run EXCEPT ![r].at = step, ![r].on = input]

\* Descriptors after `from' was renamed over or unlinked as told by `where'.
Moved(where) == [q \in Runs |-> [run[q] EXCEPT !.fd = where[run[q].fd]]]
Unlinked(file) == Moved([f \in {"none", "tmp", "marker", "unlinked"} |->
                             IF f = file THEN "unlinked" ELSE f])
Renamed == Moved([none |-> "none", tmp |-> "marker",
                  marker |-> "unlinked", unlinked |-> "unlinked"])

-----------------------------------------------------------------------------
\* markers verify: hash the input, then compare with the marker.
runMarkersVerify(r) ==
    /\ At(r, "idle")
    /\ Take(r, "verify")
    /\ UNCHANGED <<input, marker, tmp>> /\ UNCHANGED history

\* Missing, stale and unreadable all exit 1.
IsFresh_step(r) ==
    /\ At(r, "verify")
    /\ IF marker # "absent"
       THEN End(r) /\ skipped' = skipped \cup {run[r].on}
       ELSE Take(r, "step") /\ UNCHANGED skipped
    /\ UNCHANGED <<input, marker, tmp, done, slipped>>

IsFresh(r) ==
    /\ At(r, "verify")
    /\ IF marker = run[r].on
       THEN End(r) /\ skipped' = skipped \cup {run[r].on}
       ELSE Take(r, "step") /\ UNCHANGED skipped
    /\ UNCHANGED <<input, marker, tmp, done, slipped>>

\* `run_step &&': a step that fails is not marked.
RunStep(r) ==
    /\ At(r, "step")
    /\ \/ Goto(r, "hash") /\ done' = done \cup {run[r].on}
       \/ End(r) /\ UNCHANGED done
    /\ UNCHANGED <<input, marker, tmp, slipped, skipped>>

\* markers hash: hashes the input as it is now, not as the step read it.
runMarkersHash(r) ==
    /\ At(r, "hash")
    /\ Take(r, "open")
    /\ slipped' = IF input = run[r].on THEN slipped ELSE slipped \cup {input}
    /\ UNCHANGED <<input, marker, tmp, done, skipped>>

\* Store.Write: open the temporary file, truncated.
OpenTmp(r) ==
    /\ At(r, "open")
    /\ tmp' = "partial"
    /\ run' = [run EXCEPT ![r].at = "write", ![r].fd = "tmp"]
    /\ UNCHANGED <<input, marker>> /\ UNCHANGED history

\* Write and fsync, into whatever the descriptor's file has become.  A failure
\* removes whatever has the temporary name.
WriteTmp(r) ==
    /\ At(r, "write")
    /\ \/ /\ tmp' = IF run[r].fd = "tmp" THEN run[r].on ELSE tmp
          /\ marker' = IF run[r].fd = "marker" THEN run[r].on ELSE marker
          /\ Goto(r, "rename")
       \/ /\ tmp' = "absent" /\ UNCHANGED marker
          /\ run' = [Unlinked("tmp") EXCEPT ![r] = Idle]
    /\ UNCHANGED input /\ UNCHANGED history

\* The rename takes what the temporary name stands for; it fails if that is gone.
Rename(r) ==
    /\ At(r, "rename")
    /\ IF tmp = "absent"
       THEN UNCHANGED <<marker, tmp>> /\ End(r)
       ELSE /\ marker' = tmp /\ tmp' = "absent"
            /\ run' = [Renamed EXCEPT ![r] = Idle]
    /\ UNCHANGED input /\ UNCHANGED history

runMarkersInvalidate ==
    /\ marker' = "absent"
    /\ run' = Unlinked("marker")
    /\ UNCHANGED <<input, tmp>> /\ UNCHANGED history

-----------------------------------------------------------------------------
NewInput ==
    /\ input' \in Inputs \ {input}
    /\ UNCHANGED <<marker, tmp, run>> /\ UNCHANGED history

Die(r) ==
    /\ ~At(r, "idle")
    /\ End(r)
    /\ UNCHANGED <<input, marker, tmp>> /\ UNCHANGED history

Next ==
    \/ \E r \in Runs :
           \/ runMarkersVerify(r) \/ IsFresh(r) \/ RunStep(r) \/ runMarkersHash(r)
           \/ OpenTmp(r) \/ WriteTmp(r) \/ Rename(r) \/ Die(r)
    \/ runMarkersInvalidate \/ NewInput

Spec == Init /\ [][Next]_vars

-----------------------------------------------------------------------------
\* A skipped step had been completed with that very input by some run, however
\* runs overlap, die or leave half a marker behind.  The exception: `markers
\* hash' reads the input after the step, and marks one that arrived meanwhile.
SkipMeansDone == skipped \subseteq done \cup slipped
=============================================================================
