------------------------------ MODULE Publisher ------------------------------
(***************************************************************************)
(* fleetctl snapshot-publish: the loop that launchd keeps running, and a   *)
(* --once an operator may start beside it.  Both write <out>.tmp and       *)
(* rename it to <out>, then PUT the snapshot to the cloud.  Each asks its  *)
(* own handler for the snapshot, and the loop's handler keeps one for 30s. *)
(* Snapshots are numbered in the order they were built.                    *)
(*                                                                         *)
(* Operators named A_xyz are plausible bugs of the definition A below them.*)
(***************************************************************************)
EXTENDS Naturals

CONSTANT MaxSnapshots   \* bound: snapshots built

Publishers == {"loop", "once"}
Partial == MaxSnapshots + 1     \* a file that is not whole
Snapshots == 0..MaxSnapshots    \* 0: the file is not there

VARIABLES
    out,        \* the published file
    tmp,        \* <out>.tmp
    cloud,      \* what the PUT endpoint holds
    late,       \* PUTs given up on by the client that can still arrive
    built,      \* number of snapshots built
    cached,     \* snapshot the loop's handler keeps, 0: none
    pub,        \* [Publishers -> step, snapshot in hand, file of its descriptor]
    failures,   \* consecutiveFailures of the loop
    held,       \* history: snapshots the published file has held
    together    \* history: both publishers were at work at some time

vars == <<out, tmp, cloud, late, built, cached, pub, failures, held, together>>

Idle == [at |-> "idle", snap |-> 0, fd |-> "none"]

TypeOK ==
    /\ out \in Snapshots \cup {Partial} /\ tmp \in Snapshots \cup {Partial}
    /\ cloud \in Snapshots /\ late \subseteq Snapshots
    /\ built \in Snapshots /\ failures \in 0..MaxSnapshots
    /\ pub \in [Publishers -> [at : {"idle", "open", "write", "sync", "rename", "put"},
                               snap : Snapshots, fd : {"none", "tmp", "out", "unlinked"}]]
    /\ cached \in Snapshots /\ held \subseteq Snapshots \cup {Partial} /\ together \in BOOLEAN

Init ==
    /\ out = 0 /\ tmp = 0 /\ cloud = 0 /\ late = {} /\ built = 0
    /\ pub = [p \in Publishers |-> Idle]
    /\ failures = 0 /\ cached = 0 /\ held = {0} /\ together = FALSE

At(p, step) == pub[p].at = step
Goto(p, step) == pub' = [pub EXCEPT ![p].at = step]
End(p) == pub' = [pub EXCEPT ![p] = Idle]

\* The loop counts a failed turn and waits for the next; --once exits.
Fail(p) ==
    /\ End(p)
    /\ failures' = IF p = "loop" /\ failures < MaxSnapshots THEN failures + 1 ELSE failures

-----------------------------------------------------------------------------
\* A turn: publishOnce, or publish() in publishLoop, both in this order.
Begin(p, snap) ==
    /\ pub' = [pub EXCEPT ![p] = [at |-> "open", snap |-> snap, fd |-> "none"]]
    /\ together' = (together \/ \E q \in Publishers \ {p} : ~At(q, "idle"))
    /\ UNCHANGED failures

\* handler.Snapshot builds one and keeps it (a --once exits with its handler), ...
Build(p) ==
    /\ At(p, "idle") /\ built < MaxSnapshots
    /\ built' = built + 1
    /\ \/ /\ Begin(p, built + 1)
          /\ cached' = IF p = "loop" THEN built + 1 ELSE cached
       \/ Fail(p) /\ UNCHANGED <<cached, together>>
    /\ UNCHANGED <<out, tmp, cloud, late, held>>

\* ... or returns the one it built less than cacheTTL ago.
FromCache ==
    /\ At("loop", "idle") /\ cached # 0
    /\ Begin("loop", cached)
    /\ UNCHANGED <<out, tmp, cloud, late, built, cached, held>>

\* writeBytesAtomic: os.WriteFile truncates and fills ...
OpenTmp(p) ==
    /\ At(p, "open")
    /\ \/ /\ tmp' = Partial
          /\ pub' = [pub EXCEPT ![p].at = "write", ![p].fd = "tmp"]
          /\ UNCHANGED failures
       \/ Fail(p) /\ UNCHANGED tmp
    /\ UNCHANGED <<out, cloud, late, built, cached, held, together>>

\* ... into the file it opened, which the other may have renamed by now ...
WriteTmp(p) ==
    /\ At(p, "write")
    /\ \/ /\ tmp' = IF pub[p].fd = "tmp" THEN pub[p].snap ELSE tmp
          /\ out' = IF pub[p].fd = "out" THEN pub[p].snap ELSE out
          /\ Goto(p, "sync")
          /\ UNCHANGED failures
       \/ Fail(p) /\ UNCHANGED <<out, tmp>>
    /\ held' = held \cup {out'}
    /\ UNCHANGED <<cloud, late, built, cached, together>>

\* ... then reopens it by name to fsync it, ...
SyncTmp(p) ==
    /\ At(p, "sync")
    /\ \/ tmp # 0 /\ Goto(p, "rename") /\ UNCHANGED failures
       \/ Fail(p)
    /\ UNCHANGED <<out, tmp, cloud, late, built, cached, held, together>>

\* Where a descriptor's file is after <out>.tmp was renamed over <out>.
MovedTo == [none |-> "none", tmp |-> "out", out |-> "unlinked", unlinked |-> "unlinked"]

Rename_first(p) ==
    /\ At(p, "write")
    /\ out' = tmp /\ tmp' = 0
    /\ pub' = [pub EXCEPT ![p].at = "put", ![p].fd = "none"]
    /\ failures' = IF p = "loop" THEN 0 ELSE failures
    /\ held' = held \cup {tmp}
    /\ UNCHANGED <<cloud, late, built, cached, together>>

\* ... and renames what has the name.
Rename(p) ==
    /\ At(p, "rename")
    /\ \/ /\ tmp # 0
          /\ out' = tmp /\ tmp' = 0
          /\ pub' = [q \in Publishers |->
                        IF q = p THEN [pub[p] EXCEPT !.at = "put", !.fd = "none"]
                        ELSE [pub[q] EXCEPT !.fd = MovedTo[@]]]
          /\ failures' = IF p = "loop" THEN 0 ELSE failures
       \/ Fail(p) /\ UNCHANGED <<out, tmp>>
    /\ held' = held \cup {out'}
    /\ UNCHANGED <<cloud, late, built, cached, together>>

\* No URL, a failed and a timed-out PUT alike do not fail the turn.
doHTTPPut(p) ==
    /\ At(p, "put")
    /\ \/ cloud' = pub[p].snap /\ UNCHANGED late
       \/ late' = late \cup {pub[p].snap} /\ UNCHANGED cloud
       \/ UNCHANGED <<cloud, late>>
    /\ End(p)
    /\ UNCHANGED <<out, tmp, built, cached, failures, held, together>>

-----------------------------------------------------------------------------
LatePut ==
    /\ \E s \in late : cloud' = s /\ late' = late \ {s}
    /\ UNCHANGED <<out, tmp, built, cached, pub, failures, held, together>>

\* The process dies; launchd starts the loop again, with its counter at zero and
\* nothing in its cache.
Die(p) ==
    /\ ~At(p, "idle") \/ p = "loop"
    /\ End(p)
    /\ failures' = IF p = "loop" THEN 0 ELSE failures
    /\ cached' = IF p = "loop" THEN 0 ELSE cached
    /\ UNCHANGED <<out, tmp, cloud, late, built, held, together>>

Step(p) == Build(p) \/ OpenTmp(p) \/ WriteTmp(p) \/ SyncTmp(p) \/ Rename(p)
           \/ doHTTPPut(p) \/ Die(p)

Next == (\E p \in Publishers : Step(p)) \/ FromCache \/ LatePut

Spec == Init /\ [][Next]_vars

-----------------------------------------------------------------------------
\* What no step may do.  While the two publishers take turns, a reader of the
\* published file finds a whole snapshot that is no older than the one it found
\* before, through failed and interrupted turns; only the one the loop's handler
\* still keeps comes back over a newer one of --once.  The cloud holds only what
\* the file has held (writeBytesAtomic before doHTTPPut).  At work at once they
\* share <out>.tmp, and none of this holds.
ReadersGoForward ==
    ~together' => /\ out' # Partial
                  /\ out <= out' \/ (At("loop", "rename") /\ out' = cached)
                  /\ cloud' \in held'
=============================================================================
