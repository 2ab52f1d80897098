--------------------------- MODULE HealthSnapshot ---------------------------
(***************************************************************************)
(* fleet.HealthSnapshot: the snapshot cache with its fast path and its     *)
(* single-flight rebuild, as concurrent RPC calls drive it.                *)
(*                                                                         *)
(* A snapshot is its build number and its gateway.ok; the cache also knows *)
(* how long ago it was filled.                                             *)
(*                                                                         *)
(* Operators named A_xyz are plausible bugs of the definition A below them.*)
(***************************************************************************)
EXTENDS Integers

CONSTANTS
    Callers,
    TTL,            \* cacheTTL
    MaxBuilds,      \* bound on the builds explored
    Refreshes,      \* are there callers of Refresh?
    Leavers         \* callers whose client may go away during the call

VARIABLES
    pc,         \* [Callers -> PCs]
    force,      \* [Callers -> BOOLEAN]: Refresh rather than Snapshot
    gone,       \* [Callers -> BOOLEAN]: the request's context is cancelled
    mutex,      \* holder of h.refresh
    cached,     \* h.cached with h.cachedAt
    comp,       \* [Callers -> Snapshots]: what compute has put together
    got,        \* [Callers -> Snapshots]: what the call returned
    floor,      \* history: newest build anyone had when the call began
    newest,     \* history: newest build returned
    builds

vars == <<pc, force, gone, mutex, cached, comp, got, floor, newest, builds>>

None == "none"
PCs == {"idle", "fast", "lock", "recheck", "version", "scan"}
Snapshots == [id : 0..MaxBuilds, ok : BOOLEAN]
Nothing == [id |-> 0, ok |-> FALSE]

TypeOK ==
    /\ pc \in [Callers -> PCs]
    /\ force \in [Callers -> BOOLEAN] /\ gone \in [Callers -> BOOLEAN]
    /\ mutex \in {None} \cup Callers
    /\ cached \in [snap : Snapshots, at : 0..TTL]
    /\ comp \in [Callers -> Snapshots]
    /\ got \in [Callers -> Snapshots]
    /\ floor \in [Callers -> 0..MaxBuilds]
    /\ newest \in 0..MaxBuilds
    /\ builds \in 0..MaxBuilds
    /\ \A c \in Callers : pc[c] \in {"recheck", "version", "scan"} => mutex = c

Init ==
    /\ pc = [c \in Callers |-> "idle"]
    /\ force = [c \in Callers |-> FALSE]
    /\ gone = [c \in Callers |-> FALSE]
    /\ mutex = None
    /\ cached = [snap |-> Nothing, at |-> 0]
    /\ comp = [c \in Callers |-> Nothing]
    /\ got = [c \in Callers |-> Nothing]
    /\ floor = [c \in Callers |-> 0]
    /\ newest = 0
    /\ builds = 0

Goto(c, l) == pc' = [pc EXCEPT ![c] = l]

\* cached != nil && Now().Sub(cachedAt) < cacheTTL
Fresh == cached.snap.id # 0 /\ cached.at < TTL

\* The call returns s.
Return(c, s) ==
    /\ Goto(c, "idle")
    /\ got' = [got EXCEPT ![c] = s]
    /\ newest' = IF s.id > newest THEN s.id ELSE newest

-----------------------------------------------------------------------------
\* The RPC server calls Handle; Refresh goes straight to the mutex.
Call(c) ==
    /\ pc[c] = "idle"
    /\ \/ Goto(c, "fast") /\ force' = [force EXCEPT ![c] = FALSE]
       \/ Refreshes /\ Goto(c, "lock") /\ force' = [force EXCEPT ![c] = TRUE]
    /\ gone' = [gone EXCEPT ![c] = FALSE]
    /\ floor' = [floor EXCEPT ![c] = newest]
    /\ got' = [got EXCEPT ![c] = Nothing]
    /\ UNCHANGED <<mutex, cached, comp, newest, builds>>

\* Snapshot's fast path under the read lock.
FastPath(c) ==
    /\ pc[c] = "fast"
    /\ IF Fresh THEN Return(c, cached.snap) ELSE Goto(c, "lock") /\ UNCHANGED <<got, newest>>
    /\ UNCHANGED <<force, gone, mutex, cached, comp, floor, builds>>

Lock(c) ==
    /\ pc[c] = "lock" /\ mutex = None
    /\ mutex' = c
    /\ Goto(c, "recheck")
    /\ UNCHANGED <<force, gone, cached, comp, got, floor, newest, builds>>

\* compute begins.
Begin(c) ==
    /\ builds < MaxBuilds
    /\ builds' = builds + 1
    /\ comp' = [comp EXCEPT ![c] = [id |-> builds + 1, ok |-> FALSE]]
    /\ Goto(c, "version")
    /\ UNCHANGED <<mutex, got, newest>>

\* The cache may have been filled while the caller waited for the mutex.
Recheck(c) ==
    /\ pc[c] = "recheck"
    /\ \/ /\ Fresh /\ ~force[c]
          /\ Return(c, cached.snap)
          /\ mutex' = None
          /\ UNCHANGED <<comp, builds>>
       \/ /\ ~Fresh \/ force[c]
          /\ Begin(c)
    /\ UNCHANGED <<force, gone, cached, floor>>

\* Bug: the mutex is released before the new snapshot is stored.
Version_unlock(c) ==
    /\ pc[c] = "version"
    /\ comp' = [comp EXCEPT ![c].ok = ~gone[c]]
    /\ Goto(c, "scan")
    /\ mutex' = None
    /\ UNCHANGED <<force, gone, cached, got, floor, newest, builds>>

\* HermesVersion(ctx) with the context of this caller's request: when its
\* client is gone the subprocess is killed and the version unknown.
Version(c) ==
    /\ pc[c] = "version"
    /\ comp' = [comp EXCEPT ![c].ok = ~gone[c]]
    /\ Goto(c, "scan")
    /\ UNCHANGED <<force, gone, mutex, cached, got, floor, newest, builds>>

\* Heartbeats and registry are read, and the result cached and returned.
Store(c) ==
    /\ pc[c] = "scan"
    /\ cached' = [snap |-> comp[c], at |-> 0]
    /\ Return(c, comp[c])
    /\ mutex' = IF mutex = c THEN None ELSE mutex
    /\ comp' = [comp EXCEPT ![c] = Nothing]
    /\ UNCHANGED <<force, gone, floor, builds>>

\* The client closes its connection: net/http cancels the request's context,
\* and the handler runs on.
Disconnect(c) ==
    /\ c \in Leavers /\ pc[c] # "idle" /\ ~gone[c]
    /\ gone' = [gone EXCEPT ![c] = TRUE]
    /\ UNCHANGED <<pc, force, mutex, cached, comp, got, floor, newest, builds>>

\* Time passes; beyond cacheTTL it makes no difference any more.
Tick ==
    /\ cached' = [cached EXCEPT !.at = IF cached.snap.id # 0 /\ @ < TTL THEN @ + 1 ELSE @]
    /\ UNCHANGED <<pc, force, gone, mutex, comp, got, floor, newest, builds>>

Step(c) == FastPath(c) \/ Lock(c) \/ Recheck(c) \/ Version(c) \/ Store(c)

Next == Tick \/ \E c \in Callers : Call(c) \/ Step(c) \/ Disconnect(c)

Spec == Init /\ [][Next]_vars

-----------------------------------------------------------------------------
\* A call never returns a snapshot older than one that another call had
\* returned before it began.
MonotonicReads == \A c \in Callers : got[c].id # 0 => got[c].id >= floor[c]

\* "`ok' is true when the fleetctl process is up and the pinned Hermes version
\* is known": hermes works throughout, so a client that is still there is
\* told so.
GatewayOK == \A c \in Callers : pc[c] = "idle" /\ got[c].id # 0 /\ ~gone[c] => got[c].ok
=============================================================================
