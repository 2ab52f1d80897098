------------------------------- MODULE Budget -------------------------------
(***************************************************************************)
(* internal/budget: the daily request and cost caps of one pairing, kept   *)
(* in <id>.json and changed by concurrent fleetctl processes under an      *)
(* exclusive flock on <id>.lock.  Pairings share nothing, so one is        *)
(* modelled.  Each system call of save() is a step, so a process can die   *)
(* or the machine can lose power between any two of them.                  *)
(*                                                                         *)
(* Operators named A_xyz are plausible bugs of the action A below them.    *)
(***************************************************************************)
EXTENDS Integers

CONSTANTS
    Procs,            \* fleetctl invocations
    Costs,            \* costCents arguments
    Caps,             \* SetLimits arguments, 0 meaning "keep"
    DefaultRequests, DefaultCost,
    MaxDay,           \* bound on the calendar
    Envs              \* the environments a behaviour may run in

\* An environment says which processes run, which calls they may make, how
\* often the power may fail, whether a system call of load() or save() can
\* fail, and whether the (unchecked) directory fsync can.
Ops == [kind : {"consume", "check", "get"}, cost : Costs]
         \cup [kind : {"limits"}, maxReq : Caps, maxCost : Caps]
EnvRecords == [procs : SUBSET Procs, calls : SUBSET Ops, powerLosses : Nat,
               diskFails : BOOLEAN, dirSyncFails : BOOLEAN]

ASSUME BudgetAssumption ==
    /\ Costs \subseteq Nat /\ Caps \subseteq Nat
    /\ DefaultRequests \in Nat /\ DefaultCost \in Nat
    /\ MaxDay \in Nat
    /\ Envs \subseteq EnvRecords

VARIABLES
    env,       \* the environment, chosen once
    pc,        \* [Procs -> PCs]
    op,        \* [env.procs -> Ops]: the call and its arguments
    st,        \* [Procs -> States]: the State value in the process's memory
    res,       \* [Procs -> Results]: what the call returns
    holds,     \* [Procs -> BOOLEAN]: who has the flock
    file,      \* <id>.json as a reader sees it
    durable,   \* <id>.json as it would be after a power loss
    tmp,       \* <id>.json.tmp: its content, and whether it was fsynced
    day,       \* the UTC date
    reqs, cost,\* requests and cost acknowledged per day
    losses

vars == <<env, pc, op, st, res, holds, file, durable, tmp, day, reqs, cost, losses>>

DiskFails == env.diskFails
DirSyncFails == env.dirSyncFails
Days == 0..MaxDay
States == [date : Days, requests : Nat, cost : Nat, maxReq : Nat, maxCost : Nat]

\* A file is missing, garbage that json.Unmarshal rejects, or a State.
Missing == [kind |-> "missing"]
Torn == [kind |-> "torn"]
Holding(s) == [kind |-> "state", state |-> s]
Files == {Missing, Torn} \cup [kind : {"state"}, state : States]

PCs == {"idle", "lock", "load", "decide", "tmp", "sync", "rename", "dirsync",
        "unlock", "done"}
Critical == {"load", "decide", "tmp", "sync", "rename", "dirsync", "unlock"}
Results == {"none", "ok", "rate limit", "cost cap", "error"}

\* What load() returns for a pairing without a file.
Fresh(d) == [date |-> d, requests |-> 0, cost |-> 0,
             maxReq |-> DefaultRequests, maxCost |-> DefaultCost]

\* rollDay: counters start over when the stored date is not today.
RollDay(s, d) == IF s.date = d THEN s
                 ELSE [s EXCEPT !.date = d, !.requests = 0, !.cost = 0]

\* The two checks of Check and Consume.
Verdict(s, c) == IF s.requests >= s.maxReq THEN "rate limit"
                 ELSE IF s.cost + c > s.maxCost THEN "cost cap"
                 ELSE "ok"

\* SetLimits: 0 keeps the current value.
Limited(s, o) ==
    [s EXCEPT !.maxReq = IF o.maxReq > 0 THEN o.maxReq ELSE @,
              !.maxCost = IF o.maxCost > 0 THEN o.maxCost ELSE @]

TypeOK ==
    /\ env \in Envs
    /\ pc \in [Procs -> PCs]
    /\ op \in [env.procs -> Ops]
    /\ st \in [Procs -> States]
    /\ res \in [Procs -> Results]
    /\ holds \in [Procs -> BOOLEAN]
    /\ file \in Files
    /\ durable \in Files
    /\ tmp \in [data : Files, synced : BOOLEAN]
    /\ day \in Days
    /\ reqs \in [Days -> Nat]
    /\ cost \in [Days -> Nat]
    /\ losses \in 0..env.powerLosses

Init ==
    /\ env \in Envs
    /\ pc = [p \in Procs |-> "idle"]
    /\ op \in [env.procs -> env.calls]
    /\ st = [p \in Procs |-> Fresh(0)]
    /\ res = [p \in Procs |-> "none"]
    /\ holds = [p \in Procs |-> FALSE]
    /\ file = Missing
    /\ durable = Missing
    /\ tmp = [data |-> Missing, synced |-> FALSE]
    /\ day = 0
    /\ reqs = [d \in Days |-> 0]
    /\ cost = [d \in Days |-> 0]
    /\ losses = 0

Goto(p, l) == pc' = [pc EXCEPT ![p] = l]
Result(p, r) == res' = [res EXCEPT ![p] = r]
Disk == <<file, durable, tmp>>
World == <<op, day, reqs, cost, losses>>

-----------------------------------------------------------------------------
\* The process opens <id>.lock; a failed open ends the call.
Start(p) ==
    /\ pc[p] = "idle"
    /\ \/ Goto(p, "lock") /\ UNCHANGED res
       \/ DiskFails /\ Goto(p, "done") /\ Result(p, "error")
    /\ UNCHANGED <<st, holds, Disk, World>>

\* Bug: a shared lock where an exclusive one is needed.
Lock_shared(p) ==
    /\ pc[p] = "lock"
    /\ holds' = [holds EXCEPT ![p] = TRUE]
    /\ Goto(p, "load")
    /\ UNCHANGED <<st, res, Disk, World>>

\* syscall.Flock(LOCK_EX) blocks until no other process has the lock.
Lock(p) ==
    /\ pc[p] = "lock"
    /\ \A q \in Procs : ~holds[q]
    /\ holds' = [holds EXCEPT ![p] = TRUE]
    /\ Goto(p, "load")
    /\ UNCHANGED <<st, res, Disk, World>>

\* load(): no file means a fresh State for today; an unreadable or garbled
\* one is an error.
Load(p) ==
    /\ pc[p] = "load"
    /\ \/ /\ file = Missing
          /\ st' = [st EXCEPT ![p] = Fresh(day)]
          /\ Goto(p, "decide")
          /\ UNCHANGED res
       \/ /\ file.kind = "state"
          /\ st' = [st EXCEPT ![p] = file.state]
          /\ Goto(p, "decide")
          /\ UNCHANGED res
       \/ /\ file = Torn \/ DiskFails
          /\ Result(p, "error")
          /\ Goto(p, "unlock")
          /\ UNCHANGED st
    /\ UNCHANGED <<holds, Disk, World>>

\* Consume within the caps: the new counters go to save().
Charge(p) ==
    LET s == RollDay(st[p], day) IN
    /\ pc[p] = "decide" /\ op[p].kind = "consume"
    /\ Verdict(s, op[p].cost) = "ok"
    /\ st' = [st EXCEPT ![p] = [s EXCEPT !.requests = @ + 1,
                                         !.cost = @ + op[p].cost]]
    /\ Goto(p, "tmp")
    /\ UNCHANGED <<res, holds, Disk, World>>

\* Consume over a cap, and the read-only Check and Get.
Answer(p) ==
    LET s == RollDay(st[p], day)
        v == IF op[p].kind = "get" THEN "ok" ELSE Verdict(s, op[p].cost) IN
    /\ pc[p] = "decide" /\ op[p].kind \in {"consume", "check", "get"}
    /\ op[p].kind = "consume" => v # "ok"
    /\ st' = [st EXCEPT ![p] = s]
    /\ Result(p, v)
    /\ Goto(p, "unlock")
    /\ UNCHANGED <<holds, Disk, World>>

\* SetLimits does not roll the day.
SetLimits(p) ==
    /\ pc[p] = "decide" /\ op[p].kind = "limits"
    /\ st' = [st EXCEPT ![p] = Limited(st[p], op[p])]
    /\ Goto(p, "tmp")
    /\ UNCHANGED <<res, holds, Disk, World>>

-----------------------------------------------------------------------------
\* save(): any failing call before the rename removes the temp file and
\* returns the error with <id>.json untouched (a failed open made no file,
\* a failed rename leaves it).
SaveFails(p) ==
    /\ DiskFails
    /\ pc[p] \in {"tmp", "sync", "rename"}
    /\ tmp' = IF pc[p] = "rename" THEN tmp ELSE [data |-> Missing, synced |-> FALSE]
    /\ Result(p, "error")
    /\ Goto(p, "unlock")
    /\ UNCHANGED <<st, holds, file, durable, World>>

WriteTmp(p) ==
    /\ pc[p] = "tmp"
    /\ tmp' = [data |-> Holding(st[p]), synced |-> FALSE]
    /\ Goto(p, "sync")
    /\ UNCHANGED <<st, res, holds, file, durable, World>>

SyncTmp(p) ==
    /\ pc[p] = "sync"
    /\ tmp' = [tmp EXCEPT !.synced = TRUE]
    /\ Goto(p, "rename")
    /\ UNCHANGED <<st, res, holds, file, durable, World>>

\* After the rename the directory entry may or may not have reached the
\* disk; if it has, the data behind it is whole only if it was fsynced.
Rename(p) ==
    /\ pc[p] = "rename"
    /\ file' = tmp.data
    /\ \/ UNCHANGED durable
       \/ durable' = IF tmp.synced THEN tmp.data ELSE Torn
    /\ tmp' = [data |-> Missing, synced |-> FALSE]
    /\ Goto(p, "dirsync")
    /\ UNCHANGED <<st, res, holds, World>>

\* Bug: success is returned straight after the rename.
SyncDir_skip(p) ==
    /\ pc[p] = "dirsync"
    /\ Result(p, "ok")
    /\ Goto(p, "unlock")
    /\ UNCHANGED <<st, holds, Disk, World>>

\* The directory fsync; its errors are ignored.
SyncDir(p) ==
    /\ pc[p] = "dirsync"
    /\ \/ durable' = file
       \/ DirSyncFails /\ UNCHANGED durable
    /\ Result(p, "ok")
    /\ Goto(p, "unlock")
    /\ UNCHANGED <<st, holds, file, tmp, World>>

\* The deferred unlock; with it a successful Consume becomes a grant.
Unlock(p) ==
    /\ pc[p] = "unlock"
    /\ holds' = [holds EXCEPT ![p] = FALSE]
    /\ Goto(p, "done")
    /\ \/ /\ op[p].kind = "consume" /\ res[p] = "ok"
          /\ reqs' = [reqs EXCEPT ![st[p].date] = @ + 1]
          /\ cost' = [cost EXCEPT ![st[p].date] = @ + op[p].cost]
       \/ /\ op[p].kind # "consume" \/ res[p] # "ok"
          /\ UNCHANGED <<reqs, cost>>
    /\ UNCHANGED <<op, st, res, Disk, day, losses>>

-----------------------------------------------------------------------------
\* A killed process: the kernel closes its descriptors and drops its lock.
Crash(p) ==
    /\ pc[p] \notin {"idle", "done"}
    /\ Goto(p, "done")
    /\ Result(p, "none")
    /\ holds' = [holds EXCEPT ![p] = FALSE]
    /\ UNCHANGED <<st, Disk, World>>

\* The machine goes down: every process dies and the disk is what is left.
PowerLoss ==
    /\ losses < env.powerLosses
    /\ losses' = losses + 1
    /\ pc' = [p \in Procs |-> IF pc[p] = "idle" THEN "idle" ELSE "done"]
    /\ res' = [p \in Procs |-> IF pc[p] \in {"idle", "done"} THEN res[p] ELSE "none"]
    /\ holds' = [p \in Procs |-> FALSE]
    /\ file' = durable
    /\ tmp' = [data |-> Missing, synced |-> FALSE]
    /\ UNCHANGED <<op, st, durable, day, reqs, cost>>

\* Midnight, UTC.  The clock does not run backwards.
Tick == /\ day < MaxDay
        /\ day' = day + 1
        /\ UNCHANGED <<pc, op, st, res, holds, Disk, reqs, cost, losses>>

CallStep(p) ==
    \/ Lock(p) \/ Load(p) \/ Charge(p) \/ Answer(p) \/ SetLimits(p)
    \/ SaveFails(p) \/ WriteTmp(p) \/ SyncTmp(p) \/ Rename(p) \/ SyncDir(p)
    \/ Unlock(p)

Next ==
    /\ \/ \E p \in env.procs : Start(p) \/ CallStep(p) \/ Crash(p)
       \/ PowerLoss
       \/ Tick
    /\ UNCHANGED env

Spec == Init /\ [][Next]_vars

-----------------------------------------------------------------------------
LimitsOf(f) == IF f.kind = "state" THEN f.state ELSE Fresh(0)

\* The abstract budget: grants are the acknowledged Consume calls, the caps
\* in force are the file's.
Abs == INSTANCE BudgetSpec
          WITH maxReq <- LimitsOf(file).maxReq, maxCost <- LimitsOf(file).maxCost

\* The flocked read-modify-write of Consume implements the abstract budget:
\* no interleaving, crash, power loss or midnight grants past a daily cap.
RefinesBudgetSpec == Abs!Spec

\* f counts everything acknowledged on its date, and nothing was
\* acknowledged on a later one.
CountsAll(f) ==
    \A d \in Days :
        \/ reqs[d] = 0 /\ cost[d] = 0
        \/ /\ f.kind = "state" /\ d <= f.state.date
           /\ d = f.state.date => /\ reqs[d] <= f.state.requests
                                  /\ cost[d] <= f.state.cost

\* An acknowledged Consume is on the platter: a power loss cannot give its
\* budget back ("allowing a billed request to be billed twice on restart").
\* The directory fsync, whose error save() ignores, has to succeed.
GrantsAreDurable == ~DirSyncFails => CountsAll(durable)
=============================================================================
