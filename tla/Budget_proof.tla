---------------------------- MODULE Budget_proof ----------------------------
(***************************************************************************)
(* For any processes, calls, caps, costs and number of days: the budget's  *)
(* types, that an acknowledged Consume survives a power loss, and that the *)
(* flocked read-modify-write of Consume implements BudgetSpec, step by     *)
(* step.                                                                   *)
(***************************************************************************)
EXTENDS Budget, TLAPS

\* The directory fsync's error is ignored: where it can fail, a power loss
\* takes acknowledged requests back.  An environment is safe without one of
\* the two.
SafeEnv(e) == ~(e.dirSyncFails /\ e.powerLosses > 0)

\* Who is in the critical section has the lock, and nobody else has it.
LockInv ==
    /\ \A p \in Procs : holds[p] <=> pc[p] \in Critical
    /\ \A p, q \in Procs : holds[p] /\ holds[q] => p = q

\* f was not written on a later day than today.
NotLater(f) == f.kind = "state" => f.state.date <= day

\* The counters in the hand of p are within the caps and count, besides all
\* that was acknowledged, the request p is about to acknowledge.
Charged(p) ==
    /\ reqs[st[p].date] + 1 <= st[p].requests
    /\ cost[st[p].date] + op[p].cost <= st[p].cost
    /\ st[p].requests <= st[p].maxReq /\ st[p].cost <= st[p].maxCost

Saving == {"tmp", "sync", "rename", "dirsync"}
Acking(p) == pc[p] = "unlock" /\ op[p].kind = "consume" /\ res[p] = "ok"

\* What the holder of the lock has in hand.
InHand(p) ==
    /\ pc[p] \in {"decide"} \cup Saving \/ Acking(p) =>
           CountsAll(Holding(st[p])) /\ st[p].date <= day
    /\ pc[p] \in Saving => op[p].kind \in {"consume", "limits"}
    /\ (pc[p] \in Saving /\ op[p].kind = "consume") \/ Acking(p) => Charged(p)
    /\ pc[p] \in {"sync", "rename"} => tmp.data = Holding(st[p])
    /\ pc[p] = "rename" => tmp.synced
    /\ pc[p] = "dirsync" \/ Acking(p) => file = Holding(st[p])
    /\ Acking(p) /\ ~DirSyncFails => durable = file

\* Nothing that was acknowledged is missing, in the file or on the platter.
CountInv ==
    /\ CountsAll(file) /\ NotLater(file)
    /\ ~DirSyncFails => CountsAll(durable)
    /\ NotLater(durable)
    /\ \A p \in env.procs : InHand(p)

IInv == TypeOK /\ LockInv /\ (SafeEnv(env) => CountInv)

-----------------------------------------------------------------------------
(***************************************************************************)
(* Type correctness                                                        *)
(***************************************************************************)

\* A state that is held by a file can be read back.
LEMMA FilesTyped ==
  /\ Missing \in Files /\ Torn \in Files
  /\ \A s \in States : Holding(s) \in Files
  /\ \A f \in Files : f.kind = "state" => f.state \in States /\ f = Holding(f.state)
  /\ \A s \in States : Holding(s).kind = "state" /\ Holding(s).state = s
  /\ Missing.kind # "state" /\ Torn.kind # "state"
  BY DEF Files, Missing, Torn, Holding

\* The arguments of the calls, by kind.
LEMMA OpsTyped ==
  ASSUME NEW o \in Ops
  PROVE  /\ o.kind \in {"consume", "check", "get", "limits"}
         /\ o.kind # "limits" => o.cost \in Costs /\ o.cost \in Nat
         /\ o.kind = "limits" => o.maxReq \in Nat /\ o.maxCost \in Nat
  BY BudgetAssumption DEF Ops

\* What load(), rollDay and SetLimits make of a State is a State.
LEMMA StatesTyped ==
  ASSUME NEW s \in States, NEW d \in Days
  PROVE  /\ Fresh(d) \in States
         /\ RollDay(s, d) \in States
         /\ \A n \in Nat : [s EXCEPT !.requests = @ + 1, !.cost = @ + n] \in States
         /\ \A o \in Ops : o.kind = "limits" => Limited(s, o) \in States
<1>1. Fresh(d) \in States
  BY BudgetAssumption DEF Fresh, States
<1>2. RollDay(s, d) \in States
  BY DEF RollDay, States
<1>3. ASSUME NEW n \in Nat
      PROVE  [s EXCEPT !.requests = @ + 1, !.cost = @ + n] \in States
  <2>1. s.requests + 1 \in Nat /\ s.cost + n \in Nat
    BY DEF States
  <2> QED
    BY <2>1 DEF States
<1>4. ASSUME NEW o \in Ops, o.kind = "limits" PROVE Limited(s, o) \in States
  BY <1>4, OpsTyped DEF Limited, States
<1> QED
  BY <1>1, <1>2, <1>3, <1>4

\* Every environment names processes, and calls of theirs.
LEMMA EnvTyped ==
  ASSUME NEW e \in Envs
  PROVE  /\ e.procs \subseteq Procs /\ e.calls \subseteq Ops
         /\ e.powerLosses \in Nat
         /\ e.diskFails \in BOOLEAN /\ e.dirSyncFails \in BOOLEAN
  BY BudgetAssumption DEF EnvRecords

\* The first call of a pairing finds a well-typed state.
LEMMA TypeInit == Init => TypeOK
<1> SUFFICES ASSUME Init PROVE TypeOK
  OBVIOUS
<1>1. 0 \in Days /\ Fresh(0) \in States
  BY BudgetAssumption DEF Fresh, States, Days
<1>2. op \in [env.procs -> Ops] /\ losses \in 0..env.powerLosses
  BY EnvTyped DEF Init
<1>3. tmp \in [data : Files, synced : BOOLEAN] /\ file \in Files /\ durable \in Files
  BY FilesTyped DEF Init
<1> QED
  BY <1>1, <1>2, <1>3 DEF Init, TypeOK, PCs, Results

\* Every step of a call keeps the types.
LEMMA CallTyped ==
  ASSUME TypeOK, NEW p \in env.procs, Start(p) \/ CallStep(p) \/ Crash(p), UNCHANGED env
  PROVE  TypeOK'
<1> USE DEF Goto, Result, Disk, World, PCs, Results
<1>0. p \in Procs /\ op[p] \in Ops /\ st[p] \in States /\ day \in Days
  BY EnvTyped DEF TypeOK
<1>m. [data |-> Missing, synced |-> FALSE] \in [data : Files, synced : BOOLEAN]
  BY FilesTyped
<1>1. CASE Start(p)
  BY <1>0, <1>1 DEF Start, TypeOK
<1>2. CASE Lock(p)
  BY <1>0, <1>2 DEF Lock, TypeOK
<1>3. CASE Load(p)
  <2>1. st' \in [Procs -> States]
    <3>1. Fresh(day) \in States /\ (file.kind = "state" => file.state \in States)
      BY <1>0, FilesTyped, StatesTyped DEF TypeOK
    <3> QED
      BY <1>0, <1>3, <3>1 DEF Load, TypeOK
  <2> QED
    BY <1>0, <1>3, <2>1 DEF Load, TypeOK
<1>4. CASE Charge(p)
  <2>1. RollDay(st[p], day) \in States /\ op[p].cost \in Nat
    BY <1>0, <1>4, StatesTyped, OpsTyped DEF Charge
  <2>2. st' \in [Procs -> States]
    BY <1>0, <1>4, <2>1, StatesTyped DEF Charge, TypeOK
  <2> QED
    BY <1>0, <1>4, <2>2 DEF Charge, TypeOK
<1>5. CASE Answer(p)
  <2>1. st' \in [Procs -> States]
    BY <1>0, <1>5, StatesTyped DEF Answer, TypeOK
  <2> QED
    BY <1>0, <1>5, <2>1 DEF Answer, TypeOK, Verdict
<1>6. CASE SetLimits(p)
  <2>1. st' \in [Procs -> States]
    BY <1>0, <1>6, StatesTyped DEF SetLimits, TypeOK
  <2> QED
    BY <1>0, <1>6, <2>1 DEF SetLimits, TypeOK
<1>7. CASE SaveFails(p)
  BY <1>0, <1>m, <1>7 DEF SaveFails, TypeOK
<1>8. CASE WriteTmp(p)
  <2>1. tmp' \in [data : Files, synced : BOOLEAN]
    BY <1>0, <1>8, FilesTyped DEF WriteTmp
  <2> QED
    BY <1>0, <1>8, <2>1 DEF WriteTmp, TypeOK
<1>9. CASE SyncTmp(p)
  <2>1. tmp' \in [data : Files, synced : BOOLEAN]
    BY <1>0, <1>9 DEF SyncTmp, TypeOK
  <2> QED
    BY <1>0, <1>9, <2>1 DEF SyncTmp, TypeOK
<1>10. CASE Rename(p)
  <2>1. file' \in Files /\ durable' \in Files
    BY <1>0, <1>10, FilesTyped DEF Rename, TypeOK
  <2> QED
    BY <1>0, <1>m, <1>10, <2>1 DEF Rename, TypeOK
<1>11. CASE SyncDir(p)
  BY <1>0, <1>11 DEF SyncDir, TypeOK
<1>12. CASE Unlock(p)
  <2>1. reqs' \in [Days -> Nat] /\ cost' \in [Days -> Nat]
    <3>1. st[p].date \in Days
      BY <1>0 DEF States
    <3>2. CASE op[p].kind = "consume" /\ res[p] = "ok"
      <4>1. op[p].cost \in Nat
        BY <1>0, <3>2, OpsTyped
      <4>2. reqs \in [Days -> Nat] /\ cost \in [Days -> Nat]
        BY DEF TypeOK
      <4> QED
        BY <1>12, <3>1, <3>2, <4>1, <4>2 DEF Unlock
    <3>3. CASE ~(op[p].kind = "consume" /\ res[p] = "ok")
      BY <1>12, <3>3 DEF Unlock, TypeOK
    <3> QED
      BY <3>2, <3>3
  <2> QED
    BY <1>0, <1>12, <2>1 DEF Unlock, TypeOK
<1>13. CASE Crash(p)
  BY <1>0, <1>13 DEF Crash, TypeOK
<1> QED
  BY <1>1, <1>2, <1>3, <1>4, <1>5, <1>6, <1>7, <1>8, <1>9, <1>10, <1>11, <1>12, <1>13
     DEF CallStep

\* Every step keeps the types.
LEMMA TypeNext == TypeOK /\ [Next]_vars => TypeOK'
<1> SUFFICES ASSUME TypeOK, [Next]_vars PROVE TypeOK'
  OBVIOUS
<1>0. UNCHANGED env
  BY DEF Next, vars
<1>1. ASSUME NEW p \in env.procs, Start(p) \/ CallStep(p) \/ Crash(p) PROVE TypeOK'
  BY <1>0, <1>1, CallTyped
<1>2. CASE PowerLoss
  <2>1. losses' \in 0..env.powerLosses /\ tmp' \in [data : Files, synced : BOOLEAN]
    BY <1>2, EnvTyped, FilesTyped DEF PowerLoss, TypeOK
  <2> QED
    BY <1>0, <1>2, <2>1 DEF PowerLoss, TypeOK, PCs, Results
<1>3. CASE Tick
  BY <1>0, <1>3, BudgetAssumption DEF Tick, TypeOK, Days, Disk
<1>4. CASE UNCHANGED vars
  BY <1>4 DEF vars, TypeOK
<1> QED
  BY <1>1, <1>2, <1>3, <1>4 DEF Next

\* The gateway's budget state keeps its type for any processes, calls, caps and
\* faults.
THEOREM TypeCorrect == Spec => []TypeOK
  BY TypeInit, TypeNext, PTL DEF Spec

-----------------------------------------------------------------------------
(***************************************************************************)
(* The lock                                                                *)
(***************************************************************************)

\* The flock keeps the critical sections apart, whoever dies in his.
LEMMA LockNext == TypeOK /\ LockInv /\ [Next]_vars => LockInv'
<1> SUFFICES ASSUME TypeOK, LockInv, [Next]_vars PROVE LockInv'
  OBVIOUS
<1> USE DEF Goto, Critical
<1>t. /\ env.procs \subseteq Procs
      /\ pc \in [Procs -> PCs] /\ holds \in [Procs -> BOOLEAN]
  BY EnvTyped DEF TypeOK
<1>1. ASSUME NEW p \in env.procs, Start(p) \/ Lock(p) \/ Unlock(p) \/ Crash(p) PROVE LockInv'
  <2>1. CASE Start(p)
    BY <1>t, <2>1 DEF Start, LockInv
  <2>2. CASE Lock(p)
    BY <1>t, <2>2 DEF Lock, LockInv
  <2>3. CASE Unlock(p)
    BY <1>t, <2>3 DEF Unlock, LockInv
  <2>4. CASE Crash(p)
    BY <1>t, <2>4 DEF Crash, LockInv
  <2> QED
    BY <1>1, <2>1, <2>2, <2>3, <2>4
<1>2. ASSUME NEW p \in env.procs,
             \/ Load(p) \/ Charge(p) \/ Answer(p) \/ SetLimits(p) \/ SaveFails(p)
             \/ WriteTmp(p) \/ SyncTmp(p) \/ Rename(p) \/ SyncDir(p)
      PROVE  LockInv'
  <2>1. /\ holds' = holds
        /\ \E l \in Critical : pc' = [pc EXCEPT ![p] = l]
        /\ pc[p] \in Critical
    BY <1>2 DEF Load, Charge, Answer, SetLimits, SaveFails, WriteTmp, SyncTmp, Rename, SyncDir
  <2> QED
    BY <1>t, <2>1 DEF LockInv
<1>3. CASE PowerLoss
  BY <1>t, <1>3 DEF PowerLoss, LockInv
<1>4. CASE Tick
  BY <1>4 DEF Tick, LockInv
<1>5. CASE UNCHANGED vars
  BY <1>5 DEF vars, LockInv
<1> QED
  BY <1>1, <1>2, <1>3, <1>4, <1>5 DEF Next, CallStep

-----------------------------------------------------------------------------
(***************************************************************************)
(* Nothing acknowledged is forgotten                                       *)
(***************************************************************************)

\* Who is outside the critical section has nothing in hand.
LEMMA NothingInHand ==
  ASSUME NEW q, pc'[q] \notin Critical
  PROVE  InHand(q)'
  BY DEF InHand, Critical, Saving, Acking

\* While p is in the critical section and stays there or leaves it, nobody
\* else has anything in hand.
LEMMA Alone ==
  ASSUME TypeOK, LockInv, NEW p \in env.procs, pc[p] \in Critical,
         NEW l, pc' = [pc EXCEPT ![p] = l],
         UNCHANGED env, InHand(p)'
  PROVE  (\A q \in env.procs : InHand(q))'
<1> SUFFICES ASSUME NEW q \in env.procs, q # p PROVE InHand(q)'
  OBVIOUS
<1>1. p \in Procs /\ q \in Procs /\ pc \in [Procs -> PCs]
  BY EnvTyped DEF TypeOK
<1>2. pc'[q] \notin Critical
  BY <1>1 DEF LockInv
<1> QED
  BY <1>2, NothingInHand

\* Steps that touch neither the disk nor the counters.
LEMMA Bystander ==
  ASSUME TypeOK, CountInv, UNCHANGED <<st, Disk, World, env>>,
         NEW p \in env.procs, pc'[p] \notin Critical \/ pc'[p] = "load",
         \A q \in env.procs \ {p} : pc'[q] = pc[q] /\ res'[q] = res[q]
  PROVE  CountInv'
<1>1. ASSUME NEW q \in env.procs PROVE InHand(q)'
  <2>1. CASE q = p
    BY <2>1 DEF InHand, Critical, Saving, Acking
  <2>2. CASE q # p
    <3>1. InHand(q) /\ pc'[q] = pc[q] /\ res'[q] = res[q]
      BY <2>2 DEF CountInv
    <3> QED
      BY <3>1 DEF InHand, Acking, Charged, CountsAll, DirSyncFails, Disk, World
  <2> QED
    BY <2>1, <2>2
<1> QED
  BY <1>1 DEF CountInv, CountsAll, NotLater, DirSyncFails, Disk, World

\* load(): what the file counts, the State in memory counts; without a file
\* nothing was acknowledged.
LEMMA LoadCounts ==
  ASSUME TypeOK, LockInv, CountInv, UNCHANGED env, NEW p \in env.procs, Load(p)
  PROVE  CountInv'
<1> USE DEF Goto, Result, Disk, World
<1>t. /\ p \in Procs /\ pc \in [Procs -> PCs] /\ st \in [Procs -> States]
      /\ res \in [Procs -> Results] /\ file \in Files /\ day \in Days
  BY EnvTyped DEF TypeOK
<1>c. CountsAll(file) /\ NotLater(file)
  BY DEF CountInv
<1>1. CASE file = Missing /\ st' = [st EXCEPT ![p] = Fresh(day)] /\ Goto(p, "decide")
  <2>1. CountsAll(Holding(Fresh(day)))
    BY <1>c, <1>1, FilesTyped DEF CountsAll
  <2>2. st'[p] = Fresh(day) /\ Fresh(day).date = day /\ pc'[p] = "decide"
    BY <1>t, <1>1 DEF Fresh
  <2>3. CountsAll(Holding(st[p]))' /\ st'[p].date <= day'
    BY <1>t, <2>1, <2>2 DEF CountsAll, Load, Days
  <2>4. InHand(p)'
    BY <2>2, <2>3 DEF InHand, Saving, Acking
  <2>5. (\A q \in env.procs : InHand(q))'
    BY <1>1, <2>4, Alone DEF Load, Critical
  <2> QED
    BY <2>5 DEF CountInv, CountsAll, NotLater, DirSyncFails, Load
<1>2. CASE file.kind = "state" /\ st' = [st EXCEPT ![p] = file.state] /\ Goto(p, "decide")
  <2>1. file = Holding(file.state)
    BY <1>t, <1>2, FilesTyped
  <2>2. st'[p] = file.state /\ pc'[p] = "decide"
    BY <1>t, <1>2
  <2>3. CountsAll(Holding(st[p]))' /\ st'[p].date <= day'
    BY <1>c, <1>2, <2>1, <2>2 DEF CountsAll, Load, NotLater
  <2>4. InHand(p)'
    BY <2>2, <2>3 DEF InHand, Saving, Acking
  <2>5. (\A q \in env.procs : InHand(q))'
    BY <1>2, <2>4, Alone DEF Load, Critical
  <2> QED
    BY <2>5 DEF CountInv, CountsAll, NotLater, DirSyncFails, Load
<1>3. CASE Result(p, "error") /\ Goto(p, "unlock")
  <2>1. InHand(p)'
    BY <1>t, <1>3 DEF InHand, Saving, Acking
  <2>2. (\A q \in env.procs : InHand(q))'
    BY <1>3, <2>1, Alone DEF Load, Critical
  <2> QED
    BY <2>2 DEF CountInv, CountsAll, NotLater, DirSyncFails, Load
<1> QED
  BY <1>1, <1>2, <1>3 DEF Load

\* rollDay: nothing was acknowledged on a day later than the State's, so the
\* State that starts over counts everything.
LEMMA RollDayCounts ==
  ASSUME TypeOK, NEW s \in States, CountsAll(Holding(s)), s.date <= day
  PROVE  /\ CountsAll(Holding(RollDay(s, day)))
         /\ RollDay(s, day).date = day
         /\ RollDay(s, day).maxReq = s.maxReq /\ RollDay(s, day).maxCost = s.maxCost
         /\ reqs[day] <= RollDay(s, day).requests
         /\ cost[day] <= RollDay(s, day).cost
<1>t. /\ day \in Days /\ reqs \in [Days -> Nat] /\ cost \in [Days -> Nat]
      /\ RollDay(s, day) \in States /\ s.date \in Days
  BY StatesTyped DEF TypeOK, States
<1>i. \A d \in Days : d \in Int
  BY BudgetAssumption DEF Days
<1>s. s.requests \in Nat /\ s.cost \in Nat
  BY DEF States
<1>1. CASE s.date = day
  <2>1. RollDay(s, day) = s
    BY <1>1 DEF RollDay
  <2> QED
    BY <1>t, <1>s, <1>1, <2>1, FilesTyped DEF CountsAll
<1>2. CASE s.date # day
  <2>1. /\ RollDay(s, day).date = day
        /\ RollDay(s, day).requests = 0 /\ RollDay(s, day).cost = 0
        /\ RollDay(s, day).maxReq = s.maxReq /\ RollDay(s, day).maxCost = s.maxCost
    BY <1>2 DEF RollDay, States
  <2>2. ~(day <= s.date)
    BY <1>t, <1>i, <1>2
  <2>3. reqs[day] = 0 /\ cost[day] = 0
    BY <1>t, <2>2, FilesTyped DEF CountsAll
  <2>4. \A d \in Days : (reqs[d] = 0 /\ cost[d] = 0) \/ d <= s.date
    BY FilesTyped DEF CountsAll
  <2>5. \A d \in Days : d <= s.date => d <= day
    BY <1>t, <1>i
  <2> QED
    BY <1>t, <2>1, <2>3, <2>4, <2>5, FilesTyped DEF CountsAll
<1> QED
  BY <1>1, <1>2

\* Consume within the caps counts one request more than was acknowledged.
LEMMA ChargeCounts ==
  ASSUME TypeOK, LockInv, CountInv, UNCHANGED env, NEW p \in env.procs, Charge(p)
  PROVE  CountInv'
<1> DEFINE s == RollDay(st[p], day)
           t == [s EXCEPT !.requests = @ + 1, !.cost = @ + op[p].cost]
<1> USE DEF Goto, Disk, World
<1>t. /\ p \in Procs /\ pc \in [Procs -> PCs] /\ st \in [Procs -> States] /\ st[p] \in States
      /\ day \in Days /\ reqs \in [Days -> Nat] /\ cost \in [Days -> Nat]
      /\ op[p] \in Ops
  BY EnvTyped DEF TypeOK
<1>c. CountsAll(Holding(st[p])) /\ st[p].date <= day
  BY DEF CountInv, InHand, Charge
<1>n. op[p].cost \in Nat
  BY <1>t, OpsTyped DEF Charge
<1>s. s \in States /\ s.requests \in Nat /\ s.cost \in Nat /\ s.maxReq \in Nat /\ s.maxCost \in Nat
  <2>1. s \in States
    BY <1>t, StatesTyped
  <2> QED
    BY <2>1 DEF States
<1>r. /\ CountsAll(Holding(s)) /\ s.date = day
      /\ reqs[day] <= s.requests /\ cost[day] <= s.cost
  BY <1>t, <1>c, RollDayCounts
<1>f. /\ t \in States /\ t.date = day
      /\ t.requests = s.requests + 1 /\ t.cost = s.cost + op[p].cost
      /\ t.maxReq = s.maxReq /\ t.maxCost = s.maxCost
  <2>1. t \in States
    BY <1>s, <1>n, StatesTyped, <1>t
  <2> QED
    BY <2>1, <1>s, <1>n, <1>r DEF States
<1>v. s.requests + 1 <= s.maxReq /\ s.cost + op[p].cost <= s.maxCost
  BY <1>s, <1>n DEF Charge, Verdict
<1>1. CountsAll(Holding(t))
  <2>1. ASSUME NEW d \in Days, reqs[d] # 0 \/ cost[d] # 0
        PROVE  d <= day /\ (d = day => reqs[d] <= t.requests /\ cost[d] <= t.cost)
    <3>1. d <= day
      BY <1>r, <1>s, <2>1, FilesTyped DEF CountsAll
    <3>2. reqs[day] \in Nat /\ cost[day] \in Nat
      BY <1>t
    <3> QED
      BY <1>r, <1>s, <1>n, <1>f, <3>1, <3>2
  <2> QED
    BY <2>1, <1>f, FilesTyped DEF CountsAll
<1>2. st'[p] = t /\ pc'[p] = "tmp"
  BY <1>t DEF Charge
<1>3. CountsAll(Holding(st[p]))' /\ st'[p].date <= day'
  <2>1. t.date <= day
    BY <1>t, <1>f, BudgetAssumption DEF Days
  <2> QED
    BY <1>1, <1>2, <2>1 DEF CountsAll, Charge
<1>4. Charged(p)'
  <2>1. reqs[day] \in Nat /\ cost[day] \in Nat
    BY <1>t
  <2>2. /\ reqs[t.date] + 1 <= t.requests /\ cost[t.date] + op[p].cost <= t.cost
        /\ t.requests <= t.maxReq /\ t.cost <= t.maxCost
    BY <1>f, <1>r, <1>s, <1>n, <1>v, <2>1
  <2> QED
    BY <1>2, <2>2 DEF Charged, Charge
<1>5. InHand(p)'
  BY <1>2, <1>3, <1>4 DEF InHand, Saving, Acking, Charge
<1>6. (\A q \in env.procs : InHand(q))'
  BY <1>5, Alone DEF Charge, Critical
<1> QED
  BY <1>6 DEF CountInv, CountsAll, NotLater, DirSyncFails, Charge

\* Answers and SetLimits leave the counters alone.
LEMMA DecideCounts ==
  ASSUME TypeOK, LockInv, CountInv, UNCHANGED env, NEW p \in env.procs,
         Answer(p) \/ SetLimits(p) \/ SaveFails(p)
  PROVE  CountInv'
<1> USE DEF Goto, Result, Disk, World
<1>t. /\ p \in Procs /\ pc \in [Procs -> PCs] /\ st \in [Procs -> States] /\ st[p] \in States
      /\ res \in [Procs -> Results] /\ op[p] \in Ops
  BY EnvTyped DEF TypeOK
<1>1. CASE Answer(p)
  <2>1. InHand(p)'
    BY <1>t, <1>1 DEF Answer, InHand, Saving, Acking
  <2>2. (\A q \in env.procs : InHand(q))'
    BY <1>1, <2>1, Alone DEF Answer, Critical
  <2> QED
    BY <1>1, <2>2 DEF CountInv, CountsAll, NotLater, DirSyncFails, Answer
<1>2. CASE SetLimits(p)
  <2>1. CountsAll(Holding(st[p])) /\ st[p].date <= day
    BY <1>2 DEF CountInv, InHand, SetLimits
  <2>2. st'[p] = Limited(st[p], op[p]) /\ pc'[p] = "tmp" /\ op'[p].kind = "limits"
    BY <1>t, <1>2 DEF SetLimits
  <2>3. /\ Limited(st[p], op[p]).date = st[p].date
        /\ Limited(st[p], op[p]).requests = st[p].requests
        /\ Limited(st[p], op[p]).cost = st[p].cost
    BY <1>t DEF Limited, States
  <2>4. CountsAll(Holding(Limited(st[p], op[p])))
    BY <1>t, <1>2, <2>1, <2>3, FilesTyped, StatesTyped DEF CountsAll, SetLimits, Holding
  <2>5. CountsAll(Holding(st[p]))' /\ st'[p].date <= day'
    BY <1>2, <2>1, <2>2, <2>3, <2>4 DEF CountsAll, SetLimits
  <2>6. InHand(p)'
    BY <2>2, <2>5 DEF InHand, Saving, Acking
  <2>7. (\A q \in env.procs : InHand(q))'
    BY <1>2, <2>6, Alone DEF SetLimits, Critical
  <2> QED
    BY <1>2, <2>7 DEF CountInv, CountsAll, NotLater, DirSyncFails, SetLimits
<1>3. CASE SaveFails(p)
  <2>1. InHand(p)'
    BY <1>t, <1>3 DEF SaveFails, InHand, Saving, Acking
  <2>2. (\A q \in env.procs : InHand(q))'
    BY <1>3, <2>1, Alone DEF SaveFails, Critical
  <2> QED
    BY <1>3, <2>2 DEF CountInv, CountsAll, NotLater, DirSyncFails, SaveFails
<1> QED
  BY <1>1, <1>2, <1>3

\* save() up to the fsync of the temporary file.
LEMMA TmpCounts ==
  ASSUME TypeOK, LockInv, CountInv, UNCHANGED env, NEW p \in env.procs,
         WriteTmp(p) \/ SyncTmp(p)
  PROVE  CountInv'
<1> USE DEF Goto, World
<1>t. p \in Procs /\ pc \in [Procs -> PCs] /\ tmp \in [data : Files, synced : BOOLEAN]
  BY EnvTyped DEF TypeOK
<1>1. /\ pc[p] \in {"tmp", "sync"} /\ pc'[p] \in {"sync", "rename"}
      /\ \E l : pc' = [pc EXCEPT ![p] = l]
      /\ UNCHANGED <<st, res, op, file, durable, day, reqs, cost>>
      /\ tmp'.data = Holding(st[p])
      /\ pc'[p] = "rename" => tmp'.synced
  <2>1. CASE WriteTmp(p)
    BY <1>t, <2>1 DEF WriteTmp
  <2>2. CASE SyncTmp(p)
    BY <1>t, <2>2 DEF SyncTmp, CountInv, InHand
  <2> QED
    BY <2>1, <2>2
<1>2. InHand(p)
  BY DEF CountInv
<1>3. InHand(p)'
  BY <1>1, <1>2 DEF InHand, Saving, Acking, CountsAll, Charged
<1>4. (\A q \in env.procs : InHand(q))'
  BY <1>1, <1>3, Alone DEF Critical
<1> QED
  BY <1>1, <1>4 DEF CountInv, CountsAll, NotLater, DirSyncFails

\* The rename and the directory fsync put a State that counts everything in
\* place of one that does, for readers and on the platter.
LEMMA RenameCounts ==
  ASSUME TypeOK, LockInv, CountInv, UNCHANGED env, NEW p \in env.procs,
         Rename(p) \/ SyncDir(p)
  PROVE  CountInv'
<1> USE DEF Goto, Result, World
<1>t. /\ p \in Procs /\ pc \in [Procs -> PCs] /\ st[p] \in States
      /\ res \in [Procs -> Results]
  BY EnvTyped DEF TypeOK
<1>h. InHand(p)
  BY DEF CountInv
<1>f. Holding(st[p]).kind = "state" /\ Holding(st[p]).state = st[p]
  BY <1>t, FilesTyped
<1>1. CASE Rename(p)
  <2>1. /\ pc[p] = "rename" /\ pc' = [pc EXCEPT ![p] = "dirsync"]
        /\ tmp.data = Holding(st[p]) /\ tmp.synced
        /\ CountsAll(Holding(st[p])) /\ st[p].date <= day
    BY <1>1, <1>h DEF Rename, InHand, Saving
  <2>2. /\ file' = Holding(st[p]) /\ durable' \in {durable, Holding(st[p])}
        /\ UNCHANGED <<st, op, res, day, reqs, cost>>
    BY <1>1, <2>1 DEF Rename
  <2>3. CountsAll(file)' /\ NotLater(file)'
    BY <1>f, <2>1, <2>2 DEF CountsAll, NotLater
  <2>4. (~DirSyncFails => CountsAll(durable))' /\ NotLater(durable)'
    <3>1. (~DirSyncFails => CountsAll(durable)) /\ NotLater(durable)
      BY DEF CountInv
    <3>2. CASE durable' = durable
      BY <2>2, <3>1, <3>2 DEF CountsAll, NotLater, DirSyncFails
    <3>3. CASE durable' = Holding(st[p])
      BY <1>f, <2>1, <2>2, <3>3 DEF CountsAll, NotLater
    <3> QED
      BY <2>2, <3>2, <3>3
  <2>5. InHand(p)'
    <3>1. pc'[p] = "dirsync"
      BY <1>t, <2>1
    <3> QED
      BY <1>h, <2>1, <2>2, <3>1 DEF InHand, Saving, Acking, CountsAll, Charged
  <2>6. (\A q \in env.procs : InHand(q))'
    BY <2>1, <2>5, Alone DEF Critical
  <2> QED
    BY <2>3, <2>4, <2>6 DEF CountInv
<1>2. CASE SyncDir(p)
  <2>1. /\ pc[p] = "dirsync" /\ pc' = [pc EXCEPT ![p] = "unlock"]
        /\ file = Holding(st[p]) /\ CountsAll(file) /\ NotLater(file)
    BY <1>2, <1>h DEF SyncDir, InHand, CountInv
  <2>2. /\ durable' \in {durable, file} /\ (~DirSyncFails => durable' = file)
        /\ UNCHANGED <<st, op, file, day, reqs, cost>>
    BY <1>2 DEF SyncDir
  <2>3. (~DirSyncFails => CountsAll(durable))' /\ NotLater(durable)'
    <3>1. NotLater(durable)
      BY DEF CountInv
    <3> QED
      BY <2>1, <2>2, <3>1 DEF CountsAll, NotLater, DirSyncFails
  <2>4. InHand(p)'
    <3>1. pc'[p] = "unlock"
      BY <1>t, <2>1
    <3> QED
      BY <1>h, <2>1, <2>2, <3>1 DEF InHand, Saving, Acking, CountsAll, Charged, DirSyncFails
  <2>5. (\A q \in env.procs : InHand(q))'
    BY <2>1, <2>4, Alone DEF Critical
  <2> QED
    BY <2>1, <2>2, <2>3, <2>5 DEF CountInv, CountsAll, NotLater
<1> QED
  BY <1>1, <1>2

\* The request that is acknowledged has been counted.
LEMMA UnlockCounts ==
  ASSUME TypeOK, LockInv, CountInv, UNCHANGED env, NEW p \in env.procs, Unlock(p)
  PROVE  CountInv'
<1> USE DEF Goto, Disk
<1>t. /\ p \in Procs /\ pc \in [Procs -> PCs] /\ st[p] \in States /\ op[p] \in Ops
      /\ reqs \in [Days -> Nat] /\ cost \in [Days -> Nat]
  BY EnvTyped DEF TypeOK
<1>1. pc[p] = "unlock" /\ pc'[p] = "done" /\ UNCHANGED <<file, durable, day>>
  BY <1>t DEF Unlock
<1>2. InHand(p)'
  BY <1>1, NothingInHand DEF Critical
<1>3. (\A q \in env.procs : InHand(q))'
  BY <1>1, <1>2, Alone DEF Unlock, Critical
<1>4. CASE op[p].kind = "consume" /\ res[p] = "ok"
  <2>1. /\ CountsAll(Holding(st[p])) /\ Charged(p) /\ file = Holding(st[p])
        /\ ~DirSyncFails => durable = file
    BY <1>1, <1>4 DEF CountInv, InHand, Acking
  <2>2. st[p].date \in Days /\ op[p].cost \in Nat
    BY <1>t, <1>4, OpsTyped DEF States
  <2>3. /\ reqs' = [reqs EXCEPT ![st[p].date] = @ + 1]
        /\ cost' = [cost EXCEPT ![st[p].date] = @ + op[p].cost]
    BY <1>4 DEF Unlock
  <2>4. CountsAll(file)'
    <3>1. ASSUME NEW d \in Days, d # st[p].date PROVE reqs'[d] = reqs[d] /\ cost'[d] = cost[d]
      BY <1>t, <2>2, <2>3, <3>1
    <3>2. /\ reqs'[st[p].date] <= st[p].requests
          /\ cost'[st[p].date] <= st[p].cost
      BY <1>t, <2>1, <2>2, <2>3 DEF Charged
    <3>3. st[p].date <= st[p].date
      BY <2>2, BudgetAssumption DEF Days
    <3>4. file.kind = "state" /\ file.state = st[p]
      BY <1>t, <2>1, FilesTyped
    <3>5. ASSUME NEW d \in Days, d # st[p].date
          PROVE  (reqs[d] = 0 /\ cost[d] = 0) \/ d <= st[p].date
      BY <2>1, <3>4 DEF CountsAll
    <3> QED
      BY <1>1, <3>1, <3>2, <3>3, <3>4, <3>5 DEF CountsAll
  <2> QED
    BY <1>1, <1>3, <2>1, <2>4 DEF CountInv, NotLater, CountsAll, DirSyncFails
<1>5. CASE ~(op[p].kind = "consume" /\ res[p] = "ok")
  BY <1>1, <1>3, <1>5 DEF CountInv, NotLater, CountsAll, DirSyncFails, Unlock
<1> QED
  BY <1>4, <1>5

\* Every step keeps the count in a safe environment.
LEMMA CountNext ==
  ASSUME TypeOK, LockInv, SafeEnv(env), CountInv, [Next]_vars
  PROVE  CountInv'
<1>0. UNCHANGED env
  BY DEF Next, vars
<1>1. ASSUME NEW p \in env.procs, Start(p) \/ Lock(p) \/ Crash(p) PROVE CountInv'
  <2>t. p \in Procs /\ pc \in [Procs -> PCs] /\ res \in [Procs -> Results] /\ env.procs \subseteq Procs
    BY EnvTyped DEF TypeOK
  <2>1. /\ UNCHANGED <<st, Disk, World>>
        /\ pc'[p] \notin Critical \/ pc'[p] = "load"
        /\ \A q \in env.procs \ {p} : pc'[q] = pc[q] /\ res'[q] = res[q]
    BY <1>1, <2>t DEF Start, Lock, Crash, Goto, Result, Critical
  <2> QED
    BY <1>0, <2>1, Bystander
<1>2. ASSUME NEW p \in env.procs,
             \/ Load(p) \/ Charge(p) \/ Answer(p) \/ SetLimits(p) \/ SaveFails(p)
             \/ WriteTmp(p) \/ SyncTmp(p) \/ Rename(p) \/ SyncDir(p) \/ Unlock(p)
      PROVE  CountInv'
  BY <1>0, <1>2, LoadCounts, ChargeCounts, DecideCounts, TmpCounts, RenameCounts, UnlockCounts
<1>3. CASE PowerLoss
  <2>1. ~DirSyncFails
    BY <1>3, EnvTyped DEF PowerLoss, SafeEnv, DirSyncFails, TypeOK
  <2>2. CountsAll(durable) /\ NotLater(durable)
    BY <2>1 DEF CountInv
  <2>3. \A q \in env.procs : pc'[q] \notin Critical
    BY <1>3, EnvTyped DEF PowerLoss, Critical, TypeOK
  <2>4. (\A q \in env.procs : InHand(q))'
    BY <1>0, <2>3, NothingInHand
  <2> QED
    BY <1>3, <2>2, <2>4 DEF PowerLoss, CountInv, CountsAll, NotLater
<1>4. CASE Tick
  <2>t. day \in Int /\ file \in Files /\ durable \in Files /\ env.procs \subseteq Procs
        /\ st \in [Procs -> States]
    BY EnvTyped, BudgetAssumption DEF TypeOK, Days
  <2>d. \A s \in States : s.date <= day => s.date <= day'
    BY <1>4, <2>t, BudgetAssumption DEF Tick, States, Days
  <2>1. NotLater(file)' /\ NotLater(durable)'
    BY <1>4, <2>t, <2>d, FilesTyped DEF CountInv, NotLater, Tick, Disk
  <2>2. ASSUME NEW q \in env.procs PROVE InHand(q)'
    <3>1. InHand(q) /\ st[q] \in States
      BY <2>t DEF CountInv
    <3> QED
      BY <1>0, <1>4, <2>d, <3>1
         DEF InHand, Tick, Saving, Acking, Charged, CountsAll, DirSyncFails, Disk
  <2> QED
    BY <1>0, <1>4, <2>1, <2>2 DEF CountInv, CountsAll, DirSyncFails, Tick, Disk
<1>5. CASE UNCHANGED vars
  BY <1>5 DEF vars, CountInv, CountsAll, NotLater, DirSyncFails, InHand, Saving, Acking, Charged
<1> QED
  BY <1>1, <1>2, <1>3, <1>4, <1>5 DEF Next, CallStep

\* The inductive invariant of the flocked read-modify-write: the lock excludes,
\* and in a safe environment file, platter and the State in the holder's hand
\* count everything that was acknowledged.
THEOREM Counted == Spec => []IInv
<1>1. Init => IInv
  <2> SUFFICES ASSUME Init PROVE IInv
    OBVIOUS
  <2>1. LockInv
    BY DEF Init, LockInv, Critical
  <2>2. CountInv
    <3>1. env.procs \subseteq Procs
      BY EnvTyped DEF Init
    <3>2. CountsAll(file) /\ CountsAll(durable)
      BY DEF Init, CountsAll
    <3>3. NotLater(file) /\ NotLater(durable)
      BY FilesTyped DEF Init, NotLater
    <3>4. \A p \in env.procs : InHand(p)
      BY <3>1 DEF Init, InHand, Saving, Acking
    <3> QED
      BY <3>2, <3>3, <3>4 DEF CountInv
  <2> QED
    BY <2>1, <2>2, TypeInit DEF IInv
<1>2. IInv /\ [Next]_vars => IInv'
  <2>1. ASSUME [Next]_vars, IInv, SafeEnv(env)' PROVE CountInv'
    <3>1. SafeEnv(env)
      BY <2>1 DEF Next, vars, SafeEnv
    <3> QED
      BY <2>1, <3>1, CountNext DEF IInv
  <2> QED
    BY <2>1, TypeNext, LockNext DEF IInv
<1> QED
  BY <1>1, <1>2, PTL DEF Spec

\* An acknowledged Consume is on the platter, for any processes, caps, costs and
\* days and under every fault but an unnoticed failure of the directory fsync.
THEOREM Durable == Spec => []GrantsAreDurable
<1>1. IInv => GrantsAreDurable
  BY DEF IInv, CountInv, GrantsAreDurable, SafeEnv, DirSyncFails
<1> QED
  BY <1>1, Counted, PTL

-----------------------------------------------------------------------------
(***************************************************************************)
(* The refinement                                                          *)
(***************************************************************************)

\* The caps in force are natural numbers, whatever is in the file.
LEMMA LimitsTyped ==
  ASSUME NEW f \in Files
  PROVE  LimitsOf(f).maxReq \in Nat /\ LimitsOf(f).maxCost \in Nat
<1>1. CASE f.kind = "state"
  BY <1>1, FilesTyped DEF LimitsOf, States
<1>2. CASE f.kind # "state"
  BY <1>2, BudgetAssumption DEF LimitsOf, Fresh
<1> QED
  BY <1>1, <1>2

\* The only step that grants is the unlock of a successful Consume, and the caps
\* it was checked against are the ones in the file.
LEMMA GrantStep ==
  ASSUME IInv, SafeEnv(env), NEW p \in env.procs, Unlock(p),
         op[p].kind = "consume", res[p] = "ok"
  PROVE  Abs!Grant(st[p].date, op[p].cost) /\ st[p].date \in Days /\ op[p].cost \in Costs
<1>t. /\ p \in Procs /\ st[p] \in States /\ op[p] \in Ops
      /\ reqs \in [Days -> Nat] /\ cost \in [Days -> Nat]
  BY EnvTyped DEF TypeOK, IInv
<1>1. st[p].date \in Days /\ op[p].cost \in Costs /\ op[p].cost \in Nat
  BY <1>t, OpsTyped DEF States
<1>2. Charged(p) /\ file = Holding(st[p])
  BY DEF IInv, CountInv, InHand, Acking, Unlock
<1>3. LimitsOf(file).maxReq = st[p].maxReq /\ LimitsOf(file).maxCost = st[p].maxCost
  BY <1>t, <1>2, FilesTyped DEF LimitsOf
<1>4. /\ reqs[st[p].date] \in Nat /\ cost[st[p].date] \in Nat
      /\ st[p].requests \in Nat /\ st[p].cost \in Nat
      /\ st[p].maxReq \in Nat /\ st[p].maxCost \in Nat
  BY <1>t, <1>1 DEF States
<1>5. /\ reqs[st[p].date] + 1 <= LimitsOf(file).maxReq
      /\ cost[st[p].date] + op[p].cost <= LimitsOf(file).maxCost
  BY <1>1, <1>2, <1>3, <1>4 DEF Charged
<1> QED
  BY <1>1, <1>5 DEF Unlock, Disk, Abs!Grant

\* Every step of the code is a grant, a change of the caps or a stutter of the
\* abstract budget.
LEMMA RefinedStep ==
  ASSUME IInv, IInv', SafeEnv(env), [Next]_vars
  PROVE  [Abs!Next]_(Abs!vars)
<1>1. CASE UNCHANGED <<reqs, cost>>
  <2>1. LimitsOf(file').maxReq \in Nat /\ LimitsOf(file').maxCost \in Nat
    BY LimitsTyped DEF IInv, TypeOK
  <2> QED
    BY <1>1, <2>1 DEF Abs!Next, Abs!Relimit, LimitsOf
<1>2. CASE ~UNCHANGED <<reqs, cost>>
  <2>1. PICK p \in env.procs : Unlock(p) /\ op[p].kind = "consume" /\ res[p] = "ok"
    BY <1>2 DEF Next, vars, CallStep, Start, Crash, Lock, Load, Charge, Answer, SetLimits,
       SaveFails, WriteTmp, SyncTmp, Rename, SyncDir, Unlock, PowerLoss, Tick, World
  <2> QED
    BY <2>1, GrantStep DEF Abs!Next
<1> QED
  BY <1>1, <1>2

\* In a safe environment the flocked read-modify-write of Consume implements the
\* abstract budget: no interleaving of any number of processes, no crash, power
\* loss or midnight grants past a daily cap.
THEOREM Refinement == Spec /\ SafeEnv(env) => RefinesBudgetSpec
<1>1. Init => Abs!Init
  <2>1. Init => file \in Files
    BY FilesTyped DEF Init
  <2> QED
    BY <2>1, LimitsTyped DEF Init, Abs!Init
<1>2. SafeEnv(env) /\ [Next]_vars => SafeEnv(env)'
  BY DEF Next, vars, SafeEnv
<1>3. IInv /\ IInv' /\ SafeEnv(env) /\ [Next]_vars => [Abs!Next]_(Abs!vars)
  BY RefinedStep
<1> QED
  BY <1>1, <1>2, <1>3, Counted, PTL DEF Spec, RefinesBudgetSpec, Abs!Spec
=============================================================================
