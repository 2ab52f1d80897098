-------------------------- MODULE Heartbeats_proof --------------------------
(***************************************************************************)
(* For any hosts and any periods and thresholds: the bridge's types, and   *)
(* that a touched heartbeat file proves a heartbeat of its worker within   *)
(* stale-max of the touch; and that a live worker is reported healthy.     *)
(***************************************************************************)
EXTENDS Heartbeats, TLAPS

\* What the probe under way knows: the worker has beaten, and not longer ago
\* than observed; past Judge, than stale-max.
ProbeInv ==
    /\ pc = "stat" => \A h \in Hosts : Turn(h) => beat[h] # None /\ beat[h] <= obs
    /\ pc = "write" => \A h \in Hosts : Turn(h) => beat[h] # None /\ beat[h] <= StaleMax
    /\ \A h \in Hosts : alive[h] => beat[h] # None

EvidenceInv == ProbeInv /\ FreshMeansAlive

\* What HeartbeatsAssumption says of the thresholds and the caps derived from them.
LEMMA Constants ==
    /\ StaleMax \in Nat /\ Interval \in Nat \ {0, 1} /\ SSHTimeout \in Nat
    /\ Threshold \in Nat /\ AgeCap \in Nat /\ BeatCap \in Nat /\ GoodCap \in Nat
    /\ BeatCap = AgeCap + StaleMax + 1
    /\ Hosts \subseteq Nat
  BY HeartbeatsAssumption DEF AgeCap, BeatCap, GoodCap, Hosts

\* bridgeOne is at one host at a time.
LEMMA OneTurn ==
  ASSUME NEW g \in Hosts, NEW h \in Hosts, Turn(g), Turn(h)
  PROVE  g = h
  BY Constants DEF Turn

\* An age grows by one up to its cap, and None stays None.
LEMMA OlderTyped ==
  ASSUME NEW cap \in Nat, NEW a \in {None} \cup 0..cap
  PROVE  /\ Older(a, cap) \in {None} \cup 0..cap
         /\ Older(a, cap) = None <=> a = None
         /\ a # None => Older(a, cap) \in 0..cap
         /\ a # None /\ a < cap => Older(a, cap) = a + 1
         /\ a # None => Older(a, cap) <= a + 1
  BY DEF Older, None

\* The state in which the bridge starts is well typed.
LEMMA TypeInit == Init => TypeOK
<1> SUFFICES ASSUME Init PROVE TypeOK
  OBVIOUS
<1>1. /\ sweepAge \in 0..Interval /\ probeAge \in 0..SSHTimeout /\ obs \in 0..BeatCap
      /\ good \in [Hosts -> 0..GoodCap]
  BY Constants DEF Init
<1> QED
  BY <1>1 DEF Init, TypeOK

\* The step to the next node keeps the types of the sweep's state.
LEMMA NextNodeTyped ==
  ASSUME TypeOK, NEW h \in Hosts, Turn(h), NextNode(h)
  PROVE  /\ pc' \in {"idle", "dial", "stat", "write"}
         /\ todo' \subseteq Hosts /\ (pc' = "idle" <=> todo' = {})
         /\ probeAge' \in 0..SSHTimeout
<1>1. pc' = "idle" <=> todo' = {}
  BY DEF NextNode, Turn
<1> QED
  BY <1>1, Constants DEF NextNode, TypeOK

\* bridgeOne keeps the types, on its error paths too.
LEMMA BridgeOneTyped ==
  ASSUME TypeOK, NEW h \in Hosts, BridgeOne(h)
  PROVE  TypeOK'
<1> USE NextNodeTyped, Constants DEF workerVars
<1>1. CASE Probe(h)
  <2>1. obs' \in 0..BeatCap
    BY <1>1 DEF Probe, TypeOK
  <2> QED
    BY <1>1, <2>1 DEF Probe, TypeOK
<1>2. CASE ProbeFails(h)
  BY <1>2 DEF ProbeFails, TypeOK
<1>3. CASE Judge(h)
  <2>1. CASE obs > StaleMax
    BY <1>3, <2>1 DEF Judge, TypeOK
  <2>2. CASE ~(obs > StaleMax)
    BY <1>3, <2>2 DEF Judge, TypeOK
  <2> QED
    BY <2>1, <2>2
<1>4. CASE Touch(h)
  BY <1>4 DEF Touch, TypeOK
<1>5. CASE TouchFails(h)
  BY <1>5 DEF TouchFails, TypeOK
<1> QED
  BY <1>1, <1>2, <1>3, <1>4, <1>5 DEF BridgeOne

\* The workers' own steps keep the types.
LEMMA WorkerTyped ==
  ASSUME TypeOK, NEW h \in Hosts, Worker(h)
  PROVE  TypeOK'
<1> USE Constants
<1>1. CASE Start(h)
  BY <1>1 DEF Start, TypeOK
<1>2. CASE WorkerBeats(h)
  BY <1>2 DEF WorkerBeats, TypeOK
<1>3. CASE Stop(h)
  BY <1>3 DEF Stop, TypeOK
<1>4. CASE NetChanges(h)
  <2>1. net' \in [Hosts -> {"up", "refused", "hung", "stuck"}]
    BY <1>4 DEF NetChanges, TypeOK
  <2>2. good' \in [Hosts -> 0..GoodCap]
    BY <1>4 DEF NetChanges, TypeOK
  <2> QED
    BY <1>4, <2>1, <2>2 DEF NetChanges, TypeOK
<1> QED
  BY <1>1, <1>2, <1>3, <1>4 DEF Worker

\* Every step keeps the types.
LEMMA TypeNext == TypeOK /\ [Next]_vars => TypeOK'
<1> SUFFICES ASSUME TypeOK, [Next]_vars PROVE TypeOK'
  OBVIOUS
<1>1. CASE StartSweep
  BY <1>1, Constants DEF StartSweep, TypeOK, workerVars
<1>2. CASE LoadFails
  BY <1>2, Constants DEF LoadFails, TypeOK, workerVars
<1>3. CASE Tick
  <2>1. beat' \in [Hosts -> {None} \cup 0..BeatCap]
    BY <1>3, Constants, OlderTyped DEF Tick, TypeOK
  <2>2. age' \in [Hosts -> {None} \cup 0..AgeCap]
    BY <1>3, Constants, OlderTyped DEF Tick, TypeOK
  <2>3. good' \in [Hosts -> 0..GoodCap]
    <3>1. \A a \in 0..GoodCap : Older(a, GoodCap) \in 0..GoodCap /\ 0 \in 0..GoodCap
      BY Constants DEF Older, None
    <3> QED
      BY <1>3, <3>1 DEF Tick, TypeOK
  <2>4. sweepAge' \in 0..Interval /\ probeAge' \in 0..SSHTimeout
    BY <1>3, Constants DEF Tick, TypeOK, Older, None
  <2> QED
    BY <1>3, <2>1, <2>2, <2>3, <2>4 DEF Tick, TypeOK
<1>4. ASSUME NEW h \in Hosts, BridgeOne(h) PROVE TypeOK'
  BY <1>4, BridgeOneTyped
<1>5. ASSUME NEW h \in Hosts, Worker(h) PROVE TypeOK'
  BY <1>5, WorkerTyped
<1>6. CASE UNCHANGED vars
  BY <1>6 DEF vars, TypeOK
<1> QED
  BY <1>1, <1>2, <1>3, <1>4, <1>5, <1>6 DEF Next

\* The bridge's and the workers' state keeps its type.
THEOREM TypeCorrect == Spec => []TypeOK
<1>1. Init => TypeOK
  BY TypeInit
<1>2. TypeOK /\ [Next]_vars => TypeOK'
  BY TypeNext
<1> QED
  BY <1>1, <1>2, PTL DEF Spec

-----------------------------------------------------------------------------
\* bridgeOne writes a file only on evidence.
LEMMA EvidenceBridgeOne ==
  ASSUME TypeOK, EvidenceInv, NEW h \in Hosts, BridgeOne(h)
  PROVE  EvidenceInv'
<1> USE Constants DEF EvidenceInv
<1>1. CASE Probe(h)
  <2>1. \A g \in Hosts : Turn(g)' => g = h
    BY <1>1, OneTurn DEF Probe, Turn
  <2> QED
    BY <1>1, <2>1 DEF Probe, ProbeInv, FreshMeansAlive, TypeOK, workerVars
<1>2. CASE ProbeFails(h)
  BY <1>2 DEF ProbeFails, NextNode, ProbeInv, FreshMeansAlive, workerVars
<1>3. CASE Judge(h)
  <2>1. CASE obs > StaleMax
    BY <1>3, <2>1 DEF Judge, NextNode, ProbeInv, FreshMeansAlive, workerVars
  <2>2. CASE ~(obs > StaleMax)
    <3>1. \A g \in Hosts : Turn(g)' => g = h
      BY <1>3, <2>2, OneTurn DEF Judge, Turn
    <3>2. beat[h] # None /\ beat[h] <= StaleMax
      BY <1>3, <2>2 DEF Judge, ProbeInv, TypeOK, None
    <3> QED
      BY <1>3, <2>2, <3>1, <3>2 DEF Judge, ProbeInv, FreshMeansAlive, workerVars
  <2> QED
    BY <2>1, <2>2
<1>4. CASE Touch(h)
  <2>1. beat[h] # None /\ beat[h] <= StaleMax
    BY <1>4 DEF Touch, ProbeInv
  <2>2. FreshMeansAlive'
    BY <1>4, <2>1 DEF Touch, FreshMeansAlive, TypeOK, None, workerVars
  <2> QED
    BY <1>4, <2>2 DEF Touch, NextNode, ProbeInv, workerVars
<1>5. CASE TouchFails(h)
  <2>1. beat[h] # None /\ beat[h] <= StaleMax
    BY <1>5 DEF TouchFails, ProbeInv
  <2>2. FreshMeansAlive'
    BY <1>5, <2>1 DEF TouchFails, FreshMeansAlive, TypeOK, None
  <2> QED
    BY <1>5, <2>2 DEF TouchFails, NextNode, ProbeInv
<1> QED
  BY <1>1, <1>2, <1>3, <1>4, <1>5 DEF BridgeOne

\* What a worker or its network does takes no evidence away.
LEMMA EvidenceWorker ==
  ASSUME TypeOK, EvidenceInv, NEW h \in Hosts, Worker(h)
  PROVE  EvidenceInv'
<1> USE Constants DEF EvidenceInv
<1>1. CASE Start(h) \/ WorkerBeats(h)
  <2>1. /\ \A g \in Hosts : beat'[g] = beat[g] \/ beat'[g] = 0
        /\ beat'[h] = 0
        /\ \A g \in Hosts : g # h => alive'[g] = alive[g]
        /\ UNCHANGED <<age, pc, todo, obs>>
    BY <1>1 DEF Start, WorkerBeats, TypeOK
  <2>2. 0 # None /\ 0 <= obs /\ 0 <= StaleMax
    BY DEF None, TypeOK
  <2>3. ProbeInv'
    BY <2>1, <2>2 DEF ProbeInv, Turn
  <2>4. FreshMeansAlive'
    BY <2>1 DEF FreshMeansAlive, TypeOK, None
  <2> QED
    BY <2>3, <2>4
<1>2. CASE Stop(h)
  BY <1>2 DEF Stop, ProbeInv, FreshMeansAlive, Turn, TypeOK
<1>3. CASE NetChanges(h)
  BY <1>3 DEF NetChanges, ProbeInv, FreshMeansAlive, Turn
<1> QED
  BY <1>1, <1>2, <1>3 DEF Worker

\* Heartbeats and files grow old together.
LEMMA EvidenceTick ==
  ASSUME TypeOK, EvidenceInv, Tick
  PROVE  EvidenceInv'
<1>1. ProbeInv'
  BY Constants, OlderTyped DEF Tick, EvidenceInv, ProbeInv, Turn, TypeOK
<1>2. ASSUME NEW h \in Hosts, age'[h] # None, age'[h] < AgeCap
      PROVE  beat'[h] # None /\ beat'[h] <= age'[h] + StaleMax
  <2>1. age[h] # None /\ age[h] < AgeCap /\ age'[h] = age[h] + 1
    BY <1>2, Constants DEF Tick, TypeOK, Older, None
  <2>2. beat[h] # None /\ beat[h] <= age[h] + StaleMax
    BY <2>1 DEF EvidenceInv, FreshMeansAlive
  <2>3. beat'[h] # None /\ beat'[h] <= beat[h] + 1
    BY <2>2, Constants DEF Tick, TypeOK, Older, None
  <2>4. beat[h] \in Nat /\ beat'[h] \in Int /\ age[h] \in Nat
    BY <2>1, <2>2, Constants DEF Tick, TypeOK, Older, None
  <2> QED
    BY <2>1, <2>2, <2>3, <2>4, Constants
<1> QED
  BY <1>1, <1>2 DEF EvidenceInv, FreshMeansAlive

\* A heartbeat file on the gateway is evidence of a heartbeat at most
\* stale-max before the file's date, for any number of workers, periods and
\* faults.
THEOREM FreshIsEvidence == Spec => []FreshMeansAlive
<1>1. Init => EvidenceInv
  BY DEF Init, EvidenceInv, ProbeInv, FreshMeansAlive
<1>2. TypeOK /\ EvidenceInv /\ [Next]_vars => EvidenceInv'
  <2> SUFFICES ASSUME TypeOK, EvidenceInv, [Next]_vars PROVE EvidenceInv'
    OBVIOUS
  <2>1. CASE StartSweep \/ LoadFails
    BY <2>1 DEF StartSweep, LoadFails, EvidenceInv, ProbeInv, FreshMeansAlive, workerVars
  <2>2. CASE Tick
    BY <2>2, EvidenceTick
  <2>3. ASSUME NEW h \in Hosts, BridgeOne(h) \/ Worker(h) PROVE EvidenceInv'
    BY <2>3, EvidenceBridgeOne, EvidenceWorker
  <2>4. CASE UNCHANGED vars
    BY <2>4 DEF vars, EvidenceInv, ProbeInv, FreshMeansAlive, Turn
  <2> QED
    BY <2>1, <2>2, <2>3, <2>4 DEF Next
<1>3. EvidenceInv => FreshMeansAlive
  BY DEF EvidenceInv
<1> QED
  BY <1>1, <1>2, <1>3, TypeCorrect, PTL DEF Spec

-----------------------------------------------------------------------------
(***************************************************************************)
(* The converse: a worker that is alive and reachable is reported healthy. *)
(* This needs the settings to fit together, as the shipped ones do: the    *)
(* daemon beats at least every stale-max, sweeps come at least every       *)
(* HealthyHeartbeatThreshold, and --ssh-timeout leaves a probe some time.  *)
(***************************************************************************)
SettingsFit == BeatPeriod <= StaleMax /\ Interval <= Threshold /\ SSHTimeout >= 1

\* The sweep has lost no time to a hung or stuck connection, or everybody's count began
\* anew when it did.
SweepInv == pc # "idle" => \/ sweepAge = 0 /\ probeAge = 0
                           \/ \A h \in Hosts : good[h] = 0

\* A host with a count is alive, reachable and beating; its probe reads a
\* heartbeat that is young enough; and if its count began before the sweep did,
\* it has been touched by this sweep, or its turn is still to come.
LiveInv ==
    /\ \A h \in Hosts : alive[h] => beat[h] # None /\ beat[h] <= BeatPeriod
    /\ \A h \in Hosts : good[h] > 0 => alive[h] /\ net[h] = "up"
    /\ pc = "stat" => \A h \in Hosts : Turn(h) /\ good[h] > 0 => obs <= StaleMax
    /\ \A h \in Hosts : good[h] > sweepAge =>
            h \in todo \/ (age[h] # None /\ age[h] <= sweepAge)

ReportedInv == SweepInv /\ LiveInv

\* A count begun before the sweep was not interrupted by it.
LEMMA Uninterrupted ==
  ASSUME TypeOK, SettingsFit, ReportedInv, NEW h \in Hosts, good[h] > sweepAge, pc # "idle"
  PROVE  /\ good[h] > 0 /\ sweepAge = 0 /\ ~ProbeOver
         /\ alive[h] /\ net[h] = "up" /\ beat[h] # None /\ beat[h] <= StaleMax
<1>1. sweepAge \in Nat /\ good[h] \in Nat
  BY Constants DEF TypeOK
<1>2. good[h] > 0 /\ sweepAge = 0 /\ probeAge = 0
  BY <1>1 DEF ReportedInv, SweepInv
<1>3. alive[h] /\ net[h] = "up" /\ beat[h] # None /\ beat[h] <= BeatPeriod
  BY <1>2 DEF ReportedInv, LiveInv
<1>4. beat[h] \in Int /\ BeatPeriod \in Int
  BY HeartbeatsAssumption, Constants DEF TypeOK, None
<1>5. beat[h] <= StaleMax
  BY <1>3, <1>4, Constants DEF SettingsFit
<1>6. ~ProbeOver
  BY <1>2, Constants DEF ProbeOver, SweepOver, SettingsFit
<1> QED BY <1>2, <1>3, <1>5, <1>6

\* bridgeOne goes on to the next node with the file touched, the count begun
\* anew, or a host whose count is younger than the sweep.
LEMMA LiveLeave ==
  ASSUME TypeOK, ReportedInv, NEW h \in Hosts, Turn(h), NextNode(h), pc # "idle",
         UNCHANGED <<alive, net, beat, sweepAge>>,
         \A g \in Hosts : g # h => age'[g] = age[g] /\ good'[g] = good[g],
         good'[h] \in {0, good[h]},
         good'[h] > sweepAge => age'[h] # None /\ age'[h] <= sweepAge
  PROVE  ReportedInv'
<1>0. todo' = todo \ {h} /\ pc' \in {"idle", "dial"} /\ probeAge' = 0
  BY DEF NextNode
<1>1. SweepInv'
  BY <1>0 DEF ReportedInv, SweepInv
<1>2. \A g \in Hosts : good'[g] > 0 => alive'[g] /\ net'[g] = "up"
  BY DEF ReportedInv, LiveInv
<1>3. \A g \in Hosts : good'[g] > sweepAge' =>
            g \in todo' \/ (age'[g] # None /\ age'[g] <= sweepAge')
  BY <1>0 DEF ReportedInv, LiveInv
<1> QED BY <1>0, <1>1, <1>2, <1>3 DEF ReportedInv, LiveInv

\* A step of the bridge for one host.
LEMMA LiveBridgeOne ==
  ASSUME TypeOK, SettingsFit, ReportedInv, NEW h \in Hosts, BridgeOne(h)
  PROVE  ReportedInv'
<1>c. sweepAge \in Nat /\ good[h] \in Nat /\ obs \in Nat
  BY Constants DEF TypeOK
<1>1. CASE Probe(h)
  <2>1. /\ Turn(h) /\ pc' = "stat" /\ obs' = beat[h] /\ pc # "idle"
        /\ UNCHANGED <<alive, net, beat, good, age, todo, sweepAge, probeAge>>
    BY <1>1 DEF Probe, workerVars
  <2>2. \A g \in Hosts : Turn(g)' => g = h
    BY <2>1, OneTurn DEF Turn
  <2>3. good[h] > 0 => beat[h] <= StaleMax
    <3> SUFFICES ASSUME good[h] > 0 PROVE beat[h] <= StaleMax
      OBVIOUS
    <3>1. sweepAge = 0
      BY <2>1 DEF ReportedInv, SweepInv
    <3> QED BY <2>1, <3>1, Uninterrupted
  <2>4. SweepInv'
    BY <2>1 DEF ReportedInv, SweepInv
  <2>5. LiveInv'
    BY <2>1, <2>2, <2>3 DEF ReportedInv, LiveInv
  <2> QED BY <2>4, <2>5 DEF ReportedInv
<1>2. CASE ProbeFails(h)
  <2>1. /\ Turn(h) /\ NextNode(h) /\ pc = "dial"
        /\ UNCHANGED <<alive, net, beat, good, age, sweepAge>>
        /\ net[h] = "refused" \/ (net[h] = "up" /\ beat[h] = None) \/ ProbeOver
    BY <1>2 DEF ProbeFails, NoAnswer, workerVars
  <2>2. ~(good[h] > sweepAge)
    BY <2>1, Uninterrupted
  <2> QED BY <2>1, <2>2, LiveLeave
<1>3. CASE Judge(h)
  <2>1. /\ Turn(h) /\ pc = "stat"
        /\ UNCHANGED <<alive, net, beat, good, age, sweepAge, obs>>
    BY <1>3 DEF Judge, workerVars
  <2>2. CASE obs > StaleMax
    <3>1. NextNode(h)
      BY <1>3, <2>2 DEF Judge
    <3>2. ~(good[h] > sweepAge)
      <4> SUFFICES ASSUME good[h] > sweepAge PROVE FALSE
        OBVIOUS
      <4>1. good[h] > 0
        BY <1>c
      <4>2. obs <= StaleMax
        BY <2>1, <4>1 DEF ReportedInv, LiveInv
      <4> QED BY <2>2, <4>2, <1>c, Constants
    <3> QED BY <2>1, <3>1, <3>2, LiveLeave
  <2>3. CASE ~(obs > StaleMax)
    <3>1. pc' = "write" /\ UNCHANGED <<todo, probeAge>>
      BY <1>3, <2>3 DEF Judge
    <3> QED BY <2>1, <3>1 DEF ReportedInv, SweepInv, LiveInv
  <2> QED BY <2>2, <2>3
<1>4. CASE Touch(h)
  <2>1. /\ Turn(h) /\ NextNode(h) /\ pc = "write"
        /\ UNCHANGED <<alive, net, beat, good, sweepAge>>
        /\ age' = [age EXCEPT ![h] = 0]
    BY <1>4 DEF Touch, workerVars
  <2>2. age'[h] = 0 /\ \A g \in Hosts : g # h => age'[g] = age[g]
    BY <2>1 DEF TypeOK
  <2>3. age'[h] # None /\ age'[h] <= sweepAge
    BY <1>c, <2>2 DEF None
  <2> QED BY <2>1, <2>2, <2>3, LiveLeave
<1>5. CASE TouchFails(h)
  <2>1. /\ Turn(h) /\ NextNode(h) /\ pc = "write"
        /\ UNCHANGED <<alive, net, beat, sweepAge>>
        /\ age' = age \/ age' = [age EXCEPT ![h] = 0]
        /\ good' = [good EXCEPT ![h] = 0]
    BY <1>5 DEF TouchFails
  <2>2. good'[h] = 0 /\ \A g \in Hosts : g # h => age'[g] = age[g] /\ good'[g] = good[g]
    BY <2>1 DEF TypeOK
  <2>3. ~(good'[h] > sweepAge)
    BY <1>c, <2>2
  <2> QED BY <2>1, <2>2, <2>3, LiveLeave
<1> QED BY <1>1, <1>2, <1>3, <1>4, <1>5 DEF BridgeOne

\* A worker's step, or one of its network.
LEMMA LiveWorker ==
  ASSUME TypeOK, ReportedInv, NEW h \in Hosts, Worker(h)
  PROVE  ReportedInv'
<1>c. /\ BeatPeriod \in Nat /\ sweepAge \in Nat
      /\ \A g \in Hosts : good[g] \in Nat
  BY HeartbeatsAssumption, Constants DEF TypeOK
<1>0. UNCHANGED <<age, pc, todo, sweepAge, probeAge, obs>>
  BY DEF Worker, Start, WorkerBeats, Stop, NetChanges
<1>1. CASE Start(h) \/ WorkerBeats(h)
  <2>1. /\ \A g \in Hosts : beat'[g] = beat[g] \/ beat'[g] = 0
        /\ beat'[h] = 0
        /\ \A g \in Hosts : alive[g] => alive'[g]
        /\ \A g \in Hosts : g # h => alive'[g] = alive[g]
        /\ UNCHANGED <<net, good>>
    BY <1>1 DEF Start, WorkerBeats, TypeOK
  <2>2. 0 # None /\ 0 <= BeatPeriod
    BY <1>c DEF None
  <2> QED BY <1>0, <2>1, <2>2 DEF ReportedInv, SweepInv, LiveInv, Turn
<1>2. CASE Stop(h)
  <2>1. /\ good'[h] = 0 /\ \A g \in Hosts : g # h => good'[g] = good[g]
        /\ ~alive'[h] /\ \A g \in Hosts : g # h => alive'[g] = alive[g]
        /\ UNCHANGED <<net, beat>>
    BY <1>2 DEF Stop, TypeOK
  <2> QED BY <1>0, <1>c, <2>1 DEF ReportedInv, SweepInv, LiveInv, Turn
<1>3. CASE NetChanges(h)
  <2>1. /\ good'[h] = 0 /\ \A g \in Hosts : g # h => good'[g] = good[g]
        /\ \A g \in Hosts : g # h => net'[g] = net[g]
        /\ UNCHANGED <<alive, beat>>
    BY <1>3 DEF NetChanges, TypeOK
  <2> QED BY <1>0, <1>c, <2>1 DEF ReportedInv, SweepInv, LiveInv, Turn
<1> QED BY <1>1, <1>2, <1>3 DEF Worker

\* The clock, with the sweep or between two of them.
LEMMA LiveTick ==
  ASSUME TypeOK, ReportedInv, Tick
  PROVE  ReportedInv'
<1>c. /\ BeatPeriod \in Nat /\ sweepAge \in Nat /\ BeatCap \in Nat /\ AgeCap \in Nat
      /\ GoodCap \in Nat
      /\ \A h \in Hosts : /\ good[h] \in Nat
                          /\ beat[h] \in {None} \cup 0..BeatCap
                          /\ age[h] \in {None} \cup 0..AgeCap
  BY HeartbeatsAssumption, Constants DEF TypeOK
<1>0. /\ UNCHANGED <<alive, net, pc, todo, obs>> /\ pc # "stat"
      /\ pc = "idle" => sweepAge' = sweepAge + 1
      /\ sweepAge' \in Nat /\ sweepAge <= sweepAge'
  BY <1>c, Constants DEF Tick, TypeOK, Older, None
<1>1. \A h \in Hosts : alive'[h] => beat'[h] # None /\ beat'[h] <= BeatPeriod
  <2> SUFFICES ASSUME NEW h \in Hosts, alive[h]
               PROVE  beat'[h] # None /\ beat'[h] <= BeatPeriod
    BY <1>0
  <2>1. beat[h] # None /\ beat[h] < BeatPeriod /\ beat'[h] = Older(beat[h], BeatCap)
    BY DEF Tick, ReportedInv, LiveInv
  <2>2. beat[h] \in Nat
    BY <1>c, <2>1 DEF None
  <2> QED BY <1>c, <2>1, <2>2 DEF Older, None
<1>2. \A h \in Hosts : /\ good'[h] \in Nat /\ good'[h] <= good[h] + 1
                       /\ good'[h] > 0 => alive[h] /\ net[h] = "up"
                       /\ (\E g \in Hosts : net[g] \in {"hung", "stuck"}) => good'[h] = 0
  BY <1>c DEF Tick, Older, None
<1>3. pc # "idle" => \A h \in Hosts : good'[h] = 0
  <2> SUFFICES ASSUME pc # "idle" PROVE \A h \in Hosts : good'[h] = 0
    OBVIOUS
  <2>1. \E g \in Hosts : net[g] \in {"hung", "stuck"}
    BY DEF Tick, Stuck
  <2> QED BY <1>2, <2>1
<1>4. SweepInv'
  <2> SUFFICES ASSUME pc' # "idle" PROVE \A h \in Hosts : good'[h] = 0
    BY DEF SweepInv
  <2> QED BY <1>0, <1>3
<1>5. \A h \in Hosts : good'[h] > sweepAge' =>
            h \in todo' \/ (age'[h] # None /\ age'[h] <= sweepAge')
  <2> SUFFICES ASSUME NEW h \in Hosts, good'[h] > sweepAge', h \notin todo
               PROVE  age'[h] # None /\ age'[h] <= sweepAge'
    BY <1>0
  <2>0. sweepAge' = sweepAge + 1
    BY <1>0, <1>3, <1>c
  <2>1. good[h] > sweepAge
    BY <2>0, <1>2, <1>c
  <2>2. age[h] # None /\ age[h] <= sweepAge
    BY <2>1 DEF ReportedInv, LiveInv
  <2>3. age'[h] = Older(age[h], AgeCap)
    BY DEF Tick
  <2> QED BY <2>0, <1>c, <2>2, <2>3 DEF Older, None
<1> QED BY <1>0, <1>1, <1>2, <1>4, <1>5 DEF ReportedInv, LiveInv

\* The start of a sweep.
LEMMA LiveSweep ==
  ASSUME TypeOK, ReportedInv, StartSweep \/ LoadFails
  PROVE  ReportedInv'
<1>1. CASE StartSweep
  <2>1. /\ UNCHANGED <<alive, net, beat, good, age, obs>>
        /\ sweepAge' = 0 /\ probeAge' = 0 /\ todo' = Hosts /\ pc' \in {"idle", "dial"}
    BY <1>1 DEF StartSweep, workerVars
  <2> QED BY <2>1 DEF ReportedInv, SweepInv, LiveInv
<1>2. CASE LoadFails
  <2>1. /\ UNCHANGED <<alive, net, beat, age, pc, todo, obs>> /\ pc = "idle"
        /\ sweepAge' = 0 /\ \A h \in Hosts : good'[h] = 0
    BY <1>2 DEF LoadFails
  <2> QED BY <2>1 DEF ReportedInv, SweepInv, LiveInv
<1> QED BY <1>1, <1>2

\* If the settings fit together, the sweep, the counts and the files agree.
LEMMA LiveAlways ==
  ASSUME SettingsFit
  PROVE  Spec => []ReportedInv
<1>1. Init => ReportedInv
  BY Constants DEF Init, ReportedInv, SweepInv, LiveInv
<1>2. TypeOK /\ ReportedInv /\ [Next]_vars => ReportedInv'
  <2> SUFFICES ASSUME TypeOK, ReportedInv, [Next]_vars PROVE ReportedInv'
    OBVIOUS
  <2>1. CASE StartSweep \/ LoadFails
    BY <2>1, LiveSweep
  <2>2. CASE Tick
    BY <2>2, LiveTick
  <2>3. ASSUME NEW h \in Hosts, BridgeOne(h) \/ Worker(h) PROVE ReportedInv'
    BY <2>3, LiveBridgeOne, LiveWorker
  <2>4. CASE UNCHANGED vars
    BY <2>4 DEF vars, ReportedInv, SweepInv, LiveInv, Turn
  <2> QED
    BY <2>1, <2>2, <2>3, <2>4 DEF Next
<1> QED
  BY <1>1, <1>2, TypeCorrect, PTL DEF Spec

\* If the settings fit together, a worker that has been alive and reachable for
\* two intervals is reported healthy by the snapshot, whatever the other workers
\* do, unless a connection hung or got stuck or a file operation failed in that time.
THEOREM LiveReported ==
  ASSUME SettingsFit
  PROVE  Spec => []LiveIsReported
<1>1. TypeOK /\ ReportedInv => LiveIsReported
  <2> SUFFICES ASSUME TypeOK, ReportedInv, NEW h \in Hosts, pc = "idle",
                      sweepAge < Interval, good[h] = GoodCap
               PROVE  age[h] # None /\ age[h] < Threshold
    BY DEF LiveIsReported, SnapshotOK
  <2>1. /\ Interval \in Nat /\ Threshold \in Nat /\ sweepAge \in Nat /\ age[h] \in Int
        /\ Interval <= Threshold
    BY Constants DEF TypeOK, None, SettingsFit
  <2>2. GoodCap > sweepAge
    BY <2>1 DEF GoodCap
  <2>3. age[h] # None /\ age[h] <= sweepAge
    BY <2>2 DEF TypeOK, ReportedInv, LiveInv
  <2> QED BY <2>1, <2>3
<1> QED
  BY <1>1, TypeCorrect, LiveAlways, PTL

-----------------------------------------------------------------------------
\* A host whose count began before the previous sweep was touched by that one or
\* by this one.
RecentInv ==
    \A h \in Hosts : good[h] > Interval + sweepAge =>
        age[h] # None /\ age[h] <= Interval + sweepAge

\* At any moment, a sweep in progress included, the file of a worker that has
\* been alive and reachable for two intervals is at most one interval old.
LiveIsFresh == \A h \in Hosts : good[h] = GoodCap => age[h] # None /\ age[h] <= Interval

\* Every step leaves the touch of the sweep before in force.
LEMMA RecentNext == TypeOK /\ ReportedInv /\ RecentInv /\ [Next]_vars => RecentInv'
<1> SUFFICES ASSUME TypeOK, ReportedInv, RecentInv, [Next]_vars PROVE RecentInv'
  OBVIOUS
<1>c. /\ sweepAge \in Nat /\ Interval \in Nat /\ AgeCap \in Nat /\ GoodCap \in Nat
      /\ \A h \in Hosts : good[h] \in Nat /\ age[h] \in {None} \cup 0..AgeCap
  BY Constants DEF TypeOK
<1>k. ASSUME UNCHANGED sweepAge,
             \A h \in Hosts : good'[h] \in {0, good[h]} /\ age'[h] \in {0, age[h]}
      PROVE  RecentInv'
  BY <1>k, <1>c DEF RecentInv, None
<1>1. CASE StartSweep
  <2>1. UNCHANGED <<good, age>> /\ sweepAge = Interval /\ sweepAge' = 0 /\ todo = {}
    BY <1>1 DEF StartSweep, workerVars, TypeOK
  <2> QED BY <2>1, <1>c DEF RecentInv, ReportedInv, LiveInv
<1>2. CASE LoadFails
  <2>1. sweepAge' = 0 /\ \A h \in Hosts : good'[h] = 0
    BY <1>2 DEF LoadFails
  <2> QED BY <2>1, <1>c DEF RecentInv
<1>3. CASE Tick
  <2> SUFFICES ASSUME NEW h \in Hosts, good'[h] > Interval + sweepAge'
               PROVE  age'[h] # None /\ age'[h] <= Interval + sweepAge'
    BY DEF RecentInv
  <2>1. /\ good'[h] \in {0, Older(good[h], GoodCap)} /\ age'[h] = Older(age[h], AgeCap)
        /\ pc = "idle" /\ sweepAge' = sweepAge + 1
    <3>1. pc = "idle" \/ \E g \in Hosts : net[g] \in {"hung", "stuck"}
      BY <1>3 DEF Tick, Stuck
    <3>2. good'[h] > 0
      BY <1>c, <1>3, Constants DEF Tick, Older, None, TypeOK
    <3>3. pc = "idle"
      BY <1>3, <3>1, <3>2 DEF Tick
    <3> QED BY <1>3, <1>c, <3>3 DEF Tick, Older, None
  <2>2. good[h] > Interval + sweepAge
    BY <1>c, <2>1 DEF Older, None
  <2>3. age[h] # None /\ age[h] <= Interval + sweepAge
    BY <2>2 DEF RecentInv
  <2> QED BY <1>c, <2>1, <2>3 DEF Older, None
<1>4. ASSUME NEW h \in Hosts, BridgeOne(h) PROVE RecentInv'
  <2>1. /\ UNCHANGED sweepAge
        /\ good' = good \/ good' = [good EXCEPT ![h] = 0]
        /\ age' = age \/ age' = [age EXCEPT ![h] = 0]
    BY <1>4 DEF BridgeOne, Probe, ProbeFails, Judge, Touch, TouchFails, workerVars
  <2> QED BY <2>1, <1>k DEF TypeOK
<1>5. ASSUME NEW h \in Hosts, Worker(h) PROVE RecentInv'
  <2>1. /\ UNCHANGED <<sweepAge, age>>
        /\ good' = good \/ good' = [good EXCEPT ![h] = 0]
    BY <1>5 DEF Worker, Start, WorkerBeats, Stop, NetChanges
  <2> QED BY <2>1, <1>k DEF TypeOK
<1>6. CASE UNCHANGED vars
  BY <1>6 DEF vars, RecentInv
<1> QED
  BY <1>1, <1>2, <1>3, <1>4, <1>5, <1>6 DEF Next

\* If the settings fit together, the heartbeat file of a worker that has been
\* alive and reachable for two intervals is never older than one, which is what a
\* reader of the files that keeps its own clock can rely on.
THEOREM LiveFresh ==
  ASSUME SettingsFit
  PROVE  Spec => []LiveIsFresh
<1>1. Init => RecentInv
  BY Constants DEF Init, RecentInv
<1>2. TypeOK /\ ReportedInv /\ RecentInv => LiveIsFresh
  <2> SUFFICES ASSUME TypeOK, ReportedInv, RecentInv, NEW h \in Hosts, good[h] = GoodCap
               PROVE  age[h] # None /\ age[h] <= Interval
    BY DEF LiveIsFresh
  <2>c. /\ sweepAge \in 0..Interval /\ Interval \in Nat /\ GoodCap = 2 * Interval + 1
        /\ age[h] \in Int
    BY Constants DEF TypeOK, GoodCap, None
  <2>1. CASE h \in todo
    <3>1. pc # "idle"
      BY <2>1 DEF TypeOK
    <3>2. sweepAge = 0
      BY <2>c, <3>1 DEF ReportedInv, SweepInv
    <3> QED BY <2>c, <3>2 DEF RecentInv
  <2>2. CASE h \notin todo
    BY <2>2, <2>c DEF ReportedInv, LiveInv
  <2> QED BY <2>1, <2>2
<1> QED
  BY <1>1, <1>2, RecentNext, TypeCorrect, LiveAlways, PTL DEF Spec
=============================================================================
