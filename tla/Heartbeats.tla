----------------------------- MODULE Heartbeats -----------------------------
(***************************************************************************)
(* fleetctl heartbeats-bridge: the sweep that probes each worker's         *)
(* heartbeat file over SSH and touches <host>.json on the gateway, and the *)
(* verdict fleet.HealthSnapshot reads off the touched files.               *)
(*                                                                         *)
(* Times are ages, as in Watchdog: beat[h] is the age of the worker's own  *)
(* heartbeat file, age[h] that of the gateway's <h>.json.                  *)
(*                                                                         *)
(* Operators named A_xyz are plausible bugs of the definition A below them.*)
(***************************************************************************)
EXTENDS Integers

CONSTANTS
    NumHosts,       \* nodes.txt lists the hosts 1..NumHosts in this order
    Interval,       \* --interval
    SSHTimeout,     \* --ssh-timeout, for dial and command of one probe
    StaleMax,       \* --stale-max
    BeatPeriod,     \* the worker's LaunchDaemon beats this often
    Threshold,      \* HealthyHeartbeatThreshold
    Hangs,          \* can a worker's SSH port swallow packets, or take a connection
                    \* and then say nothing?
    Faults          \* can nodes.txt be unreadable and writes fail?

ASSUME HeartbeatsAssumption ==
    /\ NumHosts \in Nat /\ StaleMax \in Nat /\ BeatPeriod \in Nat
    /\ Threshold \in Nat /\ SSHTimeout \in Nat
    /\ Interval \in Nat \ {0, 1}
    /\ Hangs \in BOOLEAN /\ Faults \in BOOLEAN

Hosts == 1..NumHosts
None == -1
AgeCap == Threshold + 1
BeatCap == AgeCap + StaleMax + 1

VARIABLES
    alive,      \* [Hosts -> BOOLEAN]: is its heartbeat daemon running?
    net,        \* [Hosts -> {"up", "refused", "hung", "stuck"}]; hung: swallows
                \* packets; stuck: takes the connection and says nothing
    beat,       \* [Hosts -> {None} \cup 0..BeatCap]
    age,        \* [Hosts -> {None} \cup 0..AgeCap]
    pc,
    todo,       \* hosts left in the sweep
    sweepAge,   \* time since the ticker fired
    probeAge,   \* time since the probe of the current host began
    obs,        \* age of the heartbeat time the probe read
    good        \* history: for how long the host has been alive and up, no
                \* connection has hung and no file operation for it has failed

vars == <<alive, net, beat, age, pc, todo, sweepAge, probeAge, obs, good>>
workerVars == <<alive, net, beat, good>>

GoodCap == 2 * Interval + 1

TypeOK ==
    /\ alive \in [Hosts -> BOOLEAN]
    /\ net \in [Hosts -> {"up", "refused", "hung", "stuck"}]
    /\ beat \in [Hosts -> {None} \cup 0..BeatCap]
    /\ age \in [Hosts -> {None} \cup 0..AgeCap]
    /\ pc \in {"idle", "dial", "stat", "write"}
    /\ todo \subseteq Hosts /\ (pc = "idle" <=> todo = {})
    /\ sweepAge \in 0..Interval
    /\ probeAge \in 0..SSHTimeout
    /\ obs \in 0..BeatCap
    /\ good \in [Hosts -> 0..GoodCap]

Init ==
    /\ alive = [h \in Hosts |-> FALSE]
    /\ net = [h \in Hosts |-> "up"]
    /\ beat = [h \in Hosts |-> None]
    /\ age = [h \in Hosts |-> None]
    /\ pc = "idle"
    /\ todo = {}
    /\ sweepAge = Interval
    /\ probeAge = 0
    /\ obs = 0
    /\ good = [h \in Hosts |-> 0]

-----------------------------------------------------------------------------
\* h is the host whose probe is under way.
Turn(h) == h \in todo /\ \A g \in todo : h <= g

\* The sweep's context ends one time unit before the next tick; the probe's
\* with it or after --ssh-timeout.
SweepOver == sweepAge >= Interval - 1
ProbeOver == SweepOver \/ probeAge >= SSHTimeout

\* The probe of h waits for a handshake, a session or the rest of an output,
\* which no context bounds; only the dial before them looks at it.
Stuck(h) == net[h] = "stuck" /\ (probeAge > 0 \/ ~ProbeOver)

\* The probe of h gets nothing: refused, no such file, or the context has ended.
NoAnswer(h) == \/ net[h] = "refused"
               \/ net[h] = "up" /\ beat[h] = None
               \/ ProbeOver /\ ~Stuck(h)

\* bridgeOne returns, with or without an error: the next node.
NextNode(h) ==
    /\ todo' = todo \ {h}
    /\ pc' = IF todo = {h} THEN "idle" ELSE "dial"
    /\ probeAge' = 0

\* The head of sweep: the registry is loaded again each time.
StartSweep ==
    /\ pc = "idle" /\ sweepAge = Interval
    /\ sweepAge' = 0 /\ probeAge' = 0
    /\ todo' = Hosts
    /\ pc' = IF Hosts = {} THEN "idle" ELSE "dial"
    /\ UNCHANGED <<workerVars, age, obs>>

LoadFails ==
    /\ pc = "idle" /\ sweepAge = Interval /\ Faults
    /\ sweepAge' = 0
    /\ good' = [h \in Hosts |-> 0]
    /\ UNCHANGED <<alive, net, beat, age, pc, todo, probeAge, obs>>

\* dialer.Dial and `stat -f %m' succeed: the heartbeat's time is known.
Probe(h) ==
    /\ pc = "dial" /\ Turn(h)
    /\ net[h] = "up" /\ beat[h] # None /\ ~ProbeOver
    /\ obs' = beat[h]
    /\ pc' = "stat"
    /\ UNCHANGED <<workerVars, age, todo, sweepAge, probeAge>>

\* Logged, nothing else.
ProbeFails(h) ==
    /\ pc = "dial" /\ Turn(h) /\ NoAnswer(h)
    /\ NextNode(h)
    /\ UNCHANGED <<workerVars, age, sweepAge, obs>>

\* Bug: the age of the worker's heartbeat is not looked at.
Judge_anyAge(h) ==
    /\ pc = "stat" /\ Turn(h)
    /\ pc' = "write"
    /\ UNCHANGED <<workerVars, age, todo, sweepAge, probeAge, obs>>

\* The worker's heartbeat is compared with stale-max by the gateway's clock;
\* a stale one leaves <h>.json alone.
Judge(h) ==
    /\ pc = "stat" /\ Turn(h)
    /\ IF obs > StaleMax
       THEN NextNode(h)
       ELSE pc' = "write" /\ UNCHANGED <<todo, probeAge>>
    /\ UNCHANGED <<workerVars, age, sweepAge, obs>>

\* os.WriteFile of <h>.json, which dates it now.
Touch(h) ==
    /\ pc = "write" /\ Turn(h)
    /\ age' = [age EXCEPT ![h] = 0]
    /\ NextNode(h)
    /\ UNCHANGED <<workerVars, sweepAge, obs>>

\* It fails, before or after it has truncated the file.
TouchFails(h) ==
    /\ pc = "write" /\ Turn(h) /\ Faults
    /\ age' = age \/ age' = [age EXCEPT ![h] = 0]
    /\ NextNode(h)
    /\ good' = [good EXCEPT ![h] = 0]
    /\ UNCHANGED <<alive, net, beat, sweepAge, obs>>

\* Bug: one failed probe ends the sweep.
BridgeOne_abort(h) ==
    \/ Probe(h) \/ Judge(h) \/ Touch(h) \/ TouchFails(h)
    \/ ProbeFails(h) /\ todo = {h}
    \/ /\ pc = "dial" /\ Turn(h) /\ todo # {h} /\ NoAnswer(h)
       /\ todo' = {} /\ pc' = "idle" /\ probeAge' = 0
       /\ UNCHANGED <<workerVars, age, sweepAge, obs>>

\* bridgeOne for the node whose turn it is.
BridgeOne(h) ==
    Probe(h) \/ ProbeFails(h) \/ Judge(h) \/ Touch(h) \/ TouchFails(h)

-----------------------------------------------------------------------------
\* The worker: its daemon starts, beats and stops, its network comes and goes.
Start(h) ==
    /\ ~alive[h]
    /\ alive' = [alive EXCEPT ![h] = TRUE]
    /\ beat' = [beat EXCEPT ![h] = 0]
    /\ UNCHANGED <<net, age, pc, todo, sweepAge, probeAge, obs, good>>

WorkerBeats(h) ==
    /\ alive[h] /\ beat[h] # 0
    /\ beat' = [beat EXCEPT ![h] = 0]
    /\ UNCHANGED <<alive, net, age, pc, todo, sweepAge, probeAge, obs, good>>

Stop(h) ==
    /\ alive[h]
    /\ alive' = [alive EXCEPT ![h] = FALSE]
    /\ good' = [good EXCEPT ![h] = 0]
    /\ UNCHANGED <<net, beat, age, pc, todo, sweepAge, probeAge, obs>>

NetChanges(h) ==
    /\ \E n \in {"up", "refused"} \cup (IF Hangs THEN {"hung", "stuck"} ELSE {}) :
         n # net[h] /\ net' = [net EXCEPT ![h] = n]
    /\ good' = [good EXCEPT ![h] = 0]
    /\ UNCHANGED <<alive, beat, age, pc, todo, sweepAge, probeAge, obs>>

Older(a, cap) == IF a = None \/ a >= cap THEN a ELSE a + 1

\* Time passes: only while the bridge waits for its tick or for a host that
\* does not answer, and not past the beat a living daemon owes.  The ticker
\* keeps one tick for a sweep that takes longer than the interval.
Tick ==
    /\ \/ pc = "idle" /\ sweepAge < Interval
       \/ /\ pc = "dial"
          /\ \E h \in Hosts : Turn(h) /\ (Stuck(h) \/ (net[h] = "hung" /\ ~ProbeOver))
    /\ \A h \in Hosts : alive[h] => beat[h] < BeatPeriod
    /\ beat' = [h \in Hosts |-> Older(beat[h], BeatCap)]
    /\ age' = [h \in Hosts |-> Older(age[h], AgeCap)]
    /\ good' = [h \in Hosts |->
                  IF alive[h] /\ net[h] = "up" /\ \A g \in Hosts : net[g] \in {"up", "refused"}
                  THEN Older(good[h], GoodCap) ELSE 0]
    /\ sweepAge' = Older(sweepAge, Interval)
    /\ probeAge' = IF pc = "dial" THEN Older(probeAge, SSHTimeout) ELSE probeAge
    /\ UNCHANGED <<alive, net, pc, todo, obs>>

Worker(h) == Start(h) \/ WorkerBeats(h) \/ Stop(h) \/ NetChanges(h)

Next == \/ StartSweep \/ LoadFails \/ Tick
        \/ \E h \in Hosts : BridgeOne(h) \/ Worker(h)

Spec == Init /\ [][Next]_vars

-----------------------------------------------------------------------------
\* compute: the verdict of the health snapshot about h.
SnapshotOK(h) == age[h] # None /\ age[h] < Threshold

\* A touched file is evidence: its host beat at most stale-max before the
\* touch, whatever the worker has done since.
FreshMeansAlive ==
    \A h \in Hosts : age[h] # None /\ age[h] < AgeCap
                     => beat[h] # None /\ beat[h] <= age[h] + StaleMax

\* A worker that has been alive and reachable for two intervals is reported
\* healthy, whatever state the other workers are in, unless a connection hung
\* or got stuck (which takes its time from the sweep, or stops it for as long as
\* it lasts) or a file operation failed.
LiveIsReported ==
    \A h \in Hosts : pc = "idle" /\ sweepAge < Interval /\ good[h] = GoodCap => SnapshotOK(h)
=============================================================================
