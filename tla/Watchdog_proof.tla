--------------------------- MODULE Watchdog_proof ---------------------------
(***************************************************************************)
(* For any number of hosts and backends and any windows: the watchdog's    *)
(* types; that a recovery is announced only to a backend that was told of  *)
(* the outage, under every fault of the model; that Criticals keep the     *)
(* dedup window's distance; and that an outage is reported in time.  Then, *)
(* of the watchdog together with heartbeats-bridge: that each implements   *)
(* its own specification in the fleet, that a worker that falls silent is  *)
(* reported, and that one that beats and is reachable is not.              *)
(***************************************************************************)
EXTENDS FleetHealth, TLAPS

\* Every backend was told of an outage of h.
Known(h) == \A b \in Backends : told[b][h] # "nothing"

\* A marker stands for a Critical that every backend accepted; and so does,
\* one by one, the progress of the Fire that is going to write one.
MarkerInv ==
    /\ \A h \in Hosts : HasMarker(h) => Known(h)
    /\ pc = "send" /\ sev = "warning" => \A h \in Hosts : Turn(h) => HasMarker(h)
    /\ pc = "send" /\ sev = "critical" /\ ~failed =>
         \A h \in Hosts : Turn(h) => \A b \in Backends : b \in queue \/ told[b][h] # "nothing"
    /\ pc = "mark" => \A h \in Hosts : Turn(h) => Known(h)

IInv == TypeOK /\ MarkerInv

-----------------------------------------------------------------------------
(***************************************************************************)
(* Type correctness                                                        *)
(***************************************************************************)

\* What WatchdogAssumption says of the thresholds and the caps derived from them.
LEMMA Constants ==
    /\ StaleMax \in Nat /\ DedupWindow \in Nat /\ Interval \in Nat \ {0, 1}
    /\ NumHosts \in Nat
    /\ AgeCap \in Nat /\ MarkCap \in Nat /\ Interval <= MarkCap
    /\ Hosts \subseteq Nat
  BY WatchdogAssumption DEF AgeCap, MarkCap, Hosts

\* The state in which the watchdog starts is well typed.
LEMMA TypeInit == Init => TypeOK
<1> SUFFICES ASSUME Init PROVE TypeOK
  OBVIOUS
<1>1. /\ env \in EnvRecords
      /\ scanAge \in 0..Interval /\ crashes \in 0..env.maxCrashes
  BY Constants, WatchdogAssumption DEF Init, EnvRecords
<1>2. /\ paged \in [Backends -> [Hosts -> BOOLEAN]]
      /\ seenFresh \in [Backends -> [Hosts -> BOOLEAN]]
  BY DEF Init
<1>3. told \in [Backends -> [Hosts -> {"nothing", "stale", "recovered"}]]
  BY DEF Init
<1> QED
  BY <1>1, <1>2, <1>3 DEF Init, TypeOK, Severities

\* An age stays within its cap.
LEMMA OlderTyped ==
  ASSUME NEW cap \in Nat, NEW a \in {None} \cup 0..cap
  PROVE  Older(a, cap) \in {None} \cup 0..cap
  BY DEF Older, None

\* A delivery keeps the types of the histories.
LEMMA DeliveredTyped ==
  ASSUME TypeOK, NEW b \in Backends, NEW h \in Hosts, Delivered(b, h)
  PROVE  /\ told' \in [Backends -> [Hosts -> {"nothing", "stale", "recovered"}]]
         /\ paged' \in [Backends -> [Hosts -> BOOLEAN]]
         /\ last' \in [Backends -> [Hosts -> {None} \cup 0..MarkCap]]
         /\ seenFresh' \in [Backends -> [Hosts -> BOOLEAN]]
<1>1. told' \in [Backends -> [Hosts -> {"nothing", "stale", "recovered"}]]
  BY DEF Delivered, TypeOK
<1>2. paged' \in [Backends -> [Hosts -> BOOLEAN]]
  BY DEF Delivered, TypeOK
<1>3. last' \in [Backends -> [Hosts -> {None} \cup 0..MarkCap]]
  <2>1. scanAge \in 0..MarkCap
    BY Constants DEF TypeOK
  <2> QED
    BY <2>1 DEF Delivered, TypeOK
<1>4. seenFresh' \in [Backends -> [Hosts -> BOOLEAN]]
  BY DEF Delivered, TypeOK
<1> QED
  BY <1>1, <1>2, <1>3, <1>4

\* The scan of one host keeps the types.
LEMMA ScanHostTyped ==
  ASSUME TypeOK, NEW h \in Hosts, ScanHost(h), UNCHANGED env
  PROVE  TypeOK'
<1>1. CASE PassOver(h)
  BY <1>1 DEF PassOver, Turn, NextHost, TypeOK, history
<1>2. CASE FireStale(h)
  BY <1>2 DEF FireStale, Fire, Turn, TypeOK, Severities, history
<1>3. CASE FireRecovered(h)
  BY <1>3 DEF FireRecovered, Fire, Turn, TypeOK, Severities, history
<1>4. CASE FireDone(h)
  BY <1>4 DEF FireDone, Turn, NextHost, TypeOK, history
<1>5. CASE WriteMarker(h)
  <2>1. mark' \in [Hosts -> {None} \cup 0..MarkCap]
    <3>1. scanAge \in 0..MarkCap /\ 0 \in 0..MarkCap
      BY Constants DEF TypeOK
    <3> QED
      BY <1>5, <3>1 DEF WriteMarker, MarkHost, TypeOK
  <2> QED
    BY <1>5, <2>1 DEF WriteMarker, Turn, NextHost, TypeOK, history
<1>6. CASE RemoveMarker(h)
  <2>1. mark' \in [Hosts -> {None} \cup 0..MarkCap]
    BY <1>6 DEF RemoveMarker, TypeOK
  <2> QED
    BY <1>6, <2>1 DEF RemoveMarker, Turn, NextHost, TypeOK, history
<1>7. ASSUME NEW b \in Backends, SendOK(b, h) PROVE TypeOK'
  <2>1. Delivered(b, h)
    BY <1>7 DEF SendOK
  <2> QED
    BY <1>7, <2>1, DeliveredTyped DEF SendOK, TypeOK
<1>8. ASSUME NEW b \in Backends, SendFail(b, h) PROVE TypeOK'
  <2>1. CASE Delivered(b, h)
    BY <1>8, <2>1, DeliveredTyped DEF SendFail, TypeOK
  <2>2. CASE UNCHANGED history
    BY <1>8, <2>2 DEF SendFail, TypeOK, history
  <2> QED
    BY <1>8, <2>1, <2>2 DEF SendFail
<1> QED
  BY <1>1, <1>2, <1>3, <1>4, <1>5, <1>6, <1>7, <1>8 DEF ScanHost

\* A scan keeps to the hosts the directory lists.
LEMMA StartScanOf ==
  ASSUME TypeOK, StartScan
  PROVE  \E entries \in SUBSET Hosts : entries \subseteq Listed /\ ScanOf(entries)
  BY DEF StartScan, Listed

\* Every step keeps the types.
LEMMA TypeNext == TypeOK /\ [Next]_vars => TypeOK'
<1> SUFFICES ASSUME TypeOK, [Next]_vars PROVE TypeOK'
  OBVIOUS
<1>0. UNCHANGED env
  BY DEF Next, vars
<1>1. CASE StartScan
  <2>1. PICK entries \in SUBSET Hosts : ScanOf(entries)
    BY <1>1, StartScanOf
  <2>2. seenFresh' \in [Backends -> [Hosts -> BOOLEAN]]
    BY <1>0, <2>1 DEF ScanOf, TypeOK
  <2>3. /\ up' = TRUE /\ scanAge' = 0 /\ todo' \subseteq Hosts /\ stale' \subseteq Hosts
        /\ pc' \in {"idle", "host"} /\ (pc' # "idle" => todo' # {})
        /\ UNCHANGED <<age, mark, sev, queue, failed, crashes, told, paged, last>>
    BY <2>1 DEF ScanOf, TypeOK
  <2> QED
    BY <1>0, <2>2, <2>3, Constants DEF TypeOK
<1>2. CASE DirUnreadable
  BY <1>0, <1>2, Constants DEF DirUnreadable, TypeOK, scanVars, history
<1>3. ASSUME NEW h \in Hosts, ScanHost(h) PROVE TypeOK'
  BY <1>0, <1>3, ScanHostTyped
<1>4. CASE Crash
  <2>1. crashes' \in 0..env.maxCrashes
    BY <1>0, <1>4 DEF Crash, TypeOK, EnvRecords
  <2> QED
    BY <1>0, <1>4, <2>1 DEF Crash, TypeOK, history
<1>5. CASE Restart
  BY <1>0, <1>5, Constants DEF Restart, TypeOK, scanVars, history
<1>6. CASE Tick
  <2>1. age' \in [Hosts -> {None} \cup 0..AgeCap]
    BY <1>0, <1>6, Constants, OlderTyped DEF Tick, TypeOK
  <2>2. mark' \in [Hosts -> {None} \cup 0..MarkCap]
    BY <1>0, <1>6, Constants, OlderTyped DEF Tick, TypeOK
  <2>3. scanAge' \in 0..Interval
    BY <1>0, <1>6, Constants DEF Tick, TypeOK, Older, None
  <2>4. last' \in [Backends -> [Hosts -> {None} \cup 0..MarkCap]]
    BY <1>0, <1>6, Constants, OlderTyped DEF Tick, TypeOK
  <2> QED
    BY <1>0, <1>6, <2>1, <2>2, <2>3, <2>4 DEF Tick, TypeOK, scanVars
<1>7. ASSUME NEW h \in Hosts, Beat(h) PROVE TypeOK'
  <2>1. age' \in [Hosts -> {None} \cup 0..AgeCap]
    BY <1>0, <1>7, Constants DEF Beat, TypeOK
  <2>2. paged' \in [Backends -> [Hosts -> BOOLEAN]]
    BY <1>0, <1>7 DEF Beat, TypeOK
  <2> QED
    BY <1>0, <1>7, <2>1, <2>2 DEF Beat, TypeOK, scanVars
<1>8. CASE UNCHANGED vars
  BY <1>8 DEF vars, TypeOK
<1> QED
  BY <1>1, <1>2, <1>3, <1>4, <1>5, <1>6, <1>7, <1>8 DEF Next, ScanStep

\* The state of a scan, the markers and the histories keep their types.
THEOREM TypeCorrect == Spec => []TypeOK
<1>1. Init => TypeOK
  BY TypeInit
<1>2. TypeOK /\ [Next]_vars => TypeOK'
  BY TypeNext
<1> QED
  BY <1>1, <1>2, PTL DEF Spec

-----------------------------------------------------------------------------
(***************************************************************************)
(* Markers and what the backends know                                      *)
(***************************************************************************)

\* Only one host has its turn.
LEMMA OneTurn ==
  ASSUME TypeOK, NEW g \in Hosts, NEW h \in Hosts, Turn(g), Turn(h)
  PROVE  g = h
  BY Constants DEF Turn

\* A delivery to b about h makes nobody forget, and b knows of h afterwards.
LEMMA DeliveredKnown ==
  ASSUME TypeOK, NEW b \in Backends, NEW h \in Hosts, Delivered(b, h)
  PROVE  /\ told'[b][h] # "nothing"
         /\ \A c \in Backends, g \in Hosts :
              /\ told[c][g] # "nothing" => told'[c][g] # "nothing"
              /\ c # b \/ g # h => told'[c][g] = told[c][g]
         /\ sev = "critical" => told'[b][h] = "stale"
  BY DEF Delivered, TypeOK

\* The scan of one host keeps what markers stand for.
LEMMA MarkerScanHost ==
  ASSUME TypeOK, MarkerInv, NEW h \in Hosts, ScanHost(h)
  PROVE  MarkerInv'
<1>1. CASE PassOver(h)
  BY <1>1 DEF PassOver, NextHost, MarkerInv, Known, HasMarker, history
<1>2. CASE FireStale(h)
  BY <1>2 DEF FireStale, Fire, MarkerInv, Known, HasMarker, Turn, HandlesSeverity, history
<1>3. CASE FireRecovered(h)
  <2>1. \A g \in Hosts : Turn(g)' => HasMarker(g)'
    BY <1>3, OneTurn DEF FireRecovered, Fire, Turn, HasMarker
  <2> QED
    BY <1>3, <2>1 DEF FireRecovered, Fire, MarkerInv, Known, HasMarker, history
<1>4. CASE FireDone(h)
  <2>1. CASE failed
    BY <1>4, <2>1 DEF FireDone, NextHost, MarkerInv, Known, HasMarker, history
  <2>2. CASE ~failed
    <3>1. Known(h)
      BY <1>4, <2>2 DEF FireDone, MarkerInv, Known, TypeOK, Severities
    <3>2. \A g \in Hosts : Turn(g)' => g = h
      BY <1>4, <2>2, OneTurn DEF FireDone, Turn
    <3> QED
      BY <1>4, <2>2, <3>1, <3>2 DEF FireDone, MarkerInv, Known, HasMarker, history
  <2> QED
    BY <2>1, <2>2
<1>5. CASE WriteMarker(h)
  <2>1. Known(h)
    BY <1>5 DEF WriteMarker, MarkerInv
  <2>2. \A g \in Hosts : g # h => mark'[g] = mark[g]
    BY <1>5 DEF WriteMarker, MarkHost, TypeOK
  <2> QED
    BY <1>5, <2>1, <2>2 DEF WriteMarker, NextHost, MarkerInv, Known, HasMarker, history
<1>6. CASE RemoveMarker(h)
  <2>1. \A g \in Hosts : mark'[g] = mark[g] \/ mark'[g] = None
    BY <1>6 DEF RemoveMarker, TypeOK
  <2> QED
    BY <1>6, <2>1 DEF RemoveMarker, NextHost, MarkerInv, Known, HasMarker, history
<1>7. ASSUME NEW b \in Backends, SendOK(b, h) PROVE MarkerInv'
  <2>1. Delivered(b, h)
    BY <1>7 DEF SendOK
  <2>2. \A g \in Hosts : Turn(g)' => g = h
    BY <1>7, OneTurn DEF SendOK, Turn
  <2> QED
    BY <1>7, <2>1, <2>2, DeliveredKnown DEF SendOK, MarkerInv, Known, HasMarker, Turn
<1>8. ASSUME NEW b \in Backends, SendFail(b, h) PROVE MarkerInv'
  <2>1. \A c \in Backends, g \in Hosts : told[c][g] # "nothing" => told'[c][g] # "nothing"
    BY <1>8, DeliveredKnown DEF SendFail, history
  <2> QED
    BY <1>8, <2>1 DEF SendFail, MarkerInv, Known, HasMarker, Turn
<1> QED
  BY <1>1, <1>2, <1>3, <1>4, <1>5, <1>6, <1>7, <1>8 DEF ScanHost

\* Every step keeps what markers stand for.
LEMMA MarkerNext == TypeOK /\ MarkerInv /\ [Next]_vars => MarkerInv'
<1> SUFFICES ASSUME TypeOK, MarkerInv, [Next]_vars PROVE MarkerInv'
  OBVIOUS
<1>1. CASE StartScan
  BY <1>1 DEF StartScan, ScanOf, MarkerInv, Known, HasMarker
<1>2. CASE DirUnreadable
  BY <1>2 DEF DirUnreadable, MarkerInv, Known, HasMarker, history
<1>3. ASSUME NEW h \in Hosts, ScanHost(h) PROVE MarkerInv'
  BY <1>3, MarkerScanHost
<1>4. CASE Crash
  BY <1>4 DEF Crash, MarkerInv, Known, HasMarker, history
<1>5. CASE Restart
  BY <1>5 DEF Restart, MarkerInv, Known, HasMarker, Turn, scanVars, history
<1>6. CASE Tick
  <2>1. \A h \in Hosts : HasMarker(h)' <=> HasMarker(h)
    BY <1>6, Constants DEF Tick, Older, HasMarker, TypeOK, None
  <2> QED
    BY <1>6, <2>1 DEF Tick, MarkerInv, Known, Turn, scanVars
<1>7. ASSUME NEW h \in Hosts, Beat(h) PROVE MarkerInv'
  BY <1>7 DEF Beat, MarkerInv, Known, HasMarker, Turn, scanVars
<1>8. CASE UNCHANGED vars
  BY <1>8 DEF vars, MarkerInv, Known, HasMarker, Turn
<1> QED
  BY <1>1, <1>2, <1>3, <1>4, <1>5, <1>6, <1>7, <1>8 DEF Next, ScanStep

\* The step of a scan that makes a backend hear of a recovery is the Send of a
\* Warning, which a marker admitted.
LEMMA RecoveryStep ==
  ASSUME TypeOK, MarkerInv, [Next]_vars
  PROVE  \A b \in Backends, h \in Hosts :
           told'[b][h] = "recovered" => told[b][h] # "nothing"
<1> SUFFICES ASSUME NEW c \in Backends, NEW g \in Hosts, told'[c][g] = "recovered"
             PROVE  told[c][g] # "nothing"
  OBVIOUS
<1>1. CASE UNCHANGED told
  BY <1>1
<1>2. ASSUME NEW b \in Backends, NEW h \in Hosts, pc = "send", Turn(h), Delivered(b, h)
      PROVE  told[c][g] # "nothing"
  <2>1. CASE sev = "critical"
    BY <1>2, <2>1, DeliveredKnown
  <2>2. CASE sev = "warning"
    <3>1. Known(h)
      BY <1>2, <2>2 DEF MarkerInv
    <3> QED
      BY <1>2, <3>1, DeliveredKnown DEF Known
  <2> QED
    BY <2>1, <2>2 DEF TypeOK, Severities
<1>3. ASSUME NEW h \in Hosts, ScanHost(h) PROVE told[c][g] # "nothing"
  BY <1>1, <1>2, <1>3
  DEF ScanHost, PassOver, FireStale, FireRecovered, Fire, FireDone, WriteMarker,
      RemoveMarker, SendOK, SendFail, history
<1> QED
  BY <1>1, <1>3
  DEF Next, ScanStep, StartScan, ScanOf, DirUnreadable, Crash, Restart, Tick, Beat, vars, history

\* A marker stands for an outage every backend was told of.
THEOREM MarkersAreKnown == Spec => []MarkerInv
<1>1. Init => MarkerInv
  BY DEF Init, MarkerInv, HasMarker
<1>2. TypeOK /\ MarkerInv /\ [Next]_vars => MarkerInv'
  BY MarkerNext
<1> QED
  BY <1>1, <1>2, TypeCorrect, PTL DEF Spec

\* Whatever fails or crashes, a backend that hears "recovered" about a host
\* was told of an outage of it before.
THEOREM RecoveriesFollowAlerts == Spec => RecoveryFollowsAlert
<1>1. TypeOK /\ MarkerInv /\ [Next]_vars
        => [\A b \in Backends, h \in Hosts :
              told'[b][h] = "recovered" => told[b][h] # "nothing"]_vars
  BY RecoveryStep
<1> QED
  BY <1>1, TypeCorrect, MarkersAreKnown, PTL DEF Spec, RecoveryFollowsAlert

-----------------------------------------------------------------------------
(***************************************************************************)
(* Backends and disk that work, and scans that take no time.  Then no Send *)
(* fails, and the marker of a host is dated by the last Critical about it  *)
(* for as long as the process lives and no scan finds the host fresh.      *)
(***************************************************************************)

\* Router.Fire, or the marker after it, is at a Critical about h.
Firing(h) == pc \in {"send", "mark"} /\ sev = "critical" /\ Turn(h)

\* Nothing fails, and a scan is over before time passes.
SteadyInv ==
    /\ ~failed /\ (crashes = 0 => up)
    /\ pc # "idle" => scanAge = 0
    /\ pc = "idle" <=> todo = {}
    /\ pc = "mark" => queue = {}

\* What the scan does for a host follows from what it found at its start.
ScanInv ==
    /\ \A h \in todo \ stale, b \in Backends : seenFresh[b][h]
    /\ \A h \in Hosts : Firing(h) => h \in stale /\ ~WithinWindow(h)
    /\ pc \in {"send", "mark"} /\ sev = "warning" => \A h \in Hosts : Turn(h) => h \notin stale

\* The Fire under way has reached b with its Critical about h.
Reached(b, h) == Firing(h) /\ b \notin queue

\* b has heard a Critical about h since the marker's date; and unless the
\* process has died, the last one dates the marker, or is about to, or a scan
\* has found the host fresh since.
Linked(b, h) ==
    /\ Reached(b, h) => last[b][h] = 0
    /\ HasMarker(h) => last[b][h] # None /\ last[b][h] <= mark[h]
    /\ crashes = 0 /\ last[b][h] # None /\ ~seenFresh[b][h]
         => Reached(b, h) \/ mark[h] = last[b][h]

DedupInv == SteadyInv /\ ScanInv /\ \A b \in Backends, h \in Hosts : Linked(b, h)

\* b has been told of this outage of h, or the dedup window may hide it, or h
\* has beaten since the scan began.
Answered(b, h) ==
    \/ paged[b][h]
    \/ Suppressed(b, h)
    \/ age[h] # None /\ age[h] <= scanAge

\* As long as the process lives, a marker suppresses an alert only about an
\* outage that was answered; a stale host the last scan has been through is
\* answered.
ReportInv ==
    /\ crashes = 0 => \A h \in Hosts : HasMarker(h) =>
            h \in todo \ stale \/ \A b \in Backends : Answered(b, h)
    /\ \A h \in Hosts : Firing(h) => \A b \in Backends \ queue : Answered(b, h)
    /\ up /\ scanAge < Interval =>
         /\ \A h \in stale \ todo, b \in Backends : Answered(b, h)
         /\ \A h \in Hosts : h \in stale \/ age[h] <= StaleMax + scanAge

\* When backends and disk work no Send fails and no scan or entry is skipped: what is
\* left is the scan of a host, the end of the process, time and heartbeats.
LEMMA WorkingSteps ==
  ASSUME TypeOK, Working, SteadyInv, Next
  PROVE  \/ ScanOf(Listed)
         \/ \E h \in Hosts : \/ PassOver(h) \/ FireStale(h) \/ FireRecovered(h)
                             \/ FireDone(h) \/ WriteMarker(h) \/ RemoveMarker(h)
                             \/ \E b \in Backends : SendOK(b, h)
         \/ Crash
         \/ Restart /\ pc = "idle"
         \/ Tick /\ pc = "idle"
         \/ \E h \in Hosts : Beat(h)
<1>1. Restart => pc = "idle"
  BY DEF Restart, TypeOK
<1>2. ~DirUnreadable
  BY DEF DirUnreadable, Working
<1>3. \A b \in Backends, h \in Hosts : ~SendFail(b, h)
  <2>1. pc = "send" => ~Expired
    <3>1. Interval \in Nat \ {0, 1}
      BY Constants
    <3>2. pc = "send" => scanAge = 0
      BY DEF SteadyInv
    <3> QED BY <3>1, <3>2 DEF Expired
  <2> QED BY <2>1 DEF SendFail, Working
<1>4. Tick => pc = "idle"
  BY DEF Tick, Working
<1>5. StartScan => ScanOf(Listed)
  BY DEF StartScan, Working
<1> QED
  BY <1>1, <1>2, <1>3, <1>4, <1>5 DEF Next, ScanStep, ScanHost

\* Going on to the next host changes what is left to do and nothing else.
LEMMA NextHostTurns ==
  ASSUME TypeOK, NEW h \in Hosts, Turn(h), NextHost(h)
  PROVE  /\ todo' = todo \ {h}
         /\ pc' = "idle" <=> todo' = {}
         /\ pc' \in {"idle", "host"}
  BY DEF NextHost, Turn

\* The scan of a host that ends with it: what it leaves to show is that the
\* host's marker, if the step changes it, is linked as it should be.
LEMMA DedupLeave ==
  ASSUME TypeOK, DedupInv, NEW h \in Hosts, Turn(h), NextHost(h), pc # "idle",
         UNCHANGED <<up, failed, crashes, scanAge, queue, stale, sev, last, seenFresh>>,
         \A g \in Hosts : g # h => mark'[g] = mark[g],
         \A b \in Backends :
            /\ mark'[h] # None => last[b][h] # None /\ last[b][h] <= mark'[h]
            /\ crashes = 0 /\ last[b][h] # None /\ ~seenFresh[b][h] => mark'[h] = last[b][h]
  PROVE  DedupInv'
<1>0. /\ todo' = todo \ {h}
      /\ pc' = "idle" <=> todo' = {}
      /\ pc' \in {"idle", "host"}
  BY NextHostTurns
<1>1. SteadyInv'
  BY <1>0 DEF DedupInv, SteadyInv
<1>2. ScanInv'
  BY <1>0 DEF DedupInv, ScanInv, Firing
<1>3. \A b \in Backends, g \in Hosts : Linked(b, g)'
  <2> TAKE b \in Backends, g \in Hosts
  <2>1. ~Reached(b, g)'
    BY <1>0 DEF Reached, Firing
  <2>2. CASE g = h
    BY <2>1, <2>2 DEF Linked, HasMarker
  <2>3. CASE g # h
    <3>1. ~Reached(b, g)
      BY <2>3, OneTurn DEF Reached, Firing
    <3>2. mark'[g] = mark[g] /\ last' = last /\ seenFresh' = seenFresh /\ crashes' = crashes
      BY <2>3
    <3> QED BY <2>1, <3>1, <3>2 DEF DedupInv, Linked, HasMarker
  <2> QED BY <2>2, <2>3
<1> QED BY <1>1, <1>2, <1>3 DEF DedupInv

\* Every step keeps the markers dated by the Criticals they stand for.
LEMMA DedupStep ==
  ASSUME TypeOK, Working, DedupInv, Next
  PROVE  DedupInv'
<1>0. SteadyInv /\ ScanInv /\ \A b \in Backends, h \in Hosts : Linked(b, h)
  BY DEF DedupInv
<1>1. CASE ScanOf(Listed)
  <2>1. SteadyInv'
    BY <1>0, <1>1 DEF ScanOf, SteadyInv
  <2>2. ScanInv'
    <3>1. pc' \in {"idle", "host"} /\ todo' = Listed /\ stale' = {h \in Listed : Stale(h)}
      BY <1>1 DEF ScanOf
    <3>2. \A h \in todo' \ stale', b \in Backends : seenFresh'[b][h]
      BY <1>1, <3>1 DEF ScanOf, Listed
    <3> QED BY <3>1, <3>2 DEF ScanInv, Firing
  <2>3. \A b \in Backends, h \in Hosts : Linked(b, h)'
    <3> TAKE b \in Backends, h \in Hosts
    <3>1. ~Reached(b, h) /\ ~Reached(b, h)'
      BY <1>1 DEF ScanOf, Reached, Firing
    <3>2. seenFresh[b][h] => seenFresh'[b][h]
      BY <1>1 DEF ScanOf
    <3>3. last' = last /\ mark' = mark /\ crashes' = crashes
      BY <1>1 DEF ScanOf
    <3> QED BY <1>0, <3>1, <3>2, <3>3 DEF Linked, HasMarker
  <2> QED BY <2>1, <2>2, <2>3 DEF DedupInv
<1>2. ASSUME NEW h \in Hosts, PassOver(h) PROVE DedupInv'
  <2>1. /\ Turn(h) /\ NextHost(h) /\ pc = "host" /\ mark' = mark
        /\ UNCHANGED <<up, failed, crashes, scanAge, queue, stale, sev, last, seenFresh>>
    BY <1>2 DEF PassOver, history
  <2>2. \A b \in Backends :
            /\ mark[h] # None => last[b][h] # None /\ last[b][h] <= mark[h]
            /\ crashes = 0 /\ last[b][h] # None /\ ~seenFresh[b][h] => mark[h] = last[b][h]
    BY <1>0, <2>1 DEF Linked, Reached, Firing, HasMarker
  <2> QED BY <2>1, <2>2, DedupLeave
<1>3. ASSUME NEW h \in Hosts, FireStale(h) PROVE DedupInv'
  <2>1. /\ pc = "host" /\ Turn(h) /\ h \in stale /\ ~WithinWindow(h)
        /\ pc' = "send" /\ sev' = "critical" /\ queue' = Backends /\ failed' = FALSE
        /\ UNCHANGED <<mark, up, crashes, scanAge, todo, stale, last, seenFresh>>
    BY <1>3 DEF FireStale, Fire, HandlesSeverity, history, Working, NoMarkerRead, WithinWindow
  <2>2. SteadyInv'
    BY <1>0, <2>1 DEF SteadyInv
  <2>3. \A g \in Hosts : Firing(g)' => g = h
    BY <2>1, OneTurn DEF Firing, Turn
  <2>4. ScanInv'
    BY <1>0, <2>1, <2>3 DEF ScanInv, WithinWindow, HasMarker
  <2>5. \A b \in Backends, g \in Hosts : Linked(b, g)'
    BY <1>0, <2>1 DEF Linked, Reached, Firing, HasMarker
  <2> QED BY <2>2, <2>4, <2>5 DEF DedupInv
<1>4. ASSUME NEW h \in Hosts, FireRecovered(h) PROVE DedupInv'
  <2>1. /\ pc = "host" /\ Turn(h) /\ h \notin stale
        /\ pc' = "send" /\ sev' = "warning" /\ failed' = FALSE
        /\ UNCHANGED <<mark, up, crashes, scanAge, todo, stale, last, seenFresh>>
    BY <1>4 DEF FireRecovered, Fire, history
  <2>2. SteadyInv'
    BY <1>0, <2>1 DEF SteadyInv
  <2>3. \A g \in Hosts : Turn(g)' => g = h
    BY <2>1, OneTurn DEF Turn
  <2>4. ScanInv'
    BY <1>0, <2>1, <2>3 DEF ScanInv, Firing
  <2>5. \A b \in Backends, g \in Hosts : Linked(b, g)'
    BY <1>0, <2>1 DEF Linked, Reached, Firing, HasMarker
  <2> QED BY <2>2, <2>4, <2>5 DEF DedupInv
<1>5. ASSUME NEW h \in Hosts, FireDone(h) PROVE DedupInv'
  <2>1. /\ pc = "send" /\ Turn(h) /\ queue = {} /\ pc' = "mark" /\ todo' = todo
        /\ UNCHANGED <<mark, up, crashes, scanAge, stale, sev, queue, failed, last, seenFresh>>
    BY <1>0, <1>5 DEF FireDone, SteadyInv, history
  <2>2. SteadyInv'
    BY <1>0, <2>1 DEF SteadyInv
  <2>3. \A g \in Hosts : (Firing(g)' <=> Firing(g)) /\ (Turn(g)' <=> Turn(g))
    BY <2>1 DEF Firing, Turn
  <2>4. ScanInv'
    BY <1>0, <2>1, <2>3 DEF ScanInv, WithinWindow, HasMarker
  <2>5. \A b \in Backends, g \in Hosts : Linked(b, g)'
    BY <1>0, <2>1, <2>3 DEF Linked, Reached, HasMarker
  <2> QED BY <2>2, <2>4, <2>5 DEF DedupInv
<1>6. ASSUME NEW h \in Hosts, WriteMarker(h) PROVE DedupInv'
  <2>1. /\ Turn(h) /\ NextHost(h) /\ pc = "mark" /\ sev = "critical"
        /\ UNCHANGED <<up, failed, crashes, scanAge, queue, stale, sev, last, seenFresh>>
        /\ mark' = [mark EXCEPT ![h] = scanAge]
    BY <1>6 DEF WriteMarker, MarkHost, Working, history
  <2>2. scanAge = 0 /\ queue = {}
    BY <1>0, <2>1 DEF SteadyInv
  <2>3. \A g \in Hosts : g # h => mark'[g] = mark[g]
    BY <2>1 DEF TypeOK
  <2>4. mark'[h] = 0
    BY <2>1, <2>2 DEF TypeOK
  <2>5. \A b \in Backends : last[b][h] = 0
    BY <1>0, <2>1, <2>2 DEF Linked, Reached, Firing
  <2>6. \A b \in Backends :
            /\ mark'[h] # None => last[b][h] # None /\ last[b][h] <= mark'[h]
            /\ crashes = 0 /\ last[b][h] # None /\ ~seenFresh[b][h] => mark'[h] = last[b][h]
    BY <2>4, <2>5 DEF None
  <2> QED BY <2>1, <2>3, <2>6, DedupLeave
<1>7. ASSUME NEW h \in Hosts, RemoveMarker(h) PROVE DedupInv'
  <2>1. /\ Turn(h) /\ NextHost(h) /\ pc = "mark" /\ sev = "warning"
        /\ UNCHANGED <<up, failed, crashes, scanAge, queue, stale, sev, last, seenFresh>>
        /\ mark' = [mark EXCEPT ![h] = None]
    BY <1>7 DEF RemoveMarker, Working, history
  <2>2. h \in todo \ stale
    BY <1>0, <2>1 DEF ScanInv, Turn
  <2>3. mark'[h] = None /\ \A g \in Hosts : g # h => mark'[g] = mark[g]
    BY <2>1 DEF TypeOK
  <2>4. \A b \in Backends : seenFresh[b][h]
    BY <1>0, <2>2 DEF ScanInv
  <2> QED BY <2>1, <2>3, <2>4, DedupLeave
<1>8. ASSUME NEW h \in Hosts, NEW b \in Backends, SendOK(b, h) PROVE DedupInv'
  <2>1. /\ pc = "send" /\ Turn(h) /\ b \in queue /\ queue' = queue \ {b}
        /\ UNCHANGED <<mark, up, pc, crashes, scanAge, todo, stale, sev, failed>>
        /\ Delivered(b, h)
    BY <1>8 DEF SendOK
  <2>2. SteadyInv'
    BY <1>0, <2>1 DEF SteadyInv
  <2>3. \A g \in Hosts : (Firing(g)' <=> Firing(g)) /\ (Turn(g)' <=> Turn(g))
    BY <2>1 DEF Firing, Turn
  <2>4. /\ sev = "critical" => last'[b][h] = scanAge
        /\ sev # "critical" => last' = last /\ seenFresh'[b][h] = seenFresh[b][h]
        /\ \A c \in Backends, g \in Hosts : c # b \/ g # h =>
                last'[c][g] = last[c][g] /\ seenFresh'[c][g] = seenFresh[c][g]
    <3>1. /\ sev = "critical" => last'[b][h] = scanAge
          /\ sev # "critical" => last' = last
          /\ \A c \in Backends, g \in Hosts : c # b \/ g # h => last'[c][g] = last[c][g]
      BY <2>1 DEF Delivered, TypeOK
    <3>2. \A c \in Backends, g \in Hosts : c # b \/ g # h => seenFresh'[c][g] = seenFresh[c][g]
      BY <2>1 DEF Delivered, TypeOK
    <3>3. sev # "critical" => seenFresh'[b][h] = seenFresh[b][h]
      BY <2>1 DEF Delivered, TypeOK
    <3> QED BY <3>1, <3>2, <3>3
  <2>5. ScanInv'
    <3>1. \A g \in todo \ stale, c \in Backends : seenFresh'[c][g]
      <4> TAKE g \in todo \ stale, c \in Backends
      <4>1. g \in Hosts /\ seenFresh[c][g]
        BY <1>0 DEF ScanInv, TypeOK
      <4>2. CASE g = h /\ c = b
        <5>1. sev # "critical"
          BY <1>0, <2>1, <4>2 DEF ScanInv, Firing
        <5> QED BY <4>1, <4>2, <5>1, <2>4
      <4> QED BY <4>1, <4>2, <2>4
    <3> QED BY <1>0, <2>1, <2>3, <3>1 DEF ScanInv, WithinWindow, HasMarker
  <2>6. \A c \in Backends, g \in Hosts : Linked(c, g)'
    <3> TAKE c \in Backends, g \in Hosts
    <3>1. CASE g = h /\ c = b
      <4>1. CASE sev = "critical"
        <5>1. last'[c][g] = 0 /\ 0 # None
          BY <1>0, <2>1, <2>4, <3>1, <4>1 DEF SteadyInv, None
        <5>2. Reached(c, g)'
          BY <2>1, <2>3, <3>1, <4>1 DEF Reached, Firing
        <5>3. HasMarker(g)' => 0 <= mark'[g]
          BY <2>1 DEF HasMarker, TypeOK
        <5> QED BY <5>1, <5>2, <5>3 DEF Linked
      <4>2. CASE sev # "critical"
        <5>1. ~Reached(c, g) /\ ~Reached(c, g)'
          BY <2>3, <4>2 DEF Reached, Firing
        <5> QED BY <1>0, <2>1, <2>4, <3>1, <4>2, <5>1 DEF Linked, HasMarker
      <4> QED BY <4>1, <4>2
    <3>2. CASE ~(g = h /\ c = b)
      <4>1. Reached(c, g)' <=> Reached(c, g)
        BY <2>1, <2>3, <3>2, OneTurn DEF Reached, Firing
      <4>2. last'[c][g] = last[c][g] /\ seenFresh'[c][g] = seenFresh[c][g]
        BY <2>4, <3>2
      <4> QED BY <1>0, <2>1, <4>1, <4>2 DEF Linked, HasMarker
    <3> QED BY <3>1, <3>2
  <2> QED BY <2>2, <2>5, <2>6 DEF DedupInv
<1>9. CASE Crash
  <2>1. /\ pc' = "idle" /\ todo' = {} /\ crashes' # 0
        /\ UNCHANGED <<mark, scanAge, stale, sev, queue, failed, last>>
    BY <1>9 DEF Crash, history, TypeOK
  <2>2. SteadyInv'
    BY <1>0, <2>1 DEF SteadyInv
  <2>3. ScanInv'
    BY <2>1 DEF ScanInv, Firing
  <2>4. \A b \in Backends, h \in Hosts : Linked(b, h)'
    BY <1>0, <2>1 DEF Linked, Reached, Firing, HasMarker
  <2> QED BY <2>2, <2>3, <2>4 DEF DedupInv
<1>10. CASE Restart /\ pc = "idle"
  <2>1. /\ pc = "idle" /\ up'
        /\ UNCHANGED <<mark, pc, todo, stale, sev, queue, failed, crashes, last, seenFresh>>
    BY <1>10 DEF Restart, scanVars, history
  <2>2. SteadyInv'
    BY <1>0, <2>1 DEF SteadyInv
  <2>3. ScanInv'
    BY <1>0, <2>1 DEF ScanInv, Firing
  <2>4. \A b \in Backends, h \in Hosts : Linked(b, h)'
    BY <1>0, <2>1 DEF Linked, Reached, Firing, HasMarker
  <2> QED BY <2>2, <2>3, <2>4 DEF DedupInv
<1>11. CASE Tick /\ pc = "idle"
  <2>1. /\ pc = "idle" /\ pc' = "idle" /\ todo = {}
        /\ UNCHANGED <<up, todo, stale, sev, queue, failed, crashes, seenFresh>>
    BY <1>0, <1>11 DEF Tick, scanVars, SteadyInv
  <2>2. SteadyInv'
    BY <1>0, <2>1 DEF SteadyInv
  <2>3. ScanInv'
    BY <2>1 DEF ScanInv, Firing
  <2>4. \A b \in Backends, h \in Hosts : Linked(b, h)'
    <3> TAKE b \in Backends, h \in Hosts
    <3>1. ~Reached(b, h) /\ ~Reached(b, h)'
      BY <2>1 DEF Reached, Firing
    <3>2. last'[b][h] = Older(last[b][h], MarkCap) /\ mark'[h] = Older(mark[h], MarkCap)
      BY <1>11 DEF Tick
    <3>3. /\ last[b][h] = None <=> last'[b][h] = None
          /\ mark[h] = None <=> mark'[h] = None
          /\ last[b][h] # None /\ mark[h] # None /\ last[b][h] <= mark[h] => last'[b][h] <= mark'[h]
          /\ last[b][h] = mark[h] => last'[b][h] = mark'[h]
      <4>1. last[b][h] \in {None} \cup 0..MarkCap /\ mark[h] \in {None} \cup 0..MarkCap
        BY DEF TypeOK
      <4> QED BY <3>2, <4>1, Constants DEF Older, None
    <3> QED BY <1>0, <2>1, <3>1, <3>3 DEF Linked, HasMarker
  <2> QED BY <2>2, <2>3, <2>4 DEF DedupInv
<1>12. ASSUME NEW h \in Hosts, Beat(h) PROVE DedupInv'
  <2>1. UNCHANGED <<mark, up, pc, crashes, scanAge, todo, stale, sev, queue, failed, last, seenFresh>>
    BY <1>12 DEF Beat, scanVars
  <2> QED BY <1>0, <2>1 DEF DedupInv, SteadyInv, ScanInv, Linked, Reached, Firing, Turn,
                            WithinWindow, HasMarker
<1> QED
  BY <1>0, <1>1, <1>2, <1>3, <1>4, <1>5, <1>6, <1>7, <1>8, <1>9, <1>10, <1>11, <1>12,
     WorkingSteps

\* While backends and disk work, the markers say when each backend last heard
\* a Critical.
LEMMA WorkingDedup == Spec => [](Working => DedupInv)
<1>1. Init => (Working => DedupInv)
  BY DEF Init, DedupInv, SteadyInv, ScanInv, Linked, Reached, Firing, HasMarker, None
<1>2. TypeOK /\ (Working => DedupInv) /\ [Next]_vars => (Working => DedupInv)'
  <2> SUFFICES ASSUME TypeOK, Working => DedupInv, [Next]_vars, Working'
               PROVE  DedupInv'
    OBVIOUS
  <2>1. Working
    BY DEF Working, Next, vars
  <2>2. CASE UNCHANGED vars
    BY <2>1, <2>2 DEF vars, DedupInv, SteadyInv, ScanInv, Linked, Reached, Firing, Turn,
                      WithinWindow, HasMarker
  <2> QED BY <2>1, <2>2, DedupStep
<1> QED BY <1>1, <1>2, TypeCorrect, PTL DEF Spec

\* With working backends and markers, and until the process dies, a Critical
\* about a host is repeated to a backend only when dedup-window has passed since
\* the last one, or when a scan found the host fresh in between and its recovery
\* cleared the marker.
THEOREM RepeatsSpaced == Spec => RepeatsAreSpaced
<1>1. TypeOK /\ (Working => DedupInv) /\ [Next]_vars =>
        [\A b \in Backends, h \in Hosts :
            Working /\ crashes = 0 /\ Pages(b, h) => Spaced(b, h) \/ seenFresh[b][h]]_vars
  <2> SUFFICES ASSUME TypeOK, DedupInv, NEW b \in Backends, NEW h \in Hosts, Pages(b, h),
                      crashes = 0, ~seenFresh[b][h], last[b][h] # None
               PROVE  last[b][h] - scanAge >= DedupWindow
    BY DEF Spaced
  <2>1. Firing(h) /\ b \in queue
    BY DEF Pages, Firing
  <2>2. mark[h] = last[b][h]
    BY <2>1 DEF DedupInv, Linked, Reached
  <2>3. ~WithinWindow(h)
    BY <2>1 DEF DedupInv, ScanInv
  <2>4. mark[h] \in Int /\ scanAge \in Int /\ DedupWindow \in Int
    BY Constants DEF TypeOK, None
  <2> QED BY <2>2, <2>3, <2>4 DEF WithinWindow, HasMarker
<1> QED BY <1>1, TypeCorrect, WorkingDedup, PTL DEF RepeatsAreSpaced, Spec

-----------------------------------------------------------------------------
(***************************************************************************)
(* Every outage is reported in time.  As long as the process lives, a      *)
(* marker left by an earlier outage suppresses nothing, because a scan     *)
(* sees the host fresh in between: that is where the scans must come at    *)
(* least every stale-max.  After a restart a marker may hide the outage,   *)
(* but then every backend has heard of the host within dedup-window.       *)
(***************************************************************************)

\* The scan of a host that ends with it.
LEMMA ReportLeave ==
  ASSUME TypeOK, ReportInv, NEW h \in Hosts, Turn(h), NextHost(h),
         UNCHANGED <<age, up, crashes, scanAge, stale, sev, queue, paged, last>>,
         \A g \in Hosts : g # h => mark'[g] = mark[g],
         \/ \A b \in Backends : Answered(b, h)
         \/ h \notin stale /\ mark'[h] = None
  PROVE  ReportInv'
<1>0. /\ todo' = todo \ {h}
      /\ pc' \in {"idle", "host"}
  BY NextHostTurns
<1>a. \A b, g : Answered(b, g) => Answered(b, g)'
  BY DEF Answered, Suppressed
<1>1. ASSUME crashes' = 0, NEW g \in Hosts, HasMarker(g)', g \notin todo' \ stale'
      PROVE  \A b \in Backends : Answered(b, g)'
  <2>1. CASE g = h
    BY <1>1, <2>1, <1>a DEF HasMarker
  <2>2. CASE g # h
    <3>1. crashes = 0 /\ HasMarker(g) /\ g \notin todo \ stale
      BY <1>1, <2>2, <1>0 DEF HasMarker
    <3> QED BY <3>1, <1>a DEF ReportInv
  <2> QED BY <2>1, <2>2
<1>2. \A g \in Hosts : ~Firing(g)'
  BY <1>0 DEF Firing
<1>3. ASSUME up', scanAge' < Interval, NEW g \in stale' \ todo', NEW b \in Backends
      PROVE  Answered(b, g)'
  <2>1. CASE g = h
    BY <1>3, <2>1, <1>a
  <2>2. CASE g # h
    <3>1. g \in stale \ todo
      BY <1>3, <2>2, <1>0
    <3> QED BY <1>3, <3>1, <1>a DEF ReportInv
  <2> QED BY <2>1, <2>2
<1>4. up' /\ scanAge' < Interval => \A g \in Hosts : g \in stale' \/ age'[g] <= StaleMax + scanAge'
  BY DEF ReportInv
<1> QED BY <1>1, <1>2, <1>3, <1>4 DEF ReportInv

\* Every step keeps outages answered.
LEMMA ReportStep ==
  ASSUME Interval <= StaleMax, TypeOK, Working, DedupInv, ReportInv, Next
  PROVE  ReportInv'
<1>0. SteadyInv /\ ScanInv /\ \A b \in Backends, h \in Hosts : Linked(b, h)
  BY DEF DedupInv
<1>c. /\ StaleMax \in Nat /\ Interval \in Nat /\ scanAge \in 0..Interval /\ AgeCap \in Nat
      /\ Interval < AgeCap /\ DedupWindow \in Nat /\ MarkCap \in Nat
      /\ \A h \in Hosts : age[h] \in Int /\ mark[h] \in Int
      /\ \A b \in Backends, h \in Hosts : last[b][h] \in {None} \cup 0..MarkCap
  BY Constants DEF TypeOK, None, AgeCap
<1>1. CASE ScanOf(Listed)
  <2>1. /\ pc = "idle" /\ scanAge = Interval /\ scanAge' = 0 /\ pc' \in {"idle", "host"}
        /\ todo' = Listed /\ stale' = {h \in Listed : Stale(h)}
        /\ UNCHANGED <<age, mark, crashes, paged>>
    BY <1>1 DEF ScanOf
  <2>2. todo = {}
    BY <1>0, <2>1 DEF SteadyInv
  <2>3. ASSUME crashes' = 0, NEW g \in Hosts, HasMarker(g)'
        PROVE  g \in todo' \ stale' \/ \A b \in Backends : Answered(b, g)'
    <3> SUFFICES ASSUME NEW b \in Backends, ~Answered(b, g)'
                 PROVE  g \in todo' \ stale'
      OBVIOUS
    <3>1. Answered(b, g)
      BY <2>1, <2>2, <2>3 DEF ReportInv, HasMarker
    <3>2. age[g] # None /\ age[g] <= Interval
      BY <2>1, <2>3, <3>1 DEF Answered, Suppressed
    <3>3. g \in Listed /\ ~Stale(g)
      BY <1>c, <3>2 DEF Listed, Stale
    <3> QED BY <2>1, <3>3
  <2>4. \A g \in Hosts : ~Firing(g)'
    BY <2>1 DEF Firing
  <2>5. stale' \ todo' = {}
    BY <2>1
  <2>6. \A g \in Hosts : g \in stale' \/ age'[g] <= StaleMax + scanAge'
    <3> TAKE g \in Hosts
    <3>1. CASE age[g] = None
      BY <1>c, <2>1, <3>1 DEF None
    <3>2. CASE age[g] # None
      BY <1>c, <2>1, <3>2 DEF Listed, Stale
    <3> QED BY <3>1, <3>2
  <2> QED BY <2>3, <2>4, <2>5, <2>6 DEF ReportInv
<1>2. ASSUME NEW h \in Hosts, PassOver(h) PROVE ReportInv'
  <2>1. /\ Turn(h) /\ NextHost(h) /\ mark' = mark
        /\ UNCHANGED <<age, up, crashes, scanAge, stale, sev, queue, paged, last>>
        /\ IF h \in stale THEN WithinWindow(h) ELSE ~HasMarker(h)
    BY <1>2 DEF PassOver, history, Working, NoMarkerRead
  <2>2. CASE h \in stale
    <3>1. HasMarker(h) /\ mark[h] - scanAge < DedupWindow
      BY <2>1, <2>2 DEF WithinWindow
    <3>2. CASE crashes = 0
      <4>1. \A b \in Backends : Answered(b, h)
        BY <3>1, <3>2, <2>2 DEF ReportInv
      <4> QED BY <2>1, <4>1, ReportLeave
    <3>3. CASE crashes # 0
      <4>1. crashes > 0
        BY <3>3 DEF TypeOK
      <4>2. \A b \in Backends : last[b][h] # None /\ last[b][h] <= mark[h]
        BY <1>0, <3>1 DEF Linked
      <4>3. \A b \in Backends : Answered(b, h)
        BY <1>c, <3>1, <4>1, <4>2 DEF Answered, Suppressed, None
      <4> QED BY <2>1, <4>3, ReportLeave
    <3> QED BY <3>2, <3>3
  <2>3. CASE h \notin stale
    <3>1. mark'[h] = None
      BY <2>1, <2>3 DEF HasMarker
    <3> QED BY <2>1, <2>3, <3>1, ReportLeave
  <2> QED BY <2>2, <2>3
<1>3. ASSUME NEW h \in Hosts, FireStale(h) \/ FireRecovered(h) PROVE ReportInv'
  <2>1. /\ UNCHANGED <<age, mark, up, crashes, scanAge, todo, stale, paged, last>>
        /\ sev' = "critical" => queue' = Backends
    BY <1>3 DEF FireStale, FireRecovered, Fire, HandlesSeverity, history
  <2>2. \A g : Firing(g)' => queue' = Backends
    BY <2>1 DEF Firing
  <2> QED BY <2>1, <2>2 DEF ReportInv, Answered, Suppressed, HasMarker
<1>4. ASSUME NEW h \in Hosts, FireDone(h) PROVE ReportInv'
  <2>1. /\ pc = "send" /\ pc' = "mark" /\ todo' = todo
        /\ UNCHANGED <<age, mark, up, crashes, scanAge, stale, sev, queue, paged, last>>
    BY <1>0, <1>4 DEF FireDone, SteadyInv, history
  <2>2. \A g \in Hosts : Firing(g)' <=> Firing(g)
    BY <2>1 DEF Firing, Turn
  <2> QED BY <2>1, <2>2 DEF ReportInv, Answered, Suppressed, HasMarker
<1>5. ASSUME NEW h \in Hosts, WriteMarker(h) PROVE ReportInv'
  <2>1. /\ Turn(h) /\ NextHost(h) /\ pc = "mark" /\ sev = "critical"
        /\ UNCHANGED <<age, up, crashes, scanAge, stale, sev, queue, paged, last>>
        /\ mark' = [mark EXCEPT ![h] = scanAge]
    BY <1>5 DEF WriteMarker, MarkHost, Working, history
  <2>2. queue = {}
    BY <1>0, <2>1 DEF SteadyInv
  <2>3. \A g \in Hosts : g # h => mark'[g] = mark[g]
    BY <2>1 DEF TypeOK
  <2>4. \A b \in Backends : Answered(b, h)
    BY <2>1, <2>2 DEF ReportInv, Firing
  <2> QED BY <2>1, <2>3, <2>4, ReportLeave
<1>6. ASSUME NEW h \in Hosts, RemoveMarker(h) PROVE ReportInv'
  <2>1. /\ Turn(h) /\ NextHost(h) /\ pc = "mark" /\ sev = "warning"
        /\ UNCHANGED <<age, up, crashes, scanAge, stale, sev, queue, paged, last>>
        /\ mark' = [mark EXCEPT ![h] = None]
    BY <1>6 DEF RemoveMarker, Working, history
  <2>2. h \notin stale
    BY <1>0, <2>1 DEF ScanInv
  <2>3. (\A g \in Hosts : g # h => mark'[g] = mark[g]) /\ mark'[h] = None
    BY <2>1 DEF TypeOK
  <2> QED BY <2>1, <2>2, <2>3, ReportLeave
<1>7. ASSUME NEW h \in Hosts, NEW b \in Backends, SendOK(b, h) PROVE ReportInv'
  <2>1. /\ pc = "send" /\ Turn(h) /\ b \in queue /\ queue' = queue \ {b}
        /\ UNCHANGED <<age, mark, up, crashes, pc, scanAge, todo, stale, sev>>
        /\ Delivered(b, h)
    BY <1>7 DEF SendOK
  <2>2. \A c \in Backends, g \in Hosts : paged[c][g] => paged'[c][g]
    BY <2>1 DEF Delivered, TypeOK
  <2>3. sev = "critical" => paged'[b][h]
    BY <2>1 DEF Delivered, TypeOK
  <2>4. \A c \in Backends, g \in Hosts : Answered(c, g) => Answered(c, g)'
    <3> TAKE c \in Backends, g \in Hosts
    <3>1. CASE last'[c][g] = last[c][g]
      BY <2>1, <2>2, <3>1 DEF Answered, Suppressed
    <3>2. CASE last'[c][g] # last[c][g]
      <4>1. sev = "critical" /\ c = b /\ g = h
        BY <2>1, <3>2 DEF Delivered, TypeOK
      <4> QED BY <4>1, <2>3 DEF Answered
    <3> QED BY <3>1, <3>2
  <2>5. crashes' = 0 => \A g \in Hosts : HasMarker(g)' =>
            g \in todo' \ stale' \/ \A c \in Backends : Answered(c, g)'
    BY <2>1, <2>4 DEF ReportInv, HasMarker
  <2>6. \A g \in Hosts : Firing(g)' => \A c \in Backends \ queue' : Answered(c, g)'
    <3> SUFFICES ASSUME NEW g \in Hosts, Firing(g)', NEW c \in Backends \ queue'
                 PROVE  Answered(c, g)'
      OBVIOUS
    <3>1. Firing(g)
      BY <2>1 DEF Firing, Turn
    <3>2. g = h /\ sev = "critical"
      BY <2>1, <3>1, OneTurn DEF Firing
    <3>3. CASE c = b
      BY <2>3, <3>2, <3>3 DEF Answered
    <3>4. CASE c # b
      BY <2>1, <2>4, <3>1, <3>4 DEF ReportInv
    <3> QED BY <3>3, <3>4
  <2>7. up' /\ scanAge' < Interval => \A g \in stale' \ todo', c \in Backends : Answered(c, g)'
    BY <2>1, <2>4 DEF ReportInv, TypeOK
  <2> QED BY <2>1, <2>5, <2>6, <2>7 DEF ReportInv
<1>8. CASE Crash
  <2>1. pc' = "idle" /\ ~up' /\ crashes' # 0
    BY <1>8 DEF Crash, TypeOK
  <2> QED BY <2>1 DEF ReportInv, Firing
<1>9. CASE Restart /\ pc = "idle"
  <2>1. pc' = "idle" /\ scanAge' = Interval /\ ~up /\ crashes' = crashes
    BY <1>9 DEF Restart
  <2>2. crashes' # 0
    BY <1>0, <2>1 DEF SteadyInv
  <2> QED BY <1>c, <2>1, <2>2 DEF ReportInv, Firing
<1>10. CASE Tick /\ pc = "idle"
  <2>1. /\ up => scanAge < Interval /\ scanAge' = scanAge + 1
        /\ UNCHANGED <<up, crashes, pc, todo, stale, sev, queue, paged>>
    BY <1>10, <1>c DEF Tick, scanVars, Older, None
  <2>2. \A h \in Hosts : age'[h] = Older(age[h], AgeCap)
    BY <1>10 DEF Tick
  <2>3. \A h \in Hosts : /\ age'[h] = None <=> age[h] = None
                         /\ age'[h] \in Int /\ age'[h] <= age[h] + 1
    BY <2>2, <1>c DEF Older, None, TypeOK
  <2>4. \A b \in Backends, h \in Hosts : last'[b][h] = Older(last[b][h], MarkCap)
    BY <1>10 DEF Tick
  <2>5. \A b \in Backends, h \in Hosts : last[b][h] # None =>
            last'[b][h] # None /\ last'[b][h] \in Int /\ last'[b][h] <= last[b][h] + 1
    BY <2>4, <1>c DEF Older, None
  <2>6. ASSUME up, NEW b \in Backends, NEW h \in Hosts, Answered(b, h)
        PROVE  Answered(b, h)'
    <3>1. CASE paged[b][h]
      BY <2>1, <3>1 DEF Answered
    <3>2. CASE Suppressed(b, h)
      <4>1. Suppressed(b, h)'
        BY <1>c, <2>1, <2>5, <2>6, <3>2 DEF Suppressed, None
      <4> QED BY <4>1 DEF Answered
    <3>3. CASE age[h] # None /\ age[h] <= scanAge
      BY <1>c, <2>1, <2>3, <2>6, <3>3 DEF Answered
    <3> QED BY <2>6, <3>1, <3>2, <3>3 DEF Answered
  <2>7. \A h \in Hosts : HasMarker(h)' <=> HasMarker(h)
    BY <1>10, Constants DEF Tick, Older, HasMarker, TypeOK, None
  <2>8. \A h : ~Firing(h)'
    BY <1>10, <2>1 DEF Firing
  <2>9. crashes' = 0 => \A h \in Hosts : HasMarker(h)' =>
            h \in todo' \ stale' \/ \A b \in Backends : Answered(b, h)'
    BY <1>0, <2>1, <2>6, <2>7 DEF ReportInv, SteadyInv
  <2>10. ASSUME up', scanAge' < Interval
         PROVE  /\ \A h \in stale' \ todo', b \in Backends : Answered(b, h)'
                /\ \A h \in Hosts : h \in stale' \/ age'[h] <= StaleMax + scanAge'
    <3>1. up /\ scanAge < Interval /\ scanAge' = scanAge + 1
      BY <2>1, <2>10
    <3>2. \A h \in Hosts : h \in stale' \/ age'[h] <= StaleMax + scanAge'
      BY <1>c, <2>1, <2>3, <3>1 DEF ReportInv
    <3> QED BY <2>1, <2>6, <3>1, <3>2 DEF ReportInv, TypeOK
  <2> QED BY <2>8, <2>9, <2>10 DEF ReportInv
<1>11. ASSUME NEW h \in Hosts, Beat(h) PROVE ReportInv'
  <2>1. /\ UNCHANGED <<mark, up, crashes, pc, scanAge, todo, stale, sev, queue, last>>
        /\ age'[h] = 0 /\ \A g \in Hosts : g # h => age'[g] = age[g]
    BY <1>11 DEF Beat, scanVars, TypeOK
  <2>2. \A c \in Backends, g \in Hosts : g # h => paged'[c][g] = paged[c][g]
    BY <1>11 DEF Beat, TypeOK
  <2>3. \A c \in Backends : Answered(c, h)'
    BY <1>c, <2>1 DEF Answered, None
  <2>4. \A c \in Backends, g \in Hosts : Answered(c, g) => Answered(c, g)'
    BY <2>1, <2>2, <2>3 DEF Answered, Suppressed
  <2>5. \A g \in Hosts : (Firing(g)' <=> Firing(g)) /\ (HasMarker(g)' <=> HasMarker(g))
    BY <2>1 DEF Firing, Turn, HasMarker
  <2>6. up' /\ scanAge' < Interval => \A g \in Hosts : g \in stale' \/ age'[g] <= StaleMax + scanAge'
    BY <1>c, <2>1 DEF ReportInv
  <2>7. up' /\ scanAge' < Interval => \A g \in stale' \ todo', c \in Backends : Answered(c, g)'
    BY <2>1, <2>4 DEF ReportInv, TypeOK
  <2> QED BY <2>1, <2>4, <2>5, <2>6, <2>7 DEF ReportInv
<1> QED
  BY <1>0, <1>1, <1>2, <1>3, <1>4, <1>5, <1>6, <1>7, <1>8, <1>9, <1>10, <1>11, WorkingSteps

\* With working backends, and scans that come at least every stale-max (the
\* defaults: every 2 minutes for 5), a host whose heartbeat is one interval past
\* stale-max has been reported to every backend by the scan before, a second
\* outage within the dedup window included; only after a crash of the watchdog
\* may a backend have to do with a Critical less than dedup-window old.
THEOREM OutagesReported ==
  ASSUME Interval <= StaleMax
  PROVE  Spec => []ReportedInTime
<1>1. Init => (Working => ReportInv)
  BY Constants DEF Init, ReportInv, Firing, HasMarker, None
<1>2. TypeOK /\ (Working => DedupInv) /\ (Working => ReportInv) /\ [Next]_vars
        => (Working => ReportInv)'
  <2> SUFFICES ASSUME TypeOK, Working => DedupInv, Working => ReportInv, [Next]_vars, Working'
               PROVE  ReportInv'
    OBVIOUS
  <2>1. Working
    BY DEF Working, Next, vars
  <2>2. CASE UNCHANGED vars
    BY <2>1, <2>2 DEF vars, ReportInv, Answered, Suppressed, Firing, Turn, HasMarker
  <2> QED BY <2>1, <2>2, ReportStep
<1>3. TypeOK /\ (Working => DedupInv) /\ (Working => ReportInv) => ReportedInTime
  <2> SUFFICES ASSUME TypeOK, DedupInv, ReportInv, NEW h \in Hosts, up, pc = "idle",
                      scanAge < Interval, age[h] > StaleMax + Interval, NEW b \in Backends
               PROVE  paged[b][h] \/ Suppressed(b, h)
    BY DEF ReportedInTime
  <2>1. /\ StaleMax \in Nat /\ Interval \in Nat /\ scanAge \in Nat /\ age[h] \in Int
    BY Constants DEF TypeOK, None
  <2>2. h \in stale \ todo
    BY <2>1 DEF ReportInv, DedupInv, SteadyInv
  <2>3. Answered(b, h)
    BY <2>2 DEF ReportInv
  <2> QED BY <2>1, <2>3 DEF Answered
<1> QED BY <1>1, <1>2, <1>3, TypeCorrect, WorkingDedup, PTL DEF Spec
-----------------------------------------------------------------------------
(***************************************************************************)
(* Bridge and watchdog together: each of the two does in the fleet what it *)
(* does alone, so what is proved of one holds of the files they share.     *)
(***************************************************************************)

\* The theorems about the bridge, for the bridge of the fleet.
HB == INSTANCE Heartbeats_proof WITH
    pc <- bpc, todo <- btodo, Interval <- BridgeInterval, StaleMax <- BridgeStaleMax,
    Threshold <- StaleMax + Interval, Faults <- FALSE

\* The settings of the fleet are settings of the bridge.
LEMMA BridgeSettings ==
    /\ NumHosts \in Nat /\ BridgeStaleMax \in Nat /\ BeatPeriod \in Nat
    /\ StaleMax + Interval \in Nat /\ SSHTimeout \in Nat
    /\ BridgeInterval \in Nat \ {0, 1}
    /\ Hangs \in BOOLEAN /\ FALSE \in BOOLEAN
  BY WatchdogAssumption, FleetAssumption

\* A step of the bridge alone leaves the heartbeat files as they are.
LEMMA BridgeStepKeepsFiles ==
  ASSUME BridgeStep
  PROVE  UNCHANGED <<age, watchVars>>
  BY DEF BridgeStep, Bridge!StartSweep, Bridge!Probe, Bridge!ProbeFails, Bridge!Judge,
         Bridge!Worker, Bridge!Start, Bridge!WorkerBeats, Bridge!Stop, Bridge!NetChanges

\* The fleet implements the watchdog: every step of it is one of the watchdog's,
\* a heartbeat or the clock, or none of its business.
THEOREM FleetIsWatchdog == FleetSpec => Spec
<1>1. FleetInit => Init
  BY DEF FleetInit
<1>2. [FleetNext]_fleetVars => [Next]_vars
  <2> SUFFICES ASSUME [FleetNext]_fleetVars PROVE [Next]_vars
    OBVIOUS
  <2>1. ASSUME NEW h \in Hosts, Touch(h), UNCHANGED env PROVE Next
    BY <2>1 DEF Touch, Next
  <2>2. CASE BridgeStep /\ UNCHANGED env
    BY <2>2, BridgeStepKeepsFiles DEF watchVars, scanVars, history, vars
  <2>3. CASE WatchStep /\ UNCHANGED env
    BY <2>3 DEF WatchStep, Next
  <2>4. CASE FleetTick /\ UNCHANGED env
    BY <2>4 DEF FleetTick, Next
  <2>5. CASE UNCHANGED fleetVars
    BY <2>5 DEF fleetVars, watchVars, scanVars, history, vars
  <2> QED BY <2>1, <2>2, <2>3, <2>4, <2>5 DEF FleetNext
<1> QED BY <1>1, <1>2, PTL DEF FleetSpec, Spec

\* What a scan, a crash or a restart leaves alone.
LEMMA WatchStepKeepsFiles ==
  ASSUME WatchStep
  PROVE  UNCHANGED <<age, bridgeVars>>
  BY DEF WatchStep, ScanStep, StartScan, ScanOf, DirUnreadable, ScanHost, PassOver, FireStale,
         FireRecovered, Fire, FireDone, WriteMarker, RemoveMarker, SendOK, SendFail, Crash, Restart

\* The fleet implements the bridge: every step of it is one of the bridge's or
\* of its workers, the clock, or none of its business.
THEOREM FleetIsBridge == FleetSpec => Bridge!Spec
<1>1. FleetInit => Bridge!Init
  BY DEF FleetInit
<1>2. [FleetNext]_fleetVars => [Bridge!Next]_(Bridge!vars)
  <2> SUFFICES ASSUME [FleetNext]_fleetVars PROVE [Bridge!Next]_(Bridge!vars)
    OBVIOUS
  <2>0. Bridge!Hosts = Hosts
    BY DEF Bridge!Hosts, Hosts
  <2>1. ASSUME NEW h \in Hosts, Touch(h) PROVE Bridge!Next
    BY <2>0, <2>1 DEF Touch, Bridge!Next, Bridge!BridgeOne
  <2>2. CASE BridgeStep
    BY <2>0, <2>2 DEF BridgeStep, Bridge!Next, Bridge!BridgeOne
  <2>3. CASE WatchStep
    BY <2>3, WatchStepKeepsFiles DEF bridgeVars, Bridge!vars
  <2>4. CASE FleetTick
    BY <2>4 DEF FleetTick, Bridge!Next
  <2>5. CASE UNCHANGED fleetVars
    BY <2>5 DEF fleetVars, bridgeVars, Bridge!vars
  <2> QED BY <2>1, <2>2, <2>3, <2>4, <2>5 DEF FleetNext
<1> QED BY <1>1, <1>2, PTL DEF FleetSpec, Bridge!Spec

\* The bridge of the model is the one its theorems are about.
LEMMA SameBridge == Bridge!Spec => HB!Spec
<1>1. Bridge!Init => HB!Init
  BY DEF Bridge!Init, HB!Init, Bridge!Hosts, HB!Hosts, Bridge!None, HB!None
<1>2. Bridge!Next => HB!Next
  BY DEF Bridge!Next, HB!Next, Bridge!Hosts, HB!Hosts,
         Bridge!StartSweep, HB!StartSweep, Bridge!LoadFails, HB!LoadFails, Bridge!Tick, HB!Tick,
         Bridge!BridgeOne, HB!BridgeOne, Bridge!Worker, HB!Worker,
         Bridge!Probe, HB!Probe, Bridge!ProbeFails, HB!ProbeFails, Bridge!Judge, HB!Judge,
         Bridge!Touch, HB!Touch, Bridge!TouchFails, HB!TouchFails,
         Bridge!Start, HB!Start, Bridge!WorkerBeats, HB!WorkerBeats, Bridge!Stop, HB!Stop,
         Bridge!NetChanges, HB!NetChanges, Bridge!NextNode, HB!NextNode, Bridge!Turn, HB!Turn,
         Bridge!NoAnswer, HB!NoAnswer, Bridge!Stuck, HB!Stuck,
         Bridge!ProbeOver, HB!ProbeOver, Bridge!SweepOver, HB!SweepOver,
         Bridge!Older, HB!Older, Bridge!None, HB!None, Bridge!workerVars, HB!workerVars,
         Bridge!BeatCap, HB!BeatCap, Bridge!AgeCap, HB!AgeCap, Bridge!GoodCap, HB!GoodCap
<1>3. [Bridge!Next]_(Bridge!vars) => [HB!Next]_(HB!vars)
  BY <1>2 DEF Bridge!vars, HB!vars
<1> QED BY <1>1, <1>3, PTL DEF Bridge!Spec, HB!Spec

\* A worker silent for both thresholds and an interval has a file past the
\* watchdog's threshold and an interval.
LEMMA SilentIsOld ==
  ASSUME TypeOK, HB!FreshMeansAlive, HB!TypeOK, NEW h \in Hosts, age[h] # None,
         beat[h] > BridgeStaleMax + StaleMax + Interval
  PROVE  age[h] > StaleMax + Interval
<1>c. /\ StaleMax \in Nat /\ Interval \in Nat /\ BridgeStaleMax \in Nat
      /\ age[h] \in Nat /\ beat[h] \in Int
  BY Constants, BridgeSettings DEF TypeOK, None, HB!TypeOK, HB!Hosts, Hosts, HB!None,
     HB!BeatCap, HB!AgeCap
<1>1. age[h] < StaleMax + Interval + 1 => beat[h] <= age[h] + BridgeStaleMax
  BY DEF HB!FreshMeansAlive, HB!Hosts, Hosts, HB!None, None, HB!AgeCap
<1> QED BY <1>c, <1>1

\* With working backends and scans at least every stale-max, a worker that falls
\* silent is reported: the bridge stops touching its file, and the watchdog
\* notices that.
THEOREM DeadReported ==
  ASSUME Interval <= StaleMax
  PROVE  FleetSpec => []DeadIsReported
<1>1. HB!Spec => []HB!FreshMeansAlive /\ []HB!TypeOK
  BY HB!FreshIsEvidence, HB!TypeCorrect, BridgeSettings, PTL
<1>2. Spec => []ReportedInTime
  BY OutagesReported
<1>3. TypeOK /\ HB!FreshMeansAlive /\ HB!TypeOK /\ ReportedInTime => DeadIsReported
  BY SilentIsOld DEF ReportedInTime, DeadIsReported
<1> QED
  BY <1>1, <1>2, <1>3, TypeCorrect, FleetIsWatchdog, FleetIsBridge, SameBridge, PTL

-----------------------------------------------------------------------------
\* A Critical is sent about a host the scan found stale, and such a host has not
\* been beating and reachable for long when no time passes during a scan.
AlarmInv ==
    /\ \A h \in Hosts : Firing(h) => h \in stale
    /\ ~env.slowSends /\ pc # "idle" => \A h \in stale \cap todo : good[h] <= 2 * BridgeInterval

\* A scan finds only hosts stale that have not been good for long: the bridge
\* has touched the files of the others within its interval.
LEMMA StaleIsNew ==
  ASSUME BridgeInterval <= StaleMax, TypeOK, HB!TypeOK, HB!LiveIsFresh, NEW h \in Hosts, Stale(h)
  PROVE  good[h] <= 2 * BridgeInterval
<1>c. /\ good[h] \in 0..(2 * BridgeInterval + 1) /\ BridgeInterval \in Nat
      /\ age[h] \in Int /\ StaleMax \in Nat
  BY Constants, BridgeSettings DEF TypeOK, HB!TypeOK, HB!GoodCap, HB!Hosts, Hosts, None
<1>1. good[h] = 2 * BridgeInterval + 1 => age[h] <= BridgeInterval
  BY DEF HB!LiveIsFresh, HB!GoodCap, HB!Hosts, Hosts
<1> QED BY <1>c, <1>1 DEF Stale

\* A scan under way keeps to the hosts it found stale.
LEMMA AlarmWatch ==
  ASSUME BridgeInterval <= StaleMax, TypeOK, HB!TypeOK, HB!LiveIsFresh, AlarmInv,
         WatchStep, UNCHANGED env
  PROVE  AlarmInv'
<1>0. good' = good
  BY WatchStepKeepsFiles DEF bridgeVars
<1>k. ASSUME stale' = stale, todo' \subseteq todo, pc # "idle",
             \A h \in Hosts : Firing(h)' => h \in stale
      PROVE  AlarmInv'
  BY <1>0, <1>k DEF AlarmInv
<1>1. CASE StartScan
  <2>1. pc' \in {"idle", "host"} /\ stale' \subseteq {h \in Listed : Stale(h)}
    BY <1>1 DEF StartScan, ScanOf
  <2>2. \A h \in stale' : good[h] <= 2 * BridgeInterval
    BY <2>1, StaleIsNew DEF Listed
  <2> QED BY <1>0, <2>1, <2>2 DEF AlarmInv, Firing
<1>2. CASE DirUnreadable \/ Crash \/ Restart
  <2>1. pc' = "idle"
    BY <1>2 DEF DirUnreadable, Crash, Restart, TypeOK
  <2> QED BY <2>1 DEF AlarmInv, Firing
<1>3. ASSUME NEW h \in Hosts, PassOver(h) \/ WriteMarker(h) \/ RemoveMarker(h) PROVE AlarmInv'
  <2>1. Turn(h) /\ NextHost(h) /\ stale' = stale /\ pc # "idle"
    BY <1>3 DEF PassOver, WriteMarker, RemoveMarker
  <2>2. todo' = todo \ {h} /\ pc' \in {"idle", "host"}
    BY <2>1, NextHostTurns
  <2> QED BY <1>k, <2>1, <2>2 DEF Firing
<1>4. ASSUME NEW h \in Hosts, FireStale(h) \/ FireRecovered(h) PROVE AlarmInv'
  <2>1. /\ Turn(h) /\ stale' = stale /\ todo' = todo /\ pc # "idle"
        /\ sev' = "critical" => h \in stale
    BY <1>4 DEF FireStale, FireRecovered, Fire
  <2>2. \A g \in Hosts : Turn(g)' => g = h
    BY <2>1, OneTurn DEF Turn
  <2> QED BY <1>k, <2>1, <2>2 DEF Firing
<1>5. ASSUME NEW h \in Hosts, FireDone(h) PROVE AlarmInv'
  <2>1. Turn(h) /\ stale' = stale /\ sev' = sev /\ pc = "send"
    BY <1>5 DEF FireDone
  <2>2. CASE failed
    <3>1. todo' = todo \ {h} /\ pc' \in {"idle", "host"}
      BY <1>5, <2>1, <2>2, NextHostTurns DEF FireDone
    <3> QED BY <1>k, <2>1, <3>1 DEF Firing
  <2>3. CASE ~failed
    <3>1. todo' = todo /\ pc' = "mark"
      BY <1>5, <2>3 DEF FireDone
    <3> QED BY <1>k, <2>1, <3>1 DEF AlarmInv, Firing, Turn
  <2> QED BY <2>2, <2>3
<1>6. ASSUME NEW h \in Hosts, NEW b \in Backends, SendOK(b, h) \/ SendFail(b, h) PROVE AlarmInv'
  <2>1. UNCHANGED <<stale, todo, sev, pc>> /\ pc = "send"
    BY <1>6 DEF SendOK, SendFail
  <2> QED BY <1>k, <2>1 DEF AlarmInv, Firing, Turn
<1> QED
  BY <1>1, <1>2, <1>3, <1>4, <1>5, <1>6 DEF WatchStep, ScanStep, ScanHost

\* Every step of the fleet keeps the alarms of a scan justified.
LEMMA AlarmNext ==
  ASSUME BridgeInterval <= StaleMax, TypeOK, HB!TypeOK, HB!LiveIsFresh, AlarmInv,
         [FleetNext]_fleetVars
  PROVE  AlarmInv'
<1>c. BridgeInterval \in Nat /\ todo \subseteq Hosts
  BY BridgeSettings DEF TypeOK
<1>k. ASSUME UNCHANGED <<env, pc, stale, todo, sev>>, \A h \in Hosts : good'[h] \in {0, good[h]}
      PROVE  AlarmInv'
  BY <1>c, <1>k DEF AlarmInv, Firing, Turn
<1>1. ASSUME NEW h \in Hosts, Touch(h), UNCHANGED env PROVE AlarmInv'
  <2>1. UNCHANGED <<pc, stale, todo, sev, good>>
    BY <1>1 DEF Touch, Beat, scanVars, Bridge!Touch, Bridge!workerVars
  <2> QED BY <1>1, <1>k, <2>1
<1>2. CASE BridgeStep /\ UNCHANGED env
  <2>1. UNCHANGED <<pc, stale, todo, sev>>
    BY <1>2, BridgeStepKeepsFiles DEF watchVars, scanVars
  <2>2. good' = good \/ \E h \in Hosts : good' = [good EXCEPT ![h] = 0]
    BY <1>2 DEF BridgeStep, Bridge!StartSweep, Bridge!Probe, Bridge!ProbeFails, Bridge!Judge,
         Bridge!Worker, Bridge!Start, Bridge!WorkerBeats, Bridge!Stop, Bridge!NetChanges,
         Bridge!workerVars
  <2>3. \A h \in Hosts : good'[h] \in {0, good[h]}
    BY <2>2 DEF HB!TypeOK, HB!Hosts, Hosts
  <2> QED BY <1>2, <1>k, <2>1, <2>3
<1>3. CASE WatchStep /\ UNCHANGED env
  BY <1>3, AlarmWatch
<1>4. CASE FleetTick /\ UNCHANGED env
  <2>1. UNCHANGED <<pc, stale, todo, sev>> /\ (~env.slowSends => pc = "idle")
    BY <1>4 DEF FleetTick, Tick, scanVars
  <2> QED BY <1>4, <2>1 DEF AlarmInv, Firing, Turn
<1>5. CASE UNCHANGED fleetVars
  <2>1. UNCHANGED <<env, pc, stale, todo, sev, good>>
    BY <1>5 DEF fleetVars, watchVars, scanVars, bridgeVars
  <2> QED BY <1>k, <2>1
<1> QED BY <1>1, <1>2, <1>3, <1>4, <1>5 DEF FleetNext

\* If the settings fit together (a worker beats at least every stale-max of the
\* bridge, the bridge sweeps at least every stale-max of the watchdog, and a probe
\* is given time), nobody is paged about a worker that has been beating and
\* reachable for more than two sweeps, whatever sends, markers and the watchdog
\* do, unless a scan hangs in its sends.
THEOREM AlarmsAreTrue ==
  ASSUME BeatPeriod <= BridgeStaleMax, BridgeInterval <= StaleMax, SSHTimeout >= 1
  PROVE  FleetSpec => NoFalseAlarm
<1>1. HB!SettingsFit
  BY Constants, BridgeSettings DEF HB!SettingsFit
<1>2. HB!Spec => []HB!LiveIsFresh /\ []HB!TypeOK
  BY <1>1, HB!LiveFresh, HB!TypeCorrect, BridgeSettings, PTL
<1>3. FleetInit => AlarmInv
  BY DEF FleetInit, Init, AlarmInv, Firing
<1>4. TypeOK /\ HB!TypeOK /\ HB!LiveIsFresh /\ AlarmInv /\ [FleetNext]_fleetVars => AlarmInv'
  BY AlarmNext
<1>5. TypeOK /\ AlarmInv /\ [FleetNext]_fleetVars =>
        [\A b \in Backends, h \in Hosts :
            ~env.slowSends /\ Pages(b, h) => good[h] <= 2 * BridgeInterval]_fleetVars
  BY DEF AlarmInv, Pages, Firing, Turn
<1> QED
  BY <1>2, <1>3, <1>4, <1>5, TypeCorrect, FleetIsWatchdog, FleetIsBridge, SameBridge, PTL
  DEF FleetSpec, NoFalseAlarm
=============================================================================
