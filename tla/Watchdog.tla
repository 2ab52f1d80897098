------------------------------ MODULE Watchdog ------------------------------
(***************************************************************************)
(* fleetctl watchdog: scanCycle over the heartbeat files, the alerting     *)
(* Router with its backends, and the .alerted-<host> markers that carry    *)
(* the dedup state across scans and restarts.                              *)
(*                                                                         *)
(* Times are kept as ages, so that nothing grows: age[h] is how long ago   *)
(* the bridge touched <h>.json, mark[h] how long ago the marker of h is    *)
(* dated, scanAge how long ago the current scan took its `now'.  Ages stop *)
(* growing once no comparison can tell them apart.                         *)
(*                                                                         *)
(* Operators named A_xyz are plausible bugs of the definition A below them.*)
(***************************************************************************)
EXTENDS Integers

CONSTANTS
    NumHosts,       \* hosts are 1..NumHosts, in the order of their names
    Backends,       \* the backends buildAlertingRouterFromEnv found configured
    Pagers,         \* those of them that handle Critical only
    StaleMax, DedupWindow, Interval,
    Envs            \* the environments it may find itself in

\* workers: the hosts that ever have a heartbeat file; slowSends: can time pass
\* while a scan is running; sendFails: can a Send fail before the deadline;
\* diskFails: can a marker or directory operation fail; maxCrashes: a bound.
EnvRecords == [workers : SUBSET (1..NumHosts), slowSends : BOOLEAN,
               sendFails : BOOLEAN, diskFails : BOOLEAN, maxCrashes : Nat]

ASSUME WatchdogAssumption ==
    /\ NumHosts \in Nat
    /\ Pagers \subseteq Backends
    /\ StaleMax \in Nat /\ DedupWindow \in Nat /\ Interval \in Nat \ {0, 1}
    /\ Envs \subseteq EnvRecords

Hosts == 1..NumHosts
None == -1
AgeCap == StaleMax + Interval + 1
MarkCap == DedupWindow + Interval
Severities == {"critical", "warning"}

VARIABLES
    env,        \* the environment: chosen at the start, never changed
    age,        \* [Hosts -> {None} \cup 0..AgeCap]; None: no heartbeat file
    mark,       \* [Hosts -> {None} \cup 0..MarkCap]; None: no marker
    up,         \* is the watchdog running?
    pc,
    scanAge,    \* time since the ticker fired
    todo,       \* hosts the scan has still to look at
    stale,      \* those of its hosts that were stale at its `now'
    sev,        \* severity of the alert being fired
    queue,      \* backends it has still to be sent to; their order, in which
                \* nothing is decided, is left open
    failed,     \* firstErr # nil
    crashes,
    told,       \* history: what each backend last heard of each host
    paged,      \* history: Critical delivered since the last heartbeat?
    last,       \* history: age of the last Critical's OccurredAt
    seenFresh   \* history: did a scan find the host fresh since then?

vars == <<env, age, mark, up, pc, scanAge, todo, stale, sev, queue, failed, crashes,
          told, paged, last, seenFresh>>
scanVars == <<todo, stale, sev, queue, failed>>
history == <<told, paged, last, seenFresh>>

TypeOK ==
    /\ env \in EnvRecords
    /\ age \in [Hosts -> {None} \cup 0..AgeCap]
    /\ mark \in [Hosts -> {None} \cup 0..MarkCap]
    /\ up \in BOOLEAN
    /\ pc \in {"idle", "host", "send", "mark"}
    /\ scanAge \in 0..Interval
    /\ stale \subseteq Hosts /\ todo \subseteq Hosts
    /\ pc # "idle" => up /\ todo # {}
    /\ sev \in Severities
    /\ queue \subseteq Backends
    /\ failed \in BOOLEAN
    /\ crashes \in 0..env.maxCrashes
    /\ told \in [Backends -> [Hosts -> {"nothing", "stale", "recovered"}]]
    /\ paged \in [Backends -> [Hosts -> BOOLEAN]]
    /\ last \in [Backends -> [Hosts -> {None} \cup 0..MarkCap]]
    /\ seenFresh \in [Backends -> [Hosts -> BOOLEAN]]

Init ==
    /\ env \in Envs
    /\ age = [h \in Hosts |-> None]
    /\ mark = [h \in Hosts |-> None]
    /\ up = TRUE
    /\ pc = "idle"
    /\ scanAge = Interval
    /\ todo = {} /\ stale = {}
    /\ sev = "critical"
    /\ queue = {}
    /\ failed = FALSE
    /\ crashes = 0
    /\ told = [b \in Backends |-> [h \in Hosts |-> "nothing"]]
    /\ paged = [b \in Backends |-> [h \in Hosts |-> FALSE]]
    /\ last = [b \in Backends |-> [h \in Hosts |-> None]]
    /\ seenFresh = [b \in Backends |-> [h \in Hosts |-> FALSE]]

-----------------------------------------------------------------------------
\* HandlesSeverity of the three backends.
HandlesSeverity(b, s) == s = "critical" \/ b \notin Pagers

\* The context of a scan ends one time unit before the next tick.
Expired == scanAge >= Interval - 1

\* Bug: the scan interval is taken for the threshold.
Stale_interval(h) == age[h] >= Interval

\* The heartbeat is older than --stale-max.
Stale(h) == age[h] > StaleMax

\* readHeartbeatDir lists the hosts that have a file, sorted by name.
Listed == {h \in Hosts : age[h] # None}

\* h is the host the scan has come to.
Turn(h) == h \in todo /\ \A g \in todo : h <= g

\* continue: the next entry, or the end of the scan.
NextHost(h) ==
    /\ todo' = todo \ {h}
    /\ pc' = IF todo = {h} THEN "idle" ELSE "host"

-----------------------------------------------------------------------------
\* doScan and the head of scanCycle over the given entries.  None ends the scan.
ScanOf(entries) ==
    /\ up /\ pc = "idle" /\ scanAge = Interval
    /\ scanAge' = 0
    /\ todo' = entries
    /\ stale' = {h \in entries : Stale(h)}
    /\ pc' = IF entries = {} THEN "idle" ELSE "host"
    /\ seenFresh' = [b \in Backends |-> [h \in Hosts |->
                        seenFresh[b][h] \/ (h \in entries /\ ~Stale(h))]]
    /\ UNCHANGED <<age, mark, up, sev, queue, failed, crashes, told, paged, last>>

\* Immediately at start-up, then on each tick.  An entry whose Info() fails is
\* skipped.
StartScan == \E entries \in SUBSET Listed :
                 ScanOf(entries) /\ (entries = Listed \/ env.diskFails)

\* os.ReadDir fails: the scan is logged as failed and ends.
DirUnreadable ==
    /\ up /\ pc = "idle" /\ scanAge = Interval
    /\ env.diskFails
    /\ scanAge' = 0
    /\ UNCHANGED <<age, mark, up, pc, scanVars, crashes, history>>

HasMarker(h) == mark[h] # None

\* readMarkerTime finds no marker: there is none, or os.Stat fails.
NoMarkerRead(h) == ~HasMarker(h) \/ env.diskFails

\* Bug: the window is compared the wrong way round at its edge.
WithinWindow_tooShort(h) == HasMarker(h) /\ mark[h] - scanAge < DedupWindow - 1

\* Bug: a marker suppresses for good.
WithinWindow_forever(h) == mark[h] # None

\* hasMarker && now.Sub(markerTime) < dedupWindow, now being the scan's.
WithinWindow(h) == HasMarker(h) /\ mark[h] - scanAge < DedupWindow

\* stale-suppressed, or fresh with no marker.
PassOver(h) ==
    /\ pc = "host" /\ Turn(h)
    /\ IF h \in stale THEN WithinWindow(h) ELSE NoMarkerRead(h)
    /\ NextHost(h)
    /\ UNCHANGED <<age, mark, up, scanAge, stale, sev, queue, failed, crashes, history>>

\* Router.Fire begins.
Fire(s) ==
    /\ sev' = s
    /\ queue' = {b \in Backends : HandlesSeverity(b, s)}
    /\ failed' = FALSE
    /\ pc' = "send"
    /\ UNCHANGED <<age, mark, up, scanAge, todo, stale, crashes, history>>

FireStale(h) ==
    /\ pc = "host" /\ Turn(h) /\ h \in stale
    /\ NoMarkerRead(h) \/ ~WithinWindow(h)
    /\ Fire("critical")

FireRecovered(h) == pc = "host" /\ Turn(h) /\ h \notin stale /\ HasMarker(h) /\ Fire("warning")

\* The backend got the alert about h.
Delivered(b, h) ==
    /\ told' = [told EXCEPT ![b][h] = IF sev = "critical" THEN "stale" ELSE "recovered"]
    /\ paged' = [paged EXCEPT ![b][h] = @ \/ sev = "critical"]
    /\ last' = [last EXCEPT ![b][h] = IF sev = "critical" THEN scanAge ELSE @]
    /\ seenFresh' = [seenFresh EXCEPT ![b][h] = @ /\ sev # "critical"]

\* One Send that succeeds.
SendOK(b, h) ==
    /\ pc = "send" /\ Turn(h) /\ b \in queue /\ ~Expired
    /\ Delivered(b, h)
    /\ queue' = queue \ {b}
    /\ UNCHANGED <<age, mark, up, pc, scanAge, todo, stale, sev, failed, crashes>>

\* One Send that fails, by itself or because the scan's context has ended.
\* A request that timed out may have been delivered all the same.  The other
\* backends are still invoked.
SendFail(b, h) ==
    /\ pc = "send" /\ Turn(h) /\ b \in queue /\ (env.sendFails \/ Expired)
    /\ failed' = TRUE
    /\ queue' = queue \ {b}
    /\ Delivered(b, h) \/ UNCHANGED history
    /\ UNCHANGED <<age, mark, up, pc, scanAge, todo, stale, sev, crashes>>

\* Bug: the marker is written although a backend failed.
FireDone_ignoreError(h) ==
    /\ pc = "send" /\ Turn(h) /\ queue = {}
    /\ pc' = "mark" /\ todo' = todo
    /\ UNCHANGED <<age, mark, up, scanAge, stale, sev, queue, failed, crashes, history>>

\* Fire returns: on error the marker is left as it is, to try again next scan.
FireDone(h) ==
    /\ pc = "send" /\ Turn(h) /\ queue = {}
    /\ IF failed THEN NextHost(h) ELSE pc' = "mark" /\ todo' = todo
    /\ UNCHANGED <<age, mark, up, scanAge, stale, sev, queue, failed, crashes, history>>

\* writeMarker: WriteFile, then Chtimes to the scan's now.  When only the
\* latter fails the marker is dated by the write.
MarkHost(h) ==
    \/ mark' = [mark EXCEPT ![h] = scanAge]
    \/ env.diskFails /\ mark' = [mark EXCEPT ![h] = 0]
    \/ env.diskFails /\ mark' = mark

\* After a Critical that every backend accepted.
WriteMarker(h) ==
    /\ pc = "mark" /\ Turn(h) /\ sev = "critical"
    /\ MarkHost(h)
    /\ NextHost(h)
    /\ UNCHANGED <<age, up, scanAge, stale, sev, queue, failed, crashes, history>>

\* Bug: the marker stays after a recovery.
RemoveMarker_keep(h) ==
    /\ pc = "mark" /\ Turn(h) /\ sev = "warning"
    /\ NextHost(h)
    /\ UNCHANGED <<age, mark, up, scanAge, stale, sev, queue, failed, crashes, history>>

\* os.Remove of the marker.
RemoveMarker(h) ==
    /\ pc = "mark" /\ Turn(h) /\ sev = "warning"
    /\ \/ mark' = [mark EXCEPT ![h] = None]
       \/ env.diskFails /\ mark' = mark
    /\ NextHost(h)
    /\ UNCHANGED <<age, up, scanAge, stale, sev, queue, failed, crashes, history>>

\* The process dies between any two steps; launchd (KeepAlive) restarts it,
\* and the new process scans at once.
Crash ==
    /\ up /\ crashes < env.maxCrashes
    /\ crashes' = crashes + 1
    /\ up' = FALSE /\ pc' = "idle" /\ todo' = {}
    /\ UNCHANGED <<age, mark, scanAge, stale, sev, queue, failed, history>>

Restart ==
    /\ ~up
    /\ up' = TRUE /\ scanAge' = Interval
    /\ UNCHANGED <<age, mark, pc, scanVars, crashes, history>>

\* heartbeats-bridge rewrites <h>.json.
Beat(h) ==
    /\ h \in env.workers
    /\ age' = [age EXCEPT ![h] = 0]
    /\ paged' = [b \in Backends |-> [paged[b] EXCEPT ![h] = FALSE]]
    /\ UNCHANGED <<mark, up, pc, scanAge, scanVars, crashes, told, last, seenFresh>>

Older(a, cap) == IF a = None \/ a >= cap THEN a ELSE a + 1

\* Time passes.  A due scan starts before it does, and a scan is over before
\* the next is due: its context ends earlier.
Tick ==
    /\ up => scanAge < Interval
    /\ pc # "idle" => env.slowSends
    /\ age' = [h \in Hosts |-> Older(age[h], AgeCap)]
    /\ mark' = [h \in Hosts |-> Older(mark[h], MarkCap)]
    /\ scanAge' = Older(scanAge, Interval)
    /\ last' = [b \in Backends |-> [h \in Hosts |-> Older(last[b][h], MarkCap)]]
    /\ UNCHANGED <<up, pc, scanVars, crashes, told, paged, seenFresh>>

ScanHost(h) == \/ PassOver(h) \/ FireStale(h) \/ FireRecovered(h)
               \/ FireDone(h) \/ WriteMarker(h) \/ RemoveMarker(h)
               \/ \E b \in Backends : SendOK(b, h) \/ SendFail(b, h)

ScanStep == StartScan \/ DirUnreadable \/ \E h \in Hosts : ScanHost(h)

Next ==
    /\ ScanStep \/ Crash \/ Restart \/ Tick \/ \E h \in Hosts : Beat(h)
    /\ UNCHANGED env

Spec == Init /\ [][Next]_vars

\* The process runs, launchd restarts it, time passes; a directory that is
\* read again and again is read in full in the end, and a backend that is tried
\* for a host again and again answers.
FairSpec ==
    /\ Spec
    /\ WF_vars(ScanStep /\ UNCHANGED env) /\ WF_vars(Restart /\ UNCHANGED env)
    /\ WF_vars(Tick /\ UNCHANGED env)
    /\ SF_vars(ScanOf(Listed) /\ UNCHANGED env)
    /\ \A b \in Backends, h \in Hosts : SF_vars(SendOK(b, h) /\ UNCHANGED env)

-----------------------------------------------------------------------------
\* Nobody hears "recovered" about a host they were never told was stale,
\* whatever sends, marker operations or scans fail or are cut short: the
\* marker is written only after every backend accepted the Critical.
RecoveryFollowsAlert ==
    [][\A b \in Backends, h \in Hosts :
         told'[b][h] = "recovered" => told[b][h] # "nothing"]_vars

\* The step delivers a Critical about h to b.
Pages(b, h) ==
    /\ pc = "send" /\ sev = "critical" /\ b \in queue \ queue' /\ Turn(h)
    /\ paged'[b][h] /\ last'[b][h] = scanAge

\* The last Critical about h to b is at least dedup-window older than this one.
Spaced(b, h) == last[b][h] = None \/ last[b][h] - scanAge >= DedupWindow

\* Backends and disk work, and a scan takes no time.
Working == ~env.slowSends /\ ~env.sendFails /\ ~env.diskFails

\* With backends and markers that work and a process that has not died, a Critical
\* is repeated only when dedup-window has passed or a scan found the host fresh in
\* between.
RepeatsAreSpaced ==
    [][\A b \in Backends, h \in Hosts :
         Working /\ crashes = 0 /\ Pages(b, h) => Spaced(b, h) \/ seenFresh[b][h]]_vars

\* A Critical about an earlier outage of h is recent enough to suppress one to b
\* about this outage.  The scan that saw h fresh in between removes the marker;
\* only a process that was down may have missed it.
Suppressed(b, h) == crashes > 0 /\ last[b][h] # None /\ last[b][h] - scanAge < DedupWindow

\* With working backends, a host whose heartbeat is one interval past stale-max has been
\* reported to every backend, a second outage within the dedup window included.  If the
\* process has died, the backend may have heard of the host less than dedup-window ago instead.
ReportedInTime ==
    \A h \in Hosts :
        Working /\ up /\ pc = "idle" /\ scanAge < Interval /\ age[h] > StaleMax + Interval
        => \A b \in Backends : paged[b][h] \/ Suppressed(b, h)

\* A host that stays stale is reported to every backend, however many sends
\* and marker writes fail on the way and although the process crashes, provided
\* the scans leave time to send.
StaleIsReported ==
    \A h \in Hosts, b \in Backends :
        <>[](Stale(h) /\ ~env.slowSends) => <>[]paged[b][h]
=============================================================================
