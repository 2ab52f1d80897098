---------------------------- MODULE FleetHealth ----------------------------
(***************************************************************************)
(* heartbeats-bridge and watchdog together, as launchd runs them on the    *)
(* gateway: they share nothing but the heartbeat files and the clock.  The *)
(* bridge's touch of a file is the watchdog's Beat.                        *)
(***************************************************************************)
EXTENDS Watchdog

CONSTANTS BridgeInterval, SSHTimeout, BridgeStaleMax, BeatPeriod, Hangs

ASSUME FleetAssumption ==
    /\ BridgeInterval \in Nat \ {0, 1} /\ SSHTimeout \in Nat
    /\ BridgeStaleMax \in Nat /\ BeatPeriod \in Nat /\ Hangs \in BOOLEAN

VARIABLES alive, net, beat, bpc, btodo, sweepAge, probeAge, obs, good

bridgeVars == <<alive, net, beat, bpc, btodo, sweepAge, probeAge, obs, good>>
watchVars == <<mark, up, pc, scanAge, scanVars, crashes, history>>
fleetVars == <<env, age, bridgeVars, watchVars>>

\* The bridge; its files' ages count as far as the watchdog compares them.
Bridge == INSTANCE Heartbeats WITH
    pc <- bpc, todo <- btodo, Interval <- BridgeInterval, StaleMax <- BridgeStaleMax,
    Threshold <- StaleMax + Interval, Faults <- FALSE

\* The bridge writes the file of any host, and nobody else does.
FleetInit == Init /\ Bridge!Init /\ env.workers = Hosts

\* The bridge rewrites <h>.json.
Touch(h) == Bridge!Touch(h) /\ Beat(h)

\* The bridge, or a worker, does something else.
BridgeStep ==
    /\ \/ Bridge!StartSweep
       \/ \E h \in Hosts : \/ Bridge!Probe(h) \/ Bridge!ProbeFails(h) \/ Bridge!Judge(h)
                           \/ Bridge!Worker(h)
    /\ UNCHANGED watchVars

WatchStep ==
    /\ ScanStep \/ Crash \/ Restart
    /\ UNCHANGED bridgeVars

\* Time passes for both.
FleetTick == Bridge!Tick /\ Tick

FleetNext ==
    /\ (\E h \in Hosts : Touch(h)) \/ BridgeStep \/ WatchStep \/ FleetTick
    /\ UNCHANGED env

FleetSpec == FleetInit /\ [][FleetNext]_fleetVars

-----------------------------------------------------------------------------
\* A worker that has been silent for both thresholds and one scan interval has
\* been reported to every backend, unless the watchdog was down when its last
\* outage ended and dedup-window has not passed since that was reported.  Only a
\* worker that was seen at all has a file the watchdog can look at.
DeadIsReported ==
    \A h \in Hosts :
        /\ Working /\ up /\ pc = "idle" /\ scanAge < Interval
        /\ age[h] # None
        /\ beat[h] > BridgeStaleMax + StaleMax + Interval
        => \A b \in Backends : paged[b][h] \/ Suppressed(b, h)

\* Nobody is told that a worker is stale while it has been beating and
\* reachable for more than two sweep intervals, whatever backends, markers and
\* the watchdog do, as long as a scan does not hang in its sends.
NoFalseAlarm ==
    [][\A b \in Backends, h \in Hosts :
         ~env.slowSends /\ Pages(b, h) => good[h] <= 2 * BridgeInterval]_fleetVars
=============================================================================
