------------------------------- MODULE FanOut -------------------------------
(***************************************************************************)
(* The commands that visit hosts one after the other over SSH: `delegate', *)
(* `update', `screensharing' and `brew'.  Each resolves its targets,       *)
(* probes, acts and probes again as its kind demands, goes on after a      *)
(* failure, and exits 0 only if no target failed.                          *)
(*                                                                         *)
(* One behaviour is about one kind of setting, which a host has or has     *)
(* not: Screen Sharing on, the brew essentials present, the new Hermes     *)
(* installed, the effect of a shell command.  A call that times out leaves *)
(* its remote process running, which may take effect much later.           *)
(* Operators named A_xyz are plausible bugs of the definition A below them.*)
(***************************************************************************)
EXTENDS Naturals, FiniteSets

CONSTANTS
    NumHosts,       \* hosts of nodes.txt, in its order (the gateway is one of them)
    Operators,      \* people or agents running the commands
    MaxLate         \* bound: remote processes that outlive their call at one time

Hosts == 1..NumHosts
Settings == {"sharing", "brew", "hermes", "shell"}

\* The commands about a setting.
CommandsOf(s) ==
    CASE s = "sharing" -> {"enable", "disable", "status"}
      [] s = "brew"    -> {"install", "force", "probe"}
      [] s = "hermes"  -> {"upgrade", "dry-run"}
      [] s = "shell"   -> {"delegate"}
Commands == UNION {CommandsOf(s) : s \in Settings}

VARIABLES
    setting,    \* what this behaviour is about
    has,        \* [Hosts -> BOOLEAN], the hosts' state
    brewless,   \* hosts without Homebrew
    op,         \* [Operators -> command, step, targets, targets left, whether one failed]
    late,       \* effects of remote processes whose call has given up
    met         \* history: [Operators -> targets seen in the wanted state
                \*           at some moment since their visit began]

vars == <<setting, has, brewless, op, late, met>>

Idle == [cmd |-> "delegate", at |-> "idle", targets |-> {}, todo |-> {}, failed |-> FALSE]

TypeOK ==
    /\ setting \in Settings /\ has \in [Hosts -> BOOLEAN] /\ brewless \subseteq Hosts
    /\ op \in [Operators -> [cmd : Commands, at : {"idle", "visit", "act", "check", "done"},
                             targets : SUBSET Hosts, todo : SUBSET Hosts, failed : BOOLEAN]]
    /\ late \subseteq Hosts \X BOOLEAN /\ met \in [Operators -> SUBSET Hosts]

Init ==
    /\ setting \in Settings
    /\ has = [h \in Hosts |-> FALSE]
    /\ brewless \in IF setting = "brew" THEN {{}, {1}} ELSE {{}}
    /\ op = [o \in Operators |-> Idle]
    /\ late = {} /\ met = [o \in Operators |-> {}]

First(S) == CHOOSE h \in S : \A g \in S : h <= g
At(o, step) == op[o].at = step
Host(o) == First(op[o].todo)
Want(o) == op[o].cmd # "disable"
Wanted(o, state) == (state[Host(o)] = Want(o)) /\ Host(o) \notin brewless

\* What the next state of the hosts means for the visits in progress.
Watch ==
    met' = [o \in Operators |->
               IF op[o].at \in {"act", "check"} /\ Wanted(o, has')
               THEN met[o] \cup {Host(o)} ELSE met[o]]

-----------------------------------------------------------------------------
\* The target is dealt with: go to the next one, or report.  A failure is
\* never forgotten.
Visited_last(o, ok) ==
    LET left == op[o].todo \ {Host(o)}
    IN op' = [op EXCEPT ![o].todo = left, ![o].failed = ~ok,
                        ![o].at = IF left = {} THEN "done" ELSE "visit"]

Visited(o, ok) ==
    LET left == op[o].todo \ {Host(o)}
    IN op' = [op EXCEPT ![o].todo = left, ![o].failed = @ \/ ~ok,
                        ![o].at = IF left = {} THEN "done" ELSE "visit"]

Goto(o, step) == op' = [op EXCEPT ![o].at = step]

\* Flags are parsed and targets resolved before anything is done.
Begin(o, cmds, targets) ==
    /\ At(o, "idle") /\ cmds \subseteq CommandsOf(setting)
    /\ \E cmd \in cmds :
          op' = [op EXCEPT ![o] = [cmd |-> cmd, targets |-> targets, todo |-> targets, failed |-> FALSE,
                                   at |-> IF targets = {} THEN "done" ELSE "visit"]]
    /\ UNCHANGED <<setting, has, brewless, late, met>>

One == {{h} : h \in Hosts}

\* --node, --all or --random; none of them, and --all without nodes, is refused.
resolveDelegateTargets == One \cup {Hosts}
\* Without --node and --all, or with an empty nodes.txt, update succeeds.
resolveUpdateTargets == One \cup {Hosts, {}}
\* Everything, or what --node selects; no target is an error.
scrSharingResolveTargets == SUBSET Hosts \ {{}}
brewResolveTargets == SUBSET Hosts \ {{}}

runDelegate(o) == \E t \in resolveDelegateTargets : Begin(o, {"delegate"}, t)
runUpdate(o) == \E t \in resolveUpdateTargets : Begin(o, {"upgrade", "dry-run"}, t)
runScrSharingToggle(o) == \E t \in scrSharingResolveTargets : Begin(o, {"enable", "disable"}, t)
runScrSharingStatus(o) == \E t \in scrSharingResolveTargets : Begin(o, {"status"}, t)
runBrewInstall(o) == \E t \in brewResolveTargets : Begin(o, {"install", "force"}, t)
runBrewProbe(o) == \E t \in brewResolveTargets : Begin(o, {"probe"}, t)

-----------------------------------------------------------------------------
(* One target.  Visit dials and probes: the listening port, brew and its   *)
(* formulas, the Hermes version.  delegate only dials.                     *)
Unreached(o) ==
    /\ At(o, "visit") /\ Visited(o, FALSE)
    /\ UNCHANGED <<setting, has, brewless, late, met>>

scrSharingProbeOne(o) ==
    /\ At(o, "visit") /\ setting = "sharing"
    /\ IF op[o].cmd = "status" \/ has[Host(o)] = Want(o)      \* "already"
       THEN Visited(o, TRUE) ELSE Goto(o, "act")

\* A host without brew is reported, and nothing is installed on it.
brewProbeOne(o) ==
    /\ At(o, "visit") /\ setting = "brew"
    /\ \/ Host(o) \in brewless /\ Visited(o, FALSE)
       \/ /\ Host(o) \notin brewless
          /\ \/ op[o].cmd = "probe" /\ Visited(o, has[Host(o)])
             \/ op[o].cmd = "install" /\ has[Host(o)] /\ Visited(o, TRUE)
             \/ op[o].cmd = "install" /\ ~has[Host(o)] /\ Goto(o, "act")
             \/ op[o].cmd = "force" /\ Goto(o, "act")

versionCheck(o) ==
    /\ At(o, "visit") /\ setting = "hermes"
    /\ IF op[o].cmd = "dry-run" THEN Visited(o, TRUE) ELSE Goto(o, "act")

Dial(o) == At(o, "visit") /\ setting = "shell" /\ Goto(o, "act")

Visit(o) ==
    /\ scrSharingProbeOne(o) \/ brewProbeOne(o) \/ versionCheck(o) \/ Dial(o)
    /\ met' = [met EXCEPT ![o] = IF Wanted(o, has) THEN @ \cup {Host(o)} ELSE @]
    /\ UNCHANGED <<setting, has, brewless, late>>

(* The command itself.  It exits 0, or there is an error, or the call      *)
(* gives up while the remote process goes on.  launchctl and brew may exit *)
(* 0 and have done nothing.                                                *)
Exit0(o, reliable) ==
    /\ has' \in {[has EXCEPT ![Host(o)] = Want(o)]} \cup IF reliable THEN {} ELSE {has}
    /\ Watch /\ UNCHANGED <<setting, brewless, late>>

Error(o) ==
    /\ late' \in {late, late \cup {<<Host(o), Want(o)>>}} /\ Cardinality(late') <= MaxLate
    /\ UNCHANGED <<setting, has, brewless, met>>

scrSharingRunToggle(o) ==
    /\ At(o, "act") /\ setting = "sharing"
    /\ \/ Exit0(o, FALSE) /\ Goto(o, "check")
       \/ Error(o) /\ Visited(o, FALSE)

\* brew is probed after a failure all the same, but the failure counts.
brewRunInstall(o) ==
    /\ At(o, "act") /\ setting = "brew"
    /\ \/ Exit0(o, FALSE) /\ Goto(o, "check")
       \/ Error(o) /\ op' = [op EXCEPT ![o].at = "check", ![o].failed = TRUE]

\* The exit code of an upgrade or of a shell command is taken at its word.
dispatchUpdate(o) ==
    /\ At(o, "act") /\ setting = "hermes"
    /\ \/ Exit0(o, TRUE) /\ Visited(o, TRUE)
       \/ Error(o) /\ Visited(o, FALSE)

dispatchOne(o) ==
    /\ At(o, "act") /\ setting = "shell"
    /\ \/ Exit0(o, TRUE) /\ Visited(o, TRUE)
       \/ Error(o) /\ Visited(o, FALSE)

Act(o) == scrSharingRunToggle(o) \/ brewRunInstall(o) \/ dispatchUpdate(o) \/ dispatchOne(o)

\* The probe afterwards, which may fail or find the host as it was.
Check(o) ==
    /\ At(o, "check")
    /\ \E answered \in BOOLEAN : Visited(o, answered /\ has[Host(o)] = Want(o))
    /\ UNCHANGED <<setting, has, brewless, late, met>>

Report(o) ==
    /\ At(o, "done") /\ op' = [op EXCEPT ![o] = Idle]
    /\ met' = [met EXCEPT ![o] = {}]
    /\ UNCHANGED <<setting, has, brewless, late>>

-----------------------------------------------------------------------------
\* A process nobody waits for takes effect or is killed.
Late(e) ==
    /\ e \in late /\ late' = late \ {e}
    /\ has' \in {has, [has EXCEPT ![e[1]] = e[2]]}
    /\ Watch
    /\ UNCHANGED <<setting, brewless, op>>

\* Somebody at the host changes Screen Sharing or removes a formula.
HostChanges(h) ==
    /\ setting \in {"sharing", "brew"}
    /\ has' = [has EXCEPT ![h] = ~@]
    /\ Watch
    /\ UNCHANGED <<setting, brewless, op, late>>

Next ==
    \/ \E o \in Operators :
           \/ runDelegate(o) \/ runUpdate(o) \/ runScrSharingToggle(o) \/ runScrSharingStatus(o)
           \/ runBrewInstall(o) \/ runBrewProbe(o)
           \/ Unreached(o) \/ Visit(o) \/ Act(o) \/ Check(o) \/ Report(o)
    \/ \E e \in late : Late(e)
    \/ \E h \in Hosts : HostChanges(h)

Spec == Init /\ [][Next]_vars

-----------------------------------------------------------------------------
\* A command that exits 0 tells the truth about every target: each one was in
\* the state the command promises at some moment of its own visit, however
\* many hosts failed before or after it, whoever else was changing the hosts,
\* and whatever older call took effect late.  (`status' and --dry-run promise
\* nothing.)
SuccessIsTrue ==
    \A o \in Operators :
        At(o, "done") /\ ~op[o].failed /\ op[o].cmd \notin {"status", "dry-run"}
            => op[o].targets \subseteq met[o]
=============================================================================
