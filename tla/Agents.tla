------------------------------- MODULE Agents -------------------------------
(***************************************************************************)
(* LaunchAgents: launchd.Manager and the install, uninstall and status     *)
(* commands built on it.  A command names one label, and labels share      *)
(* neither plist nor job, so a behaviour follows one agent.  Several       *)
(* operators (people, scripts) may run commands for it at once; a command  *)
(* can die between any two steps.                                          *)
(*                                                                         *)
(* Operators named A_xyz are plausible bugs of the definition A below them.*)
(***************************************************************************)
CONSTANTS
    Operators,  \* processes that run fleetctl
    Versions    \* renderings of the plist: binary path, environment, ...

\* The services of `setup-agent', and those among them that run a script.
HermesServices == {"heartbeat", "backup", "backup-worker", "watchdog",
                   "logrotate", "logaggregate"}
ScriptServices == HermesServices \ {"heartbeat", "logaggregate"}
\* The agents with commands of their own.
OweraAgents == {"com.owera.snapshot-publish", "com.owera.watchdog",
                "com.owera.heartbeats-bridge", "com.owera.logrotate",
                "com.owera.backup", "com.owera.backup-worker"}

VARIABLES
    agent,      \* the agent this behaviour is about
    plist,      \* ~/Library/LaunchAgents/<label>.plist: absent, torn or a version
    job,        \* what launchd has loaded under the label: "absent" or a version
    op,         \* [Operators -> the step the operator's command is at]
    result,     \* how the last command ended
    intent,     \* history: what the last mutating command said it achieved
    alone,      \* history: no two of the last commands overlapped
    bootoutLost \* history: a bootout failed although the job was loaded

vars == <<agent, plist, job, op, result, intent, alone, bootoutLost>>
history == <<intent, alone, bootoutLost>>

Steps == {[at |-> "idle"], [at |-> "bootout"], [at |-> "remove"]}
             \cup [at : {"write", "bootstrap"}, v : Versions]

TypeOK ==
    /\ agent \in OweraAgents \cup HermesServices
    /\ plist \in Versions \cup {"absent", "torn"}
    /\ job \in Versions \cup {"absent"}
    /\ op \in [Operators -> Steps]
    /\ result \in {"none", "ok", "error"}
    /\ intent \in Versions \cup {"absent", "unknown"}
    /\ alone \in BOOLEAN /\ bootoutLost \in BOOLEAN

Init ==
    /\ agent \in OweraAgents \cup HermesServices
    /\ plist = "absent" /\ job = "absent"
    /\ op = [o \in Operators |-> [at |-> "idle"]]
    /\ result = "none" /\ intent = "absent"
    /\ alone = TRUE /\ bootoutLost = FALSE

At(o, step) == op[o].at = step
Others(o) == Operators \ {o}
Idle(o) == At(o, "idle")

Goto(o, step) == op' = [op EXCEPT ![o] = step]
Return(o, r) == Goto(o, [at |-> "idle"]) /\ result' = r

-----------------------------------------------------------------------------
\* launchd.Manager

Begin(o, step) ==
    /\ Idle(o)
    /\ Goto(o, step)
    /\ intent' = "unknown"
    /\ alone' = \A p \in Others(o) : Idle(p)
    /\ bootoutLost' = FALSE
    /\ UNCHANGED <<agent, plist, job, result>>

\* Home directory, binary path, template or environment missing: nothing done.
Refuse(o) ==
    /\ Idle(o) /\ Return(o, "error")
    /\ UNCHANGED <<agent, plist, job>> /\ UNCHANGED history

Install(o) == \E v \in Versions : Begin(o, [at |-> "write", v |-> v])

\* os.WriteFile replaces the file in place, whether or not the job is loaded.
WritePlist(o) ==
    /\ At(o, "write")
    /\ \/ /\ plist' = op[o].v
          /\ Goto(o, [at |-> "bootstrap", v |-> op[o].v])
          /\ UNCHANGED result
       \/ /\ plist' \in {plist, "torn"}
          /\ Return(o, "error")
    /\ UNCHANGED <<agent, job>> /\ UNCHANGED history

\* launchctl loads what the file holds, and refuses a label that is loaded.
Bootstrap_loaded(o) ==
    /\ At(o, "bootstrap")
    /\ \/ /\ plist \in Versions
          /\ job' = IF job = "absent" THEN plist ELSE job
          /\ intent' = op[o].v
          /\ Return(o, "ok")
       \/ UNCHANGED <<job, intent>> /\ Return(o, "error")
    /\ UNCHANGED <<agent, plist, alone, bootoutLost>>

Bootstrap(o) ==
    /\ At(o, "bootstrap")
    /\ \/ /\ job = "absent" /\ plist \in Versions
          /\ job' = plist
          /\ intent' = op[o].v
          /\ Return(o, "ok")
       \/ UNCHANGED <<job, intent>> /\ Return(o, "error")
    /\ UNCHANGED <<agent, plist, alone, bootoutLost>>

Uninstall(o) == Begin(o, [at |-> "bootout"])

\* Every failure of bootout is taken for "not loaded" and only logged.
Bootout(o) ==
    /\ At(o, "bootout")
    /\ \/ job' = "absent" /\ UNCHANGED bootoutLost
       \/ UNCHANGED job /\ bootoutLost' = (bootoutLost \/ job # "absent")
    /\ Goto(o, [at |-> "remove"])
    /\ UNCHANGED <<agent, plist, result, intent, alone>>

RemovePlist(o) ==
    /\ At(o, "remove")
    /\ \/ /\ plist' = "absent" /\ intent' = "absent"
          /\ Return(o, "ok")
       \/ UNCHANGED <<plist, intent>> /\ Return(o, "error")
    /\ UNCHANGED <<agent, job, alone, bootoutLost>>

\* `launchctl print' may also fail for a reason isNotLoaded does not know.
Status(o, unloaded) ==
    /\ Idle(o)
    /\ \E r \in {IF job = "absent" THEN unloaded ELSE "ok", "error"} : Return(o, r)
    /\ UNCHANGED <<agent, plist, job>> /\ UNCHANGED history

Agent(name) == agent = name

-----------------------------------------------------------------------------
\* The commands.  Each install command can be refused before it does anything.

InstallOrRefuse(o) == Install(o) \/ Refuse(o)

runSnapshotPublishInstall(o) == Agent("com.owera.snapshot-publish") /\ InstallOrRefuse(o)
runSnapshotPublishUninstall(o) == Agent("com.owera.snapshot-publish") /\ Uninstall(o)
runSnapshotPublishStatus(o) == Agent("com.owera.snapshot-publish") /\ Status(o, "error")

runWatchdogInstall(o) == Agent("com.owera.watchdog") /\ InstallOrRefuse(o)
runWatchdogUninstall(o) == Agent("com.owera.watchdog") /\ Uninstall(o)
runWatchdogStatus(o) == Agent("com.owera.watchdog") /\ Status(o, "error")

runHeartbeatsBridgeInstall(o) == Agent("com.owera.heartbeats-bridge") /\ InstallOrRefuse(o)
runHeartbeatsBridgeUninstall(o) == Agent("com.owera.heartbeats-bridge") /\ Uninstall(o)
runHeartbeatsBridgeStatus(o) == Agent("com.owera.heartbeats-bridge") /\ Status(o, "error")

runLogrotateInstall(o) == Agent("com.owera.logrotate") /\ InstallOrRefuse(o)
runLogrotateUninstall(o) == Agent("com.owera.logrotate") /\ Uninstall(o)
runLogrotateStatus(o) == Agent("com.owera.logrotate") /\ Status(o, "error")

\* Refused too without RESTIC_REPOSITORY and RESTIC_PASSWORD_COMMAND.
runBackupInstall(o) == Agent("com.owera.backup") /\ InstallOrRefuse(o)
runBackupUninstall(o) == Agent("com.owera.backup") /\ Uninstall(o)
runBackupStatus(o) == Agent("com.owera.backup") /\ Status(o, "error")

runBackupWorkerInstall(o) == Agent("com.owera.backup-worker") /\ InstallOrRefuse(o)
runBackupWorkerUninstall(o) == Agent("com.owera.backup-worker") /\ Uninstall(o)
runBackupWorkerStatus(o) == Agent("com.owera.backup-worker") /\ Status(o, "error")

\* --install and --uninstall together are refused; the default is status,
\* which, unlike the status commands above, succeeds when nothing is loaded.
saDoInstall(o, repoDir) ==
    IF agent \in ScriptServices /\ ~repoDir THEN Refuse(o) ELSE InstallOrRefuse(o)
saDoUninstall(o) == Uninstall(o)
saDoStatus(o) == Status(o, "ok")

runSetupAgent(o) ==
    /\ agent \in HermesServices
    /\ \/ \E install, uninstall, repoDir \in BOOLEAN :
              \/ install /\ uninstall /\ Refuse(o)
              \/ install /\ ~uninstall /\ saDoInstall(o, repoDir)
              \/ ~install /\ uninstall /\ saDoUninstall(o)
              \/ ~install /\ ~uninstall /\ saDoStatus(o)

-----------------------------------------------------------------------------
\* fleetctl is killed; its files and what launchctl did stay.
Crash(o) ==
    /\ ~Idle(o)
    /\ Return(o, "error")
    /\ plist' \in IF At(o, "write") THEN {plist, "torn"} ELSE {plist}
    /\ UNCHANGED <<agent, job>> /\ UNCHANGED history

\* The user logs out, which ends the commands, and in: launchd loads the plists.
Login ==
    /\ \A o \in Operators : Idle(o)
    /\ job' = IF plist \in Versions THEN plist ELSE "absent"
    /\ UNCHANGED <<agent, plist, op, result>> /\ UNCHANGED history

Command(o) ==
    \/ runSnapshotPublishInstall(o) \/ runSnapshotPublishUninstall(o) \/ runSnapshotPublishStatus(o)
    \/ runWatchdogInstall(o) \/ runWatchdogUninstall(o) \/ runWatchdogStatus(o)
    \/ runHeartbeatsBridgeInstall(o) \/ runHeartbeatsBridgeUninstall(o)
    \/ runHeartbeatsBridgeStatus(o)
    \/ runLogrotateInstall(o) \/ runLogrotateUninstall(o) \/ runLogrotateStatus(o)
    \/ runBackupInstall(o) \/ runBackupUninstall(o) \/ runBackupStatus(o)
    \/ runBackupWorkerInstall(o) \/ runBackupWorkerUninstall(o) \/ runBackupWorkerStatus(o)
    \/ runSetupAgent(o)

Step(o) == WritePlist(o) \/ Bootstrap(o) \/ Bootout(o) \/ RemovePlist(o)

Next ==
    \/ \E o \in Operators : Command(o) \/ Step(o) \/ Crash(o)
    \/ Login

Spec == Init /\ [][Next]_vars

-----------------------------------------------------------------------------
\* What a command that ran alone reported as done is so, on disk and in
\* launchd, whatever earlier commands left behind, and stays so over a login:
\* installed means this version is loaded and comes back, uninstalled means
\* neither happens.  The exception is an uninstall whose bootout failed for
\* another reason than the job not being loaded, which Manager.Uninstall reports
\* as success.
ReportedIsInstalled ==
    (alone /\ ~bootoutLost /\ intent # "unknown" /\ \A o \in Operators : Idle(o))
        => plist = intent /\ job = intent
=============================================================================
