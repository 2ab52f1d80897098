------------------------------ MODULE Cronjobs ------------------------------
(***************************************************************************)
(* fleetctl cronjob: hermesjobs.Manager over the job table of the Hermes   *)
(* runtime.  A behaviour follows one job name.  Of a job, `what' is its    *)
(* schedule and command and `env' its environment and tags: Install        *)
(* compares the former only.                                               *)
(*                                                                         *)
(* Operators named A_xyz are plausible bugs of the definition A below them.*)
(***************************************************************************)
CONSTANTS
    Clients,    \* processes running `fleetctl cronjob'
    Whats,      \* schedules with commands
    JobEnvs     \* environments with tags

Jobs == [what : Whats, env : JobEnvs]
Entry(what) == [what |-> what, env |-> "none"]
None == Entry("none")
Error == Entry("error")         \* the listing failed
Nothing == Entry("nothing")     \* no promise made

VARIABLES
    table,      \* the runtime's entry under the name: a job or None
    call,       \* [Clients -> the step of the client's command, and its job]
    shown,      \* what the last list or status printed
    promised,   \* history: what the last install or remove reported
    serial      \* history: the last command that changed something ran alone

vars == <<table, call, shown, promised, serial>>

Calls == [at : {"idle", "install-list", "install-remove", "install-add",
                "remove", "list"}, job : Jobs \cup {None}]

TypeOK ==
    /\ table \in Jobs \cup {None}
    /\ call \in [Clients -> Calls]
    /\ shown \in Jobs \cup {None, Error}
    /\ promised \in Jobs \cup {None, Nothing}
    /\ serial \in BOOLEAN

Free == [at |-> "idle", job |-> None]

Init ==
    /\ table = None /\ shown = None
    /\ call = [c \in Clients |-> Free]
    /\ promised = None /\ serial = TRUE

At(c, step) == call[c].at = step
Idle(c) == call[c] = Free

Begin(c, step, job) ==
    /\ Idle(c)
    /\ call' = [call EXCEPT ![c] = [at |-> step, job |-> job]]
    /\ promised' = Nothing
    /\ serial' = \A d \in Clients \ {c} : Idle(d)
    /\ UNCHANGED <<table, shown>>

Goto(c, step) ==
    /\ call' = [call EXCEPT ![c].at = step]
    /\ UNCHANGED <<promised, shown, serial>>

Return(c, promise) ==
    /\ call' = [call EXCEPT ![c] = Free]
    /\ promised' = promise
    /\ UNCHANGED <<shown, serial>>

Fail(c) == Return(c, promised)

-----------------------------------------------------------------------------
\* --dry-run and missing flags end runCronjobInstall before this.
runCronjobInstall(c) == \E job \in Jobs : Begin(c, "install-list", job)

\* A list that fails or does not parse counts as an empty one.
InstallList(c) ==
    /\ At(c, "install-list")
    /\ \E seen \in {table, None} :
           \/ seen.what = call[c].job.what /\ Return(c, call[c].job)
           \/ seen.what \notin {call[c].job.what, "none"} /\ Goto(c, "install-remove")
           \/ seen = None /\ Goto(c, "install-add")
    /\ UNCHANGED table

\* Only a command that could not be run stops Install; its exit code does not.
InstallRemove(c) ==
    /\ At(c, "install-remove")
    /\ \/ table' = None /\ Goto(c, "install-add")
       \/ UNCHANGED table /\ (Goto(c, "install-add") \/ Fail(c))

InstallAdd_unchecked(c) ==
    /\ At(c, "install-add")
    /\ Return(c, call[c].job)
    /\ table' \in {table, IF table = None THEN call[c].job ELSE table}

\* The runtime refuses a name it has: that is why Install removes it first.
InstallAdd(c) ==
    /\ At(c, "install-add")
    /\ \/ table = None /\ table' = call[c].job /\ Return(c, call[c].job)
       \/ UNCHANGED table /\ Fail(c)

runCronjobRemove(c) == Begin(c, "remove", None)

\* "not found" is success, every other failure is an error.
Remove(c) ==
    /\ At(c, "remove")
    /\ \/ table' = None /\ Return(c, None)
       \/ UNCHANGED table /\ Fail(c)

\* list and status; Status is a List that picks the name.
List(c) ==
    /\ Idle(c)
    /\ shown' \in {table, Error}
    /\ UNCHANGED <<table, call, promised, serial>>

\* The client dies; the runtime may still carry out the command it was given.
Crash(c) ==
    /\ ~Idle(c)
    /\ \/ UNCHANGED table
       \/ At(c, "install-add") /\ table = None /\ table' = call[c].job
       \/ (At(c, "remove") \/ At(c, "install-remove")) /\ table' = None
    /\ Fail(c)

Step(c) ==
    \/ runCronjobInstall(c) \/ InstallList(c) \/ InstallRemove(c) \/ InstallAdd(c)
    \/ runCronjobRemove(c) \/ Remove(c)
    \/ List(c)
    \/ Crash(c)

Next == \E c \in Clients : Step(c)

Spec == Init /\ [][Next]_vars

-----------------------------------------------------------------------------
\* A command that ran alone and reported success left the name as it said:
\* hermesjobs.Install leaves the schedule and the command it was given, also
\* when an earlier update stopped between its remove and its install, and
\* Remove leaves nothing.  Environment and tags are not covered: Install takes
\* an entry with the same schedule and command for the job it was given.
PromisedIsScheduled ==
    (serial /\ promised # Nothing /\ \A c \in Clients : Idle(c))
        => table.what = promised.what
=============================================================================
