----------------------------- MODULE SubmitJob -----------------------------
(***************************************************************************)
(* fleet.SubmitJob and fleet.CancelTask, the two JSON-RPC methods through  *)
(* which the customer plane drives the gateway, with everything they       *)
(* share: the idempotency map <ledgerDir>/.cloud-jobs.json behind an       *)
(* RWMutex, the per-task ledger files, the run registry of cancel funcs,   *)
(* and the context each dispatched task runs under.                        *)
(*                                                                         *)
(* One HTTP request is one goroutine, so every request has a program       *)
(* counter and requests interleave at each lock, each file operation and   *)
(* each ledger append.  A request mints at most one task id from           *)
(* crypto/rand; ids are unique, so a task is identified with the request   *)
(* that minted it.                                                         *)
(*                                                                         *)
(* A ledger append is one atomic step here (module Ledger opens it up).    *)
(*                                                                         *)
(* An operator named A_xyz, just above an action A, is A with a plausible  *)
(* bug; no specification uses it.  PROJECT.json says which property each   *)
(* of them breaks.                                                         *)
(***************************************************************************)
EXTENDS Naturals, Sequences, FiniteSets

CONSTANTS
    Reqs,         \* SubmitJob calls; also the ids of the tasks they mint
    Jobs,         \* cloud_job_id values
    Cancellers,   \* CancelTask calls
    JobOf,        \* [Reqs -> Jobs]: the cloud_job_id of each call
    None,         \* "no task" / "no lock holder"
    Envs          \* the environments the gateway may find itself in

(***************************************************************************)
(* "oneshot" stands for campaign-swarm@v1, research-brief@v1 and           *)
(* code-audit@v1, whose Dispatch bodies differ only in what they bill;     *)
(* "triage" is the long-running triage-watch@v1, "delegate" is             *)
(* delegate.shell.v1.  "malformed" parameters miss a required field.       *)
(***************************************************************************)
Skus == {"oneshot", "triage", "delegate", "unknown", "malformed"}

(***************************************************************************)
(* An environment: which calls and cancels are made, what each call asks   *)
(* for, whose client may hang up; whether two calls of one job may be      *)
(* between lookup and record at once, whether reads and writes of          *)
(* .cloud-jobs.json may fail, whether a restart may be a power loss (page  *)
(* cache gone); and a bound on restarts.                                   *)
(***************************************************************************)
EnvRecords == [calls : SUBSET Reqs, skuOf : [Reqs -> Skus], leavers : SUBSET Reqs,
               cancels : SUBSET Cancellers, overlapOK : BOOLEAN,
               diskFails : BOOLEAN, powerFails : BOOLEAN, maxRestarts : Nat]

ASSUME ConstantsAssumption ==
    /\ JobOf \in [Reqs -> Jobs]
    /\ None \notin Reqs
    /\ Envs \subseteq EnvRecords

VARIABLES
    env,        \* the environment: chosen at the start, never changed
    pc,         \* [Reqs -> PCs]: where Handle is
    rmap,       \* [Reqs -> JobMap]: the map recordCloudJob read, under the lock
    mu,         \* holder of SubmitJobHandler.mu in write mode, or None
    jobMap,     \* .cloud-jobs.json as the next read sees it
    durMap,     \* .cloud-jobs.json as the disk platter has it
    ledger,     \* [Reqs -> Seq(Kinds)]: the ledger file of each task
    registry,   \* keys of runregistry.Default
    ctx,        \* [Reqs -> Ctxs]: state of the task's dispatch context
    reply,      \* [Reqs -> Replies]: what Handle returned
    gone,       \* requests whose client hung up (request ctx cancelled)
    dispatched, \* tasks whose router.Dispatch was called
    cpc,        \* [Cancellers -> {"idle", "invoke", "done"}]
    ctarget,    \* [Cancellers -> Reqs \cup {None}]: its task_id
    cres,       \* [Cancellers -> BOOLEAN]: CancelTaskResult.Cancelled
    restarts    \* gateway restarts so far

submitVars == <<pc, rmap, mu, jobMap, reply, dispatched>>
cancelVars == <<cpc, ctarget, cres>>
vars == <<env, pc, rmap, mu, jobMap, durMap, ledger, registry, ctx, reply, gone,
          dispatched, cpc, ctarget, cres, restarts>>

(***************************************************************************)
(* "dead" is a call the gateway process took down with it.                 *)
(***************************************************************************)
PCs == {"idle", "lookup", "mark", "record", "write", "persistfail",
        "register", "dispatch", "complete", "delegate", "transport",
        "failed", "cleanup", "done", "dead"}

\* Between the idempotency lookup and the end of recordCloudJob.
Window == {"lookup", "mark", "record", "write"}

\* The task is registered and its router may be running.
Dispatching == {"dispatch", "complete", "delegate", "transport", "failed",
                "cleanup"}

Kinds == {"submit", "persist-failed", "bill", "complete", "dispatch",
          "ssh-ok", "ssh-error", "transport-error", "dispatch-failed"}
Ctxs == {"unborn", "live", "cancelled", "lost"}
JobMap == [Jobs -> Reqs \cup {None}]
EmptyMap == [j \in Jobs |-> None]
Replies == [code : {"none", "ok", "invalid", "internal"},
            task : Reqs \cup {None}]

OK(t) == [code |-> "ok", task |-> t]
Failure(code) == [code |-> code, task |-> None]

LongRunning(r) == env.skuOf[r] = "triage"
Active(r) == pc[r] \notin {"idle", "done", "dead"}

TypeOK ==
    /\ env \in EnvRecords
    /\ pc \in [Reqs -> PCs]
    /\ rmap \in [Reqs -> JobMap]
    /\ mu \in Reqs \cup {None}
    /\ jobMap \in JobMap
    /\ durMap \in JobMap
    /\ ledger \in [Reqs -> Seq(Kinds)]
    /\ registry \subseteq Reqs
    /\ ctx \in [Reqs -> Ctxs]
    /\ reply \in [Reqs -> Replies]
    /\ gone \subseteq Reqs
    /\ dispatched \subseteq Reqs
    /\ cpc \in [Cancellers -> {"idle", "invoke", "done"}]
    /\ ctarget \in [Cancellers -> Reqs \cup {None}]
    /\ cres \in [Cancellers -> BOOLEAN]
    /\ restarts \in 0..env.maxRestarts

Init ==
    /\ env \in Envs
    /\ pc = [r \in Reqs |-> "idle"]
    /\ rmap = [r \in Reqs |-> EmptyMap]
    /\ mu = None
    /\ jobMap = EmptyMap
    /\ durMap = EmptyMap
    /\ ledger = [r \in Reqs |-> <<>>]
    /\ registry = {}
    /\ ctx = [r \in Reqs |-> "unborn"]
    /\ reply = [r \in Reqs |-> Failure("none")]
    /\ gone = {}
    /\ dispatched = {}
    /\ cpc = [c \in Cancellers |-> "idle"]
    /\ ctarget = [c \in Cancellers |-> None]
    /\ cres = [c \in Cancellers |-> FALSE]
    /\ restarts = 0

Goto(r, l) == pc' = [pc EXCEPT ![r] = l]
Append1(r, k) == ledger' = [ledger EXCEPT ![r] = Append(@, k)]
Return(r, v) == /\ Goto(r, "done")
                /\ reply' = [reply EXCEPT ![r] = v]

-----------------------------------------------------------------------------
(***************************************************************************)
(* SubmitJobHandler.Handle                                                 *)
(***************************************************************************)

\* The request is decoded; a missing tenant_id, sku or cloud_job_id ends it.
\* Without overlapOK the customer plane sends a job's next call only once its
\* earlier ones are past the lookup-to-record window.
Arrive(r) ==
    /\ pc[r] = "idle" /\ r \in env.calls
    /\ ~env.overlapOK => \A q \in Reqs : JobOf[q] = JobOf[r] => pc[q] \notin Window
    /\ \/ /\ env.skuOf[r] = "malformed"
          /\ Return(r, Failure("invalid"))
       \/ /\ env.skuOf[r] # "malformed"
          /\ Goto(r, "lookup")
          /\ UNCHANGED reply
    /\ UNCHANGED <<rmap, mu, jobMap, durMap, ledger, registry, ctx, gone,
                   dispatched, cancelVars, restarts>>

\* Bug: a known cloud_job_id is answered with a freshly minted id.
Lookup_freshId(r) ==
    /\ pc[r] = "lookup"
    /\ mu = None
    /\ IF jobMap[JobOf[r]] # None THEN Return(r, OK(r))
       ELSE Goto(r, "mark") /\ UNCHANGED reply
    /\ UNCHANGED <<rmap, mu, jobMap, durMap, ledger, registry, ctx, gone,
                   dispatched, cancelVars, restarts>>

\* lookupCloudJob under the read lock (excluded while a writer holds mu),
\* then the router table; an unreadable map counts as "never seen".
Lookup(r) ==
    /\ pc[r] = "lookup"
    /\ mu = None
    /\ \/ /\ jobMap[JobOf[r]] # None
          /\ Return(r, OK(jobMap[JobOf[r]]))
       \/ /\ jobMap[JobOf[r]] = None \/ env.diskFails
          /\ env.skuOf[r] = "unknown"
          /\ Return(r, Failure("invalid"))
       \/ /\ jobMap[JobOf[r]] = None \/ env.diskFails
          /\ env.skuOf[r] # "unknown"
          /\ Goto(r, "mark")
          /\ UNCHANGED reply
    /\ UNCHANGED <<rmap, mu, jobMap, durMap, ledger, registry, ctx, gone,
                   dispatched, cancelVars, restarts>>

\* The "submit" marker, appended before the mapping is recorded.
Mark(r) ==
    /\ pc[r] = "mark"
    /\ Append1(r, "submit")
    /\ Goto(r, "record")
    /\ UNCHANGED <<rmap, mu, jobMap, durMap, registry, ctx, reply, gone,
                   dispatched, cancelVars, restarts>>

\* Bug: the map is read before the lock is taken.
RecordBegin_unlocked(r) ==
    /\ pc[r] = "record"
    /\ rmap' = [rmap EXCEPT ![r] = jobMap]
    /\ Goto(r, "write")
    /\ UNCHANGED <<mu, jobMap, durMap, ledger, registry, ctx, reply, gone,
                   dispatched, cancelVars, restarts>>

\* Bug: the file is rewritten with this call's pair alone.
RecordBegin_noRead(r) ==
    /\ pc[r] = "record"
    /\ mu = None
    /\ mu' = r
    /\ rmap' = [rmap EXCEPT ![r] = EmptyMap]
    /\ Goto(r, "write")
    /\ UNCHANGED <<jobMap, durMap, ledger, registry, ctx, reply, gone,
                   dispatched, cancelVars, restarts>>

\* recordCloudJob takes the write lock and reads the map; a read error
\* starts over from an empty map.
RecordBegin(r) ==
    /\ pc[r] = "record"
    /\ mu = None
    /\ mu' = r
    /\ \/ rmap' = [rmap EXCEPT ![r] = jobMap]
       \/ env.diskFails /\ rmap' = [rmap EXCEPT ![r] = EmptyMap]
    /\ Goto(r, "write")
    /\ UNCHANGED <<jobMap, durMap, ledger, registry, ctx, reply, gone,
                   dispatched, cancelVars, restarts>>

\* ... then writes map + new pair to a temp file, renames it, and unlocks.
\* A failed write or rename leaves the file as it was.
RecordWrite(r) ==
    /\ pc[r] = "write"
    /\ \/ /\ jobMap' = [rmap[r] EXCEPT ![JobOf[r]] = r]
          /\ Goto(r, "register")
       \/ /\ env.diskFails
          /\ Goto(r, "persistfail")
          /\ UNCHANGED jobMap
    /\ mu' = None
    /\ rmap' = [rmap EXCEPT ![r] = EmptyMap]
    /\ UNCHANGED <<durMap, ledger, registry, ctx, reply, gone,
                   dispatched, cancelVars, restarts>>

\* A persistence failure is logged and does not stop the dispatch.
PersistFailed(r) ==
    /\ pc[r] = "persistfail"
    /\ Append1(r, "persist-failed")
    /\ Goto(r, "register")
    /\ UNCHANGED <<rmap, mu, jobMap, durMap, registry, ctx, reply, gone,
                   dispatched, cancelVars, restarts>>

\* context.WithCancel + runregistry.Register.  A finite task's context is a
\* child of the request's, so it is born cancelled if the client has left.
Register(r) ==
    /\ pc[r] = "register"
    /\ ctx' = [ctx EXCEPT ![r] = IF ~LongRunning(r) /\ r \in gone
                                 THEN "cancelled" ELSE "live"]
    /\ registry' = registry \cup {r}
    /\ Goto(r, "dispatch")
    /\ UNCHANGED <<rmap, mu, jobMap, durMap, ledger, reply, gone, dispatched,
                   cancelVars, restarts>>

-----------------------------------------------------------------------------
(***************************************************************************)
(* The routers' Dispatch bodies                                            *)
(***************************************************************************)

\* CampaignSwarm / ResearchBrief / CodeAudit: bill, then the terminal entry.
\* None of them looks at its context.
OneShotBill(r) ==
    /\ pc[r] = "dispatch"
    /\ env.skuOf[r] = "oneshot"
    /\ dispatched' = dispatched \cup {r}
    /\ Append1(r, "bill")
    /\ Goto(r, "complete")
    /\ UNCHANGED <<rmap, mu, jobMap, durMap, registry, ctx, reply, gone,
                   cancelVars, restarts>>

OneShotComplete(r) ==
    /\ pc[r] = "complete"
    /\ Append1(r, "complete")
    /\ reply' = [reply EXCEPT ![r] = OK(r)]
    /\ Goto(r, "cleanup")
    /\ UNCHANGED <<rmap, mu, jobMap, durMap, registry, ctx, gone, dispatched,
                   cancelVars, restarts>>

\* TriageWatch: one bill entry, nil, and Handle returns leaving the
\* registration and the context in place.
TriageDispatch(r) ==
    /\ pc[r] = "dispatch"
    /\ LongRunning(r)
    /\ dispatched' = dispatched \cup {r}
    /\ Append1(r, "bill")
    /\ Return(r, OK(r))
    /\ UNCHANGED <<rmap, mu, jobMap, durMap, registry, ctx, gone, cancelVars,
                   restarts>>

\* Bug: the failed subscription stays registered.
LongRunningFails_noUnregister(r) ==
    /\ pc[r] = "dispatch"
    /\ LongRunning(r)
    /\ dispatched' = dispatched \cup {r}
    /\ ctx' = [ctx EXCEPT ![r] = "cancelled"]
    /\ Goto(r, "failed")
    /\ UNCHANGED <<rmap, mu, jobMap, durMap, ledger, registry, reply, gone,
                   cancelVars, restarts>>

\* A long-running router that cannot wire its worker up returns an error:
\* Handle cancels the context and unregisters, in that order.
LongRunningFails(r) ==
    /\ pc[r] = "dispatch"
    /\ LongRunning(r)
    /\ dispatched' = dispatched \cup {r}
    /\ ctx' = [ctx EXCEPT ![r] = "cancelled"]
    /\ registry' = registry \ {r}
    /\ Goto(r, "failed")
    /\ UNCHANGED <<rmap, mu, jobMap, durMap, ledger, reply, gone, cancelVars,
                   restarts>>

\* ShellDelegateRouter: inputs.node and inputs.cmd are required; then the
\* "dispatch" entry, then the SSH primitive.
DelegateDispatch(r) ==
    /\ pc[r] = "dispatch"
    /\ env.skuOf[r] = "delegate"
    /\ dispatched' = dispatched \cup {r}
    /\ \/ /\ Goto(r, "failed")
          /\ UNCHANGED ledger
       \/ /\ Append1(r, "dispatch")
          /\ Goto(r, "delegate")
    /\ UNCHANGED <<rmap, mu, jobMap, durMap, registry, ctx, reply, gone,
                   cancelVars, restarts>>

\* What the SSH primitive hands back: a dial error yields no entry, a run
\* yields one "ssh:" entry, ok or error; only a transport error is a Go error.
DelegateOutcome(r) ==
    \/ /\ \/ Append1(r, "ssh-ok") \/ Append1(r, "ssh-error")
       /\ reply' = [reply EXCEPT ![r] = OK(r)]
       /\ Goto(r, "cleanup")
    \/ /\ UNCHANGED ledger \/ Append1(r, "ssh-error")
       /\ Goto(r, "transport")
       /\ UNCHANGED reply

\* The remote command ends by itself, whenever it likes, or never.
DelegateReturn(r) ==
    /\ pc[r] = "delegate"
    /\ ctx[r] = "live"
    /\ DelegateOutcome(r)
    /\ UNCHANGED <<rmap, mu, jobMap, durMap, registry, ctx, gone, dispatched,
                   cancelVars, restarts>>

\* The context is cancelled: RunWith signals the remote side and returns
\* ctx.Err(), unless the command's own end wins the select.  Or it never returns:
\* the drain after the signal, NewSession and the handshake do not watch the
\* context, so no fairness is assumed of this action.
DelegateInterrupted(r) ==
    /\ pc[r] = "delegate"
    /\ ctx[r] = "cancelled"
    /\ DelegateOutcome(r)
    /\ UNCHANGED <<rmap, mu, jobMap, durMap, registry, ctx, gone, dispatched,
                   cancelVars, restarts>>

DelegateTransportError(r) ==
    /\ pc[r] = "transport"
    /\ Append1(r, "transport-error")
    /\ Goto(r, "failed")
    /\ UNCHANGED <<rmap, mu, jobMap, durMap, registry, ctx, reply, gone,
                   dispatched, cancelVars, restarts>>

-----------------------------------------------------------------------------
(***************************************************************************)
(* The end of Handle                                                       *)
(***************************************************************************)

DispatchFailed(r) ==
    /\ pc[r] = "failed"
    /\ Append1(r, "dispatch-failed")
    /\ \E code \in {"invalid", "internal"} :
         reply' = [reply EXCEPT ![r] = Failure(code)]
    /\ Goto(r, IF LongRunning(r) THEN "done" ELSE "cleanup")
    /\ UNCHANGED <<rmap, mu, jobMap, durMap, registry, ctx, gone, dispatched,
                   cancelVars, restarts>>

\* The deferred calls of a finite task: Unregister, then cancel.
Cleanup(r) ==
    /\ pc[r] = "cleanup"
    /\ registry' = registry \ {r}
    /\ ctx' = [ctx EXCEPT ![r] = "cancelled"]
    /\ Goto(r, "done")
    /\ UNCHANGED <<rmap, mu, jobMap, durMap, ledger, reply, gone, dispatched,
                   cancelVars, restarts>>

-----------------------------------------------------------------------------
(***************************************************************************)
(* The environment of a call                                               *)
(***************************************************************************)

\* net/http cancels the request context when the client disconnects; a
\* finite task's context is derived from it, a long-running one's is not.
ClientGone(r) ==
    /\ Active(r)
    /\ r \in env.leavers \ gone
    /\ gone' = gone \cup {r}
    /\ ctx' = [ctx EXCEPT ![r] = IF @ = "live" /\ ~LongRunning(r)
                                 THEN "cancelled" ELSE @]
    /\ UNCHANGED <<submitVars, durMap, ledger, registry, cancelVars, restarts>>

\* Bug: the registration is removed and its cancel func dropped.
CancelLookup_noInvoke(c) ==
    /\ cpc[c] = "idle" /\ c \in env.cancels
    /\ \E t \in Reqs :
         /\ ctarget' = [ctarget EXCEPT ![c] = t]
         /\ cres' = [cres EXCEPT ![c] = t \in registry]
         /\ registry' = registry \ {t}
    /\ cpc' = [cpc EXCEPT ![c] = "done"]
    /\ UNCHANGED <<submitVars, durMap, ledger, ctx, gone, restarts>>

\* Registry.Cancel: look the task up and delete it under the registry lock...
CancelLookup(c) ==
    /\ cpc[c] = "idle" /\ c \in env.cancels
    /\ \E t \in Reqs :
         /\ ctarget' = [ctarget EXCEPT ![c] = t]
         /\ cres' = [cres EXCEPT ![c] = t \in registry]
         /\ cpc' = [cpc EXCEPT ![c] = IF t \in registry THEN "invoke" ELSE "done"]
         /\ registry' = registry \ {t}
    /\ UNCHANGED <<submitVars, durMap, ledger, ctx, gone, restarts>>

\* ... and call the cancel func after unlocking.
CancelInvoke(c) ==
    /\ cpc[c] = "invoke"
    /\ ctx' = [ctx EXCEPT ![ctarget[c]] = IF @ = "live" THEN "cancelled" ELSE @]
    /\ cpc' = [cpc EXCEPT ![c] = "done"]
    /\ UNCHANGED <<submitVars, durMap, ledger, registry, gone, ctarget, cres,
                   restarts>>

\* The page cache reaches the disk: writeCloudJobMap never calls fsync.
WriteBack ==
    /\ env.powerFails
    /\ durMap # jobMap
    /\ durMap' = jobMap
    /\ UNCHANGED <<submitVars, ledger, registry, ctx, gone, cancelVars, restarts>>

\* The gateway process ends (SIGKILL, or SIGTERM with calls still in flight
\* when the shutdown timeout expires) and launchd starts a new one.  Calls,
\* the registry, the contexts and the mutex die; files stay.
Restart ==
    /\ restarts < env.maxRestarts
    /\ restarts' = restarts + 1
    /\ pc' = [r \in Reqs |-> IF Active(r) THEN "dead" ELSE pc[r]]
    /\ mu' = None
    /\ registry' = {}
    /\ ctx' = [r \in Reqs |-> IF ctx[r] = "live" THEN "lost" ELSE ctx[r]]
    /\ cpc' = [c \in Cancellers |-> IF cpc[c] = "invoke" THEN "done" ELSE cpc[c]]
    /\ \/ UNCHANGED jobMap
       \/ env.powerFails /\ jobMap' = durMap
    /\ rmap' = [r \in Reqs |-> EmptyMap]
    /\ UNCHANGED <<durMap, ledger, reply, gone, dispatched, ctarget, cres>>

-----------------------------------------------------------------------------
\* What the gateway itself does for call r, the remote command aside.
HandleStep(r) ==
    \/ Lookup(r) \/ Mark(r) \/ RecordBegin(r) \/ RecordWrite(r)
    \/ PersistFailed(r) \/ Register(r)
    \/ OneShotBill(r) \/ OneShotComplete(r)
    \/ TriageDispatch(r) \/ LongRunningFails(r)
    \/ DelegateDispatch(r) \/ DelegateInterrupted(r) \/ DelegateTransportError(r)
    \/ DispatchFailed(r) \/ Cleanup(r)

Next ==
    /\ \/ \E r \in Reqs : \/ Arrive(r) \/ HandleStep(r) \/ DelegateReturn(r)
                          \/ ClientGone(r)
       \/ \E c \in Cancellers : CancelLookup(c) \/ CancelInvoke(c)
       \/ WriteBack
       \/ Restart
    /\ UNCHANGED env

Spec == Init /\ [][Next]_vars

\* The Go scheduler runs every runnable goroutine and a mutex waiter gets
\* the lock; nothing makes clients call, disconnect, or the SSH client return.
Fairness == /\ \A r \in Reqs : WF_vars(pc[r] # "delegate" /\ HandleStep(r) /\ UNCHANGED env)
            /\ \A c \in Cancellers : WF_vars(CancelInvoke(c) /\ UNCHANGED env)

FairSpec == Spec /\ Fairness

-----------------------------------------------------------------------------
(***************************************************************************)
(* Properties                                                              *)
(***************************************************************************)

\* The customer plane serialises the calls of one job, and the map file can
\* be read and written: what the idempotency check needs.
Calm == ~env.overlapOK /\ ~env.diskFails /\ ~env.powerFails

\* "cloud_job_id is the idempotency anchor": no job is dispatched twice.
AtMostOnceDispatch ==
    \A t1, t2 \in dispatched : JobOf[t1] = JobOf[t2] => t1 = t2

\* Serialised calls of a job are dispatched at most once, whatever retries,
\* disconnects and gateway restarts happen: the idempotency check of Handle.
SerialCallsDispatchOnce == Calm => AtMostOnceDispatch

\* All successful answers to serialised calls for one cloud_job_id carry the same task_id, and
\* it is the task the map file names: what the customer plane polls by.
SameTaskForRetries ==
    Calm => \A r \in Reqs : reply[r].code = "ok" => reply[r].task = jobMap[JobOf[r]]

\* recordCloudJob is a read-modify-write of the whole file; calls for
\* different jobs, or overlapping ones for one job, never drop each other's
\* pair while the file can be read and survives restarts.
NoLostMapping ==
    [][~env.diskFails /\ ~env.powerFails =>
         \A j \in Jobs : jobMap[j] # None => jobMap'[j] # None]_vars

\* The registry holds exactly what CancelTask can still end.  It has only tasks
\* being dispatched and subscriptions that were acknowledged, so no finished or
\* failed call leaks its registration; and an acknowledged subscription that
\* is live is in it, or a CancelTask has taken it and is about to cancel it.
RegistryIsExact ==
    /\ \A t \in registry :
           \/ pc[t] \in Dispatching
           \/ LongRunning(t) /\ pc[t] = "done" /\ reply[t] = OK(t) /\ ctx[t] = "live"
    /\ \A t \in Reqs : LongRunning(t) /\ pc[t] = "done" /\ ctx[t] = "live" =>
           \/ t \in registry
           \/ \E c \in Cancellers : cpc[c] = "invoke" /\ ctarget[c] = t

\* Calls end.  Every call is answered (or its process dies) unless it hangs in the
\* SSH client, which only a delegate does: the mutex is always given back, on the
\* error paths too, and a delegate the SSH client has left ends.  A hung delegate
\* holds up no other call.  A CancelTask that answered true has reached the
\* task's context in the end, a task's own Unregister racing it or not.
CallsEnd ==
    /\ \A r \in Reqs : (Active(r) /\ pc[r] # "delegate") ~> (~Active(r) \/ pc[r] = "delegate")
    /\ \A c \in Cancellers : cres[c] ~> (cres[c] /\ ctx[ctarget[c]] # "live")

-----------------------------------------------------------------------------
(***************************************************************************)
(* The inductive invariant behind AtMostOnceDispatch and                   *)
(* SameTaskForRetries (proved in SubmitJob_proof when Calm).               *)
(***************************************************************************)

\* From its mapping's record on, a task's router may be or have been called.
Committed(t) == t \in dispatched \/ pc[t] \in {"register"} \cup Dispatching

\* The writer holds the lock, and what it read is still what is on disk.
WriterIsCurrent == \A r \in Reqs : pc[r] = "write" => mu = r /\ rmap[r] = jobMap

\* At most one call of a job is between lookup and record.
WindowExclusive ==
    \A r, q \in Reqs :
        JobOf[r] = JobOf[q] /\ pc[r] \in Window /\ pc[q] \in Window => r = q

\* A call past the lookup still has no rival mapping ...
FreshInWindow ==
    \A r \in Reqs : pc[r] \in {"mark", "record", "write"} => jobMap[JobOf[r]] = None

\* ... and every committed task is the one its job maps to.
CommittedIsMapped == \A t \in Reqs : Committed(t) => jobMap[JobOf[t]] = t

AnswersName == \A r \in Reqs : reply[r].code = "ok" =>
                  reply[r].task = jobMap[JobOf[r]] /\ reply[r].task # None

NoPersistFailure == \A r \in Reqs : pc[r] # "persistfail"

JobInv == /\ WriterIsCurrent
          /\ WindowExclusive
          /\ FreshInWindow
          /\ CommittedIsMapped
          /\ AnswersName
          /\ NoPersistFailure
=============================================================================
