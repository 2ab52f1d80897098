-------------------------- MODULE SubmitJob_proof --------------------------
(***************************************************************************)
(* Proofs about SubmitJob for every set of calls, jobs and cancellers.     *)
(***************************************************************************)
EXTENDS SubmitJob, TLAPS

(***************************************************************************)
(* Type correctness                                                        *)
(***************************************************************************)

\* Handle's and CancelTask's state keeps its type: one step per action.
LEMMA TypeInit == Init => TypeOK
<1> SUFFICES ASSUME Init PROVE TypeOK
  OBVIOUS
<1>1. env \in EnvRecords
  BY ConstantsAssumption DEF Init
<1>2. restarts \in 0..env.maxRestarts
  BY <1>1 DEF Init, EnvRecords
<1> QED
  BY <1>1, <1>2, ConstantsAssumption
  DEF Init, TypeOK, PCs, JobMap, EmptyMap, Kinds, Ctxs, Replies, Failure

\* What a delegate's end leaves behind is well typed.
LEMMA OutcomeTyped ==
  ASSUME TypeOK, NEW r \in Reqs, DelegateOutcome(r)
  PROVE  /\ pc' \in [Reqs -> PCs]
         /\ ledger' \in [Reqs -> Seq(Kinds)]
         /\ reply' \in [Reqs -> Replies]
<1>1. pc' \in [Reqs -> PCs]
  BY DEF DelegateOutcome, Goto, TypeOK, PCs
<1>2. ledger' \in [Reqs -> Seq(Kinds)]
  <2>1. CASE Append1(r, "ssh-ok")
    BY <2>1 DEF Append1, TypeOK, Kinds
  <2>2. CASE Append1(r, "ssh-error")
    BY <2>2 DEF Append1, TypeOK, Kinds
  <2>3. CASE UNCHANGED ledger
    BY <2>3 DEF TypeOK
  <2> QED
    BY <2>1, <2>2, <2>3 DEF DelegateOutcome
<1>3. reply' \in [Reqs -> Replies]
  <2>1. CASE reply' = [reply EXCEPT ![r] = OK(r)]
    BY <2>1 DEF OK, TypeOK, Replies
  <2>2. CASE UNCHANGED reply
    BY <2>2 DEF TypeOK
  <2> QED
    BY <2>1, <2>2 DEF DelegateOutcome
<1> QED
  BY <1>1, <1>2, <1>3

\* Every step of Handle keeps the types.
LEMMA HandleTyped ==
  ASSUME TypeOK, NEW r \in Reqs, HandleStep(r), UNCHANGED env
  PROVE  TypeOK'
<1> USE ConstantsAssumption
<1>1. CASE Lookup(r)
  <2>1. pc' \in [Reqs -> PCs]
    <3>1. Goto(r, "done") \/ Goto(r, "mark")
      BY <1>1 DEF Lookup, Return
    <3> QED
      BY <3>1 DEF Goto, TypeOK, PCs
  <2>2. reply' \in [Reqs -> Replies]
    BY <1>1 DEF Lookup, Return, OK, Failure, TypeOK, Replies, JobMap
  <2> QED
    BY <1>1, <2>1, <2>2 DEF Lookup, TypeOK, cancelVars
<1>2. CASE Mark(r)
  BY <1>2 DEF Mark, Goto, Append1, TypeOK, PCs, Kinds, cancelVars
<1>3. CASE RecordBegin(r)
  <2>1. pc' \in [Reqs -> PCs]
    BY <1>3 DEF RecordBegin, Goto, TypeOK, PCs
  <2>2. rmap' \in [Reqs -> JobMap]
    <3>1. CASE rmap' = [rmap EXCEPT ![r] = jobMap]
      BY <3>1 DEF TypeOK
    <3>2. CASE rmap' = [rmap EXCEPT ![r] = EmptyMap]
      BY <3>2 DEF TypeOK, JobMap, EmptyMap
    <3> QED
      BY <1>3, <3>1, <3>2 DEF RecordBegin
  <2> QED
    BY <1>3, <2>1, <2>2 DEF RecordBegin, TypeOK, cancelVars
<1>4. CASE RecordWrite(r)
  <2>1. pc' \in [Reqs -> PCs]
    BY <1>4 DEF RecordWrite, Goto, TypeOK, PCs
  <2>2. rmap' \in [Reqs -> JobMap]
    BY <1>4 DEF RecordWrite, TypeOK, JobMap, EmptyMap
  <2>3. jobMap' \in JobMap
    <3>1. CASE jobMap' = [rmap[r] EXCEPT ![JobOf[r]] = r]
      BY <3>1 DEF TypeOK, JobMap
    <3>2. CASE UNCHANGED jobMap
      BY <3>2 DEF TypeOK
    <3> QED
      BY <1>4, <3>1, <3>2 DEF RecordWrite
  <2> QED
    BY <1>4, <2>1, <2>2, <2>3 DEF RecordWrite, TypeOK, cancelVars
<1>5. CASE PersistFailed(r)
  BY <1>5 DEF PersistFailed, Goto, Append1, TypeOK, PCs, Kinds, cancelVars
<1>6. CASE Register(r)
  BY <1>6 DEF Register, Goto, TypeOK, PCs, Ctxs, cancelVars
<1>7. CASE OneShotBill(r)
  BY <1>7 DEF OneShotBill, Goto, Append1, TypeOK, PCs, Kinds, cancelVars
<1>8. CASE OneShotComplete(r)
  BY <1>8 DEF OneShotComplete, Goto, Append1, OK, TypeOK, PCs, Kinds, Replies,
              cancelVars
<1>9. CASE TriageDispatch(r)
  BY <1>9 DEF TriageDispatch, Return, Goto, Append1, OK, TypeOK, PCs, Kinds,
              Replies, cancelVars
<1>10. CASE LongRunningFails(r)
  BY <1>10 DEF LongRunningFails, Goto, TypeOK, PCs, Ctxs, cancelVars
<1>11. CASE DelegateDispatch(r)
  <2>1. pc' \in [Reqs -> PCs]
    BY <1>11 DEF DelegateDispatch, Goto, TypeOK, PCs
  <2>2. ledger' \in [Reqs -> Seq(Kinds)]
    <3>1. CASE Append1(r, "dispatch")
      BY <3>1 DEF Append1, TypeOK, Kinds
    <3>2. CASE UNCHANGED ledger
      BY <3>2 DEF TypeOK
    <3> QED
      BY <1>11, <3>1, <3>2 DEF DelegateDispatch
  <2> QED
    BY <1>11, <2>1, <2>2 DEF DelegateDispatch, TypeOK, cancelVars
<1>12. CASE DelegateInterrupted(r)
  BY <1>12, OutcomeTyped DEF DelegateInterrupted, TypeOK, cancelVars
<1>13. CASE DelegateTransportError(r)
  BY <1>13 DEF DelegateTransportError, Goto, Append1, TypeOK, PCs, Kinds,
               cancelVars
<1>14. CASE DispatchFailed(r)
  BY <1>14 DEF DispatchFailed, Goto, Append1, Failure, TypeOK, PCs, Kinds,
               Replies, cancelVars
<1>15. CASE Cleanup(r)
  BY <1>15 DEF Cleanup, Goto, TypeOK, PCs, Ctxs, cancelVars
<1> QED
  BY <1>1, <1>2, <1>3, <1>4, <1>5, <1>6, <1>7, <1>8, <1>9, <1>10, <1>11,
     <1>12, <1>13, <1>14, <1>15 DEF HandleStep

\* Every step keeps the types.
LEMMA TypeStep == TypeOK /\ [Next]_vars => TypeOK'
<1> SUFFICES ASSUME TypeOK, [Next]_vars PROVE TypeOK'
  OBVIOUS
<1> USE ConstantsAssumption
<1>0. UNCHANGED env
  BY DEF Next, vars
<1>1. ASSUME NEW r \in Reqs, Arrive(r) PROVE TypeOK'
  <2>1. pc' \in [Reqs -> PCs]
    BY <1>0, <1>1 DEF Arrive, Return, Goto, TypeOK, PCs
  <2>2. reply' \in [Reqs -> Replies]
    <3>1. CASE Return(r, Failure("invalid"))
      BY <3>1 DEF Return, Failure, TypeOK, Replies
    <3>2. CASE UNCHANGED reply
      BY <3>2 DEF TypeOK
    <3> QED
      BY <1>0, <1>1, <3>1, <3>2 DEF Arrive
  <2> QED
    BY <1>0, <1>1, <2>1, <2>2 DEF Arrive, TypeOK, cancelVars
<1>2. ASSUME NEW r \in Reqs, HandleStep(r) PROVE TypeOK'
  BY <1>0, <1>2, HandleTyped
<1>3. ASSUME NEW r \in Reqs, DelegateReturn(r) PROVE TypeOK'
  BY <1>0, <1>3, OutcomeTyped DEF DelegateReturn, TypeOK, cancelVars
<1>4. ASSUME NEW r \in Reqs, ClientGone(r) PROVE TypeOK'
  BY <1>0, <1>4 DEF ClientGone, TypeOK, Ctxs, submitVars, cancelVars
<1>5. ASSUME NEW c \in Cancellers, CancelLookup(c) PROVE TypeOK'
  BY <1>0, <1>5 DEF CancelLookup, TypeOK, submitVars
<1>6. ASSUME NEW c \in Cancellers, CancelInvoke(c) PROVE TypeOK'
  BY <1>0, <1>6 DEF CancelInvoke, TypeOK, Ctxs, submitVars
<1>7. CASE WriteBack
  BY <1>0, <1>7 DEF WriteBack, TypeOK, submitVars, cancelVars
<1>8. CASE Restart
  <2>1. restarts' \in 0..env.maxRestarts
    BY <1>8 DEF Restart, TypeOK, EnvRecords
  <2> QED
    BY <1>0, <1>8, <2>1 DEF Restart, TypeOK, PCs, Ctxs, JobMap, EmptyMap
<1>9. CASE UNCHANGED vars
  BY <1>9 DEF vars, TypeOK
<1> QED
  BY <1>1, <1>2, <1>3, <1>4, <1>5, <1>6, <1>7, <1>8, <1>9 DEF Next

\* Every reachable state of the gateway is well typed.
THEOREM TypeCorrect == Spec => []TypeOK
<1>1. Init => TypeOK
  BY TypeInit
<1>2. TypeOK /\ [Next]_vars => TypeOK'
  BY TypeStep
<1> QED
  BY <1>1, <1>2, PTL DEF Spec

-----------------------------------------------------------------------------
(***************************************************************************)
(* At most one dispatch per cloud_job_id                                   *)
(***************************************************************************)

\* Before the first call there is nothing to agree on.
LEMMA JobInit == Init => JobInv
  BY ConstantsAssumption
  DEF Init, JobInv, WriterIsCurrent, WindowExclusive, FreshInWindow,
      CommittedIsMapped, AnswersName, NoPersistFailure, Committed, Window,
      Dispatching, Failure

\* A step of a committed call: it stays committed (or is over), answers only
\* with its own id, and leaves the map and the lock alone.
LEMMA CommittedStep ==
  ASSUME TypeOK, JobInv, NEW r \in Reqs,
         pc[r] \in {"register"} \cup Dispatching,
         NEW l \in Dispatching \cup {"done"}, Goto(r, l),
         UNCHANGED <<jobMap, rmap, mu>>,
         dispatched' \subseteq dispatched \cup {r},
         reply' \in [Reqs -> Replies],
         \A q \in Reqs : reply'[q] = reply[q]
                         \/ (q = r /\ (reply'[q].code # "ok" \/ reply'[q] = OK(r)))
  PROVE  JobInv'
<1> USE ConstantsAssumption
<1>1. \A q \in Reqs : pc'[q] = IF q = r THEN l ELSE pc[q]
  BY DEF Goto, TypeOK
<1>2. l \notin Window /\ l # "persistfail" /\ l # "write"
  BY DEF Dispatching, Window
<1>3. jobMap[JobOf[r]] = r
  BY DEF JobInv, CommittedIsMapped, Committed
<1>4. WriterIsCurrent'
  BY <1>1, <1>2 DEF JobInv, WriterIsCurrent
<1>5. WindowExclusive'
  BY <1>1, <1>2 DEF JobInv, WindowExclusive
<1>6. FreshInWindow'
  BY <1>1, <1>2 DEF JobInv, FreshInWindow, Window
<1>7. CommittedIsMapped'
  BY <1>1, <1>3 DEF JobInv, CommittedIsMapped, Committed
<1>8. AnswersName'
  BY <1>3 DEF JobInv, AnswersName, OK
<1>9. NoPersistFailure'
  BY <1>1, <1>2 DEF JobInv, NoPersistFailure
<1> QED
  BY <1>4, <1>5, <1>6, <1>7, <1>8, <1>9 DEF JobInv

\* The steps of Handle after the mapping is on disk.
LEMMA DispatchKeepsJobInv ==
  ASSUME TypeOK, TypeOK', JobInv, NEW r \in Reqs,
         \/ Register(r) \/ OneShotBill(r) \/ OneShotComplete(r)
         \/ TriageDispatch(r) \/ LongRunningFails(r) \/ DelegateDispatch(r)
         \/ DelegateInterrupted(r) \/ DelegateReturn(r)
         \/ DelegateTransportError(r) \/ DispatchFailed(r) \/ Cleanup(r)
  PROVE  JobInv'
<1>1. PICK l \in Dispatching \cup {"done"} : Goto(r, l)
  BY DEF Register, OneShotBill, OneShotComplete, TriageDispatch, Return,
         LongRunningFails, DelegateDispatch, DelegateInterrupted,
         DelegateReturn, DelegateOutcome, DelegateTransportError,
         DispatchFailed, Cleanup, Dispatching
<1>2. pc[r] \in {"register"} \cup Dispatching
  BY DEF Register, OneShotBill, OneShotComplete, TriageDispatch,
         LongRunningFails, DelegateDispatch, DelegateInterrupted,
         DelegateReturn, DelegateTransportError, DispatchFailed, Cleanup,
         Dispatching
<1>3. UNCHANGED <<jobMap, rmap, mu>>
  BY DEF Register, OneShotBill, OneShotComplete, TriageDispatch,
         LongRunningFails, DelegateDispatch, DelegateInterrupted,
         DelegateReturn, DelegateTransportError, DispatchFailed, Cleanup
<1>4. dispatched' \subseteq dispatched \cup {r}
  BY DEF Register, OneShotBill, OneShotComplete, TriageDispatch,
         LongRunningFails, DelegateDispatch, DelegateInterrupted,
         DelegateReturn, DelegateTransportError, DispatchFailed, Cleanup
<1>5. \/ reply' = reply
      \/ reply' = [reply EXCEPT ![r] = OK(r)]
      \/ \E code \in {"invalid", "internal"} :
            reply' = [reply EXCEPT ![r] = Failure(code)]
  BY DEF Register, OneShotBill, OneShotComplete, TriageDispatch, Return,
         LongRunningFails, DelegateDispatch, DelegateInterrupted,
         DelegateReturn, DelegateOutcome, DelegateTransportError,
         DispatchFailed, Cleanup
<1>6. reply' \in [Reqs -> Replies]
  BY DEF TypeOK
<1>7. \A q \in Reqs : reply'[q] = reply[q]
         \/ (q = r /\ (reply'[q].code # "ok" \/ reply'[q] = OK(r)))
  <2>1. CASE reply' = reply
    BY <2>1
  <2>2. CASE reply' = [reply EXCEPT ![r] = OK(r)]
    BY <2>2 DEF TypeOK
  <2>3. ASSUME NEW code \in {"invalid", "internal"},
               reply' = [reply EXCEPT ![r] = Failure(code)]
        PROVE  \A q \in Reqs : reply'[q] = reply[q]
                 \/ (q = r /\ (reply'[q].code # "ok" \/ reply'[q] = OK(r)))
    BY <2>3 DEF TypeOK, Failure
  <2> QED
    BY <1>5, <2>1, <2>2, <2>3
<1> QED
  BY <1>1, <1>2, <1>3, <1>4, <1>6, <1>7, CommittedStep

\* The steps of Handle up to the record, where the argument is.
LEMMA WindowKeepsJobInv ==
  ASSUME TypeOK, JobInv, Calm, NEW r \in Reqs,
         \/ Arrive(r) \/ Lookup(r) \/ Mark(r) \/ RecordBegin(r)
         \/ RecordWrite(r) \/ PersistFailed(r)
  PROVE  JobInv'
<1> USE ConstantsAssumption
<1>1. CASE Arrive(r)
  <2>1. \A q \in Reqs : JobOf[q] = JobOf[r] => pc[q] \notin Window
    BY <1>1 DEF Arrive, Calm
  <2>2. PICK l \in {"lookup", "done"} : Goto(r, l)
    BY <1>1 DEF Arrive, Return
  <2>3. \A q \in Reqs : pc'[q] = IF q = r THEN l ELSE pc[q]
    BY <2>2 DEF Goto, TypeOK
  <2>4. UNCHANGED <<jobMap, rmap, mu, dispatched>>
    BY <1>1 DEF Arrive
  <2>5. \A q \in Reqs : reply'[q] = reply[q] \/ reply'[q].code # "ok"
    <3>1. CASE reply' = reply
      BY <3>1
    <3>2. CASE reply' = [reply EXCEPT ![r] = Failure("invalid")]
      BY <3>2 DEF Failure, TypeOK
    <3> QED
      BY <1>1, <3>1, <3>2 DEF Arrive, Return
  <2>6. WriterIsCurrent'
    BY <2>2, <2>3, <2>4 DEF JobInv, WriterIsCurrent
  <2>7. WindowExclusive'
    BY <2>1, <2>3 DEF JobInv, WindowExclusive
  <2>8. FreshInWindow'
    BY <2>2, <2>3, <2>4 DEF JobInv, FreshInWindow
  <2>9. CommittedIsMapped'
    BY <2>2, <2>3, <2>4 DEF JobInv, CommittedIsMapped, Committed, Dispatching
  <2>10. AnswersName'
    BY <2>4, <2>5 DEF JobInv, AnswersName
  <2>11. NoPersistFailure'
    BY <2>2, <2>3 DEF JobInv, NoPersistFailure
  <2> QED
    BY <2>6, <2>7, <2>8, <2>9, <2>10, <2>11 DEF JobInv
<1>2. CASE Lookup(r)
  <2>1. pc[r] = "lookup" /\ UNCHANGED <<jobMap, rmap, mu, dispatched>>
    BY <1>2 DEF Lookup
  <2>2. PICK l \in {"mark", "done"} :
           Goto(r, l) /\ (l = "mark" => jobMap[JobOf[r]] = None)
    BY <1>2 DEF Lookup, Return, Calm
  <2>3. \A q \in Reqs : pc'[q] = IF q = r THEN l ELSE pc[q]
    BY <2>2 DEF Goto, TypeOK
  <2>4. \A q \in Reqs : reply'[q] = reply[q] \/ reply'[q].code # "ok"
          \/ (q = r /\ reply'[q] = OK(jobMap[JobOf[r]]) /\ jobMap[JobOf[r]] # None)
    <3>1. CASE reply' = reply
      BY <3>1
    <3>2. CASE reply' = [reply EXCEPT ![r] = Failure("invalid")]
      BY <3>2 DEF Failure, TypeOK
    <3>3. CASE /\ reply' = [reply EXCEPT ![r] = OK(jobMap[JobOf[r]])]
               /\ jobMap[JobOf[r]] # None
      BY <3>3 DEF TypeOK
    <3> QED
      BY <1>2, <3>1, <3>2, <3>3 DEF Lookup, Return
  <2>5. WriterIsCurrent'
    BY <2>1, <2>2, <2>3 DEF JobInv, WriterIsCurrent
  <2>6. WindowExclusive'
    BY <2>1, <2>3 DEF JobInv, WindowExclusive, Window
  <2>7. FreshInWindow'
    BY <2>1, <2>2, <2>3 DEF JobInv, FreshInWindow
  <2>8. CommittedIsMapped'
    BY <2>1, <2>2, <2>3 DEF JobInv, CommittedIsMapped, Committed, Dispatching
  <2>9. AnswersName'
    BY <2>1, <2>4 DEF JobInv, AnswersName, OK
  <2>10. NoPersistFailure'
    BY <2>2, <2>3 DEF JobInv, NoPersistFailure
  <2> QED
    BY <2>5, <2>6, <2>7, <2>8, <2>9, <2>10 DEF JobInv
<1>3. CASE Mark(r)
  <2>1. /\ pc[r] = "mark" /\ UNCHANGED <<jobMap, rmap, mu, dispatched, reply>>
        /\ \A q \in Reqs : pc'[q] = IF q = r THEN "record" ELSE pc[q]
    BY <1>3 DEF Mark, Goto, TypeOK
  <2> QED
    BY <2>1 DEF JobInv, WriterIsCurrent, WindowExclusive, Window, FreshInWindow,
                CommittedIsMapped, Committed, Dispatching, AnswersName,
                NoPersistFailure
<1>4. CASE RecordBegin(r)
  <2>1. /\ pc[r] = "record" /\ mu = None /\ mu' = r
        /\ UNCHANGED <<jobMap, dispatched, reply>>
        /\ \A q \in Reqs : pc'[q] = IF q = r THEN "write" ELSE pc[q]
    BY <1>4 DEF RecordBegin, Goto, TypeOK
  <2>2. rmap' = [rmap EXCEPT ![r] = jobMap]
    BY <1>4 DEF RecordBegin, Calm
  <2>3. WriterIsCurrent'
    <3>1. \A q \in Reqs : pc[q] # "write"
      BY <2>1 DEF JobInv, WriterIsCurrent
    <3> QED
      BY <2>1, <2>2, <3>1 DEF WriterIsCurrent, TypeOK
  <2> QED
    BY <2>1, <2>3 DEF JobInv, WindowExclusive, Window, FreshInWindow,
                CommittedIsMapped, Committed, Dispatching, AnswersName,
                NoPersistFailure
<1>5. CASE RecordWrite(r)
  <2>1. /\ pc[r] = "write" /\ UNCHANGED <<dispatched, reply>>
        /\ rmap' = [rmap EXCEPT ![r] = EmptyMap]
    BY <1>5 DEF RecordWrite
  <2>2. Goto(r, "register") /\ jobMap' = [rmap[r] EXCEPT ![JobOf[r]] = r]
    BY <1>5 DEF RecordWrite, Calm
  <2>3. \A q \in Reqs : pc'[q] = IF q = r THEN "register" ELSE pc[q]
    BY <2>2 DEF Goto, TypeOK
  <2>4. jobMap[JobOf[r]] = None /\ mu = r
    BY <2>1 DEF JobInv, FreshInWindow, WriterIsCurrent
  <2>5. \A j \in Jobs : jobMap'[j] = IF j = JobOf[r] THEN r ELSE jobMap[j]
    BY <2>1, <2>2 DEF JobInv, WriterIsCurrent, TypeOK, JobMap
  <2>6. WriterIsCurrent'
    BY <2>1, <2>3, <2>4 DEF JobInv, WriterIsCurrent
  <2>7. WindowExclusive'
    BY <2>3 DEF JobInv, WindowExclusive, Window
  <2>8. FreshInWindow'
    BY <2>1, <2>3, <2>5 DEF JobInv, FreshInWindow, WindowExclusive, Window
  <2>9. CommittedIsMapped'
    BY <2>1, <2>3, <2>4, <2>5 DEF JobInv, CommittedIsMapped, Committed
  <2>10. AnswersName'
    BY <2>1, <2>4, <2>5 DEF JobInv, AnswersName
  <2>11. NoPersistFailure'
    BY <2>3 DEF JobInv, NoPersistFailure
  <2> QED
    BY <2>6, <2>7, <2>8, <2>9, <2>10, <2>11 DEF JobInv
<1>6. CASE PersistFailed(r)
  BY <1>6 DEF PersistFailed, JobInv, NoPersistFailure
<1> QED
  BY <1>1, <1>2, <1>3, <1>4, <1>5, <1>6

\* Every step keeps JobInv when calls of a job are serialised and the disk works.
LEMMA JobStep == Calm /\ TypeOK /\ TypeOK' /\ JobInv /\ [Next]_vars => JobInv'
<1> SUFFICES ASSUME Calm, TypeOK, TypeOK', JobInv, [Next]_vars PROVE JobInv'
  OBVIOUS
<1> USE ConstantsAssumption
<1>1. ASSUME NEW r \in Reqs, Arrive(r) \/ HandleStep(r) \/ DelegateReturn(r)
      PROVE  JobInv'
  BY <1>1, WindowKeepsJobInv, DispatchKeepsJobInv DEF HandleStep
<1>2. CASE UNCHANGED <<pc, rmap, mu, jobMap, reply, dispatched>>
  BY <1>2 DEF JobInv, WriterIsCurrent, WindowExclusive, FreshInWindow,
              CommittedIsMapped, Committed, AnswersName, NoPersistFailure
<1>3. CASE Restart
  <2>1. /\ UNCHANGED <<jobMap, reply, dispatched>>
        /\ \A r \in Reqs : pc'[r] \in {"idle", "done", "dead"}
    BY <1>3 DEF Restart, Active, Calm
  <2> QED
    BY <2>1 DEF JobInv, WriterIsCurrent, WindowExclusive, FreshInWindow, Window,
                CommittedIsMapped, Committed, Dispatching, AnswersName,
                NoPersistFailure
<1>4. ASSUME NEW r \in Reqs, ClientGone(r) PROVE JobInv'
  BY <1>2, <1>4 DEF ClientGone, submitVars
<1>5. ASSUME NEW c \in Cancellers, CancelLookup(c) \/ CancelInvoke(c)
      PROVE  JobInv'
  BY <1>2, <1>5 DEF CancelLookup, CancelInvoke, submitVars
<1>6. CASE WriteBack
  BY <1>2, <1>6 DEF WriteBack, submitVars
<1>7. CASE UNCHANGED vars
  BY <1>2, <1>7 DEF vars
<1> QED
  BY <1>1, <1>3, <1>4, <1>5, <1>6, <1>7 DEF Next

\* With serialised calls per job and a working disk, the invariant holds.
THEOREM JobInvariant == Spec => [](Calm => JobInv)
<1>1. Init => JobInv
  BY JobInit
<1>2. TypeOK /\ TypeOK' /\ (Calm => JobInv) /\ [Next]_vars => (Calm => JobInv)'
  <2> SUFFICES ASSUME TypeOK, TypeOK', Calm => JobInv, [Next]_vars, Calm'
               PROVE  JobInv'
    OBVIOUS
  <2>1. UNCHANGED env
    BY DEF Next, vars
  <2>2. Calm
    BY <2>1 DEF Calm
  <2> QED
    BY <2>2, JobStep
<1> QED
  BY <1>1, <1>2, TypeCorrect, PTL DEF Spec

\* A cloud_job_id whose calls are serialised is dispatched at most once across
\* retries, disconnects and any number of gateway restarts.
THEOREM AtMostOnce == Spec => []SerialCallsDispatchOnce
<1>1. TypeOK /\ (Calm => JobInv) => SerialCallsDispatchOnce
  BY DEF TypeOK, JobInv, CommittedIsMapped, Committed, AtMostOnceDispatch,
         SerialCallsDispatchOnce
<1> QED
  BY <1>1, TypeCorrect, JobInvariant, PTL

\* Every successful answer for a cloud_job_id names the task on record.
THEOREM RetriesAgree == Spec => []SameTaskForRetries
<1>1. (Calm => JobInv) => SameTaskForRetries
  BY DEF JobInv, AnswersName, SameTaskForRetries
<1> QED
  BY <1>1, JobInvariant, PTL

-----------------------------------------------------------------------------
(***************************************************************************)
(* No mapping is lost                                                      *)
(***************************************************************************)

\* The map file can be read and written and survives restarts.
Steady == ~env.diskFails /\ ~env.powerFails

\* The writer holds the lock and what it read is what is on disk, also when calls
\* of one job overlap: only the writer changes the file.
LEMMA WriterStep ==
  ASSUME TypeOK, Steady, WriterIsCurrent, [Next]_vars
  PROVE  /\ WriterIsCurrent'
         /\ \A j \in Jobs : jobMap[j] # None => jobMap'[j] # None
<1> USE ConstantsAssumption
<1>1. ASSUME NEW r \in Reqs, RecordBegin(r)
      PROVE  WriterIsCurrent' /\ UNCHANGED jobMap
  <2>1. /\ mu = None /\ mu' = r /\ UNCHANGED jobMap /\ rmap' = [rmap EXCEPT ![r] = jobMap]
        /\ \A q \in Reqs : pc'[q] = IF q = r THEN "write" ELSE pc[q]
    BY <1>1 DEF RecordBegin, Steady, Goto, TypeOK
  <2>2. \A q \in Reqs : pc[q] # "write"
    BY <2>1 DEF WriterIsCurrent
  <2> QED
    BY <2>1, <2>2 DEF WriterIsCurrent, TypeOK
<1>2. ASSUME NEW r \in Reqs, RecordWrite(r)
      PROVE  /\ WriterIsCurrent'
             /\ \A j \in Jobs : jobMap[j] # None => jobMap'[j] # None
  <2>1. /\ pc[r] = "write" /\ mu = r /\ rmap[r] = jobMap
        /\ jobMap' = [rmap[r] EXCEPT ![JobOf[r]] = r] /\ Goto(r, "register")
    BY <1>2 DEF RecordWrite, Steady, WriterIsCurrent
  <2>2. \A q \in Reqs : pc'[q] # "write"
    BY <2>1 DEF Goto, TypeOK, WriterIsCurrent
  <2>3. \A j \in Jobs : jobMap'[j] = IF j = JobOf[r] THEN r ELSE jobMap[j]
    BY <2>1 DEF TypeOK, JobMap
  <2> QED
    BY <2>2, <2>3 DEF WriterIsCurrent
<1>3. ASSUME NEW r \in Reqs, NEW l \in PCs \ {"write"}, Goto(r, l), UNCHANGED <<rmap, mu, jobMap>>
      PROVE  WriterIsCurrent'
  <2>1. \A q \in Reqs : pc'[q] = "write" => pc[q] = "write"
    BY <1>3 DEF Goto, TypeOK
  <2> QED
    BY <1>3, <2>1 DEF WriterIsCurrent
<1>4. ASSUME NEW r \in Reqs, Arrive(r) \/ Lookup(r) \/ Mark(r) \/ PersistFailed(r)
      PROVE  WriterIsCurrent' /\ UNCHANGED jobMap
  <2>1. UNCHANGED <<rmap, mu, jobMap>>
    BY <1>4 DEF Arrive, Lookup, Mark, PersistFailed
  <2>2. PICK l \in PCs \ {"write"} : Goto(r, l)
    BY <1>4 DEF Arrive, Lookup, Mark, PersistFailed, Return, PCs
  <2> QED
    BY <1>3, <2>1, <2>2
<1>5. ASSUME NEW r \in Reqs,
             \/ Register(r) \/ OneShotBill(r) \/ OneShotComplete(r)
             \/ TriageDispatch(r) \/ LongRunningFails(r) \/ DelegateDispatch(r)
             \/ DelegateInterrupted(r) \/ DelegateReturn(r)
             \/ DelegateTransportError(r) \/ DispatchFailed(r) \/ Cleanup(r)
      PROVE  WriterIsCurrent' /\ UNCHANGED jobMap
  <2>1. UNCHANGED <<jobMap, rmap, mu>>
    BY <1>5 DEF Register, OneShotBill, OneShotComplete, TriageDispatch,
           LongRunningFails, DelegateDispatch, DelegateInterrupted,
           DelegateReturn, DelegateTransportError, DispatchFailed, Cleanup
  <2>2. PICK l \in Dispatching \cup {"done"} : Goto(r, l)
    BY <1>5 DEF Register, OneShotBill, OneShotComplete, TriageDispatch, Return,
           LongRunningFails, DelegateDispatch, DelegateInterrupted,
           DelegateReturn, DelegateOutcome, DelegateTransportError,
           DispatchFailed, Cleanup, Dispatching
  <2>3. l \in PCs \ {"write"}
    BY DEF Dispatching, PCs
  <2> QED
    BY <1>3, <2>1, <2>2, <2>3
<1>6. CASE UNCHANGED <<pc, rmap, mu, jobMap>>
  BY <1>6 DEF WriterIsCurrent
<1>7. CASE Restart
  <2>1. UNCHANGED jobMap /\ \A r \in Reqs : pc'[r] # "write"
    BY <1>7 DEF Restart, Steady, Active
  <2> QED
    BY <2>1 DEF WriterIsCurrent
<1>8. ASSUME NEW r \in Reqs, ClientGone(r) PROVE UNCHANGED <<pc, rmap, mu, jobMap>>
  BY <1>8 DEF ClientGone, submitVars
<1>9. ASSUME NEW c \in Cancellers, CancelLookup(c) \/ CancelInvoke(c)
      PROVE  UNCHANGED <<pc, rmap, mu, jobMap>>
  BY <1>9 DEF CancelLookup, CancelInvoke, submitVars
<1>10. ASSUME WriteBack \/ UNCHANGED vars PROVE UNCHANGED <<pc, rmap, mu, jobMap>>
  BY <1>10 DEF WriteBack, submitVars, vars
<1> QED
  BY <1>1, <1>2, <1>4, <1>5, <1>6, <1>7, <1>8, <1>9, <1>10 DEF Next, HandleStep

\* recordCloudJob rewrites the whole file, and yet no call's pair is ever dropped:
\* for every set of calls, overlapping or not, and any number of restarts.
THEOREM MappingsStay == Spec => NoLostMapping
<1>1. Init => WriterIsCurrent
  BY DEF Init, WriterIsCurrent
<1>2. TypeOK /\ (Steady => WriterIsCurrent) /\ [Next]_vars
        => (Steady => WriterIsCurrent)'
  <2> SUFFICES ASSUME TypeOK, Steady => WriterIsCurrent, [Next]_vars, Steady'
               PROVE  WriterIsCurrent'
    OBVIOUS
  <2>1. UNCHANGED env
    BY DEF Next, vars
  <2>2. Steady
    BY <2>1 DEF Steady
  <2> QED
    BY <2>2, WriterStep
<1>3. TypeOK /\ (Steady => WriterIsCurrent) /\ [Next]_vars
        => [~env.diskFails /\ ~env.powerFails =>
              \A j \in Jobs : jobMap[j] # None => jobMap'[j] # None]_vars
  BY WriterStep DEF Steady
<1> QED
  BY <1>1, <1>2, <1>3, TypeCorrect, PTL DEF Spec, NoLostMapping

-----------------------------------------------------------------------------
(***************************************************************************)
(* The registry holds exactly what CancelTask can end                      *)
(***************************************************************************)

\* Tasks a CancelTask has taken from the registry and is about to cancel.
Taken == {ctarget[c] : c \in {d \in Cancellers : cpc[d] = "invoke"}}

\* Task t, long-running or not, whose call is at p, with registry reg, context x,
\* reply rep and taken tasks tk.  RegistryIsExact says the first two conjuncts, of
\* calls that are over; the others say what a call on its way there keeps ready.
TaskGood(t, long, p, reg, x, rep, tk) ==
    /\ t \in reg => p \in Dispatching \/ (long /\ p = "done" /\ rep = OK(t) /\ x = "live")
    /\ long /\ p \in {"dispatch", "done"} /\ x = "live" => t \in reg \cup tk
    /\ t \in reg /\ long /\ p = "dispatch" => x = "live"
    /\ long /\ p = "failed" => t \notin reg /\ x # "live"
    /\ p \in {"complete", "delegate", "transport", "cleanup"} => ~long
    /\ x = "live" => p \in Dispatching \cup {"done"}
    /\ t \in tk => t \notin reg /\ p \in Dispatching \cup {"done"}

RegistryInv ==
    /\ \A c \in Cancellers : cpc[c] = "invoke" => ctarget[c] \in Reqs
    /\ \A t \in Reqs : TaskGood(t, LongRunning(t), pc[t], registry, ctx[t], reply[t], Taken)

\* A step of call r that touches no other call.
LEMMA OneTaskSteps ==
  ASSUME TypeOK, RegistryInv, NEW r \in Reqs, UNCHANGED <<env, cpc, ctarget>>,
         NEW l, pc' = [pc EXCEPT ![r] = l],
         NEW x, ctx' = [ctx EXCEPT ![r] = x],
         NEW v, reply' = [reply EXCEPT ![r] = v],
         \A q \in Reqs \ {r} : q \in registry' <=> q \in registry,
         TaskGood(r, LongRunning(r), l, registry', x, v, Taken)
  PROVE  RegistryInv'
<1>1. Taken' = Taken /\ \A q \in Reqs : LongRunning(q)' = LongRunning(q)
  BY DEF Taken, LongRunning
<1>2. ASSUME NEW q \in Reqs
      PROVE  TaskGood(q, LongRunning(q)', pc'[q], registry', ctx'[q], reply'[q], Taken')
  <2>1. CASE q = r
    <3>1. pc'[q] = l /\ ctx'[q] = x /\ reply'[q] = v
      BY <2>1 DEF TypeOK
    <3> QED
      BY <1>1, <2>1, <3>1
  <2>2. CASE q # r
    <3>1. pc'[q] = pc[q] /\ ctx'[q] = ctx[q] /\ reply'[q] = reply[q]
      BY <2>2 DEF TypeOK
    <3>2. TaskGood(q, LongRunning(q), pc[q], registry, ctx[q], reply[q], Taken)
      BY DEF RegistryInv
    <3> QED
      BY <1>1, <2>2, <3>1, <3>2 DEF TaskGood
  <2> QED
    BY <2>1, <2>2
<1> QED
  BY <1>2 DEF RegistryInv

\* The steps of a call before it registers: its context is not born, and it can
\* only end with another's task id or an error.
LEMMA BeforeRegistry ==
  ASSUME TypeOK, RegistryInv, UNCHANGED env, NEW r \in Reqs,
         \/ Arrive(r) \/ Lookup(r) \/ Mark(r) \/ RecordBegin(r)
         \/ RecordWrite(r) \/ PersistFailed(r)
  PROVE  RegistryInv'
<1>1. UNCHANGED <<cpc, ctarget, registry, ctx>>
  BY DEF Arrive, Lookup, Mark, RecordBegin, RecordWrite, PersistFailed, cancelVars
<1>2. pc[r] \in {"idle", "lookup", "mark", "record", "write", "persistfail"}
  BY DEF Arrive, Lookup, Mark, RecordBegin, RecordWrite, PersistFailed
<1>3. PICK l \in {"lookup", "mark", "record", "write", "persistfail", "register", "done"} :
         pc' = [pc EXCEPT ![r] = l]
  BY DEF Arrive, Lookup, Mark, RecordBegin, RecordWrite, PersistFailed, Return, Goto
<1>4. \E v : reply' = [reply EXCEPT ![r] = v]
  <2>1. CASE reply' = reply
    BY <2>1 DEF TypeOK
  <2>2. CASE \E v : Return(r, v)
    BY <2>2 DEF Return
  <2> QED
    BY <2>1, <2>2 DEF Arrive, Lookup, Mark, RecordBegin, RecordWrite, PersistFailed
<1>5. PICK v : reply' = [reply EXCEPT ![r] = v]
  BY <1>4
<1>6. TaskGood(r, LongRunning(r), pc[r], registry, ctx[r], reply[r], Taken)
  BY DEF RegistryInv
<1>7. r \notin registry /\ ctx[r] # "live" /\ r \notin Taken
  BY <1>2, <1>6 DEF TaskGood, Dispatching
<1>8. TaskGood(r, LongRunning(r), l, registry', ctx[r], v, Taken)
  BY <1>1, <1>3, <1>7 DEF TaskGood
<1>9. ctx' = [ctx EXCEPT ![r] = ctx[r]]
  BY <1>1 DEF TypeOK
<1> QED
  BY <1>1, <1>3, <1>5, <1>8, <1>9, OneTaskSteps

\* Registration and the steps of the routers.
LEMMA WhileDispatching ==
  ASSUME TypeOK, RegistryInv, UNCHANGED env, NEW r \in Reqs,
         \/ Register(r) \/ OneShotBill(r) \/ OneShotComplete(r)
         \/ TriageDispatch(r) \/ LongRunningFails(r) \/ DelegateDispatch(r)
         \/ DelegateInterrupted(r) \/ DelegateReturn(r)
         \/ DelegateTransportError(r) \/ DispatchFailed(r) \/ Cleanup(r)
  PROVE  RegistryInv'
<1> DEFINE Good(l, reg, x, v) == TaskGood(r, LongRunning(r), l, reg, x, v, Taken)
<1>0. UNCHANGED <<cpc, ctarget>>
  BY DEF Register, OneShotBill, OneShotComplete, TriageDispatch,
         LongRunningFails, DelegateDispatch, DelegateInterrupted,
         DelegateReturn, DelegateTransportError, DispatchFailed, Cleanup, cancelVars
<1>g. Good(pc[r], registry, ctx[r], reply[r])
  BY DEF RegistryInv
<1>k. /\ ctx' = ctx => ctx' = [ctx EXCEPT ![r] = ctx[r]]
      /\ reply' = reply => reply' = [reply EXCEPT ![r] = reply[r]]
  BY DEF TypeOK
<1>1. CASE Register(r)
  <2>1. PICK x \in {"cancelled", "live"} :
           ctx' = [ctx EXCEPT ![r] = x] /\ (LongRunning(r) => x = "live")
    BY <1>1 DEF Register
  <2>2. /\ registry' = registry \cup {r} /\ pc' = [pc EXCEPT ![r] = "dispatch"]
        /\ reply' = reply /\ pc[r] = "register"
    BY <1>1 DEF Register, Goto
  <2>3. Good("dispatch", registry', x, reply[r])
    BY <1>g, <2>1, <2>2 DEF TaskGood, Dispatching
  <2> HIDE DEF Good
  <2> QED
    BY <1>0, <1>k, <2>1, <2>2, <2>3, OneTaskSteps DEF Good
<1>2. CASE OneShotBill(r)
  <2>1. /\ UNCHANGED <<registry, ctx, reply>> /\ pc' = [pc EXCEPT ![r] = "complete"]
        /\ pc[r] = "dispatch" /\ ~LongRunning(r)
    BY <1>2 DEF OneShotBill, Goto, LongRunning
  <2>2. Good("complete", registry', ctx[r], reply[r])
    BY <1>g, <2>1 DEF TaskGood, Dispatching
  <2> QED
    BY <1>0, <1>k, <2>1, <2>2, OneTaskSteps
<1>3. CASE OneShotComplete(r)
  <2>1. /\ UNCHANGED <<registry, ctx>> /\ pc' = [pc EXCEPT ![r] = "cleanup"]
        /\ pc[r] = "complete" /\ reply' = [reply EXCEPT ![r] = OK(r)]
    BY <1>3 DEF OneShotComplete, Goto
  <2>2. Good("cleanup", registry', ctx[r], OK(r))
    BY <1>g, <2>1 DEF TaskGood, Dispatching
  <2> QED
    BY <1>0, <1>k, <2>1, <2>2, OneTaskSteps
<1>4. CASE TriageDispatch(r)
  <2>1. /\ UNCHANGED <<registry, ctx>> /\ pc' = [pc EXCEPT ![r] = "done"]
        /\ pc[r] = "dispatch" /\ LongRunning(r) /\ reply' = [reply EXCEPT ![r] = OK(r)]
    BY <1>4 DEF TriageDispatch, Return, Goto
  <2>2. Good("done", registry', ctx[r], OK(r))
    BY <1>g, <2>1 DEF TaskGood, Dispatching
  <2> QED
    BY <1>0, <1>k, <2>1, <2>2, OneTaskSteps
<1>5. CASE LongRunningFails(r)
  <2>1. /\ registry' = registry \ {r} /\ pc' = [pc EXCEPT ![r] = "failed"]
        /\ pc[r] = "dispatch" /\ ctx' = [ctx EXCEPT ![r] = "cancelled"] /\ UNCHANGED reply
    BY <1>5 DEF LongRunningFails, Goto
  <2>2. Good("failed", registry', "cancelled", reply[r])
    BY <1>g, <2>1 DEF TaskGood, Dispatching
  <2> QED
    BY <1>0, <1>k, <2>1, <2>2, OneTaskSteps
<1>6. CASE DelegateDispatch(r)
  <2>1. /\ UNCHANGED <<registry, ctx, reply>> /\ pc[r] = "dispatch" /\ ~LongRunning(r)
    BY <1>6 DEF DelegateDispatch, LongRunning
  <2>2. PICK l \in {"failed", "delegate"} : pc' = [pc EXCEPT ![r] = l]
    BY <1>6 DEF DelegateDispatch, Goto
  <2>3. Good(l, registry', ctx[r], reply[r])
    BY <1>g, <2>1, <2>2 DEF TaskGood, Dispatching
  <2> QED
    BY <1>0, <1>k, <2>1, <2>2, <2>3, OneTaskSteps
<1>7. CASE DelegateInterrupted(r) \/ DelegateReturn(r)
  <2>1. UNCHANGED <<registry, ctx>> /\ pc[r] = "delegate" /\ ~LongRunning(r)
    BY <1>7, <1>g DEF DelegateInterrupted, DelegateReturn, TaskGood
  <2>2. PICK l \in {"cleanup", "transport", "failed"} : pc' = [pc EXCEPT ![r] = l]
    BY <1>7 DEF DelegateInterrupted, DelegateReturn, DelegateOutcome, Goto
  <2>3. PICK v : reply' = [reply EXCEPT ![r] = v]
    BY <1>7, <1>k DEF DelegateInterrupted, DelegateReturn, DelegateOutcome
  <2>4. Good(l, registry', ctx[r], v)
    BY <1>g, <2>1, <2>2 DEF TaskGood, Dispatching
  <2> QED
    BY <1>0, <1>k, <2>1, <2>2, <2>3, <2>4, OneTaskSteps
<1>8. CASE DelegateTransportError(r)
  <2>1. /\ UNCHANGED <<registry, ctx, reply>> /\ pc' = [pc EXCEPT ![r] = "failed"]
        /\ pc[r] = "transport" /\ ~LongRunning(r)
    BY <1>8, <1>g DEF DelegateTransportError, Goto, TaskGood
  <2>2. Good("failed", registry', ctx[r], reply[r])
    BY <1>g, <2>1 DEF TaskGood, Dispatching
  <2> QED
    BY <1>0, <1>k, <2>1, <2>2, OneTaskSteps
<1>9. CASE DispatchFailed(r)
  <2>1. UNCHANGED <<registry, ctx>> /\ pc[r] = "failed"
    BY <1>9 DEF DispatchFailed
  <2>2. PICK l \in {"done", "cleanup"} :
           pc' = [pc EXCEPT ![r] = l] /\ (l = "done" <=> LongRunning(r))
    BY <1>9 DEF DispatchFailed, Goto
  <2>3. PICK v : reply' = [reply EXCEPT ![r] = v]
    BY <1>9 DEF DispatchFailed
  <2>4. Good(l, registry', ctx[r], v)
    BY <1>g, <2>1, <2>2 DEF TaskGood, Dispatching
  <2> QED
    BY <1>0, <1>k, <2>1, <2>2, <2>3, <2>4, OneTaskSteps
<1>10. CASE Cleanup(r)
  <2>1. /\ registry' = registry \ {r} /\ pc' = [pc EXCEPT ![r] = "done"]
        /\ pc[r] = "cleanup" /\ ctx' = [ctx EXCEPT ![r] = "cancelled"] /\ UNCHANGED reply
    BY <1>10 DEF Cleanup, Goto
  <2>2. Good("done", registry', "cancelled", reply[r])
    BY <1>g, <2>1 DEF TaskGood, Dispatching
  <2> QED
    BY <1>0, <1>k, <2>1, <2>2, OneTaskSteps
<1> QED
  BY <1>1, <1>2, <1>3, <1>4, <1>5, <1>6, <1>7, <1>8, <1>9, <1>10

\* Registry.Cancel takes the task out and cancels it later; both keep the invariant.
LEMMA CancelKeepsRegistryInv ==
  ASSUME TypeOK, RegistryInv, UNCHANGED env, NEW c \in Cancellers,
         CancelLookup(c) \/ CancelInvoke(c)
  PROVE  RegistryInv'
<1>u. UNCHANGED <<pc, reply>> /\ \A t \in Reqs : LongRunning(t)' = LongRunning(t)
  BY DEF CancelLookup, CancelInvoke, submitVars, LongRunning
<1>g. /\ \A d \in Cancellers : cpc[d] = "invoke" => ctarget[d] \in Reqs
      /\ \A t \in Reqs : TaskGood(t, LongRunning(t), pc[t], registry, ctx[t], reply[t], Taken)
  BY DEF RegistryInv
<1>1. CASE CancelLookup(c)
  <2>1. PICK t \in Reqs :
          /\ ctarget' = [ctarget EXCEPT ![c] = t] /\ registry' = registry \ {t} /\ ctx' = ctx
          /\ cpc' = [cpc EXCEPT ![c] = IF t \in registry THEN "invoke" ELSE "done"]
          /\ cpc[c] = "idle"
    BY <1>1 DEF CancelLookup
  <2>2. /\ \A d \in Cancellers : d # c => cpc'[d] = cpc[d] /\ ctarget'[d] = ctarget[d]
        /\ ctarget'[c] = t /\ cpc'[c] = IF t \in registry THEN "invoke" ELSE "done"
    BY <2>1 DEF TypeOK
  <2>3. Taken' = IF t \in registry THEN Taken \cup {t} ELSE Taken
    <3>1. ASSUME NEW d \in Cancellers, cpc'[d] = "invoke"
          PROVE  ctarget'[d] \in Taken \/ (ctarget'[d] = t /\ t \in registry)
      BY <2>2, <3>1 DEF Taken
    <3>2. ASSUME NEW d \in Cancellers, cpc[d] = "invoke"
          PROVE  cpc'[d] = "invoke" /\ ctarget'[d] = ctarget[d]
      BY <2>1, <2>2, <3>2
    <3> QED
      BY <2>2, <3>1, <3>2 DEF Taken
  <2>4. ASSUME NEW q \in Reqs
        PROVE  TaskGood(q, LongRunning(q), pc[q], registry', ctx[q], reply[q], Taken')
    <3>1. TaskGood(q, LongRunning(q), pc[q], registry, ctx[q], reply[q], Taken)
      BY <1>g
    <3>2. CASE q = t
      BY <2>1, <2>3, <3>1, <3>2 DEF TaskGood
    <3>3. CASE q # t
      <4>1. (q \in registry' <=> q \in registry) /\ (q \in Taken' <=> q \in Taken)
        BY <2>1, <2>3, <3>3
      <4> QED
        BY <3>1, <4>1 DEF TaskGood
    <3> QED
      BY <3>2, <3>3
  <2>5. \A d \in Cancellers : cpc'[d] = "invoke" => ctarget'[d] \in Reqs
    BY <1>g, <2>2
  <2> QED
    BY <1>u, <2>1, <2>4, <2>5 DEF RegistryInv
<1>2. CASE CancelInvoke(c)
  <2> DEFINE t == ctarget[c]
  <2>1. /\ cpc[c] = "invoke" /\ t \in Reqs /\ t \in Taken
        /\ UNCHANGED <<ctarget, registry>> /\ cpc' = [cpc EXCEPT ![c] = "done"]
        /\ ctx' = [ctx EXCEPT ![t] = IF ctx[t] = "live" THEN "cancelled" ELSE ctx[t]]
    BY <1>2, <1>g DEF CancelInvoke, Taken
  <2>2. \A d \in Cancellers : cpc'[d] = IF d = c THEN "done" ELSE cpc[d]
    BY <2>1 DEF TypeOK
  <2>3. Taken' \subseteq Taken /\ \A q \in Taken : q # t => q \in Taken'
    BY <2>1, <2>2 DEF Taken
  <2>4. ctx'[t] # "live" /\ \A q \in Reqs : q # t => ctx'[q] = ctx[q]
    BY <2>1 DEF TypeOK
  <2>5. ASSUME NEW q \in Reqs
        PROVE  TaskGood(q, LongRunning(q), pc[q], registry', ctx'[q], reply[q], Taken')
    <3>1. TaskGood(q, LongRunning(q), pc[q], registry, ctx[q], reply[q], Taken)
      BY <1>g
    <3>2. CASE q = t
      <4>1. q \notin registry
        BY <2>1, <3>1, <3>2 DEF TaskGood
      <4> QED
        BY <2>1, <2>3, <2>4, <3>1, <3>2, <4>1 DEF TaskGood
    <3>3. CASE q # t
      BY <2>1, <2>3, <2>4, <3>1, <3>3 DEF TaskGood
    <3> QED
      BY <3>2, <3>3
  <2>6. \A d \in Cancellers : cpc'[d] = "invoke" => ctarget'[d] \in Reqs
    BY <1>g, <2>1, <2>2
  <2> QED
    BY <1>u, <2>5, <2>6 DEF RegistryInv
<1> QED
  BY <1>1, <1>2

\* Every step keeps the registry in line with the calls.
LEMMA RegistryStep == TypeOK /\ RegistryInv /\ [Next]_vars => RegistryInv'
<1> SUFFICES ASSUME TypeOK, RegistryInv, [Next]_vars PROVE RegistryInv'
  OBVIOUS
<1>0. UNCHANGED env
  BY DEF Next, vars
<1>1. ASSUME NEW r \in Reqs, Arrive(r) \/ HandleStep(r) \/ DelegateReturn(r)
      PROVE  RegistryInv'
  BY <1>0, <1>1, BeforeRegistry, WhileDispatching DEF HandleStep
<1>2. ASSUME NEW r \in Reqs, ClientGone(r) PROVE RegistryInv'
  <2>1. UNCHANGED <<pc, reply, registry, cpc, ctarget>>
    BY <1>2 DEF ClientGone, submitVars, cancelVars
  <2>2. PICK x : /\ ctx' = [ctx EXCEPT ![r] = x]
                 /\ x = ctx[r] \/ (x = "cancelled" /\ ~LongRunning(r))
    BY <1>2 DEF ClientGone
  <2>3. TaskGood(r, LongRunning(r), pc[r], registry, ctx[r], reply[r], Taken)
    BY DEF RegistryInv
  <2>4. TaskGood(r, LongRunning(r), pc[r], registry, x, reply[r], Taken)
    BY <2>2, <2>3 DEF TaskGood
  <2>5. pc' = [pc EXCEPT ![r] = pc[r]] /\ reply' = [reply EXCEPT ![r] = reply[r]]
    BY <2>1 DEF TypeOK
  <2> QED
    BY <1>0, <2>1, <2>2, <2>4, <2>5, OneTaskSteps
<1>3. ASSUME NEW c \in Cancellers, CancelLookup(c) \/ CancelInvoke(c) PROVE RegistryInv'
  BY <1>0, <1>3, CancelKeepsRegistryInv
<1>4. CASE UNCHANGED <<pc, reply, registry, ctx, cpc, ctarget>>
  BY <1>0, <1>4 DEF RegistryInv, Taken, LongRunning
<1>5. CASE WriteBack \/ UNCHANGED vars
  BY <1>4, <1>5 DEF WriteBack, submitVars, cancelVars, vars
<1>6. CASE Restart
  <2>1. /\ registry' = {} /\ \A c \in Cancellers : cpc'[c] # "invoke"
        /\ \A r \in Reqs : ctx'[r] # "live" /\ pc'[r] \in {"idle", "done", "dead"}
    BY <1>6 DEF Restart, Active, TypeOK
  <2>2. Taken' = {}
    BY <2>1 DEF Taken
  <2> QED
    BY <2>1, <2>2 DEF RegistryInv, TaskGood
<1> QED
  BY <1>1, <1>2, <1>3, <1>5, <1>6 DEF Next

\* No finished or failed call leaks its registration, and a live subscription can
\* always be cancelled: for any calls, cancels, disconnects and restarts.
THEOREM RegistryExact == Spec => []RegistryIsExact
<1>1. Init => RegistryInv
  BY DEF Init, RegistryInv, TaskGood, Taken
<1>2. RegistryInv /\ TypeOK => RegistryIsExact
  BY DEF RegistryInv, RegistryIsExact, TaskGood, Taken, TypeOK
<1> QED
  BY <1>1, <1>2, RegistryStep, TypeCorrect, PTL DEF Spec
=============================================================================
