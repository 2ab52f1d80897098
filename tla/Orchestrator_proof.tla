------------------------ MODULE Orchestrator_proof ------------------------
(***************************************************************************)
(* orchestrator.Execute for every plan: any number of leaves, any          *)
(* parallelism and any number of retries, with the context cancelled at    *)
(* any moment and any of the ledger's appends failing.                     *)
(***************************************************************************)
EXTENDS Orchestrator, FiniteSetTheorems, TLAPS

-----------------------------------------------------------------------------
\* Execute is still spawning or waiting ...
Early == {"check", "acquire", "wait", "snapshot"}
\* ... or it has taken its one look at the context and is writing.
Late == {"start", "entries", "verdict", "final", "return", "returned"}

\* A goroutine past its first call of o.Run has called it, and its result is
\* stored before it gives the slot back.
LeafGood(i) ==
    /\ leaf[i] = "none" => attempts[i] = 0
    /\ leaf[i] = "run" => attempts[i] <= RetryEach
    /\ leaf[i] \in {"decide", "store", "release", "done"} => attempts[i] > 0
    /\ leaf[i] \in {"release", "done"} => results[i] = last[i]

\* The spawn loop goes through the plan in order and stops early only when
\* the context is cancelled.
SpawnGood ==
    /\ main \in Early => \A i \in Leaves : leaf[i] = "none" <=> i >= next
    /\ main = "acquire" => next <= N
    /\ main \in {"wait", "snapshot"} => next > N \/ ctxDone
    /\ main \notin {"check", "acquire", "wait"} =>
            \A i \in Leaves : leaf[i] \in {"none", "done"}

\* What the snapshot decided, and what the caller is told of it.
OutcomeGood ==
    /\ main \in Late /\ ~cancelled => \A i \in Leaves : leaf[i] = "done"
    /\ main = "start" => next = 1
    /\ main \in {"entries", "verdict"} => next <= N
    /\ main \in Late \ {"returned"} => result.ok = AllOK
    /\ main = "verdict" => ~cancelled
    /\ result.returned => main = "returned"
    /\ main = "returned" => /\ result.ok = (AllOK /\ ~cancelled)
                            /\ result.cancelled = cancelled

RunInv == /\ TypeOK
          /\ \A i \in Leaves : LeafGood(i)
          /\ SpawnGood
          /\ OutcomeGood

-----------------------------------------------------------------------------
\* The initial states.
LEMMA InitRun == Init => RunInv
<1> SUFFICES ASSUME Init PROVE RunInv
  OBVIOUS
<1>n. N \in Nat /\ RetryEach \in Nat
  BY SwarmAssumption
<1>1. TypeOK
  <2>1. <<>> \in Seq(Entries)
    OBVIOUS
  <2>2. Unset \in Returns
    BY DEF Unset, Returns
  <2>3. main \in MainPCs /\ next \in 1..(N + 1)
    BY <1>n DEF Init, MainPCs
  <2>4. leaf \in [Leaves -> LeafPCs] /\ attempts \in [Leaves -> 0..(RetryEach + 1)]
    BY <1>n DEF Init, LeafPCs
  <2>5. last \in [Leaves -> Returns] /\ results \in [Leaves -> Returns]
    BY <2>2 DEF Init
  <2> QED BY <2>1, <2>3, <2>4, <2>5 DEF Init, TypeOK
<1>2. \A i \in Leaves : LeafGood(i)
  BY DEF Init, LeafGood
<1>3. SpawnGood
  BY <1>n DEF Init, SpawnGood, Early, Leaves
<1>4. OutcomeGood
  BY DEF Init, OutcomeGood, Late
<1> QED BY <1>1, <1>2, <1>3, <1>4 DEF RunInv

\* An append leaves a ledger of entries.
LEMMA WriteTyped ==
  ASSUME TypeOK, NEW e \in Entries, WriteEntry(e)
  PROVE  ledger' \in Seq(Entries) /\ ledgerErrs' \in BOOLEAN
<1>1. ledger \in Seq(Entries) /\ ledgerErrs \in BOOLEAN
  BY DEF TypeOK
<1>2. Append(ledger, e) \in Seq(Entries)
  BY <1>1
<1> QED BY <1>1, <1>2 DEF WriteEntry

\* A step of one leaf goroutine.
LEMMA LeafRun ==
  ASSUME RunInv, NEW p \in Leaves, LeafStep(p)
  PROVE  RunInv'
<1>n. leaf[p] \in {"run", "decide", "store", "release"}
  BY DEF LeafStep, RunReturn, Retry, Store, LeafExit
<1>e. main \in {"check", "acquire", "wait"}
  BY <1>n DEF RunInv, SpawnGood
<1>u. UNCHANGED <<main, next, ctxDone, cancelled, ledger, ledgerErrs, result>>
  BY DEF LeafStep, RunReturn, Retry, Store, LeafExit, outVars
<1>l. PICK pc \in LeafPCs \ {"none"} : leaf' = [leaf EXCEPT ![p] = pc]
  BY DEF LeafStep, RunReturn, Retry, Store, LeafExit, LeafPCs
<1>t. TypeOK'
  <2>1. leaf' \in [Leaves -> LeafPCs]
    BY <1>l DEF RunInv, TypeOK
  <2>2. /\ attempts' \in [Leaves -> 0..(RetryEach + 1)]
        /\ last' \in [Leaves -> Returns]
        /\ results' \in [Leaves -> Returns]
    <3>1. CASE RunReturn(p)
      <4>1. attempts[p] + 1 \in 0..(RetryEach + 1)
        BY <3>1, SwarmAssumption DEF RunReturn, RunInv, TypeOK, LeafGood
      <4>2. \E r \in Returns : last' = [last EXCEPT ![p] = r]
        BY <3>1 DEF RunReturn, Returns
      <4>3. last' \in [Leaves -> Returns]
        BY <4>2 DEF RunInv, TypeOK
      <4>4. attempts' \in [Leaves -> 0..(RetryEach + 1)]
        BY <3>1, <4>1 DEF RunReturn, RunInv, TypeOK
      <4> QED BY <3>1, <4>3, <4>4 DEF RunReturn, RunInv, TypeOK
    <3>2. CASE Retry(p)
      BY <3>2 DEF Retry, RunInv, TypeOK
    <3>3. CASE Store(p)
      BY <3>3 DEF Store, RunInv, TypeOK
    <3>4. CASE LeafExit(p)
      BY <3>4 DEF LeafExit, RunInv, TypeOK
    <3> QED BY <3>1, <3>2, <3>3, <3>4 DEF LeafStep
  <2> QED BY <2>1, <2>2, <1>u DEF RunInv, TypeOK
<1>g. \A i \in Leaves : LeafGood(i)'
  <2> TAKE i \in Leaves
  <2>0. LeafGood(i) /\ TypeOK
    BY DEF RunInv
  <2>n. attempts[i] \in Nat /\ RetryEach \in Nat
    BY <2>0, SwarmAssumption DEF TypeOK
  <2>1. CASE RunReturn(p)
    BY <2>0, <2>1, <2>n DEF RunReturn, LeafGood, TypeOK
  <2>2. CASE Retry(p)
    BY <2>0, <2>2, <2>n DEF Retry, LeafGood, TypeOK
  <2>3. CASE Store(p)
    BY <2>0, <2>3, <2>n DEF Store, LeafGood, TypeOK
  <2>4. CASE LeafExit(p)
    BY <2>0, <2>4, <2>n DEF LeafExit, LeafGood, TypeOK
  <2> QED BY <2>1, <2>2, <2>3, <2>4 DEF LeafStep
<1>s. SpawnGood'
  <2>1. \A i \in Leaves : leaf'[i] = "none" <=> leaf[i] = "none"
    BY <1>l, <1>n DEF RunInv, TypeOK
  <2> QED BY <2>1, <1>u, <1>e DEF RunInv, SpawnGood, Early
<1>o. OutcomeGood'
  BY <1>u, <1>e DEF RunInv, OutcomeGood, Late, AllOK
<1> QED BY <1>t, <1>g, <1>s, <1>o DEF RunInv

\* A step of Execute itself, or the cancellation of the context.
LEMMA MainRun ==
  ASSUME RunInv, MainStep \/ Cancel
  PROVE  RunInv'
<1>n. N \in Nat /\ next \in 1..(N + 1)
  BY SwarmAssumption DEF RunInv, TypeOK
<1> USE <1>n
<1>1. CASE SpawnCheck
  <2>1. TypeOK'
    BY <1>1 DEF SpawnCheck, RunInv, TypeOK, MainPCs, leafVars, outVars
  <2>2. \A i \in Leaves : LeafGood(i)'
    BY <1>1 DEF SpawnCheck, RunInv, LeafGood, leafVars
  <2>3. SpawnGood'
    BY <1>1 DEF SpawnCheck, RunInv, SpawnGood, Early, leafVars, outVars
  <2>4. OutcomeGood'
    BY <1>1 DEF SpawnCheck, RunInv, OutcomeGood, Late, leafVars, outVars
  <2> QED BY <2>1, <2>2, <2>3, <2>4 DEF RunInv
<1>2. CASE Acquire
  <2>0. next \in Leaves /\ leaf \in [Leaves -> LeafPCs]
    BY <1>2 DEF Acquire, RunInv, SpawnGood, Leaves, TypeOK
  <2>1. TypeOK'
    BY <1>2, <2>0 DEF Acquire, RunInv, TypeOK, MainPCs, LeafPCs, outVars, Leaves
  <2>2. \A i \in Leaves : LeafGood(i)'
    <3> TAKE i \in Leaves
    <3>1. CASE i = next
      <4>1. leaf[i] = "none" /\ leaf'[i] = "run"
        BY <1>2, <2>0, <3>1 DEF Acquire, RunInv, SpawnGood, Early
      <4>2. attempts[i] = 0
        BY <4>1 DEF RunInv, LeafGood
      <4> QED BY <1>2, <4>1, <4>2, SwarmAssumption DEF Acquire, LeafGood
    <3>2. CASE i # next
      BY <1>2, <2>0, <3>2 DEF Acquire, RunInv, LeafGood
    <3> QED BY <3>1, <3>2
  <2>3. SpawnGood'
    BY <1>2, <2>0 DEF Acquire, RunInv, SpawnGood, Early, outVars, Leaves
  <2>4. OutcomeGood'
    BY <1>2 DEF Acquire, RunInv, OutcomeGood, Late, outVars
  <2> QED BY <2>1, <2>2, <2>3, <2>4 DEF RunInv
<1>3. CASE Wait
  <2>1. TypeOK'
    BY <1>3 DEF Wait, RunInv, TypeOK, MainPCs, leafVars, outVars
  <2>2. \A i \in Leaves : LeafGood(i)'
    BY <1>3 DEF Wait, RunInv, LeafGood, leafVars
  <2>3. SpawnGood'
    BY <1>3 DEF Wait, Waited, RunInv, TypeOK, LeafPCs, SpawnGood, Early, leafVars
  <2>4. OutcomeGood'
    BY <1>3 DEF Wait, RunInv, OutcomeGood, Late, leafVars, outVars
  <2> QED BY <2>1, <2>2, <2>3, <2>4 DEF RunInv
<1>4. CASE Snapshot
  <2>0. AllOK \in BOOLEAN
    BY DEF AllOK
  <2>1. TypeOK'
    <3>1. result' \in [returned : BOOLEAN, ok : BOOLEAN, cancelled : BOOLEAN]
      BY <1>4, <2>0 DEF Snapshot, RunInv, TypeOK
    <3>2. main' \in MainPCs /\ next' \in 1..(N + 1)
      BY <1>4 DEF Snapshot, MainPCs
    <3> QED BY <1>4, <3>1, <3>2 DEF Snapshot, RunInv, TypeOK, leafVars
  <2>2. \A i \in Leaves : LeafGood(i)'
    BY <1>4 DEF Snapshot, RunInv, LeafGood, leafVars
  <2>3. SpawnGood'
    BY <1>4 DEF Snapshot, RunInv, SpawnGood, Early, leafVars
  <2>4. OutcomeGood'
    <3>1. ~cancelled' => \A i \in Leaves : leaf[i] = "done"
      <4> SUFFICES ASSUME ~cancelled', NEW i \in Leaves PROVE leaf[i] = "done"
        OBVIOUS
      <4>1. next > N
        BY <1>4 DEF Snapshot, RunInv, SpawnGood
      <4>2. leaf[i] # "none"
        BY <1>4, <4>1 DEF Snapshot, RunInv, SpawnGood, Early, Leaves
      <4> QED BY <1>4, <4>2 DEF Snapshot, RunInv, SpawnGood
    <3>2. result'.ok = AllOK /\ AllOK' = AllOK /\ result'.returned = result.returned
      BY <1>4 DEF Snapshot, RunInv, TypeOK, AllOK, leafVars
    <3>3. leaf' = leaf /\ main' = "start" /\ main = "snapshot" /\ next' = 1
      BY <1>4 DEF Snapshot, leafVars
    <3> QED BY <3>1, <3>2, <3>3 DEF RunInv, OutcomeGood, Late
  <2> QED BY <2>1, <2>2, <2>3, <2>4 DEF RunInv
<1>5. CASE WriteStart \/ MergeEntries \/ MergeVerdict \/ WriteFinal
  <2>l. /\ UNCHANGED <<leaf, attempts, last, results, ctxDone, cancelled, result>>
        /\ AllOK' = AllOK
    BY <1>5 DEF WriteStart, MergeEntries, MergeVerdict, WriteFinal, leafVars, AllOK
  <2>m. main \in {"start", "entries", "verdict", "final"}
    BY <1>5 DEF WriteStart, MergeEntries, MergeVerdict, WriteFinal
  <2>p. /\ main' \in {"entries", "verdict", "final", "return"}
        /\ next' \in 1..(N + 1)
        /\ main' \in {"entries", "verdict"} => next' <= N
        /\ main' = "verdict" => ~cancelled
    BY <1>5 DEF WriteStart, MergeEntries, MergeVerdict, WriteFinal, NextLeaf,
                RunInv, OutcomeGood
  <2>1. TypeOK'
    <3>1. ledger' \in Seq(Entries) /\ ledgerErrs' \in BOOLEAN
      <4>1. CASE WriteStart
        <5>1. [kind |-> "start"] \in Entries
          BY DEF Entries
        <5> QED BY <4>1, <5>1, WriteTyped DEF WriteStart, RunInv
      <4>2. CASE MergeEntries
        <5>1. [kind |-> "leaf", leaf |-> next] \in Entries
          BY <4>2 DEF MergeEntries, RunInv, OutcomeGood, Entries, Leaves
        <5> QED BY <4>2, <5>1, WriteTyped DEF MergeEntries, RunInv, TypeOK
      <4>3. CASE MergeVerdict
        <5> DEFINE e == [kind |-> IF results[next].err THEN "leaf-error" ELSE "leaf-ok",
                         leaf |-> next]
        <5>1. e \in Entries
          BY <4>3 DEF MergeVerdict, RunInv, OutcomeGood, Entries, Leaves
        <5> QED BY <4>3, <5>1, WriteTyped DEF MergeVerdict, RunInv
      <4>4. CASE WriteFinal
        <5> DEFINE e == [kind |-> IF cancelled THEN "cancel"
                            ELSE IF result.ok THEN "done-ok" ELSE "done-error"]
        <5>1. e \in Entries
          BY DEF Entries
        <5> QED BY <4>4, <5>1, WriteTyped DEF WriteFinal, RunInv
      <4> QED BY <1>5, <4>1, <4>2, <4>3, <4>4
    <3> QED BY <3>1, <2>l, <2>p DEF RunInv, TypeOK, MainPCs
  <2>2. \A i \in Leaves : LeafGood(i)'
    BY <2>l DEF RunInv, LeafGood
  <2>3. SpawnGood'
    BY <2>l, <2>m, <2>p DEF RunInv, SpawnGood, Early
  <2>4. OutcomeGood'
    BY <2>l, <2>m, <2>p DEF RunInv, OutcomeGood, Late
  <2> QED BY <2>1, <2>2, <2>3, <2>4 DEF RunInv
<1>6. CASE Finish
  <2>r. /\ result'.ok = (result.ok /\ ~cancelled)
        /\ result'.cancelled = cancelled
        /\ main = "return" /\ main' = "returned"
        /\ result' \in [returned : BOOLEAN, ok : BOOLEAN, cancelled : BOOLEAN]
        /\ AllOK' = AllOK
    BY <1>6 DEF Finish, RunInv, TypeOK, AllOK, leafVars
  <2>1. TypeOK'
    BY <1>6, <2>r DEF Finish, RunInv, TypeOK, MainPCs, leafVars
  <2>2. \A i \in Leaves : LeafGood(i)'
    BY <1>6 DEF Finish, RunInv, LeafGood, leafVars
  <2>3. SpawnGood'
    BY <1>6 DEF Finish, RunInv, SpawnGood, Early, leafVars
  <2>4. OutcomeGood'
    BY <1>6, <2>r DEF Finish, RunInv, OutcomeGood, Late, leafVars
  <2> QED BY <2>1, <2>2, <2>3, <2>4 DEF RunInv
<1>7. CASE Cancel
  <2>1. TypeOK'
    BY <1>7 DEF Cancel, RunInv, TypeOK, leafVars, outVars
  <2>2. \A i \in Leaves : LeafGood(i)'
    BY <1>7 DEF Cancel, RunInv, LeafGood, leafVars
  <2>3. SpawnGood'
    BY <1>7 DEF Cancel, RunInv, SpawnGood, leafVars
  <2>4. OutcomeGood'
    BY <1>7 DEF Cancel, RunInv, OutcomeGood, leafVars, outVars, AllOK
  <2> QED BY <2>1, <2>2, <2>3, <2>4 DEF RunInv
<1> QED BY <1>1, <1>2, <1>3, <1>4, <1>5, <1>6, <1>7 DEF MainStep

\* Every step keeps the invariant of the run.
LEMMA NextRun == RunInv /\ [Next]_vars => RunInv'
<1> SUFFICES ASSUME RunInv, [Next]_vars PROVE RunInv'
  OBVIOUS
<1>1. CASE UNCHANGED vars
  <2>1. TypeOK'
    BY <1>1 DEF vars, RunInv, TypeOK
  <2>2. \A i \in Leaves : LeafGood(i)'
    BY <1>1 DEF vars, RunInv, LeafGood
  <2>3. SpawnGood'
    BY <1>1 DEF vars, RunInv, SpawnGood
  <2>4. OutcomeGood'
    BY <1>1 DEF vars, RunInv, OutcomeGood, AllOK
  <2> QED BY <2>1, <2>2, <2>3, <2>4 DEF RunInv
<1>2. CASE MainStep \/ Cancel
  BY <1>2, MainRun
<1>3. CASE \E i \in Leaves : LeafStep(i)
  BY <1>3, LeafRun
<1> QED BY <1>1, <1>2, <1>3 DEF Next

\* Every reachable state of a swarm run is of its declared type.
THEOREM TypeCorrect == Spec => []TypeOK
<1>1. RunInv => TypeOK
  BY DEF RunInv
<1> QED BY <1>1, InitRun, NextRun, PTL DEF Spec

\* Whatever the interleaving of the leaves, the retries and the cancellation,
\* Execute reports OK only if every leaf of the plan ran and its last attempt
\* returned nil: a leaf that was never spawned leaves the zero LeafResult, which
\* looks like success, but then the context was cancelled before the snapshot.
THEOREM OKIsHonest == Spec => []OKMeansEveryLeafRan
<1>1. RunInv => OKMeansEveryLeafRan
  <2> SUFFICES ASSUME RunInv, result.returned, result.ok, NEW i \in Leaves
               PROVE  attempts[i] > 0 /\ ~last[i].err
    BY DEF OKMeansEveryLeafRan
  <2>1. main = "returned"
    BY DEF RunInv, OutcomeGood
  <2>2. AllOK /\ ~cancelled
    BY <2>1 DEF RunInv, OutcomeGood
  <2>3. leaf[i] = "done"
    BY <2>1, <2>2 DEF RunInv, OutcomeGood, Late
  <2> QED BY <2>2, <2>3 DEF RunInv, LeafGood, AllOK
<1> QED BY <1>1, InitRun, NextRun, PTL DEF Spec

-----------------------------------------------------------------------------
(***************************************************************************)
(* The parent ledger.  While no append has failed, the entries written so  *)
(* far are determined by where Execute is.                                 *)
(***************************************************************************)
Finals == Kinds("cancel") \cup Kinds("done-ok") \cup Kinds("done-error")
Verdicts == Kinds("leaf-ok") \cup Kinds("leaf-error")

\* How many leaves have their ok / error line.
Judged == IF cancelled \/ main \in Early \cup {"start"} THEN 0
          ELSE IF main \in {"entries", "verdict"} THEN next - 1 ELSE N

FinalKind == IF cancelled THEN "cancel" ELSE IF AllOK THEN "done-ok" ELSE "done-error"

LedgerGood ==
    /\ main \in Early \cup {"start"} => ledger = <<>>
    /\ main \notin Early \cup {"start"} => Kinds("start") = {1}
    /\ main \notin {"return", "returned"} => Finals = {}
    /\ main \in {"return", "returned"} =>
            /\ Finals = {Len(ledger)}
            /\ ledger[Len(ledger)].kind = FinalKind
    /\ IsFiniteSet(Verdicts) /\ Cardinality(Verdicts) = Judged

LedgerInv == RunInv /\ (~ledgerErrs => LedgerGood)

\* An appended entry has its position added to the positions of its kind, and
\* to no other's.
LEMMA KindsAppend ==
  ASSUME TypeOK, NEW e \in Entries, ledger' = Append(ledger, e), NEW k
  PROVE  /\ e.kind = k => Kinds(k)' = Kinds(k) \cup {Len(ledger) + 1}
         /\ e.kind # k => Kinds(k)' = Kinds(k)
         /\ Kinds(k) \subseteq 1..Len(ledger)
         /\ Len(ledger) \in Nat /\ Len(ledger') = Len(ledger) + 1
         /\ ledger'[Len(ledger) + 1] = e
<1>1. ledger \in Seq(Entries)
  BY DEF TypeOK
<1>2. /\ Len(ledger) \in Nat /\ Len(ledger') = Len(ledger) + 1
      /\ DOMAIN ledger = 1..Len(ledger)
      /\ DOMAIN ledger' = 1..(Len(ledger) + 1)
      /\ ledger'[Len(ledger) + 1] = e
      /\ \A n \in 1..Len(ledger) : ledger'[n] = ledger[n]
  BY <1>1
<1>3. Kinds(k) \subseteq 1..Len(ledger)
  BY <1>2 DEF Kinds
<1>4. \A n : n \in 1..(Len(ledger) + 1) <=> n \in 1..Len(ledger) \/ n = Len(ledger) + 1
  BY <1>2
<1>5. \A n : n \in Kinds(k)' <=> n \in Kinds(k) \/ (n = Len(ledger) + 1 /\ e.kind = k)
  BY <1>2, <1>4 DEF Kinds
<1> QED BY <1>2, <1>3, <1>5

\* The initial states.
LEMMA InitLedger == Init => LedgerInv
<1> SUFFICES ASSUME Init PROVE LedgerInv
  OBVIOUS
<1>1. \A k : Kinds(k) = {}
  BY DEF Init, Kinds
<1>2. Verdicts = {} /\ Finals = {}
  BY <1>1 DEF Verdicts, Finals
<1>3. IsFiniteSet(Verdicts) /\ Cardinality(Verdicts) = 0
  BY <1>2, FS_EmptySet
<1>4. Judged = 0
  BY DEF Init, Judged, Early
<1> QED BY <1>2, <1>3, <1>4, InitRun DEF Init, LedgerInv, LedgerGood, Early

\* Until the snapshot is taken, and when the run is handed back, nothing is
\* written.
LEMMA QuietLedger ==
  ASSUME LedgerInv, [Next]_vars,
         ~ (WriteStart \/ MergeEntries \/ MergeVerdict \/ WriteFinal)
  PROVE  ~ledgerErrs' => LedgerGood'
<1> SUFFICES ASSUME ~ledgerErrs' PROVE LedgerGood'
  OBVIOUS
<1>r. RunInv
  BY DEF LedgerInv
<1>u. ledger' = ledger /\ ledgerErrs' = ledgerErrs
  BY DEF Next, MainStep, LeafStep, SpawnCheck, Acquire, RunReturn, Retry, Store, LeafExit,
         Wait, Snapshot, Finish, Cancel, vars, outVars
<1>g. LedgerGood
  BY <1>u DEF LedgerInv
<1>k. (\A k : Kinds(k)' = Kinds(k)) /\ Finals' = Finals /\ Verdicts' = Verdicts
  BY <1>u DEF Kinds, Finals, Verdicts
<1>m. \/ main \in Early /\ main' \in Early \cup {"start"}
      \/ main' = main /\ next' = next /\ cancelled' = cancelled /\ results' = results
      \/ main = "return" /\ main' = "returned" /\ cancelled' = cancelled /\ results' = results
  <2>1. CASE SpawnCheck \/ Acquire \/ Wait \/ Snapshot
    BY <2>1 DEF SpawnCheck, Acquire, Wait, Snapshot, Early
  <2>2. CASE Finish
    BY <2>2 DEF Finish, leafVars
  <2>3. CASE Cancel \/ UNCHANGED vars
    BY <2>3 DEF Cancel, vars, leafVars, outVars
  <2>4. CASE \E i \in Leaves : LeafStep(i)
    <3> PICK i \in Leaves : LeafStep(i)
      BY <2>4
    <3>1. leaf[i] \in {"run", "decide", "store", "release"}
      BY DEF LeafStep, RunReturn, Retry, Store, LeafExit
    <3>2. main \in Early
      BY <3>1, <1>r DEF RunInv, SpawnGood, Early
    <3>3. main' = main
      BY DEF LeafStep, RunReturn, Retry, Store, LeafExit
    <3> QED BY <3>2, <3>3
  <2> QED BY <2>1, <2>2, <2>3, <2>4 DEF Next, MainStep
<1>1. CASE main \in Early /\ main' \in Early \cup {"start"}
  <2>1. Judged = 0 /\ Judged' = 0
    BY <1>1 DEF Judged
  <2>2. Finals = {}
    BY <1>1, <1>g DEF LedgerGood, Early
  <2> QED BY <1>1, <1>g, <1>u, <1>k, <2>1, <2>2 DEF LedgerGood, Early
<1>2. CASE main' = main /\ next' = next /\ cancelled' = cancelled /\ results' = results
  <2>1. Judged' = Judged /\ FinalKind' = FinalKind
    BY <1>2 DEF Judged, FinalKind, AllOK
  <2> QED BY <1>2, <1>g, <1>u, <1>k, <2>1 DEF LedgerGood
<1>3. CASE main = "return" /\ main' = "returned" /\ cancelled' = cancelled /\ results' = results
  <2>1. Judged' = Judged /\ FinalKind' = FinalKind
    BY <1>3 DEF Judged, FinalKind, AllOK, Early
  <2> QED BY <1>3, <1>g, <1>u, <1>k, <2>1 DEF LedgerGood, Early
<1> QED BY <1>m, <1>1, <1>2, <1>3

\* Writing one entry: what it does to the three groups of kinds.
LEMMA WriteGroups ==
  ASSUME TypeOK, NEW e \in Entries, WriteEntry(e), ~ledgerErrs'
  PROVE  /\ ~ledgerErrs
         /\ ledger' = Append(ledger, e)
         /\ Len(ledger) \in Nat /\ Len(ledger') = Len(ledger) + 1
         /\ ledger'[Len(ledger')] = e
         /\ e.kind # "start" => Kinds("start")' = Kinds("start")
         /\ e.kind = "start" => Kinds("start")' = Kinds("start") \cup {Len(ledger')}
         /\ e.kind \notin {"cancel", "done-ok", "done-error"} => Finals' = Finals
         /\ e.kind \in {"cancel", "done-ok", "done-error"} =>
                Finals' = Finals \cup {Len(ledger')}
         /\ e.kind \notin {"leaf-ok", "leaf-error"} => Verdicts' = Verdicts
         /\ e.kind \in {"leaf-ok", "leaf-error"} =>
                /\ Verdicts' = Verdicts \cup {Len(ledger')}
                /\ Len(ledger') \notin Verdicts
<1>1. ~ledgerErrs /\ ledger' = Append(ledger, e)
  BY DEF WriteEntry
<1>2. /\ Len(ledger) \in Nat /\ Len(ledger') = Len(ledger) + 1
      /\ ledger'[Len(ledger')] = e
  BY <1>1, KindsAppend
<1>3. \A k : /\ e.kind = k => Kinds(k)' = Kinds(k) \cup {Len(ledger')}
             /\ e.kind # k => Kinds(k)' = Kinds(k)
             /\ Len(ledger') \notin Kinds(k)
  <2> TAKE k
  <2>1. /\ e.kind = k => Kinds(k)' = Kinds(k) \cup {Len(ledger) + 1}
        /\ e.kind # k => Kinds(k)' = Kinds(k)
        /\ Kinds(k) \subseteq 1..Len(ledger)
    BY <1>1, KindsAppend
  <2> QED BY <1>2, <2>1
<1>4. /\ e.kind # "start" => Kinds("start")' = Kinds("start")
      /\ e.kind = "start" => Kinds("start")' = Kinds("start") \cup {Len(ledger')}
  BY <1>3
<1>5. /\ e.kind \notin {"cancel", "done-ok", "done-error"} => Finals' = Finals
      /\ e.kind \in {"cancel", "done-ok", "done-error"} =>
                Finals' = Finals \cup {Len(ledger')}
  BY <1>3 DEF Finals
<1>6. /\ e.kind \notin {"leaf-ok", "leaf-error"} => Verdicts' = Verdicts
      /\ e.kind \in {"leaf-ok", "leaf-error"} =>
                /\ Verdicts' = Verdicts \cup {Len(ledger')}
                /\ Len(ledger') \notin Verdicts
  BY <1>3 DEF Verdicts
<1> QED BY <1>1, <1>2, <1>4, <1>5, <1>6

\* The steps that append.
LEMMA WritingLedger ==
  ASSUME LedgerInv, ~ledgerErrs',
         WriteStart \/ MergeEntries \/ MergeVerdict \/ WriteFinal
  PROVE  LedgerGood'
<1>r. RunInv /\ TypeOK
  BY DEF LedgerInv, RunInv
<1>n. N \in Nat /\ next \in Nat
  BY <1>r, SwarmAssumption DEF TypeOK
<1>u. cancelled' = cancelled /\ result' = result /\ FinalKind' = FinalKind
  BY DEF WriteStart, MergeEntries, MergeVerdict, WriteFinal, leafVars, FinalKind, AllOK
<1>1. CASE WriteStart
  <2> DEFINE e == [kind |-> "start"]
  <2>1. e \in Entries /\ e.kind = "start"
    BY DEF Entries
  <2>2. ~ledgerErrs /\ Len(ledger') = Len(ledger) + 1
        /\ Kinds("start")' = Kinds("start") \cup {Len(ledger')}
        /\ Finals' = Finals /\ Verdicts' = Verdicts
    BY <1>1, <1>r, <2>1, WriteGroups DEF WriteStart
  <2>3. LedgerGood /\ ledger = <<>> /\ main = "start"
    BY <1>1, <2>2 DEF LedgerInv, LedgerGood, WriteStart
  <2>4. Kinds("start") = {} /\ Len(ledger') = 1
    BY <2>2, <2>3 DEF Kinds
  <2>5. Judged = 0 /\ Judged' = 0
    <3>1. main' \in {"final", "entries"} /\ next' = 1
      BY <1>1, <1>r DEF WriteStart, RunInv, OutcomeGood
    <3>2. main' = "final" => N = 0
      BY <1>1 DEF WriteStart
    <3> QED BY <3>1, <3>2, <2>3, <1>n DEF Judged, Early
  <2>6. main' \in {"final", "entries"}
    BY <1>1 DEF WriteStart
  <2> HIDE DEF e
  <2> QED BY <2>2, <2>3, <2>4, <2>5, <2>6 DEF LedgerGood, Early
<1>2. CASE MergeEntries
  <2> DEFINE e == [kind |-> "leaf", leaf |-> next]
  <2>0. main = "entries" /\ next <= N
    BY <1>2, <1>r DEF MergeEntries, RunInv, OutcomeGood
  <2>1. e \in Entries /\ e.kind = "leaf"
    BY <2>0, <1>r DEF Entries, Leaves, TypeOK
  <2>2. ~ledgerErrs /\ Kinds("start")' = Kinds("start")
        /\ Finals' = Finals /\ Verdicts' = Verdicts
    <3>1. CASE results[next].entry
      BY <1>2, <1>r, <2>1, <3>1, WriteGroups DEF MergeEntries
    <3>2. CASE ~results[next].entry
      BY <1>2, <3>2 DEF MergeEntries, Kinds, Finals, Verdicts
    <3> QED BY <3>1, <3>2
  <2>3. LedgerGood
    BY <2>2 DEF LedgerInv
  <2>4. main' \in {"final", "entries", "verdict"} /\ Judged' = Judged
    <3>1. CASE cancelled
      BY <1>2, <2>0, <1>u, <3>1 DEF MergeEntries, NextLeaf, Judged
    <3>2. CASE ~cancelled
      BY <1>2, <2>0, <1>u, <3>2 DEF MergeEntries, Judged, Early
    <3> QED BY <3>1, <3>2
  <2> HIDE DEF e
  <2> QED BY <2>0, <2>2, <2>3, <2>4 DEF LedgerGood, Early
<1>3. CASE MergeVerdict
  <2> DEFINE e == [kind |-> IF results[next].err THEN "leaf-error" ELSE "leaf-ok",
                   leaf |-> next]
  <2>0. main = "verdict" /\ next <= N /\ ~cancelled
    BY <1>3, <1>r DEF MergeVerdict, RunInv, OutcomeGood
  <2>1. e \in Entries /\ e.kind \in {"leaf-error", "leaf-ok"}
    BY <2>0, <1>r DEF Entries, Leaves, TypeOK
  <2>w. WriteEntry(e)
    BY <1>3 DEF MergeVerdict
  <2> HIDE DEF e
  <2>2. ~ledgerErrs /\ Kinds("start")' = Kinds("start")
        /\ Finals' = Finals /\ Verdicts' = Verdicts \cup {Len(ledger')}
        /\ Len(ledger') \notin Verdicts
    BY <1>r, <2>1, <2>w, WriteGroups
  <2>3. LedgerGood
    BY <2>2 DEF LedgerInv
  <2>4. main' \in {"final", "entries"} /\ Judged' = Judged + 1
    BY <1>3, <2>0, <1>u, <1>n DEF MergeVerdict, NextLeaf, Judged, Early
  <2>5. IsFiniteSet(Verdicts') /\ Cardinality(Verdicts') = Cardinality(Verdicts) + 1
    BY <2>2, <2>3, FS_AddElement DEF LedgerGood
  <2> QED BY <2>0, <2>2, <2>3, <2>4, <2>5 DEF LedgerGood, Early
<1>4. CASE WriteFinal
  <2> DEFINE e == [kind |-> IF cancelled THEN "cancel"
                            ELSE IF result.ok THEN "done-ok" ELSE "done-error"]
  <2>0. main = "final" /\ main' = "return" /\ result.ok = AllOK /\ next' = next
    BY <1>4, <1>r DEF WriteFinal, RunInv, OutcomeGood, Late
  <2>1. /\ e \in Entries /\ e.kind \in {"cancel", "done-ok", "done-error"}
        /\ e.kind = FinalKind
    BY <2>0 DEF Entries, FinalKind
  <2>w. WriteEntry(e)
    BY <1>4 DEF WriteFinal
  <2> HIDE DEF e
  <2>2. ~ledgerErrs /\ Kinds("start")' = Kinds("start")
        /\ Finals' = Finals \cup {Len(ledger')} /\ Verdicts' = Verdicts
        /\ ledger'[Len(ledger')] = e
    BY <1>r, <2>1, <2>w, WriteGroups
  <2>3. LedgerGood
    BY <2>2 DEF LedgerInv
  <2>4. Judged' = Judged
    BY <2>0, <1>u DEF Judged, Early
  <2>5. Finals' = {Len(ledger')} /\ ledger'[Len(ledger')].kind = FinalKind'
    BY <2>0, <2>1, <2>2, <2>3, <1>u DEF LedgerGood
  <2> QED BY <2>0, <2>2, <2>3, <2>4, <2>5 DEF LedgerGood, Early
<1> QED BY <1>1, <1>2, <1>3, <1>4

\* Every step keeps what the ledger tells.
LEMMA NextLedger == LedgerInv /\ [Next]_vars => LedgerInv'
<1> SUFFICES ASSUME LedgerInv, [Next]_vars PROVE LedgerInv'
  OBVIOUS
<1>1. RunInv'
  BY NextRun DEF LedgerInv
<1>2. ~ledgerErrs' => LedgerGood'
  BY QuietLedger, WritingLedger
<1> QED BY <1>1, <1>2 DEF LedgerInv

\* If no append failed, the parent ledger tells the story the caller is told:
\* it begins with its one start entry and ends with its one final entry, which
\* says cancelled exactly when the result does and done-ok exactly when the
\* result is OK, and it holds one verdict per leaf unless the run was cancelled.
THEOREM LedgerIsHonest == Spec => []LedgerMatchesResult
<1>1. LedgerInv => LedgerMatchesResult
  <2> SUFFICES ASSUME LedgerInv, result.returned, ~ledgerErrs
               PROVE  /\ Kinds("start") = {1}
                      /\ Cardinality(Finals) = 1
                      /\ ledger[Len(ledger)].kind = "cancel" <=> result.cancelled
                      /\ ledger[Len(ledger)].kind = "done-ok" <=> result.ok
                      /\ Cardinality(Verdicts) = IF result.cancelled THEN 0 ELSE N
    BY DEF LedgerMatchesResult, Finals, Verdicts
  <2>1. main = "returned" /\ LedgerGood
    BY DEF LedgerInv, RunInv, OutcomeGood
  <2>2. result.ok = (AllOK /\ ~cancelled) /\ result.cancelled = cancelled
    BY <2>1 DEF LedgerInv, RunInv, OutcomeGood
  <2>b. AllOK \in BOOLEAN /\ cancelled \in BOOLEAN
    BY DEF AllOK, LedgerInv, RunInv, TypeOK
  <2>3. Kinds("start") = {1} /\ Finals = {Len(ledger)}
        /\ ledger[Len(ledger)].kind = FinalKind /\ Cardinality(Verdicts) = Judged
    BY <2>1 DEF LedgerGood, Early
  <2>4. Cardinality(Finals) = 1
    BY <2>3, FS_Singleton
  <2>5. FinalKind = "cancel" <=> cancelled
    BY <2>b DEF FinalKind
  <2>6. FinalKind = "done-ok" <=> (AllOK /\ ~cancelled)
    BY <2>b DEF FinalKind
  <2>7. Judged = IF cancelled THEN 0 ELSE N
    BY <2>1 DEF Judged, Early
  <2> QED BY <2>2, <2>3, <2>4, <2>5, <2>6, <2>7
<1> QED BY <1>1, InitLedger, NextLedger, PTL DEF Spec
=============================================================================
