---------------------------- MODULE Orchestrator ----------------------------
(***************************************************************************)
(* orchestrator.Execute: one swarm run.  The main goroutine spawns a       *)
(* goroutine per leaf through a counting semaphore, waits for them,        *)
(* takes one look at the context and merges everything into the parent     *)
(* ledger.  The context can be cancelled at any moment.                    *)
(*                                                                         *)
(* Operators named A_xyz are plausible bugs of the action A below them.    *)
(***************************************************************************)
EXTENDS Naturals, Sequences, FiniteSets

CONSTANTS
    N,            \* len(plan.Leaves)
    MaxParallel,  \* plan.MaxParallel, 0 = unbounded
    RetryEach,    \* plan.RetryEach
    LedgerFails   \* may Ledger.Append fail?

ASSUME SwarmAssumption ==
    /\ N \in Nat /\ MaxParallel \in Nat /\ RetryEach \in Nat
    /\ LedgerFails \in BOOLEAN

Leaves == 1..N

\* "maxPar <= 0 || maxPar > len(plan.Leaves)" means one slot per leaf.
MaxPar == IF MaxParallel = 0 \/ MaxParallel > N THEN N ELSE MaxParallel

VARIABLES
    main,       \* program counter of Execute
    next,       \* the leaf the spawn loop, then the merge loop, is at
    leaf,       \* [Leaves -> LeafPCs]: program counters of the leaf goroutines
    attempts,   \* [Leaves -> Nat]: calls of o.Run so far
    last,       \* [Leaves -> Returns]: what the last call of o.Run returned
    results,    \* [Leaves -> Returns]: the results slice
    ctxDone,    \* has the context been cancelled?
    cancelled,  \* Execute's one snapshot of it
    ledger,     \* entries appended to the parent ledger
    ledgerErrs, \* did an append fail?
    result      \* the SwarmResult handed to the caller

vars == <<main, next, leaf, attempts, last, results, ctxDone, cancelled,
          ledger, ledgerErrs, result>>

MainPCs == {"check", "acquire", "wait", "snapshot", "start", "entries",
            "verdict", "final", "return", "returned"}
LeafPCs == {"none", "run", "decide", "store", "release", "done"}

\* A call of the runner returns an error or nil, with or without an entry;
\* Unset is the zero LeafResult: no entry and a nil Err.
Unset == [err |-> FALSE, entry |-> FALSE]
Returns == [err : BOOLEAN, entry : BOOLEAN]

Entries == [kind : {"start", "cancel", "done-ok", "done-error"}]
             \cup [kind : {"leaf", "leaf-ok", "leaf-error"}, leaf : Leaves]

TypeOK ==
    /\ main \in MainPCs
    /\ next \in 1..(N + 1)
    /\ leaf \in [Leaves -> LeafPCs]
    /\ attempts \in [Leaves -> 0..(RetryEach + 1)]
    /\ last \in [Leaves -> Returns]
    /\ results \in [Leaves -> Returns]
    /\ ctxDone \in BOOLEAN /\ cancelled \in BOOLEAN /\ ledgerErrs \in BOOLEAN
    /\ ledger \in Seq(Entries)
    /\ result \in [returned : BOOLEAN, ok : BOOLEAN, cancelled : BOOLEAN]

Init ==
    /\ main = "check"
    /\ next = 1
    /\ leaf = [i \in Leaves |-> "none"]
    /\ attempts = [i \in Leaves |-> 0]
    /\ last = [i \in Leaves |-> Unset]
    /\ results = [i \in Leaves |-> Unset]
    /\ ctxDone = FALSE /\ cancelled = FALSE /\ ledgerErrs = FALSE
    /\ ledger = <<>>
    /\ result = [returned |-> FALSE, ok |-> FALSE, cancelled |-> FALSE]

\* The leaves that have a slot of the semaphore ...
InFlight == {i \in Leaves : leaf[i] \in {"run", "decide", "store"}}
\* ... and the ones the WaitGroup waits for.
Waited == {i \in Leaves : leaf[i] \in {"run", "decide", "store", "release"}}

leafVars == <<leaf, attempts, last, results>>
outVars == <<cancelled, ledger, ledgerErrs, result>>

-----------------------------------------------------------------------------
\* The loop head: no more leaves, or the context is cancelled, ends it.
SpawnCheck ==
    /\ main = "check"
    /\ main' = IF next > N \/ ctxDone THEN "wait" ELSE "acquire"
    /\ UNCHANGED <<next, leafVars, ctxDone, outVars>>

\* Bug: one slot of the semaphore is never used.
Acquire_lessOne ==
    /\ main = "acquire"
    /\ Cardinality(InFlight) < MaxPar - 1
    /\ leaf' = [leaf EXCEPT ![next] = "run"]
    /\ next' = next + 1
    /\ main' = "check"
    /\ UNCHANGED <<attempts, last, results, ctxDone, outVars>>

\* "sem <- struct{}{}" blocks until there is room; the goroutine starts.
Acquire ==
    /\ main = "acquire"
    /\ Cardinality(InFlight) < MaxPar
    /\ leaf' = [leaf EXCEPT ![next] = "run"]
    /\ next' = next + 1
    /\ main' = "check"
    /\ UNCHANGED <<attempts, last, results, ctxDone, outVars>>

\* o.Run returns, if it does.  A swarm leaf fails without an entry when the dial
\* does.  Its --timeout ends the TCP dial and signals the command, but the SSH
\* handshake, NewSession and the drain after the signal do not watch the context.
RunReturn(i) ==
    /\ leaf[i] = "run"
    /\ \E r \in {[err |-> TRUE, entry |-> FALSE], [err |-> TRUE, entry |-> TRUE],
                 [err |-> FALSE, entry |-> TRUE]} :
         last' = [last EXCEPT ![i] = r]
    /\ attempts' = [attempts EXCEPT ![i] = @ + 1]
    /\ leaf' = [leaf EXCEPT ![i] = "decide"]
    /\ UNCHANGED <<main, next, results, ctxDone, outVars>>

\* The retry loop: success, cancellation or the last attempt ends it.
Retry(i) ==
    /\ leaf[i] = "decide"
    /\ leaf' = [leaf EXCEPT ![i] =
                  IF last[i].err /\ ~ctxDone /\ attempts[i] <= RetryEach
                  THEN "run" ELSE "store"]
    /\ UNCHANGED <<main, next, attempts, last, results, ctxDone, outVars>>

Store(i) ==
    /\ leaf[i] = "store"
    /\ results' = [results EXCEPT ![i] = last[i]]
    /\ leaf' = [leaf EXCEPT ![i] = "release"]
    /\ UNCHANGED <<main, next, attempts, last, ctxDone, outVars>>

\* The deferred calls, last first: give the slot back, then wg.Done.
LeafExit(i) ==
    /\ leaf[i] = "release"
    /\ leaf' = [leaf EXCEPT ![i] = "done"]
    /\ UNCHANGED <<main, next, attempts, last, results, ctxDone, outVars>>

Wait ==
    /\ main = "wait"
    /\ Waited = {}
    /\ main' = "snapshot"
    /\ UNCHANGED <<next, leafVars, ctxDone, outVars>>

-----------------------------------------------------------------------------
AllOK == \A i \in Leaves : ~results[i].err

\* Bug: only a run with a failed leaf counts as cancelled.
Snapshot_onlyFailed ==
    /\ main = "snapshot"
    /\ cancelled' = (ctxDone /\ ~AllOK)
    /\ result' = [result EXCEPT !.ok = AllOK]
    /\ next' = 1
    /\ main' = "start"
    /\ UNCHANGED <<leafVars, ctxDone, ledger, ledgerErrs>>

\* The roll-up (sorting the results by LeafID keeps the plan's order) and the
\* single look at the context that decides what the ledger will say.
Snapshot ==
    /\ main = "snapshot"
    /\ cancelled' = ctxDone
    /\ result' = [result EXCEPT !.ok = AllOK]
    /\ next' = 1
    /\ main' = "start"
    /\ UNCHANGED <<leafVars, ctxDone, ledger, ledgerErrs>>

\* writeEntry: a failed append is collected, the merge goes on.
WriteEntry(e) ==
    \/ /\ ledger' = Append(ledger, e)
       /\ UNCHANGED ledgerErrs
    \/ /\ LedgerFails
       /\ ledgerErrs' = TRUE
       /\ UNCHANGED ledger

WriteStart ==
    /\ main = "start"
    /\ WriteEntry([kind |-> "start"])
    /\ main' = IF N = 0 THEN "final" ELSE "entries"
    /\ UNCHANGED <<next, leafVars, ctxDone, cancelled, result>>

NextLeaf == /\ main' = IF next = N THEN "final" ELSE "entries"
            /\ next' = next + 1

\* A leaf's own entries are merged whatever became of the run ...
MergeEntries ==
    /\ main = "entries"
    /\ IF results[next].entry THEN WriteEntry([kind |-> "leaf", leaf |-> next])
                              ELSE UNCHANGED <<ledger, ledgerErrs>>
    /\ IF cancelled THEN NextLeaf ELSE main' = "verdict" /\ UNCHANGED next
    /\ UNCHANGED <<leafVars, ctxDone, cancelled, result>>

\* ... its ok / error line only if the run was not cancelled.
MergeVerdict ==
    /\ main = "verdict"
    /\ WriteEntry([kind |-> IF results[next].err THEN "leaf-error" ELSE "leaf-ok",
                   leaf |-> next])
    /\ NextLeaf
    /\ UNCHANGED <<leafVars, ctxDone, cancelled, result>>

\* Bug: the final entry follows the context instead of the snapshot.
WriteFinal_reread ==
    /\ main = "final"
    /\ WriteEntry([kind |-> IF ctxDone THEN "cancel"
                            ELSE IF result.ok THEN "done-ok" ELSE "done-error"])
    /\ main' = "return"
    /\ UNCHANGED <<next, leafVars, ctxDone, cancelled, result>>

WriteFinal ==
    /\ main = "final"
    /\ WriteEntry([kind |-> IF cancelled THEN "cancel"
                            ELSE IF result.ok THEN "done-ok" ELSE "done-error"])
    /\ main' = "return"
    /\ UNCHANGED <<next, leafVars, ctxDone, cancelled, result>>

\* Bug: a cancelled run keeps the roll-up of its leaves.
Finish_keepOK ==
    /\ main = "return"
    /\ result' = [returned |-> TRUE, ok |-> result.ok, cancelled |-> cancelled]
    /\ main' = "returned"
    /\ UNCHANGED <<next, leafVars, ctxDone, cancelled, ledger, ledgerErrs>>

Finish ==
    /\ main = "return"
    /\ result' = [returned |-> TRUE, ok |-> result.ok /\ ~cancelled,
                  cancelled |-> cancelled]
    /\ main' = "returned"
    /\ UNCHANGED <<next, leafVars, ctxDone, cancelled, ledger, ledgerErrs>>

\* CancelTask, a client disconnect or a signal.
Cancel == /\ ~ctxDone
          /\ ctxDone' = TRUE
          /\ UNCHANGED <<main, next, leafVars, outVars>>

LeafStep(i) == RunReturn(i) \/ Retry(i) \/ Store(i) \/ LeafExit(i)
MainStep == \/ SpawnCheck \/ Acquire \/ Wait \/ Snapshot \/ WriteStart
            \/ MergeEntries \/ MergeVerdict \/ WriteFinal \/ Finish

Next == MainStep \/ (\E i \in Leaves : LeafStep(i)) \/ Cancel

Spec == Init /\ [][Next]_vars

\* Goroutines are scheduled; nothing makes a leaf's o.Run return.
FairSpec == /\ Spec /\ WF_vars(MainStep)
            /\ \A i \in Leaves : WF_vars(Retry(i) \/ Store(i) \/ LeafExit(i))

-----------------------------------------------------------------------------
\* The caller is told OK only if every planned leaf ran and its last attempt
\* returned nil: the zero LeafResult of a leaf that was never spawned looks
\* like success and must not count as one.
OKMeansEveryLeafRan ==
    result.returned /\ result.ok =>
        \A i \in Leaves : attempts[i] > 0 /\ ~last[i].err

Kinds(k) == {n \in DOMAIN ledger : ledger[n].kind = k}

\* Without append errors the ledger tells the same story as the result: one
\* start, one final entry at the end, agreeing with ok and cancelled, and a
\* verdict for every leaf unless the run was cancelled.
LedgerMatchesResult ==
    result.returned /\ ~ledgerErrs =>
        LET final == ledger[Len(ledger)].kind IN
        /\ Kinds("start") = {1}
        /\ Cardinality(Kinds("cancel") \cup Kinds("done-ok") \cup Kinds("done-error")) = 1
        /\ final = "cancel" <=> result.cancelled
        /\ final = "done-ok" <=> result.ok
        /\ Cardinality(Kinds("leaf-ok") \cup Kinds("leaf-error"))
              = IF result.cancelled THEN 0 ELSE N

Ends(i) == []<>(leaf[i] # "run")

\* If the leaves' runs return, Execute does; and cancelling the context ends the
\* run as cancelled, unless the outcome had already been decided.  A leaf whose
\* run never returns keeps its slot, and with a second slot every other leaf
\* runs all the same, unless the run is cancelled before its turn.
ExecuteEnds ==
    /\ (\A i \in Leaves : Ends(i)) =>
           /\ <>(main = "returned")
           /\ [](ctxDone /\ main \in {"check", "acquire", "wait", "snapshot"}
                   => <>(main = "returned" /\ result.cancelled /\ ~result.ok))
    /\ MaxPar > 1 =>
           \A h \in Leaves : (\A i \in Leaves \ {h} : Ends(i)) =>
               \A i \in Leaves \ {h} : <>(leaf[i] = "done" \/ (ctxDone /\ leaf[i] = "none"))
=============================================================================
