------------------------------- MODULE Gates -------------------------------
(***************************************************************************)
(* The three commands whose exit code says whether a build or the fleet is *)
(* fit: `fleetctl verify' runs its checks in goroutines behind a           *)
(* semaphore, `usecase-tests' its scenarios one after the other, and       *)
(* `test' the steps of scenario files as shell commands.                   *)
(*                                                                         *)
(* Checks, scenarios and scenario files are numbered in their order.       *)
(* Operators named A_xyz are plausible bugs of the definition A below them.*)
(***************************************************************************)
EXTENDS Naturals, FiniteSets

CONSTANTS
    NumChecks,      \* checks, scenarios or scenario files there are
    NumShell,       \* the first of verify's checks: those that run go commands
    NumSteps,       \* steps of a scenario file
    MaxParallel     \* verify's --parallel

Checks == 1..NumChecks
Unknown == 0                        \* an ID nobody knows
Blank == NumChecks + 1              \* an ID of white space
Lines == [name : {"verify", "usecase-tests", "test"},
          asked : SUBSET (Checks \cup {Unknown, Blank}),    \* --check, --scenario
          goOn : BOOLEAN,           \* --continue-on-fail
          repo : BOOLEAN,           \* there is a go.mod
          noTime : BOOLEAN]         \* --timeout 0

VARIABLES
    line,       \* the command line and where it is run
    at,         \* "start", "loop", "wait", "end"
    next, step, \* the loops' variables
    task,       \* [Checks -> the goroutine of the check, for verify]
    result,     \* [Checks -> the result; "zero" is the zero value of Result]
    exit,       \* "none", "ok", "error": the command's exit code
    summary,    \* the same for the last line it logs
    good,       \* history: steps that ran and whose verdict was not a failure
    missed      \* history: steps of test whose shell did not start

vars == <<line, at, next, step, task, result, exit, summary, good, missed>>

TypeOK ==
    /\ line \in Lines /\ at \in {"start", "loop", "wait", "end"}
    /\ next \in 1..NumChecks + 1 /\ step \in 1..NumSteps
    /\ task \in [Checks -> {"none", "runs", "stored", "freed", "done"}]
    /\ result \in [Checks -> {"zero", "pass", "warn", "skip", "fail", "invalid"}]
    /\ exit \in {"none", "ok", "error"} /\ summary \in {"none", "ok", "warn", "error"}
    /\ good \subseteq Checks \X (1..NumSteps) /\ missed \subseteq Checks \X (1..NumSteps)

Init ==
    /\ line \in Lines /\ at = "start" /\ next = 1 /\ step = 1
    /\ task = [c \in Checks |-> "none"] /\ result = [c \in Checks |-> "zero"]
    /\ exit = "none" /\ summary = "none" /\ good = {} /\ missed = {}

\* FilterByIDs, buildFilter and Filter: no filter selects everything.
Picked == IF line.asked = {} THEN Checks ELSE line.asked \cap Checks

\* Only usecase-tests minds an unknown ID beside known ones, and only it does
\* not mind when nothing is left.
Refused ==
    IF line.name = "usecase-tests"
    THEN Unknown \in line.asked
    ELSE Picked = {}

Begin ==
    /\ at = "start"
    /\ IF Refused THEN at' = "end" /\ exit' = "error"
       ELSE at' = "loop" /\ UNCHANGED exit
    /\ UNCHANGED <<line, next, step, task, result, summary, good, missed>>

\* The loop goes on with the next element, or the command with what follows it.
Advance == next' = next + 1 /\ at' = IF next = NumChecks THEN "wait" ELSE "loop"

PassOver ==
    /\ at = "loop" /\ next \notin Picked
    /\ Advance
    /\ result' = [result EXCEPT ![next] = IF line.name = "usecase-tests" THEN "skip" ELSE @]
    /\ UNCHANGED <<line, step, task, exit, summary, good, missed>>

-----------------------------------------------------------------------------
(* verify.                                                                 *)

\* Without a go.mod the checks that run go commands fail and do not count.
Optional == IF line.repo THEN {} ELSE 1..NumShell

Spawn ==
    /\ line.name = "verify" /\ at = "loop" /\ next \in Picked
    /\ Cardinality({c \in Checks : task[c] \in {"runs", "stored"}}) < MaxParallel
    /\ Advance
    /\ task' = [task EXCEPT ![next] = "runs"]
    /\ UNCHANGED <<line, step, result, exit, summary, good, missed>>

\* A check passes or fails; a self-test works in a directory of its own.
runOne(c) ==
    /\ task[c] = "runs"
    /\ task' = [task EXCEPT ![c] = "stored"]
    /\ \/ /\ c \notin Optional
          /\ result' = [result EXCEPT ![c] = "pass"]
          /\ good' = good \cup {<<c, 1>>}
       \/ result' = [result EXCEPT ![c] = "fail"] /\ UNCHANGED good
    /\ UNCHANGED <<line, at, next, step, exit, summary, missed>>

\* The deferred calls of the goroutine, the last one first.
Leave(c) ==
    /\ \/ task[c] = "stored" /\ task' = [task EXCEPT ![c] = "freed"]
       \/ task[c] = "freed" /\ task' = [task EXCEPT ![c] = "done"]
    /\ UNCHANGED <<line, at, next, step, result, exit, summary, good, missed>>

RunAll_noWait ==
    /\ line.name = "verify" /\ at = "wait"
    /\ at' = "end"
    /\ exit' = IF \E c \in Picked \ Optional : result[c] = "fail" THEN "error" ELSE "ok"
    /\ summary' \in {exit', "none"}
    /\ UNCHANGED <<line, next, step, task, result, good, missed>>

\* wg.Wait; only a failure counts against the gate.  The log is best effort.
RunAll ==
    /\ line.name = "verify" /\ at = "wait"
    /\ \A c \in Picked : task[c] = "done"
    /\ at' = "end"
    /\ exit' = IF \E c \in Picked \ Optional : result[c] = "fail" THEN "error" ELSE "ok"
    /\ summary' \in {exit', "none"}
    /\ UNCHANGED <<line, next, step, task, result, good, missed>>

-----------------------------------------------------------------------------
(* usecase-tests.                                                          *)

\* A failure, or a status that is none, ends the loop unless told otherwise.
RunScenario ==
    /\ line.name = "usecase-tests" /\ at = "loop" /\ next \in Picked
    /\ \/ \E s \in {"pass", "warn", "skip"} :
            /\ result' = [result EXCEPT ![next] = s]
            /\ good' = good \cup {<<next, 1>>}
            /\ Advance
       \/ \E s \in {"fail", "invalid"} :
            /\ result' = [result EXCEPT ![next] = s]
            /\ IF line.goOn THEN Advance ELSE at' = "wait" /\ UNCHANGED next
            /\ UNCHANGED good
    /\ UNCHANGED <<line, step, task, exit, summary, missed>>

Count(s) == \E c \in Checks : result[c] \in s

runUsecaseTests ==
    /\ line.name = "usecase-tests" /\ at = "wait"
    /\ at' = "end"
    /\ exit' = IF Count({"fail", "invalid"}) THEN "error" ELSE "ok"
    /\ summary' \in {"none", IF Count({"fail", "invalid"}) THEN "error"
                             ELSE IF Count({"warn"}) THEN "warn" ELSE "ok"}
    /\ UNCHANGED <<line, next, step, task, result, good, missed>>

-----------------------------------------------------------------------------
(* test.                                                                   *)

\* The step's own outcome: its shell ran and met what the step expects, ran and
\* did not, or never started.  stepRunner gives exit code 0 for a shell that
\* did not start and runScenario drops its error, so that a step that expects
\* nothing else passes.
StepPasses ==
    \/ ~line.noTime /\ good' = good \cup {<<next, step>>} /\ UNCHANGED missed
    \/ missed' = missed \cup {<<next, step>>} /\ UNCHANGED good

StepFails ==
    \/ ~line.noTime /\ UNCHANGED <<good, missed>>
    \/ missed' = missed \cup {<<next, step>>} /\ UNCHANGED good

runScenario ==
    /\ line.name = "test" /\ at = "loop" /\ next \in Picked
    /\ \/ /\ StepPasses
          /\ IF step < NumSteps
             THEN step' = step + 1 /\ UNCHANGED <<at, next, result>>
             ELSE step' = 1 /\ Advance /\ result' = [result EXCEPT ![next] = "pass"]
       \/ /\ StepFails
          /\ step' = 1 /\ result' = [result EXCEPT ![next] = "fail"]
          /\ IF line.goOn THEN Advance ELSE at' = "wait" /\ UNCHANGED next
    /\ UNCHANGED <<line, task, exit, summary>>

runTest ==
    /\ line.name = "test" /\ at = "wait"
    /\ at' = "end"
    /\ exit' = IF Count({"fail"}) THEN "error" ELSE "ok"
    /\ UNCHANGED <<line, next, step, task, result, summary, good, missed>>

Next ==
    \/ Begin \/ PassOver
    \/ Spawn \/ RunAll \/ \E c \in Checks : runOne(c) \/ Leave(c)
    \/ RunScenario \/ runUsecaseTests
    \/ runScenario \/ runTest

Spec == Init /\ [][Next]_vars

-----------------------------------------------------------------------------
\* What a green exit has to stand for.
Required == (Picked \ IF line.name = "verify" THEN Optional ELSE {})
            \X (1..IF line.name = "test" THEN NumSteps ELSE 1)

\* A green exit code of verify, usecase-tests or test means that every required
\* check that was selected has run to its end without a failure, and that the
\* log does not say otherwise: no zero Result, no status that is none and no
\* check behind a break counts as a pass (RunAll, Runner.Run, runTest).  The
\* exception are steps of test whose shell did not start, although test_runner.go
\* says at 54-55 that it "executes each step as a shell command".
GreenMeansGood ==
    exit = "ok" => Required \subseteq good \cup missed /\ summary # "error"
=============================================================================
