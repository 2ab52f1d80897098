-------------------------- MODULE Operations_proof --------------------------
(***************************************************************************)
(* Theorems about the subsystems of Operations, for every value of the     *)
(* constants.  Each section gives the slots x1 .. x12 the names they have  *)
(* in one subsystem, proves its result for the subsystem by itself, and    *)
(* then for Operations.                                                    *)
(***************************************************************************)
EXTENDS Operations, FiniteSets, FiniteSetTheorems, WellFoundedInduction,
        NaturalsInduction, TLAPS

\* A behaviour stays with the subsystem it began with.
LEMMA OneSubsystem == [Next]_vars => UNCHANGED which
  BY DEF Next, vars

\* The least-number principle.
LEMMA LeastNumber ==
  ASSUME NEW T, T \subseteq Nat, T # {}
  PROVE  \E x \in T : \A y \in T : x <= y
<1>1. PICK x \in T : \A y \in T : ~(<<y, x>> \in OpToRel(<, Nat))
  BY WFMin, NatLessThanWellFounded
<1>2. ASSUME NEW y \in T, y < x PROVE FALSE
  <2>1. <<y, x>> \in Nat \X Nat /\ <<y, x>>[1] < <<y, x>>[2]
    BY <1>2
  <2>2. <<y, x>> \in {ss \in Nat \X Nat : ss[1] < ss[2]}
    BY <2>1
  <2>3. OpToRel(<, Nat) = {ss \in Nat \X Nat : ss[1] < ss[2]}
    BY Zenon DEF OpToRel
  <2> QED
    BY <1>1, <2>2, <2>3
<1>3. \A y \in T : x \in Int /\ y \in Int /\ ~(y < x)
  BY <1>2
<1> QED
  BY <1>3

-----------------------------------------------------------------------------
(***************************************************************************)
(* Step markers                                                            *)
(***************************************************************************)

\* The variables of Markers.
input == x1
marker == x2
tmp == x3
run == x4
done == x5
slipped == x6
skipped == x7
USE DEF input, marker, tmp, run, done, slipped, skipped

\* What a run of the pipeline is at.
RunRecs == [at : {"idle", "verify", "step", "hash", "open", "write", "rename"},
            on : Inputs \cup {"none"}, fd : {"none", "tmp", "marker", "unlinked"}]

\* The hash that a run is going to write, or has written, is of an input the
\* step was completed with, or of one that arrived before `markers hash' read it.
RunGood(x, completed, arrived) ==
    /\ x.at \in {"verify", "step"} => x.on \in Inputs
    /\ x.at = "hash" => x.on \in completed
    /\ x.at \in {"open", "write", "rename"} => x.on \in completed \cup arrived

\* So is the one in the marker and in the temporary file.
MarkedInv ==
    /\ marker \in done \cup slipped \cup {"absent", "partial"}
    /\ tmp \in done \cup slipped \cup {"absent", "partial"}
    /\ \A r \in Processes : RunGood(run[r], done, slipped)
    /\ skipped \subseteq done \cup slipped

\* What Take, Goto and the opening of the temporary file make of the
\* record of a run.
LEMMA OneRecord ==
  ASSUME run \in [Processes -> RunRecs], input \in Inputs, NEW r \in Processes,
         NEW step \in {"idle", "verify", "step", "hash", "open", "write", "rename"}
  PROVE  /\ M!Take(r, step) => \E x \in RunRecs : /\ run' = [run EXCEPT ![r] = x]
                                                 /\ x.at = step /\ x.on = input
         /\ M!Goto(r, step) => \E x \in RunRecs : /\ run' = [run EXCEPT ![r] = x]
                                                 /\ x.at = step /\ x.on = run[r].on
         /\ run' = [run EXCEPT ![r].at = step, ![r].fd = "tmp"] =>
              \E x \in RunRecs : /\ run' = [run EXCEPT ![r] = x]
                                /\ x.at = step /\ x.on = run[r].on
<1> DEFINE y == [run[r] EXCEPT !.at = step]
           z == [y EXCEPT !.on = input]
           w == [y EXCEPT !.fd = "tmp"]
<1>1. run[r] \in RunRecs
  OBVIOUS
<1>2. y \in RunRecs /\ y.at = step /\ y.on = run[r].on
  BY <1>1 DEF RunRecs
<1>3. /\ [run EXCEPT ![r].at = step] = [run EXCEPT ![r] = y]
      /\ [run EXCEPT ![r].at = step, ![r].on = input] = [run EXCEPT ![r] = z]
      /\ [run EXCEPT ![r].at = step, ![r].fd = "tmp"] = [run EXCEPT ![r] = w]
  OBVIOUS
<1> HIDE DEF y
<1>4. z \in RunRecs /\ z.at = step /\ z.on = input
  BY <1>2 DEF RunRecs
<1>5. w \in RunRecs /\ w.at = step /\ w.on = run[r].on
  BY <1>2 DEF RunRecs
<1> HIDE DEF z, w
<1> QED
  BY <1>2, <1>3, <1>4, <1>5 DEF M!Take, M!Goto

\* A step of one run leaves the others alone.
LEMMA OneRunSteps ==
  ASSUME M!TypeOK, MarkedInv, NEW r \in Processes, NEW x \in RunRecs,
         run' = [run EXCEPT ![r] = x], RunGood(x, done', slipped'),
         done \subseteq done', slipped \subseteq slipped'
  PROVE  run' \in [Processes -> RunRecs] /\ \A q \in Processes : RunGood(run'[q], done', slipped')
<1>1. run \in [Processes -> RunRecs]
  BY DEF M!TypeOK, M!NoInput, RunRecs
<1>2. ASSUME NEW q \in Processes PROVE RunGood(run'[q], done', slipped')
  <2>1. CASE q = r
    <3>1. run'[q] = x
      BY <1>1, <2>1
    <3> QED
      BY <3>1 DEF RunGood
  <2>2. CASE q # r
    <3>1. run'[q] = run[q] /\ RunGood(run[q], done, slipped)
      BY <1>1, <2>2 DEF MarkedInv
    <3> QED
      BY <3>1 DEF RunGood
  <2> QED
    BY <2>1, <2>2
<1> QED
  BY <1>1, <1>2

\* Renaming and unlinking change what the descriptors stand for, no more.
LEMMA DescriptorsMove ==
  ASSUME M!TypeOK, MarkedInv, NEW where \in [{"none", "tmp", "marker", "unlinked"} ->
                                             {"none", "tmp", "marker", "unlinked"}]
  PROVE  /\ M!Moved(where) \in [Processes -> RunRecs]
         /\ \A q \in Processes : M!Moved(where)[q].at = run[q].at /\ M!Moved(where)[q].on = run[q].on
<1>1. run \in [Processes -> RunRecs]
  BY DEF M!TypeOK, M!NoInput, RunRecs
<1>2. ASSUME NEW q \in Processes
      PROVE  /\ [run[q] EXCEPT !.fd = where[run[q].fd]] \in RunRecs
             /\ [run[q] EXCEPT !.fd = where[run[q].fd]].at = run[q].at
             /\ [run[q] EXCEPT !.fd = where[run[q].fd]].on = run[q].on
  <2>1. run[q] \in RunRecs
    BY <1>1
  <2> QED
    BY <2>1 DEF RunRecs
<1> QED
  BY <1>2 DEF M!Moved

\* The same, and one run ends.
LEMMA MovedOnly ==
  ASSUME M!TypeOK, MarkedInv, UNCHANGED <<done, slipped>>,
         NEW where \in [{"none", "tmp", "marker", "unlinked"} ->
                        {"none", "tmp", "marker", "unlinked"}]
  PROVE  /\ M!Moved(where) \in [Processes -> RunRecs]
         /\ \A q \in Processes : RunGood(M!Moved(where)[q], done', slipped')
<1>1. ASSUME NEW q \in Processes PROVE RunGood(M!Moved(where)[q], done', slipped')
  <2>1. M!Moved(where)[q].at = run[q].at /\ M!Moved(where)[q].on = run[q].on
    BY DescriptorsMove
  <2>2. RunGood(run[q], done, slipped)
    BY DEF MarkedInv
  <2> QED
    BY <2>1, <2>2 DEF RunGood
<1> QED
  BY <1>1, DescriptorsMove

\* A run that ends while its file, and those of others, moved to another name.
LEMMA MovedThenIdle ==
  ASSUME M!TypeOK, MarkedInv, UNCHANGED <<done, slipped>>, NEW r \in Processes,
         NEW where \in [{"none", "tmp", "marker", "unlinked"} ->
                        {"none", "tmp", "marker", "unlinked"}],
         run' = [M!Moved(where) EXCEPT ![r] = M!Idle]
  PROVE  /\ run' \in [Processes -> RunRecs]
         /\ \A q \in Processes : RunGood(run'[q], done', slipped')
<1>1. M!Idle \in RunRecs /\ RunGood(M!Idle, done', slipped')
  BY DEF M!Idle, M!NoInput, RunRecs, RunGood
<1> QED
  BY <1>1, MovedOnly

\* Every step keeps the types and the invariant.
LEMMA MarkedNext ==
  ASSUME Inputs \cap {"absent", "partial", "none"} = {},
         M!TypeOK, MarkedInv, [M!Next]_(M!vars)
  PROVE  M!TypeOK' /\ MarkedInv'
<1> USE DEF M!At, M!End, M!history
<1> DEFINE Kept ==
                 /\ run' \in [Processes -> RunRecs] /\ (\A q \in Processes : RunGood(run'[q], done', slipped'))
                 /\ input' \in Inputs
                 /\ done' \subseteq Inputs /\ slipped' \subseteq Inputs
                 /\ marker' \in done' \cup slipped' \cup {"absent", "partial"}
                 /\ tmp' \in done' \cup slipped' \cup {"absent", "partial"}
                 /\ skipped' \subseteq done' \cup slipped'
<1>t. /\ run \in [Processes -> RunRecs] /\ M!Idle \in RunRecs /\ M!Idle.at = "idle"
      /\ input \in Inputs /\ marker \in Inputs \cup {"absent", "partial"}
      /\ tmp \in Inputs \cup {"absent", "partial"}
      /\ done \subseteq Inputs /\ slipped \subseteq Inputs /\ skipped \subseteq Inputs
  BY DEF M!TypeOK, M!NoInput, M!Idle, M!Files, RunRecs
<1>s. SUFFICES Kept
  BY DEF M!TypeOK, M!NoInput, M!Files, RunRecs, MarkedInv
<1>m. /\ marker \in done \cup slipped \cup {"absent", "partial"}
      /\ tmp \in done \cup slipped \cup {"absent", "partial"}
      /\ skipped \subseteq done \cup slipped
      /\ \A q \in Processes : RunGood(run[q], done, slipped)
  BY DEF MarkedInv
<1>w. /\ \A f : [g \in {"none", "tmp", "marker", "unlinked"} |-> IF g = f THEN "unlinked" ELSE g]
              \in [{"none", "tmp", "marker", "unlinked"} -> {"none", "tmp", "marker", "unlinked"}]
      /\ [none |-> "none", tmp |-> "marker", marker |-> "unlinked", unlinked |-> "unlinked"]
              \in [{"none", "tmp", "marker", "unlinked"} -> {"none", "tmp", "marker", "unlinked"}]
  OBVIOUS
<1>1. ASSUME NEW r \in Processes,
             \/ M!runMarkersVerify(r) \/ M!IsFresh(r) \/ M!RunStep(r)
             \/ M!runMarkersHash(r) \/ M!OpenTmp(r) \/ M!Die(r)
      PROVE  Kept
  <2>r. run[r] \in RunRecs /\ RunGood(run[r], done, slipped)
    BY <1>t, <1>m
  <2>f. run[r].fd \in {"none", "tmp", "marker", "unlinked"} /\ run[r].on \in Inputs \cup {"none"}
    BY <2>r DEF RunRecs
  <2>i. RunGood(M!Idle, done', slipped') /\ M!Idle \in RunRecs
    BY <1>t DEF RunGood
  <2>1. CASE M!runMarkersVerify(r)
    <3>1. PICK x \in RunRecs : run' = [run EXCEPT ![r] = x] /\ x.at = "verify" /\ x.on = input
      BY <1>t, <2>1, OneRecord DEF M!runMarkersVerify
    <3>2. RunGood(x, done', slipped')
      BY <1>t, <3>1 DEF RunGood
    <3> QED
      BY <1>t, <1>m, <2>1, <3>1, <3>2, OneRunSteps DEF M!runMarkersVerify
  <2>2. CASE M!IsFresh(r)
    <3>1. CASE marker = run[r].on
      <4>1. run[r].on \in Inputs
        BY <2>2, <2>r DEF M!IsFresh, RunGood
      <4>2. run[r].on \in done \cup slipped
        BY <1>m, <3>1, <4>1
      <4> QED
        BY <1>t, <1>m, <2>2, <2>i, <3>1, <4>2, OneRunSteps DEF M!IsFresh
    <3>2. CASE marker # run[r].on
      <4>1. PICK x \in RunRecs : run' = [run EXCEPT ![r] = x] /\ x.at = "step" /\ x.on = input
        BY <1>t, <2>2, <3>2, OneRecord DEF M!IsFresh
      <4>2. RunGood(x, done', slipped')
        BY <1>t, <4>1 DEF RunGood
      <4> QED
        BY <1>t, <1>m, <2>2, <3>2, <4>1, <4>2, OneRunSteps DEF M!IsFresh
    <3> QED
      BY <3>1, <3>2
  <2>3. CASE M!RunStep(r)
    <3>1. CASE M!Goto(r, "hash") /\ done' = done \cup {run[r].on}
      <4>1. PICK x \in RunRecs : run' = [run EXCEPT ![r] = x] /\ x.at = "hash" /\ x.on = run[r].on
        BY <1>t, <3>1, OneRecord
      <4>2. RunGood(x, done', slipped')
        BY <3>1, <4>1 DEF RunGood
      <4>3. run[r].on \in Inputs
        BY <2>3, <2>r DEF M!RunStep, RunGood
      <4> QED
        BY <1>t, <1>m, <2>3, <3>1, <4>1, <4>2, <4>3, OneRunSteps DEF M!RunStep
    <3>2. CASE M!End(r) /\ done' = done
      BY <1>t, <1>m, <2>3, <2>i, <3>2, OneRunSteps DEF M!RunStep
    <3> QED
      BY <2>3, <3>1, <3>2 DEF M!RunStep
  <2>4. CASE M!runMarkersHash(r)
    <3>1. run[r].on \in done /\ input \in done' \cup slipped' /\ done' = done
      BY <2>4, <2>r DEF M!runMarkersHash, RunGood
    <3>2. PICK x \in RunRecs : run' = [run EXCEPT ![r] = x] /\ x.at = "open" /\ x.on = input
      BY <1>t, <2>4, OneRecord DEF M!runMarkersHash
    <3>3. RunGood(x, done', slipped')
      BY <1>t, <3>1, <3>2 DEF RunGood
    <3>4. slipped \subseteq slipped' /\ slipped' \subseteq Inputs
      BY <1>t, <2>4 DEF M!runMarkersHash
    <3> QED
      BY <1>t, <1>m, <2>4, <3>1, <3>2, <3>3, <3>4, OneRunSteps DEF M!runMarkersHash
  <2>5. CASE M!OpenTmp(r)
    <3>1. PICK x \in RunRecs : run' = [run EXCEPT ![r] = x] /\ x.at = "write" /\ x.on = run[r].on
      BY <1>t, <2>5, OneRecord DEF M!OpenTmp
    <3>2. RunGood(x, done', slipped')
      BY <2>5, <2>r, <3>1 DEF M!OpenTmp, RunGood
    <3> QED
      BY <1>t, <1>m, <2>5, <3>1, <3>2, OneRunSteps DEF M!OpenTmp
  <2>6. CASE M!Die(r)
    BY <1>t, <1>m, <2>6, <2>i, OneRunSteps DEF M!Die
  <2> QED
    BY <1>1, <2>1, <2>2, <2>3, <2>4, <2>5, <2>6
<1>2. ASSUME NEW r \in Processes, M!WriteTmp(r) \/ M!Rename(r)
      PROVE  Kept
  <2>r. run[r] \in RunRecs /\ RunGood(run[r], done, slipped)
    BY <1>t, <1>m
  <2>f. run[r].fd \in {"none", "tmp", "marker", "unlinked"} /\ run[r].on \in Inputs \cup {"none"}
    BY <2>r DEF RunRecs
  <2>i. RunGood(M!Idle, done', slipped') /\ M!Idle \in RunRecs
    BY <1>t DEF RunGood
  <2>1. CASE M!WriteTmp(r)
    <3>1. CASE M!Goto(r, "rename") /\ tmp' = (IF run[r].fd = "tmp" THEN run[r].on ELSE tmp)
                 /\ marker' = (IF run[r].fd = "marker" THEN run[r].on ELSE marker)
      <4>1. run[r].on \in done \cup slipped
        BY <2>1, <2>r DEF M!WriteTmp, RunGood
      <4>2. PICK x \in RunRecs : run' = [run EXCEPT ![r] = x] /\ x.at = "rename" /\ x.on = run[r].on
        BY <1>t, <3>1, OneRecord
      <4>3. RunGood(x, done', slipped')
        BY <2>1, <4>1, <4>2 DEF M!WriteTmp, RunGood
      <4> QED
        BY <1>t, <1>m, <2>1, <3>1, <4>1, <4>2, <4>3, OneRunSteps DEF M!WriteTmp
    <3>2. CASE tmp' = "absent" /\ marker' = marker
                 /\ run' = [M!Unlinked("tmp") EXCEPT ![r] = M!Idle]
      BY <1>t, <1>m, <1>w, <2>1, <2>i, <3>2, MovedThenIdle DEF M!WriteTmp, M!Unlinked
    <3> QED
      BY <2>1, <3>1, <3>2 DEF M!WriteTmp
  <2>2. CASE M!Rename(r)
    <3>1. CASE tmp = "absent"
      BY <1>t, <1>m, <2>2, <2>i, <3>1, OneRunSteps DEF M!Rename
    <3>2. CASE tmp # "absent"
      BY <1>t, <1>m, <1>w, <2>2, <2>i, <3>2, MovedThenIdle DEF M!Rename, M!Renamed
    <3> QED
      BY <3>1, <3>2
  <2> QED
    BY <1>2, <2>1, <2>2
<1>3. CASE M!runMarkersInvalidate
  BY <1>t, <1>m, <1>w, <1>3, MovedOnly DEF M!runMarkersInvalidate, M!Unlinked
<1>4. CASE M!NewInput
  BY <1>t, <1>m, <1>4 DEF M!NewInput
<1>5. CASE UNCHANGED M!vars
  BY <1>t, <1>m, <1>5 DEF M!vars
<1> QED
  BY <1>1, <1>2, <1>3, <1>4, <1>5 DEF M!Next

\* The subsystem by itself.
LEMMA MarkersAlone == M!Spec => []M!SkipMeansDone
<1>0. Inputs # {} /\ Inputs \cap {"absent", "partial", "none"} = {}
  BY OperationsAssumption
<1> USE <1>0
<1>1. M!Init => M!TypeOK /\ MarkedInv
  BY DEF M!Init, M!TypeOK, M!Idle, M!NoInput, M!Files, MarkedInv, RunGood
<1>2. M!TypeOK /\ MarkedInv /\ [M!Next]_(M!vars) => M!TypeOK' /\ MarkedInv'
  BY MarkedNext
<1>3. MarkedInv => M!SkipMeansDone
  BY DEF MarkedInv, M!SkipMeansDone
<1> QED
  BY <1>1, <1>2, <1>3, PTL DEF M!Spec

(***************************************************************************)
(* `markers verify' says that a step may be skipped only for an input the  *)
(* step was completed with, or one that arrived before `markers hash' read *)
(* it: for any number of runs that overlap, share the temporary file and   *)
(* die, and any inputs.                                                    *)
(***************************************************************************)
THEOREM MarkersSound == Spec => []SkipMeansDone
<1>1. Init /\ which = "markers" => M!Init
  BY DEF Init
<1>2. [Next]_vars /\ which = "markers" => [M!Next]_(M!vars)
  BY DEF Next, vars, M!vars
<1>3. [Next]_vars => (which = "markers" <=> (which = "markers")')
  BY OneSubsystem
<1> QED
  BY <1>1, <1>2, <1>3, MarkersAlone, PTL DEF Spec, M!Spec, SkipMeansDone

HIDE DEF input, marker, tmp, run, done, slipped, skipped

-----------------------------------------------------------------------------
(***************************************************************************)
(* Pairings                                                                *)
(***************************************************************************)

\* The variables of Pairing.
file == x1
act == x2
outcome == x3
created == x4
revoking == x5
revoked == x6
USE DEF file, act, outcome, created, revoking, revoked

\* What a process is doing with the store.
ActRecs == [at : {"idle", "open", "write", "read"}, id : Ids \cup {"none"},
            to : {"active", "inactive"}]

\* The process is writing a new pairing, or a revoked one.
Creates(x) == x.at \in {"open", "write"} /\ x.to = "active"
Revokes(x) == x.at \in {"open", "write"} /\ x.to = "inactive"

\* A pairing being created has no file yet, or a truncated one, and no history;
\* one whose revocation is being written was seen active.
ActGood(x, f, c, rg, rd) ==
    /\ x.at # "idle" => x.id \in Ids
    /\ x.at = "read" => x.to = "inactive"
    /\ Creates(x) => /\ f[x.id] = IF x.at = "open" THEN "absent" ELSE "torn"
                     /\ x.id \notin c \cup rg \cup rd
    /\ Revokes(x) => x.id \in rg

\* What the file of a pairing says of its history.
FileGood(i, f, c, rg, rd) ==
    /\ i \in c \cup rg \cup rd => f[i] # "absent"
    /\ i \in c \ rg => f[i] = "active"
    /\ i \in rd => f[i] # "active"

PairedInv ==
    /\ \A p \in Processes : ActGood(act[p], file, created, revoking, revoked)
    /\ \A p, q \in Processes : Creates(act[p]) /\ Creates(act[q]) /\ act[p].id = act[q].id => p = q
    /\ \A i \in Ids : FileGood(i, file, created, revoking, revoked)

\* The record of a process after Goto.
LEMMA ActRecord ==
  ASSUME act \in [Processes -> ActRecs], NEW p \in Processes,
         NEW step \in {"idle", "open", "write", "read"}, P!Goto(p, step)
  PROVE  \E x \in ActRecs : /\ act' = [act EXCEPT ![p] = x]
                            /\ x.at = step /\ x.id = act[p].id /\ x.to = act[p].to
<1> DEFINE x == [act[p] EXCEPT !.at = step]
<1>1. act[p] \in ActRecs
  OBVIOUS
<1>2. x \in ActRecs /\ x.at = step /\ x.id = act[p].id /\ x.to = act[p].to
  BY <1>1 DEF ActRecs
<1>3. act' = [act EXCEPT ![p] = x]
  BY DEF P!Goto
<1> HIDE DEF x
<1> QED
  BY <1>2, <1>3

\* A step of process p that leaves it at x and changes the files and the history
\* keeps the invariant if it does so for p's own record and for the files, makes p
\* no second creator of a pairing, and does not touch what others are creating.
LEMMA OneProcessSteps ==
  ASSUME P!TypeOK, PairedInv, NEW p \in Processes, NEW x \in ActRecs, act' = [act EXCEPT ![p] = x],
         ActGood(x, file', created', revoking', revoked'),
         revoking \subseteq revoking',
         \A q \in Processes \ {p} : Creates(act[q]) =>
             /\ file'[act[q].id] = file[act[q].id]
             /\ act[q].id \notin (created' \cup revoking' \cup revoked')
             /\ Creates(x) => act[q].id # x.id,
         \A i \in Ids : FileGood(i, file', created', revoking', revoked')
  PROVE  act' \in [Processes -> ActRecs] /\ PairedInv'
<1>1. act \in [Processes -> ActRecs]
  BY DEF P!TypeOK, P!NoId, ActRecs
<1>2. act' \in [Processes -> ActRecs] /\ act'[p] = x /\ \A q \in Processes \ {p} : act'[q] = act[q]
  BY <1>1
<1>3. ASSUME NEW q \in Processes PROVE ActGood(act'[q], file', created', revoking', revoked')
  <2>1. CASE q = p
    BY <1>2, <2>1
  <2>2. CASE q # p
    <3>1. act'[q] = act[q] /\ ActGood(act[q], file, created, revoking, revoked)
      BY <1>2, <2>2 DEF PairedInv
    <3> QED
      BY <2>2, <3>1 DEF ActGood
  <2> QED
    BY <2>1, <2>2
<1>4. ASSUME NEW q \in Processes, NEW r \in Processes, Creates(act'[q]), Creates(act'[r]),
             act'[q].id = act'[r].id
      PROVE  q = r
  BY <1>2, <1>4 DEF PairedInv
<1> QED
  BY <1>2, <1>3, <1>4 DEF PairedInv

\* Every step of a pairing command keeps the invariant.
LEMMA PairedNext ==
  ASSUME "none" \notin Ids, P!TypeOK, PairedInv, [P!Next]_(P!vars)
  PROVE  P!TypeOK' /\ PairedInv'
<1> DEFINE Kept == /\ file' \in [Ids -> {"absent", "torn", "active", "inactive"}]
                   /\ outcome' \in {"none", "granted", "denied", "error"}
                   /\ created' \subseteq Ids /\ revoking' \subseteq Ids /\ revoked' \subseteq Ids
                   /\ act' \in [Processes -> ActRecs]
                   /\ PairedInv'
<1> USE DEF P!At, P!End, P!history
<1>t. /\ act \in [Processes -> ActRecs] /\ P!Idle \in ActRecs /\ P!Idle.at = "idle"
      /\ file \in [Ids -> {"absent", "torn", "active", "inactive"}]
      /\ outcome \in {"none", "granted", "denied", "error"}
      /\ created \subseteq Ids /\ revoking \subseteq Ids /\ revoked \subseteq Ids
  BY DEF P!TypeOK, P!Idle, P!NoId, ActRecs
<1>m. /\ \A p \in Processes : ActGood(act[p], file, created, revoking, revoked)
      /\ \A p, q \in Processes : Creates(act[p]) /\ Creates(act[q]) /\ act[p].id = act[q].id => p = q
      /\ \A i \in Ids : FileGood(i, file, created, revoking, revoked)
  BY DEF PairedInv
<1>s. SUFFICES Kept
  BY DEF P!TypeOK, P!NoId, ActRecs
<1>1. ASSUME NEW p \in Processes,
             \/ P!runPairCreate(p) \/ P!runPairRevoke(p) \/ P!Revoke(p)
             \/ P!Truncate(p) \/ P!Fill(p) \/ P!Die(p)
      PROVE  Kept
  <2>r. act[p] \in ActRecs /\ ActGood(act[p], file, created, revoking, revoked)
    BY <1>t, <1>m
  <2>i. \A f, c, rg, rd : ActGood(P!Idle, f, c, rg, rd)
    BY <1>t DEF ActGood, Creates, Revokes
  <2>o. \A q \in Processes : Creates(act[q]) =>
            /\ act[q].id \in Ids /\ file[act[q].id] \in {"absent", "torn"}
            /\ act[q].id \notin (created \cup revoking \cup revoked)
            /\ Creates(act[p]) /\ act[p].id = act[q].id => p = q
    BY <1>m DEF ActGood, Creates
  <2>1. CASE P!runPairCreate(p)
    <3>1. PICK i \in Ids : /\ file[i] = "absent" /\ \A q \in Processes : act[q].id # i
                          /\ act' = [act EXCEPT ![p] = [at |-> "open", id |-> i, to |-> "active"]]
      BY <2>1 DEF P!runPairCreate
    <3> DEFINE x == [at |-> "open", id |-> i, to |-> "active"]
    <3>2. x \in ActRecs /\ x.id = i /\ x.at = "open" /\ x.to = "active"
      BY DEF ActRecs
    <3>u. UNCHANGED <<file, outcome, created, revoking, revoked>>
      BY <2>1 DEF P!runPairCreate
    <3>x. act' = [act EXCEPT ![p] = x]
      BY <3>1
    <3> HIDE DEF x
    <3>3. i \notin created \cup revoking \cup revoked
      BY <1>m, <3>1 DEF FileGood
    <3>4. ActGood(x, file', created', revoking', revoked')
      BY <3>1, <3>2, <3>3, <3>u DEF ActGood, Creates, Revokes
    <3>o. \A q \in Processes \ {p} : Creates(act[q]) =>
              /\ file'[act[q].id] = file[act[q].id]
              /\ act[q].id \notin (created' \cup revoking' \cup revoked')
              /\ Creates(x) => act[q].id # x.id
      BY <2>o, <3>1, <3>2, <3>u
    <3>f. revoking \subseteq revoking' /\ \A j \in Ids : FileGood(j, file', created', revoking', revoked')
      BY <1>m, <3>u
    <3>5. act' \in [Processes -> ActRecs] /\ PairedInv'
      BY <3>2, <3>4, <3>x, <3>o, <3>f, OneProcessSteps
    <3> QED
      BY <1>t, <3>5, <3>u
  <2>2. CASE P!runPairRevoke(p)
    <3>1. PICK i \in Ids : act' = [act EXCEPT ![p] = [at |-> "read", id |-> i, to |-> "inactive"]]
      BY <2>2 DEF P!runPairRevoke
    <3> DEFINE x == [at |-> "read", id |-> i, to |-> "inactive"]
    <3>2. x \in ActRecs /\ x.id = i /\ x.at = "read" /\ x.to = "inactive"
      BY DEF ActRecs
    <3>u. UNCHANGED <<file, outcome, created, revoking, revoked>>
      BY <2>2 DEF P!runPairRevoke
    <3>x. act' = [act EXCEPT ![p] = x]
      BY <3>1
    <3> HIDE DEF x
    <3>4. ActGood(x, file', created', revoking', revoked') /\ ~Creates(x)
      BY <3>1, <3>2, <3>u DEF ActGood, Creates, Revokes
    <3>5. act' \in [Processes -> ActRecs] /\ PairedInv'
      BY <1>m, <2>o, <3>1, <3>2, <3>4, <3>u, <3>x, OneProcessSteps
    <3> QED
      BY <1>t, <3>5, <3>u
  <2>3. CASE P!Revoke(p)
    <3> DEFINE i == act[p].id
    <3>i. i \in Ids /\ act[p].to = "inactive"
      BY <2>3, <2>r DEF P!Revoke, ActGood
    <3>u. UNCHANGED <<file, outcome, created>>
      BY <2>3 DEF P!Revoke
    <3>1. CASE file[i] = "active" /\ P!Goto(p, "open") /\ revoking' = revoking \cup {i}
                 /\ revoked' = revoked
      <4>1. PICK x \in ActRecs : /\ act' = [act EXCEPT ![p] = x]
                                /\ x.at = "open" /\ x.id = act[p].id /\ x.to = act[p].to
        BY <1>t, <3>1, ActRecord
      <4>2. ActGood(x, file', created', revoking', revoked') /\ ~Creates(x)
        BY <3>i, <3>1, <3>u, <4>1 DEF ActGood, Creates, Revokes
      <4>3. \A j \in Ids : FileGood(j, file', created', revoking', revoked')
        BY <1>m, <3>1, <3>u DEF FileGood
      <4>4. \A q \in Processes : Creates(act[q]) => act[q].id # i
        BY <2>o, <3>1
      <4>5. act' \in [Processes -> ActRecs] /\ PairedInv'
        BY <2>o, <3>1, <3>u, <4>1, <4>2, <4>3, <4>4, OneProcessSteps
      <4> QED
        BY <1>t, <3>i, <3>1, <3>u, <4>5
    <3>2. CASE file[i] = "inactive" /\ P!End(p) /\ revoked' = revoked \cup {i}
                 /\ revoking' = revoking
      <4>1. \A j \in Ids : FileGood(j, file', created', revoking', revoked')
        BY <1>m, <3>2, <3>u DEF FileGood
      <4>2. \A q \in Processes : Creates(act[q]) => act[q].id # i
        BY <2>o, <3>2
      <4>3. ~Creates(P!Idle)
        BY <1>t DEF Creates
      <4>4. act' \in [Processes -> ActRecs] /\ PairedInv'
        BY <1>t, <2>o, <2>i, <3>2, <3>u, <4>1, <4>2, <4>3, OneProcessSteps
      <4> QED
        BY <1>t, <3>i, <3>2, <3>u, <4>4
    <3>3. CASE P!End(p) /\ UNCHANGED <<revoking, revoked>>
      <4>1. ~Creates(P!Idle)
        BY <1>t DEF Creates
      <4>2. act' \in [Processes -> ActRecs] /\ PairedInv'
        BY <1>t, <1>m, <2>o, <2>i, <3>3, <3>u, <4>1, OneProcessSteps
      <4> QED
        BY <1>t, <3>3, <3>u, <4>2
    <3> QED
      BY <2>3, <3>1, <3>2, <3>3 DEF P!Revoke
  <2>4. CASE P!Truncate(p)
    <3> DEFINE i == act[p].id
    <3>i. i \in Ids /\ (Creates(act[p]) \/ i \in revoking)
      BY <2>4, <2>r DEF P!Truncate, ActGood, ActRecs, Creates, Revokes
    <3>u. UNCHANGED <<outcome, created, revoking, revoked>>
      BY <2>4 DEF P!Truncate
    <3>1. CASE file' = [file EXCEPT ![i] = "torn"] /\ P!Goto(p, "write")
      <4>1. PICK x \in ActRecs : /\ act' = [act EXCEPT ![p] = x]
                                /\ x.at = "write" /\ x.id = act[p].id /\ x.to = act[p].to
        BY <1>t, <3>1, ActRecord
      <4>f. file'[i] = "torn" /\ \A j \in Ids \ {i} : file'[j] = file[j]
        BY <1>t, <3>i, <3>1
      <4>2. ActGood(x, file', created', revoking', revoked') /\ (Creates(x) <=> Creates(act[p]))
        BY <2>4, <2>r, <3>i, <3>u, <4>1, <4>f DEF P!Truncate, ActGood, Creates, Revokes
      <4>3. i \notin created \ revoking
        BY <2>o, <3>i
      <4>4. \A j \in Ids : FileGood(j, file', created', revoking', revoked')
        BY <1>m, <3>u, <4>f, <4>3 DEF FileGood
      <4>5. \A q \in Processes \ {p} : Creates(act[q]) => act[q].id # i
        BY <2>o, <3>i
      <4>o. \A q \in Processes \ {p} : Creates(act[q]) =>
                /\ file'[act[q].id] = file[act[q].id]
                /\ act[q].id \notin (created' \cup revoking' \cup revoked')
                /\ Creates(x) => act[q].id # x.id
        BY <2>o, <3>u, <4>1, <4>f, <4>5
      <4>6. act' \in [Processes -> ActRecs] /\ PairedInv'
        BY <3>u, <4>1, <4>2, <4>4, <4>o, OneProcessSteps
      <4> QED
        BY <1>t, <3>i, <3>1, <3>u, <4>6
    <3>2. CASE file' = file /\ P!End(p)
      <4>1. ~Creates(P!Idle)
        BY <1>t DEF Creates
      <4>2. act' \in [Processes -> ActRecs] /\ PairedInv'
        BY <1>t, <1>m, <2>o, <2>i, <3>2, <3>u, <4>1, OneProcessSteps
      <4> QED
        BY <1>t, <3>2, <3>u, <4>2
    <3> QED
      BY <2>4, <3>1, <3>2 DEF P!Truncate
  <2>5. CASE P!Fill(p)
    <3> DEFINE i == act[p].id
    <3>i. i \in Ids /\ (Creates(act[p]) \/ i \in revoking) /\ act[p].to \in {"active", "inactive"}
          /\ (Creates(act[p]) <=> act[p].to = "active")
      BY <2>5, <2>r DEF P!Fill, ActGood, ActRecs, Creates, Revokes
    <3>u. UNCHANGED <<outcome, revoking>> /\ act' = [act EXCEPT ![p] = P!Idle]
      BY <2>5 DEF P!Fill
    <3>d. ~Creates(P!Idle)
      BY <1>t DEF Creates
    <3>5. \A q \in Processes \ {p} : Creates(act[q]) => act[q].id # i
      BY <2>o, <3>i
    <3>1. CASE /\ file' = [file EXCEPT ![i] = act[p].to]
               /\ created' = IF act[p].to = "active" THEN created \cup {i} ELSE created
               /\ revoked' = IF act[p].to = "inactive" THEN revoked \cup {i} ELSE revoked
      <4>f. file'[i] = act[p].to /\ \A j \in Ids \ {i} : file'[j] = file[j]
        BY <1>t, <3>i, <3>1
      <4>1. act[p].to = "active" => i \notin (created \cup revoking \cup revoked)
        BY <2>o, <3>i
      <4>2. \A j \in Ids : FileGood(j, file', created', revoking', revoked')
        BY <1>m, <3>i, <3>u, <3>1, <4>f, <4>1 DEF FileGood
      <4>o. \A q \in Processes \ {p} : Creates(act[q]) =>
                /\ file'[act[q].id] = file[act[q].id]
                /\ act[q].id \notin (created' \cup revoking' \cup revoked')
                /\ Creates(P!Idle) => act[q].id # P!Idle.id
        BY <2>o, <3>u, <3>d, <3>5, <3>1, <4>f
      <4>3. act' \in [Processes -> ActRecs] /\ PairedInv'
        BY <1>t, <2>i, <3>u, <4>2, <4>o, OneProcessSteps
      <4> QED
        BY <1>t, <3>i, <3>1, <3>u, <4>3
    <3>2. CASE UNCHANGED <<file, created, revoked>>
      <4>1. act' \in [Processes -> ActRecs] /\ PairedInv'
        BY <1>t, <1>m, <2>o, <2>i, <3>u, <3>d, <3>2, OneProcessSteps
      <4> QED
        BY <1>t, <3>2, <3>u, <4>1
    <3> QED
      BY <2>5, <3>1, <3>2 DEF P!Fill
  <2>6. CASE P!Die(p)
    <3>1. UNCHANGED <<file, outcome, created, revoking, revoked>> /\ act' = [act EXCEPT ![p] = P!Idle]
      BY <2>6 DEF P!Die
    <3>2. ~Creates(P!Idle)
      BY <1>t DEF Creates
    <3>3. act' \in [Processes -> ActRecs] /\ PairedInv'
      BY <1>t, <1>m, <2>o, <2>i, <3>1, <3>2, OneProcessSteps
    <3> QED
      BY <1>t, <3>1, <3>3
  <2> QED
    BY <1>1, <2>1, <2>2, <2>3, <2>4, <2>5, <2>6
<1>2. CASE P!Authenticate \/ P!runPairShow
  <2>1. UNCHANGED <<file, act, created, revoking, revoked>>
    BY <1>2 DEF P!Authenticate, P!runPairShow
  <2>2. outcome' \in {"none", "granted", "denied", "error"}
    BY <1>2 DEF P!Authenticate, P!runPairShow
  <2> QED
    BY <1>t, <1>m, <2>1, <2>2 DEF PairedInv
<1>3. CASE UNCHANGED P!vars
  BY <1>t, <1>m, <1>3 DEF P!vars, PairedInv
<1> QED
  BY <1>1, <1>2, <1>3 DEF P!Next

\* The subsystem by itself.
LEMMA PairingAlone == P!Spec => []P!TokenHonoured
<1>0. "none" \notin Ids
  BY OperationsAssumption
<1> USE <1>0
<1>1. P!Init => P!TypeOK /\ PairedInv
  BY DEF P!Init, P!TypeOK, P!Idle, P!NoId, PairedInv, ActGood, FileGood, Creates, Revokes
<1>2. P!TypeOK /\ PairedInv /\ [P!Next]_(P!vars) => P!TypeOK' /\ PairedInv'
  BY PairedNext
<1>3. PairedInv => P!TokenHonoured
  BY DEF PairedInv, FileGood, P!TokenHonoured
<1> QED
  BY <1>1, <1>2, <1>3, PTL DEF P!Spec

(***************************************************************************)
(* A pairing is good from the moment Create returned until a revocation    *)
(* finds it, and never again once a Revoke returned nil: for any number of *)
(* processes that write the files in place, fail and die half-way.         *)
(***************************************************************************)
THEOREM PairingSound == Spec => []TokenHonoured
<1>1. Init /\ which = "pairing" => P!Init
  BY DEF Init
<1>2. [Next]_vars /\ which = "pairing" => [P!Next]_(P!vars)
  BY DEF Next, vars, P!vars
<1>3. [Next]_vars => (which = "pairing" <=> (which = "pairing")')
  BY OneSubsystem
<1> QED
  BY <1>1, <1>2, <1>3, PairingAlone, PTL DEF Spec, P!Spec, TokenHonoured

HIDE DEF file, act, outcome, created, revoking, revoked

-----------------------------------------------------------------------------
(***************************************************************************)
(* The release resolver                                                    *)
(***************************************************************************)

\* The variables of Releases.
published == x1
cache == x2
proc == x3
answer == x4
tornCache == x5
USE DEF published, cache, proc, answer, tornCache

\* A pin with its tag, as in an answer and in the cache: no answer, the tag of a
\* release with the pin in its title, or a tag that was cut off.
PairGood(x, cut) ==
    /\ x \in E!Caches
    /\ x # E!Absent => IF x.tag = E!Cut THEN cut ELSE x.pin \in Titles[x.tag].texts

\* A process that found a tag has one whose title contains its pin.
ProcGood(x) ==
    /\ x.at \in {"list", "open", "write"} => x.pin \in Semvers /\ x.tag \in E!Tags \cup {E!Cut}
    /\ x.at \in {"open", "write"} => x.tag \in E!Tags /\ x.pin \in Titles[x.tag].texts

TaggedInv ==
    /\ PairGood(cache, tornCache)
    /\ \A p \in Processes : ProcGood(proc[p]) /\ PairGood(answer[p], tornCache)

\* What a process may be at.
ProcRecs == [at : {"list", "open", "write"}, pin : Semvers, tag : E!Tags \cup {E!Cut}]
                \cup {E!Idle}

\* A step that leaves process p at x with answer a, for the rest unchanged but for
\* the cache and the number of releases.
LEMMA OneResolves ==
  ASSUME E!TypeOK, TaggedInv, NEW p \in Processes, NEW x \in ProcRecs, NEW a,
         proc' = [proc EXCEPT ![p] = x], answer' = [answer EXCEPT ![p] = a],
         ProcGood(x), PairGood(a, tornCache'), PairGood(cache', tornCache'),
         published' = published, tornCache' \in BOOLEAN, tornCache => tornCache'
  PROVE  E!TypeOK' /\ TaggedInv'
<1>1. proc \in [Processes -> ProcRecs] /\ answer \in [Processes -> E!Caches]
  BY DEF E!TypeOK, ProcRecs
<1>2. proc' \in [Processes -> ProcRecs] /\ answer' \in [Processes -> E!Caches]
  BY <1>1 DEF PairGood
<1>3. ASSUME NEW q \in Processes PROVE ProcGood(proc'[q]) /\ PairGood(answer'[q], tornCache')
  <2>1. CASE q = p
    BY <1>1, <2>1
  <2>2. CASE q # p
    <3>1. proc'[q] = proc[q] /\ answer'[q] = answer[q]
      BY <1>1, <2>2
    <3>2. ProcGood(proc[q]) /\ PairGood(answer[q], tornCache)
      BY DEF TaggedInv
    <3> QED
      BY <3>1, <3>2 DEF PairGood
  <2> QED
    BY <2>1, <2>2
<1> QED
  BY <1>2, <1>3 DEF E!TypeOK, TaggedInv, ProcRecs, PairGood

\* Every step of a resolving bootstrap keeps the invariant.
LEMMA TaggedNext ==
  ASSUME Titles \in Seq([pin : Semvers, texts : SUBSET Semvers]), E!Absent.pin \notin Semvers,
         E!TypeOK, TaggedInv, [E!Next]_(E!vars)
  PROVE  E!TypeOK' /\ TaggedInv'
<1>t. /\ proc \in [Processes -> ProcRecs] /\ answer \in [Processes -> E!Caches]
      /\ cache \in E!Caches /\ tornCache \in BOOLEAN
  BY DEF E!TypeOK, ProcRecs
<1>m. /\ PairGood(cache, tornCache)
      /\ \A p \in Processes : ProcGood(proc[p]) /\ PairGood(answer[p], tornCache)
  BY DEF TaggedInv
<1>l. Len(Titles) \in Nat
  OBVIOUS
<1>n. E!Cut \notin E!Tags
  BY <1>l DEF E!Cut, E!Tags
<1>i. E!Idle \in ProcRecs /\ ProcGood(E!Idle) /\ E!Idle.at = "idle"
  BY DEF ProcRecs, ProcGood, E!Idle
<1>f. \A b \in BOOLEAN : PairGood(E!Failed, b) /\ PairGood(E!Absent, b)
  BY DEF PairGood, E!Failed, E!Absent, E!Caches
<1>1. ASSUME NEW p \in Processes, NEW pin \in Refs, E!Refuse(p, pin)
      PROVE  E!TypeOK' /\ TaggedInv'
  BY <1>t, <1>m, <1>i, <1>f, <1>1, OneResolves DEF E!Refuse, E!Fail
<1>2. ASSUME NEW p \in Processes, NEW pin \in Semvers, E!Resolve(p, pin)
      PROVE  E!TypeOK' /\ TaggedInv'
  <2>u. UNCHANGED <<published, cache, tornCache>>
    BY <1>2 DEF E!Resolve
  <2>1. CASE cache.pin = pin
    <3> DEFINE a == [pin |-> pin, tag |-> cache.tag]
    <3>1. cache # E!Absent
      BY <2>1
    <3>2. a \in E!Caches /\ a.pin = cache.pin /\ a.tag = cache.tag
      BY <1>t, <2>1, <3>1 DEF E!Caches
    <3>3. proc' = [proc EXCEPT ![p] = E!Idle] /\ answer' = [answer EXCEPT ![p] = a]
      BY <1>2, <2>1 DEF E!Resolve, E!cacheLookup, E!Answer
    <3> HIDE DEF a
    <3>4. PairGood(a, tornCache')
      BY <1>m, <2>u, <3>1, <3>2 DEF PairGood
    <3> QED
      BY <1>t, <1>m, <1>i, <2>u, <3>3, <3>4, OneResolves
  <2>2. CASE cache.pin # pin
    <3> DEFINE x == [at |-> "list", pin |-> pin, tag |-> E!Cut]
    <3>1. x \in ProcRecs /\ ProcGood(x)
      BY DEF ProcRecs, ProcGood
    <3>2. proc' = [proc EXCEPT ![p] = x] /\ answer' = answer
      BY <1>2, <2>2 DEF E!Resolve, E!cacheLookup
    <3>3. answer' = [answer EXCEPT ![p] = answer[p]]
      BY <1>t, <3>2
    <3> HIDE DEF x
    <3> QED
      BY <1>t, <1>m, <2>u, <3>1, <3>2, <3>3, OneResolves
  <2> QED
    BY <2>1, <2>2
<1>3. ASSUME NEW p \in Processes, E!List(p) PROVE E!TypeOK' /\ TaggedInv'
  <2>u. UNCHANGED <<published, cache, tornCache>>
    BY <1>3 DEF E!List
  <2>1. CASE E!Fail(p)
    BY <1>t, <1>m, <1>i, <1>f, <2>1, <2>u, OneResolves DEF E!Fail
  <2>2. CASE (\E r \in E!matchSemver(proc[p].pin) :
                proc' = [proc EXCEPT ![p].at = "open", ![p].tag = r]) /\ answer' = answer
    <3>1. PICK r \in E!matchSemver(proc[p].pin) :
                 proc' = [proc EXCEPT ![p].at = "open", ![p].tag = r]
      BY <2>2
    <3>2. r \in E!Tags /\ proc[p].pin \in Titles[r].texts
      BY DEF E!matchSemver, E!Listed
    <3> DEFINE y == [proc[p] EXCEPT !.at = "open"]
               x == [y EXCEPT !.tag = r]
    <3>3. proc[p] \in [at : {"list", "open", "write"}, pin : Semvers, tag : E!Tags \cup {E!Cut}]
      BY <1>t, <1>i, <1>3 DEF ProcRecs, E!List
    <3>4. /\ y \in [at : {"list", "open", "write"}, pin : Semvers, tag : E!Tags \cup {E!Cut}]
          /\ y.at = "open" /\ y.pin = proc[p].pin
      BY <3>3
    <3>5. proc' = [proc EXCEPT ![p] = x]
      BY <1>t, <3>1
    <3> HIDE DEF y
    <3>6. x \in ProcRecs /\ x.at = "open" /\ x.pin = proc[p].pin /\ x.tag = r
      BY <3>2, <3>4 DEF ProcRecs
    <3> HIDE DEF x
    <3>7. ProcGood(x)
      BY <3>2, <3>3, <3>6 DEF ProcGood
    <3>8. answer' = [answer EXCEPT ![p] = answer[p]]
      BY <1>t, <2>2
    <3> QED
      BY <1>t, <1>m, <2>u, <3>5, <3>6, <3>7, <3>8, OneResolves
  <2> QED
    BY <1>3, <2>1, <2>2 DEF E!List
<1>p. ASSUME NEW p \in Processes, proc[p].at \in {"open", "write"}
      PROVE  /\ proc[p] \in [at : {"list", "open", "write"}, pin : Semvers, tag : E!Tags]
             /\ proc[p].pin \in Titles[proc[p].tag].texts /\ proc[p].tag # E!Cut
             /\ \A b \in BOOLEAN : PairGood([pin |-> proc[p].pin, tag |-> proc[p].tag], b)
  <2>1. proc[p] \in ProcRecs /\ ProcGood(proc[p]) /\ proc[p] # E!Idle
    BY <1>t, <1>m, <1>p, <1>i
  <2>2. /\ proc[p] \in [at : {"list", "open", "write"}, pin : Semvers, tag : E!Tags]
        /\ proc[p].pin \in Titles[proc[p].tag].texts /\ proc[p].tag # E!Cut
    BY <1>p, <1>n, <2>1 DEF ProcRecs, ProcGood
  <2> QED
    BY <2>2 DEF PairGood, E!Caches
<1>4. ASSUME NEW p \in Processes, E!OpenCache(p) PROVE E!TypeOK' /\ TaggedInv'
  <2>u. UNCHANGED <<published, tornCache>>
    BY <1>4 DEF E!OpenCache
  <2>p. /\ proc[p] \in [at : {"list", "open", "write"}, pin : Semvers, tag : E!Tags]
        /\ proc[p].pin \in Titles[proc[p].tag].texts
        /\ \A b \in BOOLEAN : PairGood([pin |-> proc[p].pin, tag |-> proc[p].tag], b)
    BY <1>4, <1>p DEF E!OpenCache
  <2>1. CASE cache' = E!Absent /\ proc' = [proc EXCEPT ![p].at = "write"] /\ answer' = answer
    <3> DEFINE x == [proc[p] EXCEPT !.at = "write"]
    <3>1. /\ x \in [at : {"list", "open", "write"}, pin : Semvers, tag : E!Tags]
          /\ x.at = "write" /\ x.pin = proc[p].pin /\ x.tag = proc[p].tag
      BY <2>p
    <3>2. proc' = [proc EXCEPT ![p] = x] /\ answer' = [answer EXCEPT ![p] = answer[p]]
      BY <1>t, <2>1
    <3> HIDE DEF x
    <3>3. x \in ProcRecs /\ ProcGood(x)
      BY <2>p, <3>1 DEF ProcRecs, ProcGood
    <3> QED
      BY <1>t, <1>m, <1>f, <2>u, <2>1, <3>2, <3>3, OneResolves
  <2>2. CASE E!Answer(p, proc[p].pin, proc[p].tag) /\ cache' = cache
    BY <1>t, <1>m, <1>i, <2>u, <2>p, <2>2, OneResolves DEF E!Answer
  <2> QED
    BY <1>4, <2>1, <2>2 DEF E!OpenCache
<1>5. ASSUME NEW p \in Processes, E!WriteCache(p) PROVE E!TypeOK' /\ TaggedInv'
  <2>p. /\ proc[p] \in [at : {"list", "open", "write"}, pin : Semvers, tag : E!Tags]
        /\ \A b \in BOOLEAN : PairGood([pin |-> proc[p].pin, tag |-> proc[p].tag], b)
    BY <1>5, <1>p DEF E!WriteCache
  <2>a. /\ proc' = [proc EXCEPT ![p] = E!Idle] /\ published' = published
        /\ answer' = [answer EXCEPT ![p] = [pin |-> proc[p].pin, tag |-> proc[p].tag]]
    BY <1>5 DEF E!WriteCache, E!Answer
  <2>1. tornCache' \in BOOLEAN /\ (tornCache => tornCache') /\ PairGood(cache', tornCache')
    <3>1. CASE cache' = [pin |-> proc[p].pin, tag |-> proc[p].tag] /\ tornCache' = tornCache
      BY <1>t, <2>p, <3>1
    <3>2. CASE cache' = E!Absent /\ tornCache' = tornCache
      BY <1>t, <1>f, <3>2
    <3>3. CASE cache' = [pin |-> proc[p].pin, tag |-> E!Cut] /\ tornCache' = TRUE
      BY <2>p, <3>3 DEF PairGood, E!Caches
    <3> QED
      BY <1>5, <3>1, <3>2, <3>3 DEF E!WriteCache
  <2> QED
    BY <1>t, <1>m, <1>i, <2>p, <2>a, <2>1, OneResolves
<1>6. ASSUME NEW p \in Processes, E!Crash(p) PROVE E!TypeOK' /\ TaggedInv'
  <2>1. answer' = [answer EXCEPT ![p] = answer[p]]
    BY <1>t, <1>6 DEF E!Crash
  <2> QED
    BY <1>t, <1>m, <1>i, <1>6, <2>1, OneResolves DEF E!Crash
<1>7. CASE E!Publish
  <2>1. published' \in 0..Len(Titles) /\ UNCHANGED <<cache, proc, answer, tornCache>>
    <3>1. published \in 0..Len(Titles) /\ published < Len(Titles) /\ published' = published + 1
      BY <1>7 DEF E!Publish, E!TypeOK
    <3>2. published' \in 0..Len(Titles)
      BY <1>l, <3>1
    <3> QED
      BY <1>7, <3>2 DEF E!Publish
  <2> QED
    BY <1>m, <2>1 DEF E!TypeOK, TaggedInv
<1>8. CASE UNCHANGED E!vars
  BY <1>m, <1>8 DEF E!vars, E!TypeOK, TaggedInv
<1> QED
  BY <1>1, <1>2, <1>3, <1>4, <1>5, <1>6, <1>7, <1>8 DEF E!Next

\* The subsystem by itself.
LEMMA ReleasesAlone == E!Spec => []E!TagIsOfPin
<1>0. Titles \in Seq([pin : Semvers, texts : SUBSET Semvers]) /\ E!Absent.pin \notin Semvers
  BY OperationsAssumption DEF E!Absent
<1> USE <1>0
<1>1. E!Init => E!TypeOK /\ TaggedInv
  <2> SUFFICES ASSUME E!Init PROVE E!TypeOK /\ TaggedInv
    OBVIOUS
  <2>1. Len(Titles) \in Nat
    OBVIOUS
  <2>2. published \in 0..Len(Titles) /\ tornCache \in BOOLEAN
    <3>1. published = 0 /\ tornCache = FALSE
      BY DEF E!Init
    <3>2. 0 \in 0..Len(Titles)
      BY <2>1
    <3> QED
      BY <3>1, <3>2, Zenon
  <2>3. /\ proc \in [Processes -> ProcRecs] /\ \A p \in Processes : ProcGood(proc[p])
    BY DEF E!Init, E!Idle, ProcRecs, ProcGood
  <2>4. /\ answer \in [Processes -> E!Caches] /\ \A p \in Processes : PairGood(answer[p], tornCache)
        /\ PairGood(cache, tornCache)
    BY DEF E!Init, E!Absent, E!Failed, E!Caches, PairGood
  <2> QED
    BY <2>2, <2>3, <2>4 DEF E!TypeOK, TaggedInv, ProcRecs, PairGood
<1>2. E!TypeOK /\ TaggedInv /\ [E!Next]_(E!vars) => E!TypeOK' /\ TaggedInv'
  BY TaggedNext
<1>3. TaggedInv => E!TagIsOfPin
  <2> SUFFICES ASSUME TaggedInv, NEW p \in Processes, answer[p] # E!Failed, answer[p].tag # E!Cut
               PROVE  \/ Titles[answer[p].tag].pin = answer[p].pin
                      \/ /\ E!Contained(answer[p].pin)
                         /\ answer[p].pin \in Titles[answer[p].tag].texts
    BY DEF TaggedInv, PairGood, E!TagIsOfPin, E!Absent, E!Failed
  <2>1. answer[p].tag \in E!Tags /\ answer[p].pin \in Titles[answer[p].tag].texts
    BY DEF TaggedInv, PairGood, E!Caches, E!Absent, E!Failed
  <2> QED
    BY <2>1 DEF E!Contained
<1> QED
  BY <1>1, <1>2, <1>3, PTL DEF E!Spec

(***************************************************************************)
(* Resolve answers with the tag of the pin it was asked for, unless its    *)
(* text is in the title of another pin's release or a broken write cut the *)
(* tag off: for any releases, any pins and any number of bootstraps that   *)
(* share the cache.                                                        *)
(***************************************************************************)
THEOREM ResolverSound == Spec => []TagIsOfPin
<1>1. Init /\ which = "releases" => E!Init
  BY DEF Init
<1>2. [Next]_vars /\ which = "releases" => [E!Next]_(E!vars)
  BY DEF Next, vars, E!vars
<1>3. [Next]_vars => (which = "releases" <=> (which = "releases")')
  BY OneSubsystem
<1> QED
  BY <1>1, <1>2, <1>3, ReleasesAlone, PTL DEF Spec, E!Spec, TagIsOfPin

HIDE DEF published, cache, proc, answer, tornCache

-----------------------------------------------------------------------------
(***************************************************************************)
(* The SSH client                                                          *)
(***************************************************************************)

\* The variables of SSHClient.
known == x1
hostKey == x2
dial == x3
agentConn == x4
conn == x5
keepalive == x6
accepted == x7
crowded == x8
USE DEF known, hostKey, dial, agentConn, conn, keepalive, accepted, crowded

\* What a dial is at, and whether it is between stat and the end of the handshake.
DialRecs == [at : S!Steps, strict : BOOLEAN, want : SUBSET Keys]
Dialling(x) == x.at \notin {"idle", "open", "running"}

\* What an uncrowded dial knows of known_hosts is still so: nothing was recorded or
\* accepted before the file was created, and the keys it has loaded are the file's.
DialGood(x, f, acc) ==
    /\ x.at = "seed" => f.keys = {} /\ acc = {}
    /\ x.at \in {"load", "tcp", "handshake"} => f.exists
    /\ x.at \in {"tcp", "handshake"} => x.want = f.keys

TrustInv ==
    /\ S!NothingLeaks
    /\ ~crowded =>
        /\ accepted \subseteq known.keys
        /\ \A k, l \in known.keys : k = l
        /\ ~known.exists => known.keys = {}
        /\ \A d, e \in Processes : Dialling(dial[d]) /\ Dialling(dial[e]) => d = e
        /\ \A d \in Processes : DialGood(dial[d], known, accepted)

\* The record of a dial after Goto, and with one field more changed.
LEMMA DialRecord ==
  ASSUME dial \in [Processes -> DialRecs], NEW d \in Processes, NEW step \in S!Steps, S!Goto(d, step)
  PROVE  \E x \in DialRecs : /\ dial' = [dial EXCEPT ![d] = x]
                             /\ x.at = step /\ x.want = dial[d].want
<1> DEFINE y == [dial[d] EXCEPT !.at = step]
<1>1. dial[d] \in DialRecs
  OBVIOUS
<1>2. y \in DialRecs /\ y.at = step /\ y.want = dial[d].want
  BY <1>1 DEF DialRecs
<1>3. dial' = [dial EXCEPT ![d] = y]
  BY DEF S!Goto
<1> HIDE DEF y
<1> QED
  BY <1>2, <1>3

\* The two updates of a dial that begins, as one record.
LEMMA DialStrict ==
  ASSUME dial \in [Processes -> DialRecs], NEW d \in Processes, NEW strict \in BOOLEAN,
         dial' = [dial EXCEPT ![d].at = "stat", ![d].strict = strict]
  PROVE  \E x \in DialRecs : dial' = [dial EXCEPT ![d] = x] /\ x.at = "stat"
<1> DEFINE y == [dial[d] EXCEPT !.at = "stat"]
           z == [y EXCEPT !.strict = strict]
<1>1. dial[d] \in DialRecs
  OBVIOUS
<1>2. y \in DialRecs /\ y.at = "stat"
  BY <1>1 DEF DialRecs, S!Steps
<1>3. dial' = [dial EXCEPT ![d] = z]
  OBVIOUS
<1> HIDE DEF y
<1>4. z \in DialRecs /\ z.at = "stat"
  BY <1>2 DEF DialRecs
<1> HIDE DEF z
<1> QED
  BY <1>3, <1>4

\* The two updates of a dial that has read known_hosts, as one record.
LEMMA DialWant ==
  ASSUME dial \in [Processes -> DialRecs], NEW d \in Processes, NEW want \in SUBSET Keys,
         dial' = [dial EXCEPT ![d].at = "tcp", ![d].want = want]
  PROVE  \E x \in DialRecs : dial' = [dial EXCEPT ![d] = x] /\ x.at = "tcp" /\ x.want = want
<1> DEFINE y == [dial[d] EXCEPT !.at = "tcp"]
           z == [y EXCEPT !.want = want]
<1>1. dial[d] \in DialRecs
  OBVIOUS
<1>2. y \in DialRecs /\ y.at = "tcp"
  BY <1>1 DEF DialRecs, S!Steps
<1>3. dial' = [dial EXCEPT ![d] = z]
  OBVIOUS
<1> HIDE DEF y
<1>4. z \in DialRecs /\ z.at = "tcp" /\ z.want = want
  BY <1>2 DEF DialRecs
<1> HIDE DEF z
<1> QED
  BY <1>3, <1>4

\* A step of dialer d that leaves it at x: it may record or accept a key only while
\* it is dialling, and begin to dial only when nobody else does.
Uncrowded(d, x) ==
    ~crowded' =>
        /\ ~crowded
        /\ accepted' \subseteq known'.keys
        /\ \A k, l \in known'.keys : k = l
        /\ ~known'.exists => known'.keys = {}
        /\ DialGood(x, known', accepted')
        /\ Dialling(x) => Dialling(dial[d]) \/ \A e \in Processes : ~Dialling(dial[e])
        /\ UNCHANGED <<known, accepted>> \/ Dialling(dial[d])

\* A step of one dial that keeps to Uncrowded keeps the invariant.
LEMMA OneDials ==
  ASSUME S!TypeOK, TrustInv, NEW d \in Processes, NEW x \in DialRecs,
         dial' = [dial EXCEPT ![d] = x],
         agentConn' \subseteq agentConn \cup {d}, conn' \subseteq conn \cup {d},
         x.at = "idle" => d \notin agentConn' /\ d \notin conn',
         Uncrowded(d, x)
  PROVE  dial' \in [Processes -> DialRecs] /\ TrustInv'
<1>1. dial \in [Processes -> DialRecs]
  BY DEF S!TypeOK, DialRecs
<1>2. dial' \in [Processes -> DialRecs] /\ dial'[d] = x /\ \A e \in Processes \ {d} : dial'[e] = dial[e]
  BY <1>1
<1>3. S!NothingLeaks'
  <2> SUFFICES ASSUME NEW e \in Processes, dial'[e].at = "idle" PROVE e \notin agentConn' /\ e \notin conn'
    BY DEF S!NothingLeaks, S!At
  <2>1. dial[e].at = "idle" => e \notin agentConn /\ e \notin conn
    BY DEF TrustInv, S!NothingLeaks, S!At
  <2> QED
    BY <1>2, <2>1
<1>4. ASSUME ~crowded', NEW e \in Processes PROVE DialGood(dial'[e], known', accepted')
  <2>1. CASE e = d
    BY <1>2, <1>4, <2>1 DEF Uncrowded
  <2>2. CASE e # d
    <3>1. dial'[e] = dial[e] /\ DialGood(dial[e], known, accepted)
      BY <1>2, <1>4, <2>2 DEF TrustInv, Uncrowded
    <3>2. CASE known' = known /\ accepted' = accepted
      BY <3>1, <3>2
    <3>3. CASE Dialling(dial[d])
      <4>1. ~Dialling(dial[e])
        BY <1>4, <2>2, <3>3 DEF TrustInv, Uncrowded
      <4> QED
        BY <3>1, <4>1 DEF Dialling, DialGood
    <3> QED
      BY <1>4, <3>2, <3>3 DEF Uncrowded
  <2> QED
    BY <2>1, <2>2
<1>5. ASSUME ~crowded', NEW e \in Processes, NEW f \in Processes, Dialling(dial'[e]), Dialling(dial'[f])
      PROVE  e = f
  BY <1>2, <1>5 DEF TrustInv, Uncrowded
<1> QED
  BY <1>2, <1>3, <1>4, <1>5 DEF TrustInv, Uncrowded

\* Every step of a dial keeps the invariant.
LEMMA TrustNext ==
  ASSUME S!TypeOK, TrustInv, [S!Next]_(S!vars)
  PROVE  S!TypeOK' /\ TrustInv'
<1> USE DEF S!At, S!world
<1> DEFINE Kept == /\ known' \in [exists : BOOLEAN, keys : SUBSET Keys] /\ hostKey' \in Keys
                   /\ agentConn' \subseteq Processes /\ conn' \subseteq Processes
                   /\ keepalive' \subseteq Processes
                   /\ accepted' \subseteq Keys /\ crowded' \in BOOLEAN
                   /\ dial' \in [Processes -> DialRecs] /\ TrustInv'
<1>t. /\ dial \in [Processes -> DialRecs]
      /\ known \in [exists : BOOLEAN, keys : SUBSET Keys] /\ hostKey \in Keys
      /\ agentConn \subseteq Processes /\ conn \subseteq Processes /\ keepalive \subseteq Processes
      /\ accepted \subseteq Keys /\ crowded \in BOOLEAN
  BY DEF S!TypeOK, DialRecs
<1>i. S!Idle \in DialRecs /\ S!Idle.at = "idle" /\ ~Dialling(S!Idle)
      /\ \A f, a : DialGood(S!Idle, f, a)
  BY DEF DialRecs, S!Idle, S!Steps, Dialling, DialGood
<1>s. SUFFICES Kept
  BY DEF S!TypeOK, DialRecs
<1>m. ~crowded => /\ accepted \subseteq known.keys
                  /\ \A k, l \in known.keys : k = l
                  /\ ~known.exists => known.keys = {}
                  /\ \A d, e \in Processes : Dialling(dial[d]) /\ Dialling(dial[e]) => d = e
                  /\ \A d \in Processes : DialGood(dial[d], known, accepted)
  BY DEF TrustInv
\* A dial that fails or is closed.
<1>a. ASSUME NEW d \in Processes, S!Abandon(d), UNCHANGED <<known, hostKey, accepted, crowded>>
      PROVE  Kept
  <2>1. dial' = [dial EXCEPT ![d] = S!Idle] /\ keepalive' = keepalive
        /\ agentConn' = agentConn \ {d} /\ conn' = conn \ {d}
    BY <1>a DEF S!Abandon
  <2>u. Uncrowded(d, S!Idle)
    BY <1>a, <1>i, <1>m, <2>1 DEF Uncrowded
  <2>2. dial' \in [Processes -> DialRecs] /\ TrustInv'
    BY <1>a, <1>i, <2>1, <2>u, OneDials
  <2> QED
    BY <1>t, <1>a, <2>1, <2>2
\* A step that only moves the dial on.
<1>g. ASSUME NEW d \in Processes, NEW step \in {"open", "running"},
             S!Goto(d, step), UNCHANGED <<known, hostKey, accepted, crowded, agentConn, conn>>,
             keepalive' \in {keepalive, keepalive \cup {d}}
      PROVE  Kept
  <2>1. PICK x \in DialRecs : /\ dial' = [dial EXCEPT ![d] = x]
                             /\ x.at = step /\ x.want = dial[d].want
    <3>1. step \in S!Steps
      BY DEF S!Steps
    <3> QED
      BY <1>t, <1>g, <3>1, DialRecord
  <2>2. DialGood(x, known', accepted')
    BY <1>g, <2>1 DEF DialGood
  <2>3. ~Dialling(x)
    BY <1>g, <2>1 DEF Dialling
  <2>u. Uncrowded(d, x)
    BY <1>g, <1>m, <2>1, <2>2, <2>3 DEF Uncrowded
  <2>4. dial' \in [Processes -> DialRecs] /\ TrustInv'
    BY <1>g, <2>1, <2>2, <2>3, <2>u, OneDials
  <2> QED
    BY <1>t, <1>g, <2>4
<1>1. ASSUME NEW d \in Processes, S!buildAuth(d) PROVE Kept
  <2>1. PICK strict \in BOOLEAN, agent \in BOOLEAN :
          /\ dial' = [dial EXCEPT ![d].at = "stat", ![d].strict = strict]
          /\ agentConn' = IF agent THEN agentConn \cup {d} ELSE agentConn
    BY <1>1 DEF S!buildAuth
  <2>2. PICK x \in DialRecs : /\ dial' = [dial EXCEPT ![d] = x] /\ x.at = "stat"
    BY <1>t, <2>1, DialStrict
  <2>3. UNCHANGED <<known, hostKey, conn, keepalive, accepted>>
        /\ crowded' = (crowded \/ \E e \in Processes : dial[e].at \notin {"idle", "open", "running"})
    BY <1>1 DEF S!buildAuth
  <2>4. DialGood(x, known', accepted')
    BY <2>2 DEF DialGood
  <2>5. crowded' \in BOOLEAN /\ (~crowded' => ~crowded /\ \A e \in Processes : ~Dialling(dial[e]))
    BY <1>t, <2>3 DEF Dialling
  <2>u. Uncrowded(d, x)
    BY <1>m, <2>1, <2>2, <2>3, <2>4, <2>5 DEF Uncrowded
  <2>6. dial' \in [Processes -> DialRecs] /\ TrustInv'
    BY <2>1, <2>2, <2>3, <2>4, <2>5, <2>u, OneDials
  <2> QED
    BY <1>t, <2>1, <2>3, <2>5, <2>6
<1>2. ASSUME NEW d \in Processes, S!StatHosts(d) PROVE Kept
  <2>1. CASE S!Abandon(d)
    BY <1>2, <1>a, <2>1 DEF S!StatHosts
  <2>2. CASE ~(~known.exists /\ dial[d].strict)
    <3>1. PICK x \in DialRecs : /\ dial' = [dial EXCEPT ![d] = x]
                               /\ x.at = IF known.exists THEN "load" ELSE "seed"
      BY <1>t, <1>2, <2>2, DialRecord DEF S!StatHosts, S!Steps
    <3>2. UNCHANGED <<known, hostKey, accepted, crowded, agentConn, conn, keepalive>>
      BY <1>2, <2>2 DEF S!StatHosts
    <3>3. ~crowded => DialGood(x, known', accepted')
      BY <1>m, <3>1, <3>2 DEF DialGood
    <3>4. Dialling(dial[d]) /\ x.at # "idle"
      BY <1>2, <3>1 DEF S!StatHosts, Dialling
    <3>u. Uncrowded(d, x)
      BY <1>m, <3>1, <3>2, <3>3, <3>4 DEF Uncrowded
    <3>5. dial' \in [Processes -> DialRecs] /\ TrustInv'
      BY <3>1, <3>2, <3>3, <3>4, <3>u, OneDials
    <3> QED
      BY <1>t, <3>2, <3>5
  <2> QED
    BY <1>2, <2>1, <2>2 DEF S!StatHosts
<1>3. ASSUME NEW d \in Processes, S!SeedHosts(d) PROVE Kept
  <2>1. CASE S!Abandon(d) /\ known' = known
    BY <1>3, <1>a, <2>1 DEF S!SeedHosts
  <2>2. CASE known' = [exists |-> TRUE, keys |-> {}]
    <3>1. PICK x \in DialRecs :
            /\ dial' = [dial EXCEPT ![d] = x] /\ x.at \in {"load", "idle"}
            /\ x.at = "idle" => d \notin agentConn' /\ d \notin conn'
      <4>1. CASE S!Goto(d, "load")
        <5>1. PICK x \in DialRecs : dial' = [dial EXCEPT ![d] = x] /\ x.at = "load"
          BY <1>t, <4>1, DialRecord DEF S!Steps
        <5> QED
          BY <5>1
      <4>2. CASE S!Abandon(d)
        BY <1>i, <4>2 DEF S!Abandon
      <4> QED
        BY <1>3, <4>1, <4>2 DEF S!SeedHosts
    <3>2. /\ UNCHANGED <<hostKey, keepalive, accepted, crowded>>
          /\ agentConn' \subseteq agentConn /\ conn' \subseteq conn
      BY <1>3 DEF S!SeedHosts, S!Abandon
    <3>3. Dialling(dial[d]) /\ (~crowded => accepted = {})
      BY <1>3, <1>m DEF S!SeedHosts, Dialling, DialGood
    <3>4. DialGood(x, known', accepted')
      BY <2>2, <3>1, <3>2 DEF DialGood
    <3>u. Uncrowded(d, x)
      BY <1>m, <2>2, <3>1, <3>2, <3>3, <3>4 DEF Uncrowded
    <3>5. dial' \in [Processes -> DialRecs] /\ TrustInv'
      BY <2>2, <3>1, <3>2, <3>3, <3>4, <3>u, OneDials
    <3> QED
      BY <1>t, <2>2, <3>2, <3>5
  <2> QED
    BY <1>3, <2>1, <2>2 DEF S!SeedHosts
<1>4. ASSUME NEW d \in Processes, S!LoadHosts(d) PROVE Kept
  <2>0. PICK want \in SUBSET Keys : want = known.keys
    BY <1>t
  <2>1. CASE S!Abandon(d)
    BY <1>4, <1>a, <2>1 DEF S!LoadHosts
  <2>2. CASE dial' = [dial EXCEPT ![d].at = "tcp", ![d].want = want]
             /\ UNCHANGED <<agentConn, conn, keepalive>>
    <3>1. PICK x \in DialRecs : dial' = [dial EXCEPT ![d] = x] /\ x.at = "tcp" /\ x.want = want
      BY <1>t, <2>2, DialWant
    <3>2. UNCHANGED <<known, hostKey, accepted, crowded>>
      BY <1>4 DEF S!LoadHosts
    <3>3. Dialling(dial[d])
      BY <1>4 DEF S!LoadHosts, Dialling
    <3>4. ~crowded => DialGood(x, known', accepted')
      BY <1>4, <1>m, <2>0, <3>1, <3>2 DEF S!LoadHosts, DialGood
    <3>u. Uncrowded(d, x)
      BY <1>m, <3>1, <3>2, <3>3, <3>4 DEF Uncrowded
    <3>5. dial' \in [Processes -> DialRecs] /\ TrustInv'
      BY <2>2, <3>1, <3>2, <3>3, <3>4, <3>u, OneDials
    <3> QED
      BY <1>t, <2>2, <3>2, <3>5
  <2> QED
    BY <1>4, <2>0, <2>1, <2>2 DEF S!LoadHosts
<1>5. ASSUME NEW d \in Processes, S!DialTCP(d) PROVE Kept
  <2>1. CASE S!Abandon(d)
    BY <1>5, <1>a, <2>1 DEF S!DialTCP
  <2>2. CASE S!Goto(d, "handshake") /\ conn' = conn \cup {d} /\ UNCHANGED <<agentConn, keepalive>>
    <3>1. PICK x \in DialRecs : /\ dial' = [dial EXCEPT ![d] = x]
                               /\ x.at = "handshake" /\ x.want = dial[d].want
      BY <1>t, <2>2, DialRecord DEF S!Steps
    <3>2. UNCHANGED <<known, hostKey, accepted, crowded>> /\ Dialling(dial[d])
      BY <1>5 DEF S!DialTCP, Dialling
    <3>3. ~crowded => DialGood(x, known', accepted')
      BY <1>5, <1>m, <3>1, <3>2 DEF S!DialTCP, DialGood
    <3>u. Uncrowded(d, x)
      BY <1>m, <2>2, <3>1, <3>2, <3>3 DEF Uncrowded
    <3>4. dial' \in [Processes -> DialRecs] /\ TrustInv'
      BY <2>2, <3>1, <3>2, <3>3, <3>u, OneDials
    <3> QED
      BY <1>t, <2>2, <3>2, <3>4
  <2> QED
    BY <1>5, <2>1, <2>2 DEF S!DialTCP
<1>6. ASSUME NEW d \in Processes, S!Handshake(d) PROVE Kept
  <2>0. Dialling(dial[d]) /\ UNCHANGED <<hostKey, crowded>>
    BY <1>6 DEF S!Handshake, Dialling
  <2>1. /\ known' \in [exists : BOOLEAN, keys : SUBSET Keys] /\ known'.exists = known.exists
        /\ known'.keys = IF hostKey \in dial[d].want THEN known.keys ELSE known.keys \cup {hostKey}
    BY <1>t, <1>6 DEF S!Handshake
  <2>2. ~crowded => /\ dial[d].want = known.keys
                    /\ hostKey \in known.keys \/ known.keys = {}
    BY <1>m, <1>6 DEF S!Handshake, S!KeyOK, DialGood
  <2>3. ~crowded => /\ accepted \cup {hostKey} \subseteq known'.keys
                    /\ \A k, l \in known'.keys : k = l
    BY <1>m, <2>1, <2>2
  <2>4. CASE S!Abandon(d) /\ accepted' = accepted
    <3>1. dial' = [dial EXCEPT ![d] = S!Idle] /\ keepalive' = keepalive
          /\ agentConn' = agentConn \ {d} /\ conn' = conn \ {d}
      BY <2>4 DEF S!Abandon
    <3>2. ~crowded' => known'.exists \/ known'.keys = {}
      BY <1>6, <1>m, <2>0, <2>1 DEF S!Handshake, DialGood
    <3>u. Uncrowded(d, S!Idle)
      BY <1>i, <2>0, <2>3, <2>4, <3>1, <3>2 DEF Uncrowded
    <3>3. dial' \in [Processes -> DialRecs] /\ TrustInv'
      BY <1>i, <2>0, <2>3, <2>4, <3>1, <3>2, <3>u, OneDials
    <3> QED
      BY <1>t, <2>0, <2>1, <2>4, <3>1, <3>3
  <2>5. CASE S!Goto(d, "open") /\ accepted' = accepted \cup {hostKey}
               /\ keepalive' \in {keepalive, keepalive \cup {d}} /\ UNCHANGED <<agentConn, conn>>
    <3>1. PICK x \in DialRecs : dial' = [dial EXCEPT ![d] = x] /\ x.at = "open"
      BY <1>t, <2>5, DialRecord DEF S!Steps
    <3>2. DialGood(x, known', accepted') /\ ~Dialling(x)
      BY <3>1 DEF DialGood, Dialling
    <3>3. ~crowded' => known'.exists \/ known'.keys = {}
      BY <1>6, <1>m, <2>0, <2>1 DEF S!Handshake, DialGood
    <3>u. Uncrowded(d, x)
      BY <2>0, <2>3, <2>5, <3>1, <3>2, <3>3 DEF Uncrowded
    <3>4. dial' \in [Processes -> DialRecs] /\ TrustInv'
      BY <2>0, <2>3, <2>5, <3>1, <3>2, <3>3, <3>u, OneDials
    <3> QED
      BY <1>t, <2>0, <2>1, <2>5, <3>4
  <2> QED
    BY <1>6, <2>4, <2>5 DEF S!Handshake
<1>7. ASSUME NEW d \in Processes, S!HandshakeFails(d) \/ S!Close(d) PROVE Kept
  BY <1>7, <1>a DEF S!HandshakeFails, S!Close
<1>8. ASSUME NEW d \in Processes, S!RunWith(d) \/ S!RunReturns(d) PROVE Kept
  BY <1>8, <1>g DEF S!RunWith, S!RunReturns
<1>9. ASSUME NEW d \in Processes, S!KeepaliveEnds(d) PROVE Kept
  BY <1>t, <1>9, <1>m DEF S!KeepaliveEnds, TrustInv, S!NothingLeaks
<1>10. ASSUME NEW k \in Keys, S!HostRekeyed(k) PROVE Kept
  BY <1>t, <1>10, <1>m DEF S!HostRekeyed, TrustInv, S!NothingLeaks
<1>11. CASE UNCHANGED S!vars
  BY <1>t, <1>11, <1>m DEF S!vars, TrustInv, S!NothingLeaks
<1> QED
  BY <1>1, <1>2, <1>3, <1>4, <1>5, <1>6, <1>7, <1>8, <1>9, <1>10, <1>11 DEF S!Next

\* The two invariants hold from the start.
LEMMA TrustAlways == S!Spec => [](S!TypeOK /\ TrustInv)
<1>1. S!Init => S!TypeOK /\ TrustInv
  <2> SUFFICES ASSUME S!Init PROVE S!TypeOK /\ TrustInv
    OBVIOUS
  <2>1. /\ S!Idle \in DialRecs /\ S!Idle.at = "idle"
        /\ dial = [d \in Processes |-> S!Idle]
    BY DEF S!Init, S!Idle, S!Steps, DialRecs
  <2>2. dial \in [Processes -> DialRecs] /\ \A d \in Processes : dial[d].at = "idle"
    BY <2>1
  <2>3. /\ known \in [exists : BOOLEAN, keys : SUBSET Keys] /\ known.keys = {}
        /\ hostKey \in Keys /\ agentConn = {} /\ conn = {} /\ keepalive = {} /\ accepted = {}
    BY DEF S!Init
  <2>4. crowded \in BOOLEAN
    BY Zenon DEF S!Init
  <2> QED
    BY <2>2, <2>3, <2>4 DEF S!TypeOK, S!At, S!NothingLeaks, TrustInv, DialRecs, DialGood, Dialling
<1>2. S!TypeOK /\ TrustInv /\ [S!Next]_(S!vars) => S!TypeOK' /\ TrustInv'
  BY TrustNext
<1> QED
  BY <1>1, <1>2, PTL DEF S!Spec

\* The subsystem by itself.
LEMMA FirstKeyAlone == S!Spec => []S!FirstKeyOnly
<1>0. \A T : S!Cardinality(T) = Cardinality(T)
  BY DEF S!Cardinality, Cardinality
<1>1. S!TypeOK /\ TrustInv => S!FirstKeyOnly
  <2> SUFFICES ASSUME TrustInv, ~crowded PROVE Cardinality(accepted) <= 1
    BY <1>0 DEF S!FirstKeyOnly
  <2>1. \A k, l \in accepted : k = l
    BY DEF TrustInv
  <2>2. CASE accepted = {}
    BY <2>2, FS_EmptySet
  <2>3. CASE accepted # {}
    <3>1. PICK k : k \in accepted
      BY <2>3
    <3>2. accepted = {k}
      BY <2>1, <3>1
    <3>3. Cardinality({k}) = 1
      BY FS_Singleton
    <3> QED
      BY <3>2, <3>3
  <2> QED
    BY <2>2, <2>3
<1> QED
  BY <1>1, TrustAlways, PTL

(***************************************************************************)
(* Dials that do not overlap accept no second key for a host, and a dial   *)
(* that failed or was closed leaves no connection open: for any number of  *)
(* processes that dial, any keys and any changes of the host's key.        *)
(***************************************************************************)
THEOREM FirstKeyTrusted == Spec => []FirstKeyOnly
<1>1. Init /\ which = "sshclient" => S!Init
  BY DEF Init
<1>2. [Next]_vars /\ which = "sshclient" => [S!Next]_(S!vars)
  BY DEF Next, vars, S!vars
<1>3. [Next]_vars => (which = "sshclient" <=> (which = "sshclient")')
  BY OneSubsystem
<1> QED
  BY <1>1, <1>2, <1>3, FirstKeyAlone, PTL DEF Spec, S!Spec, FirstKeyOnly

\* The subsystem by itself.
LEMMA ClosedAlone == S!Spec => []S!NothingLeaks
<1>1. TrustInv => S!NothingLeaks
  BY DEF TrustInv
<1> QED
  BY <1>1, TrustAlways, PTL

\* Whichever step a dial failed at, neither the connection to the host nor the
\* one to the SSH agent outlives it (Dial and Close).
THEOREM ConnectionsClosed == Spec => []NothingLeaks
<1>1. Init /\ which = "sshclient" => S!Init
  BY DEF Init
<1>2. [Next]_vars /\ which = "sshclient" => [S!Next]_(S!vars)
  BY DEF Next, vars, S!vars
<1>3. [Next]_vars => (which = "sshclient" <=> (which = "sshclient")')
  BY OneSubsystem
<1> QED
  BY <1>1, <1>2, <1>3, ClosedAlone, PTL DEF Spec, S!Spec, NothingLeaks

HIDE DEF known, hostKey, dial, agentConn, conn, keepalive, accepted, crowded

-----------------------------------------------------------------------------
(***************************************************************************)
(* The snapshot cache                                                      *)
(***************************************************************************)

\* The variables of HealthSnapshot.
pc == x1
force == x2
gone == x3
mutex == x4
cached == x5
comp == x6
got == x7
floor == x8
newest == x9
builds == x10
USE DEF pc, force, gone, mutex, cached, comp, got, floor, newest, builds

\* No answer is newer than the cache, the build under way is the newest, and a
\* call's answer is no older than what had been returned when it began.
CacheInv ==
    /\ newest <= cached.snap.id /\ cached.snap.id <= builds
    /\ \A c \in Callers : /\ pc[c] \in {"version", "scan"} => comp[c].id = builds
                          /\ floor[c] <= newest
                          /\ got[c].id # 0 => floor[c] <= got[c].id

\* Every step of a caller, the builds and the clock keep the invariant.
LEMMA CacheNext ==
  ASSUME MaxBuilds \in Nat, TTL \in Nat, "none" \notin Callers,
         H!TypeOK, CacheInv, [H!Next]_(H!vars)
  PROVE  H!TypeOK' /\ CacheInv'
<1>t. /\ pc \in [Callers -> H!PCs] /\ force \in [Callers -> BOOLEAN]
      /\ gone \in [Callers -> BOOLEAN] /\ mutex \in {"none"} \cup Callers
      /\ cached \in [snap : H!Snapshots, at : 0..TTL]
      /\ comp \in [Callers -> H!Snapshots] /\ got \in [Callers -> H!Snapshots]
      /\ floor \in [Callers -> 0..MaxBuilds] /\ newest \in 0..MaxBuilds /\ builds \in 0..MaxBuilds
      /\ \A c \in Callers : pc[c] \in {"recheck", "version", "scan"} => mutex = c
  BY DEF H!TypeOK, H!None
<1>n. /\ cached.snap \in H!Snapshots /\ cached.snap.id \in 0..MaxBuilds
      /\ \A c \in Callers : comp[c].id \in 0..MaxBuilds /\ got[c].id \in 0..MaxBuilds
  BY <1>t DEF H!Snapshots
<1>z. H!Nothing \in H!Snapshots /\ H!Nothing.id = 0
  BY DEF H!Snapshots, H!Nothing
<1>m. /\ newest <= cached.snap.id /\ cached.snap.id <= builds
      /\ \A c \in Callers : /\ pc[c] \in {"version", "scan"} => comp[c].id = builds
                            /\ floor[c] <= newest
                            /\ got[c].id # 0 => floor[c] <= got[c].id
  BY DEF CacheInv
<1>1. CASE H!Tick
  <2>1. cached' \in [snap : H!Snapshots, at : 0..TTL] /\ cached'.snap = cached.snap
    BY <1>t, <1>1 DEF H!Tick
  <2>2. UNCHANGED <<pc, force, gone, mutex, comp, got, floor, newest, builds>>
    BY <1>1 DEF H!Tick
  <2> QED
    BY <1>t, <1>m, <2>1, <2>2 DEF H!TypeOK, H!None, CacheInv
<1>2. ASSUME NEW c \in Callers, H!Call(c) PROVE H!TypeOK' /\ CacheInv'
  <2>1. /\ pc[c] = "idle" /\ UNCHANGED <<mutex, cached, comp, newest, builds>>
        /\ gone' = [gone EXCEPT ![c] = FALSE]
        /\ floor' = [floor EXCEPT ![c] = newest]
        /\ got' = [got EXCEPT ![c] = H!Nothing]
    BY <1>2 DEF H!Call
  <2>2. \E l \in {"fast", "lock"} : pc' = [pc EXCEPT ![c] = l]
    BY <1>2 DEF H!Call, H!Goto
  <2>3. force' \in [Callers -> BOOLEAN]
    BY <1>t, <1>2 DEF H!Call
  <2>4. pc' \in [Callers -> H!PCs] /\ gone' \in [Callers -> BOOLEAN]
        /\ floor' \in [Callers -> 0..MaxBuilds] /\ got' \in [Callers -> H!Snapshots]
    BY <1>t, <1>z, <2>1, <2>2 DEF H!PCs
  <2>5. /\ \A d \in Callers : pc'[d] \in {"recheck", "version", "scan"} => pc'[d] = pc[d]
        /\ \A d \in Callers : IF d = c THEN floor'[d] = newest /\ got'[d].id = 0
                              ELSE floor'[d] = floor[d] /\ got'[d] = got[d]
    BY <1>t, <1>z, <2>1, <2>2
  <2>6. CacheInv'
    BY <1>t, <1>n, <1>m, <2>1, <2>5 DEF CacheInv
  <2> QED
    BY <1>t, <2>1, <2>3, <2>4, <2>5, <2>6 DEF H!TypeOK, H!None
\* A call that returns s, with the cache at least as new as what was returned.
<1>r. ASSUME NEW c \in Callers, NEW s \in H!Snapshots, H!Return(c, s), newest <= s.id,
             cached' \in [snap : H!Snapshots, at : 0..TTL],
             s.id = cached'.snap.id, cached'.snap.id <= builds,
             mutex' \in {"none"} \cup Callers,
             \A d \in Callers \ {c} : mutex = d => mutex' = d,
             \E x \in H!Snapshots : comp' = [comp EXCEPT ![c] = x],
             UNCHANGED <<force, gone, floor, builds>>
      PROVE  H!TypeOK' /\ CacheInv'
  <2>1. /\ pc' = [pc EXCEPT ![c] = "idle"] /\ got' = [got EXCEPT ![c] = s]
        /\ newest' = IF s.id > newest THEN s.id ELSE newest
    BY <1>r DEF H!Return, H!Goto
  <2>2. s.id \in 0..MaxBuilds /\ cached'.snap.id \in 0..MaxBuilds
    BY <1>r DEF H!Snapshots
  <2>3. newest' = s.id /\ newest <= newest'
    BY <1>t, <1>r, <2>1, <2>2
  <2>4. /\ pc' \in [Callers -> H!PCs] /\ got' \in [Callers -> H!Snapshots]
        /\ comp' \in [Callers -> H!Snapshots]
    BY <1>t, <1>r, <2>1 DEF H!PCs
  <2>5. ASSUME NEW d \in Callers
        PROVE  /\ pc'[d] \in {"recheck", "version", "scan"} => mutex' = d
               /\ pc'[d] \in {"version", "scan"} => comp'[d].id = builds
               /\ floor[d] <= newest'
               /\ got'[d].id # 0 => floor[d] <= got'[d].id
    <3>1. CASE d = c
      <4>1. pc'[d] = "idle" /\ got'[d] = s
        BY <1>t, <2>1, <3>1
      <4>2. floor[d] \in 0..MaxBuilds /\ floor[d] <= newest
        BY <1>t, <1>m
      <4> QED
        BY <1>t, <2>2, <2>3, <4>1, <4>2
    <3>2. CASE d # c
      <4>1. pc'[d] = pc[d] /\ got'[d] = got[d] /\ comp'[d] = comp[d]
        BY <1>t, <1>r, <2>1, <3>2
      <4>2. floor[d] \in 0..MaxBuilds /\ floor[d] <= newest
        BY <1>t, <1>m
      <4>3. floor[d] <= newest'
        BY <1>t, <2>2, <2>3, <4>2
      <4> QED
        BY <1>t, <1>m, <1>r, <3>2, <4>1, <4>3
    <3> QED
      BY <3>1, <3>2
  <2>6. newest' <= cached'.snap.id /\ cached'.snap.id <= builds'
    BY <1>r, <2>2, <2>3
  <2>7. CacheInv'
    BY <1>r, <2>5, <2>6 DEF CacheInv
  <2> QED
    BY <1>t, <1>r, <2>2, <2>3, <2>4, <2>5, <2>7 DEF H!TypeOK, H!None
\* A call that moves on and returns nothing.
<1>g. ASSUME NEW c \in Callers, NEW l \in H!PCs, H!Goto(c, l),
             UNCHANGED <<force, gone, cached, got, floor, newest>>,
             mutex' \in {"none"} \cup Callers,
             \A d \in Callers \ {c} : mutex = d => mutex' = d,
             l \in {"recheck", "version", "scan"} => mutex' = c,
             NEW x \in H!Snapshots, comp' = [comp EXCEPT ![c] = x],
             builds' \in 0..MaxBuilds, builds <= builds',
             builds' # builds => \A d \in Callers \ {c} : mutex # d,
             l \in {"version", "scan"} => x.id = builds'
      PROVE  H!TypeOK' /\ CacheInv'
  <2>1. /\ pc' \in [Callers -> H!PCs] /\ comp' \in [Callers -> H!Snapshots]
        /\ pc'[c] = l /\ comp'[c] = x
        /\ \A d \in Callers \ {c} : pc'[d] = pc[d] /\ comp'[d] = comp[d]
    BY <1>t, <1>g DEF H!Goto
  <2>2. ASSUME NEW d \in Callers
        PROVE  /\ pc'[d] \in {"recheck", "version", "scan"} => mutex' = d
               /\ pc'[d] \in {"version", "scan"} => comp'[d].id = builds'
    <3>1. CASE d = c
      BY <1>g, <2>1, <3>1
    <3>2. CASE d # c
      <4>1. pc'[d] = pc[d] /\ comp'[d] = comp[d]
        BY <2>1, <3>2
      <4> QED
        BY <1>t, <1>m, <1>g, <3>2, <4>1
    <3> QED
      BY <3>1, <3>2
  <2>3. cached.snap.id <= builds'
    BY <1>t, <1>n, <1>m, <1>g
  <2>4. CacheInv'
    BY <1>m, <1>g, <2>2, <2>3 DEF CacheInv
  <2> QED
    BY <1>t, <1>g, <2>1, <2>2, <2>4 DEF H!TypeOK, H!None
<1>c. ASSUME NEW c \in Callers, comp' = comp
      PROVE  comp[c] \in H!Snapshots /\ comp' = [comp EXCEPT ![c] = comp[c]]
  BY <1>t, <1>c
<1>3. ASSUME NEW c \in Callers, H!FastPath(c) PROVE H!TypeOK' /\ CacheInv'
  <2>1. UNCHANGED <<force, gone, mutex, cached, comp, floor, builds>>
    BY <1>3 DEF H!FastPath
  <2>2. CASE H!Return(c, cached.snap)
    BY <1>t, <1>n, <1>m, <1>c, <1>r, <2>1, <2>2
  <2>3. CASE H!Goto(c, "lock") /\ UNCHANGED <<got, newest>>
    <3>1. "lock" \in H!PCs
      BY DEF H!PCs
    <3> QED
      BY <1>t, <1>n, <1>c, <1>g, <2>1, <2>3, <3>1
  <2> QED
    BY <1>3, <2>2, <2>3 DEF H!FastPath
<1>4. ASSUME NEW c \in Callers, H!Lock(c) PROVE H!TypeOK' /\ CacheInv'
  <2>1. /\ mutex = "none" /\ mutex' = c /\ H!Goto(c, "recheck") /\ "recheck" \in H!PCs
        /\ UNCHANGED <<force, gone, cached, comp, got, floor, newest, builds>>
    BY <1>4 DEF H!Lock, H!None, H!PCs
  <2> QED
    BY <1>t, <1>n, <1>c, <1>g, <2>1
<1>5. ASSUME NEW c \in Callers, H!Recheck(c) PROVE H!TypeOK' /\ CacheInv'
  <2>0. UNCHANGED <<force, gone, cached, floor>> /\ mutex = c
    BY <1>t, <1>5 DEF H!Recheck
  <2>1. CASE H!Return(c, cached.snap) /\ mutex' = "none" /\ UNCHANGED <<comp, builds>>
    BY <1>t, <1>n, <1>m, <1>c, <1>r, <2>0, <2>1
  <2>2. CASE H!Begin(c)
    <3> DEFINE x == [id |-> builds + 1, ok |-> FALSE]
    <3>1. /\ builds' = builds + 1 /\ builds' \in 0..MaxBuilds
          /\ H!Goto(c, "version") /\ "version" \in H!PCs /\ UNCHANGED <<mutex, got, newest>>
      BY <1>t, <2>2 DEF H!Begin, H!PCs
    <3>2. comp' = [comp EXCEPT ![c] = x]
      BY <2>2 DEF H!Begin
    <3>3. x \in H!Snapshots /\ x.id = builds'
      BY <3>1 DEF H!Snapshots
    <3>4. builds <= builds'
      BY <1>t, <3>1
    <3> HIDE DEF x
    <3> QED
      BY <1>t, <1>g, <2>0, <3>1, <3>2, <3>3, <3>4
  <2> QED
    BY <1>5, <2>1, <2>2 DEF H!Recheck, H!None
<1>6. ASSUME NEW c \in Callers, H!Version(c) PROVE H!TypeOK' /\ CacheInv'
  <2> DEFINE x == [comp[c] EXCEPT !.ok = ~gone[c]]
  <2>1. /\ mutex = c /\ comp[c].id = builds /\ H!Goto(c, "scan") /\ "scan" \in H!PCs
        /\ UNCHANGED <<force, gone, mutex, cached, got, floor, newest, builds>>
    BY <1>t, <1>m, <1>6 DEF H!Version, H!PCs
  <2>2. comp' = [comp EXCEPT ![c] = x]
    BY <1>t, <1>6 DEF H!Version
  <2>3. x \in H!Snapshots /\ x.id = comp[c].id
    <3>1. comp[c] \in H!Snapshots /\ (~gone[c]) \in BOOLEAN
      BY <1>t
    <3> QED
      BY <3>1 DEF H!Snapshots
  <2>4. builds <= builds'
    BY <1>t, <2>1
  <2> HIDE DEF x
  <2> QED
    BY <1>t, <1>g, <2>1, <2>2, <2>3, <2>4
<1>7. ASSUME NEW c \in Callers, H!Store(c) PROVE H!TypeOK' /\ CacheInv'
  <2>1. /\ mutex = c /\ comp[c].id = builds /\ comp[c] \in H!Snapshots
        /\ H!Return(c, comp[c]) /\ mutex' = "none"
        /\ comp' = [comp EXCEPT ![c] = H!Nothing] /\ UNCHANGED <<force, gone, floor, builds>>
    BY <1>t, <1>m, <1>7 DEF H!Store, H!None
  <2>2. cached' = [snap |-> comp[c], at |-> 0] /\ 0 \in 0..TTL
    BY <1>7 DEF H!Store
  <2>3. cached' \in [snap : H!Snapshots, at : 0..TTL] /\ cached'.snap = comp[c]
    BY <2>1, <2>2
  <2>4. newest <= comp[c].id /\ comp[c].id <= builds
    BY <1>t, <1>n, <1>m, <2>1
  <2> QED
    BY <1>t, <1>z, <1>r, <2>1, <2>3, <2>4
<1>8. ASSUME NEW c \in Callers, H!Disconnect(c) PROVE H!TypeOK' /\ CacheInv'
  <2>1. gone' \in [Callers -> BOOLEAN]
        /\ UNCHANGED <<pc, force, mutex, cached, comp, got, floor, newest, builds>>
    BY <1>t, <1>8 DEF H!Disconnect
  <2> QED
    BY <1>t, <1>m, <2>1 DEF H!TypeOK, H!None, CacheInv
<1>9. CASE UNCHANGED H!vars
  BY <1>t, <1>m, <1>9 DEF H!vars, H!TypeOK, H!None, CacheInv
<1> QED
  BY <1>1, <1>2, <1>3, <1>4, <1>5, <1>6, <1>7, <1>8, <1>9 DEF H!Next, H!Step

\* The subsystem by itself.
LEMMA SnapshotsAlone == H!Spec => []H!MonotonicReads
<1>0. MaxBuilds \in Nat /\ TTL \in Nat /\ "none" \notin Callers
  BY OperationsAssumption
<1> USE <1>0
<1>1. H!Init => H!TypeOK /\ CacheInv
  BY DEF H!Init, H!TypeOK, H!PCs, H!Snapshots, H!Nothing, H!None, CacheInv
<1>2. H!TypeOK /\ CacheInv /\ [H!Next]_(H!vars) => H!TypeOK' /\ CacheInv'
  BY CacheNext
<1>3. H!TypeOK /\ CacheInv => H!MonotonicReads
  BY DEF H!TypeOK, H!Snapshots, CacheInv, H!MonotonicReads
<1> QED
  BY <1>1, <1>2, <1>3, PTL DEF H!Spec

(***************************************************************************)
(* A call of fleet.HealthSnapshot never returns a snapshot older than one  *)
(* that had been returned when it began: for any number of callers, with   *)
(* and without Refresh, any cacheTTL and any clients that go away.         *)
(***************************************************************************)
THEOREM SnapshotsMonotonic == Spec => []MonotonicReads
<1>1. Init /\ which = "health" => H!Init
  BY DEF Init
<1>2. [Next]_vars /\ which = "health" => [H!Next]_(H!vars)
  BY DEF Next, vars, H!vars
<1>3. [Next]_vars => (which = "health" <=> (which = "health")')
  BY OneSubsystem
<1> QED
  BY <1>1, <1>2, <1>3, SnapshotsAlone, PTL DEF Spec, H!Spec, MonotonicReads

HIDE DEF pc, force, gone, mutex, cached, comp, got, floor, newest, builds

-----------------------------------------------------------------------------
(***************************************************************************)
(* LaunchAgents                                                            *)
(***************************************************************************)

\* The variables of Agents.
agent == x1
plist == x2
job == x3
op == x4
result == x5
intent == x6
alone == x7
bootoutLost == x8
USE DEF agent, plist, job, op, result, intent, alone, bootoutLost

\* While the last commands did not overlap: only one of them is under way, and
\* it has promised nothing yet; before it loads the plist, the plist is its
\* own, and before it removes the plist the job is gone; and what was promised
\* last is so.
InstalledInv ==
    alone =>
      /\ \A o, p \in Processes : ~A!Idle(o) /\ ~A!Idle(p) => o = p
      /\ \A o \in Processes : ~A!Idle(o) => intent = "unknown"
      /\ \A o \in Processes : A!At(o, "bootstrap") => plist = op[o].v
      /\ \A o \in Processes : A!At(o, "remove") => bootoutLost \/ job = "absent"
      /\ ~bootoutLost /\ intent # "unknown" => plist = intent /\ job = intent
      /\ intent \in Plists \cup {"absent", "unknown"}

OpsTyped == op \in [Processes -> A!Steps]

\* A command that goes to its next step or returns leaves the others alone.
LEMMA OneGoes ==
  ASSUME OpsTyped, NEW o \in Processes, NEW s \in A!Steps, A!Goto(o, s)
  PROVE  /\ OpsTyped'
         /\ op'[o] = s
         /\ \A p \in Processes : p # o => op'[p] = op[p]
  BY DEF A!Goto, OpsTyped

\* The kinds of the steps of an agent command.
LEMMA StepKinds ==
  /\ [at |-> "idle"] \in A!Steps /\ [at |-> "bootout"] \in A!Steps
  /\ [at |-> "remove"] \in A!Steps
  /\ \A v \in Plists : /\ [at |-> "write", v |-> v] \in A!Steps
                         /\ [at |-> "bootstrap", v |-> v] \in A!Steps
  /\ \A s \in A!Steps : s.at \in {"write", "bootstrap"} => s.v \in Plists
  BY DEF A!Steps

\* A mutating command begins: it promises nothing yet.
LEMMA InstalledBegin ==
  ASSUME OpsTyped, InstalledInv, NEW o \in Processes, NEW s \in A!Steps,
         s.at \in {"write", "bootout"}, A!Begin(o, s)
  PROVE  OpsTyped' /\ InstalledInv'
<1>1. /\ OpsTyped' /\ op'[o] = s
      /\ \A p \in Processes : p # o => op'[p] = op[p]
  BY OneGoes DEF A!Begin
<1>2. intent' = "unknown" /\ alone' = (\A p \in A!Others(o) : A!Idle(p))
  BY DEF A!Begin
<1>3. alone' => \A p \in Processes : p # o => op'[p].at = "idle"
  BY <1>1, <1>2 DEF A!Others, A!Idle, A!At
<1> QED BY <1>1, <1>2, <1>3 DEF InstalledInv, A!Idle, A!At

\* A command that is refused, and a status, change nothing.
LEMMA InstalledStays ==
  ASSUME OpsTyped, InstalledInv, NEW o \in Processes, A!Idle(o), NEW r, A!Return(o, r),
         UNCHANGED <<plist, job, intent, alone, bootoutLost>>
  PROVE  OpsTyped' /\ InstalledInv'
<1>1. /\ OpsTyped' /\ op'[o] = [at |-> "idle"]
      /\ \A p \in Processes : p # o => op'[p] = op[p]
  BY OneGoes, StepKinds DEF A!Return
<1>2. \A p \in Processes : /\ A!Idle(p)' <=> A!Idle(p)
                           /\ A!At(p, "bootstrap")' => p # o
                           /\ A!At(p, "remove")' => p # o
  BY <1>1 DEF A!Idle, A!At
<1> QED BY <1>1, <1>2 DEF InstalledInv, A!At

\* A command ends without having achieved what it was to.
LEMMA InstalledFails ==
  ASSUME OpsTyped, InstalledInv, NEW o \in Processes, ~A!Idle(o), NEW r, A!Return(o, r),
         UNCHANGED <<job, intent, alone, bootoutLost>>
  PROVE  OpsTyped' /\ InstalledInv'
<1>1. /\ OpsTyped' /\ op'[o] = [at |-> "idle"]
      /\ \A p \in Processes : p # o => op'[p] = op[p]
  BY OneGoes, StepKinds DEF A!Return
<1>2. alone => /\ intent = "unknown"
               /\ \A p \in Processes : p # o => A!Idle(p)
  BY DEF InstalledInv
<1>3. alone => \A p \in Processes : op'[p].at = "idle"
  BY <1>1, <1>2 DEF A!Idle, A!At
<1> QED BY <1>1, <1>2, <1>3 DEF InstalledInv, A!Idle, A!At

\* Every command is an install, an uninstall, a status or a refusal.
LEMMA CommandKinds ==
  ASSUME NEW o \in Processes, A!Command(o)
  PROVE  \/ A!Install(o) \/ A!Uninstall(o) \/ A!Refuse(o)
         \/ \E r \in {"ok", "error"} : A!Status(o, r)
  BY DEF A!Command, A!InstallOrRefuse,
     A!runSnapshotPublishInstall, A!runSnapshotPublishUninstall, A!runSnapshotPublishStatus,
     A!runWatchdogInstall, A!runWatchdogUninstall, A!runWatchdogStatus,
     A!runHeartbeatsBridgeInstall, A!runHeartbeatsBridgeUninstall,
     A!runHeartbeatsBridgeStatus,
     A!runLogrotateInstall, A!runLogrotateUninstall, A!runLogrotateStatus,
     A!runBackupInstall, A!runBackupUninstall, A!runBackupStatus,
     A!runBackupWorkerInstall, A!runBackupWorkerUninstall, A!runBackupWorkerStatus,
     A!runSetupAgent, A!saDoInstall, A!saDoUninstall, A!saDoStatus

\* The steps of a command that is under way.
LEMMA InstalledStep ==
  ASSUME OpsTyped, InstalledInv, NEW o \in Processes, A!Step(o)
  PROVE  OpsTyped' /\ InstalledInv'
<1>0. op[o] \in A!Steps
  BY DEF OpsTyped
<1>1. CASE A!WritePlist(o)
  <2>n. ~A!Idle(o) /\ op[o].v \in Plists /\ UNCHANGED <<job, intent, alone, bootoutLost>>
    BY <1>0, <1>1, StepKinds DEF A!WritePlist, A!Idle, A!At, A!history
  <2>1. CASE plist' = op[o].v /\ A!Goto(o, [at |-> "bootstrap", v |-> op[o].v])
    <3>1. /\ OpsTyped' /\ op'[o] = [at |-> "bootstrap", v |-> op[o].v]
          /\ \A p \in Processes : p # o => op'[p] = op[p]
      BY <2>1, <2>n, OneGoes, StepKinds
    <3>2. alone => /\ intent = "unknown"
                   /\ \A p \in Processes : p # o => A!Idle(p)
      BY <2>n DEF InstalledInv
    <3>3. alone => \A p \in Processes : p # o => op'[p].at = "idle"
      BY <3>1, <3>2 DEF A!Idle, A!At
    <3>4. op'[o].at = "bootstrap" /\ op'[o].v = plist'
      BY <3>1, <2>1
    <3> QED BY <2>n, <3>1, <3>2, <3>3, <3>4 DEF InstalledInv, A!Idle, A!At
  <2>2. CASE A!Return(o, "error")
    BY <2>2, <2>n, InstalledFails
  <2> QED BY <1>1, <2>1, <2>2 DEF A!WritePlist
<1>2. CASE A!Bootstrap(o)
  <2>n. ~A!Idle(o) /\ op[o].v \in Plists /\ UNCHANGED <<plist, alone, bootoutLost>>
    BY <1>0, <1>2, StepKinds DEF A!Bootstrap, A!Idle, A!At
  <2>1. CASE job' = plist /\ intent' = op[o].v /\ A!Return(o, "ok")
    <3>1. /\ OpsTyped' /\ op'[o] = [at |-> "idle"]
          /\ \A p \in Processes : p # o => op'[p] = op[p]
      BY <2>1, OneGoes, StepKinds DEF A!Return
    <3>2. alone => /\ plist = op[o].v
                   /\ \A p \in Processes : p # o => A!Idle(p)
      BY <1>2, <2>n DEF InstalledInv, A!Bootstrap
    <3>3. alone => \A p \in Processes : op'[p].at = "idle"
      BY <3>1, <3>2 DEF A!Idle, A!At
    <3> QED BY <2>1, <2>n, <3>1, <3>2, <3>3 DEF InstalledInv, A!Idle, A!At
  <2>2. CASE UNCHANGED <<job, intent>> /\ A!Return(o, "error")
    BY <2>2, <2>n, InstalledFails
  <2> QED BY <1>2, <2>1, <2>2 DEF A!Bootstrap
<1>3. CASE A!Bootout(o)
  <2>1. ~A!Idle(o) /\ UNCHANGED <<plist, intent, alone>> /\ A!Goto(o, [at |-> "remove"])
    BY <1>3 DEF A!Bootout, A!Idle, A!At
  <2>2. /\ OpsTyped' /\ op'[o] = [at |-> "remove"]
        /\ \A p \in Processes : p # o => op'[p] = op[p]
    BY <2>1, OneGoes, StepKinds
  <2>3. alone => /\ intent = "unknown"
                 /\ \A p \in Processes : p # o => A!Idle(p)
    BY <2>1 DEF InstalledInv
  <2>4. alone => \A p \in Processes : p # o => op'[p].at = "idle"
    BY <2>2, <2>3 DEF A!Idle, A!At
  <2>5. bootoutLost' \/ job' = "absent"
    BY <1>3 DEF A!Bootout
  <2> QED BY <2>1, <2>2, <2>3, <2>4, <2>5 DEF InstalledInv, A!Idle, A!At
<1>4. CASE A!RemovePlist(o)
  <2>n. ~A!Idle(o) /\ UNCHANGED <<job, alone, bootoutLost>>
    BY <1>4 DEF A!RemovePlist, A!Idle, A!At
  <2>1. CASE plist' = "absent" /\ intent' = "absent" /\ A!Return(o, "ok")
    <3>1. /\ OpsTyped' /\ op'[o] = [at |-> "idle"]
          /\ \A p \in Processes : p # o => op'[p] = op[p]
      BY <2>1, OneGoes, StepKinds DEF A!Return
    <3>2. alone => /\ bootoutLost \/ job = "absent"
                   /\ \A p \in Processes : p # o => A!Idle(p)
      BY <1>4, <2>n DEF InstalledInv, A!RemovePlist
    <3>3. alone => \A p \in Processes : op'[p].at = "idle"
      BY <3>1, <3>2 DEF A!Idle, A!At
    <3> QED BY <2>1, <2>n, <3>1, <3>2, <3>3 DEF InstalledInv, A!Idle, A!At
  <2>2. CASE UNCHANGED <<plist, intent>> /\ A!Return(o, "error")
    BY <2>2, <2>n, InstalledFails
  <2> QED BY <1>4, <2>1, <2>2 DEF A!RemovePlist
<1> QED BY <1>1, <1>2, <1>3, <1>4 DEF A!Step

\* Every step of the launchd model keeps what commands promised.
LEMMA InstalledNext ==
  ASSUME OpsTyped, InstalledInv, [A!Next]_(A!vars)
  PROVE  OpsTyped' /\ InstalledInv'
<1>1. ASSUME NEW o \in Processes, A!Command(o) PROVE OpsTyped' /\ InstalledInv'
  <2>1. CASE A!Install(o)
    <3>1. \E v \in Plists : A!Begin(o, [at |-> "write", v |-> v])
      BY <2>1 DEF A!Install
    <3> QED BY <3>1, StepKinds, InstalledBegin
  <2>2. CASE A!Uninstall(o)
    BY <2>2, StepKinds, InstalledBegin DEF A!Uninstall
  <2>3. CASE A!Refuse(o)
    <3>1. /\ A!Idle(o) /\ A!Return(o, "error")
          /\ UNCHANGED <<plist, job, intent, alone, bootoutLost>>
      BY <2>3 DEF A!Refuse, A!history
    <3> QED BY <3>1, InstalledStays
  <2>4. ASSUME NEW r \in {"ok", "error"}, A!Status(o, r) PROVE OpsTyped' /\ InstalledInv'
    <3>1. /\ A!Idle(o)
          /\ UNCHANGED <<plist, job, intent, alone, bootoutLost>>
      BY <2>4 DEF A!Status, A!history
    <3>2. PICK s : A!Return(o, s)
      BY <2>4 DEF A!Status
    <3> QED BY <3>1, <3>2, InstalledStays
  <2> QED BY <1>1, <2>1, <2>2, <2>3, <2>4, CommandKinds
<1>2. ASSUME NEW o \in Processes, A!Step(o) PROVE OpsTyped' /\ InstalledInv'
  BY <1>2, InstalledStep
<1>3. ASSUME NEW o \in Processes, A!Crash(o) PROVE OpsTyped' /\ InstalledInv'
  <2>1. ~A!Idle(o) /\ A!Return(o, "error") /\ UNCHANGED <<job, intent, alone, bootoutLost>>
    BY <1>3 DEF A!Crash, A!history
  <2> QED BY <2>1, InstalledFails
<1>4. CASE A!Login
  <2>1. /\ \A o \in Processes : A!Idle(o)
        /\ UNCHANGED <<plist, op, intent, alone, bootoutLost>>
        /\ job' = IF plist \in Plists THEN plist ELSE "absent"
    BY <1>4 DEF A!Login, A!history
  <2>2. alone /\ ~bootoutLost /\ intent # "unknown" => job' = intent
    <3>1. alone /\ ~bootoutLost /\ intent # "unknown"
            => plist = intent /\ intent \in Plists \cup {"absent"}
      BY DEF InstalledInv
    <3> QED BY <2>1, <3>1
  <2> QED BY <2>1, <2>2 DEF OpsTyped, InstalledInv, A!Idle, A!At
<1>5. CASE UNCHANGED A!vars
  BY <1>5 DEF A!vars, OpsTyped, InstalledInv, A!Idle, A!At
<1> QED BY <1>1, <1>2, <1>3, <1>4, <1>5 DEF A!Next

\* The subsystem by itself.
LEMMA AgentsAlone == A!Spec => []A!ReportedIsInstalled
<1>1. A!Init => OpsTyped /\ InstalledInv
  BY StepKinds DEF A!Init, OpsTyped, InstalledInv, A!Idle, A!At
<1>2. OpsTyped /\ InstalledInv /\ [A!Next]_(A!vars) => (OpsTyped /\ InstalledInv)'
  BY InstalledNext
<1>3. OpsTyped /\ InstalledInv => A!ReportedIsInstalled
  BY DEF InstalledInv, A!ReportedIsInstalled
<1> QED BY <1>1, <1>2, <1>3, PTL DEF A!Spec

\* For any operators and renderings of the plist: what an install or uninstall
\* that ran alone reported holds on disk and in launchd, and stays so over a
\* login, whatever earlier commands that failed or died left behind, unless the
\* bootout of an uninstall failed.
THEOREM InstallsReported == Spec => []ReportedIsInstalled
<1>1. Init /\ which = "agents" => A!Init
  BY DEF Init
<1>2. [Next]_vars /\ which = "agents" => [A!Next]_(A!vars)
  BY DEF Next, vars, A!vars
<1>3. [Next]_vars => (which = "agents" <=> (which = "agents")')
  BY OneSubsystem
<1> QED
  BY <1>1, <1>2, <1>3, AgentsAlone, PTL DEF Spec, A!Spec, ReportedIsInstalled

HIDE DEF agent, plist, job, op, result, intent, alone, bootoutLost

-----------------------------------------------------------------------------
(***************************************************************************)
(* Scheduled jobs                                                          *)
(***************************************************************************)

\* The variables of Cronjobs.
table == x1
call == x2
shown == x3
promised == x4
serial == x5
USE DEF table, call, shown, promised, serial

CallsTyped ==
    /\ call \in [Processes -> C!Calls]
    /\ \A c \in Processes : C!At(c, "install-list") => call[c].job \in C!Jobs

\* While the last command that changed something ran alone: nobody else is
\* under way, the one that is has promised nothing yet, and the last promise
\* is what the table says.
PromisedInv ==
    serial =>
      /\ \A c, d \in Processes : ~C!Idle(c) /\ ~C!Idle(d) => c = d
      /\ \A c \in Processes : ~C!Idle(c) => promised = C!Nothing
      /\ promised # C!Nothing => table.what = promised.what

\* A command begins.
LEMMA PromisedBegin ==
  ASSUME CallsTyped, PromisedInv, NEW c \in Processes,
         NEW s \in {"install-list", "remove"}, NEW j \in C!Jobs \cup {C!None},
         s = "install-list" => j \in C!Jobs, C!Begin(c, s, j)
  PROVE  CallsTyped' /\ PromisedInv'
<1>1. /\ call' = [call EXCEPT ![c] = [at |-> s, job |-> j]]
      /\ promised' = C!Nothing
      /\ serial' = \A d \in Processes \ {c} : C!Idle(d)
  BY DEF C!Begin
<1>2. [at |-> s, job |-> j] \in C!Calls
  BY DEF C!Calls
<1>3. CallsTyped'
  BY <1>1, <1>2 DEF CallsTyped, C!At
<1>4. serial' => \A d \in Processes : d # c => call'[d] = C!Free
  BY <1>1 DEF C!Idle, CallsTyped
<1> QED BY <1>1, <1>3, <1>4 DEF PromisedInv, C!Idle

\* A command goes on: it changes the table at most.
LEMMA PromisedGoes ==
  ASSUME CallsTyped, PromisedInv, NEW c \in Processes, ~C!Idle(c),
         NEW s \in {"install-remove", "install-add"}, C!Goto(c, s)
  PROVE  CallsTyped' /\ PromisedInv'
<1>1. /\ call' = [call EXCEPT ![c].at = s]
      /\ UNCHANGED <<promised, serial>>
  BY DEF C!Goto
<1>2. call[c] \in C!Calls
  BY DEF CallsTyped
<1>3. /\ call' = [call EXCEPT ![c] = [call[c] EXCEPT !.at = s]]
      /\ [call[c] EXCEPT !.at = s] \in C!Calls
      /\ [call[c] EXCEPT !.at = s].at = s
  BY <1>1, <1>2 DEF C!Calls
<1>4. CallsTyped'
  BY <1>3 DEF CallsTyped, C!At
<1>5. \A d \in Processes : d # c => call'[d] = call[d]
  BY <1>1 DEF CallsTyped
<1>6. serial => promised = C!Nothing /\ \A d \in Processes : d # c => C!Idle(d)
  BY DEF PromisedInv
<1> QED BY <1>1, <1>4, <1>5, <1>6 DEF PromisedInv, C!Idle

\* A command ends: nobody is left, and what it reports is to be so.
LEMMA PromisedEnds ==
  ASSUME CallsTyped, PromisedInv, NEW c \in Processes, ~C!Idle(c), NEW p, C!Return(c, p),
         serial /\ p # C!Nothing => table'.what = p.what
  PROVE  CallsTyped' /\ PromisedInv'
<1>1. /\ call' = [call EXCEPT ![c] = C!Free] /\ promised' = p
      /\ UNCHANGED serial
  BY DEF C!Return
<1>2. C!Free \in C!Calls /\ C!Free.at = "idle"
  BY DEF C!Free, C!Calls
<1>3. CallsTyped'
  BY <1>1, <1>2 DEF CallsTyped, C!At
<1>4. serial => \A d \in Processes : C!Idle(d)'
  BY <1>1 DEF PromisedInv, C!Idle, CallsTyped
<1> QED BY <1>1, <1>3, <1>4 DEF PromisedInv

\* A command fails: it had promised nothing, and promises nothing.
LEMMA PromisedFails ==
  ASSUME CallsTyped, PromisedInv, NEW c \in Processes, ~C!Idle(c), C!Fail(c)
  PROVE  CallsTyped' /\ PromisedInv'
<1>1. serial => promised = C!Nothing
  BY DEF PromisedInv
<1> QED BY <1>1, PromisedEnds DEF C!Fail

\* Every step of a cronjob command keeps its promises.
LEMMA PromisedStep ==
  ASSUME "none" \notin Whats, CallsTyped, PromisedInv, NEW c \in Processes, C!Step(c)
  PROVE  CallsTyped' /\ PromisedInv'
<1>0. C!None.what = "none" /\ C!Free.at = "idle"
  BY DEF C!None, C!Entry, C!Free
<1>1. CASE C!runCronjobInstall(c)
  BY <1>1, PromisedBegin DEF C!runCronjobInstall
<1>2. CASE C!InstallList(c)
  <2>0. ~C!Idle(c) /\ call[c].job.what # "none" /\ UNCHANGED table
    BY <1>0, <1>2 DEF C!InstallList, C!At, C!Idle, CallsTyped, C!Jobs
  <2>1. PICK seen \in {table, C!None} :
           \/ seen.what = call[c].job.what /\ C!Return(c, call[c].job)
           \/ C!Goto(c, "install-remove") \/ C!Goto(c, "install-add")
    BY <1>2 DEF C!InstallList
  <2>2. CASE seen.what = call[c].job.what /\ C!Return(c, call[c].job)
    <3>1. seen = table
      BY <1>0, <2>0, <2>2
    <3> QED BY <2>0, <2>2, <3>1, PromisedEnds
  <2>3. CASE C!Goto(c, "install-remove") \/ C!Goto(c, "install-add")
    BY <2>0, <2>3, PromisedGoes
  <2> QED BY <2>1, <2>2, <2>3
<1>3. CASE C!InstallRemove(c)
  <2>1. ~C!Idle(c) /\ (C!Goto(c, "install-add") \/ C!Fail(c))
    BY <1>0, <1>3 DEF C!InstallRemove, C!At, C!Idle
  <2> QED BY <2>1, PromisedGoes, PromisedFails
<1>4. CASE C!InstallAdd(c)
  <2>1. /\ ~C!Idle(c)
        /\ (table' = call[c].job /\ C!Return(c, call[c].job)) \/ C!Fail(c)
    BY <1>0, <1>4 DEF C!InstallAdd, C!At, C!Idle
  <2> QED BY <2>1, PromisedEnds, PromisedFails
<1>5. CASE C!runCronjobRemove(c)
  BY <1>5, PromisedBegin DEF C!runCronjobRemove
<1>6. CASE C!Remove(c)
  <2>1. ~C!Idle(c) /\ ((table' = C!None /\ C!Return(c, C!None)) \/ C!Fail(c))
    BY <1>0, <1>6 DEF C!Remove, C!At, C!Idle
  <2> QED BY <2>1, PromisedEnds, PromisedFails
<1>7. CASE C!List(c)
  BY <1>7 DEF C!List, CallsTyped, PromisedInv, C!At, C!Idle
<1>8. CASE C!Crash(c)
  BY <1>8, PromisedFails DEF C!Crash
<1> QED BY <1>1, <1>2, <1>3, <1>4, <1>5, <1>6, <1>7, <1>8 DEF C!Step

\* The subsystem by itself.
LEMMA CronjobsAlone == C!Spec => []C!PromisedIsScheduled
<1>0. "none" \notin Whats
  BY OperationsAssumption
<1> USE <1>0
<1>1. C!Init => CallsTyped /\ PromisedInv
  BY DEF C!Init, CallsTyped, PromisedInv, C!Free, C!Calls, C!Idle, C!At
<1>2. CallsTyped /\ PromisedInv /\ [C!Next]_(C!vars) => (CallsTyped /\ PromisedInv)'
  <2>1. CASE UNCHANGED C!vars
    BY <2>1 DEF C!vars, CallsTyped, PromisedInv, C!Idle, C!At
  <2> QED BY <2>1, PromisedStep DEF C!Next
<1>3. CallsTyped /\ PromisedInv => C!PromisedIsScheduled
  BY DEF PromisedInv, C!PromisedIsScheduled
<1> QED BY <1>1, <1>2, <1>3, PTL DEF C!Spec

\* For any clients, schedules and environments ("none" stands for no entry): a
\* cronjob install or remove that ran alone and reported success left the
\* runtime's table as it said, whatever an earlier update that stopped halfway
\* left there.
THEOREM PromisesKept == Spec => []PromisedIsScheduled
<1>1. Init /\ which = "cronjobs" => C!Init
  BY DEF Init
<1>2. [Next]_vars /\ which = "cronjobs" => [C!Next]_(C!vars)
  BY DEF Next, vars, C!vars
<1>3. [Next]_vars => (which = "cronjobs" <=> (which = "cronjobs")')
  BY OneSubsystem
<1> QED
  BY <1>1, <1>2, <1>3, CronjobsAlone, PTL DEF Spec, C!Spec, PromisedIsScheduled

HIDE DEF table, call, shown, promised, serial

-----------------------------------------------------------------------------
(***************************************************************************)
(* verify, usecase-tests and test                                          *)
(***************************************************************************)

\* The variables of Gates.
line == x1
at == x2
next == x3
step == x4
task == x5
results == x6
exit == x7
summary == x8
good == x9
missed == x10
USE DEF line, at, next, step, task, results, exit, summary, good, missed

GateTyped ==
    /\ line \in D!Lines
    /\ at \in {"start", "loop", "wait", "end"}
    /\ next \in Nat /\ 1 <= next /\ next <= NumChecks + 1
    /\ at = "loop" => next <= NumChecks
    /\ step \in Nat /\ 1 <= step
    /\ task \in [D!Checks -> {"none", "runs", "stored", "freed", "done"}]
    /\ results \in [D!Checks -> {"zero", "pass", "warn", "skip", "fail", "invalid"}]
    /\ at # "end" => exit = "none" /\ summary = "none"
    /\ at = "start" => next = 1 /\ step = 1

\* What ends the command with an error, and the steps of a check.
Bad == IF line.name = "test" THEN {"fail"} ELSE {"fail", "invalid"}
StepsOf == 1..IF line.name = "test" THEN NumSteps ELSE 1
Seen(c, s) == <<c, s>> \in good \cup missed

\* verify: a goroutine that has stored its result has failed or run its check.
TaskInv ==
    \A c \in D!Checks : task[c] \in {"stored", "freed", "done"}
                          => results[c] = "fail" \/ Seen(c, 1)

\* usecase-tests and test: what lies behind the loop has run or failed, and the
\* loop ends early for a failure only.
LoopInv ==
    /\ \A c \in D!Checks : task[c] = "none"
    /\ \A c \in D!Picked : c < next => results[c] \in Bad \/ \A s \in StepsOf : Seen(c, s)
    /\ \A s \in Nat : 1 <= s /\ s < step => Seen(next, s)
    /\ step > 1 => line.name = "test" /\ at = "loop" /\ next \in D!Picked
    /\ at = "wait" => next = NumChecks + 1 \/ \E c \in D!Checks : results[c] \in Bad

GateInv ==
    /\ GateTyped
    /\ line.name = "verify" => TaskInv
    /\ line.name # "verify" => LoopInv
    /\ D!GreenMeansGood

\* A green exit stays one: what has run has run.
LEMMA GreenStays ==
  ASSUME D!GreenMeansGood, UNCHANGED <<line, exit, summary>>,
         good \subseteq good', missed \subseteq missed'
  PROVE  D!GreenMeansGood'
<1>1. D!Required' = D!Required
  BY DEF D!Required, D!Picked, D!Optional
<1> QED BY <1>1 DEF D!GreenMeansGood

\* No green exit, nothing to show.
LEMMA GreenNone ==
  ASSUME exit' # "ok"
  PROVE  D!GreenMeansGood'
  BY DEF D!GreenMeansGood

\* The loop goes on: there is a next check, or the loop is over.
LEMMA AdvanceTyped ==
  ASSUME NumChecks \in Nat \ {0}, GateTyped, at = "loop", D!Advance
  PROVE  /\ next' = next + 1 /\ next' \in Nat /\ 1 <= next' /\ next' <= NumChecks + 1
         /\ at' \in {"loop", "wait"}
         /\ at' = "loop" => next' <= NumChecks
         /\ at' = "wait" => next' = NumChecks + 1
         /\ \A c \in Nat : c < next' => c < next \/ c = next
  BY DEF D!Advance, GateTyped

\* The loop passes over a check that was not selected.
LEMMA GatePassOver ==
  ASSUME NumChecks \in Nat \ {0}, GateInv, D!PassOver
  PROVE  GateInv'
<1>1. /\ GateTyped /\ at = "loop" /\ next \notin D!Picked /\ D!Advance /\ next \in D!Checks
      /\ results' = [results EXCEPT ![next] = IF line.name = "usecase-tests" THEN "skip" ELSE @]
      /\ UNCHANGED <<line, step, task, exit, summary, good, missed>>
  BY DEF GateInv, GateTyped, D!PassOver, D!Checks
<1>2. /\ next' = next + 1 /\ next' \in Nat /\ 1 <= next' /\ next' <= NumChecks + 1
      /\ at' \in {"loop", "wait"}
      /\ at' = "loop" => next' <= NumChecks
      /\ at' = "wait" => next' = NumChecks + 1
      /\ \A c \in Nat : c < next' => c < next \/ c = next
  BY <1>1, AdvanceTyped
<1>3. /\ results' \in [D!Checks -> {"zero", "pass", "warn", "skip", "fail", "invalid"}]
      /\ \A c \in D!Checks : c # next => results'[c] = results[c]
      /\ line.name = "verify" => results' = results
  BY <1>1 DEF GateTyped
<1>4. GateTyped'
  BY <1>1, <1>2, <1>3 DEF GateTyped
<1>5. ASSUME line.name = "verify" PROVE TaskInv'
  BY <1>1, <1>3, <1>5 DEF GateInv, TaskInv, Seen
<1>6. ASSUME line.name # "verify" PROVE LoopInv'
  <2>1. LoopInv /\ D!Picked' = D!Picked /\ Bad' = Bad /\ StepsOf' = StepsOf
    BY <1>1, <1>6 DEF GateInv, D!Picked, Bad, StepsOf
  <2>2. step = 1
    BY <1>1, <2>1 DEF LoopInv, GateTyped
  <2>3. \A c \in D!Picked : c \in Nat /\ c \in D!Checks
    BY DEF D!Picked, D!Checks
  <2>4. \A c \in D!Picked : c < next' => results'[c] \in Bad \/ \A s \in StepsOf : Seen(c, s)'
    BY <1>1, <1>2, <1>3, <2>1, <2>3 DEF LoopInv, Seen
  <2>5. \A s \in Nat : ~(1 <= s /\ s < step')
    BY <1>1, <2>2
  <2> QED BY <1>1, <1>2, <2>1, <2>2, <2>4, <2>5 DEF LoopInv
<1> QED BY <1>1, <1>4, <1>5, <1>6, GreenStays DEF GateInv

\* verify starts, runs and ends its goroutines.
LEMMA GateVerify ==
  ASSUME NumChecks \in Nat \ {0}, GateInv,
         D!Spawn \/ \E c \in D!Checks : D!runOne(c) \/ D!Leave(c)
  PROVE  GateInv'
<1>0. GateTyped
  BY DEF GateInv
<1>1. CASE D!Spawn
  <2>1. /\ line.name = "verify" /\ at = "loop" /\ D!Advance /\ next \in D!Checks
        /\ task' = [task EXCEPT ![next] = "runs"]
        /\ UNCHANGED <<line, step, results, exit, summary, good, missed>>
    BY <1>0, <1>1 DEF GateTyped, D!Spawn, D!Checks
  <2>2. /\ next' \in Nat /\ 1 <= next' /\ next' <= NumChecks + 1
        /\ at' \in {"loop", "wait"}
        /\ at' = "loop" => next' <= NumChecks
    BY <1>0, <2>1, AdvanceTyped
  <2>3. GateTyped'
    BY <1>0, <2>1, <2>2 DEF GateTyped
  <2>4. TaskInv'
    BY <1>0, <2>1 DEF GateInv, GateTyped, TaskInv, Seen
  <2> QED BY <2>1, <2>3, <2>4, GreenStays DEF GateInv
<1>2. ASSUME NEW c \in D!Checks, D!runOne(c) PROVE GateInv'
  <2>1. /\ task[c] = "runs" /\ task' = [task EXCEPT ![c] = "stored"]
        /\ \/ results' = [results EXCEPT ![c] = "pass"] /\ good' = good \cup {<<c, 1>>}
           \/ results' = [results EXCEPT ![c] = "fail"] /\ good' = good
        /\ UNCHANGED <<line, at, next, step, exit, summary, missed>>
    BY <1>2 DEF D!runOne
  <2>2. line.name = "verify"
    BY <2>1 DEF GateInv, LoopInv
  <2>3. GateTyped'
    BY <1>0, <2>1 DEF GateTyped
  <2>4. TaskInv'
    BY <1>0, <2>1, <2>2 DEF GateInv, GateTyped, TaskInv, Seen
  <2> QED BY <2>1, <2>2, <2>3, <2>4, GreenStays DEF GateInv
<1>3. ASSUME NEW c \in D!Checks, D!Leave(c) PROVE GateInv'
  <2>1. /\ task[c] \in {"stored", "freed"}
        /\ \E t \in {"freed", "done"} : task' = [task EXCEPT ![c] = t]
        /\ UNCHANGED <<line, at, next, step, results, exit, summary, good, missed>>
    BY <1>3 DEF D!Leave
  <2>2. line.name = "verify"
    BY <2>1 DEF GateInv, LoopInv
  <2>3. GateTyped'
    BY <1>0, <2>1 DEF GateTyped
  <2>4. TaskInv'
    BY <1>0, <2>1, <2>2 DEF GateInv, GateTyped, TaskInv, Seen
  <2> QED BY <2>1, <2>2, <2>3, <2>4, GreenStays DEF GateInv
<1> QED BY <1>1, <1>2, <1>3

\* A check of the loop is over, with the steps it ran or with a failure, and
\* the loop goes on or, after a failure, may stop.
LEMMA GateCheckDone ==
  ASSUME NumChecks \in Nat \ {0}, GateInv, line.name # "verify", at = "loop",
         next \in D!Picked,
         NEW r \in {"pass", "warn", "skip", "fail", "invalid"},
         results' = [results EXCEPT ![next] = r], step' = 1,
         D!Advance \/ (r \in Bad /\ at' = "wait" /\ UNCHANGED next),
         r \in Bad \/ \A s \in StepsOf : <<next, s>> \in good' \cup missed',
         good \subseteq good', missed \subseteq missed',
         UNCHANGED <<line, task, exit, summary>>
  PROVE  GateInv'
<1>1. GateTyped /\ LoopInv /\ next \in D!Checks /\ next \in Nat
  BY DEF GateInv, GateTyped, D!Picked
<1>2. /\ results' \in [D!Checks -> {"zero", "pass", "warn", "skip", "fail", "invalid"}]
      /\ results'[next] = r
      /\ \A c \in D!Checks : c # next => results'[c] = results[c]
  BY <1>1 DEF GateTyped
<1>3. /\ next' \in Nat /\ 1 <= next' /\ next' <= NumChecks + 1
      /\ at' \in {"loop", "wait"}
      /\ at' = "loop" => next' <= NumChecks
      /\ at' = "wait" => next' = NumChecks + 1 \/ r \in Bad
      /\ \A c \in Nat : c < next' => c < next \/ c = next
  <2>1. CASE D!Advance
    BY <1>1, <2>1, AdvanceTyped
  <2>2. CASE r \in Bad /\ at' = "wait" /\ UNCHANGED next
    BY <1>1, <2>2 DEF GateTyped
  <2> QED BY <2>1, <2>2
<1>4. GateTyped'
  BY <1>1, <1>2, <1>3 DEF GateTyped
<1>5. D!Picked' = D!Picked /\ Bad' = Bad /\ StepsOf' = StepsOf
  BY DEF D!Picked, Bad, StepsOf
<1>6. \A c \in D!Picked : c \in Nat /\ c \in D!Checks
  BY DEF D!Picked, D!Checks
<1>7. ASSUME NEW c \in D!Picked, c < next'
      PROVE  results'[c] \in Bad \/ \A s \in StepsOf : Seen(c, s)'
  <2>1. CASE c = next
    BY <1>2, <2>1 DEF Seen
  <2>2. CASE c # next
    <3>1. c < next /\ results'[c] = results[c]
      BY <1>2, <1>3, <1>6, <1>7, <2>2
    <3>2. results[c] \in Bad \/ \A s \in StepsOf : Seen(c, s)
      BY <1>1, <3>1 DEF LoopInv
    <3> QED BY <3>1, <3>2 DEF Seen
  <2> QED BY <2>1, <2>2
<1>8. at' = "wait" => next' = NumChecks + 1 \/ \E c \in D!Checks : results'[c] \in Bad
  BY <1>1, <1>2, <1>3
<1>9. LoopInv'
  <2>1. \A s \in Nat : ~(1 <= s /\ s < step')
    OBVIOUS
  <2>2. ~(step' > 1)
    OBVIOUS
  <2>3. \A c \in D!Checks : task'[c] = "none"
    BY <1>1 DEF LoopInv
  <2> QED BY <1>5, <1>7, <1>8, <2>1, <2>2, <2>3 DEF LoopInv
<1> QED BY <1>4, <1>9, GreenStays DEF GateInv

\* usecase-tests runs a scenario.
LEMMA GateRunScenario ==
  ASSUME NumChecks \in Nat \ {0}, GateInv, D!RunScenario
  PROVE  GateInv'
<1>1. /\ line.name = "usecase-tests" /\ line.name # "verify" /\ at = "loop" /\ next \in D!Picked
      /\ UNCHANGED <<line, step, task, exit, summary, missed>>
  BY DEF D!RunScenario
<1>2. step' = 1 /\ Bad = {"fail", "invalid"} /\ StepsOf = {1}
  <2>1. step = 1
    BY <1>1 DEF GateInv, GateTyped, LoopInv
  <2> QED BY <1>1, <2>1 DEF Bad, StepsOf
<1>3. CASE \E s \in {"pass", "warn", "skip"} :
              /\ results' = [results EXCEPT ![next] = s]
              /\ good' = good \cup {<<next, 1>>}
              /\ D!Advance
  <2>1. PICK s \in {"pass", "warn", "skip"} :
              /\ results' = [results EXCEPT ![next] = s]
              /\ good' = good \cup {<<next, 1>>}
              /\ D!Advance
    BY <1>3
  <2>2. \A i \in StepsOf : <<next, i>> \in good' \cup missed'
    BY <1>2, <2>1
  <2> QED BY <1>1, <1>2, <2>1, <2>2, GateCheckDone
<1>4. CASE \E s \in {"fail", "invalid"} :
              /\ results' = [results EXCEPT ![next] = s]
              /\ IF line.goOn THEN D!Advance ELSE at' = "wait" /\ UNCHANGED next
              /\ UNCHANGED good
  <2>1. PICK s \in {"fail", "invalid"} :
              /\ results' = [results EXCEPT ![next] = s]
              /\ IF line.goOn THEN D!Advance ELSE at' = "wait" /\ UNCHANGED next
              /\ UNCHANGED good
    BY <1>4
  <2>2. CASE line.goOn
    BY <1>1, <1>2, <2>1, <2>2, GateCheckDone
  <2>3. CASE ~line.goOn
    BY <1>1, <1>2, <2>1, <2>3, GateCheckDone
  <2> QED BY <2>2, <2>3
<1> QED BY <1>3, <1>4 DEF D!RunScenario

\* test runs a step of a scenario file.
LEMMA GaterunScenario ==
  ASSUME NumChecks \in Nat \ {0}, NumSteps \in Nat, GateInv, D!runScenario
  PROVE  GateInv'
<1>1. /\ line.name = "test" /\ line.name # "verify" /\ at = "loop" /\ next \in D!Picked
      /\ UNCHANGED <<line, task, exit, summary>>
      /\ GateTyped /\ LoopInv
  BY DEF D!runScenario, GateInv
<1>2. Bad = {"fail"} /\ StepsOf = 1..NumSteps /\ step \in Nat /\ 1 <= step
  BY <1>1 DEF Bad, StepsOf, GateTyped
<1>3. CASE /\ D!StepPasses
           /\ IF step < NumSteps
              THEN step' = step + 1 /\ UNCHANGED <<at, next, results>>
              ELSE step' = 1 /\ D!Advance /\ results' = [results EXCEPT ![next] = "pass"]
  <2>2. /\ good \subseteq good' /\ missed \subseteq missed'
        /\ <<next, step>> \in good' \cup missed'
    BY <1>3 DEF D!StepPasses
  <2>3. \A s \in Nat : 1 <= s /\ s <= step => <<next, s>> \in good' \cup missed'
    <3>1. \A s \in Nat : 1 <= s /\ s < step => <<next, s>> \in good \cup missed
      BY <1>1 DEF LoopInv, Seen
    <3>2. \A s \in Nat : s <= step => s < step \/ s = step
      BY <1>2
    <3> QED BY <2>2, <3>1, <3>2
  <2>4. CASE step < NumSteps
    <3>1. step' = step + 1 /\ UNCHANGED <<at, next, results>>
      BY <1>3, <2>4
    <3>2. GateTyped'
      BY <1>1, <1>2, <3>1 DEF GateTyped
    <3>3. D!Picked' = D!Picked /\ Bad' = Bad /\ StepsOf' = StepsOf
      BY <1>1 DEF D!Picked, Bad, StepsOf
    <3>4. \A s \in Nat : s < step' => s <= step
      BY <1>2, <3>1
    <3>5. \A s \in Nat : 1 <= s /\ s < step' => Seen(next, s)'
      BY <2>3, <3>1, <3>4 DEF Seen
    <3>6. \A c \in D!Picked : c < next' => results'[c] \in Bad \/ \A s \in StepsOf : Seen(c, s)'
      BY <1>1, <2>2, <3>1 DEF LoopInv, Seen
    <3>7. LoopInv'
      BY <1>1, <3>1, <3>3, <3>5, <3>6 DEF LoopInv, Seen
    <3> QED BY <1>1, <2>2, <3>2, <3>7, GreenStays DEF GateInv
  <2>5. CASE ~(step < NumSteps)
    <3>1. step' = 1 /\ D!Advance /\ results' = [results EXCEPT ![next] = "pass"]
      BY <1>3, <2>5
    <3>2. \A s \in StepsOf : s \in Nat /\ 1 <= s /\ s <= step
      BY <1>2, <2>5
    <3>3. \A s \in StepsOf : <<next, s>> \in good' \cup missed'
      BY <2>3, <3>2
    <3> QED BY <1>1, <2>2, <3>1, <3>3, GateCheckDone
  <2> QED BY <2>4, <2>5
<1>4. CASE /\ D!StepFails
           /\ step' = 1 /\ results' = [results EXCEPT ![next] = "fail"]
           /\ IF line.goOn THEN D!Advance ELSE at' = "wait" /\ UNCHANGED next
  <2>1. good \subseteq good' /\ missed \subseteq missed'
    BY <1>4 DEF D!StepFails
  <2>2. CASE line.goOn
    BY <1>1, <1>2, <1>4, <2>1, <2>2, GateCheckDone
  <2>3. CASE ~line.goOn
    BY <1>1, <1>2, <1>4, <2>1, <2>3, GateCheckDone
  <2> QED BY <2>2, <2>3
<1> QED BY <1>3, <1>4 DEF D!runScenario

\* The commands end: a green exit stands for every required check.
LEMMA GateEnd ==
  ASSUME NumChecks \in Nat \ {0}, GateInv, D!RunAll \/ D!runUsecaseTests \/ D!runTest
  PROVE  GateInv'
<1>0. GateTyped
  BY DEF GateInv
<1>1. CASE D!RunAll
  <2>1. /\ line.name = "verify" /\ at' = "end" /\ \A c \in D!Picked : task[c] = "done"
        /\ exit' = IF \E c \in D!Picked \ D!Optional : results[c] = "fail" THEN "error" ELSE "ok"
        /\ summary' \in {exit', "none"}
        /\ UNCHANGED <<line, next, step, task, results, good, missed>>
    BY <1>1 DEF D!RunAll
  <2>2. GateTyped'
    BY <1>0, <2>1 DEF GateTyped
  <2>3. TaskInv /\ TaskInv'
    BY <2>1 DEF GateInv, TaskInv, Seen
  <2>4. ASSUME exit' = "ok" PROVE D!Required' \subseteq good' \cup missed'
    <3>1. \A c \in D!Picked \ D!Optional : c \in D!Checks /\ <<c, 1>> \in good \cup missed
      BY <2>1, <2>3, <2>4 DEF TaskInv, Seen, D!Picked
    <3>2. D!Required' = (D!Picked \ D!Optional) \X {1}
      BY <2>1 DEF D!Required, D!Picked, D!Optional
    <3> QED BY <2>1, <3>1, <3>2
  <2> QED BY <2>1, <2>2, <2>3, <2>4 DEF GateInv, D!GreenMeansGood
<1>2. CASE D!runUsecaseTests \/ D!runTest
  <2>1. /\ line.name \in {"usecase-tests", "test"} /\ at = "wait" /\ at' = "end"
        /\ UNCHANGED <<line, next, step, task, results, good, missed>>
        /\ exit' = "ok" => \A c \in D!Checks : results[c] \notin Bad
        /\ exit' = "ok" => summary' # "error" \/ summary' = summary
    BY <1>2 DEF D!runUsecaseTests, D!runTest, D!Count, Bad
  <2>2. LoopInv /\ step = 1
    BY <1>0, <2>1 DEF GateInv, LoopInv, GateTyped
  <2>3. GateTyped'
    BY <1>0, <2>1 DEF GateTyped
  <2>4. D!Picked' = D!Picked /\ Bad' = Bad /\ StepsOf' = StepsOf
    BY <2>1 DEF D!Picked, Bad, StepsOf
  <2>5. LoopInv'
    BY <2>1, <2>2, <2>4 DEF LoopInv, Seen
  <2>6. ASSUME exit' = "ok" PROVE D!Required' \subseteq good' \cup missed'
    <3>1. next = NumChecks + 1
      BY <2>1, <2>2, <2>6 DEF LoopInv
    <3>2. \A c \in D!Picked : c < next /\ c \in D!Checks
      BY <3>1 DEF D!Picked, D!Checks
    <3>3. \A c \in D!Picked : \A s \in StepsOf : <<c, s>> \in good \cup missed
      BY <2>1, <2>2, <2>6, <3>2 DEF LoopInv, Seen
    <3>4. D!Required' = D!Picked \X StepsOf
      BY <2>1, <2>4 DEF D!Required, StepsOf
    <3> QED BY <2>1, <3>3, <3>4
  <2>7. summary # "error"
    BY <1>0, <2>1 DEF GateTyped
  <2> QED BY <2>1, <2>3, <2>5, <2>6, <2>7 DEF GateInv, D!GreenMeansGood
<1> QED BY <1>1, <1>2

\* Every step of a gate keeps a green exit honest.
LEMMA GateNext ==
  ASSUME NumChecks \in Nat \ {0}, NumSteps \in Nat, GateInv, [D!Next]_(D!vars)
  PROVE  GateInv'
<1>1. CASE D!Begin
  <2>1. /\ at = "start" /\ at' \in {"loop", "end"} /\ exit' # "ok"
        /\ at' = "loop" => exit' = "none"
        /\ UNCHANGED <<line, next, step, task, results, summary, good, missed>>
    BY <1>1 DEF D!Begin, GateInv, GateTyped
  <2>2. next = 1 /\ step = 1 /\ GateTyped'
    BY <2>1 DEF GateInv, GateTyped
  <2>3. line.name = "verify" => TaskInv'
    BY <2>1 DEF GateInv, TaskInv, Seen
  <2>4. D!Picked' = D!Picked /\ Bad' = Bad /\ StepsOf' = StepsOf
    BY <2>1 DEF D!Picked, Bad, StepsOf
  <2>5. line.name # "verify" => LoopInv'
    BY <2>1, <2>2, <2>4 DEF GateInv, LoopInv, Seen
  <2> QED BY <2>1, <2>2, <2>3, <2>5, GreenNone DEF GateInv
<1>2. CASE UNCHANGED D!vars
  BY <1>2 DEF D!vars, GateInv, GateTyped, TaskInv, LoopInv, Seen, Bad, StepsOf, D!Picked,
              D!GreenMeansGood, D!Required, D!Optional
<1> QED BY <1>1, <1>2, GatePassOver, GateVerify, GateRunScenario, GaterunScenario, GateEnd
        DEF D!Next

\* The subsystem by itself.
LEMMA GatesAlone == D!Spec => []D!GreenMeansGood
<1>0. NumChecks \in Nat \ {0} /\ NumSteps \in Nat
  BY OperationsAssumption
<1> USE <1>0
<1>1. D!Init => GateInv
  <2> SUFFICES ASSUME D!Init PROVE GateInv
    OBVIOUS
  <2>1. GateTyped
    BY DEF D!Init, GateTyped
  <2>2. TaskInv /\ D!GreenMeansGood
    BY DEF D!Init, TaskInv, D!GreenMeansGood
  <2>3. LoopInv
    <3>1. \A c \in D!Picked : ~(c < next)
      BY DEF D!Init, D!Picked, D!Checks
    <3> QED BY <3>1 DEF D!Init, LoopInv
  <2> QED BY <2>1, <2>2, <2>3 DEF GateInv
<1>2. GateInv /\ [D!Next]_(D!vars) => GateInv'
  BY GateNext
<1>3. GateInv => D!GreenMeansGood
  BY DEF GateInv
<1> QED BY <1>1, <1>2, <1>3, PTL DEF D!Spec

\* For any number of checks, steps and parallel goroutines: a green exit of
\* verify, usecase-tests or test means that every required check that was
\* selected has run without a failure (the steps of test whose shell never
\* started aside), and that the log does not say otherwise.
THEOREM GreenIsEarned == Spec => []GreenMeansGood
<1>1. Init /\ which = "gates" => D!Init
  BY DEF Init
<1>2. [Next]_vars /\ which = "gates" => [D!Next]_(D!vars)
  BY DEF Next, vars, D!vars
<1>3. [Next]_vars => (which = "gates" <=> (which = "gates")')
  BY OneSubsystem
<1> QED
  BY <1>1, <1>2, <1>3, GatesAlone, PTL DEF Spec, D!Spec, GreenMeansGood

HIDE DEF line, at, next, step, task, results, exit, summary, good, missed

-----------------------------------------------------------------------------
(***************************************************************************)
(* delegate, update, screensharing and brew                                *)
(***************************************************************************)

\* The variables of FanOut.
setting == x1
has == x2
brewless == x3
ops == x4
late == x5
met == x6
USE DEF setting, has, brewless, ops, late, met

Visits == [cmd : F!Commands, at : {"idle", "visit", "act", "check", "done"},
           targets : SUBSET F!Hosts, todo : SUBSET F!Hosts, failed : BOOLEAN]

FanTyped == F!TypeOK /\ (setting # "brew" => brewless = {})

\* One operator's command: there is a host while hosts are visited, and none
\* left when it is done; a host that is acted upon has what it takes and, if it
\* is as wanted, has been seen so; and unless a host failed, every one behind
\* the loop was seen as wanted.
VisitInv(o) ==
    /\ ops[o].at \in {"visit", "act", "check"} => ops[o].todo # {}
    /\ ops[o].at = "done" => ops[o].todo = {}
    /\ ops[o].at \in {"act", "check"} =>
          F!Host(o) \notin brewless /\ (F!Wanted(o, has) => F!Host(o) \in met[o])
    /\ ops[o].at # "idle" /\ ~ops[o].failed /\ ops[o].cmd \notin {"status", "dry-run"}
          => ops[o].targets \ ops[o].todo \subseteq met[o]

FanInv == FanTyped /\ \A o \in Processes : VisitInv(o)

\* The first of some hosts is one of them.
LEMMA FirstIn ==
  ASSUME NEW T, T \subseteq F!Hosts, T # {}, NumHosts \in Nat
  PROVE  F!First(T) \in T
<1>1. T \subseteq Nat
  BY DEF F!Hosts
<1>2. \E h \in T : \A g \in T : h <= g
  BY <1>1, LeastNumber
<1>3. F!First(T) = CHOOSE h \in T : \A g \in T : h <= g
  BY DEF F!First
<1> HIDE DEF F!First
<1> QED BY <1>2, <1>3, Zenon

\* The host an operator is at is one.
LEMMA HostIn ==
  ASSUME NumHosts \in Nat, FanInv, NEW o \in Processes, ops[o].at \in {"visit", "act", "check"}
  PROVE  F!Host(o) \in F!Hosts
<1>1. ops[o].todo \subseteq F!Hosts /\ ops[o].todo # {}
  BY DEF FanInv, FanTyped, F!TypeOK, VisitInv
<1> QED BY <1>1, FirstIn DEF F!Host

\* An operator whose command is where it was keeps its invariant while what is
\* seen of its host is recorded.
LEMMA VisitKept ==
  ASSUME NEW o \in Processes, VisitInv(o), ops'[o] = ops[o], brewless' = brewless,
         met[o] \subseteq met'[o],
         ops[o].at \in {"act", "check"} /\ F!Wanted(o, has') => F!Host(o) \in met'[o]
  PROVE  VisitInv(o)'
<1>1. F!Host(o)' = F!Host(o)
  BY DEF F!Host
<1>2. F!Wanted(o, has)' <=> F!Wanted(o, has')
  BY <1>1 DEF F!Wanted, F!Want
<1> QED BY <1>1, <1>2 DEF VisitInv

\* Watch records what is seen of every host in progress.
LEMMA Watched ==
  ASSUME F!TypeOK, F!Watch
  PROVE  \A o \in Processes :
            /\ met[o] \subseteq met'[o]
            /\ ops[o].at \in {"act", "check"} /\ F!Wanted(o, has') => F!Host(o) \in met'[o]
  BY DEF F!Watch, F!TypeOK

\* Watch keeps the type of what was seen.
LEMMA WatchTyped ==
  ASSUME NumHosts \in Nat, FanInv, F!Watch
  PROVE  met' \in [Processes -> SUBSET F!Hosts]
<1>1. \A o \in Processes : met[o] \subseteq F!Hosts
  BY DEF FanInv, FanTyped, F!TypeOK
<1>2. \A o \in Processes : ops[o].at \in {"act", "check"} => F!Host(o) \in F!Hosts
  BY HostIn
<1> QED BY <1>1, <1>2 DEF F!Watch

\* The host is dealt with; the command has the record that says so.
LEMMA VisitedRecord ==
  ASSUME FanTyped, NEW o \in Processes, NEW ok \in BOOLEAN, F!Visited(o, ok)
  PROVE  \E r \in Visits :
            /\ ops' = [ops EXCEPT ![o] = r]
            /\ r.cmd = ops[o].cmd /\ r.targets = ops[o].targets
            /\ r.todo = ops[o].todo \ {F!Host(o)}
            /\ r.failed = (ops[o].failed \/ ~ok)
            /\ r.at = IF ops[o].todo \ {F!Host(o)} = {} THEN "done" ELSE "visit"
<1> DEFINE left == ops[o].todo \ {F!Host(o)}
           r == [ops[o] EXCEPT !.todo = left, !.failed = @ \/ ~ok,
                              !.at = IF left = {} THEN "done" ELSE "visit"]
<1>1. ops[o] \in Visits
  BY DEF FanTyped, F!TypeOK, Visits
<1>2. ops' = [ops EXCEPT ![o] = r]
  BY DEF F!Visited, FanTyped, F!TypeOK
<1>3. left \subseteq F!Hosts
  BY <1>1 DEF Visits
<1> HIDE DEF left
<1>4. (ops[o].failed \/ ~ok) \in BOOLEAN
  BY <1>1 DEF Visits
<1>5. /\ r \in Visits /\ r.cmd = ops[o].cmd /\ r.targets = ops[o].targets
      /\ r.todo = left /\ r.failed = (ops[o].failed \/ ~ok)
      /\ r.at = IF left = {} THEN "done" ELSE "visit"
  BY <1>1, <1>3, <1>4 DEF Visits
<1> QED BY <1>2, <1>5 DEF left

\* The next step of a visit.
LEMMA GotoRecord ==
  ASSUME FanTyped, NEW o \in Processes, NEW s \in {"act", "check"}, F!Goto(o, s)
  PROVE  \E r \in Visits :
            /\ ops' = [ops EXCEPT ![o] = r]
            /\ r.cmd = ops[o].cmd /\ r.targets = ops[o].targets
            /\ r.todo = ops[o].todo /\ r.failed = ops[o].failed /\ r.at = s
<1>1. ops[o] \in Visits
  BY DEF FanTyped, F!TypeOK, Visits
<1> DEFINE r == [ops[o] EXCEPT !.at = s]
<1>2. ops' = [ops EXCEPT ![o] = r]
  BY DEF F!Goto, FanTyped, F!TypeOK
<1>3. /\ r \in Visits /\ r.cmd = ops[o].cmd /\ r.targets = ops[o].targets
      /\ r.todo = ops[o].todo /\ r.failed = ops[o].failed /\ r.at = s
  BY <1>1 DEF Visits
<1> QED BY <1>2, <1>3

\* The target is dealt with: seen as wanted, or the command has failed.
LEMMA FanVisited ==
  ASSUME FanInv, NEW o \in Processes, ops[o].at \in {"visit", "act", "check"},
         NEW ok \in BOOLEAN, F!Visited(o, ok),
         ok /\ ops[o].cmd \notin {"status", "dry-run"} => F!Host(o) \in met'[o],
         UNCHANGED <<setting, brewless>>,
         has' \in [F!Hosts -> BOOLEAN], late' \subseteq F!Hosts \X BOOLEAN,
         met' \in [Processes -> SUBSET F!Hosts],
         met[o] \subseteq met'[o],
         \A p \in Processes : p # o =>
            /\ met[p] \subseteq met'[p]
            /\ ops[p].at \in {"act", "check"} /\ F!Wanted(p, has') => F!Host(p) \in met'[p]
  PROVE  FanInv'
<1>1. FanTyped /\ VisitInv(o) /\ ops[o] \in Visits /\ ops \in [Processes -> Visits]
  BY DEF FanInv, FanTyped, F!TypeOK, Visits
<1>2. PICK r \in Visits :
            /\ ops' = [ops EXCEPT ![o] = r]
            /\ r.cmd = ops[o].cmd /\ r.targets = ops[o].targets
            /\ r.todo = ops[o].todo \ {F!Host(o)}
            /\ r.failed = (ops[o].failed \/ ~ok)
            /\ r.at = IF ops[o].todo \ {F!Host(o)} = {} THEN "done" ELSE "visit"
  BY <1>1, VisitedRecord
<1>3. ops' \in [Processes -> Visits] /\ ops'[o] = r /\ \A p \in Processes : p # o => ops'[p] = ops[p]
  BY <1>1, <1>2
<1>4. FanTyped'
  BY <1>1, <1>3 DEF FanTyped, F!TypeOK, Visits
<1>5. \A p \in Processes : p # o => VisitInv(p)'
  BY <1>3, VisitKept DEF FanInv
<1>6. VisitInv(o)'
  <2>1. ops'[o].at \in {"visit", "done"} /\ (ops'[o].at = "done" <=> ops'[o].todo = {})
    BY <1>2, <1>3
  <2>2. ~ops'[o].failed /\ ops'[o].cmd \notin {"status", "dry-run"}
            => ops'[o].targets \ ops'[o].todo \subseteq met'[o]
    <3>1. SUFFICES ASSUME ~ops'[o].failed, ops'[o].cmd \notin {"status", "dry-run"}
                   PROVE  ops'[o].targets \ ops'[o].todo \subseteq met'[o]
      OBVIOUS
    <3>2. ~ops[o].failed /\ ok
      BY <1>1, <1>2, <1>3, <3>1 DEF Visits
    <3>3. ops[o].targets \ ops[o].todo \subseteq met[o] /\ F!Host(o) \in met'[o]
      BY <1>1, <1>2, <1>3, <3>1, <3>2 DEF VisitInv
    <3> QED BY <1>2, <1>3, <3>3
  <2> QED BY <2>1, <2>2 DEF VisitInv
<1> QED BY <1>4, <1>5, <1>6 DEF FanInv

\* The visit goes on at its host, and may have failed.
LEMMA FanGoes ==
  ASSUME FanInv, NEW o \in Processes, ops[o].at \in {"visit", "act"},
         NEW r \in Visits, ops' = [ops EXCEPT ![o] = r],
         r.cmd = ops[o].cmd, r.targets = ops[o].targets, r.todo = ops[o].todo,
         ops[o].failed => r.failed, r.at \in {"act", "check"},
         F!Host(o) \notin brewless, F!Wanted(o, has') => F!Host(o) \in met'[o],
         UNCHANGED <<setting, brewless>>,
         has' \in [F!Hosts -> BOOLEAN], late' \subseteq F!Hosts \X BOOLEAN,
         met' \in [Processes -> SUBSET F!Hosts],
         met[o] \subseteq met'[o],
         \A p \in Processes : p # o =>
            /\ met[p] \subseteq met'[p]
            /\ ops[p].at \in {"act", "check"} /\ F!Wanted(p, has') => F!Host(p) \in met'[p]
  PROVE  FanInv'
<1>1. FanTyped /\ VisitInv(o) /\ ops[o] \in Visits /\ ops \in [Processes -> Visits]
  BY DEF FanInv, FanTyped, F!TypeOK, Visits
<1>2. ops' \in [Processes -> Visits] /\ ops'[o] = r /\ \A p \in Processes : p # o => ops'[p] = ops[p]
  BY <1>1
<1>3. FanTyped'
  BY <1>1, <1>2 DEF FanTyped, F!TypeOK, Visits
<1>4. \A p \in Processes : p # o => VisitInv(p)'
  BY <1>2, VisitKept DEF FanInv
<1>5. F!Host(o)' = F!Host(o) /\ (F!Wanted(o, has)' <=> F!Wanted(o, has'))
  BY <1>2 DEF F!Host, F!Wanted, F!Want
<1>6. VisitInv(o)'
  BY <1>1, <1>2, <1>5 DEF VisitInv
<1> QED BY <1>3, <1>4, <1>6 DEF FanInv

\* The visit goes on with its next step.
LEMMA FanGoto ==
  ASSUME FanInv, NEW o \in Processes, ops[o].at \in {"visit", "act"},
         NEW s \in {"act", "check"}, F!Goto(o, s),
         F!Host(o) \notin brewless, F!Wanted(o, has') => F!Host(o) \in met'[o],
         UNCHANGED <<setting, brewless>>,
         has' \in [F!Hosts -> BOOLEAN], late' \subseteq F!Hosts \X BOOLEAN,
         met' \in [Processes -> SUBSET F!Hosts],
         met[o] \subseteq met'[o],
         \A p \in Processes : p # o =>
            /\ met[p] \subseteq met'[p]
            /\ ops[p].at \in {"act", "check"} /\ F!Wanted(p, has') => F!Host(p) \in met'[p]
  PROVE  FanInv'
<1>1. PICK r \in Visits :
            /\ ops' = [ops EXCEPT ![o] = r]
            /\ r.cmd = ops[o].cmd /\ r.targets = ops[o].targets
            /\ r.todo = ops[o].todo /\ r.failed = ops[o].failed /\ r.at = s
  BY GotoRecord DEF FanInv
<1> QED BY <1>1, FanGoes

\* What is known of the hosts when nothing about them changes.
LEMMA FanFacts ==
  ASSUME FanInv
  PROVE  /\ has \in [F!Hosts -> BOOLEAN] /\ late \subseteq F!Hosts \X BOOLEAN
         /\ met \in [Processes -> SUBSET F!Hosts]
         /\ ops \in [Processes -> Visits]
         /\ setting \in F!Settings
         /\ setting # "brew" => brewless = {}
         /\ \A p \in Processes :
               ops[p].at \in {"act", "check"} =>
                  F!Host(p) \notin brewless /\ (F!Wanted(p, has) => F!Host(p) \in met[p])
  BY DEF FanInv, FanTyped, F!TypeOK, Visits, VisitInv

\* A command begins.
LEMMA FanBegin ==
  ASSUME FanInv, NEW o \in Processes, NEW cmds, NEW targets \in SUBSET F!Hosts,
         F!Begin(o, cmds, targets)
  PROVE  FanInv'
<1>1. PICK cmd \in cmds :
          ops' = [ops EXCEPT ![o] = [cmd |-> cmd, targets |-> targets, todo |-> targets, failed |-> FALSE,
                                   at |-> IF targets = {} THEN "done" ELSE "visit"]]
  BY DEF F!Begin
<1>2. cmd \in F!Commands
  BY <1>1, FanFacts DEF F!Begin, F!Commands
<1>3. UNCHANGED <<setting, has, brewless, late, met>>
  BY DEF F!Begin
<1> DEFINE r == [cmd |-> cmd, targets |-> targets, todo |-> targets, failed |-> FALSE,
                 at |-> IF targets = {} THEN "done" ELSE "visit"]
<1>4. /\ r \in Visits /\ r.targets = targets /\ r.todo = targets
      /\ r.at = IF targets = {} THEN "done" ELSE "visit"
  BY <1>2 DEF Visits
<1> HIDE DEF r
<1>5. ops' = [ops EXCEPT ![o] = r]
  BY <1>1 DEF r
<1>6. ops' \in [Processes -> Visits] /\ ops'[o] = r /\ \A p \in Processes : p # o => ops'[p] = ops[p]
  BY <1>4, <1>5, FanFacts
<1>7. FanTyped'
  BY <1>3, <1>6 DEF FanInv, FanTyped, F!TypeOK, Visits
<1>8. \A p \in Processes : p # o => VisitInv(p)'
  BY <1>3, <1>6, VisitKept, FanFacts DEF FanInv
<1>9. VisitInv(o)'
  BY <1>4, <1>6 DEF VisitInv
<1> QED BY <1>7, <1>8, <1>9 DEF FanInv

\* Every command begins with hosts.
LEMMA FanCommand ==
  ASSUME FanInv, NEW o \in Processes,
         \/ F!runDelegate(o) \/ F!runUpdate(o)
         \/ F!runScrSharingToggle(o) \/ F!runScrSharingStatus(o)
         \/ F!runBrewInstall(o) \/ F!runBrewProbe(o)
  PROVE  FanInv'
<1>1. \E t \in SUBSET F!Hosts : \E cmds : F!Begin(o, cmds, t)
  BY DEF F!runDelegate, F!runUpdate, F!runScrSharingToggle, F!runScrSharingStatus,
         F!runBrewInstall, F!runBrewProbe, F!resolveDelegateTargets, F!resolveUpdateTargets,
         F!scrSharingResolveTargets, F!brewResolveTargets, F!One
<1> QED BY <1>1, FanBegin

\* The dial and the probe before anything is done.
LEMMA FanVisit ==
  ASSUME NumHosts \in Nat, FanInv, NEW o \in Processes, F!Visit(o)
  PROVE  FanInv'
<1>1. /\ ops[o].at = "visit"
      /\ met' = [met EXCEPT ![o] = IF F!Wanted(o, has) THEN @ \cup {F!Host(o)} ELSE @]
      /\ UNCHANGED <<setting, has, brewless, late>>
  BY DEF F!Visit, F!scrSharingProbeOne, F!brewProbeOne, F!versionCheck, F!Dial, F!At
<1>2. F!Host(o) \in F!Hosts
  BY <1>1, HostIn
<1>3. has[F!Host(o)] \in BOOLEAN
  BY <1>2, FanFacts
<1>4. /\ met' \in [Processes -> SUBSET F!Hosts]
      /\ met[o] \subseteq met'[o]
      /\ F!Wanted(o, has) => F!Host(o) \in met'[o]
      /\ \A p \in Processes : p # o => met'[p] = met[p]
  BY <1>1, <1>2, FanFacts
<1>5. \A p \in Processes : p # o =>
         /\ met[p] \subseteq met'[p]
         /\ ops[p].at \in {"act", "check"} /\ F!Wanted(p, has') => F!Host(p) \in met'[p]
  BY <1>1, <1>4, FanFacts
<1>6. \/ F!Goto(o, "act") /\ F!Host(o) \notin brewless
      \/ \E ok \in BOOLEAN : /\ F!Visited(o, ok)
                             /\ ok /\ ops[o].cmd \notin {"status", "dry-run"}
                                  => has[F!Host(o)] = F!Want(o) /\ F!Host(o) \notin brewless
  <2>1. CASE F!scrSharingProbeOne(o)
    <3>1. brewless = {}
      BY <2>1, FanFacts DEF F!scrSharingProbeOne
    <3>2. CASE ops[o].cmd = "status" \/ has[F!Host(o)] = F!Want(o)
      BY <2>1, <3>1, <3>2 DEF F!scrSharingProbeOne
    <3>3. CASE ~(ops[o].cmd = "status" \/ has[F!Host(o)] = F!Want(o))
      BY <2>1, <3>1, <3>3 DEF F!scrSharingProbeOne
    <3> QED BY <3>2, <3>3
  <2>2. CASE F!brewProbeOne(o)
    <3>1. ops[o].cmd \in {"probe", "install"} => F!Want(o) = TRUE
      BY DEF F!Want
    <3> QED BY <1>3, <2>2, <3>1 DEF F!brewProbeOne
  <2>3. CASE F!versionCheck(o)
    <3>1. brewless = {}
      BY <2>3, FanFacts DEF F!versionCheck
    <3>2. CASE ops[o].cmd = "dry-run"
      BY <2>3, <3>2 DEF F!versionCheck
    <3>3. CASE ops[o].cmd # "dry-run"
      BY <2>3, <3>1, <3>3 DEF F!versionCheck
    <3> QED BY <3>2, <3>3
  <2>4. CASE F!Dial(o)
    BY <2>4, FanFacts DEF F!Dial
  <2> QED BY <2>1, <2>2, <2>3, <2>4 DEF F!Visit
<1>7. CASE F!Goto(o, "act") /\ F!Host(o) \notin brewless
  BY <1>1, <1>4, <1>5, <1>7, FanGoto, FanFacts
<1>8. CASE \E ok \in BOOLEAN : /\ F!Visited(o, ok)
                               /\ ok /\ ops[o].cmd \notin {"status", "dry-run"}
                                    => has[F!Host(o)] = F!Want(o) /\ F!Host(o) \notin brewless
  <2>1. PICK ok \in BOOLEAN : /\ F!Visited(o, ok)
                              /\ ok /\ ops[o].cmd \notin {"status", "dry-run"}
                                    => has[F!Host(o)] = F!Want(o) /\ F!Host(o) \notin brewless
    BY <1>8
  <2>2. ok /\ ops[o].cmd \notin {"status", "dry-run"} => F!Host(o) \in met'[o]
    BY <1>4, <2>1 DEF F!Wanted
  <2> QED BY <1>1, <1>4, <1>5, <2>1, <2>2, FanVisited, FanFacts
<1> QED BY <1>6, <1>7, <1>8

\* A command that exits 0 on the host: what it left there is seen.
LEMMA FanExit0 ==
  ASSUME NumHosts \in Nat, FanInv, NEW o \in Processes, ops[o].at = "act",
         NEW reliable \in BOOLEAN, F!Exit0(o, reliable)
  PROVE  /\ UNCHANGED <<setting, brewless, late>>
         /\ has' \in [F!Hosts -> BOOLEAN] /\ met' \in [Processes -> SUBSET F!Hosts]
         /\ F!Host(o) \notin brewless
         /\ reliable => F!Host(o) \in met'[o]
         /\ \A p \in Processes :
               /\ met[p] \subseteq met'[p]
               /\ ops[p].at \in {"act", "check"} /\ F!Wanted(p, has') => F!Host(p) \in met'[p]
<1>1. F!Watch /\ UNCHANGED <<setting, brewless, late>>
  BY DEF F!Exit0
<1>2. F!Host(o) \in F!Hosts /\ F!Want(o) \in BOOLEAN /\ F!Host(o) \notin brewless
  BY HostIn, FanFacts DEF F!Want
<1>3. /\ has' = has \/ has' = [has EXCEPT ![F!Host(o)] = F!Want(o)]
      /\ reliable => has' = [has EXCEPT ![F!Host(o)] = F!Want(o)]
  BY DEF F!Exit0
<1>4. has' \in [F!Hosts -> BOOLEAN] /\ (reliable => has'[F!Host(o)] = F!Want(o))
  BY <1>2, <1>3, FanFacts
<1>5. reliable => F!Wanted(o, has')
  BY <1>2, <1>4 DEF F!Wanted
<1> QED BY <1>1, <1>2, <1>4, <1>5, Watched, WatchTyped DEF FanInv, FanTyped

\* A command that failed or timed out: its process may take effect later.
LEMMA FanError ==
  ASSUME NumHosts \in Nat, FanInv, NEW o \in Processes, ops[o].at = "act", F!Error(o)
  PROVE  UNCHANGED <<setting, has, brewless, met>> /\ late' \subseteq F!Hosts \X BOOLEAN
<1>1. F!Host(o) \in F!Hosts /\ F!Want(o) \in BOOLEAN
  BY HostIn DEF F!Want
<1> QED BY <1>1, FanFacts DEF F!Error

\* The command itself.
LEMMA FanAct ==
  ASSUME NumHosts \in Nat, FanInv, NEW o \in Processes, F!Act(o)
  PROVE  FanInv'
<1>1. ops[o].at = "act"
  BY DEF F!Act, F!scrSharingRunToggle, F!brewRunInstall, F!dispatchUpdate, F!dispatchOne, F!At
<1>2. \/ F!Exit0(o, FALSE) /\ F!Goto(o, "check")
      \/ F!Exit0(o, TRUE) /\ F!Visited(o, TRUE)
      \/ F!Error(o) /\ F!Visited(o, FALSE)
      \/ F!Error(o) /\ ops' = [ops EXCEPT ![o].at = "check", ![o].failed = TRUE]
  BY DEF F!Act, F!scrSharingRunToggle, F!brewRunInstall, F!dispatchUpdate, F!dispatchOne
<1>3. CASE F!Exit0(o, FALSE) /\ F!Goto(o, "check")
  <2>1. /\ UNCHANGED <<setting, brewless, late>>
        /\ has' \in [F!Hosts -> BOOLEAN] /\ met' \in [Processes -> SUBSET F!Hosts]
        /\ F!Host(o) \notin brewless
        /\ \A p \in Processes :
              /\ met[p] \subseteq met'[p]
              /\ ops[p].at \in {"act", "check"} /\ F!Wanted(p, has') => F!Host(p) \in met'[p]
    BY <1>1, <1>3, FanExit0
  <2> QED BY <1>1, <1>3, <2>1, FanGoto, FanFacts
<1>4. CASE F!Exit0(o, TRUE) /\ F!Visited(o, TRUE)
  <2>1. /\ UNCHANGED <<setting, brewless, late>>
        /\ has' \in [F!Hosts -> BOOLEAN] /\ met' \in [Processes -> SUBSET F!Hosts]
        /\ F!Host(o) \in met'[o]
        /\ \A p \in Processes :
              /\ met[p] \subseteq met'[p]
              /\ ops[p].at \in {"act", "check"} /\ F!Wanted(p, has') => F!Host(p) \in met'[p]
    BY <1>1, <1>4, FanExit0
  <2> QED BY <1>1, <1>4, <2>1, FanVisited, FanFacts
<1>5. CASE F!Error(o) /\ F!Visited(o, FALSE)
  <2>1. UNCHANGED <<setting, has, brewless, met>> /\ late' \subseteq F!Hosts \X BOOLEAN
    BY <1>1, <1>5, FanError
  <2> QED BY <1>1, <1>5, <2>1, FanVisited, FanFacts
<1>6. CASE F!Error(o) /\ ops' = [ops EXCEPT ![o].at = "check", ![o].failed = TRUE]
  <2>1. UNCHANGED <<setting, has, brewless, met>> /\ late' \subseteq F!Hosts \X BOOLEAN
    BY <1>1, <1>6, FanError
  <2> DEFINE r == [ops[o] EXCEPT !.at = "check", !.failed = TRUE]
  <2>2. ops[o] \in Visits /\ ops' = [ops EXCEPT ![o] = r]
    BY <1>6, FanFacts
  <2>3. /\ r \in Visits /\ r.cmd = ops[o].cmd /\ r.targets = ops[o].targets
        /\ r.todo = ops[o].todo /\ r.failed = TRUE /\ r.at = "check"
    BY <2>2 DEF Visits
  <2> HIDE DEF r
  <2> QED BY <1>1, <2>1, <2>2, <2>3, FanGoes, FanFacts
<1> QED BY <1>2, <1>3, <1>4, <1>5, <1>6

\* Every step of the fan-out keeps the invariant.
LEMMA FanNext ==
  ASSUME NumHosts \in Nat, FanInv, [F!Next]_(F!vars)
  PROVE  FanInv'
<1>1. ASSUME NEW o \in Processes, F!Unreached(o) PROVE FanInv'
  <2>1. ops[o].at = "visit" /\ F!Visited(o, FALSE) /\ UNCHANGED <<setting, has, brewless, late, met>>
    BY <1>1 DEF F!Unreached, F!At
  <2> QED BY <2>1, FanVisited, FanFacts
<1>2. ASSUME NEW o \in Processes, F!Check(o) PROVE FanInv'
  <2>1. ops[o].at = "check" /\ UNCHANGED <<setting, has, brewless, late, met>>
    BY <1>2 DEF F!Check, F!At
  <2>2. PICK answered \in BOOLEAN : F!Visited(o, answered /\ has[F!Host(o)] = F!Want(o))
    BY <1>2 DEF F!Check
  <2> DEFINE ok == answered /\ has[F!Host(o)] = F!Want(o)
  <2>3. ok \in BOOLEAN /\ F!Visited(o, ok)
    BY <2>2
  <2>4. ok => F!Host(o) \in met'[o]
    BY <2>1, FanFacts DEF F!Wanted
  <2> HIDE DEF ok
  <2> QED BY <2>1, <2>3, <2>4, FanVisited, FanFacts
<1>3. ASSUME NEW o \in Processes, F!Report(o) PROVE FanInv'
  <2>1. /\ ops' = [ops EXCEPT ![o] = F!Idle] /\ met' = [met EXCEPT ![o] = {}]
        /\ UNCHANGED <<setting, has, brewless, late>>
    BY <1>3 DEF F!Report
  <2>2. F!Idle \in Visits /\ F!Idle.at = "idle"
    BY DEF F!Idle, Visits, F!Commands, F!CommandsOf, F!Settings
  <2>3. /\ ops' \in [Processes -> Visits] /\ ops'[o] = F!Idle
        /\ met' \in [Processes -> SUBSET F!Hosts]
        /\ \A p \in Processes : p # o => ops'[p] = ops[p] /\ met'[p] = met[p]
    BY <2>1, <2>2, FanFacts
  <2>4. FanTyped'
    BY <2>1, <2>3 DEF FanInv, FanTyped, F!TypeOK, Visits
  <2>5. \A p \in Processes : p # o => VisitInv(p)'
    BY <2>1, <2>3, VisitKept, FanFacts DEF FanInv
  <2>6. VisitInv(o)'
    BY <2>2, <2>3 DEF VisitInv
  <2> QED BY <2>4, <2>5, <2>6 DEF FanInv
<1>4. ASSUME F!Watch, UNCHANGED <<setting, brewless, ops>>, has' \in [F!Hosts -> BOOLEAN],
             late' \subseteq F!Hosts \X BOOLEAN
      PROVE  FanInv'
  <2>1. met' \in [Processes -> SUBSET F!Hosts]
    BY <1>4, WatchTyped
  <2>2. FanTyped'
    BY <1>4, <2>1 DEF FanInv, FanTyped, F!TypeOK
  <2>3. \A p \in Processes : VisitInv(p)'
    BY <1>4, Watched, VisitKept DEF FanInv, FanTyped
  <2> QED BY <2>2, <2>3 DEF FanInv
<1>5. ASSUME NEW e \in late, F!Late(e) PROVE FanInv'
  <2>1. e[1] \in F!Hosts /\ e[2] \in BOOLEAN
    BY FanFacts
  <2>2. has' \in [F!Hosts -> BOOLEAN] /\ late' \subseteq F!Hosts \X BOOLEAN
    BY <1>5, <2>1, FanFacts DEF F!Late
  <2> QED BY <1>4, <1>5, <2>2 DEF F!Late
<1>6. ASSUME NEW h \in F!Hosts, F!HostChanges(h) PROVE FanInv'
  <2>1. has' \in [F!Hosts -> BOOLEAN] /\ late' \subseteq F!Hosts \X BOOLEAN
    BY <1>6, FanFacts DEF F!HostChanges
  <2> QED BY <1>4, <1>6, <2>1 DEF F!HostChanges
<1>7. CASE UNCHANGED F!vars
  <2>1. FanTyped'
    BY <1>7 DEF F!vars, FanInv, FanTyped, F!TypeOK
  <2>2. \A p \in Processes : VisitInv(p)'
    BY <1>7, VisitKept, FanFacts DEF F!vars, FanInv
  <2> QED BY <2>1, <2>2 DEF FanInv
<1> QED BY <1>1, <1>2, <1>3, <1>5, <1>6, <1>7, FanCommand, FanVisit, FanAct DEF F!Next

\* The subsystem by itself.
LEMMA FanOutAlone == F!Spec => []F!SuccessIsTrue
<1>0. NumHosts \in Nat \ {0}
  BY OperationsAssumption
<1> USE <1>0
<1>1. F!Init => FanInv
  <2> SUFFICES ASSUME F!Init PROVE FanInv
    OBVIOUS
  <2>1. F!Idle \in Visits /\ F!Idle.at = "idle"
    BY DEF F!Idle, Visits, F!Commands, F!CommandsOf, F!Settings
  <2>2. ops \in [Processes -> Visits] /\ \A o \in Processes : ops[o].at = "idle"
    BY <2>1 DEF F!Init
  <2>3. brewless \subseteq F!Hosts /\ (setting # "brew" => brewless = {})
    BY DEF F!Init, F!Hosts
  <2>4. F!TypeOK
    BY <2>2, <2>3 DEF F!Init, F!TypeOK, Visits
  <2> QED BY <2>2, <2>3, <2>4 DEF FanInv, FanTyped, VisitInv
<1>2. FanInv /\ [F!Next]_(F!vars) => FanInv'
  BY FanNext
<1>3. FanInv => F!SuccessIsTrue
  <2> SUFFICES ASSUME FanInv, NEW o \in Processes, ops[o].at = "done", ~ops[o].failed,
                      ops[o].cmd \notin {"status", "dry-run"}
               PROVE  ops[o].targets \subseteq met[o]
    BY DEF F!SuccessIsTrue, F!At
  <2>1. ops[o].todo = {} /\ ops[o].targets \ ops[o].todo \subseteq met[o]
    BY DEF FanInv, VisitInv
  <2> QED BY <2>1
<1> QED BY <1>1, <1>2, <1>3, PTL DEF F!Spec

\* For any number of hosts, operators and late processes: a delegate, update,
\* screensharing or brew command that exits 0 tells the truth about every one
\* of its targets, whoever else changes the hosts meanwhile.
THEOREM SuccessesAreTrue == Spec => []SuccessIsTrue
<1>1. Init /\ which = "fanout" => F!Init
  BY DEF Init
<1>2. [Next]_vars /\ which = "fanout" => [F!Next]_(F!vars)
  BY DEF Next, vars, F!vars
<1>3. [Next]_vars => (which = "fanout" <=> (which = "fanout")')
  BY OneSubsystem
<1> QED
  BY <1>1, <1>2, <1>3, FanOutAlone, PTL DEF Spec, F!Spec, SuccessIsTrue

HIDE DEF setting, has, brewless, ops, late, met

-----------------------------------------------------------------------------
(***************************************************************************)
(* log-aggregate                                                           *)
(***************************************************************************)

\* The variables of LogAggregate.
written == x1
live == x2
gz == x3
old == x4
agg == x5
aggOld == x6
aggRun == x7
pull == x8
due == x9
turns == x10
gzips == x11
lateLines == x12
USE DEF written, live, gz, old, agg, aggOld, aggRun, pull, due, turns, gzips, lateLines

Pulls == [at : L!Steps, blob : SUBSET L!Lines, blobOld : BOOLEAN, ok : BOOLEAN,
          hidden : BOOLEAN]

\* Compressions on the workers.
Gzips == [at : {"none", "open", "read"}, held : BOOLEAN]

\* The steps of a goroutine before it has the worker's log compressed.
Early == {"start", "pull", "extract", "copy", "rotate"}

\* Where the lines a run owes are, step by step of a worker's goroutine.
PulledInv(w) ==
    /\ aggRun.at = "idle" => pull[w].at = "idle"
    /\ aggRun.at = "returned" => pull[w].at = "done" /\ (aggRun.ok => pull[w].ok)
    /\ pull[w].at \in {"start", "pull"} => due[w] \subseteq live[w]
    /\ pull[w].at \in {"extract", "copy"} => due[w] \subseteq pull[w].blob \/ pull[w].hidden
    /\ pull[w].at \in {"rotate", "rotating", "prune"} => due[w] \subseteq agg[w] \/ pull[w].hidden
    /\ pull[w].at = "done" /\ pull[w].ok
          => due[w] \subseteq agg[w] \/ (w \in aggOld /\ agg[w] = {}) \/ pull[w].hidden

\* What a compression under way has made of the archive, and that it belongs to a
\* goroutine which is past that step.
GzipInv(w) ==
    /\ pull[w].at \in Early => gzips[w].at = "none"
    /\ gzips[w].at = "open" => gz[w] = {}
    /\ gzips[w].at = "read" => gz[w] \subseteq live[w] /\ live[w] \ lateLines \subseteq gz[w]

\* Where a line is of which one file was removed, or none, since it was written.
KeptInv(l) ==
    /\ turns[l] = 0 => \E w \in Processes : l \in live[w]
    /\ turns[l] = 1 => \E w \in Processes : l \in live[w] \cup gz[w]

LogInv ==
    /\ L!TypeOK
    /\ \A w \in Processes : PulledInv(w) /\ GzipInv(w)
    /\ \A l \in (1..written) \ lateLines : KeptInv(l)

\* The types, unfolded.
LEMMA LogFacts ==
  ASSUME MaxLines \in Nat, L!TypeOK
  PROVE  /\ written \in Nat /\ written <= MaxLines
         /\ live \in [Processes -> SUBSET L!Lines] /\ gz \in [Processes -> SUBSET L!Lines]
         /\ agg \in [Processes -> SUBSET L!Lines] /\ due \in [Processes -> SUBSET L!Lines]
         /\ pull \in [Processes -> Pulls]
         /\ turns \in [L!Lines -> 0..2]
         /\ gzips \in [Processes -> Gzips] /\ lateLines \subseteq L!Lines
         /\ \A l \in 1..written : l \in L!Lines
  BY DEF L!TypeOK, Pulls, Gzips, L!Lines

\* A goroutine that stays where it is keeps what it owes.
LEMMA PulledKept ==
  ASSUME NEW w \in Processes, PulledInv(w), aggRun' = aggRun, pull'[w] = pull[w],
         due'[w] = due[w], agg'[w] = agg[w], live[w] \subseteq live'[w],
         w \in aggOld => w \in aggOld'
  PROVE  PulledInv(w)'
  BY DEF PulledInv

\* A compression that is left alone, with its files and its goroutine.
LEMMA GzipKept ==
  ASSUME NEW w \in Processes, GzipInv(w), pull'[w].at \in Early => pull[w].at \in Early,
         gzips'[w].at = gzips[w].at, live'[w] = live[w], gz'[w] = gz[w],
         lateLines \subseteq lateLines'
  PROVE  GzipInv(w)'
  BY DEF GzipInv

\* While the worker's log and its archive stay, so do its lines.
LEMMA AllKept ==
  ASSUME MaxLines \in Nat, LogInv, UNCHANGED <<written, live, gz, turns, lateLines>>
  PROVE  \A l \in (1..written') \ lateLines' : KeptInv(l)'
  BY DEF LogInv, KeptInv

\* One goroutine takes a step that leaves the worker's files alone.
LEMMA LogStep ==
  ASSUME MaxLines \in Nat, LogInv, NEW w \in Processes, NEW r \in Pulls,
         pull' = [pull EXCEPT ![w] = r],
         UNCHANGED <<written, live, gz, old, turns, gzips, lateLines, aggRun, due>>,
         r.at \in Early => pull[w].at \in Early,
         agg' \in [Processes -> SUBSET L!Lines], aggOld' \subseteq Processes,
         \A v \in Processes : v # w => agg'[v] = agg[v] /\ (v \in aggOld <=> v \in aggOld'),
         aggRun.at = "running",
         r.at \in {"start", "pull"} => due[w] \subseteq live[w],
         r.at \in {"extract", "copy"} => due[w] \subseteq r.blob \/ r.hidden,
         r.at \in {"rotate", "rotating", "prune"} => due[w] \subseteq agg'[w] \/ r.hidden,
         r.at = "done" /\ r.ok
            => due[w] \subseteq agg'[w] \/ (w \in aggOld' /\ agg'[w] = {}) \/ r.hidden
  PROVE  LogInv'
<1>0. L!TypeOK
  BY DEF LogInv
<1>1. pull \in [Processes -> Pulls]
  BY <1>0, LogFacts
<1>2. pull' \in [Processes -> Pulls] /\ pull'[w] = r /\ \A v \in Processes : v # w => pull'[v] = pull[v]
  BY <1>1
<1>3. L!TypeOK'
  BY <1>0, <1>2 DEF L!TypeOK, Pulls
<1>4. \A v \in Processes : v # w => PulledInv(v)'
  BY <1>2, PulledKept DEF LogInv
<1>5. PulledInv(w)'
  BY <1>2 DEF PulledInv
<1>6. \A l \in (1..written') \ lateLines' : KeptInv(l)'
  BY AllKept
<1>7. \A v \in Processes : GzipInv(v)'
  BY <1>2, GzipKept DEF LogInv
<1> QED BY <1>3, <1>4, <1>5, <1>6, <1>7 DEF LogInv

\* A goroutine at work belongs to a run.
LEMMA AtWork ==
  ASSUME LogInv, NEW w \in Processes, pull[w].at \notin {"idle", "done"}
  PROVE  aggRun.at = "running"
  BY DEF LogInv, L!TypeOK, PulledInv

\* The record of a goroutine that goes to another step.
LEMMA PullGoto ==
  ASSUME MaxLines \in Nat, L!TypeOK, NEW w \in Processes, NEW s \in L!Steps, L!Goto(w, s)
  PROVE  \E r \in Pulls : /\ pull' = [pull EXCEPT ![w] = r]
                          /\ r.at = s /\ r.blob = pull[w].blob /\ r.ok = pull[w].ok
                          /\ r.hidden = pull[w].hidden
<1>1. pull[w] \in Pulls /\ pull \in [Processes -> Pulls]
  BY LogFacts
<1> DEFINE r == [pull[w] EXCEPT !.at = s]
<1>2. pull' = [pull EXCEPT ![w] = r]
  BY <1>1 DEF L!Goto
<1>3. /\ r \in Pulls /\ r.at = s /\ r.blob = pull[w].blob /\ r.ok = pull[w].ok
      /\ r.hidden = pull[w].hidden
  BY <1>1 DEF Pulls
<1> QED BY <1>2, <1>3

\* The steps of a goroutine between its start and its end.
LEMMA LogPull ==
  ASSUME MaxLines \in Nat, LogInv, NEW w \in Processes,
         \/ L!Acquire(w) \/ L!PullArchive(w) \/ L!Truncate(w) \/ L!CopyEntry(w)
         \/ L!Rotated(w) \/ L!Prune(w) \/ L!PullFails(w)
  PROVE  LogInv'
<1>0. /\ L!TypeOK /\ PulledInv(w) /\ pull[w] \in Pulls /\ pull \in [Processes -> Pulls]
      /\ live[w] \subseteq L!Lines /\ agg \in [Processes -> SUBSET L!Lines]
      /\ aggOld \subseteq Processes /\ due[w] \subseteq L!Lines /\ aggRun.rotate \in BOOLEAN
  BY LogFacts DEF LogInv, L!TypeOK
<1>1. CASE L!Acquire(w)
  <2>1. /\ pull[w].at = "start" /\ L!Goto(w, "pull")
        /\ UNCHANGED <<written, live, gz, old, turns, gzips, lateLines, aggRun, due, agg, aggOld>>
    BY <1>1 DEF L!Acquire, L!At, L!worker
  <2>2. PICK r \in Pulls : /\ pull' = [pull EXCEPT ![w] = r]
                           /\ r.at = "pull" /\ r.blob = pull[w].blob /\ r.ok = pull[w].ok
                           /\ r.hidden = pull[w].hidden
    BY <1>0, <2>1, PullGoto DEF L!Steps
  <2>3. aggRun.at = "running" /\ due[w] \subseteq live[w]
    BY <1>0, <2>1, AtWork DEF PulledInv
  <2> QED BY <1>0, <2>1, <2>2, <2>3, LogStep DEF Early
<1>2. CASE L!PullArchive(w)
  <2>1. /\ pull[w].at = "pull"
        /\ UNCHANGED <<written, live, gz, old, turns, gzips, lateLines, aggRun, due, agg, aggOld>>
    BY <1>2 DEF L!PullArchive, L!PullWhole, L!PullHidden, L!At, L!worker
  <2>2. aggRun.at = "running" /\ due[w] \subseteq live[w]
    BY <1>0, <2>1, AtWork DEF PulledInv
  <2> DEFINE aged == w \in old
  <2>3. aged \in BOOLEAN
    OBVIOUS
  <2>4. CASE L!PullWhole(w)
    <3> DEFINE r == [pull[w] EXCEPT !.at = IF live[w] = {} THEN "prune" ELSE "extract",
                                    !.blob = live[w], !.blobOld = aged]
    <3>1. pull' = [pull EXCEPT ![w] = r]
      BY <1>0, <2>4 DEF L!PullWhole
    <3> HIDE DEF aged
    <3>2. /\ r \in Pulls /\ r.blob = live[w]
          /\ r.at = IF live[w] = {} THEN "prune" ELSE "extract"
      BY <1>0, <2>3 DEF Pulls, L!Steps
    <3> HIDE DEF r
    <3>3. r.at = "prune" => due[w] \subseteq agg[w]
      BY <2>2, <3>2
    <3> QED BY <1>0, <2>1, <2>2, <3>1, <3>2, <3>3, LogStep DEF Early
  <2>5. ASSUME NEW others \in BOOLEAN,
               pull' = [pull EXCEPT ![w].at = IF others /\ aggRun.rotate THEN "rotate" ELSE "prune",
                                    ![w].hidden = TRUE]
        PROVE  LogInv'
    <3> DEFINE r == [pull[w] EXCEPT !.at = IF others /\ aggRun.rotate THEN "rotate" ELSE "prune",
                                    !.hidden = TRUE]
    <3>1. pull' = [pull EXCEPT ![w] = r]
      BY <1>0, <2>5
    <3>2. r \in Pulls /\ r.at \in {"rotate", "prune"} /\ r.hidden
      BY <1>0 DEF Pulls, L!Steps
    <3> HIDE DEF r
    <3> QED BY <1>0, <2>1, <2>2, <3>1, <3>2, LogStep DEF Early
  <2>6. ASSUME NEW part \in SUBSET live[w],
               pull' = [pull EXCEPT ![w].at = "extract", ![w].blob = part,
                                    ![w].blobOld = aged, ![w].hidden = TRUE]
        PROVE  LogInv'
    <3> DEFINE r == [pull[w] EXCEPT !.at = "extract", !.blob = part,
                                    !.blobOld = aged, !.hidden = TRUE]
    <3> HIDE DEF aged
    <3>1. pull' = [pull EXCEPT ![w] = r]
      BY <1>0, <2>6
    <3>2. r \in Pulls /\ r.at = "extract" /\ r.hidden
      BY <1>0, <2>3 DEF Pulls, L!Steps
    <3> HIDE DEF r
    <3> QED BY <1>0, <2>1, <2>2, <3>1, <3>2, LogStep DEF Early
  <2> QED BY <1>2, <2>4, <2>5, <2>6 DEF L!PullArchive, L!PullHidden
<1>3. CASE L!Truncate(w)
  <2>1. /\ pull[w].at = "extract" /\ L!Goto(w, "copy")
        /\ agg' = [agg EXCEPT ![w] = {}] /\ aggOld' = aggOld \ {w}
        /\ UNCHANGED <<written, live, gz, old, turns, gzips, lateLines, aggRun, due>>
    BY <1>3 DEF L!Truncate, L!At, L!worker
  <2>2. PICK r \in Pulls : /\ pull' = [pull EXCEPT ![w] = r]
                           /\ r.at = "copy" /\ r.blob = pull[w].blob /\ r.ok = pull[w].ok
                           /\ r.hidden = pull[w].hidden
    BY <1>0, <2>1, PullGoto DEF L!Steps
  <2>3. aggRun.at = "running" /\ (due[w] \subseteq r.blob \/ r.hidden)
    BY <1>0, <2>1, <2>2, AtWork DEF PulledInv
  <2>4. agg' \in [Processes -> SUBSET L!Lines] /\ \A v \in Processes : v # w => agg'[v] = agg[v]
    BY <1>0, <2>1
  <2> QED BY <1>0, <2>1, <2>2, <2>3, <2>4, LogStep DEF Early
<1>4. CASE L!CopyEntry(w)
  <2>1. /\ pull[w].at = "copy" /\ agg' = [agg EXCEPT ![w] = pull[w].blob]
        /\ aggOld' \in {aggOld, aggOld \cup {w}}
        /\ UNCHANGED <<written, live, gz, old, turns, gzips, lateLines, aggRun, due>>
    BY <1>4 DEF L!CopyEntry, L!At, L!worker
  <2> DEFINE r == [pull[w] EXCEPT !.at = IF aggRun.rotate THEN "rotate" ELSE "prune",
                                  !.blob = {}, !.blobOld = FALSE]
  <2>2. pull' = [pull EXCEPT ![w] = r]
    BY <1>0, <1>4 DEF L!CopyEntry
  <2>3. r \in Pulls /\ r.at \in {"rotate", "prune"} /\ r.hidden = pull[w].hidden
    BY <1>0 DEF Pulls, L!Steps
  <2> HIDE DEF r
  <2>4. /\ aggRun.at = "running" /\ pull[w].blob \subseteq L!Lines
        /\ due[w] \subseteq pull[w].blob \/ pull[w].hidden
    BY <1>0, <2>1, AtWork DEF PulledInv, Pulls
  <2>5. /\ agg' \in [Processes -> SUBSET L!Lines] /\ agg'[w] = pull[w].blob
        /\ \A v \in Processes : v # w => agg'[v] = agg[v]
    BY <1>0, <2>1, <2>4
  <2> QED BY <1>0, <2>1, <2>2, <2>3, <2>4, <2>5, LogStep DEF Early
<1>5. CASE L!Prune(w)
  <2>1. /\ pull[w].at = "prune" /\ L!Goto(w, "done")
        /\ agg' = IF w \in aggOld THEN [agg EXCEPT ![w] = {}] ELSE agg
        /\ UNCHANGED <<written, live, gz, old, turns, gzips, lateLines, aggRun, due, aggOld>>
    BY <1>5 DEF L!Prune, L!At, L!worker
  <2>2. PICK r \in Pulls : /\ pull' = [pull EXCEPT ![w] = r]
                           /\ r.at = "done" /\ r.blob = pull[w].blob /\ r.ok = pull[w].ok
                           /\ r.hidden = pull[w].hidden
    BY <1>0, <2>1, PullGoto DEF L!Steps
  <2>3. aggRun.at = "running" /\ (due[w] \subseteq agg[w] \/ r.hidden)
    BY <1>0, <2>1, <2>2, AtWork DEF PulledInv
  <2>4. /\ agg' \in [Processes -> SUBSET L!Lines]
        /\ \A v \in Processes : v # w => agg'[v] = agg[v]
        /\ agg'[w] = agg[w] \/ (w \in aggOld /\ agg'[w] = {})
    BY <1>0, <2>1
  <2> QED BY <1>0, <2>1, <2>2, <2>3, <2>4, LogStep DEF Early
<1>6. CASE L!PullFails(w)
  <2>1. /\ pull[w].at \notin {"idle", "start", "done"}
        /\ UNCHANGED <<written, live, gz, old, turns, gzips, lateLines, aggRun, due, aggOld>>
    BY <1>6 DEF L!PullFails, L!worker
  <2> DEFINE r == [L!Idle EXCEPT !.at = "done", !.ok = FALSE]
  <2>2. pull' = [pull EXCEPT ![w] = r]
    BY <1>6 DEF L!PullFails, L!Fail
  <2>3. r \in Pulls /\ r.at = "done" /\ r.ok = FALSE
    BY DEF Pulls, L!Idle, L!Steps
  <2> HIDE DEF r
  <2>4. aggRun.at = "running"
    BY <2>1, AtWork
  <2>5. /\ agg' \in [Processes -> SUBSET L!Lines]
        /\ \A v \in Processes : v # w => agg'[v] = agg[v]
    <3>1. pull[w].blob \subseteq L!Lines
      BY <1>0 DEF Pulls
    <3>2. agg' = agg \/ \E part \in SUBSET L!Lines : agg' = [agg EXCEPT ![w] = part]
      BY <1>6, <3>1 DEF L!PullFails
    <3> QED BY <1>0, <3>2
  <2> QED BY <1>0, <2>1, <2>2, <2>3, <2>4, <2>5, LogStep DEF Early
<1>7. CASE L!Rotated(w)
  <2>1. /\ pull[w].at = "rotating" /\ L!Goto(w, "prune")
        /\ UNCHANGED <<written, live, gz, old, turns, gzips, lateLines, aggRun, due, agg, aggOld>>
    BY <1>7 DEF L!Rotated, L!At, L!worker
  <2>2. PICK r \in Pulls : /\ pull' = [pull EXCEPT ![w] = r]
                           /\ r.at = "prune" /\ r.blob = pull[w].blob /\ r.ok = pull[w].ok
                           /\ r.hidden = pull[w].hidden
    BY <1>0, <2>1, PullGoto DEF L!Steps
  <2>3. aggRun.at = "running" /\ (due[w] \subseteq agg[w] \/ r.hidden)
    BY <1>0, <2>1, <2>2, AtWork DEF PulledInv
  <2> QED BY <1>0, <2>1, <2>2, <2>3, LogStep DEF Early
<1> QED BY <1>1, <1>2, <1>3, <1>4, <1>5, <1>6, <1>7

\* The compression begins: the earlier archive goes.
LEMMA LogRotate ==
  ASSUME MaxLines \in Nat, LogInv, NEW w \in Processes, L!Rotate(w)
  PROVE  LogInv'
<1>0. /\ L!TypeOK /\ PulledInv(w) /\ GzipInv(w)
      /\ pull[w] \in Pulls /\ pull \in [Processes -> Pulls] /\ gzips \in [Processes -> Gzips]
      /\ live \in [Processes -> SUBSET L!Lines] /\ gz \in [Processes -> SUBSET L!Lines]
      /\ turns \in [L!Lines -> 0..2] /\ \A l \in 1..written : l \in L!Lines
  BY LogFacts DEF LogInv
<1>1. /\ pull[w].at = "rotate" /\ L!Goto(w, "rotating")
      /\ UNCHANGED <<written, live, old, lateLines, agg, aggOld, aggRun, due>>
  BY DEF L!Rotate, L!At
<1>2. PICK r \in Pulls : /\ pull' = [pull EXCEPT ![w] = r]
                         /\ r.at = "rotating" /\ r.blob = pull[w].blob /\ r.ok = pull[w].ok
                         /\ r.hidden = pull[w].hidden
  BY <1>0, <1>1, PullGoto DEF L!Steps
<1>3. pull' \in [Processes -> Pulls] /\ pull'[w] = r /\ \A v \in Processes : v # w => pull'[v] = pull[v]
  BY <1>0, <1>2
<1>4. CASE live[w] = {}
  <2>1. UNCHANGED <<gz, turns, gzips>>
    BY <1>4 DEF L!Rotate
  <2>2. aggRun.at = "running" /\ (due[w] \subseteq agg[w] \/ r.hidden)
    BY <1>0, <1>1, <1>2, AtWork DEF PulledInv
  <2>3. aggOld' \subseteq Processes /\ agg' \in [Processes -> SUBSET L!Lines]
    BY <1>0, <1>1 DEF L!TypeOK
  <2> QED BY <1>1, <1>2, <2>1, <2>2, <2>3, LogStep DEF Early
<1>5. CASE live[w] # {}
  <2>1. /\ gz' = [gz EXCEPT ![w] = {}] /\ gzips' = [gzips EXCEPT ![w].at = "open"]
        /\ turns' = [l \in L!Lines |-> IF l \in gz[w] \ live[w] /\ turns[l] < 2
                                       THEN turns[l] + 1 ELSE turns[l]]
    BY <1>5 DEF L!Rotate
  <2>2. /\ gz' \in [Processes -> SUBSET L!Lines] /\ gz'[w] = {}
        /\ \A v \in Processes : v # w => gz'[v] = gz[v]
    BY <1>0, <2>1
  <2>3. /\ gzips' \in [Processes -> Gzips] /\ gzips'[w].at = "open"
        /\ \A v \in Processes : v # w => gzips'[v] = gzips[v]
    BY <1>0, <2>1 DEF Gzips
  <2>4. turns' \in [L!Lines -> 0..2]
    BY <1>0, <2>1
  <2>5. L!TypeOK'
    BY <1>0, <1>1, <1>3, <2>2, <2>3, <2>4 DEF L!TypeOK, Pulls, Gzips
  <2>6. \A v \in Processes : v # w => PulledInv(v)'
    BY <1>1, <1>3, PulledKept DEF LogInv
  <2>7. PulledInv(w)'
    <3>1. aggRun.at = "running" /\ (due[w] \subseteq agg[w] \/ r.hidden)
      BY <1>0, <1>1, <1>2, AtWork DEF PulledInv
    <3> QED BY <1>1, <1>2, <1>3, <3>1 DEF PulledInv
  <2>8. \A v \in Processes : GzipInv(v)'
    <3>1. \A v \in Processes : v # w => GzipInv(v)'
      BY <1>1, <1>3, <2>2, <2>3, GzipKept DEF LogInv
    <3>2. GzipInv(w)'
      BY <1>2, <1>3, <2>2, <2>3 DEF GzipInv, Early
    <3> QED BY <3>1, <3>2
  <2>9. ASSUME NEW l \in (1..written) \ lateLines PROVE KeptInv(l)'
    <3>1. KeptInv(l) /\ l \in L!Lines /\ turns[l] \in 0..2
      BY <1>0 DEF LogInv
    <3>2. turns'[l] = IF l \in gz[w] \ live[w] /\ turns[l] < 2 THEN turns[l] + 1 ELSE turns[l]
      BY <2>1, <3>1
    <3>3. CASE \E v \in Processes : l \in live[v]
      BY <1>1, <3>3 DEF KeptInv
    <3>4. CASE \A v \in Processes : l \notin live[v]
      <4>1. turns[l] # 0
        BY <3>1, <3>4 DEF KeptInv
      <4>2. CASE turns[l] = 1
        <5>1. PICK v \in Processes : l \in gz[v]
          BY <3>1, <3>4, <4>2 DEF KeptInv
        <5>2. CASE v = w
          BY <3>2, <3>4, <4>2, <5>1, <5>2 DEF KeptInv
        <5>3. CASE v # w
          <6>1. turns'[l] # 0
            BY <3>2, <4>2
          <6> QED BY <2>2, <5>1, <5>3, <6>1 DEF KeptInv
        <5> QED BY <5>2, <5>3
      <4>3. CASE turns[l] = 2
        BY <3>2, <4>3 DEF KeptInv
      <4> QED BY <3>1, <4>1, <4>2, <4>3
    <3> QED BY <3>3, <3>4
  <2> QED BY <1>1, <2>5, <2>6, <2>7, <2>8, <2>9 DEF LogInv
<1> QED BY <1>4, <1>5

\* The compression goes on, ends or fails, with its run or after it.
LEMMA LogGzip ==
  ASSUME MaxLines \in Nat, LogInv, NEW w \in Processes,
         L!GzipRead(w) \/ L!GzipUnlink(w) \/ L!GzipFails(w)
  PROVE  LogInv'
<1>0. /\ L!TypeOK /\ GzipInv(w) /\ gzips \in [Processes -> Gzips]
      /\ live \in [Processes -> SUBSET L!Lines] /\ gz \in [Processes -> SUBSET L!Lines]
      /\ turns \in [L!Lines -> 0..2] /\ \A l \in 1..written : l \in L!Lines
  BY LogFacts DEF LogInv
<1>1. /\ gzips[w].at # "none"
      /\ UNCHANGED <<written, old, lateLines, agg, aggOld, aggRun, pull, due>>
  BY DEF L!GzipRead, L!GzipUnlink, L!GzipFails
<1>2. pull[w].at \notin Early
  BY <1>0, <1>1 DEF GzipInv
\* No goroutine but the one past that step needs the log.
<1>3. ASSUME \A v \in Processes : v # w => live'[v] = live[v]
      PROVE  \A v \in Processes : PulledInv(v)'
  <2>1. \A v \in Processes : v # w => PulledInv(v)'
    BY <1>1, <1>3, PulledKept DEF LogInv
  <2>2. PulledInv(w)'
    BY <1>1, <1>2 DEF LogInv, PulledInv, Early
  <2> QED BY <2>1, <2>2
<1>4. CASE L!GzipRead(w) \/ L!GzipFails(w)
  <2>1. PICK to \in {"none", "read"}, part \in SUBSET live[w] :
            /\ gzips' = [gzips EXCEPT ![w].at = to] /\ gz' = [gz EXCEPT ![w] = part]
            /\ to = "read" => part = live[w]
            /\ UNCHANGED <<live, turns>>
    <3>1. CASE L!GzipRead(w)
      BY <3>1 DEF L!GzipRead
    <3>2. CASE L!GzipFails(w)
      <4>1. gzips[w].at = "read" => gz[w] \subseteq live[w]
        BY <1>0 DEF GzipInv
      <4>2. \E part \in SUBSET live[w] : gz' = [gz EXCEPT ![w] = part]
        BY <1>0, <1>1, <3>2, <4>1 DEF L!GzipFails, Gzips
      <4> QED BY <3>2, <4>2 DEF L!GzipFails
    <3> QED BY <1>4, <3>1, <3>2
  <2>2. /\ gz' \in [Processes -> SUBSET L!Lines] /\ gz'[w] = part
        /\ \A v \in Processes : v # w => gz'[v] = gz[v]
    BY <1>0, <2>1
  <2>3. /\ gzips' \in [Processes -> Gzips] /\ gzips'[w].at = to
        /\ \A v \in Processes : v # w => gzips'[v] = gzips[v]
    BY <1>0, <2>1 DEF Gzips
  <2>4. L!TypeOK'
    BY <1>0, <1>1, <2>1, <2>2, <2>3 DEF L!TypeOK, Gzips
  <2>5. \A v \in Processes : PulledInv(v)'
    BY <1>3, <2>1
  <2>6. \A v \in Processes : v # w => GzipInv(v)'
    BY <1>1, <2>1, <2>2, <2>3, GzipKept DEF LogInv
  <2>7. GzipInv(w)'
    BY <1>1, <1>2, <2>1, <2>2, <2>3 DEF GzipInv
  \* What the archive held is in the log.
  <2>8. gz[w] \subseteq live[w]
    BY <1>0, <1>1 DEF GzipInv, Gzips
  <2>9. ASSUME NEW l \in (1..written) \ lateLines PROVE KeptInv(l)'
    <3>1. KeptInv(l)
      BY DEF LogInv
    <3>2. ASSUME NEW v \in Processes, l \in live[v] \cup gz[v]
          PROVE  \E u \in Processes : l \in live'[u] \cup gz'[u]
      BY <2>1, <2>2, <2>8, <3>2
    <3> QED BY <2>1, <3>1, <3>2 DEF KeptInv
  <2> QED BY <1>1, <2>4, <2>5, <2>6, <2>7, <2>9 DEF LogInv
<1>5. CASE L!GzipUnlink(w)
  <2>1. PICK open \in BOOLEAN :
            gzips' = [gzips EXCEPT ![w].at = "none", ![w].held = @ \/ open]
    BY <1>5 DEF L!GzipUnlink
  <2>2. /\ gzips[w].at = "read" /\ live' = [live EXCEPT ![w] = {}] /\ gz' = gz
        /\ turns' = [l \in L!Lines |-> IF l \in live[w] /\ turns[l] < 2
                                       THEN turns[l] + 1 ELSE turns[l]]
    BY <1>5 DEF L!GzipUnlink
  <2>3. /\ gzips' \in [Processes -> Gzips] /\ gzips'[w].at = "none"
        /\ \A v \in Processes : v # w => gzips'[v] = gzips[v]
    BY <1>0, <2>1 DEF Gzips
  <2>4. /\ live' \in [Processes -> SUBSET L!Lines] /\ live'[w] = {}
        /\ \A v \in Processes : v # w => live'[v] = live[v]
    BY <1>0, <2>2
  <2>5. turns' \in [L!Lines -> 0..2]
    BY <1>0, <2>2
  <2>6. L!TypeOK'
    BY <1>0, <1>1, <2>2, <2>3, <2>4, <2>5 DEF L!TypeOK, Gzips
  <2>7. \A v \in Processes : PulledInv(v)'
    BY <1>3, <2>4
  <2>8. \A v \in Processes : v # w => GzipInv(v)'
    BY <1>1, <2>2, <2>3, <2>4, GzipKept DEF LogInv
  <2>9. GzipInv(w)'
    BY <1>1, <1>2, <2>3 DEF GzipInv
  <2>10. ASSUME NEW l \in (1..written) \ lateLines PROVE KeptInv(l)'
    <3>1. KeptInv(l) /\ l \in L!Lines /\ turns[l] \in 0..2
      BY <1>0 DEF LogInv
    <3>2. turns'[l] = IF l \in live[w] /\ turns[l] < 2 THEN turns[l] + 1 ELSE turns[l]
      BY <2>2, <3>1
    <3>3. CASE l \in live[w]
      <4>1. l \in gz'[w]
        BY <1>0, <2>2, <3>3 DEF GzipInv
      <4>2. turns'[l] # 0
        BY <3>1, <3>2, <3>3
      <4> QED BY <4>1, <4>2 DEF KeptInv
    <3>4. CASE l \notin live[w]
      <4>1. turns'[l] = turns[l]
        BY <3>2, <3>4
      <4>2. \A v \in Processes : l \in live[v] => l \in live'[v]
        BY <2>4, <3>4
      <4> QED BY <2>2, <3>1, <4>1, <4>2 DEF KeptInv
    <3> QED BY <3>3, <3>4
  <2> QED BY <1>1, <2>6, <2>7, <2>8, <2>9, <2>10 DEF LogInv
<1> QED BY <1>4, <1>5

\* Every step of log-aggregate and of the workers keeps the lines.
LEMMA LogNext ==
  ASSUME MaxLines \in Nat, LogInv, [L!Next]_(L!vars)
  PROVE  LogInv'
<1>0. /\ L!TypeOK /\ pull \in [Processes -> Pulls] /\ written \in Nat /\ written <= MaxLines
      /\ gzips \in [Processes -> Gzips] /\ lateLines \subseteq L!Lines
      /\ live \in [Processes -> SUBSET L!Lines] /\ due \in [Processes -> SUBSET L!Lines]
  BY LogFacts DEF LogInv
<1>1. CASE L!Run
  <2>1. /\ \E rotate \in BOOLEAN : aggRun' = [at |-> "running", rotate |-> rotate, ok |-> TRUE]
        /\ pull' = [w \in Processes |-> [L!Idle EXCEPT !.at = "start"]] /\ due' = live
        /\ \A w \in Processes : gzips[w].at = "none"
        /\ UNCHANGED <<written, live, gz, old, turns, gzips, lateLines, agg, aggOld>>
    BY <1>1 DEF L!Run, L!worker
  <2>2. [L!Idle EXCEPT !.at = "start"] \in Pulls /\ [L!Idle EXCEPT !.at = "start"].at = "start"
    BY DEF L!Idle, Pulls, L!Steps
  <2>3. pull' \in [Processes -> Pulls] /\ \A w \in Processes : pull'[w].at = "start"
    BY <2>1, <2>2
  <2>4. /\ aggRun' \in [at : {"idle", "running", "returned"}, rotate : BOOLEAN, ok : BOOLEAN]
        /\ aggRun'.at = "running"
    BY <2>1
  <2>5. L!TypeOK'
    BY <1>0, <2>1, <2>3, <2>4 DEF L!TypeOK, Pulls
  <2>6. \A w \in Processes : PulledInv(w)'
    BY <2>1, <2>3, <2>4 DEF PulledInv
  <2>7. \A w \in Processes : GzipInv(w)'
    BY <2>1 DEF GzipInv
  <2> QED BY <2>1, <2>5, <2>6, <2>7, AllKept DEF LogInv
<1>2. CASE L!Return
  <2>1. /\ aggRun.at = "running" /\ \A w \in Processes : pull[w].at = "done"
        /\ aggRun' = [aggRun EXCEPT !.at = "returned", !.ok = \A w \in Processes : pull[w].ok]
        /\ UNCHANGED <<written, live, gz, old, turns, gzips, lateLines, agg, aggOld, pull, due>>
    BY <1>2 DEF L!Return, L!At, L!worker
  <2> DEFINE allOK == \A w \in Processes : pull[w].ok
  <2>2. allOK \in BOOLEAN
    OBVIOUS
  <2> HIDE DEF allOK
  <2>3. /\ aggRun' \in [at : {"idle", "running", "returned"}, rotate : BOOLEAN, ok : BOOLEAN]
        /\ aggRun'.at = "returned" /\ aggRun'.ok = allOK
    BY <1>0, <2>1, <2>2 DEF L!TypeOK, allOK
  <2>4. L!TypeOK'
    BY <1>0, <2>1, <2>3 DEF L!TypeOK
  <2>5. \A w \in Processes : PulledInv(w)'
    BY <2>1, <2>3 DEF LogInv, PulledInv, allOK
  <2>6. \A w \in Processes : GzipInv(w)'
    BY <2>1, GzipKept DEF LogInv
  <2> QED BY <2>1, <2>4, <2>5, <2>6, AllKept DEF LogInv
<1>3. CASE L!End
  <2>1. /\ aggRun' = L!NoRun /\ pull' = [w \in Processes |-> L!Idle] /\ due' = L!NoLines
        /\ UNCHANGED <<written, live, gz, old, turns, gzips, lateLines, agg, aggOld>>
    BY <1>3 DEF L!End, L!worker
  <2>2. L!Idle \in Pulls /\ L!Idle.at = "idle"
    BY DEF L!Idle, Pulls, L!Steps
  <2>3. pull' \in [Processes -> Pulls] /\ \A w \in Processes : pull'[w].at = "idle"
    BY <2>1, <2>2
  <2>4. L!TypeOK' /\ aggRun'.at = "idle"
    BY <1>0, <2>1, <2>3 DEF L!TypeOK, Pulls, L!NoRun, L!NoLines
  <2>5. \A w \in Processes : PulledInv(w)'
    BY <2>3, <2>4 DEF PulledInv
  <2>6. \A w \in Processes : GzipInv(w)'
    BY <2>1, <2>3, GzipKept DEF LogInv, Early
  <2> QED BY <2>1, <2>4, <2>5, <2>6, AllKept DEF LogInv
<1>4. ASSUME NEW w \in Processes, L!Write(w) PROVE LogInv'
  <2>1. /\ written < MaxLines /\ written' = written + 1
        /\ live' = [live EXCEPT ![w] = @ \cup {written + 1}] /\ old' = old \ {w}
        /\ lateLines' = IF gzips[w].at = "read" THEN lateLines \cup {written + 1} ELSE lateLines
        /\ UNCHANGED <<gz, agg, aggOld, aggRun, pull, due, turns, gzips>>
    BY <1>4 DEF L!Write
  <2>2. written + 1 \in L!Lines /\ written' \in 0..MaxLines /\ lateLines' \subseteq L!Lines
    BY <1>0, <2>1 DEF L!Lines
  <2>3. /\ live' \in [Processes -> SUBSET L!Lines] /\ live'[w] = live[w] \cup {written + 1}
        /\ \A v \in Processes : live[v] \subseteq live'[v]
        /\ \A v \in Processes : v # w => live'[v] = live[v]
    BY <1>0, <2>1, <2>2
  <2>4. L!TypeOK'
    BY <1>0, <2>1, <2>2, <2>3 DEF L!TypeOK
  <2>5. \A v \in Processes : PulledInv(v)'
    BY <2>1, <2>3, PulledKept DEF LogInv
  <2>6. \A v \in Processes : GzipInv(v)'
    <3>1. \A v \in Processes : v # w => GzipInv(v)'
      BY <2>1, <2>3, GzipKept DEF LogInv
    <3>2. GzipInv(w)'
      BY <2>1, <2>3 DEF LogInv, GzipInv
    <3> QED BY <3>1, <3>2
  <2>7. ASSUME NEW l \in (1..written') \ lateLines' PROVE KeptInv(l)'
    <3>1. l \in (1..written) \ lateLines \/ l = written + 1
      BY <1>0, <2>1
    <3>2. CASE l \in (1..written) \ lateLines
      BY <2>1, <2>3, <3>2 DEF LogInv, KeptInv
    <3>3. CASE l = written + 1
      BY <2>3, <3>3 DEF KeptInv
    <3> QED BY <3>1, <3>2, <3>3
  <2> QED BY <2>4, <2>5, <2>6, <2>7 DEF LogInv
<1>5. ASSUME NEW w \in Processes, L!WriteUnlinked(w) PROVE LogInv'
  <2>1. /\ written < MaxLines /\ written' = written + 1
        /\ lateLines' = lateLines \cup {written + 1}
        /\ UNCHANGED <<live, old, gz, agg, aggOld, aggRun, pull, due, turns, gzips>>
    BY <1>5 DEF L!WriteUnlinked
  <2>2. written' \in 0..MaxLines /\ lateLines' \subseteq L!Lines
    BY <1>0, <2>1 DEF L!Lines
  <2>3. L!TypeOK'
    BY <1>0, <2>1, <2>2 DEF L!TypeOK
  <2>4. \A v \in Processes : PulledInv(v)' /\ GzipInv(v)'
    BY <2>1, PulledKept, GzipKept DEF LogInv
  <2>5. ASSUME NEW l \in (1..written') \ lateLines' PROVE KeptInv(l)'
    <3>1. l \in (1..written) \ lateLines
      BY <1>0, <2>1
    <3> QED BY <2>1, <3>1 DEF LogInv, KeptInv
  <2> QED BY <2>3, <2>4, <2>5 DEF LogInv
<1>6. ASSUME NEW w \in Processes, L!Age(w) PROVE LogInv'
  <2>1. /\ old' = old \cup {w} /\ aggOld' = aggOld \cup {w}
        /\ UNCHANGED <<written, live, gz, agg, aggRun, pull, due, turns, gzips, lateLines>>
    BY <1>6 DEF L!Age
  <2>2. L!TypeOK'
    BY <1>0, <2>1 DEF L!TypeOK
  <2>3. \A v \in Processes : PulledInv(v)' /\ GzipInv(v)'
    BY <2>1, PulledKept, GzipKept DEF LogInv
  <2> QED BY <2>1, <2>2, <2>3, AllKept DEF LogInv
<1>7. CASE UNCHANGED L!vars
  <2>1. L!TypeOK'
    BY <1>0, <1>7 DEF L!TypeOK, L!vars
  <2>2. \A v \in Processes : PulledInv(v)' /\ GzipInv(v)'
    BY <1>7, PulledKept, GzipKept DEF LogInv, L!vars
  <2> QED BY <1>7, <2>1, <2>2, AllKept DEF LogInv, L!vars
<1> QED BY <1>1, <1>2, <1>3, <1>4, <1>5, <1>6, <1>7, LogPull, LogRotate, LogGzip DEF L!Next

\* The invariant of log-aggregate.
LEMMA LogAlways == L!Spec => []LogInv
<1>0. MaxLines \in Nat
  BY OperationsAssumption
<1> USE <1>0
<1>1. L!Init => LogInv
  <2> SUFFICES ASSUME L!Init PROVE LogInv
    OBVIOUS
  <2>1. L!Idle \in Pulls /\ L!Idle.at = "idle"
    BY DEF L!Idle, Pulls, L!Steps
  <2>2. pull \in [Processes -> Pulls] /\ \A w \in Processes : pull[w].at = "idle"
    BY <2>1 DEF L!Init
  <2>3. L!TypeOK /\ aggRun.at = "idle" /\ written = 0 /\ \A w \in Processes : gzips[w].at = "none"
    BY <2>2 DEF L!Init, L!TypeOK, Pulls, L!NoRun, L!NoLines
  <2> QED BY <2>2, <2>3 DEF LogInv, PulledInv, GzipInv
<1>2. LogInv /\ [L!Next]_(L!vars) => LogInv'
  BY LogNext
<1> QED BY <1>1, <1>2, PTL DEF L!Spec

\* The subsystem by itself.
LEMMA PulledAlone == L!Spec => []L!OKMeansPulled
<1>1. LogInv => L!OKMeansPulled
  BY DEF LogInv, PulledInv, L!OKMeansPulled
<1> QED BY <1>1, LogAlways, PTL

\* For any workers, lines and concurrency: a run of log-aggregate that reports
\* success has landed every line that was in a worker's log when it began, save
\* for logs older than the retention and for a worker whose tar failed behind the
\* pipe that hides its exit status.
THEOREM RunsLand == Spec => []OKMeansPulled
<1>1. Init /\ which = "logaggregate" => L!Init
  BY DEF Init
<1>2. [Next]_vars /\ which = "logaggregate" => [L!Next]_(L!vars)
  BY DEF Next, vars, L!vars
<1>3. [Next]_vars => (which = "logaggregate" <=> (which = "logaggregate")')
  BY OneSubsystem
<1> QED
  BY <1>1, <1>2, <1>3, PulledAlone, PTL DEF Spec, L!Spec, OKMeansPulled

\* The subsystem by itself.
LEMMA SurvivesAlone == L!Spec => []L!SurvivesOneRotation
<1>0. MaxLines \in Nat
  BY OperationsAssumption
<1> USE <1>0
<1>1. LogInv => L!SurvivesOneRotation
  <2> SUFFICES ASSUME LogInv, NEW l \in (1..written) \ lateLines, turns[l] < 2
               PROVE  \E w \in Processes : l \in live[w] \cup gz[w]
    BY DEF L!SurvivesOneRotation
  <2>1. KeptInv(l) /\ turns[l] \in 0..2
    BY LogFacts DEF LogInv
  <2>2. turns[l] = 0 \/ turns[l] = 1
    BY <2>1
  <2> QED BY <2>1, <2>2 DEF KeptInv
<1> QED BY <1>1, LogAlways, PTL

\* For any workers, lines and concurrency: a line leaves its worker only after a
\* log and an archive that held it were removed, wherever the runs and the
\* compressions fail or die, save for a line that came between a compression's last
\* read and its unlink or was written to the unlinked log.
THEOREM LinesSurvive == Spec => []SurvivesOneRotation
<1>1. Init /\ which = "logaggregate" => L!Init
  BY DEF Init
<1>2. [Next]_vars /\ which = "logaggregate" => [L!Next]_(L!vars)
  BY DEF Next, vars, L!vars
<1>3. [Next]_vars => (which = "logaggregate" <=> (which = "logaggregate")')
  BY OneSubsystem
<1> QED
  BY <1>1, <1>2, <1>3, SurvivesAlone, PTL DEF Spec, L!Spec, SurvivesOneRotation

HIDE DEF written, live, gz, old, agg, aggOld, aggRun, pull, due, turns, gzips, lateLines

-----------------------------------------------------------------------------
(***************************************************************************)
(* backup and backup-worker                                                *)
(***************************************************************************)

\* The variables of Backups.
own == x1
torn == x2
lastPull == x3
pullers == x4
repo == x5
snapshots == x6
begun == x7
backup == x8
lastBackup == x9
doubts == x10
cutShort == x11
USE DEF own, torn, lastPull, pullers, repo, snapshots, begun, backup, lastBackup, doubts, cutShort

BackupBounds == NumFiles \in Nat \ {0} /\ MaxVersion \in Nat /\ MaxSnapshots \in Nat

BackupRuns == [at : {"idle", "ready", "scan", "commit", "forget", "mark"},
               start : B!Versions, snap : B!Snapshots]

Pulled == [at : {"idle", "rsync", "mark"}, next : B!Files, io : BOOLEAN]

\* restic is at work.
Flying(b) == backup[b].at \in {"scan", "commit"}

\* Whatever was begun as number n or later has, or will have, version v.
Vouched(v, n) ==
    /\ \A t \in snapshots : t.n >= n => t.own >= v
    /\ \A c \in Processes : Flying(c) /\ backup[c].snap.n >= n => backup[c].start >= v

\* The repository holds version v, and the snapshot that is begun last does
\* too: thinning out the others does not lose it, save for what an incomplete
\* snapshot that is kept in its place could not read.
Covers(v) == \E s \in snapshots : Vouched(v, s.n) /\ (s.whole \/ cutShort)

RunInv(b) ==
    /\ backup[b].start <= own
    /\ Flying(b) => /\ backup[b].snap.n <= begun /\ backup[b].snap.whole
                    /\ Vouched(backup[b].start, backup[b].snap.n)
    /\ backup[b].at = "commit" => backup[b].snap.own >= backup[b].start
    /\ backup[b].at \in {"forget", "mark"} => Covers(backup[b].start)
    /\ backup[b].snap.mirror # "torn"

\* Unless the last pull to begin is in doubt it is the only one, and the marker is
\* there only while the mirror is whole; rsync has repaired the files behind it.
Pulling(p) == pullers[p].at # "idle"

MirrorInv ==
    ~doubts =>
      /\ \A p, q \in Processes : Pulling(p) /\ Pulling(q) => p = q
      /\ lastPull => torn = {}
      /\ \A p \in Processes :
            /\ pullers[p].at = "rsync" => ~lastPull /\ \A f \in torn : f >= pullers[p].next
            /\ pullers[p].at = "mark" => torn = {}

BackupInv ==
    /\ B!TypeOK /\ MirrorInv
    /\ \A s \in snapshots : s.n <= begun /\ s.mirror # "torn"
    /\ \A b \in Processes : RunInv(b)
    /\ lastBackup # B!Never => lastBackup <= own /\ Covers(lastBackup)

\* The types, unfolded.
LEMMA BackupFacts ==
  ASSUME BackupBounds, B!TypeOK
  PROVE  /\ own \in Nat /\ begun \in Nat
         /\ backup \in [Processes -> BackupRuns]
         /\ \A b \in Processes : /\ backup[b] \in BackupRuns /\ backup[b].start \in Nat
                            /\ backup[b].snap \in B!Snapshots
                            /\ backup[b].snap.n \in Nat /\ backup[b].snap.own \in Nat
         /\ \A s \in snapshots : s \in B!Snapshots /\ s.n \in Nat /\ s.own \in Nat
         /\ lastBackup \in Nat /\ B!Never \in Nat
<1>1. \A s \in B!Snapshots : s.n \in Nat /\ s.own \in Nat
  BY DEF BackupBounds, B!Snapshots, B!Versions
<1>2. backup \in [Processes -> BackupRuns] /\ snapshots \subseteq B!Snapshots
  BY DEF B!TypeOK, BackupRuns
<1>3. \A b \in Processes : /\ backup[b] \in BackupRuns /\ backup[b].start \in Nat
                      /\ backup[b].snap \in B!Snapshots
  BY <1>2 DEF BackupRuns, B!Versions, BackupBounds
<1>4. own \in Nat /\ begun \in Nat /\ lastBackup \in Nat /\ B!Never \in Nat
  BY DEF B!TypeOK, B!Versions, B!Never, BackupBounds
<1> QED BY <1>1, <1>2, <1>3, <1>4

\* What was vouched for stays so: new snapshots come from runs that were under
\* way, new runs start with what the gateway has by now.
LEMMA VouchedKept ==
  ASSUME NEW v, NEW n, Vouched(v, n),
         \A t \in snapshots' : t \in snapshots \/ (t.n >= n => t.own >= v),
         \A c \in Processes : Flying(c)' =>
            \/ Flying(c) /\ backup'[c].start = backup[c].start /\ backup'[c].snap.n = backup[c].snap.n
            \/ backup'[c].start >= v
  PROVE  Vouched(v, n)'
  BY DEF Vouched

\* Nothing is lost while snapshots stay.
LEMMA CoversKept ==
  ASSUME NEW v \in Nat, v <= own, Covers(v), BackupBounds, B!TypeOK,
         \A n \in Nat : Vouched(v, n) => Vouched(v, n)',
         snapshots \subseteq snapshots', cutShort => cutShort'
  PROVE  Covers(v)'
  BY BackupFacts DEF Covers

\* A run that stays where it is keeps its invariant.
LEMMA RunKept ==
  ASSUME BackupBounds, B!TypeOK, NEW b \in Processes, RunInv(b),
         own' \in Nat, own <= own', begun' \in Nat, begun <= begun',
         backup'[b].at = backup[b].at, backup'[b].start = backup[b].start,
         backup'[b].snap.n = backup[b].snap.n, backup'[b].snap.own = backup[b].snap.own,
         backup'[b].snap.mirror \in {backup[b].snap.mirror, "none"},
         backup'[b].snap.whole = backup[b].snap.whole,
         \A v, n \in Nat : v <= own /\ Vouched(v, n) => Vouched(v, n)',
         \A v \in Nat : v <= own /\ Covers(v) => Covers(v)'
  PROVE  RunInv(b)'
<1>1. /\ own \in Nat /\ begun \in Nat /\ backup[b].start \in Nat /\ backup[b].snap.n \in Nat
      /\ backup[b].snap.own \in Nat /\ backup[b].start <= own
  BY BackupFacts DEF RunInv
<1>2. Flying(b)' <=> Flying(b)
  BY DEF Flying
<1>3. Flying(b) => Vouched(backup[b].start, backup[b].snap.n)'
  <2> DEFINE v == backup[b].start
             n == backup[b].snap.n
  <2>1. Flying(b) => Vouched(v, n)
    BY DEF RunInv
  <2>2. v \in Nat /\ n \in Nat /\ v <= own /\ backup'[b].start = v /\ backup'[b].snap.n = n
    BY <1>1
  <2> HIDE DEF v, n
  <2>3. Flying(b) => \A t \in snapshots' : t.n >= n => t.own >= v
    BY <2>1, <2>2 DEF Vouched
  <2>4. Flying(b) => \A c \in Processes : Flying(c)' /\ backup'[c].snap.n >= n => backup'[c].start >= v
    BY <2>1, <2>2 DEF Vouched
  <2> QED BY <2>2, <2>3, <2>4 DEF Vouched
<1>4. backup[b].at \in {"forget", "mark"} => Covers(backup[b].start)'
  <2> DEFINE v == backup[b].start
  <2>1. backup[b].at \in {"forget", "mark"} => Covers(v)
    BY DEF RunInv
  <2>2. v \in Nat /\ v <= own /\ backup'[b].start = v
    BY <1>1
  <2> HIDE DEF v
  <2>3. backup[b].at \in {"forget", "mark"} =>
           \E s \in snapshots' : /\ s.whole \/ cutShort'
                                 /\ \A t \in snapshots' : t.n >= s.n => t.own >= v
                                 /\ \A c \in Processes : Flying(c)' /\ backup'[c].snap.n >= s.n
                                                       => backup'[c].start >= v
    BY <2>1, <2>2 DEF Covers, Vouched
  <2> QED BY <2>2, <2>3 DEF Covers, Vouched
<1>5. backup'[b].start <= own' /\ (Flying(b) => backup'[b].snap.n <= begun' /\ backup'[b].snap.whole)
  BY <1>1 DEF RunInv
<1> QED BY <1>1, <1>2, <1>3, <1>4, <1>5 DEF RunInv

\* The version LAST_BACKUP names is covered.
LEMMA LastKept ==
  ASSUME NEW v, v = lastBackup', Covers(v)'
  PROVE  Covers(lastBackup)'
<1>1. \E s \in snapshots' : /\ s.whole \/ cutShort'
                            /\ \A t \in snapshots' : t.n >= s.n => t.own >= v
                            /\ \A c \in Processes : Flying(c)' /\ backup'[c].snap.n >= s.n
                                                  => backup'[c].start >= v
  BY DEF Covers, Vouched
<1> QED BY <1>1 DEF Covers, Vouched

\* rsync changes the mirror under the snapshots that are being taken.
LEMMA MirrorStep ==
  ASSUME BackupBounds, BackupInv, B!Overlap,
         UNCHANGED <<own, repo, snapshots, begun, lastBackup, cutShort>>,
         torn' \subseteq B!Files, lastPull' \in BOOLEAN, pullers' \in [Processes -> Pulled],
         doubts' \in BOOLEAN, MirrorInv'
  PROVE  BackupInv'
<1>0. B!TypeOK
  BY DEF BackupInv
<1>1. ASSUME NEW b \in Processes
      PROVE  /\ backup'[b] \in BackupRuns
             /\ backup'[b].at = backup[b].at /\ backup'[b].start = backup[b].start
             /\ backup'[b].snap.n = backup[b].snap.n /\ backup'[b].snap.own = backup[b].snap.own
             /\ backup'[b].snap.mirror \in {backup[b].snap.mirror, "none"}
             /\ backup'[b].snap.whole = backup[b].snap.whole
  <2>1. backup[b] \in BackupRuns /\ backup[b].snap \in B!Snapshots
    BY <1>0, BackupFacts
  <2>2. \/ backup'[b] = backup[b]
        \/ backup'[b] = [backup[b] EXCEPT !.snap.mirror = "none"]
    BY DEF B!Overlap
  <2> DEFINE q == [backup[b].snap EXCEPT !.mirror = "none"]
             r == [backup[b] EXCEPT !.snap = q]
  <2>3. /\ q \in B!Snapshots /\ q.n = backup[b].snap.n /\ q.own = backup[b].snap.own
        /\ q.mirror = "none" /\ q.whole = backup[b].snap.whole
    BY <2>1 DEF B!Snapshots, B!Mirrors
  <2>4. [backup[b] EXCEPT !.snap.mirror = "none"] = r
    BY <2>1 DEF BackupRuns
  <2> HIDE DEF q
  <2>5. r \in BackupRuns /\ r.at = backup[b].at /\ r.start = backup[b].start /\ r.snap = q
    BY <2>1, <2>3 DEF BackupRuns
  <2> HIDE DEF r
  <2>6. CASE backup'[b] = backup[b]
    BY <2>1, <2>6
  <2>7. CASE backup'[b] = r
    BY <2>3, <2>5, <2>7
  <2> QED BY <2>2, <2>4, <2>6, <2>7
<1>2. backup' \in [Processes -> BackupRuns]
  BY <1>1 DEF B!Overlap
<1>3. B!TypeOK'
  BY <1>0, <1>2 DEF B!TypeOK, BackupRuns, Pulled
<1>4. \A v, n : Vouched(v, n) => Vouched(v, n)'
  BY <1>1 DEF Vouched, Flying
<1>5. \A v : Covers(v) => Covers(v)'
  BY <1>4 DEF Covers
<1>6. own' = own /\ own \in Nat /\ begun' = begun /\ begun \in Nat /\ own <= own' /\ begun <= begun'
  BY <1>0, BackupFacts
<1>7. \A b \in Processes : RunInv(b)'
  BY <1>0, <1>1, <1>4, <1>5, <1>6, RunKept DEF BackupInv
<1>8. lastBackup' # B!Never => lastBackup' <= own' /\ Covers(lastBackup)'
  <2>1. lastBackup # B!Never => lastBackup <= own /\ Covers(lastBackup)
    BY DEF BackupInv
  <2>2. PICK v : v = lastBackup
    OBVIOUS
  <2>3. v = lastBackup' /\ (lastBackup # B!Never => Covers(v)')
    BY <1>5, <2>1, <2>2
  <2> QED BY <1>6, <2>1, <2>3, LastKept
<1> QED BY <1>3, <1>7, <1>8 DEF BackupInv

\* The steps of backup-worker.
LEMMA BackupPull ==
  ASSUME BackupBounds, BackupInv, NEW p \in Processes,
         B!pullOneWorker(p) \/ B!RewriteFile(p) \/ B!FinishFile(p) \/ B!MarkPull(p) \/ B!PullFails(p)
  PROVE  BackupInv'
<1>0. /\ MirrorInv /\ torn \subseteq B!Files /\ lastPull \in BOOLEAN
      /\ pullers \in [Processes -> Pulled] /\ pullers[p] \in Pulled
      /\ doubts \in BOOLEAN
      /\ NumFiles \in Nat /\ 1 \in B!Files /\ pullers[p].next \in B!Files
      /\ \A f \in B!Files : f \in Nat /\ 1 <= f /\ f <= NumFiles
  BY DEF BackupInv, B!TypeOK, BackupBounds, B!Files, Pulled
<1>1. B!NoPull \in Pulled /\ B!NoPull.at = "idle"
  BY <1>0 DEF B!NoPull, Pulled
<1>2. ASSUME B!pullOneWorker(p) PROVE BackupInv'
  <2>1. PICK io \in BOOLEAN :
           /\ pullers' = [pullers EXCEPT ![p] = [at |-> "rsync", next |-> 1, io |-> io]]
           /\ lastPull' = (io /\ lastPull)
           /\ doubts' = (io \/ \E q \in Processes \ {p} : Pulling(q))
    BY <1>2 DEF B!pullOneWorker, Pulling
  <2>2. B!Overlap /\ UNCHANGED <<own, torn, repo, snapshots, begun, lastBackup, cutShort>>
    BY <1>2 DEF B!pullOneWorker
  <2> DEFINE r == [at |-> "rsync", next |-> 1, io |-> io]
  <2>3. r \in Pulled /\ r.at = "rsync" /\ r.next = 1
    BY <1>0 DEF Pulled
  <2>4. doubts' \in BOOLEAN /\ (~doubts' => ~io /\ \A q \in Processes \ {p} : ~Pulling(q))
    BY <2>1
  <2>5. pullers' = [pullers EXCEPT ![p] = r]
    BY <2>1
  <2> HIDE DEF r
  <2>6. pullers' \in [Processes -> Pulled] /\ pullers'[p] = r
        /\ \A q \in Processes \ {p} : pullers'[q] = pullers[q]
    BY <1>0, <2>3, <2>5
  <2>7. lastPull' \in BOOLEAN /\ (~io => ~lastPull')
    BY <1>0, <2>1
  <2>8. ASSUME ~doubts'
        PROVE  /\ \A q, s \in Processes : Pulling(q)' /\ Pulling(s)' => q = s
               /\ lastPull' => torn' = {}
               /\ \A q \in Processes :
                     /\ pullers'[q].at = "rsync" => ~lastPull' /\ \A f \in torn' : f >= pullers'[q].next
                     /\ pullers'[q].at = "mark" => torn' = {}
    <3>1. \A q \in Processes \ {p} : pullers'[q].at = "idle"
      BY <2>4, <2>6, <2>8 DEF Pulling
    <3>2. \A q, s \in Processes : Pulling(q)' /\ Pulling(s)' => q = s
      BY <3>1 DEF Pulling
    <3>3. \A f \in torn' : f >= pullers'[p].next
      BY <1>0, <2>2, <2>3, <2>6
    <3>4. ~lastPull'
      BY <2>4, <2>7, <2>8
    <3> QED BY <2>3, <2>6, <3>1, <3>2, <3>3, <3>4
  <2>9. MirrorInv'
    BY <2>8 DEF MirrorInv
  <2> QED BY <1>0, <2>2, <2>4, <2>5, <2>6, <2>7, <2>9, MirrorStep
<1>3. ASSUME B!RewriteFile(p) PROVE BackupInv'
  <2>1. /\ pullers[p].at = "rsync" /\ torn' = torn \cup {pullers[p].next} /\ B!Overlap
        /\ UNCHANGED <<own, lastPull, pullers, doubts, repo, snapshots, begun, lastBackup, cutShort>>
    BY <1>3 DEF B!RewriteFile
  <2>2. MirrorInv'
    <3>o. ~doubts => \A q \in Processes \ {p} : ~Pulling(q)
      BY <1>0, <2>1 DEF MirrorInv, Pulling
    <3>f. ~doubts => (\A f \in torn : f >= pullers[p].next) /\ ~lastPull
      BY <1>0, <2>1 DEF MirrorInv
    <3>1. ~doubts => /\ \A f \in torn' : f >= pullers[p].next
                             /\ ~lastPull
                             /\ \A q \in Processes \ {p} : pullers[q].at = "idle"
      BY <1>0, <2>1, <3>o, <3>f DEF Pulling
    <3> QED BY <1>0, <2>1, <3>1 DEF MirrorInv, Pulling
  <2> QED BY <1>0, <2>1, <2>2, MirrorStep
<1>4. ASSUME B!FinishFile(p) PROVE BackupInv'
  <2>1. /\ pullers[p].at = "rsync" /\ torn' = torn \ {pullers[p].next} /\ B!Overlap
        /\ UNCHANGED <<own, lastPull, doubts, repo, snapshots, begun, lastBackup, cutShort>>
    BY <1>4 DEF B!FinishFile
  <2>2. PICK r \in Pulled : /\ pullers' = [pullers EXCEPT ![p] = r]
                            /\ \/ r.at = "idle"
                               \/ r.at = "mark" /\ pullers[p].next = NumFiles
                               \/ /\ r.at = "rsync" /\ pullers[p].next # NumFiles
                                  /\ r.next = pullers[p].next + 1
    <3>1. CASE pullers[p].next # NumFiles
      <4> DEFINE r == [pullers[p] EXCEPT !.next = pullers[p].next + 1]
      <4>1. pullers[p].next + 1 \in B!Files
        BY <1>0, <3>1 DEF B!Files
      <4>2. r \in Pulled /\ r.at = "rsync" /\ r.next = pullers[p].next + 1
        BY <1>0, <2>1, <4>1 DEF Pulled
      <4>3. pullers' = [pullers EXCEPT ![p] = r]
        BY <1>4, <3>1 DEF B!FinishFile
      <4> QED BY <3>1, <4>2, <4>3
    <3>2. CASE pullers[p].next = NumFiles /\ pullers[p].io
      BY <1>1, <1>4, <3>2 DEF B!FinishFile
    <3>3. CASE pullers[p].next = NumFiles /\ ~pullers[p].io
      <4> DEFINE r == [B!NoPull EXCEPT !.at = "mark"]
      <4>1. r \in Pulled /\ r.at = "mark"
        BY <1>1 DEF Pulled
      <4>2. pullers' = [pullers EXCEPT ![p] = r]
        BY <1>4, <3>3 DEF B!FinishFile
      <4> QED BY <3>3, <4>1, <4>2
    <3> QED BY <3>1, <3>2, <3>3
  <2>3. /\ pullers' \in [Processes -> Pulled] /\ pullers'[p] = r
        /\ \A q \in Processes \ {p} : pullers'[q] = pullers[q]
    BY <1>0, <2>2
  <2>4. ASSUME ~doubts
        PROVE  /\ \A q \in Processes \ {p} : pullers'[q].at = "idle"
               /\ lastPull => torn' = {}
               /\ r.at = "rsync" => (\A f \in torn' : f >= r.next) /\ ~lastPull
               /\ r.at = "mark" => torn' = {}
    <3>o. \A q \in Processes \ {p} : ~Pulling(q)
      BY <1>0, <2>1, <2>4 DEF MirrorInv, Pulling
    <3>f. (\A f \in torn : f >= pullers[p].next) /\ ~lastPull
      BY <1>0, <2>1, <2>4 DEF MirrorInv
    <3>1. /\ \A f \in torn : f >= pullers[p].next
          /\ ~lastPull
          /\ \A q \in Processes \ {p} : pullers[q].at = "idle"
      BY <3>o, <3>f DEF Pulling
    <3>2. \A f \in torn' : f \in Nat /\ f >= pullers[p].next + 1 /\ f <= NumFiles
      BY <1>0, <2>1, <3>1
    <3>3. pullers[p].next = NumFiles => torn' = {}
      BY <1>0, <3>2
    <3> QED BY <2>2, <2>3, <3>1, <3>2, <3>3
  <2>5. MirrorInv'
    BY <2>1, <2>3, <2>4 DEF MirrorInv, Pulling
  <2> QED BY <1>0, <2>1, <2>3, <2>5, MirrorStep
<1>5. ASSUME B!MarkPull(p) PROVE BackupInv'
  <2>1. /\ pullers[p].at = "mark" /\ lastPull' \in BOOLEAN /\ pullers' = [pullers EXCEPT ![p] = B!NoPull]
        /\ B!Overlap /\ UNCHANGED <<own, torn, doubts, repo, snapshots, begun, lastBackup, cutShort>>
    BY <1>0, <1>5 DEF B!MarkPull
  <2>2. /\ pullers' \in [Processes -> Pulled] /\ pullers'[p].at = "idle"
        /\ \A q \in Processes \ {p} : pullers'[q] = pullers[q]
    BY <1>0, <1>1, <2>1
  <2>3. ~doubts => torn = {} /\ \A q \in Processes : pullers'[q].at = "idle"
    BY <1>0, <2>1, <2>2 DEF MirrorInv, Pulling
  <2>4. MirrorInv'
    BY <2>1, <2>3 DEF MirrorInv, Pulling
  <2> QED BY <1>0, <2>1, <2>2, <2>4, MirrorStep
<1>6. ASSUME B!PullFails(p) PROVE BackupInv'
  <2>1. /\ pullers' = [pullers EXCEPT ![p] = B!NoPull] /\ B!Overlap
        /\ UNCHANGED <<own, torn, lastPull, doubts, repo, snapshots, begun, lastBackup, cutShort>>
    BY <1>6 DEF B!PullFails
  <2>2. /\ pullers' \in [Processes -> Pulled] /\ pullers'[p].at = "idle"
        /\ \A q \in Processes \ {p} : pullers'[q] = pullers[q]
    BY <1>0, <1>1, <2>1
  <2>3. MirrorInv'
    BY <1>0, <2>1, <2>2 DEF MirrorInv, Pulling
  <2> QED BY <1>0, <2>1, <2>2, <2>3, MirrorStep
<1> QED BY <1>2, <1>3, <1>4, <1>5, <1>6

\* One run of `backup' takes a step.
LEMMA RunStep ==
  ASSUME BackupBounds, BackupInv, NEW b \in Processes, NEW r \in BackupRuns,
         backup' = [backup EXCEPT ![b] = r],
         UNCHANGED <<torn, lastPull, pullers, doubts, own>>, repo' \in BOOLEAN, cutShort' \in BOOLEAN,
         begun' \in 0..MaxSnapshots, begun <= begun', snapshots' \subseteq B!Snapshots,
         \A s \in snapshots' : s.n <= begun' /\ s.mirror # "torn",
         \A v, n \in Nat : v <= own /\ Vouched(v, n) => Vouched(v, n)',
         \A v \in Nat : v <= own /\ Covers(v) => Covers(v)',
         RunInv(b)',
         lastBackup' \in 0..B!Never,
         lastBackup' # B!Never => \E v \in Nat : v = lastBackup' /\ v <= own /\ Covers(v)
  PROVE  BackupInv'
<1>0. B!TypeOK /\ backup \in [Processes -> BackupRuns] /\ own \in Nat /\ begun' \in Nat
  BY BackupFacts DEF BackupInv, BackupBounds
<1>1. backup' \in [Processes -> BackupRuns] /\ \A c \in Processes : c # b => backup'[c] = backup[c]
  BY <1>0
<1>2. B!TypeOK'
  BY <1>0, <1>1 DEF B!TypeOK, BackupRuns
<1>3. own' = own /\ own' \in Nat /\ own <= own'
  BY <1>0
<1>4. \A c \in Processes : c # b => RunInv(c)'
  BY <1>0, <1>1, <1>3, RunKept DEF BackupInv
<1>5. lastBackup' # B!Never => lastBackup' <= own' /\ Covers(lastBackup)'
  BY <1>3, LastKept
<1>6. MirrorInv'
  BY DEF BackupInv, MirrorInv, Pulling
<1> QED BY <1>2, <1>4, <1>5, <1>6 DEF BackupInv

\* A step of a run keeps what is vouched for: it adds at most its own snapshot,
\* and starts with what the gateway has now.
LEMMA RunVouches ==
  ASSUME BackupBounds, BackupInv, NEW b \in Processes, NEW r \in BackupRuns,
         backup' = [backup EXCEPT ![b] = r],
         \A t \in snapshots' : \/ t \in snapshots
                               \/ /\ backup[b].at = "commit" /\ t.n = backup[b].snap.n
                                  /\ t.own = backup[b].snap.own,
         r.at \in {"scan", "commit"} =>
            \/ Flying(b) /\ r.start = backup[b].start /\ r.snap.n = backup[b].snap.n
            \/ r.start = own
  PROVE  \A v, n \in Nat : v <= own /\ Vouched(v, n) => Vouched(v, n)'
<1> SUFFICES ASSUME NEW v \in Nat, NEW n \in Nat, v <= own, Vouched(v, n)
             PROVE  Vouched(v, n)'
  OBVIOUS
<1>0. /\ B!TypeOK /\ own \in Nat /\ backup \in [Processes -> BackupRuns]
      /\ backup[b].snap.n \in Nat /\ backup[b].snap.own \in Nat /\ backup[b].start \in Nat
  BY BackupFacts DEF BackupInv
<1>1. ASSUME NEW t \in snapshots', t \notin snapshots, t.n >= n PROVE t.own >= v
  <2>1. /\ t.n = backup[b].snap.n /\ t.own = backup[b].snap.own
        /\ backup[b].at = "commit" /\ Flying(b)
    BY <1>1 DEF Flying
  <2>2. backup[b].start >= v
    BY <1>1, <2>1 DEF Vouched
  <2>3. backup[b].snap.own >= backup[b].start
    BY <2>1 DEF BackupInv, RunInv
  <2> QED BY <1>0, <2>1, <2>2, <2>3
<1>2. ASSUME NEW c \in Processes, Flying(c)'
      PROVE  \/ Flying(c) /\ backup'[c].start = backup[c].start /\ backup'[c].snap.n = backup[c].snap.n
             \/ backup'[c].start >= v
  <2>1. CASE c # b
    BY <1>0, <1>2, <2>1 DEF Flying
  <2>2. CASE c = b
    <3>1. backup'[c] = r
      BY <1>0, <2>2
    <3> QED BY <1>0, <1>2, <2>2, <3>1 DEF Flying
  <2> QED BY <2>1, <2>2
<1> QED BY <1>1, <1>2, VouchedKept

\* The same, when no snapshot is dropped.
LEMMA RunCovers ==
  ASSUME BackupBounds, BackupInv, snapshots \subseteq snapshots', cutShort => cutShort',
         \A v, n \in Nat : v <= own /\ Vouched(v, n) => Vouched(v, n)'
  PROVE  \A v \in Nat : v <= own /\ Covers(v) => Covers(v)'
  BY CoversKept DEF BackupInv

\* What LAST_BACKUP names now.
LEMMA LastStays ==
  ASSUME BackupBounds, BackupInv, lastBackup' = lastBackup
  PROVE  /\ lastBackup' \in 0..B!Never
         /\ lastBackup' # B!Never => \E v \in Nat : v = lastBackup' /\ v <= own /\ Covers(v)
<1>1. lastBackup \in Nat /\ lastBackup \in 0..B!Never
  BY BackupFacts DEF BackupInv, B!TypeOK
<1>2. lastBackup # B!Never => lastBackup <= own /\ Covers(lastBackup)
  BY DEF BackupInv
<1> QED BY <1>1, <1>2

\* A run that ends or goes back to the start promises nothing.
LEMMA RunEnds ==
  ASSUME BackupBounds, BackupInv, NEW b \in Processes, NEW r \in BackupRuns,
         r.at \in {"idle", "ready"}, r.start <= own, r.snap.mirror # "torn",
         backup' = [backup EXCEPT ![b] = r],
         UNCHANGED <<torn, lastPull, pullers, doubts, own, begun, cutShort>>, repo' \in BOOLEAN,
         snapshots' = snapshots \/ (/\ backup[b].at = "commit"
                                    /\ snapshots' = snapshots \cup
                                          {[backup[b].snap EXCEPT !.whole = FALSE]}),
         lastBackup' \in 0..B!Never,
         lastBackup' # B!Never => \E v \in Nat : v = lastBackup' /\ v <= own /\ Covers(v)
  PROVE  BackupInv'
<1>0. B!TypeOK /\ cutShort \in BOOLEAN /\ own \in Nat /\ begun \in 0..MaxSnapshots /\ begun \in Nat
      /\ backup \in [Processes -> BackupRuns] /\ snapshots \subseteq B!Snapshots
  BY BackupFacts DEF BackupInv, B!TypeOK
<1>s. /\ snapshots' \subseteq B!Snapshots /\ snapshots \subseteq snapshots'
      /\ \A t \in snapshots' :
            \/ t \in snapshots
            \/ /\ backup[b].at = "commit" /\ t.n = backup[b].snap.n
               /\ t.own = backup[b].snap.own /\ t.mirror = backup[b].snap.mirror
  <2> DEFINE q == [backup[b].snap EXCEPT !.whole = FALSE]
  <2>1. backup[b].snap \in B!Snapshots
    BY <1>0, BackupFacts
  <2>2. /\ q \in B!Snapshots /\ q.n = backup[b].snap.n /\ q.own = backup[b].snap.own
        /\ q.mirror = backup[b].snap.mirror
    BY <2>1 DEF B!Snapshots
  <2> QED BY <1>0, <2>2
<1>1. \A v, n \in Nat : v <= own /\ Vouched(v, n) => Vouched(v, n)'
  BY <1>s, RunVouches
<1>2. \A v \in Nat : v <= own /\ Covers(v) => Covers(v)'
  BY <1>1, <1>s, RunCovers
<1>3. RunInv(b)'
  <2>1. backup'[b] = r
    BY <1>0
  <2> QED BY <2>1 DEF RunInv, Flying
<1>4. \A s \in snapshots' : s.n <= begun' /\ s.mirror # "torn"
  BY <1>s DEF BackupInv, RunInv, Flying
<1>5. begun <= begun' /\ begun' \in 0..MaxSnapshots
  BY <1>0
<1> QED BY <1>0, <1>s, <1>1, <1>2, <1>3, <1>4, <1>5, RunStep

\* restic begins: as the newest snapshot, with what the gateway has now.
LEMMA BackupStart ==
  ASSUME BackupBounds, BackupInv, NEW b \in Processes, B!StartBackup(b)
  PROVE  BackupInv'
<1>0. /\ B!TypeOK /\ cutShort \in BOOLEAN /\ own \in Nat /\ own \in B!Versions /\ begun \in Nat
      /\ backup \in [Processes -> BackupRuns] /\ repo \in BOOLEAN /\ snapshots \subseteq B!Snapshots
      /\ MaxVersion \in Nat /\ MaxSnapshots \in Nat
  BY BackupFacts DEF BackupInv, B!TypeOK, BackupBounds
<1> DEFINE q == [n |-> begun + 1, own |-> 0, whole |-> TRUE,
                mirror |-> IF \E p \in Processes : pullers[p].at # "idle" THEN "none" ELSE "marked"]
           r == [at |-> "scan", start |-> own, snap |-> q]
<1>1. /\ begun < MaxSnapshots /\ begun' = begun + 1 /\ backup' = [backup EXCEPT ![b] = r]
      /\ UNCHANGED <<torn, lastPull, pullers, doubts, own, repo, snapshots, lastBackup, cutShort>>
  BY DEF B!StartBackup, B!mirror
<1>2. begun' \in 0..MaxSnapshots /\ begun <= begun' /\ begun' \in Nat
  BY <1>0, <1>1
<1>3. q \in B!Snapshots /\ q.n = begun + 1 /\ q.whole /\ q.mirror # "torn"
  BY <1>0, <1>1 DEF B!Snapshots, B!Versions, B!Mirrors
<1> HIDE DEF q
<1>4. r \in BackupRuns /\ r.at = "scan" /\ r.start = own /\ r.snap = q
  BY <1>0, <1>3 DEF BackupRuns
<1> HIDE DEF r
<1>5. \A v, n \in Nat : v <= own /\ Vouched(v, n) => Vouched(v, n)'
  BY <1>1, <1>4, RunVouches
<1>6. \A v \in Nat : v <= own /\ Covers(v) => Covers(v)'
  BY <1>1, <1>5, RunCovers
<1>7. backup'[b] = r /\ \A c \in Processes : c # b => backup'[c] = backup[c]
  BY <1>0, <1>1
<1>8. RunInv(b)'
  <2>1. \A t \in snapshots' : ~(t.n >= begun + 1)
    <3>1. \A t \in snapshots : t.n \in Nat /\ t.n <= begun
      BY <1>0, BackupFacts DEF BackupInv
    <3> QED BY <1>0, <1>1, <3>1
  <2>2. \A c \in Processes : Flying(c)' /\ backup'[c].snap.n >= begun + 1 => backup'[c].start >= own
    <3>1. \A c \in Processes : Flying(c) => backup[c].snap.n \in Nat /\ backup[c].snap.n <= begun
      BY <1>0, BackupFacts DEF BackupInv, RunInv
    <3>2. \A c \in Processes : c # b /\ Flying(c)' => ~(backup'[c].snap.n >= begun + 1)
      BY <1>0, <1>7, <3>1 DEF Flying
    <3> QED BY <1>0, <1>4, <1>7, <3>2
  <2>3. Vouched(backup[b].start, backup[b].snap.n)'
    BY <1>3, <1>4, <1>7, <2>1, <2>2 DEF Vouched
  <2> QED BY <1>0, <1>1, <1>2, <1>3, <1>4, <1>7, <2>3 DEF RunInv, Flying
<1>9. \A s \in snapshots' : s.n <= begun' /\ s.mirror # "torn"
  <2>1. \A t \in snapshots : t.n \in Nat /\ t.n <= begun /\ t.mirror # "torn"
    BY <1>0, BackupFacts DEF BackupInv
  <2> QED BY <1>0, <1>1, <2>1
<1> QED BY <1>0, <1>1, <1>2, <1>4, <1>5, <1>6, <1>8, <1>9, RunStep, LastStays

\* restic reads the tree.
LEMMA BackupScan ==
  ASSUME BackupBounds, BackupInv, NEW b \in Processes, B!Scan(b)
  PROVE  BackupInv'
<1>0. /\ B!TypeOK /\ cutShort \in BOOLEAN /\ own \in Nat /\ own \in B!Versions /\ begun \in Nat /\ begun \in 0..MaxSnapshots
      /\ backup \in [Processes -> BackupRuns] /\ repo \in BOOLEAN /\ snapshots \subseteq B!Snapshots
      /\ backup[b] \in BackupRuns /\ backup[b].snap \in B!Snapshots /\ backup[b].start \in Nat
      /\ backup[b].snap.n \in Nat
  BY BackupFacts DEF BackupInv, B!TypeOK, BackupBounds
<1> DEFINE m == IF backup[b].snap.mirror = "none" \/ ~lastPull \/ doubts
                THEN "none" ELSE IF torn = {} THEN "marked" ELSE "torn"
           q == [backup[b].snap EXCEPT !.own = own, !.mirror = m]
           r == [backup[b] EXCEPT !.at = "commit", !.snap = q]
<1>1. /\ backup[b].at = "scan"
      /\ UNCHANGED <<torn, lastPull, pullers, doubts, own, repo, snapshots, begun, lastBackup, cutShort>>
  BY DEF B!Scan, B!At, B!mirror
<1>2. backup' = [backup EXCEPT ![b] = r]
  BY <1>0 DEF B!Scan, BackupRuns, B!Snapshots
<1>3. m \in {"none", "marked"}
  BY DEF BackupInv, MirrorInv
<1> HIDE DEF m
<1>4. /\ q \in B!Snapshots /\ q.n = backup[b].snap.n /\ q.own = own /\ q.mirror = m
      /\ q.whole = backup[b].snap.whole
  BY <1>0, <1>3 DEF B!Snapshots, B!Mirrors
<1> HIDE DEF q
<1>5. r \in BackupRuns /\ r.at = "commit" /\ r.start = backup[b].start /\ r.snap = q
  BY <1>0, <1>4 DEF BackupRuns
<1> HIDE DEF r
<1>6. Flying(b) /\ RunInv(b)
  BY <1>1 DEF Flying, BackupInv
<1>7. \A v, n \in Nat : v <= own /\ Vouched(v, n) => Vouched(v, n)'
  BY <1>1, <1>2, <1>4, <1>5, <1>6, RunVouches
<1>8. \A v \in Nat : v <= own /\ Covers(v) => Covers(v)'
  BY <1>1, <1>7, RunCovers
<1>9. RunInv(b)'
  <2>1. backup'[b] = r
    BY <1>0, <1>2
  <2>v. PICK v \in Nat, n \in Nat : v = backup[b].start /\ n = backup[b].snap.n
    BY <1>0
  <2>2. v <= own /\ Vouched(v, n) /\ n <= begun /\ backup[b].snap.whole
    BY <1>0, <1>6, <2>v DEF RunInv
  <2>3. r.start = v /\ r.snap.n = n
    BY <1>4, <1>5, <2>v
  <2>4. Vouched(v, n)'
    BY <1>7, <2>2
  <2>5. Vouched(backup[b].start, backup[b].snap.n)'
    BY <2>1, <2>3, <2>4 DEF Vouched
  <2> QED BY <1>0, <1>1, <1>3, <1>4, <1>5, <2>1, <2>2, <2>3, <2>5 DEF RunInv, Flying
<1>10. \A s \in snapshots' : s.n <= begun' /\ s.mirror # "torn"
  BY <1>1 DEF BackupInv
<1>11. begun <= begun'
  BY <1>0, <1>1
<1> QED BY <1>0, <1>1, <1>2, <1>5, <1>7, <1>8, <1>9, <1>10, <1>11, RunStep, LastStays

\* restic saves the snapshot: what the run started with is covered.
LEMMA BackupCommit ==
  ASSUME BackupBounds, BackupInv, NEW b \in Processes, B!Commit(b)
  PROVE  BackupInv'
<1>0. /\ B!TypeOK /\ cutShort \in BOOLEAN /\ own \in Nat /\ begun \in Nat /\ begun \in 0..MaxSnapshots
      /\ backup \in [Processes -> BackupRuns] /\ repo \in BOOLEAN /\ snapshots \subseteq B!Snapshots
      /\ backup[b] \in BackupRuns /\ backup[b].snap \in B!Snapshots /\ backup[b].start \in Nat
      /\ backup[b].snap.n \in Nat
  BY BackupFacts DEF BackupInv, B!TypeOK, BackupBounds
<1>1. /\ backup[b].at = "commit"
      /\ UNCHANGED <<torn, lastPull, pullers, doubts, own, repo, begun, lastBackup, cutShort>>
  BY DEF B!Commit, B!At, B!mirror
<1>2. B!NoSnapshot \in B!Snapshots /\ B!NoSnapshot.mirror = "none"
  BY DEF B!NoSnapshot, B!Snapshots, B!Versions, B!Mirrors, BackupBounds
<1>3. CASE /\ snapshots' = snapshots \cup {backup[b].snap}
           /\ backup' = [backup EXCEPT ![b].at = "forget", ![b].snap = B!NoSnapshot]
  <2> DEFINE r == [backup[b] EXCEPT !.at = "forget", !.snap = B!NoSnapshot]
  <2>1. backup' = [backup EXCEPT ![b] = r]
    BY <1>0, <1>3
  <2>2. r \in BackupRuns /\ r.at = "forget" /\ r.start = backup[b].start /\ r.snap = B!NoSnapshot
    BY <1>0, <1>2 DEF BackupRuns
  <2> HIDE DEF r
  <2>3. \A v, n \in Nat : v <= own /\ Vouched(v, n) => Vouched(v, n)'
    BY <1>1, <1>3, <2>1, <2>2, RunVouches
  <2>4. \A v \in Nat : v <= own /\ Covers(v) => Covers(v)'
    BY <1>1, <1>3, <2>3, RunCovers
  <2>5. RunInv(b)'
    <3>1. backup'[b] = r
      BY <1>0, <2>1
    <3>v. PICK v \in Nat, n \in Nat : v = backup[b].start /\ n = backup[b].snap.n
      BY <1>0
    <3>2. v <= own /\ Vouched(v, n)
      BY <1>0, <1>1, <3>v DEF RunInv, Flying, BackupInv
    <3>3. r.start = v /\ backup[b].snap \in snapshots' /\ backup[b].snap.n = n
      BY <1>3, <2>2, <3>v
    <3>w. backup[b].snap.whole
      BY <1>1 DEF RunInv, Flying, BackupInv
    <3>4. Vouched(v, n)'
      BY <2>3, <3>2
    <3>5. \E s \in snapshots' : /\ s.whole \/ cutShort'
                                /\ \A t \in snapshots' : t.n >= s.n => t.own >= v
                                /\ \A c \in Processes : Flying(c)' /\ backup'[c].snap.n >= s.n
                                                      => backup'[c].start >= v
      BY <3>3, <3>4, <3>w DEF Vouched
    <3>6. Covers(backup[b].start)'
      BY <3>1, <3>3, <3>5 DEF Covers, Vouched
    <3> QED BY <1>1, <1>2, <2>2, <3>1, <3>2, <3>3, <3>6 DEF RunInv, Flying
  <2>6. \A s \in snapshots' : s.n <= begun' /\ s.mirror # "torn"
    <3>1. backup[b].snap.n <= begun /\ backup[b].snap.mirror # "torn"
      BY <1>1 DEF BackupInv, RunInv, Flying
    <3> QED BY <1>1, <1>3, <3>1 DEF BackupInv
  <2>7. begun <= begun' /\ snapshots' \subseteq B!Snapshots
    BY <1>0, <1>1, <1>3
  <2> QED BY <1>0, <1>1, <2>1, <2>2, <2>3, <2>4, <2>5, <2>6, <2>7, RunStep, LastStays
<1>4. CASE backup' = [backup EXCEPT ![b] = B!Idle] /\ UNCHANGED snapshots
  <2>1. B!Idle \in BackupRuns /\ B!Idle.at = "idle" /\ B!Idle.start = 0 /\ B!Idle.snap = B!NoSnapshot
    BY <1>2 DEF B!Idle, BackupRuns, B!Versions, BackupBounds
  <2>2. B!Idle.start <= own
    BY <1>0, <2>1
  <2> QED BY <1>0, <1>1, <1>2, <1>4, <2>1, <2>2, RunEnds, LastStays
<1> QED BY <1>3, <1>4 DEF B!Commit

\* restic forget thins out the snapshots and keeps the one begun last.
LEMMA BackupForget ==
  ASSUME BackupBounds, BackupInv, NEW b \in Processes, B!runResticForget(b)
  PROVE  BackupInv'
<1>0. /\ B!TypeOK /\ cutShort \in BOOLEAN /\ own \in Nat /\ begun \in Nat /\ begun \in 0..MaxSnapshots
      /\ backup \in [Processes -> BackupRuns] /\ repo \in BOOLEAN /\ snapshots \subseteq B!Snapshots
      /\ backup[b] \in BackupRuns /\ backup[b].snap \in B!Snapshots /\ backup[b].start \in Nat
  BY BackupFacts DEF BackupInv, B!TypeOK, BackupBounds
<1>1. /\ backup[b].at = "forget" /\ backup' = [backup EXCEPT ![b].at = "mark"]
      /\ \/ UNCHANGED <<snapshots, cutShort>>
         \/ \E s \in snapshots : /\ \A t \in snapshots : t.n <= s.n
                                 /\ snapshots' = {s} /\ cutShort' = ~s.whole
      /\ UNCHANGED <<torn, lastPull, pullers, doubts, own, repo, begun, lastBackup>>
  BY DEF B!runResticForget, B!At, B!mirror
<1> DEFINE r == [backup[b] EXCEPT !.at = "mark"]
<1>2. backup' = [backup EXCEPT ![b] = r]
  BY <1>0, <1>1
<1>3. r \in BackupRuns /\ r.at = "mark" /\ r.start = backup[b].start /\ r.snap = backup[b].snap
  BY <1>0 DEF BackupRuns
<1> HIDE DEF r
<1>4. snapshots' \subseteq snapshots /\ snapshots' \subseteq B!Snapshots
  BY <1>0, <1>1
<1>5. \A v, n \in Nat : v <= own /\ Vouched(v, n) => Vouched(v, n)'
  BY <1>2, <1>3, <1>4, RunVouches
<1>6. ASSUME NEW v \in Nat, v <= own, Covers(v) PROVE Covers(v)'
  <2>1. CASE UNCHANGED <<snapshots, cutShort>>
    BY <1>5, <1>6, <2>1, <1>0, CoversKept
  <2>2. ASSUME NEW m \in snapshots, \A t \in snapshots : t.n <= m.n,
               snapshots' = {m}, cutShort' = ~m.whole
        PROVE  Covers(v)'
    <3>1. PICK s \in snapshots : Vouched(v, s.n)
      BY <1>6 DEF Covers
    <3>3. m \in snapshots' /\ s.n <= m.n /\ s.n \in Nat /\ m.n \in Nat
      BY <1>0, <2>2, <3>1, BackupFacts
    <3>4. Vouched(v, m.n)
      <4>1. \A t \in snapshots : t.n \in Nat /\ (t.n >= m.n => t.n >= s.n)
        BY <1>0, <3>3, BackupFacts
      <4>2. \A c \in Processes : backup[c].snap.n \in Nat
                            /\ (backup[c].snap.n >= m.n => backup[c].snap.n >= s.n)
        BY <1>0, <3>3, BackupFacts
      <4> QED BY <3>1, <4>1, <4>2 DEF Vouched
    <3> QED BY <1>5, <1>6, <2>2, <3>3, <3>4 DEF Covers
  <2> QED BY <1>1, <2>1, <2>2
<1>7. RunInv(b)'
  <2>1. backup'[b] = r
    BY <1>0, <1>2
  <2>2. RunInv(b)
    BY DEF BackupInv
  <2>v. PICK v \in Nat : v = backup[b].start
    BY <1>0
  <2>3. v <= own /\ Covers(v)
    BY <1>0, <1>1, <2>2, <2>v DEF RunInv
  <2>4. r.start = v
    BY <1>3, <2>v
  <2>5. \E s \in snapshots' : /\ s.whole \/ cutShort'
                              /\ \A t \in snapshots' : t.n >= s.n => t.own >= v
                              /\ \A c \in Processes : Flying(c)' /\ backup'[c].snap.n >= s.n
                                                    => backup'[c].start >= v
    BY <1>6, <2>3 DEF Covers, Vouched
  <2>6. Covers(backup[b].start)'
    BY <2>1, <2>4, <2>5 DEF Covers, Vouched
  <2> QED BY <1>1, <1>3, <2>1, <2>2, <2>3, <2>4, <2>6 DEF RunInv, Flying
<1>8. \A s \in snapshots' : s.n <= begun' /\ s.mirror # "torn"
  BY <1>1, <1>4 DEF BackupInv
<1>9. begun <= begun'
  BY <1>0, <1>1
<1> QED BY <1>0, <1>1, <1>2, <1>3, <1>4, <1>5, <1>6, <1>7, <1>8, <1>9, RunStep, LastStays

\* Every step of the backups and of the gateway keeps what the markers say.
LEMMA BackupNext ==
  ASSUME BackupBounds, BackupInv, [B!Next]_(B!vars)
  PROVE  BackupInv'
<1>0. /\ B!TypeOK /\ cutShort \in BOOLEAN /\ own \in Nat /\ begun \in Nat /\ repo \in BOOLEAN
      /\ backup \in [Processes -> BackupRuns] /\ MaxVersion \in Nat
  BY BackupFacts DEF BackupInv, B!TypeOK, BackupBounds
<1>i. /\ B!Idle \in BackupRuns /\ B!Idle.at = "idle" /\ B!Idle.start <= own
      /\ B!Idle.snap.mirror # "torn"
  BY <1>0 DEF B!Idle, BackupRuns, B!Versions, BackupBounds, B!NoSnapshot, B!Snapshots, B!Mirrors
<1>1. ASSUME own' \in B!Versions, own <= own', UNCHANGED <<torn, lastPull, pullers, doubts, repo, snapshots,
                                                    begun, backup, lastBackup, cutShort>>
      PROVE  BackupInv'
  <2>1. B!TypeOK' /\ MirrorInv' /\ own' \in Nat
    BY <1>0, <1>1 DEF B!TypeOK, BackupInv, MirrorInv, Pulling, B!Versions
  <2>2. \A v, n : Vouched(v, n) => Vouched(v, n)'
    BY <1>1 DEF Vouched, Flying
  <2>3. \A v : Covers(v) => Covers(v)'
    BY <1>1, <2>2 DEF Covers
  <2>4. begun' \in Nat /\ begun <= begun'
    BY <1>0, <1>1
  <2>5. \A b \in Processes : RunInv(b)'
    BY <1>0, <1>1, <2>1, <2>2, <2>3, <2>4, RunKept DEF BackupInv
  <2>6. lastBackup' # B!Never => lastBackup' <= own' /\ Covers(lastBackup)'
    <3>1. lastBackup \in Nat /\ (lastBackup # B!Never => lastBackup <= own /\ Covers(lastBackup))
      BY <1>0, BackupFacts DEF BackupInv
    <3>2. PICK v : v = lastBackup
      OBVIOUS
    <3>3. v = lastBackup' /\ (lastBackup # B!Never => Covers(v)')
      BY <1>1, <2>3, <3>1, <3>2
    <3> QED BY <1>0, <1>1, <2>1, <3>1, <3>3, LastKept
  <2> QED BY <1>1, <2>1, <2>5, <2>6 DEF BackupInv
<1>2. CASE B!Change
  <2>1. /\ own < MaxVersion /\ own' = own + 1
        /\ UNCHANGED <<torn, lastPull, pullers, doubts, repo, snapshots, begun, backup, lastBackup, cutShort>>
    BY <1>2 DEF B!Change, B!mirror
  <2>2. own' \in B!Versions /\ own <= own'
    BY <1>0, <2>1 DEF B!Versions
  <2> QED BY <1>1, <2>1, <2>2
<1>3. ASSUME NEW b \in Processes, B!ensureResticRepo(b) PROVE BackupInv'
  <2>1. /\ repo' = TRUE /\ backup' = [backup EXCEPT ![b].at = "ready"]
        /\ UNCHANGED <<torn, lastPull, pullers, doubts, own, snapshots, begun, lastBackup, cutShort>>
    BY <1>3 DEF B!ensureResticRepo, B!mirror
  <2> DEFINE r == [backup[b] EXCEPT !.at = "ready"]
  <2>2. backup[b] \in BackupRuns /\ backup' = [backup EXCEPT ![b] = r]
    BY <1>0, <2>1
  <2>3. r \in BackupRuns /\ r.at = "ready" /\ r.start = backup[b].start /\ r.snap = backup[b].snap
    BY <2>2 DEF BackupRuns
  <2> HIDE DEF r
  <2>4. r.start <= own /\ r.snap.mirror # "torn"
    BY <2>3 DEF BackupInv, RunInv
  <2> QED BY <2>1, <2>2, <2>3, <2>4, RunEnds, LastStays
<1>4. ASSUME NEW b \in Processes, B!writeLastBackupMarker(b) PROVE BackupInv'
  <2>1. /\ backup[b].at = "mark" /\ lastBackup' \in {lastBackup, backup[b].start}
        /\ backup' = [backup EXCEPT ![b] = B!Idle]
        /\ UNCHANGED <<torn, lastPull, pullers, doubts, own, repo, snapshots, begun, cutShort>>
    BY <1>4 DEF B!writeLastBackupMarker, B!At, B!mirror
  <2>2. CASE lastBackup' = lastBackup
    BY <1>0, <1>i, <2>1, <2>2, RunEnds, LastStays
  <2>3. CASE lastBackup' = backup[b].start
    <3>1. backup[b].start \in Nat /\ backup[b].start <= own /\ Covers(backup[b].start)
      BY <1>0, <2>1, BackupFacts DEF BackupInv, RunInv
    <3>2. lastBackup' \in 0..B!Never
      <4>1. backup[b].start \in 0..MaxVersion
        BY <1>0 DEF BackupRuns, B!Versions
      <4> QED BY <1>0, <2>3, <4>1 DEF B!Never
    <3>3. \E v \in Nat : v = lastBackup' /\ v <= own /\ Covers(v)
      BY <2>3, <3>1
    <3> QED BY <1>0, <1>i, <2>1, <3>2, <3>3, RunEnds
  <2> QED BY <2>1, <2>2, <2>3
<1>5. ASSUME NEW b \in Processes, B!BackupFails(b) PROVE BackupInv'
  <2>1. /\ backup' = [backup EXCEPT ![b] = B!Idle]
        /\ UNCHANGED <<torn, lastPull, pullers, doubts, own, repo, begun, lastBackup, cutShort>>
        /\ snapshots' = snapshots \/ (/\ backup[b].at = "commit"
                                      /\ snapshots' = snapshots \cup
                                            {[backup[b].snap EXCEPT !.whole = FALSE]})
    BY <1>5 DEF B!BackupFails, B!mirror, B!At
  <2> QED BY <1>0, <1>i, <2>1, RunEnds, LastStays
<1>6. CASE UNCHANGED B!vars
  <2>1. /\ UNCHANGED <<torn, lastPull, pullers, doubts, repo, snapshots, begun, backup, lastBackup, cutShort>>
        /\ own' \in B!Versions /\ own <= own'
    BY <1>0, <1>6 DEF B!vars, B!TypeOK
  <2> QED BY <1>1, <2>1
<1> QED BY <1>2, <1>3, <1>4, <1>5, <1>6, BackupPull, BackupStart, BackupScan, BackupCommit,
           BackupForget DEF B!Next

\* The subsystem by itself.
LEMMA BackupsAlone == B!Spec => [](B!BackupCovers /\ B!MarkedMirrorIsWhole)
<1>0. BackupBounds
  BY OperationsAssumption DEF BackupBounds
<1> USE <1>0
<1>1. B!Init => BackupInv
  <2> SUFFICES ASSUME B!Init PROVE BackupInv
    OBVIOUS
  <2>0. NumFiles \in Nat /\ MaxVersion \in Nat /\ MaxSnapshots \in Nat
    BY DEF BackupBounds
  <2>1. /\ B!Idle \in BackupRuns /\ B!Idle.at = "idle" /\ B!Idle.start = 0
        /\ B!Idle.snap.mirror # "torn"
    BY <2>0 DEF B!Idle, BackupRuns, B!Versions, B!NoSnapshot, B!Snapshots, B!Mirrors
  <2>2. backup \in [Processes -> BackupRuns] /\ \A b \in Processes : backup[b] = B!Idle
    BY <2>1 DEF B!Init
  <2>3. /\ own = 0 /\ torn = {} /\ lastPull = FALSE /\ snapshots = {} /\ begun = 0
        /\ lastBackup = B!Never /\ repo = FALSE /\ cutShort = FALSE
        /\ pullers = [p \in Processes |-> B!NoPull] /\ doubts = FALSE
    BY DEF B!Init
  <2>n. /\ B!Never \in Nat /\ 0 \in B!Versions /\ B!NoPull \in Pulled
        /\ 0 \in 0..MaxSnapshots /\ B!Never \in 0..B!Never
    BY <2>0 DEF B!Never, B!Versions, B!NoPull, Pulled, B!Files, BackupBounds
  <2>4. B!TypeOK
    BY <2>2, <2>3, <2>n DEF B!TypeOK, BackupRuns, Pulled
  <2>5. \A b \in Processes : RunInv(b)
    <3> TAKE b \in Processes
    <3>1. backup[b].at = "idle" /\ backup[b].start = 0 /\ backup[b].snap.mirror # "torn"
      BY <2>1, <2>2
    <3> QED BY <2>3, <3>1 DEF RunInv, Flying
  <2>6. MirrorInv
    BY <2>3 DEF MirrorInv, Pulling, B!NoPull
  <2> QED BY <2>3, <2>4, <2>5, <2>6 DEF BackupInv
<1>2. BackupInv /\ [B!Next]_(B!vars) => BackupInv'
  BY BackupNext
<1>3. BackupInv => B!BackupCovers /\ B!MarkedMirrorIsWhole
  <2> SUFFICES ASSUME BackupInv PROVE B!BackupCovers /\ B!MarkedMirrorIsWhole
    OBVIOUS
  <2>1. B!MarkedMirrorIsWhole
    BY DEF BackupInv, MirrorInv, B!MarkedMirrorIsWhole
  <2>2. ASSUME lastBackup # B!Never 
        PROVE  \E s \in snapshots : s.own >= lastBackup /\ (s.whole \/ cutShort)
    <3>1. PICK s \in snapshots : Vouched(lastBackup, s.n) /\ (s.whole \/ cutShort)
      BY <2>2 DEF BackupInv, Covers
    <3>2. s.n \in Nat
      BY BackupFacts DEF BackupInv
    <3> QED BY <3>1, <3>2 DEF Vouched
  <2> QED BY <2>1, <2>2 DEF B!BackupCovers
<1> QED BY <1>1, <1>2, <1>3, PTL DEF B!Spec

\* For any runs, files, changes and snapshots: the repository holds everything
\* the gateway had at the time LAST_BACKUP gives, although runs overlap and each
\* thins out the snapshots of the others (what an incomplete snapshot could not
\* read apart, once it is kept in place of them); and, while pulls do not overlap
\* and no I/O error keeps the marker, a mirror that carries .LAST_PULL is whole, in
\* the gateway's tree and in every complete snapshot no pull overlapped.
THEOREM BackupsVouch == Spec => []MarkersVouch
<1>1. Init /\ which = "backups" => B!Init
  BY DEF Init
<1>2. [Next]_vars /\ which = "backups" => [B!Next]_(B!vars)
  BY DEF Next, vars, B!vars
<1>3. [Next]_vars => (which = "backups" <=> (which = "backups")')
  BY OneSubsystem
<1> QED
  BY <1>1, <1>2, <1>3, BackupsAlone, PTL DEF Spec, B!Spec, MarkersVouch

HIDE DEF own, torn, lastPull, pullers, repo, snapshots, begun, backup, lastBackup, doubts, cutShort

-----------------------------------------------------------------------------
(* The publisher: a reader of the published file never goes back.          *)

\* The variables of Publisher.
out == x1
outTmp == x2
cloud == x3
latePuts == x4
built == x5
turn == x6
turnFailures == x7
together == x8
handlerSnap == x9
heldSnaps == x10

USE DEF out, outTmp, cloud, latePuts, built, turn, turnFailures, together,
        handlerSnap, heldSnaps

Turns == [at : {"idle", "open", "write", "sync", "rename", "put"},
          snap : U!Snapshots, fd : {"none", "tmp", "out", "unlinked"}]

\* What a publisher at work knows of the files while the other one is idle: its
\* snapshot is no older than the published one or the one its handler keeps,
\* <out>.tmp is its own from the moment it opened it, and once renamed its
\* snapshot is the published one.
TurnInv(p) ==
    /\ ~U!At(p, "idle") => /\ turn[p].snap <= built
                           /\ out <= turn[p].snap \/ (p = "loop" /\ turn[p].snap = handlerSnap)
    /\ U!At(p, "write") => turn[p].fd = "tmp"
    /\ turn[p].at \in {"sync", "rename"} => outTmp = turn[p].snap
    /\ U!At(p, "put") => out = turn[p].snap

\* The inductive invariant.  Nothing is claimed once both were at work together.
PublisherInv ==
    /\ U!TypeOK
    /\ ~together =>
          /\ \A p, q \in U!Publishers : p = q \/ U!At(p, "idle") \/ U!At(q, "idle")
          /\ out # U!Partial /\ out <= built /\ handlerSnap <= built
          /\ out \in heldSnaps /\ cloud \in heldSnaps /\ latePuts \subseteq heldSnaps
          /\ \A p \in U!Publishers : TurnInv(p)

LEMMA PublisherFacts ==
  ASSUME MaxPublished \in Nat, U!TypeOK
  PROVE  /\ turn \in [U!Publishers -> Turns]
         /\ U!Snapshots \subseteq Nat /\ U!Partial \in Nat /\ U!Partial \notin U!Snapshots
         /\ out \in Nat /\ outTmp \in Nat /\ cloud \in Nat /\ built \in Nat /\ latePuts \subseteq Nat
         /\ handlerSnap \in Nat
         /\ \A p \in U!Publishers : turn[p] \in Turns /\ turn[p].snap \in U!Snapshots
         /\ U!Idle \in Turns /\ U!Idle.at = "idle"
  BY DEF U!TypeOK, Turns, U!Snapshots, U!Partial, U!Idle

\* A turn that ends, for whatever reason, leaves the files as they are.
LEMMA TurnEnds ==
  ASSUME MaxPublished \in Nat, PublisherInv, NEW p \in U!Publishers,
         turn' = [turn EXCEPT ![p] = U!Idle],
         turnFailures' \in 0..MaxPublished, built' \in U!Snapshots, built <= built',
         handlerSnap' \in U!Snapshots, handlerSnap <= built => handlerSnap' <= built',
         p = "loop" \/ handlerSnap' = handlerSnap,
         heldSnaps' \in {heldSnaps, heldSnaps \cup {out}},
         UNCHANGED <<out, outTmp, cloud, latePuts, together>>
  PROVE  PublisherInv' /\ U!ReadersGoForward
<1>0. /\ U!TypeOK /\ out \in Nat /\ built \in Nat /\ built' \in Nat
      /\ out \in U!Snapshots \cup {U!Partial} /\ heldSnaps \subseteq U!Snapshots \cup {U!Partial}
  BY PublisherFacts DEF PublisherInv, U!Snapshots, U!TypeOK
<1>1. turn' \in [U!Publishers -> Turns] /\ turn'[p] = U!Idle
      /\ \A q \in U!Publishers : q # p => turn'[q] = turn[q]
  BY <1>0, PublisherFacts
<1>2. U!TypeOK'
  BY <1>0, <1>1 DEF U!TypeOK, Turns
<1>3. ASSUME NEW q \in U!Publishers, ~together PROVE TurnInv(q)'
  <2>1. TurnInv(q)
    BY <1>3 DEF PublisherInv
  <2>2. CASE q = p
    BY <1>1, <2>2 DEF TurnInv, U!At, U!Idle
  <2>3. CASE q # p
    <3>s. turn[q].snap \in U!Snapshots /\ U!Snapshots \subseteq Nat
      BY <1>0, PublisherFacts
    <3>1. turn'[q] = turn[q] /\ turn[q].snap \in Nat /\ (q = "loop" => handlerSnap' = handlerSnap)
      BY <1>1, <2>3, <3>s
    <3> QED BY <1>0, <2>1, <3>1 DEF TurnInv, U!At
  <2> QED BY <2>2, <2>3
<1> QED BY <1>0, <1>1, <1>2, <1>3 DEF PublisherInv, U!At, U!Idle, U!ReadersGoForward

\* A publisher begins a turn with a snapshot newer than any, or the loop with the
\* one its handler keeps.
LEMMA TurnBegins ==
  ASSUME MaxPublished \in Nat, PublisherInv, NEW p \in U!Publishers, NEW snap \in U!Snapshots,
         U!At(p, "idle"), U!Begin(p, snap), built' \in U!Snapshots, built <= built',
         handlerSnap' \in U!Snapshots, snap <= built', handlerSnap <= built => handlerSnap' <= built',
         (snap = built') \/ (p = "loop" /\ snap = handlerSnap'),
         p = "loop" \/ handlerSnap' = handlerSnap,
         UNCHANGED <<out, outTmp, cloud, latePuts, heldSnaps>>
  PROVE  PublisherInv' /\ U!ReadersGoForward
<1>0. /\ U!TypeOK /\ out \in Nat /\ built \in Nat /\ snap \in Nat /\ built' \in Nat
      /\ handlerSnap' \in Nat
  BY PublisherFacts DEF PublisherInv
<1> DEFINE r == [at |-> "open", snap |-> snap, fd |-> "none"]
<1>1. r \in Turns /\ r.at = "open" /\ r.snap = snap
  BY DEF Turns
<1>2. /\ turn' = [turn EXCEPT ![p] = r] /\ UNCHANGED turnFailures
      /\ together' = (together \/ \E q \in U!Publishers \ {p} : ~U!At(q, "idle"))
  BY DEF U!Begin
<1> HIDE DEF r
<1>3. turn' \in [U!Publishers -> Turns] /\ turn'[p] = r
      /\ \A q \in U!Publishers : q # p => turn'[q] = turn[q]
  BY <1>0, <1>1, <1>2, PublisherFacts
<1>4. U!TypeOK'
  BY <1>0, <1>2, <1>3 DEF U!TypeOK, Turns
<1>t. ASSUME ~together'
      PROVE  ~together /\ \A q \in U!Publishers : q # p => turn[q].at = "idle"
  BY <1>2, <1>t DEF U!At
<1>5. ASSUME ~together', NEW q \in U!Publishers PROVE TurnInv(q)'
  <2>1. out <= built'
    BY <1>0, <1>5, <1>t DEF PublisherInv
  <2>2. CASE q = p
    BY <1>0, <1>1, <1>3, <2>1, <2>2 DEF TurnInv, U!At
  <2>3. CASE q # p
    BY <1>3, <1>5, <1>t, <2>3 DEF TurnInv, U!At
  <2> QED BY <2>2, <2>3
<1>6. ASSUME ~together'
      PROVE  /\ out' # U!Partial /\ out' <= built' /\ handlerSnap' <= built'
             /\ out' \in heldSnaps' /\ cloud' \in heldSnaps' /\ latePuts' \subseteq heldSnaps'
  BY <1>0, <1>6, <1>t DEF PublisherInv
<1>7. ASSUME ~together', NEW q \in U!Publishers, NEW s \in U!Publishers
      PROVE  q = s \/ turn'[q].at = "idle" \/ turn'[s].at = "idle"
  BY <1>3, <1>7, <1>t
<1> QED BY <1>0, <1>4, <1>5, <1>6, <1>7 DEF PublisherInv, U!At, U!ReadersGoForward

LEMMA PublisherBuild ==
  ASSUME MaxPublished \in Nat, PublisherInv, NEW p \in U!Publishers,
         U!Build(p) \/ (p = "loop" /\ U!FromCache)
  PROVE  PublisherInv' /\ U!ReadersGoForward
<1>0. /\ U!TypeOK /\ out \in Nat /\ built \in Nat /\ built \in U!Snapshots
      /\ handlerSnap \in U!Snapshots /\ handlerSnap \in Nat
  BY PublisherFacts DEF PublisherInv, U!TypeOK
<1>1. CASE p = "loop" /\ U!FromCache
  <2>1. /\ U!At(p, "idle") /\ U!Begin(p, handlerSnap)
        /\ UNCHANGED <<out, outTmp, cloud, latePuts, built, handlerSnap, heldSnaps>>
    BY <1>1 DEF U!FromCache
  <2>2. CASE handlerSnap <= built
    BY <1>0, <1>1, <2>1, <2>2, TurnBegins
  <2>3. CASE ~(handlerSnap <= built)
    <3>1. together /\ together'
      BY <2>1, <2>3 DEF PublisherInv, U!Begin
    <3>2. U!TypeOK'
      <4> DEFINE r == [at |-> "open", snap |-> handlerSnap, fd |-> "none"]
      <4>1. r \in Turns
        BY <1>0 DEF Turns
      <4>2. turn' = [turn EXCEPT ![p] = r] /\ UNCHANGED turnFailures /\ together' \in BOOLEAN
        BY <2>1, <3>1 DEF U!Begin
      <4> HIDE DEF r
      <4> QED BY <1>0, <2>1, <4>1, <4>2, PublisherFacts DEF U!TypeOK, Turns
    <3> QED BY <3>1, <3>2 DEF PublisherInv, U!ReadersGoForward
  <2> QED BY <2>2, <2>3
<1>2. CASE U!Build(p)
  <2>1. /\ U!At(p, "idle") /\ built' = built + 1 /\ built' \in U!Snapshots /\ built' \in Nat
        /\ UNCHANGED <<out, outTmp, cloud, latePuts, heldSnaps>>
    BY <1>0, <1>2 DEF U!Build, U!Snapshots
  <2>2. CASE U!Begin(p, built + 1) /\ handlerSnap' = IF p = "loop" THEN built + 1 ELSE handlerSnap
    <3>1. /\ handlerSnap' \in U!Snapshots /\ (handlerSnap <= built => handlerSnap' <= built')
          /\ (p = "loop" \/ handlerSnap' = handlerSnap)
      BY <1>0, <2>1, <2>2
    <3> QED BY <1>0, <2>1, <2>2, <3>1, TurnBegins
  <2>3. CASE U!Fail(p) /\ UNCHANGED <<handlerSnap, together>>
    <3>1. turnFailures' \in 0..MaxPublished
      BY <1>0, <2>3 DEF U!Fail, U!TypeOK
    <3>2. turn' = [turn EXCEPT ![p] = U!Idle] /\ built <= built'
      BY <1>0, <2>1, <2>3 DEF U!Fail, U!End
    <3>3. handlerSnap <= built => handlerSnap' <= built'
      BY <1>0, <2>1, <2>3
    <3> QED BY <1>0, <2>1, <2>3, <3>1, <3>2, <3>3, TurnEnds
  <2> QED BY <1>2, <2>2, <2>3 DEF U!Build
<1> QED BY <1>1, <1>2

\* A publisher goes on with its turn and changes only <out>.tmp.
LEMMA TurnGoesOn ==
  ASSUME MaxPublished \in Nat, PublisherInv, NEW p \in U!Publishers, ~U!At(p, "idle"),
         NEW r \in Turns, turn' = [turn EXCEPT ![p] = r], r.snap = turn[p].snap,
         r.at \in {"write", "sync", "rename"}, r.at = "write" => r.fd = "tmp",
         outTmp' \in U!Snapshots \cup {U!Partial},
         ~together /\ r.at \in {"sync", "rename"} => outTmp' = r.snap,
         ~together => UNCHANGED out, out' \in U!Snapshots \cup {U!Partial},
         heldSnaps' \in {heldSnaps, heldSnaps \cup {out'}},
         UNCHANGED <<cloud, latePuts, built, turnFailures, together, handlerSnap>>
  PROVE  PublisherInv' /\ U!ReadersGoForward
<1>0. U!TypeOK /\ out \in Nat
  BY PublisherFacts DEF PublisherInv
<1>1. turn' \in [U!Publishers -> Turns] /\ turn'[p] = r
      /\ \A q \in U!Publishers : q # p => turn'[q] = turn[q]
  BY <1>0, PublisherFacts
<1>2. U!TypeOK'
  BY <1>0, <1>1 DEF U!TypeOK, Turns
<1>3. ASSUME NEW q \in U!Publishers, ~together PROVE TurnInv(q)'
  BY <1>1, <1>3 DEF PublisherInv, TurnInv, U!At
<1> QED BY <1>0, <1>1, <1>2, <1>3 DEF PublisherInv, U!At, U!ReadersGoForward

LEMMA PublisherWrites ==
  ASSUME MaxPublished \in Nat, PublisherInv, NEW p \in U!Publishers,
         U!OpenTmp(p) \/ U!WriteTmp(p) \/ U!SyncTmp(p)
  PROVE  PublisherInv' /\ U!ReadersGoForward
<1>0. /\ U!TypeOK /\ out \in Nat /\ built \in Nat /\ turn \in [U!Publishers -> Turns] /\ turn[p] \in Turns
      /\ built \in U!Snapshots /\ turnFailures \in 0..MaxPublished
      /\ out \in U!Snapshots \cup {U!Partial} /\ outTmp \in U!Snapshots \cup {U!Partial}
      /\ turn[p].snap \in U!Snapshots /\ handlerSnap \in U!Snapshots
  BY PublisherFacts DEF PublisherInv, U!TypeOK
<1>f. ASSUME U!Fail(p), UNCHANGED <<out, outTmp, cloud, latePuts, built, handlerSnap, together>>,
             heldSnaps' \in {heldSnaps, heldSnaps \cup {out}}
      PROVE  PublisherInv' /\ U!ReadersGoForward
  <2>1. turnFailures' \in 0..MaxPublished
    BY <1>0, <1>f DEF U!Fail
  <2>2. /\ turn' = [turn EXCEPT ![p] = U!Idle] /\ built' \in U!Snapshots /\ built <= built'
        /\ handlerSnap' \in U!Snapshots /\ (handlerSnap <= built => handlerSnap' <= built')
    BY <1>0, <1>f DEF U!Fail, U!End
  <2> QED BY <1>f, <2>1, <2>2, TurnEnds
<1>1. CASE U!OpenTmp(p)
  <2>1. CASE outTmp' = U!Partial /\ turn' = [turn EXCEPT ![p].at = "write", ![p].fd = "tmp"]
             /\ UNCHANGED turnFailures
    <3> DEFINE r == [turn[p] EXCEPT !.at = "write", !.fd = "tmp"]
    <3>1. turn' = [turn EXCEPT ![p] = r]
      BY <1>0, <2>1
    <3>2. r \in Turns /\ r.at = "write" /\ r.fd = "tmp" /\ r.snap = turn[p].snap
      BY <1>0 DEF Turns
    <3>3. ~U!At(p, "idle") /\ UNCHANGED <<out, cloud, latePuts, built, handlerSnap, heldSnaps, together>>
      BY <1>1 DEF U!OpenTmp, U!At
    <3> HIDE DEF r
    <3> QED BY <1>0, <2>1, <3>1, <3>2, <3>3, TurnGoesOn
  <2> QED BY <1>1, <1>f, <2>1 DEF U!OpenTmp
<1>2. CASE U!WriteTmp(p)
  <2>1. CASE /\ outTmp' = IF turn[p].fd = "tmp" THEN turn[p].snap ELSE outTmp
             /\ out' = IF turn[p].fd = "out" THEN turn[p].snap ELSE out
             /\ U!Goto(p, "sync") /\ UNCHANGED turnFailures
    <3> DEFINE r == [turn[p] EXCEPT !.at = "sync"]
    <3>1. turn' = [turn EXCEPT ![p] = r]
      BY <1>0, <2>1 DEF U!Goto
    <3>2. r \in Turns /\ r.at = "sync" /\ r.snap = turn[p].snap
      BY <1>0 DEF Turns
    <3>3. /\ ~U!At(p, "idle") /\ UNCHANGED <<cloud, latePuts, built, handlerSnap, together>>
          /\ turn[p].at = "write" /\ heldSnaps' = heldSnaps \cup {out'}
      BY <1>2 DEF U!WriteTmp, U!At
    <3>4. ~together => turn[p].fd = "tmp"
      BY <3>3 DEF PublisherInv, TurnInv, U!At
    <3>5. /\ outTmp' \in U!Snapshots \cup {U!Partial} /\ out' \in U!Snapshots \cup {U!Partial}
          /\ ~together => UNCHANGED out /\ outTmp' = r.snap
      BY <1>0, <2>1, <3>2, <3>4
    <3> HIDE DEF r
    <3> QED BY <1>0, <2>1, <3>1, <3>2, <3>3, <3>5, TurnGoesOn
  <2> QED BY <1>2, <1>f, <2>1 DEF U!WriteTmp
<1>3. CASE U!SyncTmp(p)
  <2>1. CASE U!Goto(p, "rename") /\ UNCHANGED turnFailures
    <3> DEFINE r == [turn[p] EXCEPT !.at = "rename"]
    <3>1. turn' = [turn EXCEPT ![p] = r]
      BY <1>0, <2>1 DEF U!Goto
    <3>2. r \in Turns /\ r.at = "rename" /\ r.snap = turn[p].snap
      BY <1>0 DEF Turns
    <3>3. /\ ~U!At(p, "idle") /\ UNCHANGED <<out, outTmp, cloud, latePuts, built, handlerSnap, heldSnaps, together>>
          /\ turn[p].at = "sync"
      BY <1>3 DEF U!SyncTmp, U!At
    <3>4. ~together => outTmp' = r.snap
      BY <3>2, <3>3 DEF PublisherInv, TurnInv, U!At
    <3> HIDE DEF r
    <3> QED BY <1>0, <2>1, <3>1, <3>2, <3>3, <3>4, TurnGoesOn
  <2> QED BY <1>3, <1>f, <2>1 DEF U!SyncTmp
<1> QED BY <1>1, <1>2, <1>3

\* The rename publishes the snapshot the publisher has written, if it was alone.
LEMMA PublisherRename ==
  ASSUME MaxPublished \in Nat, PublisherInv, NEW p \in U!Publishers, U!Rename(p)
  PROVE  PublisherInv' /\ U!ReadersGoForward
<1>0. /\ U!TypeOK /\ out \in Nat /\ outTmp \in Nat /\ built \in Nat /\ turn \in [U!Publishers -> Turns]
      /\ built \in U!Snapshots /\ turnFailures \in 0..MaxPublished /\ cloud \in Nat /\ latePuts \subseteq Nat
      /\ handlerSnap \in U!Snapshots /\ handlerSnap \in Nat
      /\ out \in U!Snapshots \cup {U!Partial} /\ outTmp \in U!Snapshots \cup {U!Partial}
      /\ turn[p].snap \in U!Snapshots /\ turn[p].snap \in Nat
  BY PublisherFacts DEF PublisherInv, U!TypeOK
<1>a. /\ U!At(p, "rename") /\ UNCHANGED <<cloud, latePuts, built, handlerSnap, together>>
      /\ heldSnaps' = heldSnaps \cup {out'}
  BY DEF U!Rename
<1>f. ASSUME U!Fail(p), UNCHANGED <<out, outTmp>>
      PROVE  PublisherInv' /\ U!ReadersGoForward
  <2>1. turnFailures' \in 0..MaxPublished
    BY <1>0, <1>f DEF U!Fail
  <2>2. /\ turn' = [turn EXCEPT ![p] = U!Idle] /\ built' \in U!Snapshots /\ built <= built'
        /\ handlerSnap' \in U!Snapshots /\ (handlerSnap <= built => handlerSnap' <= built')
    BY <1>0, <1>a, <1>f DEF U!Fail, U!End
  <2> QED BY <1>a, <1>f, <2>1, <2>2, TurnEnds
<1>1. ASSUME out' = outTmp, outTmp' = 0,
             turn' = [q \in U!Publishers |->
                        IF q = p THEN [turn[p] EXCEPT !.at = "put", !.fd = "none"]
                        ELSE [turn[q] EXCEPT !.fd = U!MovedTo[@]]],
             turnFailures' = IF p = "loop" THEN 0 ELSE turnFailures
      PROVE  PublisherInv' /\ U!ReadersGoForward
  <2>1. [turn[p] EXCEPT !.at = "put", !.fd = "none"] \in Turns
    BY <1>0 DEF Turns
  <2>2. ASSUME NEW q \in U!Publishers
        PROVE [turn[q] EXCEPT !.fd = U!MovedTo[@]] \in Turns
    <3>1. turn[q] \in Turns
      BY <1>0
    <3>2. U!MovedTo[turn[q].fd] \in {"none", "tmp", "out", "unlinked"}
      BY <3>1 DEF Turns, U!MovedTo
    <3> QED BY <3>1, <3>2 DEF Turns
  <2>3. turn' \in [U!Publishers -> Turns]
    BY <1>1, <2>1, <2>2
  <2>4. /\ turn'[p].at = "put" /\ turn'[p].snap = turn[p].snap
        /\ \A q \in U!Publishers : q # p => turn'[q].at = turn[q].at /\ turn'[q].snap = turn[q].snap
    BY <1>0, <1>1 DEF Turns
  <2>5. 0 \in U!Snapshots /\ 0 \in 0..MaxPublished
    BY DEF U!Snapshots
  <2>6. U!TypeOK'
    BY <1>0, <1>1, <1>a, <2>3, <2>5 DEF U!TypeOK, Turns
  <2>7. ASSUME ~together
        PROVE  /\ out' = turn[p].snap /\ turn[p].snap <= built
               /\ out <= turn[p].snap \/ (p = "loop" /\ turn[p].snap = handlerSnap)
               /\ out' # U!Partial
               /\ \A q \in U!Publishers : q # p => turn[q].at = "idle"
    BY <1>0, <1>1, <1>a, <2>7, PublisherFacts DEF PublisherInv, TurnInv, U!At
  <2>8. ASSUME ~together, NEW q \in U!Publishers PROVE TurnInv(q)'
    BY <1>0, <1>a, <2>4, <2>7, <2>8 DEF TurnInv, U!At
  <2>9. ASSUME ~together
        PROVE  /\ out' <= built /\ handlerSnap <= built /\ out' \in heldSnaps'
               /\ cloud \in heldSnaps' /\ latePuts \subseteq heldSnaps'
    BY <1>0, <1>a, <2>7, <2>9 DEF PublisherInv
  <2> QED BY <1>0, <1>a, <2>4, <2>6, <2>7, <2>8, <2>9 DEF PublisherInv, U!At, U!ReadersGoForward
<1> QED BY <1>1, <1>f DEF U!Rename

\* A PUT carries the snapshot that was just published.
LEMMA PublisherPut ==
  ASSUME MaxPublished \in Nat, PublisherInv, NEW p \in U!Publishers, U!doHTTPPut(p)
  PROVE  PublisherInv' /\ U!ReadersGoForward
<1>0. /\ U!TypeOK /\ out \in Nat /\ turn \in [U!Publishers -> Turns] /\ turn[p].snap \in U!Snapshots
      /\ U!Idle \in Turns
  BY PublisherFacts DEF PublisherInv
<1>1. /\ U!At(p, "put") /\ turn' = [turn EXCEPT ![p] = U!Idle]
      /\ UNCHANGED <<out, outTmp, built, turnFailures, handlerSnap, heldSnaps, together>>
  BY DEF U!doHTTPPut, U!End
<1>2. /\ cloud' \in {cloud, turn[p].snap} /\ latePuts' \subseteq latePuts \cup {turn[p].snap}
  BY DEF U!doHTTPPut
<1>3. turn' \in [U!Publishers -> Turns] /\ turn'[p] = U!Idle
      /\ \A q \in U!Publishers : q # p => turn'[q] = turn[q]
  BY <1>0, <1>1
<1>4. U!TypeOK'
  BY <1>0, <1>1, <1>2, <1>3 DEF U!TypeOK, Turns
<1>5. ASSUME ~together PROVE cloud' \in heldSnaps' /\ latePuts' \subseteq heldSnaps'
  BY <1>0, <1>1, <1>2, <1>5 DEF PublisherInv, TurnInv, U!At
<1>6. ASSUME NEW q \in U!Publishers, ~together PROVE TurnInv(q)'
  BY <1>1, <1>3, <1>6, PublisherFacts DEF PublisherInv, TurnInv, U!At, U!Idle
<1> QED BY <1>0, <1>1, <1>3, <1>4, <1>5, <1>6 DEF PublisherInv, U!At, U!Idle, U!ReadersGoForward

LEMMA PublisherNext ==
  ASSUME MaxPublished \in Nat, PublisherInv, [U!Next]_(U!vars)
  PROVE  PublisherInv' /\ U!ReadersGoForward
<1>0. /\ U!TypeOK /\ out \in Nat /\ built \in U!Snapshots /\ built \in Nat
      /\ turnFailures \in 0..MaxPublished /\ 0 \in 0..MaxPublished
      /\ handlerSnap \in U!Snapshots /\ 0 \in U!Snapshots
  BY PublisherFacts DEF PublisherInv, U!TypeOK, U!Snapshots
<1>1. ASSUME NEW p \in U!Publishers, U!Die(p) PROVE PublisherInv' /\ U!ReadersGoForward
  <2>1. /\ turn' = [turn EXCEPT ![p] = U!Idle]
        /\ turnFailures' = IF p = "loop" THEN 0 ELSE turnFailures
        /\ handlerSnap' = IF p = "loop" THEN 0 ELSE handlerSnap
        /\ UNCHANGED <<out, outTmp, cloud, latePuts, built, heldSnaps, together>>
    BY <1>1 DEF U!Die, U!End
  <2>2. /\ turnFailures' \in 0..MaxPublished /\ built' \in U!Snapshots /\ built <= built'
        /\ handlerSnap' \in U!Snapshots /\ (handlerSnap <= built => handlerSnap' <= built')
        /\ (p = "loop" \/ handlerSnap' = handlerSnap)
    BY <1>0, <2>1
  <2> QED BY <2>1, <2>2, TurnEnds
<1>2. CASE U!LatePut
  <2>1. PICK s \in latePuts : cloud' = s /\ latePuts' = latePuts \ {s}
    BY <1>2 DEF U!LatePut
  <2>2. UNCHANGED <<out, outTmp, built, turn, turnFailures, handlerSnap, heldSnaps, together>>
    BY <1>2 DEF U!LatePut
  <2>3. U!TypeOK'
    BY <1>0, <2>1, <2>2 DEF U!TypeOK
  <2>4. \A p \in U!Publishers : TurnInv(p) => TurnInv(p)'
    BY <2>2 DEF TurnInv, U!At
  <2> QED BY <1>0, <2>1, <2>2, <2>3, <2>4 DEF PublisherInv, U!At, U!ReadersGoForward
<1>3. CASE UNCHANGED U!vars
  <2>1. UNCHANGED <<out, outTmp, cloud, latePuts, built, turn, turnFailures, handlerSnap,
                   heldSnaps, together>>
    BY <1>3 DEF U!vars
  <2>2. \A p \in U!Publishers : TurnInv(p) => TurnInv(p)'
    BY <2>1 DEF TurnInv, U!At
  <2> QED BY <1>0, <2>1, <2>2 DEF PublisherInv, U!TypeOK, U!At, U!ReadersGoForward
<1>4. "loop" \in U!Publishers
  BY DEF U!Publishers
<1> QED BY <1>1, <1>2, <1>3, <1>4, PublisherBuild, PublisherWrites, PublisherRename, PublisherPut
        DEF U!Next, U!Step

LEMMA PublisherAlone == U!Spec => []PublisherInv
<1>0. MaxPublished \in Nat
  BY OperationsAssumption
<1> USE <1>0
<1>1. U!Init => PublisherInv
  <2> SUFFICES ASSUME U!Init PROVE PublisherInv
    OBVIOUS
  <2>1. U!Idle \in Turns /\ 0 \in U!Snapshots /\ 0 # U!Partial /\ 0 \in 0..MaxPublished
    BY DEF U!Idle, Turns, U!Snapshots, U!Partial
  <2>2. turn \in [U!Publishers -> Turns] /\ \A p \in U!Publishers : turn[p] = U!Idle
    BY <2>1 DEF U!Init
  <2>3. U!TypeOK
    BY <2>1, <2>2 DEF U!Init, U!TypeOK, Turns
  <2> QED BY <2>1, <2>2, <2>3 DEF U!Init, PublisherInv, TurnInv, U!At, U!Idle
<1>2. PublisherInv /\ [U!Next]_(U!vars) => PublisherInv'
  BY PublisherNext
<1> QED BY <1>1, <1>2, PTL DEF U!Spec

\* For any number of snapshots, failed turns, deaths and late PUTs: while the
\* loop and --once take turns, a reader of the published file finds a whole
\* snapshot no older than the last one it found, unless the loop's handler still
\* keeps it; and the cloud holds only what the file has held.
THEOREM ReadersForward == Spec => ReadersGoForward
<1>1. Init /\ which = "publisher" => U!Init
  BY DEF Init
<1>2. [Next]_vars /\ which = "publisher" => [U!Next]_(U!vars)
  BY DEF Next, vars, U!vars
<1>3. [Next]_vars => (which = "publisher" <=> (which = "publisher")')
  BY OneSubsystem
<1>4. PublisherInv /\ [U!Next]_(U!vars) => U!ReadersGoForward
  BY OperationsAssumption, PublisherNext
<1> QED
  BY <1>1, <1>2, <1>3, <1>4, PublisherAlone, PTL DEF Spec, U!Spec, ReadersGoForward

HIDE DEF out, outTmp, cloud, latePuts, built, turn, turnFailures, together, handlerSnap, heldSnaps

-----------------------------------------------------------------------------
(* Config bundles: what is applied was signed, and a bundle is rejected    *)
(* only for cause.                                                         *)

\* The variables of ConfigSync.
priv == x1
pub == x2
init == x3
src == x4
bundle == x5
pack == x6
apply == x7
dest == x8
verdict == x9
signed == x10
overlap == x11
disturbed == x12

USE DEF priv, pub, init, src, bundle, pack, apply, dest, verdict, signed, overlap, disturbed

ConfigBounds ==
    /\ NumFiles \in Nat \ {0} /\ MaxContent \in Nat \ {0}
    /\ "absent" \notin Keys /\ "torn" \notin Keys

Bundles == [man : G!Trees, by : Keys \cup {"absent"}, data : G!Trees]

\* While runs of init do not overlap, a private key, once written, stays, and a
\* public key is its own.
KeyFiles ==
    ~overlap =>
        /\ \A j, k \in Keys : j = k \/ init[j] = "idle" \/ init[k] = "idle"
        /\ \A k \in Keys : (init[k] = "priv" => priv = "absent") /\ (init[k] = "pub" => priv = k)
        /\ pub # "absent" => priv = pub

\* So a bundle is signed with that key, and read with it.
KeyUse ==
    /\ pack.at # "idle" => pack.by \in Keys
    /\ bundle # G!NoBundle => bundle.by \in Keys
    /\ apply.at \in {"read", "check"} => apply.by \in Keys
    /\ ~overlap =>
           /\ pack.at # "idle" => pack.by = priv
           /\ bundle # G!NoBundle => bundle.by = priv
           /\ apply.at \in {"read", "check"} => apply.pub = priv /\ apply.by = priv

\* What an undisturbed bundle holds while it is written and after, and what a
\* reader has of it.
BundleInv ==
    /\ bundle # G!NoBundle => bundle.man \in signed
    /\ pack.at = "write" =>
           bundle # G!NoBundle /\ pack.man = bundle.man /\ G!Without(bundle.data) # {}
    /\ ~disturbed =>
           /\ pack.at = "write" =>
                  \A f \in G!Files : bundle.data[f] \in {G!Missing, bundle.man[f]}
           /\ pack.at # "write" => bundle.data = bundle.man
           /\ apply.at = "read" => pack.at # "write" /\ apply.man = bundle.man
           /\ apply.at = "check" => apply.data = apply.man

\* What apply works from was signed, under clean names, and so is what it has written.
ApplyInv ==
    /\ apply.at \in {"read", "check"} => apply.man \in signed
    /\ apply.at = "write" =>
           /\ apply.data \in signed /\ ~G!Misnamed(apply.data) /\ apply.todo # {}
           /\ \A f \in G!Files \ apply.todo : dest[f] = apply.data[f]
    /\ \A f \in G!Files : dest[f] # G!Missing => \E m \in signed : m[f] = dest[f] /\ ~G!Misnamed(m)

ConfigInv == G!TypeOK /\ KeyFiles /\ KeyUse /\ BundleInv /\ ApplyInv

\* A step keeps the invariant and its verdict is right.
ConfigStep == ConfigInv' /\ G!AppliedIsSigned /\ G!RejectedForCause

LEMMA ConfigFacts ==
  ASSUME ConfigBounds
  PROVE  /\ NumFiles \in Nat /\ MaxContent \in Nat /\ G!Files \subseteq Nat
         /\ 1 \in G!Files /\ 1 \in G!Contents /\ G!Missing \notin G!Contents
         /\ G!Empty \in G!Trees /\ \A f \in G!Files : G!Empty[f] = G!Missing
         /\ G!NoBundle \in Bundles /\ G!NoBundle.data = G!Empty /\ G!NoBundle.man = G!Empty
         /\ G!NotPacking \in G!Packing /\ G!NotPacking.at = "idle"
         /\ G!NotApplying \in G!Applying /\ G!NotApplying.at = "idle"
<1>1. /\ NumFiles \in Nat /\ MaxContent \in Nat /\ G!Files \subseteq Nat
      /\ 1 \in G!Files /\ 1 \in G!Contents /\ G!Missing \notin G!Contents
  BY DEF ConfigBounds, G!Files, G!Contents, G!Missing
<1>2. G!Empty \in G!Trees /\ \A f \in G!Files : G!Empty[f] = G!Missing
  BY DEF G!Empty, G!Trees
<1>3. G!NoBundle \in Bundles /\ G!NoBundle.data = G!Empty /\ G!NoBundle.man = G!Empty
  BY <1>2 DEF G!NoBundle, Bundles
<1>4. G!NotPacking \in G!Packing /\ G!NotPacking.at = "idle"
  BY <1>2 DEF G!NotPacking, G!Packing
<1>5. G!NotApplying \in G!Applying /\ G!NotApplying.at = "idle"
  BY <1>2 DEF G!NotApplying, G!Applying
<1> QED BY <1>1, <1>2, <1>3, <1>4, <1>5

\* The first of some files is one of them.
LEMMA FirstFile ==
  ASSUME NEW T, T \subseteq G!Files, T # {}, ConfigBounds
  PROVE  G!First(T) \in T
<1>1. T \subseteq Nat
  BY ConfigFacts
<1>2. \E f \in T : \A g \in T : f <= g
  BY <1>1, LeastNumber
<1>3. G!First(T) = CHOOSE f \in T : \A g \in T : f <= g
  BY DEF G!First
<1> HIDE DEF G!First
<1> QED BY <1>2, <1>3, Zenon

\* A step of init changes no bundle and, unless runs overlap, no key in use.
LEMMA ConfigKeyStep ==
  ASSUME ConfigBounds, ConfigInv,
         priv' \in Keys \cup {"absent", "torn"}, pub' \in Keys \cup {"absent"},
         init' \in [Keys -> {"idle", "priv", "pub"}], overlap' \in BOOLEAN,
         KeyFiles', ~overlap' => ~overlap, ~overlap' => priv \in {"absent", priv'},
         UNCHANGED <<src, bundle, pack, apply, dest, verdict, signed, disturbed>>
  PROVE  ConfigStep
<1>1. G!TypeOK'
  BY DEF ConfigInv, G!TypeOK
<1>2. KeyUse'
  BY DEF ConfigInv, KeyUse, ConfigBounds
<1>3. BundleInv'
  BY DEF ConfigInv, BundleInv
<1>4. ApplyInv'
  BY DEF ConfigInv, ApplyInv
<1>5. G!AppliedIsSigned /\ G!RejectedForCause
  BY ConfigFacts DEF ConfigInv, ApplyInv, G!AppliedIsSigned, G!RejectedForCause
<1> QED BY <1>1, <1>2, <1>3, <1>4, <1>5 DEF ConfigInv, ConfigStep

LEMMA ConfigInit ==
  ASSUME ConfigBounds, ConfigInv, NEW k \in Keys,
         G!runConfigSyncInit(k) \/ G!WriteKey(k) \/ G!InitFails(k)
  PROVE  ConfigStep
<1>0. /\ priv \in Keys \cup {"absent", "torn"} /\ pub \in Keys \cup {"absent"} /\ overlap \in BOOLEAN
      /\ init \in [Keys -> {"idle", "priv", "pub"}] /\ KeyFiles
      /\ "absent" \notin Keys /\ "torn" \notin Keys
  BY DEF ConfigInv, G!TypeOK, ConfigBounds
<1>1. CASE G!runConfigSyncInit(k)
  <2>1. /\ init[k] = "idle" /\ priv = "absent" /\ init' = [init EXCEPT ![k] = "priv"]
        /\ overlap' = (overlap \/ \E j \in Keys \ {k} : init[j] # "idle")
        /\ UNCHANGED <<priv, pub, src, bundle, pack, apply, dest, verdict, signed, disturbed>>
    BY <1>1 DEF G!runConfigSyncInit
  <2>2. ASSUME ~overlap' PROVE ~overlap /\ \A j \in Keys : init[j] = "idle"
    BY <2>1, <2>2
  <2>3. overlap' \in BOOLEAN
    BY <2>1
  <2>4. KeyFiles'
    BY <1>0, <2>1, <2>2 DEF KeyFiles
  <2>5. init' \in [Keys -> {"idle", "priv", "pub"}]
    BY <1>0, <2>1
  <2> QED BY <1>0, <2>1, <2>2, <2>3, <2>4, <2>5, ConfigKeyStep
<1>2. CASE G!WriteKey(k)
  <2>1. UNCHANGED <<src, bundle, pack, apply, dest, verdict, signed, overlap, disturbed>>
    BY <1>2 DEF G!WriteKey
  <2>2. \/ init[k] = "priv" /\ priv' = k /\ init' = [init EXCEPT ![k] = "pub"] /\ UNCHANGED pub
        \/ init[k] = "pub" /\ pub' = k /\ init' = [init EXCEPT ![k] = "idle"] /\ UNCHANGED priv
    BY <1>2 DEF G!WriteKey
  <2>3. init' \in [Keys -> {"idle", "priv", "pub"}] /\ priv' \in Keys \cup {"absent", "torn"}
        /\ pub' \in Keys \cup {"absent"}
    BY <1>0, <2>2
  <2>4. KeyFiles'
    BY <1>0, <2>1, <2>2 DEF KeyFiles
  <2>5. ~overlap' => priv \in {"absent", priv'}
    BY <1>0, <2>1, <2>2 DEF KeyFiles
  <2> QED BY <1>0, <2>1, <2>3, <2>4, <2>5, ConfigKeyStep
<1>3. CASE G!InitFails(k)
  <2>1. UNCHANGED <<src, bundle, pack, apply, dest, verdict, signed, overlap, disturbed>>
    BY <1>3 DEF G!InitFails
  <2>2. /\ init[k] # "idle" /\ init' = [init EXCEPT ![k] = "idle"]
        /\ \/ init[k] = "priv" /\ priv' \in {priv, "torn"} /\ pub' = pub
           \/ init[k] = "pub" /\ priv' = priv /\ pub' \in {pub, "absent"}
    BY <1>0, <1>3 DEF G!InitFails
  <2>3. init' \in [Keys -> {"idle", "priv", "pub"}] /\ priv' \in Keys \cup {"absent", "torn"}
        /\ pub' \in Keys \cup {"absent"}
    BY <1>0, <2>2
  <2>4. KeyFiles'
    BY <1>0, <2>1, <2>2 DEF KeyFiles
  <2>5. ~overlap' => priv \in {"absent", priv'}
    BY <1>0, <2>1, <2>2 DEF KeyFiles
  <2> QED BY <1>0, <2>1, <2>3, <2>4, <2>5, ConfigKeyStep
<1> QED BY <1>1, <1>2, <1>3

\* A step of pack before it opens the tar file, or an edit.
LEMMA ConfigPackStep ==
  ASSUME ConfigBounds, ConfigInv, pack' \in G!Packing, src' \in [G!Files -> G!Contents],
         pack.at # "write", pack'.at # "write",
         pack'.at # "idle" => pack'.by \in Keys /\ (~overlap => pack'.by = priv),
         UNCHANGED G!keys, UNCHANGED <<bundle, apply, dest, verdict, signed, disturbed>>
  PROVE  ConfigStep
<1>k. UNCHANGED <<priv, pub, init, overlap>>
  BY DEF G!keys
<1>1. G!TypeOK'
  BY <1>k DEF ConfigInv, G!TypeOK
<1>2. KeyUse' /\ KeyFiles'
  BY <1>k DEF ConfigInv, KeyUse, KeyFiles
<1>3. BundleInv'
  BY DEF ConfigInv, BundleInv
<1>4. ApplyInv'
  BY DEF ConfigInv, ApplyInv
<1>5. G!AppliedIsSigned /\ G!RejectedForCause
  BY ConfigFacts DEF ConfigInv, ApplyInv, G!AppliedIsSigned, G!RejectedForCause
<1> QED BY <1>1, <1>2, <1>3, <1>4, <1>5 DEF ConfigInv, ConfigStep

LEMMA ConfigHash ==
  ASSUME ConfigBounds, ConfigInv, G!runConfigSyncPack \/ G!HashFile
  PROVE  ConfigStep
<1>0. G!TypeOK /\ pack \in G!Packing /\ src \in [G!Files -> G!Contents] /\ G!Empty \in G!Trees
  BY ConfigFacts DEF ConfigInv, G!TypeOK
<1>1. CASE G!runConfigSyncPack
  <2>1. /\ pack.at = "idle" /\ priv \in Keys /\ pack' = [at |-> "hash", man |-> G!Empty, by |-> priv]
        /\ UNCHANGED G!keys /\ UNCHANGED <<src, bundle, apply, dest, verdict, signed, disturbed>>
    BY <1>1 DEF G!runConfigSyncPack
  <2>2. pack' \in G!Packing /\ pack'.at = "hash" /\ pack'.by = priv
    BY <1>0, <2>1 DEF G!Packing
  <2> QED BY <1>0, <2>1, <2>2, ConfigPackStep
<1>2. CASE G!HashFile
  <2> DEFINE f == G!First(G!Without(pack.man))
  <2>1. /\ pack.at = "hash" /\ G!Without(pack.man) # {}
        /\ pack' = [pack EXCEPT !.man[f] = src[f]]
        /\ UNCHANGED G!keys /\ UNCHANGED <<src, bundle, apply, dest, verdict, signed, disturbed>>
    BY <1>2 DEF G!HashFile
  <2>2. f \in G!Files
    BY <2>1, FirstFile DEF G!Without
  <2> HIDE DEF f
  <2>3. src[f] \in G!Contents /\ pack.man \in G!Trees
    BY <1>0, <2>2 DEF G!Packing
  <2>4. [pack.man EXCEPT ![f] = src[f]] \in G!Trees
    BY <2>2, <2>3 DEF G!Trees
  <2>5. pack' = [pack EXCEPT !.man = [pack.man EXCEPT ![f] = src[f]]]
    BY <2>1
  <2>6. pack' \in G!Packing /\ pack'.at = "hash" /\ pack'.by = pack.by
    BY <1>0, <2>1, <2>4, <2>5 DEF G!Packing
  <2>7. pack.by \in Keys /\ (~overlap => pack.by = priv)
    BY <2>1 DEF ConfigInv, KeyUse
  <2> QED BY <1>0, <2>1, <2>6, <2>7, ConfigPackStep
<1> QED BY <1>1, <1>2

\* The tar file is opened: a new manifest is signed, and whoever reads the old
\* bundle is disturbed.
LEMMA ConfigCreate ==
  ASSUME ConfigBounds, ConfigInv, G!Create
  PROVE  ConfigStep
<1>0. /\ G!TypeOK /\ pack \in G!Packing /\ G!Empty \in G!Trees /\ apply \in G!Applying
      /\ signed \subseteq G!Trees
  BY ConfigFacts DEF ConfigInv, G!TypeOK
<1>1. /\ pack.at = "hash" /\ pack' = [pack EXCEPT !.at = "write"]
      /\ bundle' = [man |-> pack.man, by |-> pack.by, data |-> G!Empty]
      /\ signed' = signed \cup {pack.man} /\ disturbed' = (apply.at # "idle")
      /\ UNCHANGED <<priv, pub, init, overlap, src, apply, dest, verdict>>
  BY DEF G!Create, G!keys
<1>2. pack' \in G!Packing /\ pack'.at = "write" /\ pack'.by = pack.by /\ pack'.man = pack.man
  BY <1>0, <1>1 DEF G!Packing
<1>3. bundle' \in Bundles /\ bundle'.man = pack.man /\ bundle'.by = pack.by /\ bundle'.data = G!Empty
  BY <1>0, <1>1 DEF G!Packing, Bundles
<1>4. pack.by \in Keys /\ (~overlap => pack.by = priv) /\ bundle' # G!NoBundle
  <2>1. pack.by \in Keys /\ (~overlap => pack.by = priv)
    BY <1>1 DEF ConfigInv, KeyUse
  <2> QED BY <1>3, <2>1 DEF G!NoBundle, ConfigBounds
<1>5. disturbed' \in BOOLEAN /\ (~disturbed' => apply.at = "idle")
  BY <1>1
<1>6. signed' \subseteq G!Trees /\ pack.man \in signed' /\ signed \subseteq signed'
  BY <1>0, <1>1 DEF G!Packing
<1>7. G!TypeOK'
  BY <1>0, <1>1, <1>2, <1>3, <1>5, <1>6 DEF G!TypeOK, Bundles
<1>8. KeyUse' /\ KeyFiles'
  BY <1>1, <1>2, <1>3, <1>4 DEF ConfigInv, KeyUse, KeyFiles
<1>9. BundleInv'
  <2>1. 1 \in G!Without(bundle'.data) /\ \A f \in G!Files : bundle'.data[f] = G!Missing
    BY <1>3, ConfigFacts DEF G!Without
  <2>2. G!Without(bundle.data)' # {}
    BY <2>1 DEF G!Without
  <2> QED BY <1>1, <1>2, <1>3, <1>4, <1>5, <1>6, <2>1, <2>2 DEF BundleInv
<1>10. ApplyInv'
  BY <1>1, <1>6 DEF ConfigInv, ApplyInv
<1>11. G!AppliedIsSigned /\ G!RejectedForCause
  BY <1>1, <1>10, ConfigFacts DEF ApplyInv, G!AppliedIsSigned, G!RejectedForCause
<1> QED BY <1>7, <1>8, <1>9, <1>10, <1>11 DEF ConfigInv, ConfigStep

\* A file is read a second time; if it was edited since, the bundle is disturbed.
LEMMA ConfigWriteEntry ==
  ASSUME ConfigBounds, ConfigInv, G!WriteEntry
  PROVE  ConfigStep
<1>0. /\ G!TypeOK /\ pack \in G!Packing /\ bundle \in Bundles /\ G!NotPacking \in G!Packing
      /\ src \in [G!Files -> G!Contents] /\ disturbed \in BOOLEAN /\ G!NotPacking.at = "idle"
      /\ bundle.data \in G!Trees
  BY ConfigFacts DEF ConfigInv, G!TypeOK, Bundles
<1> DEFINE f == G!First(G!Without(bundle.data))
<1>1. /\ pack.at = "write" /\ bundle' = [bundle EXCEPT !.data[f] = src[f]]
      /\ pack' = IF G!Without(bundle.data) = {f} THEN G!NotPacking ELSE pack
      /\ disturbed' = (disturbed \/ src[f] # pack.man[f])
      /\ UNCHANGED <<priv, pub, init, overlap, src, apply, dest, verdict, signed>>
  BY DEF G!WriteEntry, G!keys
<1>2. bundle # G!NoBundle /\ pack.man = bundle.man /\ G!Without(bundle.data) # {} /\ bundle.man \in signed
  BY <1>1 DEF ConfigInv, BundleInv
<1>3. f \in G!Files /\ f \in G!Without(bundle.data)
  BY <1>2, FirstFile DEF G!Without
<1> HIDE DEF f
<1> DEFINE d == [bundle.data EXCEPT ![f] = src[f]]
<1>4. src[f] \in G!Contents /\ src[f] # G!Missing
  BY <1>0, <1>3, ConfigFacts
<1>5. d \in G!Trees /\ d[f] = src[f] /\ \A g \in G!Files : g # f => d[g] = bundle.data[g]
  BY <1>0, <1>3, <1>4 DEF G!Trees
<1>6. bundle' = [bundle EXCEPT !.data = d]
  BY <1>1
<1> HIDE DEF d
<1>7. bundle' \in Bundles /\ bundle'.man = bundle.man /\ bundle'.by = bundle.by /\ bundle'.data = d
  BY <1>0, <1>5, <1>6 DEF Bundles
<1>8. bundle.by \in Keys /\ bundle' # G!NoBundle
  <2>1. bundle.by \in Keys
    BY <1>2 DEF ConfigInv, KeyUse
  <2> QED BY <1>7, <2>1 DEF G!NoBundle, ConfigBounds
<1>9. disturbed' \in BOOLEAN /\ (~disturbed' => ~disturbed /\ src[f] = bundle.man[f])
  BY <1>0, <1>1, <1>2
<1>10. pack' \in G!Packing /\ (pack'.at # "idle" => pack' = pack /\ G!Without(bundle.data) # {f})
       /\ (pack'.at # "write" => G!Without(bundle.data) = {f})
  BY <1>0, <1>1
<1>11. G!TypeOK'
  BY <1>0, <1>1, <1>7, <1>9, <1>10 DEF G!TypeOK, Bundles
<1>12. KeyUse' /\ KeyFiles'
  BY <1>1, <1>2, <1>7, <1>8, <1>10 DEF ConfigInv, KeyUse, KeyFiles
<1>13. BundleInv'
  <2>1. ASSUME pack'.at = "write" PROVE G!Without(bundle.data)' # {} /\ pack' = pack
    <3>1. PICK g \in G!Without(bundle.data) : g # f
      BY <1>3, <1>10, <2>1
    <3>2. g \in G!Files /\ d[g] = G!Missing
      BY <1>5, <3>1 DEF G!Without
    <3> QED BY <1>7, <1>10, <2>1, <3>2 DEF G!Without
  <2>2. ASSUME ~disturbed' PROVE \A g \in G!Files : d[g] \in {G!Missing, bundle.man[g]}
    BY <1>1, <1>5, <1>9, <2>2 DEF ConfigInv, BundleInv
  <2>3. ASSUME ~disturbed', pack'.at # "write" PROVE d = bundle.man
    <3>1. \A g \in G!Files : g # f => bundle.data[g] # G!Missing
      BY <1>10, <2>3 DEF G!Without
    <3>2. \A g \in G!Files : d[g] = bundle.man[g]
      BY <1>5, <1>9, <2>2, <2>3, <3>1
    <3>3. bundle.man \in G!Trees
      BY <1>0 DEF Bundles
    <3> QED BY <1>5, <3>2, <3>3 DEF G!Trees
  <2>4. ASSUME ~disturbed' PROVE apply.at # "read" /\ (apply.at = "check" => apply.data = apply.man)
    BY <1>1, <1>9, <2>4 DEF ConfigInv, BundleInv
  <2>5. bundle'.man \in signed' /\ (pack'.at = "write" => pack'.man = bundle'.man)
    BY <1>1, <1>2, <1>7, <2>1
  <2> QED BY <1>1, <1>7, <1>8, <2>1, <2>2, <2>3, <2>4, <2>5 DEF BundleInv
<1>14. ApplyInv'
  BY <1>1 DEF ConfigInv, ApplyInv
<1>15. G!AppliedIsSigned /\ G!RejectedForCause
  BY <1>1, <1>14, ConfigFacts DEF ApplyInv, G!AppliedIsSigned, G!RejectedForCause
<1> QED BY <1>11, <1>12, <1>13, <1>14, <1>15 DEF ConfigInv, ConfigStep

\* A pack that is cut short disturbs the bundle if it had opened it; so does damage.
LEMMA ConfigBroken ==
  ASSUME ConfigBounds, ConfigInv, G!PackFails \/ G!Damage
  PROVE  ConfigStep
<1>0. /\ G!TypeOK /\ pack \in G!Packing /\ bundle \in Bundles /\ G!NotPacking \in G!Packing
      /\ src \in [G!Files -> G!Contents] /\ disturbed \in BOOLEAN /\ G!NotPacking.at = "idle"
      /\ bundle.data \in G!Trees
  BY ConfigFacts DEF ConfigInv, G!TypeOK, Bundles
<1>1. CASE G!PackFails
  <2>1. /\ pack' = G!NotPacking /\ disturbed' = (disturbed \/ pack.at = "write")
        /\ UNCHANGED <<priv, pub, init, overlap, src, bundle, apply, dest, verdict, signed>>
    BY <1>1 DEF G!PackFails, G!keys
  <2>2. disturbed' \in BOOLEAN /\ (~disturbed' => ~disturbed /\ pack.at # "write")
    BY <1>0, <2>1
  <2>3. G!TypeOK'
    BY <1>0, <2>1, <2>2 DEF G!TypeOK
  <2>4. KeyUse' /\ KeyFiles'
    BY <1>0, <2>1 DEF ConfigInv, KeyUse, KeyFiles
  <2>5. BundleInv'
    BY <1>0, <2>1, <2>2 DEF ConfigInv, BundleInv
  <2>6. ApplyInv'
    BY <2>1 DEF ConfigInv, ApplyInv
  <2>7. G!AppliedIsSigned /\ G!RejectedForCause
    BY <2>1, <2>6, ConfigFacts DEF ApplyInv, G!AppliedIsSigned, G!RejectedForCause
  <2> QED BY <2>3, <2>4, <2>5, <2>6, <2>7 DEF ConfigInv, ConfigStep
<1>2. CASE G!Damage
  <2>1. /\ bundle.data[1] \in G!Contents /\ pack.at = "idle" /\ disturbed' = TRUE
        /\ bundle' = [bundle EXCEPT !.data[1] = G!Missing]
        /\ UNCHANGED <<priv, pub, init, overlap, src, pack, apply, dest, verdict, signed>>
    BY <1>2 DEF G!Damage, G!keys
  <2> DEFINE d == [bundle.data EXCEPT ![1] = G!Missing]
  <2>2. d \in G!Trees /\ bundle' = [bundle EXCEPT !.data = d]
    BY <1>0, <2>1, ConfigFacts DEF G!Trees
  <2> HIDE DEF d
  <2>3. bundle' \in Bundles /\ bundle'.man = bundle.man /\ bundle'.by = bundle.by
    BY <1>0, <2>2 DEF Bundles
  <2>4. bundle # G!NoBundle
    BY <2>1, ConfigFacts
  <2>5. bundle.by \in Keys /\ bundle' # G!NoBundle
    <3>1. bundle.by \in Keys
      BY <2>4 DEF ConfigInv, KeyUse
    <3> QED BY <2>3, <3>1 DEF G!NoBundle, ConfigBounds
  <2>6. G!TypeOK'
    BY <1>0, <2>1, <2>3 DEF G!TypeOK, Bundles
  <2>7. KeyUse' /\ KeyFiles'
    BY <2>1, <2>3, <2>4, <2>5 DEF ConfigInv, KeyUse, KeyFiles
  <2>8. BundleInv'
    BY <2>1, <2>3, <2>4 DEF ConfigInv, BundleInv
  <2>9. ApplyInv'
    BY <2>1 DEF ConfigInv, ApplyInv
  <2>10. G!AppliedIsSigned /\ G!RejectedForCause
    BY <2>1, <2>9, ConfigFacts DEF ApplyInv, G!AppliedIsSigned, G!RejectedForCause
  <2> QED BY <2>6, <2>7, <2>8, <2>9, <2>10 DEF ConfigInv, ConfigStep
<1> QED BY <1>1, <1>2

\* apply and verify read key and manifest, and later the entries.
LEMMA ConfigRead ==
  ASSUME ConfigBounds, ConfigInv, G!runConfigSyncApply \/ G!ReadEntries
  PROVE  ConfigStep
<1>0. /\ G!TypeOK /\ apply \in G!Applying /\ bundle \in Bundles /\ G!NotApplying \in G!Applying
      /\ disturbed \in BOOLEAN
  BY ConfigFacts DEF ConfigInv, G!TypeOK, Bundles
<1>1. CASE G!runConfigSyncApply
  <2>1. /\ apply.at = "idle" /\ bundle # G!NoBundle /\ pub \in Keys
        /\ apply' = [G!NotApplying EXCEPT !.at = "read", !.pub = pub,
                                          !.man = bundle.man, !.by = bundle.by]
        /\ disturbed' = (disturbed \/ pack.at = "write") /\ verdict' = "none"
        /\ UNCHANGED <<priv, pub, init, overlap, src, bundle, pack, dest, signed>>
    BY <1>1 DEF G!runConfigSyncApply, G!keys
  <2>2. /\ apply' \in G!Applying /\ apply'.at = "read" /\ apply'.pub = pub
        /\ apply'.man = bundle.man /\ apply'.by = bundle.by
    BY <1>0, <2>1 DEF G!Applying, Bundles
  <2>3. disturbed' \in BOOLEAN /\ (~disturbed' => ~disturbed /\ pack.at # "write")
    BY <1>0, <2>1
  <2>4. G!TypeOK'
    BY <1>0, <2>1, <2>2, <2>3 DEF G!TypeOK
  <2>5. KeyUse' /\ KeyFiles'
    BY <2>1, <2>2 DEF ConfigInv, KeyUse, KeyFiles, ConfigBounds
  <2>6. BundleInv'
    BY <2>1, <2>2, <2>3 DEF ConfigInv, BundleInv
  <2>7. ApplyInv'
    BY <2>1, <2>2 DEF ConfigInv, BundleInv, ApplyInv
  <2>8. G!AppliedIsSigned /\ G!RejectedForCause
    BY <2>1, <2>7, ConfigFacts DEF ApplyInv, G!AppliedIsSigned, G!RejectedForCause
  <2> QED BY <2>4, <2>5, <2>6, <2>7, <2>8 DEF ConfigInv, ConfigStep
<1>2. CASE G!ReadEntries
  <2>1. /\ apply.at = "read" /\ apply' = [apply EXCEPT !.at = "check", !.data = bundle.data]
        /\ UNCHANGED <<priv, pub, init, overlap, src, bundle, pack, dest, verdict, signed, disturbed>>
    BY <1>2 DEF G!ReadEntries, G!keys
  <2>2. /\ apply' \in G!Applying /\ apply'.at = "check" /\ apply'.pub = apply.pub
        /\ apply'.man = apply.man /\ apply'.by = apply.by /\ apply'.data = bundle.data
    BY <1>0, <2>1 DEF G!Applying, Bundles
  <2>4. G!TypeOK'
    BY <1>0, <2>1, <2>2 DEF G!TypeOK
  <2>5. KeyUse' /\ KeyFiles'
    BY <2>1, <2>2 DEF ConfigInv, KeyUse, KeyFiles
  <2>6. BundleInv'
    BY <2>1, <2>2 DEF ConfigInv, BundleInv
  <2>7. ApplyInv'
    BY <2>1, <2>2 DEF ConfigInv, ApplyInv
  <2>8. G!AppliedIsSigned /\ G!RejectedForCause
    BY <2>1, <2>2, <2>7, ConfigFacts DEF ApplyInv, G!AppliedIsSigned, G!RejectedForCause
  <2> QED BY <2>4, <2>5, <2>6, <2>7, <2>8 DEF ConfigInv, ConfigStep
<1> QED BY <1>1, <1>2

\* apply goes on in memory and on disk, and leaves keys, source and bundle alone.
LEMMA ConfigApplyStep ==
  ASSUME ConfigBounds, ConfigInv, apply' \in G!Applying, apply'.at \notin {"read", "check"},
         verdict' \in {"none", "ok", "rejected", "failed"}, dest' \in G!Trees, ApplyInv',
         UNCHANGED G!keys, UNCHANGED <<src, bundle, pack, signed, disturbed>>
  PROVE  ConfigInv'
<1>1. UNCHANGED <<priv, pub, init, overlap>>
  BY DEF G!keys
<1>2. G!TypeOK'
  BY <1>1 DEF ConfigInv, G!TypeOK
<1>3. KeyUse' /\ KeyFiles'
  BY <1>1 DEF ConfigInv, KeyUse, KeyFiles
<1>4. BundleInv'
  BY DEF ConfigInv, BundleInv
<1> QED BY <1>2, <1>3, <1>4 DEF ConfigInv

\* verifyContent: what passes is the signed manifest with clean names, what does not
\* was disturbed or has a name that is not clean.
LEMMA ConfigVerify ==
  ASSUME ConfigBounds, ConfigInv, G!verifyContent
  PROVE  ConfigStep
<1>0. /\ G!TypeOK /\ apply \in G!Applying /\ disturbed \in BOOLEAN /\ overlap \in BOOLEAN
      /\ dest \in G!Trees /\ verdict \in {"none", "ok", "rejected", "failed"}
      /\ G!NotApplying \in G!Applying /\ G!NotApplying.at = "idle"
  BY ConfigFacts DEF ConfigInv, G!TypeOK
<1>1. /\ apply.at = "check" /\ UNCHANGED G!keys
      /\ UNCHANGED <<src, bundle, pack, dest, signed, disturbed>>
  BY DEF G!verifyContent
<1>2. apply.man \in signed /\ \A f \in G!Files : dest[f] # G!Missing => \E m \in signed : m[f] = dest[f] /\ ~G!Misnamed(m)
  BY <1>1 DEF ConfigInv, ApplyInv
<1>3. CASE /\ apply.data = apply.man /\ ~G!Misnamed(apply.man) /\ UNCHANGED verdict
           /\ apply' = [G!NotApplying EXCEPT !.at = "write", !.data = apply.data, !.todo = G!Files]
  <2>1. apply' \in G!Applying /\ apply'.at = "write" /\ apply'.data = apply.data /\ apply'.todo = G!Files
    BY <1>0, <1>3 DEF G!Applying
  <2>2. ApplyInv'
    BY <1>1, <1>2, <1>3, <2>1, ConfigFacts DEF ApplyInv
  <2>3. ConfigInv'
    BY <1>0, <1>1, <1>3, <2>1, <2>2, ConfigApplyStep
  <2> QED BY <1>1, <2>1, <2>2, <2>3, ConfigFacts
          DEF ConfigStep, ApplyInv, G!AppliedIsSigned, G!RejectedForCause
<1>4. CASE apply' = G!NotApplying /\ verdict' = "ok"
  <2>1. ApplyInv'
    BY <1>0, <1>1, <1>2, <1>4 DEF ApplyInv
  <2>2. ConfigInv'
    BY <1>0, <1>1, <1>4, <2>1, ConfigApplyStep
  <2> QED BY <1>1, <1>4, <2>1, <2>2, ConfigFacts
          DEF ConfigStep, ApplyInv, G!AppliedIsSigned, G!RejectedForCause
<1>5. CASE /\ apply' = G!NotApplying /\ verdict' = "rejected"
           /\ ~(apply.by = apply.pub /\ apply.data = apply.man /\ ~G!Misnamed(apply.man))
  <2>1. ApplyInv'
    BY <1>0, <1>1, <1>2, <1>5 DEF ApplyInv
  <2>2. ConfigInv'
    BY <1>0, <1>1, <1>5, <2>1, ConfigApplyStep
  <2>3. ~overlap => apply.by = apply.pub
    BY <1>1 DEF ConfigInv, KeyUse
  <2>4. ~disturbed => apply.data = apply.man
    BY <1>1 DEF ConfigInv, BundleInv
  <2> QED BY <1>1, <1>5, <2>1, <2>2, <2>3, <2>4, ConfigFacts
          DEF ConfigStep, ApplyInv, G!AppliedIsSigned, G!RejectedForCause
<1> QED BY <1>3, <1>4, <1>5 DEF G!verifyContent

\* apply writes the next file, or fails to.
LEMMA ConfigWriteFile ==
  ASSUME ConfigBounds, ConfigInv, G!WriteFile \/ G!ApplyFails
  PROVE  ConfigStep
<1>0. /\ G!TypeOK /\ apply \in G!Applying /\ signed \subseteq G!Trees
      /\ dest \in G!Trees /\ verdict \in {"none", "ok", "rejected", "failed"}
      /\ G!NotApplying \in G!Applying /\ G!NotApplying.at = "idle"
  BY ConfigFacts DEF ConfigInv, G!TypeOK
<1> DEFINE f == G!First(apply.todo)
<1>1. /\ apply.at = "write" /\ UNCHANGED G!keys
      /\ UNCHANGED <<src, bundle, pack, signed, disturbed>>
  BY DEF G!WriteFile, G!ApplyFails
<1>2. /\ apply.data \in signed /\ ~G!Misnamed(apply.data)
      /\ apply.todo # {} /\ apply.todo \subseteq G!Files
      /\ \A g \in G!Files \ apply.todo : dest[g] = apply.data[g]
      /\ \A g \in G!Files : dest[g] # G!Missing => \E m \in signed : m[g] = dest[g] /\ ~G!Misnamed(m)
  BY <1>0, <1>1 DEF ConfigInv, ApplyInv, G!Applying
<1>3. f \in apply.todo /\ f \in G!Files
  BY <1>2, FirstFile
<1>4. CASE G!WriteFile
  <2>1. dest' = [dest EXCEPT ![f] = apply.data[f]]
    BY <1>4 DEF G!WriteFile
  <2>2. \/ apply.todo = {f} /\ apply' = G!NotApplying /\ verdict' = "ok"
        \/ apply.todo # {f} /\ apply' = [apply EXCEPT !.todo = @ \ {f}] /\ UNCHANGED verdict
    BY <1>4 DEF G!WriteFile
  <2> HIDE DEF f
  <2>3. apply.data \in G!Trees
    BY <1>0, <1>2
  <2>4. dest' \in G!Trees /\ dest'[f] = apply.data[f] /\ \A g \in G!Files : g # f => dest'[g] = dest[g]
    BY <1>0, <1>3, <2>1, <2>3 DEF G!Trees
  <2>5. \A g \in G!Files : dest'[g] # G!Missing => \E m \in signed : m[g] = dest'[g] /\ ~G!Misnamed(m)
    BY <1>2, <2>4
  <2>6. CASE apply.todo = {f} /\ apply' = G!NotApplying /\ verdict' = "ok"
    <3>1. \A g \in G!Files : dest'[g] = apply.data[g]
      BY <1>2, <2>4, <2>6
    <3>2. dest' = apply.data
      BY <2>3, <2>4, <3>1 DEF G!Trees
    <3>3. ApplyInv'
      BY <1>0, <1>1, <2>5, <2>6 DEF ApplyInv
    <3>4. ConfigInv'
      BY <1>0, <1>1, <2>4, <2>6, <3>3, ConfigApplyStep
    <3> QED BY <1>1, <1>2, <2>5, <2>6, <3>2, <3>4
            DEF ConfigStep, G!AppliedIsSigned, G!RejectedForCause
  <2>7. CASE apply.todo # {f} /\ apply' = [apply EXCEPT !.todo = @ \ {f}] /\ UNCHANGED verdict
    <3>1. /\ apply' \in G!Applying /\ apply'.at = "write" /\ apply'.data = apply.data
          /\ apply'.todo = apply.todo \ {f}
      BY <1>0, <1>1, <2>7 DEF G!Applying
    <3>2. ApplyInv'
      BY <1>1, <1>2, <1>3, <2>4, <2>5, <2>7, <3>1 DEF ApplyInv
    <3>3. ConfigInv'
      BY <1>0, <1>1, <2>4, <2>7, <3>1, <3>2, ConfigApplyStep
    <3> QED BY <1>1, <2>5, <3>1, <3>3, ConfigFacts
            DEF ConfigStep, G!AppliedIsSigned, G!RejectedForCause
  <2> QED BY <2>2, <2>6, <2>7
<1>5. CASE G!ApplyFails
  <2>1. /\ dest' \in {dest, [dest EXCEPT ![f] = G!Missing]}
        /\ apply' = G!NotApplying /\ verdict' = "failed"
    BY <1>5 DEF G!ApplyFails
  <2> HIDE DEF f
  <2>2. dest' \in G!Trees /\ \A g \in G!Files : dest'[g] \in {dest[g], G!Missing}
    BY <1>0, <1>3, <2>1 DEF G!Trees
  <2>3. \A g \in G!Files : dest'[g] # G!Missing => \E m \in signed : m[g] = dest'[g] /\ ~G!Misnamed(m)
    BY <1>2, <2>2
  <2>4. ApplyInv'
    BY <1>0, <1>1, <2>1, <2>3 DEF ApplyInv
  <2>5. ConfigInv'
    BY <1>0, <1>1, <2>1, <2>2, <2>4, ConfigApplyStep
  <2> QED BY <1>1, <2>1, <2>3, <2>5, ConfigFacts
          DEF ConfigStep, G!AppliedIsSigned, G!RejectedForCause
<1> QED BY <1>4, <1>5

\* A file of the source directory is edited, at any time.
LEMMA ConfigEdit ==
  ASSUME ConfigBounds, ConfigInv, NEW f \in G!Files, G!Edit(f)
  PROVE  ConfigStep
<1>1. /\ src[f] < MaxContent /\ src' = [src EXCEPT ![f] = @ + 1]
      /\ UNCHANGED <<priv, pub, init, overlap, bundle, pack, apply, dest, verdict, signed, disturbed>>
  BY DEF G!Edit, G!keys
<1>2. src[f] + 1 \in G!Contents /\ src \in [G!Files -> G!Contents]
  BY <1>1, ConfigFacts DEF ConfigInv, G!TypeOK, G!Contents
<1>3. src' \in [G!Files -> G!Contents]
  BY <1>1, <1>2
<1>4. G!TypeOK'
  BY <1>1, <1>3 DEF ConfigInv, G!TypeOK
<1>5. KeyUse' /\ KeyFiles'
  BY <1>1 DEF ConfigInv, KeyUse, KeyFiles
<1>6. BundleInv'
  BY <1>1 DEF ConfigInv, BundleInv
<1>7. ApplyInv'
  BY <1>1 DEF ConfigInv, ApplyInv
<1>8. G!AppliedIsSigned /\ G!RejectedForCause
  BY <1>1, <1>7, ConfigFacts DEF ApplyInv, G!AppliedIsSigned, G!RejectedForCause
<1> QED BY <1>4, <1>5, <1>6, <1>7, <1>8 DEF ConfigInv, ConfigStep

LEMMA ConfigNext ==
  ASSUME ConfigBounds, ConfigInv, [G!Next]_(G!vars)
  PROVE  ConfigStep
<1>1. CASE UNCHANGED G!vars
  <2>1. /\ priv' = priv /\ UNCHANGED <<priv, pub, init, overlap>>
        /\ UNCHANGED <<src, bundle, pack, apply, dest, verdict, signed, disturbed>>
    BY <1>1 DEF G!vars
  <2>2. KeyFiles'
    BY <2>1 DEF ConfigInv, KeyFiles
  <2> QED BY <2>1, <2>2, ConfigKeyStep DEF ConfigInv, G!TypeOK
<1> QED BY <1>1, ConfigInit, ConfigHash, ConfigCreate, ConfigWriteEntry, ConfigBroken, ConfigRead,
           ConfigVerify, ConfigWriteFile, ConfigEdit DEF G!Next

\* The subsystem by itself.
LEMMA ConfigAlone == G!Spec => []ConfigInv
<1>0. ConfigBounds
  BY OperationsAssumption DEF ConfigBounds
<1> USE <1>0
<1>1. G!Init => ConfigInv
  <2> SUFFICES ASSUME G!Init PROVE ConfigInv
    OBVIOUS
  <2>1. src \in [G!Files -> G!Contents] /\ init \in [Keys -> {"idle", "priv", "pub"}]
    BY ConfigFacts DEF G!Init
  <2>2. G!TypeOK
    BY <2>1, ConfigFacts DEF G!Init, G!TypeOK, Bundles
  <2>3. KeyFiles /\ KeyUse
    BY ConfigFacts DEF G!Init, KeyFiles, KeyUse
  <2>4. BundleInv /\ ApplyInv
    BY ConfigFacts DEF G!Init, BundleInv, ApplyInv
  <2> QED BY <2>2, <2>3, <2>4 DEF ConfigInv
<1>2. ConfigInv /\ [G!Next]_(G!vars) => ConfigInv'
  BY ConfigNext DEF ConfigStep
<1> QED BY <1>1, <1>2, PTL DEF G!Spec

\* For any files, contents and keys: whatever is edited, packed again, damaged or
\* cut short while a bundle is read and applied, every file apply wrote is one a
\* signed manifest with clean names lists, a successful apply leaves one signed
\* manifest, and a bundle is rejected only for cause.
THEOREM VerdictsRight == Spec => VerdictIsRight
<1>1. Init /\ which = "configsync" => G!Init
  BY DEF Init
<1>2. [Next]_vars /\ which = "configsync" => [G!Next]_(G!vars)
  BY DEF Next, vars, G!vars
<1>3. [Next]_vars => (which = "configsync" <=> (which = "configsync")')
  BY OneSubsystem
<1>4. ConfigInv /\ [G!Next]_(G!vars) => G!AppliedIsSigned /\ G!RejectedForCause
  BY OperationsAssumption, ConfigNext DEF ConfigBounds, ConfigStep
<1> QED
  BY <1>1, <1>2, <1>3, <1>4, ConfigAlone, PTL DEF Spec, G!Spec, VerdictIsRight

HIDE DEF priv, pub, init, src, bundle, pack, apply, dest, verdict, signed, overlap, disturbed

-----------------------------------------------------------------------------
(* Skill bundles: the skills in place are signed ones.                     *)

\* The variables of SkillSync.
skillRepo == x1
signing == x2
tree == x3
pulls == x4
skills == x5
signedSkills == x6
pullsCrowded == x7
skillEdits == x8

USE DEF skillRepo, signing, tree, pulls, skills, signedSkills, pullsCrowded, skillEdits

SkillBounds == NumSkills \in Nat /\ MaxContent \in Nat \ {0} /\ MaxEdits \in Nat

SkillPulls == [at : {"idle", "fetch", "clone", "verify", "reverify", "copy"},
               man : K!Trees, todo : SUBSET K!Skills]

\* Every signature, written or still in hand, belongs to a manifest that was signed.
Signatures ==
    /\ signing # K!None => signing \in signedSkills
    /\ skillRepo.sig # K!None => skillRepo.sig \in signedSkills
    /\ tree.sig # K!None => tree.sig \in signedSkills

\* A pull that copies has a signed manifest, the tree still agrees with it, and
\* the listed files it is done with are in place.
CopyInv(p) ==
    K!At(p, "copy") =>
        /\ pulls[p].man \in signedSkills
        /\ \A s \in K!Listed(pulls[p].man) :
               /\ tree.data[s] = pulls[p].man[s]
               /\ s \in pulls[p].todo \/ skills[s] = pulls[p].man[s]

\* What is left to copy is listed.
Copies(r) == r.todo # {} /\ r.todo \subseteq K!Listed(r.man)

OnePull == \A p, q \in Processes : p = q \/ K!At(p, "idle") \/ K!At(q, "idle")

InPlace == \A s \in K!Skills : skills[s] # 0 => \E m \in signedSkills : m[s] = skills[s]

SkillInv ==
    /\ K!TypeOK /\ Signatures
    /\ \A p \in Processes : K!At(p, "copy") => Copies(pulls[p])
    /\ ~pullsCrowded => OnePull /\ InPlace /\ \A p \in Processes : CopyInv(p)

\* A step keeps the invariant and leaves only signed skills.
SkillStep == SkillInv' /\ K!SkillsAreSigned

LEMMA SkillFacts ==
  ASSUME SkillBounds
  PROVE  /\ K!Skills \subseteq Nat /\ 0 \in 0..MaxContent /\ 1 \in 0..MaxContent
         /\ K!None \in K!Trees /\ {K!NoTree, K!HalfClone} \subseteq K!WorkingTrees
         /\ K!NoTree.sig = K!None /\ K!HalfClone.sig = K!None
         /\ K!Idle \in SkillPulls /\ K!Idle.at = "idle"
         /\ \A t \in K!Trees : K!Listed(t) \subseteq K!Skills /\ (t # K!None => K!Listed(t) # {})
<1>1. /\ K!Skills \subseteq Nat /\ 0 \in 0..MaxContent /\ 1 \in 0..MaxContent
  BY DEF SkillBounds, K!Skills
<1>2. K!None \in K!Trees
  BY <1>1 DEF K!None, K!Trees
<1>3. /\ {K!NoTree, K!HalfClone} \subseteq K!WorkingTrees
      /\ K!NoTree.sig = K!None /\ K!HalfClone.sig = K!None
  <2>1. K!NoTree \in K!WorkingTrees /\ K!NoTree.sig = K!None
    BY <1>2 DEF K!NoTree, K!WorkingTrees
  <2> QED BY <2>1 DEF K!HalfClone, K!WorkingTrees
<1>4. K!Idle \in SkillPulls /\ K!Idle.at = "idle"
  BY <1>2 DEF K!Idle, SkillPulls
<1>5. ASSUME NEW t \in K!Trees, K!Listed(t) = {} PROVE t = K!None
  BY <1>5 DEF K!Trees, K!None, K!Listed
<1>6. \A t \in K!Trees : K!Listed(t) \subseteq K!Skills
  BY DEF K!Listed
<1> QED BY <1>1, <1>2, <1>3, <1>4, <1>5, <1>6

LEMMA FirstSkill ==
  ASSUME NEW T, T \subseteq K!Skills, T # {}, SkillBounds
  PROVE  K!First(T) \in T
<1>1. T \subseteq Nat
  BY SkillFacts
<1>2. \E s \in T : \A t \in T : s <= t
  BY <1>1, LeastNumber
<1>3. K!First(T) = CHOOSE s \in T : \A t \in T : s <= t
  BY DEF K!First
<1> HIDE DEF K!First
<1> QED BY <1>2, <1>3, Zenon

\* The gateway commits or signs: the worker's side is untouched, and nothing that
\* was signed is forgotten.
LEMMA GatewayStep ==
  ASSUME SkillBounds, SkillInv, skillRepo' \in K!Commits, signing' \in K!Trees,
         skillEdits' \in 0..MaxEdits,
         signedSkills' \subseteq K!Trees, signedSkills \subseteq signedSkills',
         signing' # K!None => signing' \in signedSkills',
         skillRepo'.sig # K!None => skillRepo'.sig \in signedSkills',
         UNCHANGED <<tree, pulls, skills, pullsCrowded>>
  PROVE  SkillStep
<1>1. K!TypeOK'
  BY DEF SkillInv, K!TypeOK
<1>2. Signatures'
  BY DEF SkillInv, Signatures
<1>3. \A p \in Processes : CopyInv(p) => CopyInv(p)'
  BY DEF CopyInv, K!At
<1>4. (InPlace => InPlace') /\ (OnePull => OnePull')
  BY DEF InPlace, OnePull, K!At
<1>5. \A p \in Processes : (K!At(p, "copy"))' => Copies(pulls'[p])
  BY DEF SkillInv, K!At
<1>6. SkillInv'
  BY <1>1, <1>2, <1>3, <1>4, <1>5 DEF SkillInv
<1>7. K!SkillsAreSigned
  BY <1>4 DEF SkillInv, InPlace, K!SkillsAreSigned
<1> QED BY <1>6, <1>7 DEF SkillStep

LEMMA SkillGateway ==
  ASSUME SkillBounds, SkillInv,
         \/ \E s \in K!Skills, c \in 0..MaxContent : K!Edit(s, c)
         \/ K!runSkillSyncSign
         \/ K!WriteSignature
  PROVE  SkillStep
<1>0. /\ skillRepo \in K!Commits /\ signing \in K!Trees /\ signedSkills \subseteq K!Trees
      /\ skillRepo.data \in K!Trees /\ K!None \in K!Trees /\ Signatures
      /\ skillEdits \in 0..MaxEdits
  BY SkillFacts DEF SkillInv, K!TypeOK, K!Commits
<1>1. ASSUME NEW s \in K!Skills, NEW c \in 0..MaxContent, K!Edit(s, c) PROVE SkillStep
  <2>1. /\ skillEdits < MaxEdits /\ skillEdits' = skillEdits + 1
        /\ skillRepo' = [skillRepo EXCEPT !.data[s] = c]
        /\ UNCHANGED <<signing, tree, pulls, skills, signedSkills, pullsCrowded>>
    BY <1>1 DEF K!Edit
  <2> DEFINE d == [skillRepo.data EXCEPT ![s] = c]
  <2>2. skillRepo' = [skillRepo EXCEPT !.data = d]
    BY <2>1
  <2>3. d \in K!Trees
    BY <1>0 DEF K!Trees
  <2> HIDE DEF d
  <2>4. skillRepo' \in K!Commits /\ skillRepo'.sig = skillRepo.sig
    BY <1>0, <2>2, <2>3 DEF K!Commits
  <2>5. skillEdits' \in 0..MaxEdits
    BY <1>0, <2>1 DEF SkillBounds
  <2> QED BY <1>0, <2>1, <2>4, <2>5, GatewayStep DEF Signatures
<1>2. CASE K!runSkillSyncSign
  <2>1. /\ skillRepo' = [skillRepo EXCEPT !.man = skillRepo.data] /\ signing' = skillRepo.data
        /\ signedSkills' = signedSkills \cup {skillRepo.data}
        /\ UNCHANGED <<tree, pulls, skills, pullsCrowded, skillEdits>>
    BY <1>2 DEF K!runSkillSyncSign
  <2>2. skillRepo' \in K!Commits /\ skillRepo'.sig = skillRepo.sig
    BY <1>0, <2>1 DEF K!Commits
  <2>3. /\ signedSkills' \subseteq K!Trees /\ signedSkills \subseteq signedSkills'
        /\ signing' \in signedSkills' /\ signing' \in K!Trees
    BY <1>0, <2>1
  <2>4. skillRepo'.sig # K!None => skillRepo'.sig \in signedSkills'
    BY <1>0, <2>2, <2>3 DEF Signatures
  <2> QED BY <1>0, <2>1, <2>2, <2>3, <2>4, GatewayStep
<1>3. CASE K!WriteSignature
  <2>1. /\ signing # K!None /\ skillRepo' \in {skillRepo, [skillRepo EXCEPT !.sig = signing]}
        /\ signing' = K!None /\ UNCHANGED <<tree, pulls, skills, signedSkills, pullsCrowded, skillEdits>>
    BY <1>3 DEF K!WriteSignature
  <2>2. skillRepo' \in K!Commits /\ skillRepo'.sig \in {skillRepo.sig, signing}
    BY <1>0, <2>1 DEF K!Commits
  <2>3. skillRepo'.sig # K!None => skillRepo'.sig \in signedSkills'
    BY <1>0, <2>1, <2>2 DEF Signatures
  <2> QED BY <1>0, <2>1, <2>2, <2>3, GatewayStep
<1> QED BY <1>1, <1>2, <1>3

\* A pull takes a step that places no file: it may begin, check out another
\* commit, verify, or end.
LEMMA PullStep ==
  ASSUME SkillBounds, SkillInv, NEW p \in Processes, NEW r \in SkillPulls,
         pulls' = [pulls EXCEPT ![p] = r],
         r.at # "copy" \/ (/\ r.todo = K!Listed(r.man) /\ r.todo # {} /\ r.man \in signedSkills
                           /\ tree' = tree /\ \A s \in K!Listed(r.man) : tree.data[s] = r.man[s]
                           /\ ~K!At(p, "idle")),
         tree' \in K!WorkingTrees, tree'.sig # K!None => tree'.sig \in signedSkills,
         tree' # tree => ~K!At(p, "idle"),
         pullsCrowded' \in BOOLEAN, ~pullsCrowded' => ~pullsCrowded,
         K!At(p, "idle") /\ ~pullsCrowded' => \A q \in Processes : q # p => K!At(q, "idle"),
         UNCHANGED <<skillRepo, signing, signedSkills, skillEdits, skills>>
  PROVE  SkillStep
<1>0. pulls \in [Processes -> SkillPulls]
  BY DEF SkillInv, K!TypeOK, SkillPulls
<1>1. /\ pulls' \in [Processes -> SkillPulls] /\ pulls'[p] = r
      /\ \A q \in Processes : q # p => pulls'[q] = pulls[q]
  BY <1>0
<1>2. K!TypeOK'
  BY <1>1 DEF SkillInv, K!TypeOK, SkillPulls
<1>3. Signatures'
  BY DEF SkillInv, Signatures
<1>4. \A q \in Processes : (K!At(q, "copy"))' => Copies(pulls'[q])
  BY <1>1 DEF SkillInv, K!At, Copies
<1>5. ASSUME ~pullsCrowded', NEW q \in Processes, q # p PROVE K!At(q, "idle") \/ K!At(p, "idle")
  BY <1>5 DEF SkillInv, OnePull
<1>6. ASSUME ~pullsCrowded', NEW q \in Processes, q # p PROVE K!At(q, "idle") \/ r.at = "idle"
  BY <1>5, <1>6
<1>7. ASSUME ~pullsCrowded' PROVE OnePull'
  <2>1. \A q \in Processes : q # p => pulls[q].at = "idle"
    BY <1>5, <1>7 DEF K!At
  <2>2. \A q \in Processes : q # p => pulls'[q].at = "idle"
    BY <1>1, <2>1
  <2> QED BY <2>2 DEF OnePull, K!At
<1>8. ASSUME ~pullsCrowded', NEW q \in Processes PROVE CopyInv(q)'
  <2>1. CASE q = p
    BY <1>1, <2>1 DEF CopyInv, K!At
  <2>2. CASE q # p
    BY <1>1, <1>5, <1>8, <2>2 DEF CopyInv, K!At
  <2> QED BY <2>1, <2>2
<1>9. ~pullsCrowded => InPlace' /\ InPlace
  BY DEF SkillInv, InPlace
<1>10. SkillInv'
  BY <1>2, <1>3, <1>4, <1>7, <1>8, <1>9 DEF SkillInv
<1>11. K!SkillsAreSigned
  BY <1>9 DEF InPlace, K!SkillsAreSigned
<1> QED BY <1>10, <1>11 DEF SkillStep

LEMMA SkillPull ==
  ASSUME SkillBounds, SkillInv, NEW p \in Processes,
         \/ K!runSkillSyncPullOrVerify(p)
         \/ K!Clone(p) \/ K!Fetch(p)
         \/ K!verifyOnDisk(p) \/ K!Apply(p) \/ K!PullFails(p)
  PROVE  SkillStep
<1>0. /\ pulls \in [Processes -> SkillPulls] /\ pulls[p] \in SkillPulls /\ tree \in K!WorkingTrees
      /\ skillRepo \in K!Commits /\ Signatures /\ pullsCrowded \in BOOLEAN
      /\ K!Idle \in SkillPulls /\ K!Idle.at = "idle" /\ signedSkills \subseteq K!Trees
  BY SkillFacts DEF SkillInv, K!TypeOK, SkillPulls
<1>t. tree.sig # K!None => tree.sig \in signedSkills
  BY <1>0 DEF Signatures
<1>e. ASSUME ~K!At(p, "idle"), K!End(p), tree' \in {tree, K!NoTree, K!HalfClone},
             UNCHANGED <<skillRepo, signing, signedSkills, skillEdits, skills, pullsCrowded>>
      PROVE  SkillStep
  <2>1. pulls' = [pulls EXCEPT ![p] = K!Idle]
    BY <1>e DEF K!End
  <2>2. tree' \in K!WorkingTrees /\ (tree'.sig # K!None => tree'.sig \in signedSkills)
    BY <1>0, <1>t, <1>e, SkillFacts
  <2> QED BY <1>0, <1>e, <2>1, <2>2, PullStep
<1>s. ASSUME NEW r \in SkillPulls, pulls' = [pulls EXCEPT ![p] = r], r.at # "copy", ~K!At(p, "idle"),
             UNCHANGED <<skillRepo, signing, signedSkills, skillEdits, tree, skills, pullsCrowded>>
      PROVE  SkillStep
  BY <1>0, <1>t, <1>s, PullStep
<1>g. ASSUME NEW r \in SkillPulls, pulls' = [pulls EXCEPT ![p] = r], r.at # "copy", ~K!At(p, "idle"),
             tree' = K!Checkout,
             UNCHANGED <<skillRepo, signing, signedSkills, skillEdits, skills, pullsCrowded>>
      PROVE  SkillStep
  <2>1. tree' \in K!WorkingTrees /\ (tree'.sig # K!None => tree'.sig \in signedSkills)
    BY <1>0, <1>g DEF Signatures, K!Checkout, K!WorkingTrees, K!Commits
  <2> QED BY <1>0, <1>g, <2>1, PullStep
<1>1. CASE K!runSkillSyncPullOrVerify(p)
  <2>2. /\ K!At(p, "idle")
        /\ pullsCrowded' = (pullsCrowded \/ \E q \in Processes \ {p} : ~K!At(q, "idle"))
        /\ UNCHANGED <<skillRepo, signing, signedSkills, skillEdits, tree, skills>>
    BY <1>1 DEF K!runSkillSyncPullOrVerify, K!gateway
  <2>w. PICK way \in {"clone", "fetch"} : way = IF tree.git THEN "fetch" ELSE "clone"
    OBVIOUS
  <2> DEFINE r == [pulls[p] EXCEPT !.at = way]
  <2>3. pulls' = [pulls EXCEPT ![p] = r]
    BY <1>0, <1>1, <2>w DEF K!runSkillSyncPullOrVerify, K!Goto
  <2>4. r \in SkillPulls /\ r.at # "copy"
    BY <1>0, <2>w DEF SkillPulls
  <2> HIDE DEF r
  <2>5. /\ pullsCrowded' \in BOOLEAN
        /\ ~pullsCrowded' => ~pullsCrowded /\ \A q \in Processes : q # p => K!At(q, "idle")
    BY <1>0, <2>2
  <2>6. tree' \in K!WorkingTrees /\ (tree'.sig # K!None => tree'.sig \in signedSkills) /\ tree' = tree
    BY <1>0, <1>t, <2>2
  <2> QED BY <2>2, <2>3, <2>4, <2>5, <2>6, PullStep
<1>2. CASE K!Clone(p) \/ K!Fetch(p)
  <2> DEFINE r == [pulls[p] EXCEPT !.at = "verify"]
  <2>1. /\ pulls' = [pulls EXCEPT ![p] = r] /\ tree' = K!Checkout /\ ~K!At(p, "idle")
        /\ UNCHANGED <<skillRepo, signing, signedSkills, skillEdits, skills, pullsCrowded>>
    BY <1>0, <1>2 DEF K!Clone, K!Fetch, K!Goto, K!At, K!gateway
  <2>2. r \in SkillPulls /\ r.at # "copy"
    BY <1>0 DEF SkillPulls
  <2> HIDE DEF r
  <2> QED BY <1>g, <2>1, <2>2
<1>3. CASE K!verifyOnDisk(p)
  <2>1. /\ ~K!At(p, "idle") /\ UNCHANGED <<skillRepo, signing, signedSkills, skillEdits, tree, skills, pullsCrowded>>
        /\ K!Goto(p, "reverify") \/ K!End(p)
    BY <1>3 DEF K!verifyOnDisk, K!gateway, K!At
  <2>2. CASE K!Goto(p, "reverify")
    <3> DEFINE r == [pulls[p] EXCEPT !.at = "reverify"]
    <3>1. pulls' = [pulls EXCEPT ![p] = r]
      BY <1>0, <2>2 DEF K!Goto
    <3>2. r \in SkillPulls /\ r.at # "copy"
      BY <1>0 DEF SkillPulls
    <3> HIDE DEF r
    <3> QED BY <1>s, <2>1, <3>1, <3>2
  <2> QED BY <1>e, <2>1, <2>2
<1>4. CASE K!Apply(p)
  <2>1. ~K!At(p, "idle") /\ UNCHANGED <<skillRepo, signing, signedSkills, skillEdits, tree, skills, pullsCrowded>>
    BY <1>4 DEF K!Apply, K!gateway, K!At
  <2>2. CASE K!Verified(tree)
    <3> DEFINE r == [pulls[p] EXCEPT !.at = "copy", !.man = tree.man,
                                !.todo = K!Listed(tree.man)]
    <3>1. pulls' = [pulls EXCEPT ![p] = r]
      BY <1>0, <1>4, <2>2 DEF K!Apply
    <3>2. /\ tree.man \in signedSkills /\ tree.man # K!None /\ tree.man \in K!Trees
          /\ \A s \in K!Listed(tree.man) : tree.data[s] = tree.man[s]
      BY <1>0, <1>t, <2>2 DEF K!Verified
    <3>3. r \in SkillPulls /\ r.at = "copy" /\ r.todo = K!Listed(tree.man) /\ r.man = tree.man
      BY <1>0, <3>2, SkillFacts DEF SkillPulls
    <3>4. K!Listed(tree.man) # {}
      BY <3>2, SkillFacts
    <3> HIDE DEF r
    <3> QED BY <1>0, <1>t, <2>1, <3>1, <3>2, <3>3, <3>4, PullStep
  <2>3. CASE ~K!Verified(tree)
    BY <1>4, <1>e, <2>1, <2>3 DEF K!Apply
  <2> QED BY <2>2, <2>3
<1>5. CASE K!PullFails(p)
  BY <1>5, <1>e DEF K!PullFails, K!gateway
<1> QED BY <1>1, <1>2, <1>3, <1>4, <1>5

\* One file is put in place: from the tree that was verified, if no other pull
\* has been at it.
LEMMA SkillCopy ==
  ASSUME SkillBounds, SkillInv, NEW p \in Processes, K!CopyFile(p)
  PROVE  SkillStep
<1>0. /\ pulls \in [Processes -> SkillPulls] /\ pulls[p] \in SkillPulls /\ tree \in K!WorkingTrees
      /\ K!Idle \in SkillPulls /\ K!Idle.at = "idle" /\ skills \in K!Trees /\ signedSkills \subseteq K!Trees
  BY SkillFacts DEF SkillInv, K!TypeOK, SkillPulls
<1> DEFINE s == K!First(pulls[p].todo)
<1>1. /\ K!At(p, "copy") /\ UNCHANGED <<skillRepo, signing, signedSkills, skillEdits, tree, pullsCrowded>>
      /\ skills' = IF skills[s] = pulls[p].man[s] THEN skills ELSE [skills EXCEPT ![s] = tree.data[s]]
      /\ IF pulls[p].todo = {s} THEN pulls' = [pulls EXCEPT ![p] = K!Idle]
         ELSE pulls' = [pulls EXCEPT ![p].todo = @ \ {s}]
  BY DEF K!CopyFile, K!gateway, K!End
<1>2. /\ pulls[p].todo # {} /\ pulls[p].todo \subseteq K!Skills
      /\ pulls[p].todo \subseteq K!Listed(pulls[p].man)
  BY <1>0, <1>1 DEF SkillInv, SkillPulls, Copies
<1>3. s \in pulls[p].todo /\ s \in K!Skills /\ s \in K!Listed(pulls[p].man)
  BY <1>2, FirstSkill
<1> HIDE DEF s
<1>4. tree.data \in K!Trees /\ pulls[p].man \in K!Trees
  BY <1>0 DEF K!WorkingTrees, SkillPulls
<1>5. /\ skills' \in K!Trees /\ skills'[s] \in {pulls[p].man[s], tree.data[s]}
      /\ \A t \in K!Skills : t # s => skills'[t] = skills[t]
  <2>1. tree.data[s] \in 0..MaxContent
    BY <1>3, <1>4 DEF K!Trees
  <2> QED BY <1>0, <1>1, <1>3, <2>1 DEF K!Trees
<1>6. PICK r \in SkillPulls : /\ pulls' = [pulls EXCEPT ![p] = r]
                         /\ \/ pulls[p].todo = {s} /\ r.at = "idle"
                            \/ /\ pulls[p].todo # {s} /\ r.at = "copy" /\ r.man = pulls[p].man
                               /\ r.todo = pulls[p].todo \ {s}
  <2>1. CASE pulls[p].todo = {s}
    BY <1>0, <1>1, <2>1
  <2>2. CASE pulls[p].todo # {s}
    <3> DEFINE r == [pulls[p] EXCEPT !.todo = @ \ {s}]
    <3>1. pulls' = [pulls EXCEPT ![p] = r]
      BY <1>0, <1>1, <2>2
    <3>2. r \in SkillPulls /\ r.at = "copy" /\ r.man = pulls[p].man /\ r.todo = pulls[p].todo \ {s}
      BY <1>0, <1>1 DEF SkillPulls, K!At
    <3> HIDE DEF r
    <3> QED BY <2>2, <3>1, <3>2
  <2> QED BY <2>1, <2>2
<1>7. /\ pulls' \in [Processes -> SkillPulls] /\ pulls'[p] = r
      /\ \A q \in Processes : q # p => pulls'[q] = pulls[q]
  BY <1>0, <1>6
<1>8. K!TypeOK'
  BY <1>1, <1>5, <1>7 DEF SkillInv, K!TypeOK, SkillPulls
<1>9. Signatures'
  BY <1>1 DEF SkillInv, Signatures
<1>10. \A q \in Processes : (K!At(q, "copy"))' => Copies(pulls'[q])
  BY <1>2, <1>3, <1>6, <1>7 DEF SkillInv, K!At, Copies
<1>11. ASSUME ~pullsCrowded
       PROVE  /\ \A q \in Processes : q # p => pulls[q].at = "idle"
              /\ pulls[p].man \in signedSkills /\ skills'[s] = pulls[p].man[s] /\ InPlace
              /\ \A t \in K!Listed(pulls[p].man) :
                     tree.data[t] = pulls[p].man[t] /\ (t \in pulls[p].todo \/ skills[t] = pulls[p].man[t])
  <2>1. CopyInv(p) /\ OnePull /\ InPlace
    BY <1>11 DEF SkillInv
  <2>2. /\ pulls[p].man \in signedSkills
        /\ \A t \in K!Listed(pulls[p].man) :
               tree.data[t] = pulls[p].man[t] /\ (t \in pulls[p].todo \/ skills[t] = pulls[p].man[t])
    BY <1>1, <2>1 DEF CopyInv
  <2>3. \A q \in Processes : q # p => pulls[q].at = "idle"
    BY <1>1, <2>1 DEF OnePull, K!At
  <2> QED BY <1>3, <1>5, <2>1, <2>2, <2>3
<1>12. ASSUME ~pullsCrowded PROVE InPlace'
  BY <1>1, <1>5, <1>11, <1>12 DEF InPlace
<1>13. ASSUME ~pullsCrowded PROVE OnePull' /\ \A q \in Processes : CopyInv(q)'
  <2>1. \A q \in Processes : q # p => pulls'[q].at = "idle"
    BY <1>7, <1>11, <1>13
  <2>2. OnePull'
    BY <2>1 DEF OnePull, K!At
  <2>3. CopyInv(p)'
    <3>1. \A t \in K!Listed(pulls[p].man) : t \in K!Skills
      BY <1>4, SkillFacts
    <3>2. \A t \in K!Listed(pulls[p].man) : t \in pulls[p].todo \ {s} \/ skills'[t] = pulls[p].man[t]
      BY <1>5, <1>11, <1>13, <3>1
    <3> QED BY <1>1, <1>6, <1>7, <1>11, <1>13, <3>2 DEF CopyInv, K!At
  <2>4. \A q \in Processes : q # p => CopyInv(q)'
    BY <2>1 DEF CopyInv, K!At
  <2> QED BY <2>2, <2>3, <2>4
<1>14. SkillInv'
  BY <1>1, <1>8, <1>9, <1>10, <1>12, <1>13 DEF SkillInv
<1>15. K!SkillsAreSigned
  <2>1. pullsCrowded' \/ \A t \in K!Skills : skills'[t] # 0 => \E m \in signedSkills' : m[t] = skills'[t]
    BY <1>1, <1>12 DEF InPlace
  <2>2. ASSUME NEW q \in Processes, K!At(q, "copy"), ~pullsCrowded
        PROVE  /\ \A t \in K!Skills : skills'[t] # skills[t] => t \in K!Listed(pulls[q].man)
               /\ pulls'[q].at = "idle" =>
                      \A t \in K!Listed(pulls[q].man) : skills'[t] = pulls[q].man[t]
    <3>1. q = p
      BY <1>11, <2>2 DEF K!At
    <3>2. pulls'[p].at = "idle" => pulls[p].todo = {s}
      BY <1>6, <1>7
    <3>3. \A t \in K!Listed(pulls[p].man) : t \in K!Skills
      BY <1>4, SkillFacts
    <3> QED BY <1>3, <1>5, <1>11, <2>2, <3>1, <3>2, <3>3
  <2> QED BY <2>1, <2>2 DEF K!SkillsAreSigned
<1> QED BY <1>14, <1>15 DEF SkillStep

LEMMA SkillNext ==
  ASSUME SkillBounds, SkillInv, [K!Next]_(K!vars)
  PROVE  SkillStep
<1>0. /\ K!TypeOK /\ pulls \in [Processes -> SkillPulls] /\ tree \in K!WorkingTrees /\ Signatures
      /\ skillRepo \in K!Commits /\ signing \in K!Trees /\ signedSkills \subseteq K!Trees
      /\ tree.data \in K!Trees /\ skillEdits \in 0..MaxEdits
  BY DEF SkillInv, K!TypeOK, SkillPulls, K!Commits, K!WorkingTrees
<1>1. CASE UNCHANGED K!vars
  <2>1. UNCHANGED <<skillRepo, signing, tree, pulls, skills, signedSkills, pullsCrowded, skillEdits>>
    BY <1>1 DEF K!vars
  <2> QED BY <1>0, <2>1, GatewayStep DEF Signatures
<1>2. ASSUME NEW s \in K!Skills, K!LocalEdit(s) PROVE SkillStep
  <2>1. /\ \A p \in Processes : pulls[p].at # "copy"
        /\ tree' = [tree EXCEPT !.data[s] = MaxContent]
        /\ UNCHANGED <<skillRepo, signing, signedSkills, skillEdits, pulls, skills, pullsCrowded>>
    BY <1>2 DEF K!LocalEdit, K!gateway, K!At
  <2> DEFINE d == [tree.data EXCEPT ![s] = MaxContent]
  <2>2. d \in K!Trees /\ tree' = [tree EXCEPT !.data = d]
    BY <1>0, <2>1 DEF K!Trees, SkillBounds
  <2> HIDE DEF d
  <2>3. tree' \in K!WorkingTrees /\ tree'.sig = tree.sig
    BY <1>0, <2>2 DEF K!WorkingTrees
  <2>4. K!TypeOK'
    BY <1>0, <2>1, <2>3 DEF K!TypeOK
  <2>5. Signatures'
    BY <1>0, <2>1, <2>3 DEF Signatures
  <2>6. (OnePull => OnePull') /\ (InPlace => InPlace') /\ \A p \in Processes : CopyInv(p)'
    BY <2>1 DEF OnePull, InPlace, CopyInv, K!At
  <2>7. SkillInv'
    BY <2>1, <2>4, <2>5, <2>6 DEF SkillInv, K!At
  <2>8. K!SkillsAreSigned
    BY <2>1 DEF SkillInv, InPlace, K!SkillsAreSigned, K!At
  <2> QED BY <2>7, <2>8 DEF SkillStep
<1> QED BY <1>1, <1>2, SkillGateway, SkillPull, SkillCopy DEF K!Next

\* The subsystem by itself.
LEMMA SkillsAlone == K!Spec => []SkillInv
<1>0. SkillBounds
  BY OperationsAssumption DEF SkillBounds
<1> USE <1>0
<1>1. K!Init => SkillInv
  <2> SUFFICES ASSUME K!Init PROVE SkillInv
    OBVIOUS
  <2>1. [s \in K!Skills |-> 1] \in K!Trees
    BY SkillFacts DEF K!Trees
  <2>2. skillRepo \in K!Commits /\ skillRepo.sig = K!None
    BY <2>1, SkillFacts DEF K!Init, K!Commits
  <2>3. pulls \in [Processes -> SkillPulls] /\ \A p \in Processes : pulls[p].at = "idle"
    BY SkillFacts DEF K!Init
  <2>4. /\ signing = K!None /\ tree = K!NoTree /\ skills = K!None /\ signedSkills = {}
        /\ pullsCrowded = FALSE /\ skillEdits = 0
    BY DEF K!Init
  <2>t. tree \in K!WorkingTrees /\ skillEdits \in 0..MaxEdits
    BY <2>4, SkillFacts DEF SkillBounds
  <2>5. K!TypeOK
    BY <2>2, <2>3, <2>4, <2>t, SkillFacts DEF K!TypeOK, SkillPulls
  <2>6. Signatures
    BY <2>2, <2>4, SkillFacts DEF Signatures
  <2>7. InPlace
    BY <2>4 DEF InPlace, K!None
  <2> QED BY <2>3, <2>5, <2>6, <2>7 DEF SkillInv, OnePull, CopyInv, K!At
<1>2. SkillInv /\ [K!Next]_(K!vars) => SkillInv'
  BY SkillNext DEF SkillStep
<1> QED BY <1>1, <1>2, PTL DEF K!Spec

\* For any skills, contents and pulling processes: while pulls do not overlap,
\* every skill in place is one a signed manifest lists, and a pull that copied its
\* last file leaves every skill its manifest lists as listed and has touched no
\* other, whatever was committed, added, dropped, half signed or edited before.
THEOREM SkillsSigned == Spec => SkillsAreSigned
<1>1. Init /\ which = "skillsync" => K!Init
  BY DEF Init
<1>2. [Next]_vars /\ which = "skillsync" => [K!Next]_(K!vars)
  BY DEF Next, vars, K!vars
<1>3. [Next]_vars => (which = "skillsync" <=> (which = "skillsync")')
  BY OneSubsystem
<1>4. SkillInv /\ [K!Next]_(K!vars) => K!SkillsAreSigned
  BY OperationsAssumption, SkillNext DEF SkillBounds, SkillStep
<1> QED
  BY <1>1, <1>2, <1>3, <1>4, SkillsAlone, PTL DEF Spec, K!Spec, SkillsAreSigned

HIDE DEF skillRepo, signing, tree, pulls, skills, signedSkills, pullsCrowded, skillEdits
=============================================================================
