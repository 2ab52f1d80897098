---------------------------- MODULE Ledger_proof ----------------------------
(***************************************************************************)
(* For any clock bound, any number of power losses and any length of the   *)
(* file, while a task has one appender: the types, that an acknowledged    *)
(* entry survives power losses, and that the poller of fleet.LedgerTail    *)
(* gets every entry exactly once.                                          *)
(*                                                                         *)
(* What ReadSince returns for a file of any length is proved by induction  *)
(* over the file, from the least-number principle.                         *)
(***************************************************************************)
EXTENDS Ledger, SequenceTheorems, WellFoundedInduction, TLAPS

\* The task has one appender.  With two, the file is out of Ts order and one of
\* them may acknowledge before the other has fsynced the directory.
OneWriter == \A v, w \in env.writers : v = w

\* An entry that is being appended has been stamped.
StampInv == \A w \in Writers : pc[w] # "idle" => ts[w] \in 1..MaxTs

\* The file is in the order of the clock, and so is what the poller was given;
\* an entry that is still to be written is later than both.
OrderInv ==
    /\ \A m, n \in DOMAIN file : m < n => file[m].ts < file[n].ts
    /\ \A n \in DOMAIN file : file[n].ts < now
    /\ cursor < now
    /\ \A w \in env.writers : pc[w] \in {"stat", "write"} =>
           /\ cursor < ts[w] /\ ts[w] < now
           /\ \A n \in DOMAIN file : file[n].ts < ts[w]
    /\ \A m, n \in DOMAIN seen : m < n => seen[m] < seen[n]
    /\ \A n \in DOMAIN seen : seen[n] <= cursor
    /\ \A n \in DOMAIN file : file[n].ts <= cursor => Seen(file[n].ts)

\* The line of t, and the newline before it, are on the platter.
OnPlatter(t) == \E n \in 1..onDisk :
                    file[n] = [ts |-> t, whole |-> TRUE] /\ (n = 1 \/ file[n - 1].whole)

\* A file has a directory entry on the platter, or its first appender is about
\* to see to it, or died before it did; what is acknowledged is on the platter,
\* unless it was written to such a file or behind a torn fragment.
DurableInv ==
    /\ ~exists => file = <<>>
    /\ \A w \in env.writers : pc[w] = "write" => first[w] = ~exists
    /\ \A w \in env.writers : pc[w] \in {"sync", "dirsync"} =>
           /\ exists /\ file # <<>>
           /\ file[Len(file)] = [ts |-> ts[w], whole |-> TRUE]
           /\ ts[w] \notin unsafe => ~orphan /\ (Len(file) = 1 \/ file[Len(file) - 1].whole)
    /\ \A w \in env.writers : pc[w] = "dirsync" => onDisk = Len(file)
    /\ exists => \/ dirent \/ orphan
                 \/ \E w \in env.writers : pc[w] \in {"sync", "dirsync"} /\ first[w]
    /\ \A t \in acked \ unsafe : dirent /\ OnPlatter(t)

IInv == /\ TypeOK /\ StampInv
        /\ OneWriter => OrderInv
        /\ OneWriter /\ ~DiskFails => DurableInv
-----------------------------------------------------------------------------
(***************************************************************************)
(* ReadSince, by induction over the file                                   *)
(***************************************************************************)

\* The least-number principle.
LEMMA LeastNumber ==
  ASSUME NEW T, T \subseteq Nat, T # {}
  PROVE  \E x \in T : \A y \in T : x <= y
<1>1. PICK x \in T : \A y \in T : ~(<<y, x>> \in OpToRel(<, Nat))
  BY WFMin, NatLessThanWellFounded
<1>2. ASSUME NEW y \in T, y < x PROVE FALSE
  <2>1. <<y, x>> \in Nat \X Nat /\ <<y, x>>[1] < <<y, x>>[2]
    BY <1>2
  <2>2. <<y, x>> \in {ss \in Nat \X Nat : ss[1] < ss[2]}
    BY <2>1
  <2>3. OpToRel(<, Nat) = {ss \in Nat \X Nat : ss[1] < ss[2]}
    BY Zenon DEF OpToRel
  <2> QED
    BY <1>1, <2>2, <2>3
<1>3. \A y \in T : x \in Int /\ y \in Int /\ ~(y < x)
  BY <1>2
<1> QED
  BY <1>3

\* Lines 1 .. n of the file, given what was selected from the lines before.
Selected(after, f, n) ==
    IF n = 0 THEN <<>>
    ELSE IF file[n].ts > after THEN Append(f[n - 1], file[n]) ELSE f[n - 1]

\* The loop of ReadSince is well defined.
LEMMA SelectedExists ==
  ASSUME file \in Seq(Fragments), NEW after \in Nat
  PROVE  \E f : f = [n \in 0..Len(file) |-> Selected(after, f, n)]
<1> DEFINE Q(m) == \E f : DOMAIN f = 0..m /\ \A n \in 0..m : f[n] = Selected(after, f, n)
           T == {m \in Nat : m <= Len(file) /\ ~Q(m)}
<1>0. Q(0)
  <2> DEFINE g == [n \in 0..0 |-> <<>>]
  <2>1. DOMAIN g = 0..0 /\ \A n \in 0..0 : g[n] = Selected(after, g, n)
    BY DEF Selected
  <2> HIDE DEF g
  <2> QED
    BY <2>1
<1>1. ASSUME NEW m \in Nat, m < Len(file), Q(m) PROVE Q(m + 1)
  <2>1. PICK f : DOMAIN f = 0..m /\ \A n \in 0..m : f[n] = Selected(after, f, n)
    BY <1>1
  <2> DEFINE g == [n \in 0..(m + 1) |-> IF n = m + 1 THEN Selected(after, f, m + 1) ELSE f[n]]
  <2>2. ASSUME NEW n \in 0..(m + 1) PROVE g[n] = Selected(after, g, n)
    <3>1. n # 0 => n - 1 \in 0..m /\ g[n - 1] = f[n - 1]
      OBVIOUS
    <3>2. g[n] = Selected(after, f, n)
      BY <2>1
    <3> HIDE DEF g
    <3> QED
      BY <3>1, <3>2 DEF Selected
  <2>3. DOMAIN g = 0..(m + 1)
    OBVIOUS
  <2> HIDE DEF g
  <2> QED
    BY <2>2, <2>3
<1>2. Q(Len(file))
  <2> HIDE DEF Q
  <2> SUFFICES ASSUME T # {} PROVE FALSE
    OBVIOUS
  <2>1. PICK x \in T : \A y \in T : x <= y
    BY LeastNumber
  <2>2. x # 0
    BY <1>0
  <2>3. x - 1 \in Nat /\ x - 1 < Len(file) /\ x - 1 \notin T
    BY <2>1, <2>2
  <2> QED
    BY <1>1, <2>3
<1>3. PICK f : DOMAIN f = 0..Len(file) /\ \A n \in 0..Len(file) : f[n] = Selected(after, f, n)
  BY <1>2
<1> DEFINE h == [n \in 0..Len(file) |-> f[n]]
<1>4. h = [n \in 0..Len(file) |-> Selected(after, h, n)]
  <2>1. ASSUME NEW n \in 0..Len(file) PROVE h[n] = Selected(after, h, n)
    <3>1. h[n] = Selected(after, f, n) /\ (n # 0 => h[n - 1] = f[n - 1])
      BY <1>3
    <3> HIDE DEF h
    <3> QED
      BY <3>1 DEF Selected
  <2> HIDE DEF h
  <2> QED
    BY <2>1 DEF h
<1> HIDE DEF h
<1> QED
  BY <1>4

\* The file is in the order of the clock.
InOrder(s) == \A m, n \in DOMAIN s : m < n => s[m].ts < s[n].ts

\* got is what lines 1 .. n hold after the cursor.
Holds(got, after, n) ==
    /\ got \in Seq(Fragments)
    /\ \A k \in DOMAIN got : got[k].ts > after /\ \E m \in 1..n : file[m] = got[k]
    /\ \A m \in 1..n : file[m].ts > after => \E k \in DOMAIN got : got[k] = file[m]
    /\ InOrder(file) => InOrder(got)

\* ReadSince returns the entries after the cursor, all of them and no others, in
\* order if the file is in order.
LEMMA ReadSinceHolds ==
  ASSUME file \in Seq(Fragments), NEW after \in Nat
  PROVE  Holds(ReadSince(after), after, Len(file))
<1>1. PICK f : /\ f = [n \in 0..Len(file) |-> Selected(after, f, n)]
               /\ ReadSince(after) = f[Len(file)]
  BY SelectedExists DEF ReadSince, Selected
<1>2. \A n \in 0..Len(file) : f[n] = Selected(after, f, n)
  BY <1>1
<1> DEFINE T == {n \in Nat : n <= Len(file) /\ ~Holds(f[n], after, n)}
<1>3. Holds(f[0], after, 0)
  <2>1. f[0] = <<>>
    BY <1>2 DEF Selected
  <2> QED
    BY <2>1 DEF Holds, InOrder
<1>4. ASSUME NEW n \in 1..Len(file), Holds(f[n - 1], after, n - 1)
      PROVE  Holds(f[n], after, n)
  <2> DEFINE g == f[n - 1]
  <2>0. file[n] \in Fragments /\ n \in 0..Len(file) /\ n # 0
    OBVIOUS
  <2>s. f[n] = Selected(after, f, n)
    BY <1>2, <2>0
  <2>1. CASE file[n].ts > after
    <3>1. f[n] = Append(g, file[n])
      BY <2>0, <2>s, <2>1 DEF Selected
    <3>2. g \in Seq(Fragments)
      BY <1>4 DEF Holds
    <3> HIDE DEF g
    <3>3. /\ f[n] \in Seq(Fragments) /\ Len(f[n]) = Len(g) + 1
          /\ \A k \in 1..Len(g) : f[n][k] = g[k]
          /\ f[n][Len(g) + 1] = file[n]
      <4>1. Append(g, file[n]) \in Seq(Fragments)
        BY <2>0, <3>2
      <4>2. /\ Len(Append(g, file[n])) = Len(g) + 1
            /\ \A k \in 1..Len(g) : Append(g, file[n])[k] = g[k]
            /\ Append(g, file[n])[Len(g) + 1] = file[n]
        BY <2>0, <3>2
      <4> QED
        BY <3>1, <4>1, <4>2
    <3>4. ASSUME NEW k \in DOMAIN f[n]
          PROVE  f[n][k].ts > after /\ \E m \in 1..n : file[m] = f[n][k]
      <4>1. CASE k = Len(g) + 1
        BY <2>1, <3>3, <4>1
      <4>2. CASE k # Len(g) + 1
        <5>1. k \in DOMAIN g
          BY <3>2, <3>3, <4>2
        <5>2. f[n][k] = g[k]
          BY <3>2, <3>3, <5>1
        <5>3. g[k].ts > after /\ \E m \in 1..(n - 1) : file[m] = g[k]
          BY <1>4, <5>1 DEF Holds, g
        <5>4. \A m \in 1..(n - 1) : m \in 1..n
          OBVIOUS
        <5> QED
          BY <5>2, <5>3, <5>4
      <4> QED
        BY <4>1, <4>2
    <3>5. ASSUME NEW m \in 1..n, file[m].ts > after PROVE \E k \in DOMAIN f[n] : f[n][k] = file[m]
      <4>1. CASE m = n
        BY <3>2, <3>3, <4>1
      <4>2. CASE m # n
        <5>1. m \in 1..(n - 1)
          BY <4>2
        <5>2. PICK k \in DOMAIN g : g[k] = file[m]
          BY <1>4, <3>5, <5>1 DEF Holds, g
        <5> QED
          BY <3>2, <3>3, <5>2
      <4> QED
        BY <4>1, <4>2
    <3>6. ASSUME InOrder(file) PROVE InOrder(f[n])
      <4> SUFFICES ASSUME NEW j \in DOMAIN f[n], NEW k \in DOMAIN f[n], j < k
                   PROVE  f[n][j].ts < f[n][k].ts
        BY DEF InOrder
      <4>1. j \in DOMAIN g
        BY <3>2, <3>3
      <4>2. CASE k = Len(g) + 1
        <5>1. PICK m \in 1..(n - 1) : file[m] = g[j]
          BY <1>4, <4>1 DEF Holds, g
        <5>2. m \in DOMAIN file /\ n \in DOMAIN file /\ m < n
          OBVIOUS
        <5>3. file[m].ts < file[n].ts
          BY <3>6, <5>2 DEF InOrder
        <5> QED
          BY <3>2, <3>3, <4>1, <4>2, <5>1, <5>3
      <4>3. CASE k # Len(g) + 1
        <5>1. k \in DOMAIN g
          BY <3>2, <3>3, <4>3
        <5>2. g[j].ts < g[k].ts
          BY <1>4, <3>6, <4>1, <5>1 DEF Holds, InOrder, g
        <5> QED
          BY <3>2, <3>3, <4>1, <5>1, <5>2
      <4> QED
        BY <4>2, <4>3
    <3> QED
      BY <3>3, <3>4, <3>5, <3>6 DEF Holds
  <2>2. CASE ~(file[n].ts > after)
    <3>1. f[n] = g
      BY <2>0, <2>s, <2>2 DEF Selected
    <3>2. \A m \in 1..n : m \in 1..(n - 1) \/ m = n
      OBVIOUS
    <3>3. \A m \in 1..(n - 1) : m \in 1..n
      OBVIOUS
    <3> QED
      BY <1>4, <2>2, <3>1, <3>2, <3>3 DEF Holds
  <2> QED
    BY <2>1, <2>2
<1>5. ASSUME T # {} PROVE FALSE
  <2>1. PICK x \in T : \A y \in T : x <= y
    BY <1>5, LeastNumber
  <2>2. x # 0
    BY <1>3
  <2>3. x - 1 \in Nat /\ x \in 1..Len(file) /\ x - 1 \notin T
    BY <2>1, <2>2
  <2> QED
    BY <1>4, <2>3
<1> QED
  BY <1>1, <1>5

-----------------------------------------------------------------------------
(***************************************************************************)
(* Type correctness                                                        *)
(***************************************************************************)

\* Every environment names writers.
LEMMA EnvTyped ==
  ASSUME NEW e \in Envs
  PROVE  e.writers \subseteq Writers /\ e.powerLosses \in Nat /\ e.diskFails \in BOOLEAN
  BY LedgerAssumption DEF EnvRecords

\* Before the first Append everything is well typed.
LEMMA TypeInit == Init => TypeOK /\ StampInv
<1> SUFFICES ASSUME Init PROVE TypeOK /\ StampInv
  OBVIOUS
<1>1. file \in Seq(Fragments) /\ seen \in Seq(1..MaxTs) /\ onDisk \in 0..Len(file)
  BY DEF Init
<1>2. now \in 1..(MaxTs + 1) /\ cursor \in 0..MaxTs /\ ts \in [Writers -> 0..MaxTs]
  BY LedgerAssumption DEF Init
<1>3. losses \in 0..env.powerLosses
  BY EnvTyped DEF Init
<1> QED
  BY <1>1, <1>2, <1>3 DEF Init, TypeOK, StampInv, PCs

\* What a power loss leaves of the file: a beginning of it, in which at most
\* the last line is torn; with a directory entry all that was fsynced.
LEMMA PowerLossFile ==
  ASSUME TypeOK, PowerLoss
  PROVE  /\ file' \in Seq(Fragments) /\ onDisk' = Len(file') /\ Len(file') <= Len(file)
         /\ \A n \in 1..Len(file') : file'[n].ts = file[n].ts
         /\ dirent => onDisk <= Len(file') /\ \A n \in 1..onDisk : file'[n] = file[n]
         /\ exists' => exists /\ dirent'
         /\ dirent => dirent'
         /\ exists /\ ~exists' => file' = <<>>
         /\ exists' \in BOOLEAN /\ dirent' \in BOOLEAN /\ lost' \in BOOLEAN
<1>t. /\ file \in Seq(Fragments) /\ onDisk \in 0..Len(file) /\ Len(file) \in Nat
      /\ exists \in BOOLEAN /\ dirent \in BOOLEAN /\ lost \in BOOLEAN
  BY DEF TypeOK
<1> PICK keep \in onDisk..Len(file), torn \in BOOLEAN, linked \in {TRUE, dirent} :
         LET whole == IF linked THEN SubSeq(file, 1, keep) ELSE <<>>
         IN  /\ exists' = (exists /\ linked)
             /\ file' = IF torn /\ linked /\ keep < Len(file)
                        THEN Append(whole, [file[keep + 1] EXCEPT !.whole = FALSE])
                        ELSE whole
             /\ lost' = (lost \/ Len(file') < Len(file))
             /\ onDisk' = Len(file')
             /\ dirent' = (dirent \/ (linked /\ exists))
  BY DEF PowerLoss
<1>b. /\ exists' \in BOOLEAN /\ dirent' \in BOOLEAN /\ lost' \in BOOLEAN
      /\ exists' => exists /\ dirent'
      /\ dirent => dirent'
      /\ onDisk' = Len(file')
  BY <1>t
<1>k. keep \in Nat /\ onDisk <= keep /\ keep <= Len(file)
  BY <1>t
<1> DEFINE base == SubSeq(file, 1, keep)
<1>s. /\ base \in Seq(Fragments) /\ Len(base) = keep
      /\ \A n \in 1..keep : base[n] = file[n]
  BY <1>t, <1>k
<1> HIDE DEF base
<1>1. CASE ~linked
  <2>1. file' = <<>>
    BY <1>1
  <2>2. ~dirent
    BY <1>1, Zenon
  <2> QED
    BY <1>b, <1>t, <2>1, <2>2
<1>2. CASE linked /\ ~(torn /\ keep < Len(file))
  <2>1. file' = base /\ (exists => exists')
    BY <1>2 DEF base
  <2> QED
    BY <1>b, <1>t, <1>k, <1>s, <2>1
<1>3. CASE linked /\ torn /\ keep < Len(file)
  <2> DEFINE x == [file[keep + 1] EXCEPT !.whole = FALSE]
  <2>0. file[keep + 1] \in Fragments
    BY <1>t, <1>k, <1>3
  <2>x. x \in Fragments /\ x.ts = file[keep + 1].ts
    BY <2>0 DEF Fragments
  <2>1. file' = Append(base, x) /\ (exists => exists')
    BY <1>3 DEF base
  <2> HIDE DEF x
  <2>2. /\ Append(base, x) \in Seq(Fragments) /\ Len(Append(base, x)) = keep + 1
        /\ \A n \in 1..keep : Append(base, x)[n] = file[n]
        /\ Append(base, x)[keep + 1] = x
    BY <1>s, <1>k, <2>x
  <2>3. \A n \in 1..Len(file') : n \in 1..keep \/ n = keep + 1
    BY <1>k, <2>1, <2>2
  <2>4. \A n \in 1..onDisk : n \in 1..keep
    BY <1>k, <1>t
  <2> QED
    BY <1>b, <1>t, <1>k, <1>3, <2>x, <2>1, <2>2, <2>3, <2>4
<1> QED
  BY <1>1, <1>2, <1>3

\* What a poll hands out is well typed.
LEMMA PollTyped ==
  ASSUME TypeOK, Poll
  PROVE  /\ cursor' \in 0..MaxTs /\ seen' \in Seq(1..MaxTs)
         /\ UNCHANGED <<pc, ts, first, exists, file, onDisk, dirent, acked, now, history,
                        losses>>
<1> DEFINE got == ReadSince(cursor)
           new == [n \in DOMAIN got |-> got[n].ts]
<1>1. got \in Seq(Fragments) /\ got # <<>> /\ cursor' = got[Len(got)].ts /\ seen' = seen \o new
  BY ReadSinceHolds, LedgerAssumption DEF Poll, TypeOK, Holds
<1> HIDE DEF got
<1>2. Len(got) \in DOMAIN got /\ \A n \in DOMAIN got : got[n] \in Fragments
  BY <1>1
<1>3. new \in Seq(1..MaxTs)
  <2>1. \A n \in 1..Len(got) : got[n].ts \in 1..MaxTs
    BY <1>1, <1>2 DEF Fragments
  <2>2. DOMAIN got = 1..Len(got) /\ Len(got) \in Nat
    BY <1>1
  <2>3. new \in [1..Len(got) -> 1..MaxTs]
    BY <2>1, <2>2
  <2> HIDE DEF new
  <2> QED
    BY <2>2, <2>3, SeqDef
<1>4. cursor' \in 1..MaxTs
  BY <1>1, <1>2 DEF Fragments
<1>5. seen' \in Seq(1..MaxTs)
  <2> HIDE DEF new
  <2> QED
    BY <1>1, <1>3 DEF TypeOK
<1> QED
  BY <1>4, <1>5, LedgerAssumption DEF Poll, diskVars, history

\* Every step keeps the types.
LEMMA TypeNext == TypeOK /\ StampInv /\ [Next]_vars => TypeOK' /\ StampInv'
<1> SUFFICES ASSUME TypeOK, StampInv, [Next]_vars PROVE TypeOK' /\ StampInv'
  OBVIOUS
<1> USE DEF Goto, pollVars, diskVars, history, PCs
<1>0. UNCHANGED env /\ env.writers \subseteq Writers /\ env.powerLosses \in Nat
  BY EnvTyped DEF Next, vars, TypeOK
<1>1. ASSUME NEW w \in env.writers, Stamp(w) PROVE TypeOK' /\ StampInv'
  <2>1. /\ now \in 1..MaxTs /\ now' \in 1..(MaxTs + 1)
    BY <1>1, LedgerAssumption DEF Stamp, TypeOK
  <2>2. ts' \in [Writers -> 0..MaxTs] /\ pc' \in [Writers -> PCs]
    BY <1>0, <1>1, <2>1, LedgerAssumption DEF Stamp, TypeOK
  <2>3. StampInv'
    BY <1>0, <1>1, <2>1 DEF Stamp, StampInv, TypeOK
  <2> QED
    BY <1>0, <1>1, <2>1, <2>2, <2>3 DEF Stamp, TypeOK
<1>2. ASSUME NEW w \in env.writers, StatFile(w) PROVE TypeOK' /\ StampInv'
  BY <1>0, <1>2 DEF StatFile, TypeOK, StampInv
<1>3. ASSUME NEW w \in env.writers, WriteLine(w) PROVE TypeOK' /\ StampInv'
  <2>1. PICK whole \in BOOLEAN :
            /\ file' = Append(file, [ts |-> ts[w], whole |-> whole])
            /\ Goto(w, IF whole THEN "sync" ELSE "idle")
    BY <1>0, <1>3, EnvTyped DEF WriteLine, DiskFails, TypeOK
  <2>2. [ts |-> ts[w], whole |-> whole] \in Fragments
    BY <1>0, <1>3 DEF WriteLine, StampInv, Fragments
  <2>3. file' \in Seq(Fragments) /\ Len(file') = Len(file) + 1
    BY <2>1, <2>2 DEF TypeOK
  <2>4. onDisk \in 0..Len(file')
    BY <2>3 DEF TypeOK
  <2>5. unsafe' \subseteq 1..MaxTs
    BY <1>0, <1>3 DEF WriteLine, StampInv, TypeOK
  <2> QED
    BY <1>0, <1>3, <2>1, <2>3, <2>4, <2>5 DEF WriteLine, TypeOK, StampInv
<1>4. ASSUME NEW w \in env.writers, SyncFile(w) PROVE TypeOK' /\ StampInv'
  <2>1. ts[w] \in 1..MaxTs
    BY <1>0, <1>4 DEF SyncFile, StampInv
  <2>2. onDisk' \in 0..Len(file) /\ acked' \subseteq 1..MaxTs
    <3>1. /\ onDisk' \in {onDisk, Len(file)}
          /\ acked' \in {acked, acked \cup {ts[w]}}
      BY <1>4 DEF SyncFile
    <3>2. Len(file) \in 0..Len(file) /\ onDisk \in 0..Len(file) /\ acked \subseteq 1..MaxTs
      BY DEF TypeOK
    <3> QED
      BY <2>1, <3>1, <3>2
  <2>3. pc' \in [Writers -> PCs] /\ StampInv'
    BY <1>0, <1>4, <2>1 DEF SyncFile, TypeOK, StampInv
  <2> QED
    BY <1>0, <1>4, <2>2, <2>3 DEF SyncFile, TypeOK
<1>5. ASSUME NEW w \in env.writers, SyncDir(w) PROVE TypeOK' /\ StampInv'
  <2>1. ts[w] \in 1..MaxTs
    BY <1>0, <1>5 DEF SyncDir, StampInv
  <2> QED
    BY <1>0, <1>5, <2>1 DEF SyncDir, TypeOK, StampInv
<1>6. CASE PowerLoss
  <2>1. losses' \in 0..env.powerLosses
    BY <1>0, <1>6 DEF PowerLoss, TypeOK
  <2>2. Len(file') \in Nat
    BY <1>6, PowerLossFile
  <2>3. onDisk' \in 0..Len(file')
    BY <1>6, <2>2, PowerLossFile
  <2> QED
    BY <1>0, <1>6, <2>1, <2>3, PowerLossFile DEF PowerLoss, TypeOK, StampInv
<1>7. CASE Poll
  BY <1>0, <1>7, PollTyped DEF TypeOK, StampInv
<1>8. ASSUME NEW w \in env.writers, Crash(w) PROVE TypeOK' /\ StampInv'
  BY <1>0, <1>8 DEF Crash, TypeOK, StampInv
<1>9. CASE UNCHANGED vars
  BY <1>9 DEF vars, TypeOK, StampInv
<1> QED
  BY <1>1, <1>2, <1>3, <1>4, <1>5, <1>6, <1>7, <1>8, <1>9 DEF Next, AppendStep

\* The ledger's and the poller's state keeps its type for any writers and faults.
THEOREM TypeCorrect == Spec => []TypeOK
<1>1. Spec => [](TypeOK /\ StampInv)
  BY TypeInit, TypeNext, PTL DEF Spec
<1> QED
  BY <1>1, PTL

-----------------------------------------------------------------------------
(***************************************************************************)
(* The poller                                                              *)
(***************************************************************************)

\* A poll goes on where the last one ended.
LEMMA PollOrder ==
  ASSUME TypeOK, OrderInv, Poll, UNCHANGED env
  PROVE  OrderInv'
<1> DEFINE got == ReadSince(cursor)
           new == [n \in DOMAIN got |-> got[n].ts]
<1>u. UNCHANGED <<pc, ts, file, now>>
  BY DEF Poll, diskVars
<1>1. /\ Holds(got, cursor, Len(file)) /\ got # <<>>
      /\ cursor' = got[Len(got)].ts /\ seen' = seen \o new
  BY ReadSinceHolds, LedgerAssumption DEF Poll, TypeOK
<1>2. /\ file \in Seq(Fragments) /\ seen \in Seq(1..MaxTs)
      /\ cursor \in Int /\ now \in Int /\ MaxTs \in Nat
  BY LedgerAssumption DEF TypeOK
<1>g. got \in Seq(Fragments) /\ DOMAIN got = 1..Len(got) /\ Len(got) \in Nat /\ Len(got) # 0
  BY <1>1 DEF Holds
<1>f. /\ \A n \in DOMAIN file : file[n].ts \in Int
      /\ \A n \in DOMAIN seen : seen[n] \in Int
      /\ DOMAIN file = 1..Len(file) /\ DOMAIN seen = 1..Len(seen) /\ Len(seen) \in Nat
  <2>1. \A n \in 1..Len(file) : file[n] \in Fragments
    BY <1>2
  <2>2. \A n \in 1..Len(seen) : seen[n] \in 1..MaxTs
    BY <1>2
  <2>3. DOMAIN file = 1..Len(file) /\ DOMAIN seen = 1..Len(seen) /\ Len(seen) \in Nat
    BY <1>2
  <2>4. \A n \in DOMAIN seen : seen[n] \in Int
    BY <2>2, <2>3
  <2> QED
    BY <2>1, <2>3, <2>4 DEF Fragments
<1>h. /\ \A k \in DOMAIN got : got[k].ts > cursor /\ \E m \in DOMAIN file : file[m] = got[k]
      /\ \A m \in DOMAIN file : file[m].ts > cursor => \E k \in DOMAIN got : got[k] = file[m]
      /\ \A j, k \in DOMAIN got : j < k => got[j].ts < got[k].ts
  BY <1>1, <1>f DEF Holds, InOrder, OrderInv
<1> HIDE DEF got
<1>i. \A k \in DOMAIN got : got[k].ts \in Int
  BY <1>f, <1>h
<1>3. /\ DOMAIN seen' = 1..(Len(seen) + Len(got))
      /\ \A n \in 1..Len(seen) : seen'[n] = seen[n]
      /\ \A k \in 1..Len(got) : seen'[Len(seen) + k] = got[k].ts
  <2>1. /\ new \in Seq(Int) /\ Len(new) = Len(got)
        /\ \A k \in 1..Len(got) : new[k] = got[k].ts
    <3>1. new \in [1..Len(got) -> Int]
      BY <1>g, <1>i
    <3>2. new \in Seq(Int)
      BY <1>g, <3>1, SeqDef
    <3>3. DOMAIN new = 1..Len(got) /\ \A k \in 1..Len(got) : new[k] = got[k].ts
      BY <1>g
    <3> HIDE DEF new
    <3> QED
      BY <1>g, <3>2, <3>3
  <2>2. seen \in Seq(Int)
    BY <1>2, <1>f
  <2> HIDE DEF new
  <2>3. /\ Len(seen \o new) = Len(seen) + Len(new)
        /\ DOMAIN (seen \o new) = 1..(Len(seen) + Len(new))
        /\ \A n \in 1..Len(seen) : (seen \o new)[n] = seen[n]
    BY <2>1, <2>2
  <2>4. ASSUME NEW k \in 1..Len(got) PROVE (seen \o new)[Len(seen) + k] = new[k]
    BY <1>f, <1>g, <2>1, <2>2
  <2> QED
    BY <1>1, <2>1, <2>3, <2>4
<1>4. \A k \in 1..Len(got) : got[k].ts <= cursor'
  <2> SUFFICES ASSUME NEW k \in 1..Len(got) PROVE got[k].ts <= got[Len(got)].ts
    BY <1>1
  <2>1. CASE k = Len(got)
    BY <1>g, <1>i, <2>1
  <2>2. CASE k < Len(got)
    BY <1>g, <1>h, <1>i, <2>2
  <2>3. Len(got) \in Nat /\ k \in Nat /\ k <= Len(got)
    BY <1>g
  <2> QED
    BY <2>1, <2>2, <2>3
<1>5. PICK m \in DOMAIN file : cursor' = file[m].ts /\ file[m].ts > cursor
  BY <1>1, <1>g, <1>h
<1>6. /\ \A w \in env.writers : pc[w] \in {"stat", "write"} => cursor' < ts[w] /\ ts[w] < now
      /\ cursor' < now
  BY <1>5 DEF OrderInv
<1>7. \A n \in DOMAIN seen' :
          n \in 1..Len(seen) \/ \E k \in 1..Len(got) : n = Len(seen) + k
  <2> SUFFICES ASSUME NEW n \in DOMAIN seen', n \notin 1..Len(seen)
               PROVE  \E k \in 1..Len(got) : n = Len(seen) + k
    OBVIOUS
  <2>1. n - Len(seen) \in 1..Len(got) /\ n = Len(seen) + (n - Len(seen))
    BY <1>3, <1>f, <1>g
  <2> QED
    BY <2>1
<1>8. \A n \in DOMAIN seen' : seen'[n] <= cursor'
  <2> SUFFICES ASSUME NEW n \in DOMAIN seen' PROVE seen'[n] <= cursor'
    OBVIOUS
  <2>1. CASE n \in 1..Len(seen)
    <3>1. seen[n] <= cursor /\ seen'[n] = seen[n] /\ seen[n] \in Int
      BY <1>3, <1>f, <2>1 DEF OrderInv
    <3> QED
      BY <1>2, <1>5, <1>f, <3>1
  <2>2. ASSUME NEW k \in 1..Len(got), n = Len(seen) + k PROVE seen'[n] <= cursor'
    BY <1>3, <1>4, <2>2
  <2> QED
    BY <1>7, <2>1, <2>2
<1>9. \A j, n \in DOMAIN seen' : j < n => seen'[j] < seen'[n]
  <2> SUFFICES ASSUME NEW j \in DOMAIN seen', NEW n \in DOMAIN seen', j < n
               PROVE  seen'[j] < seen'[n]
    OBVIOUS
  <2>1. CASE n \in 1..Len(seen)
    <3>1. j \in 1..Len(seen)
      BY <1>3, <1>f, <2>1
    <3> QED
      BY <1>3, <1>f, <2>1, <3>1 DEF OrderInv
  <2>2. ASSUME NEW k \in 1..Len(got), n = Len(seen) + k PROVE seen'[j] < seen'[n]
    <3>1. seen'[n] = got[k].ts /\ got[k].ts > cursor /\ got[k].ts \in Int
      BY <1>3, <1>g, <1>h, <1>i, <2>2
    <3>2. CASE j \in 1..Len(seen)
      <4>1. seen'[j] = seen[j] /\ seen[j] <= cursor /\ seen[j] \in Int
        BY <1>3, <1>f, <3>2 DEF OrderInv
      <4> QED
        BY <1>2, <3>1, <4>1
    <3>3. ASSUME NEW l \in 1..Len(got), j = Len(seen) + l PROVE seen'[j] < seen'[n]
      <4>1. l < k
        BY <1>f, <2>2, <3>3
      <4>2. seen'[j] = got[l].ts
        BY <1>3, <3>3
      <4>3. got[l].ts < got[k].ts
        BY <1>g, <1>h, <4>1
      <4> QED
        BY <3>1, <4>2, <4>3
    <3> QED
      BY <1>7, <3>2, <3>3
  <2> QED
    BY <1>7, <2>1, <2>2
<1>10. ASSUME NEW n \in DOMAIN file PROVE Seen(file[n].ts)'
  <2> SUFFICES \E k \in DOMAIN seen' : seen'[k] = file[n].ts
    BY <1>u DEF Seen
  <2>1. CASE file[n].ts <= cursor
    <3>1. PICK k \in DOMAIN seen : seen[k] = file[n].ts
      BY <2>1 DEF OrderInv, Seen
    <3>2. k \in DOMAIN seen'
      BY <1>3, <1>f, <1>g
    <3> QED
      BY <1>3, <1>f, <3>1, <3>2
  <2>2. CASE file[n].ts > cursor
    <3>1. PICK k \in DOMAIN got : got[k] = file[n]
      BY <1>h, <2>2
    <3>2. Len(seen) + k \in DOMAIN seen'
      BY <1>3, <1>f, <1>g
    <3> QED
      BY <1>3, <1>g, <3>1, <3>2
  <2> QED
    BY <1>2, <1>f, <2>1, <2>2
<1> QED
  BY <1>u, <1>6, <1>8, <1>9, <1>10 DEF OrderInv

\* With one appender every step keeps the order of the clock.
LEMMA OrderNext ==
  ASSUME TypeOK, StampInv, OneWriter, OrderInv, [Next]_vars
  PROVE  OrderInv'
<1> USE DEF Goto, pollVars, diskVars, history
<1>0. UNCHANGED env /\ env.writers \subseteq Writers
  BY EnvTyped DEF Next, vars, TypeOK
<1>t. /\ pc \in [Writers -> PCs] /\ ts \in [Writers -> 0..MaxTs]
      /\ file \in Seq(Fragments) /\ DOMAIN file = 1..Len(file) /\ Len(file) \in Nat
      /\ cursor \in Int /\ now \in Int /\ MaxTs \in Nat
  BY LedgerAssumption DEF TypeOK
<1>1. ASSUME NEW w \in env.writers, Stamp(w) PROVE OrderInv'
  <2>1. /\ UNCHANGED <<file, cursor, seen>> /\ now' = now + 1
        /\ \A v \in env.writers : v = w /\ ts'[v] = now
    BY <1>0, <1>1, <1>t DEF Stamp, OneWriter
  <2>2. \A n \in DOMAIN file : file[n].ts \in Int
    <3>1. \A n \in 1..Len(file) : file[n] \in Fragments
      BY <1>t
    <3> QED
      BY <1>t, <3>1 DEF Fragments
  <2> QED
    BY <1>0, <1>t, <2>1, <2>2 DEF OrderInv, Seen
<1>2. ASSUME NEW w \in env.writers, StatFile(w) \/ SyncFile(w) \/ SyncDir(w) \/ Crash(w)
      PROVE  OrderInv'
  <2>1. /\ UNCHANGED <<file, cursor, seen, now, ts>>
        /\ \A v \in env.writers : pc'[v] \in {"stat", "write"} => pc[v] \in {"stat", "write"}
    BY <1>0, <1>2, <1>t DEF StatFile, SyncFile, SyncDir, Crash, OneWriter
  <2> QED
    BY <1>0, <2>1 DEF OrderInv, Seen
<1>3. ASSUME NEW w \in env.writers, WriteLine(w) PROVE OrderInv'
  <2>1. PICK x : /\ x.ts = ts[w] /\ file' = Append(file, x)
                 /\ pc' \in {[pc EXCEPT ![w] = "sync"], [pc EXCEPT ![w] = "idle"]}
    BY <1>3 DEF WriteLine
  <2>2. /\ Len(file') = Len(file) + 1 /\ DOMAIN file' = 1..(Len(file) + 1)
        /\ \A n \in 1..Len(file) : file'[n] = file[n]
        /\ file'[Len(file) + 1].ts = ts[w]
    BY <1>t, <2>1
  <2>3. /\ \A v \in env.writers : pc'[v] \notin {"stat", "write"}
        /\ UNCHANGED <<cursor, seen, now>>
    BY <1>0, <1>3, <1>t, <2>1 DEF OneWriter, WriteLine
  <2>4. /\ cursor < ts[w] /\ ts[w] < now /\ ts[w] \in Int
        /\ \A n \in DOMAIN file : file[n].ts < ts[w]
    BY <1>0, <1>3, <1>t DEF WriteLine, OrderInv
  <2>5. \A m, n \in DOMAIN file' : m < n => file'[m].ts < file'[n].ts
    <3> SUFFICES ASSUME NEW m \in DOMAIN file', NEW n \in DOMAIN file', m < n
                 PROVE  file'[m].ts < file'[n].ts
      OBVIOUS
    <3>1. m \in 1..Len(file)
      BY <1>t, <2>2
    <3>2. CASE n = Len(file) + 1
      BY <1>t, <2>2, <2>4, <3>1, <3>2
    <3>3. CASE n \in 1..Len(file)
      BY <1>t, <2>2, <3>1, <3>3 DEF OrderInv
    <3> QED
      BY <1>t, <2>2, <3>2, <3>3
  <2>6. \A n \in DOMAIN file' : n \in 1..Len(file) \/ n = Len(file) + 1
    BY <1>t, <2>2
  <2>7. \A n \in DOMAIN file' : file'[n].ts < now'
    BY <1>t, <2>2, <2>3, <2>4, <2>6 DEF OrderInv
  <2>8. \A n \in DOMAIN file' : file'[n].ts <= cursor' => Seen(file[n].ts)'
    <3> SUFFICES ASSUME NEW n \in DOMAIN file', file'[n].ts <= cursor'
                 PROVE  Seen(file'[n].ts)
      BY <2>3 DEF Seen
    <3>1. n \in 1..Len(file)
      BY <1>t, <2>2, <2>3, <2>4, <2>6
    <3> QED
      BY <1>t, <2>2, <2>3, <3>1 DEF OrderInv
  <2> QED
    BY <1>0, <2>3, <2>5, <2>7, <2>8 DEF OrderInv
<1>4. CASE PowerLoss
  <2>1. /\ \A w \in env.writers : pc'[w] = "idle"
        /\ UNCHANGED <<ts, now, cursor, seen>>
    BY <1>0, <1>4 DEF PowerLoss
  <2>2. /\ file' \in Seq(Fragments) /\ Len(file') <= Len(file)
        /\ \A n \in 1..Len(file') : file'[n].ts = file[n].ts
    BY <1>4, PowerLossFile
  <2>3. DOMAIN file' = 1..Len(file') /\ \A n \in DOMAIN file' : n \in DOMAIN file
    BY <1>t, <2>2
  <2> QED
    BY <1>0, <2>1, <2>2, <2>3 DEF OrderInv, Seen
<1>5. CASE Poll
  BY <1>0, <1>5, PollOrder
<1>6. CASE UNCHANGED vars
  BY <1>6 DEF vars, OrderInv, Seen
<1> QED
  BY <1>1, <1>2, <1>3, <1>4, <1>5, <1>6 DEF Next, AppendStep

-----------------------------------------------------------------------------
(***************************************************************************)
(* Durability                                                              *)
(***************************************************************************)

\* What is on the platter stays there when lines are appended.
LEMMA OnPlatterKept ==
  ASSUME NEW t, OnPlatter(t), onDisk \in Nat, onDisk' \in Nat, onDisk <= onDisk',
         \A n \in 1..onDisk : file'[n] = file[n]
  PROVE  OnPlatter(t)'
<1>1. PICK n \in 1..onDisk :
          file[n] = [ts |-> t, whole |-> TRUE] /\ (n = 1 \/ file[n - 1].whole)
  BY DEF OnPlatter
<1>2. n \in 1..onDisk' /\ file'[n] = [ts |-> t, whole |-> TRUE]
  BY <1>1
<1>3. n = 1 \/ (n - 1 \in 1..onDisk /\ file'[n - 1] = file[n - 1])
  OBVIOUS
<1> QED
  BY <1>1, <1>2, <1>3 DEF OnPlatter

\* With one appender, on a disk that works, every step keeps it.
LEMMA DurableNext ==
  ASSUME TypeOK, StampInv, OneWriter, ~DiskFails, DurableInv, [Next]_vars
  PROVE  DurableInv'
<1> USE DEF Goto, pollVars, diskVars, history
<1>0. UNCHANGED env /\ env.writers \subseteq Writers
  BY EnvTyped DEF Next, vars, TypeOK
<1>t. /\ pc \in [Writers -> PCs] /\ ts \in [Writers -> 0..MaxTs]
      /\ first \in [Writers -> BOOLEAN] /\ exists \in BOOLEAN /\ dirent \in BOOLEAN
      /\ file \in Seq(Fragments) /\ Len(file) \in Nat
      /\ onDisk \in 0..Len(file) /\ orphan \in BOOLEAN
  BY DEF TypeOK
<1>1. ASSUME NEW w \in env.writers, Stamp(w) PROVE DurableInv'
  <2>1. /\ UNCHANGED <<exists, file, onDisk, dirent, first, acked, history>>
        /\ pc[w] = "idle" /\ \A v \in env.writers : v = w /\ pc'[v] = "stat"
    BY <1>0, <1>1, <1>t DEF Stamp, OneWriter
  <2> QED
    BY <1>0, <2>1 DEF DurableInv, OnPlatter
<1>2. ASSUME NEW w \in env.writers, StatFile(w) PROVE DurableInv'
  <2>1. /\ UNCHANGED <<exists, file, onDisk, dirent, ts, acked, history>>
        /\ pc[w] = "stat"
        /\ \A v \in env.writers : v = w /\ pc'[v] = "write" /\ first'[v] = ~exists
    BY <1>0, <1>2, <1>t DEF StatFile, OneWriter
  <2> QED
    BY <1>0, <2>1 DEF DurableInv, OnPlatter
<1>3. ASSUME NEW w \in env.writers, WriteLine(w) PROVE DurableInv'
  <2> DEFINE x == [ts |-> ts[w], whole |-> TRUE]
  <2>1. /\ file' = Append(file, x) /\ pc' = [pc EXCEPT ![w] = "sync"]
        /\ exists' = TRUE /\ UNCHANGED <<ts, first, onDisk, dirent, acked, orphan>>
        /\ unsafe' = IF orphan \/ TornTail THEN unsafe \cup {ts[w]} ELSE unsafe
    BY <1>3 DEF WriteLine
  <2>2. /\ Len(file') = Len(file) + 1 /\ file'[Len(file')] = x /\ file' # <<>>
        /\ \A n \in 1..Len(file) : file'[n] = file[n]
    <3> HIDE DEF x
    <3> QED
      BY <1>t, <2>1
  <2>3. pc[w] = "write" /\ first[w] = ~exists
    BY <1>3 DEF WriteLine, DurableInv
  <2>4. \A v \in env.writers : v = w /\ pc'[v] = "sync" /\ pc[v] = "write"
    BY <1>0, <1>t, <2>1, <2>3 DEF OneWriter
  <2>5. dirent' \/ orphan' \/ first'[w]
    <3>1. exists => dirent \/ orphan
      BY <2>4 DEF DurableInv
    <3> QED
      BY <1>t, <2>1, <2>3, <3>1
  <2>6. \A t \in acked \ unsafe : dirent /\ OnPlatter(t)'
    <3>1. ASSUME NEW n \in 1..onDisk PROVE file'[n] = file[n]
      <4>1. n \in 1..Len(file)
        BY <1>t
      <4> QED
        BY <2>2, <4>1
    <3>2. onDisk' \in Nat /\ onDisk \in Nat /\ onDisk <= onDisk'
      BY <1>t, <2>1
    <3> QED
      BY <3>1, <3>2, OnPlatterKept DEF DurableInv
  <2>7. /\ exists' /\ dirent' = dirent /\ acked' = acked /\ ts' = ts
        /\ acked' \ unsafe' \subseteq acked \ unsafe
    BY <2>1
  <2>9. ts'[w] \notin unsafe' =>
            ~orphan' /\ (Len(file') = 1 \/ file'[Len(file') - 1].whole)
    <3> SUFFICES ASSUME ts[w] \notin unsafe', Len(file') # 1
                 PROVE  ~orphan /\ file'[Len(file)].whole
      BY <1>t, <2>1, <2>2
    <3>1. ~orphan /\ ~TornTail
      BY <2>1
    <3>2. Len(file) \in 1..Len(file) /\ file # <<>>
      BY <1>t, <2>2
    <3> QED
      BY <2>2, <3>1, <3>2 DEF TornTail
  <2> HIDE DEF x
  <2>8. \A v \in env.writers : file'[Len(file')] = [ts |-> ts'[v], whole |-> TRUE]
    BY <2>2, <2>4, <2>7 DEF x
  <2> QED
    BY <1>0, <2>2, <2>4, <2>5, <2>6, <2>7, <2>8, <2>9 DEF DurableInv
<1>4. ASSUME NEW w \in env.writers, SyncFile(w) PROVE DurableInv'
  <2>1. /\ UNCHANGED <<ts, first, exists, file, dirent, history>> /\ onDisk' = Len(file)
        /\ pc' = [pc EXCEPT ![w] = IF first[w] THEN "dirsync" ELSE "idle"]
        /\ acked' = IF first[w] THEN acked ELSE acked \cup {ts[w]}
    BY <1>4 DEF SyncFile
  <2>2. /\ pc[w] = "sync" /\ exists /\ file # <<>>
        /\ file[Len(file)] = [ts |-> ts[w], whole |-> TRUE]
        /\ ts[w] \notin unsafe => ~orphan /\ (Len(file) = 1 \/ file[Len(file) - 1].whole)
    BY <1>4 DEF SyncFile, DurableInv
  <2>3. Len(file) \in 1..onDisk' /\ onDisk <= onDisk' /\ onDisk' \in Nat /\ onDisk \in Nat
    BY <1>t, <2>1, <2>2
  <2>4. \A t \in acked \ unsafe : dirent /\ OnPlatter(t)'
    BY <2>1, <2>3, OnPlatterKept DEF DurableInv
  <2>5. \A v \in env.writers : v = w
    BY DEF OneWriter
  <2>6. CASE first[w]
    <3>1. pc'[w] = "dirsync" /\ acked' = acked
      BY <1>0, <1>t, <2>1, <2>6
    <3> QED
      BY <1>0, <2>1, <2>2, <2>4, <2>5, <2>6, <3>1 DEF DurableInv
  <2>7. CASE ~first[w]
    <3>1. pc'[w] = "idle" /\ acked' = acked \cup {ts[w]}
      BY <1>0, <1>t, <2>1, <2>7
    <3>2. ts[w] \notin unsafe => dirent
      BY <2>2, <2>5, <2>7 DEF DurableInv
    <3>3. ts[w] \notin unsafe => OnPlatter(ts[w])'
      BY <2>1, <2>2, <2>3 DEF OnPlatter
    <3>4. \A t \in acked' \ unsafe' : dirent' /\ OnPlatter(t)'
      BY <2>1, <2>4, <3>1, <3>2, <3>3
    <3> QED
      BY <1>0, <2>1, <2>2, <2>5, <3>1, <3>2, <3>4 DEF DurableInv
  <2> QED
    BY <2>6, <2>7
<1>5. ASSUME NEW w \in env.writers, SyncDir(w) PROVE DurableInv'
  <2>1. /\ UNCHANGED <<ts, first, exists, file, onDisk, history>> /\ dirent' = TRUE
        /\ pc[w] = "dirsync" /\ pc'[w] = "idle" /\ acked' = acked \cup {ts[w]}
    BY <1>0, <1>t, <1>5 DEF SyncDir
  <2>2. /\ file # <<>> /\ onDisk = Len(file) /\ exists
        /\ file[Len(file)] = [ts |-> ts[w], whole |-> TRUE]
        /\ ts[w] \notin unsafe => ~orphan /\ (Len(file) = 1 \/ file[Len(file) - 1].whole)
    BY <2>1 DEF DurableInv
  <2>3. Len(file) \in 1..onDisk
    BY <1>t, <2>2
  <2>4. \A t \in acked' \ unsafe' : OnPlatter(t)'
    BY <2>1, <2>2, <2>3 DEF OnPlatter, DurableInv
  <2>5. \A v \in env.writers : v = w
    BY DEF OneWriter
  <2> QED
    BY <1>0, <2>1, <2>2, <2>4, <2>5 DEF DurableInv
<1>6. CASE PowerLoss
  <2>1. /\ \A v \in env.writers : pc'[v] = "idle"
        /\ UNCHANGED <<ts, first, acked, unsafe>>
    BY <1>0, <1>6 DEF PowerLoss
  <2>2. /\ file' \in Seq(Fragments) /\ onDisk' = Len(file') /\ Len(file') <= Len(file)
        /\ dirent => onDisk <= Len(file') /\ \A n \in 1..onDisk : file'[n] = file[n]
        /\ exists' => exists /\ dirent'
        /\ dirent => dirent'
        /\ exists /\ ~exists' => file' = <<>>
    BY <1>6, PowerLossFile
  <2>3. ~exists' => file' = <<>>
    <3>1. ASSUME ~exists PROVE file' = <<>>
      <4>1. Len(file) = 0
        BY <3>1 DEF DurableInv
      <4>2. Len(file') \in Nat
        BY <2>2
      <4> QED
        BY <1>t, <2>2, <4>1, <4>2
    <3> QED
      BY <2>2, <3>1
  <2>4. \A t \in acked \ unsafe : dirent' /\ OnPlatter(t)'
    <3> SUFFICES ASSUME NEW t \in acked \ unsafe PROVE dirent' /\ OnPlatter(t)'
      OBVIOUS
    <3>1. dirent /\ OnPlatter(t)
      BY DEF DurableInv
    <3>2. onDisk \in Nat /\ onDisk' \in Nat
      BY <1>t, <2>2
    <3> QED
      BY <2>2, <3>1, <3>2, OnPlatterKept
  <2> QED
    BY <1>0, <2>1, <2>2, <2>3, <2>4 DEF DurableInv
<1>7. CASE Poll
  BY <1>0, <1>7, PollTyped DEF DurableInv, OnPlatter
<1>8. ASSUME NEW w \in env.writers, Crash(w) PROVE DurableInv'
  <2>1. /\ UNCHANGED <<file, onDisk, dirent, ts, first, acked, unsafe>>
        /\ \A v \in env.writers : v = w /\ pc'[v] = "idle"
        /\ exists' \in {exists, exists \/ pc[w] = "write"}
        /\ orphan' = (orphan \/ (exists' /\ first[w] /\ pc[w] # "stat"))
    BY <1>0, <1>8, <1>t DEF Crash, OneWriter
  <2>2. exists' => dirent' \/ orphan'
    BY <2>1 DEF DurableInv
  <2> QED
    BY <1>0, <2>1, <2>2 DEF DurableInv, OnPlatter
<1>9. CASE UNCHANGED vars
  BY <1>9 DEF vars, DurableInv, OnPlatter
<1> QED
  BY <1>1, <1>2, <1>3, <1>4, <1>5, <1>6, <1>7, <1>8, <1>9 DEF Next, AppendStep

-----------------------------------------------------------------------------
\* The inductive invariant: with one appender file and poller follow the clock,
\* and on a disk that works what is acknowledged is on the platter.
THEOREM LedgerInvariant == Spec => []IInv
<1>1. Init => IInv
  <2> SUFFICES ASSUME Init PROVE IInv
    OBVIOUS
  <2>1. OrderInv
    <3>1. \A w \in env.writers : pc[w] = "idle"
      BY EnvTyped DEF Init
    <3> QED
      BY <3>1 DEF Init, OrderInv
  <2>2. DurableInv
    <3>1. env.writers \subseteq Writers
      BY EnvTyped DEF Init
    <3>2. \A w \in env.writers : pc[w] = "idle"
      BY <3>1 DEF Init
    <3> QED
      BY <3>2 DEF Init, DurableInv
  <2> QED
    BY <2>1, <2>2, TypeInit DEF IInv
<1>2. IInv /\ [Next]_vars => IInv'
  <2> SUFFICES ASSUME IInv, [Next]_vars PROVE IInv'
    OBVIOUS
  <2>1. UNCHANGED env
    BY DEF Next, vars
  <2>2. (OneWriter' <=> OneWriter) /\ (DiskFails' <=> DiskFails)
    BY <2>1 DEF OneWriter, DiskFails
  <2>3. TypeOK' /\ StampInv'
    BY TypeNext DEF IInv
  <2>4. OneWriter => OrderInv'
    BY OrderNext DEF IInv
  <2>5. OneWriter /\ ~DiskFails => DurableInv'
    BY DurableNext DEF IInv
  <2> QED
    BY <2>2, <2>3, <2>4, <2>5 DEF IInv
<1> QED
  BY <1>1, <1>2, PTL DEF Spec

\* The number of appenders never changes.
LEMMA OneWriterKept == OneWriter /\ [Next]_vars => OneWriter'
  BY DEF Next, vars, OneWriter

\* With one appender, on a disk that works, an acknowledged entry survives any
\* number of crashes and power losses as a line that parses (Append's fsync of
\* file and directory), unless it was written behind a torn fragment or to a file
\* whose first appender died.
THEOREM Durability == Spec /\ OneWriter => []AckedSurvives
<1>1. IInv /\ OneWriter => AckedSurvives
  <2> SUFFICES ASSUME IInv, OneWriter, ~DiskFails, NEW t \in acked \ unsafe PROVE Decodable(t)
    BY DEF AckedSurvives
  <2>1. PICK n \in 1..onDisk :
            file[n] = [ts |-> t, whole |-> TRUE] /\ (n = 1 \/ file[n - 1].whole)
    BY DEF IInv, DurableInv, OnPlatter
  <2>2. n \in DOMAIN file
    BY DEF IInv, TypeOK
  <2> QED
    BY <2>1, <2>2 DEF Decodable
<1> QED
  BY <1>1, OneWriterKept, LedgerInvariant, PTL DEF Spec

\* With one appender the poller of fleet.LedgerTail gets every entry once and
\* misses none that its cursor has passed, on any disk and through power losses.
THEOREM ExactlyOnce == Spec /\ OneWriter => []TailExactlyOnce
<1>1. IInv /\ OneWriter => TailExactlyOnce
  <2> SUFFICES ASSUME IInv, OneWriter PROVE TailExactlyOnce
    OBVIOUS
  <2>1. seen \in Seq(1..MaxTs) /\ OrderInv
    BY DEF IInv, TypeOK
  <2>2. ASSUME NEW m \in DOMAIN seen, NEW n \in DOMAIN seen, seen[m] = seen[n] PROVE m = n
    <3>1. seen[m] \in Int /\ seen[n] \in Int /\ m \in Int /\ n \in Int
      BY <2>1, LedgerAssumption
    <3>2. (m < n => seen[m] < seen[n]) /\ (n < m => seen[n] < seen[m])
      BY <2>1 DEF OrderInv
    <3> QED
      BY <2>2, <3>1, <3>2
  <2> QED
    BY <2>1, <2>2 DEF TailExactlyOnce, OrderInv
<1> QED
  BY <1>1, OneWriterKept, LedgerInvariant, PTL DEF Spec
=============================================================================
