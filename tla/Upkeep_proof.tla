---------------------------- MODULE Upkeep_proof ----------------------------
(***************************************************************************)
(* What keeps the machines going: the rotation of the gateway's logs, and  *)
(* the set-up of a worker.  The two share nothing but this module.         *)
(*                                                                         *)
(* Rotation, for any logs, lines, rotations and failures of single steps:  *)
(* one rotator loses only the lines of the window between its copy and its *)
(* truncation, and those that --keep lets go.                              *)
(*                                                                         *)
(* Set-up, for any number of runs, faults, edits on the gateway and        *)
(* meddling by the worker's administrator: a run that reports success      *)
(* leaves the worker provisioned, and a run without faults succeeds,       *)
(* whatever earlier runs have left behind.                                 *)
(***************************************************************************)
EXTENDS Logrotate, Bootstrap, TLAPS

-----------------------------------------------------------------------------
(* Log rotation.                                                           *)

\* The types the argument needs, and that no archive is of the future.
RotationTyped ==
    /\ env \in EnvRecords
    /\ written \in [Logs -> Nat] /\ base \in [Logs -> Nat]
    /\ DOMAIN arch = Logs /\ DOMAIN pruned = Logs /\ DOMAIN late = Logs /\ DOMAIN copy = Rotators
    /\ now \in Nat /\ off \in [Rotators -> Nat]
    /\ pc \in [Rotators -> {"idle", "scan", "copy", "rename", "truncate", "prune"}]
    /\ todo \in [Rotators -> SUBSET Logs] /\ cur \in [Rotators -> Logs]
    /\ ts \in [Rotators -> Nat] /\ lastEnd \in [Rotators -> Int]
    /\ \A r \in Rotators : ts[r] <= now /\ (pc[r] # "idle" => r \in env.rotators)
    /\ \A l \in Logs : \A t \in DOMAIN arch[l] : t \in Nat /\ t <= now

\* A line that is in an archive, or that may be gone.
Held(l, x) == (\E t \in DOMAIN arch[l] : x \in arch[l][t]) \/ x \in pruned[l] \/ x \in late[l]

\* Every line that was truncated from its log is.
AllHeld == \A l \in Logs : \A x \in Nat : 1 <= x /\ x <= base[l] => Held(l, x)

\* The only rotator: the archives of logs it has not got to are older than its
\* run, so that the name of the next one is free; what it has read is in its
\* copy, and what was written since it met the end of the file is late.
RotatorInv(r) ==
    /\ pc[r] = "idle" => \A l \in Logs : \A t \in DOMAIN arch[l] : t <= lastEnd[r]
    /\ pc[r] # "idle" => /\ lastEnd[r] < now
                         /\ \A l \in todo[r] : \A t \in DOMAIN arch[l] : t <= lastEnd[r]
    /\ pc[r] \in {"copy", "rename", "truncate", "prune"} => cur[r] \notin todo[r]
    /\ pc[r] \in {"copy", "rename"} =>
          lastEnd[r] < ts[r] /\ \A t \in DOMAIN arch[cur[r]] : t <= lastEnd[r]
    /\ pc[r] = "copy" =>
          \A x \in Nat : base[cur[r]] < x /\ x <= base[cur[r]] + off[r] => x \in copy[r]
    /\ pc[r] = "rename" =>
          \A x \in Nat : base[cur[r]] < x /\ x <= written[cur[r]]
                            => x \in copy[r] \cup late[cur[r]]
    /\ pc[r] = "truncate" =>
          /\ ts[r] \in DOMAIN arch[cur[r]]
          /\ \A x \in Nat : base[cur[r]] < x /\ x <= written[cur[r]]
                               => x \in arch[cur[r]][ts[r]] \cup late[cur[r]]

RotationInv ==
    /\ RotationTyped
    /\ Alone => AllHeld /\ \A r \in env.rotators : RotatorInv(r)

\* A rotator takes a step; when it is alone, only its own invariant counts.
LEMMA RotatorClose ==
  ASSUME RotationTyped', env' = env, NEW r \in env.rotators,
         Alone => AllHeld' /\ RotatorInv(r)'
  PROVE  RotationInv'
<1>1. Alone' <=> Alone
  BY DEF Alone
<1>2. Alone => \A s \in env.rotators : s = r
  BY DEF Alone
<1> QED BY <1>1, <1>2 DEF RotationInv

\* While the archives and their names stay, so do the lines.
LEMMA HeldKept ==
  ASSUME AllHeld, UNCHANGED <<base, arch, pruned, late>>
  PROVE  AllHeld'
  BY DEF AllHeld, Held

\* A run starts, ends, dies or goes on with the next log: no file is touched.
LEMMA RotationScan ==
  ASSUME RotationInv, env' = env, NEW r \in Rotators,
         \/ Start(r) \/ Finish(r) \/ Crash(r) \/ RotateFails(r) \/ TruncateFails(r)
         \/ \E l \in Logs : Skip(r, l)
  PROVE  RotationInv'
<1>0. RotationTyped /\ lastEnd[r] \in Int /\ now \in Nat /\ todo[r] \subseteq Logs
  BY DEF RotationInv, RotationTyped
<1>1. CASE Start(r)
  <2>1. /\ r \in env.rotators /\ pc[r] = "idle" /\ lastEnd[r] < now
        /\ pc' = [pc EXCEPT ![r] = "scan"] /\ todo' = [todo EXCEPT ![r] = env.logs]
        /\ UNCHANGED <<written, base, arch, unsynced, now, cur, ts, off, copy, lastEnd, late, pruned>>
    BY <1>1 DEF Start, files, history
  <2>2. env.logs \subseteq Logs
    BY <1>0 DEF RotationTyped, EnvRecords
  <2>3. RotationTyped'
    BY <1>0, <2>1, <2>2 DEF RotationTyped
  <2>4. Alone => RotatorInv(r)'
    BY <1>0, <2>1, <2>2 DEF RotationInv, RotationTyped, RotatorInv
  <2> QED BY <2>1, <2>3, <2>4, HeldKept, RotatorClose DEF RotationInv
<1>2. CASE Finish(r) \/ Crash(r)
  <2>1. /\ pc[r] # "idle" /\ pc' = [pc EXCEPT ![r] = "idle"]
        /\ lastEnd' = [lastEnd EXCEPT ![r] = now]
        /\ UNCHANGED <<written, base, arch, unsynced, now, todo, cur, ts, off, copy, late, pruned>>
    BY <1>2 DEF Finish, Crash, files, history
  <2>2. RotationTyped' /\ r \in env.rotators
    BY <1>0, <2>1 DEF RotationTyped
  <2>3. RotatorInv(r)'
    <3>1. pc'[r] = "idle" /\ lastEnd'[r] = now
      BY <1>0, <2>1 DEF RotationTyped
    <3> QED BY <1>0, <2>1, <3>1 DEF RotatorInv, RotationTyped
  <2> QED BY <2>1, <2>2, <2>3, HeldKept, RotatorClose DEF RotationInv
<1>3. CASE RotateFails(r) \/ TruncateFails(r)
  <2>1. /\ pc[r] # "idle" /\ pc' = [pc EXCEPT ![r] = "scan"]
        /\ UNCHANGED <<written, base, arch, unsynced, now, todo, cur, ts, off, copy, lastEnd, late, pruned>>
    BY <1>3 DEF RotateFails, TruncateFails, Continue, files, rotator, history
  <2>2. RotationTyped' /\ r \in env.rotators
    BY <1>0, <2>1 DEF RotationTyped
  <2>3. Alone => RotatorInv(r)'
    <3>1. pc'[r] = "scan"
      BY <1>0, <2>1 DEF RotationTyped
    <3> QED BY <2>1, <2>2, <3>1 DEF RotatorInv, RotationInv
  <2> QED BY <2>1, <2>2, <2>3, HeldKept, RotatorClose DEF RotationInv
<1>4. ASSUME NEW l \in Logs, Skip(r, l) PROVE RotationInv'
  <2>1. /\ pc[r] = "scan" /\ todo' = [todo EXCEPT ![r] = @ \ {l}]
        /\ UNCHANGED <<written, base, arch, unsynced, now, pc, cur, ts, off, copy, lastEnd, late, pruned>>
    BY <1>4 DEF Skip, files, history
  <2>2. RotationTyped' /\ r \in env.rotators
    BY <1>0, <2>1 DEF RotationTyped
  <2>3. Alone => RotatorInv(r)'
    <3>1. todo'[r] \subseteq todo[r]
      BY <1>0, <2>1 DEF RotationTyped
    <3> QED BY <2>1, <2>2, <3>1 DEF RotatorInv, RotationInv
  <2> QED BY <2>1, <2>2, <2>3, HeldKept, RotatorClose DEF RotationInv
<1> QED BY <1>1, <1>2, <1>3, <1>4

\* The log is read into the copy.
LEMMA RotationCopy ==
  ASSUME RotationInv, env' = env, NEW r \in Rotators,
         CopyLine(r) \/ CopyEnd(r) \/ \E l \in Logs : Rotate(r, l)
  PROVE  RotationInv'
<1>0. /\ RotationTyped /\ lastEnd[r] \in Int /\ now \in Nat /\ off[r] \in Nat /\ cur[r] \in Logs
      /\ base[cur[r]] \in Nat /\ written[cur[r]] \in Nat /\ todo[r] \subseteq Logs
  BY DEF RotationInv, RotationTyped
<1>1. ASSUME NEW l \in Logs, Rotate(r, l) PROVE RotationInv'
  <2>1. /\ pc[r] = "scan" /\ l \in todo[r] /\ todo' = [todo EXCEPT ![r] = @ \ {l}]
        /\ cur' = [cur EXCEPT ![r] = l] /\ ts' = [ts EXCEPT ![r] = now]
        /\ off' = [off EXCEPT ![r] = 0] /\ copy' = [copy EXCEPT ![r] = {}]
        /\ pc' = [pc EXCEPT ![r] = "copy"]
        /\ UNCHANGED <<written, base, arch, unsynced, now, lastEnd, late, pruned>>
    BY <1>1 DEF Rotate, files, history
  <2>2. r \in env.rotators /\ RotationTyped'
    BY <1>0, <2>1 DEF RotationTyped
  <2>3. /\ pc'[r] = "copy" /\ cur'[r] = l /\ ts'[r] = now /\ off'[r] = 0
        /\ todo'[r] = todo[r] \ {l}
    BY <1>0, <2>1 DEF RotationTyped
  <2>4. base[l] \in Nat /\ \A x \in Nat : ~(base[l] < x /\ x <= base[l] + 0)
    BY <1>0 DEF RotationTyped
  <2>5. Alone => RotatorInv(r)'
    BY <2>1, <2>2, <2>3, <2>4 DEF RotatorInv, RotationInv
  <2> QED BY <2>1, <2>2, <2>5, HeldKept, RotatorClose DEF RotationInv
<1>2. CASE CopyLine(r)
  <2>1. /\ pc[r] = "copy" /\ copy' = [copy EXCEPT ![r] = @ \cup {base[cur[r]] + off[r] + 1}]
        /\ off' = [off EXCEPT ![r] = @ + 1]
        /\ UNCHANGED <<written, base, arch, unsynced, now, pc, todo, cur, ts, lastEnd, late, pruned>>
    BY <1>2 DEF CopyLine, files, history
  <2>2. r \in env.rotators /\ off[r] + 1 \in Nat
    BY <1>0, <2>1 DEF RotationTyped
  <2>3. RotationTyped'
    BY <1>0, <2>1, <2>2 DEF RotationTyped
  <2>4. off'[r] = off[r] + 1 /\ copy'[r] = copy[r] \cup {base[cur[r]] + off[r] + 1}
    BY <1>0, <2>1 DEF RotationTyped
  <2>5. \A x \in Nat : x <= base[cur[r]] + (off[r] + 1)
                          => x <= base[cur[r]] + off[r] \/ x = base[cur[r]] + off[r] + 1
    BY <1>0
  <2>6. Alone => RotatorInv(r)'
    <3>1. SUFFICES ASSUME Alone PROVE RotatorInv(r)'
      OBVIOUS
    <3>2. RotatorInv(r)
      BY <2>2, <3>1 DEF RotationInv
    <3>3. \A x \in Nat : base[cur[r]] < x /\ x <= base[cur[r]] + off'[r] => x \in copy'[r]
      BY <2>1, <2>4, <2>5, <3>2 DEF RotatorInv
    <3> QED BY <2>1, <3>2, <3>3 DEF RotatorInv
  <2> QED BY <2>1, <2>2, <2>3, <2>6, HeldKept, RotatorClose DEF RotationInv
<1>3. CASE CopyEnd(r)
  <2>1. /\ pc[r] = "copy" /\ off[r] >= written[cur[r]] - base[cur[r]]
        /\ pc' = [pc EXCEPT ![r] = "rename"]
        /\ UNCHANGED <<written, base, arch, unsynced, now, todo, cur, ts, off, copy, lastEnd, late, pruned>>
    BY <1>3 DEF CopyEnd, Size, files, rotator, history
  <2>2. r \in env.rotators /\ RotationTyped' /\ pc'[r] = "rename"
    BY <1>0, <2>1 DEF RotationTyped
  <2>3. \A x \in Nat : x <= written[cur[r]] => x <= base[cur[r]] + off[r]
    BY <1>0, <2>1
  <2>4. Alone => RotatorInv(r)'
    BY <2>1, <2>2, <2>3 DEF RotatorInv, RotationInv
  <2> QED BY <2>1, <2>2, <2>4, HeldKept, RotatorClose DEF RotationInv
<1> QED BY <1>1, <1>2, <1>3

\* The copy gets a name nobody has.
LEMMA RotationRename ==
  ASSUME RotationInv, env' = env, NEW r \in Rotators, Rename(r)
  PROVE  RotationInv'
<1>0. /\ RotationTyped /\ lastEnd[r] \in Int /\ now \in Nat /\ ts[r] \in Nat /\ ts[r] <= now
      /\ cur[r] \in Logs /\ todo[r] \subseteq Logs
  BY DEF RotationInv, RotationTyped
<1> DEFINE Stamps == DOMAIN arch[cur[r]] \cup {ts[r]}
           f == [t \in Stamps |-> IF t = ts[r] THEN copy[r] ELSE arch[cur[r]][t]]
<1>1. /\ pc[r] = "rename" /\ arch' = [arch EXCEPT ![cur[r]] = f]
      /\ pc' = [pc EXCEPT ![r] = "truncate"]
      /\ UNCHANGED <<written, base, now, todo, cur, ts, off, copy, lastEnd, late, pruned>>
  BY <1>0 DEF Rename, rotator, history, RotationTyped
<1>2. /\ DOMAIN f = Stamps /\ f[ts[r]] = copy[r]
      /\ \A t \in DOMAIN arch[cur[r]] : t # ts[r] => f[t] = arch[cur[r]][t]
  OBVIOUS
<1> HIDE DEF f
<1>3. /\ DOMAIN arch' = Logs /\ arch'[cur[r]] = f
      /\ \A l \in Logs : l # cur[r] => arch'[l] = arch[l]
  BY <1>0, <1>1 DEF RotationTyped
<1>4. r \in env.rotators /\ RotationTyped'
  BY <1>0, <1>1, <1>2, <1>3 DEF RotationTyped
<1>5. ASSUME Alone PROVE AllHeld' /\ RotatorInv(r)'
  <2>1. AllHeld /\ RotatorInv(r)
    BY <1>4, <1>5 DEF RotationInv
  <2>2. ts[r] \notin DOMAIN arch[cur[r]] /\ cur[r] \notin todo[r] /\ lastEnd[r] < now
    BY <1>0, <1>1, <2>1 DEF RotatorInv, RotationTyped
  <2>3. \A t \in DOMAIN arch[cur[r]] : t \in DOMAIN f /\ f[t] = arch[cur[r]][t]
    BY <1>2, <2>2
  <2>4. ASSUME NEW l \in Logs, NEW x \in Nat, Held(l, x) PROVE Held(l, x)'
    <3>1. CASE l = cur[r]
      BY <1>1, <1>3, <2>3, <2>4, <3>1 DEF Held
    <3>2. CASE l # cur[r]
      BY <1>1, <1>3, <2>4, <3>2 DEF Held
    <3> QED BY <3>1, <3>2
  <2>5. AllHeld'
    BY <1>1, <2>1, <2>4 DEF AllHeld
  <2>6. pc'[r] = "truncate"
    BY <1>0, <1>1 DEF RotationTyped
  <2>7. \A l \in todo[r] : arch'[l] = arch[l]
    BY <1>0, <1>3, <2>2
  <2>8. \A x \in Nat : base[cur[r]] < x /\ x <= written[cur[r]] => x \in f[ts[r]] \cup late[cur[r]]
    BY <1>1, <1>2, <2>1 DEF RotatorInv
  <2>9. RotatorInv(r)'
    BY <1>1, <1>2, <1>3, <2>1, <2>2, <2>6, <2>7, <2>8 DEF RotatorInv
  <2> QED BY <2>5, <2>9
<1> QED BY <1>4, <1>5, RotatorClose

\* The log is truncated: what it held is in the archive, or late.
LEMMA RotationTruncate ==
  ASSUME RotationInv, env' = env, NEW r \in Rotators, Truncate(r)
  PROVE  RotationInv'
<1>0. /\ RotationTyped /\ cur[r] \in Logs /\ written[cur[r]] \in Nat
      /\ \A l \in Logs : base[l] \in Nat
  BY DEF RotationInv, RotationTyped
<1>1. /\ pc[r] = "truncate" /\ base' = [base EXCEPT ![cur[r]] = written[cur[r]]]
      /\ pc' = [pc EXCEPT ![r] = "prune"]
      /\ UNCHANGED <<written, arch, unsynced, now, todo, cur, ts, off, copy, lastEnd, late, pruned>>
  BY DEF Truncate, rotator, history
<1>2. r \in env.rotators /\ RotationTyped' /\ pc'[r] = "prune"
  BY <1>0, <1>1 DEF RotationTyped
<1>3. base'[cur[r]] = written[cur[r]] /\ \A l \in Logs : l # cur[r] => base'[l] = base[l]
  BY <1>0, <1>1 DEF RotationTyped
<1>4. ASSUME Alone PROVE AllHeld' /\ RotatorInv(r)'
  <2>1. AllHeld /\ RotatorInv(r)
    BY <1>2, <1>4 DEF RotationInv
  <2>2. ASSUME NEW l \in Logs, NEW x \in Nat, 1 <= x, x <= base'[l] PROVE Held(l, x)
    <3>1. CASE x <= base[l]
      BY <2>1, <2>2, <3>1 DEF AllHeld
    <3>2. CASE ~(x <= base[l])
      <4>1. l = cur[r] /\ base[l] < x /\ x <= written[l]
        BY <1>0, <1>3, <2>2, <3>2
      <4>2. ts[r] \in DOMAIN arch[l] /\ x \in arch[l][ts[r]] \cup late[l]
        BY <1>1, <2>1, <4>1 DEF RotatorInv
      <4> QED BY <4>2 DEF Held
    <3> QED BY <3>1, <3>2
  <2>3. AllHeld'
    BY <1>1, <2>2 DEF AllHeld, Held
  <2>4. RotatorInv(r)'
    BY <1>1, <1>2, <2>1 DEF RotatorInv
  <2> QED BY <2>3, <2>4
<1> QED BY <1>2, <1>4, RotatorClose

\* Archives beyond --keep go, and what they held is let go.
LEMMA RotationPrune ==
  ASSUME RotationInv, env' = env, NEW r \in Rotators, PruneRotations(r)
  PROVE  RotationInv'
<1>0. RotationTyped /\ cur[r] \in Logs /\ todo[r] \subseteq Logs
  BY DEF RotationInv, RotationTyped
<1>1. /\ pc[r] = "prune" /\ pc' = [pc EXCEPT ![r] = "scan"]
      /\ UNCHANGED <<written, base, now, todo, cur, ts, off, copy, lastEnd, late>>
  BY DEF PruneRotations, Continue, rotator
<1>2. PICK Lost \in SUBSET ToDelete(cur[r]) :
         /\ arch' = [arch EXCEPT ![cur[r]] = [t \in DOMAIN @ \ Lost |-> @[t]]]
         /\ pruned' = [pruned EXCEPT ![cur[r]] = @ \cup UNION {arch[cur[r]][t] : t \in Lost}]
  BY DEF PruneRotations
<1> DEFINE f == [t \in DOMAIN arch[cur[r]] \ Lost |-> arch[cur[r]][t]]
<1>3. arch' = [arch EXCEPT ![cur[r]] = f]
  BY <1>0, <1>2 DEF RotationTyped
<1>4. DOMAIN f = DOMAIN arch[cur[r]] \ Lost /\ \A t \in DOMAIN f : f[t] = arch[cur[r]][t]
  OBVIOUS
<1> HIDE DEF f
<1>5. /\ DOMAIN arch' = Logs /\ arch'[cur[r]] = f
      /\ \A l \in Logs : l # cur[r] => arch'[l] = arch[l]
      /\ \A l \in Logs : DOMAIN arch'[l] \subseteq DOMAIN arch[l]
  BY <1>0, <1>3, <1>4 DEF RotationTyped
<1>6. /\ DOMAIN pruned' = Logs
      /\ pruned'[cur[r]] = pruned[cur[r]] \cup UNION {arch[cur[r]][t] : t \in Lost}
      /\ \A l \in Logs : l # cur[r] => pruned'[l] = pruned[l]
  BY <1>0, <1>2 DEF RotationTyped
<1>7. r \in env.rotators /\ RotationTyped' /\ pc'[r] = "scan"
  BY <1>0, <1>1, <1>5, <1>6 DEF RotationTyped
<1>8. ASSUME Alone PROVE AllHeld' /\ RotatorInv(r)'
  <2>1. AllHeld /\ RotatorInv(r)
    BY <1>7, <1>8 DEF RotationInv
  <2>2. ASSUME NEW l \in Logs, NEW x \in Nat, Held(l, x) PROVE Held(l, x)'
    <3>1. CASE l # cur[r]
      BY <1>1, <1>5, <1>6, <2>2, <3>1 DEF Held
    <3>2. CASE l = cur[r]
      <4>1. CASE x \in pruned[l] \/ x \in late[l]
        BY <1>1, <1>6, <3>2, <4>1 DEF Held
      <4>2. CASE \E t \in DOMAIN arch[l] : x \in arch[l][t]
        <5>1. PICK t \in DOMAIN arch[l] : x \in arch[l][t]
          BY <4>2
        <5>2. CASE t \in Lost
          <6>1. x \in UNION {arch[cur[r]][u] : u \in Lost}
            BY <3>2, <5>1, <5>2
          <6> QED BY <1>6, <3>2, <6>1 DEF Held
        <5>3. CASE t \notin Lost
          BY <1>4, <1>5, <3>2, <5>1, <5>3 DEF Held
        <5> QED BY <5>2, <5>3
      <4> QED BY <2>2, <4>1, <4>2 DEF Held
    <3> QED BY <3>1, <3>2
  <2>3. AllHeld'
    BY <1>1, <2>1, <2>2 DEF AllHeld
  <2>4. RotatorInv(r)'
    BY <1>0, <1>1, <1>5, <1>7, <2>1 DEF RotatorInv
  <2> QED BY <2>3, <2>4
<1> QED BY <1>7, <1>8, RotatorClose

\* A process appends a line: it is late when a rotator has met the end before.
LEMMA RotationAppend ==
  ASSUME RotationInv, env' = env, NEW l \in Logs, AppendLine(l)
  PROVE  RotationInv'
<1>0. /\ RotationTyped /\ written[l] \in Nat /\ \A k \in Logs : base[k] \in Nat /\ written[k] \in Nat
      /\ \A r \in Rotators : cur[r] \in Logs
      /\ env.rotators \subseteq Rotators
  BY DEF RotationInv, RotationTyped, EnvRecords
<1>1. /\ written' = [written EXCEPT ![l] = @ + 1]
      /\ late' = [late EXCEPT ![l] = @ \cup (IF Exposed(l) THEN {written[l] + 1} ELSE {})]
      /\ UNCHANGED <<base, arch, unsynced, now, pc, todo, cur, ts, off, copy, lastEnd, pruned>>
  BY DEF AppendLine, rotator
<1>2. /\ DOMAIN late' = Logs /\ \A k \in Logs : late[k] \subseteq late'[k]
      /\ Exposed(l) => written[l] + 1 \in late'[l]
  BY <1>0, <1>1 DEF RotationTyped
<1>3. written' \in [Logs -> Nat] /\ written'[l] = written[l] + 1
      /\ \A k \in Logs : k # l => written'[k] = written[k]
  BY <1>0, <1>1 DEF RotationTyped
<1>4. RotationTyped'
  BY <1>0, <1>1, <1>2, <1>3 DEF RotationTyped
<1>5. Alone' <=> Alone
  BY DEF Alone
<1>6. ASSUME Alone PROVE AllHeld' /\ \A r \in env.rotators : RotatorInv(r)'
  <2>1. AllHeld /\ \A r \in env.rotators : RotatorInv(r)
    BY <1>6 DEF RotationInv
  <2>2. AllHeld'
    BY <1>1, <1>2, <2>1 DEF AllHeld, Held
  <2>3. ASSUME NEW r \in env.rotators PROVE RotatorInv(r)'
    <3>1. RotatorInv(r) /\ r \in Rotators /\ cur[r] \in Logs
      BY <1>0, <2>1
    <3>2. ASSUME pc[r] \in {"rename", "truncate"}, NEW x \in Nat, base[cur[r]] < x, x <= written'[cur[r]]
          PROVE  x <= written[cur[r]] \/ x \in late'[cur[r]]
      <4>1. CASE cur[r] # l
        BY <1>3, <3>1, <3>2, <4>1
      <4>2. CASE cur[r] = l
        <5>1. Exposed(l)
          BY <3>1, <3>2, <4>2 DEF Exposed
        <5>2. x <= written[l] \/ x = written[l] + 1
          BY <1>0, <1>3, <3>2, <4>2
        <5> QED BY <1>2, <4>2, <5>1, <5>2
      <4> QED BY <4>1, <4>2
    <3> QED BY <1>1, <1>2, <3>1, <3>2 DEF RotatorInv
  <2> QED BY <2>2, <2>3
<1> QED BY <1>4, <1>5, <1>6 DEF RotationInv

\* Every step keeps the lines of the logs.
LEMMA RotationNext ==
  ASSUME RotationInv, [Next]_vars
  PROVE  RotationInv'
<1>0. /\ RotationTyped /\ env.rotators \subseteq Rotators /\ now \in Nat
      /\ \A r \in Rotators : lastEnd[r] \in Int /\ ts[r] \in Nat /\ ts[r] <= now
  BY DEF RotationInv, RotationTyped, EnvRecords
<1>1. CASE Tick /\ UNCHANGED env
  <2>1. now' = now + 1 /\ env' = env
        /\ UNCHANGED <<written, base, arch, unsynced, pc, todo, cur, ts, off, copy, lastEnd, late, pruned>>
    BY <1>1 DEF Tick, files, rotator, history
  <2>2. now' \in Nat /\ now <= now' /\ \A t \in Int : t <= now => t <= now'
    BY <1>0, <2>1
  <2>3. \A t \in Int : t < now => t < now'
    BY <1>0, <2>1
  <2>4. RotationTyped'
    BY <1>0, <2>1, <2>2 DEF RotationTyped
  <2>5. Alone' <=> Alone
    BY <2>1 DEF Alone
  <2>6. Alone => AllHeld'
    BY <2>1, HeldKept DEF RotationInv
  <2>7. Alone => \A r \in env.rotators : RotatorInv(r)'
    BY <1>0, <2>1, <2>3 DEF RotationInv, RotatorInv
  <2> QED BY <2>1, <2>4, <2>5, <2>6, <2>7 DEF RotationInv
<1>2. CASE PowerFail /\ UNCHANGED env
  <2>1. /\ env.powerFails /\ env' = env
        /\ arch' = [l \in Logs |-> [t \in DOMAIN arch[l] |->
                                     IF t \in unsynced[l] THEN {} ELSE arch[l][t]]]
        /\ pc' = [r \in Rotators |-> "idle"] /\ lastEnd' = [r \in Rotators |-> now]
        /\ UNCHANGED <<written, base, now, todo, cur, ts, off, copy, late, pruned>>
    BY <1>2 DEF PowerFail, history
  <2>2. DOMAIN arch' = Logs /\ \A l \in Logs : DOMAIN arch'[l] = DOMAIN arch[l]
    BY <2>1
  <2>3. pc' \in [Rotators -> {"idle", "scan", "copy", "rename", "truncate", "prune"}]
        /\ lastEnd' \in [Rotators -> Int] /\ \A r \in Rotators : pc'[r] = "idle"
    BY <1>0, <2>1
  <2>4. RotationTyped'
    BY <1>0, <2>1, <2>2, <2>3 DEF RotationTyped
  <2>5. ~Alone'
    BY <2>1 DEF Alone
  <2> QED BY <2>4, <2>5 DEF RotationInv
<1>3. ASSUME env' = env, UNCHANGED <<written, base, arch, now, pc, todo, cur, ts, off, copy,
                                    lastEnd, late, pruned>>
      PROVE  RotationInv'
  <2>1. RotationTyped'
    BY <1>0, <1>3 DEF RotationTyped
  <2>2. (Alone' <=> Alone) /\ (Alone => AllHeld')
    BY <1>3, HeldKept DEF Alone, RotationInv
  <2>3. Alone => \A r \in env.rotators : RotatorInv(r)'
    BY <1>3 DEF RotationInv, RotatorInv
  <2> QED BY <1>3, <2>1, <2>2, <2>3 DEF RotationInv
<1>4. ASSUME NEW l \in Logs, Writeback(l), UNCHANGED env PROVE RotationInv'
  BY <1>3, <1>4 DEF Writeback, rotator, history
<1>5. CASE UNCHANGED vars
  BY <1>3, <1>5 DEF vars
<1>6. ASSUME NEW r \in Rotators, RotatorStep(r), UNCHANGED env PROVE RotationInv'
  BY <1>6, RotationScan, RotationCopy, RotationRename, RotationTruncate, RotationPrune
     DEF RotatorStep
<1> QED BY <1>1, <1>2, <1>4, <1>5, <1>6, RotationAppend DEF Next

\* For any logs, thresholds, --keep, bounds and failures of files or processes:
\* when one rotator runs at a time on a gateway that keeps its power, a line
\* that is neither in its log nor in an archive was let go by --keep or was
\* appended between the end of the copy and the truncation.
THEOREM LossesBounded == Spec => []LossOnlyInWindow
<1>1. Init => RotationInv
  <2> SUFFICES ASSUME Init PROVE RotationInv
    OBVIOUS
  <2>1. env \in EnvRecords
    BY LogrotateAssumption DEF Init
  <2>2. /\ DOMAIN arch = Logs /\ (\A l \in Logs : DOMAIN arch[l] = {} /\ base[l] = 0)
        /\ \A r \in Rotators : pc[r] = "idle" /\ ts[r] = 0
    BY DEF Init
  <2>3. RotationTyped
    BY <2>1, <2>2 DEF Init, RotationTyped
  <2>4. AllHeld
    BY <2>2 DEF AllHeld
  <2>5. \A r \in env.rotators : RotatorInv(r)
    <3>1. env.rotators \subseteq Rotators
      BY <2>1 DEF EnvRecords
    <3> QED BY <2>2, <3>1 DEF RotatorInv
  <2> QED BY <2>3, <2>4, <2>5 DEF RotationInv
<1>2. RotationInv /\ [Next]_vars => RotationInv'
  BY RotationNext
<1>3. RotationInv => LossOnlyInWindow
  <2> SUFFICES ASSUME RotationInv, Alone, NEW l \in Logs, NEW x \in 1..base[l]
               PROVE  x \in Archived(l) \cup pruned[l] \cup late[l]
    BY DEF LossOnlyInWindow
  <2>1. base[l] \in Nat
    BY DEF RotationInv, RotationTyped
  <2>2. x \in Nat /\ 1 <= x /\ x <= base[l]
    BY <2>1
  <2>3. Held(l, x)
    BY <2>2 DEF RotationInv, AllHeld
  <2> QED BY <2>3 DEF Held, Archived
<1> QED BY <1>1, <1>2, <1>3, PTL DEF Spec

-----------------------------------------------------------------------------
(* The set-up of a worker.                                                 *)

\* Run r has been through command k of phase p, and not given up in that phase.
Past(r, p, k) ==
    \/ r.phase > p
    \/ r.phase = p /\ r.st = "script" /\ r.i > k
    \/ r.phase = p /\ r.st = "exited" /\ ~r.exit

\* A script is at one of its commands until it exits; what it works with was
\* read from the gateway after the pinned version was.
PositionInv ==
    /\ run.st = "script" => run.i <= Len(Script[run.phase]) /\ ~run.exit /\ run.staged \in Gens
    /\ run.st # "idle" => run.pin \in Gens /\ run.pin <= gen /\ last.result = "none"
    /\ run.st = "script" => run.pin <= run.staged

\* What the run in progress, of the whole pipeline, has achieved so far, phase
\* by phase.
BrewDone ==
    /\ Past(run, 0, 2) => Wired(w.shellenv) \/ (run.phase = 0 /\ run.errors)
    /\ Past(run, 0, 3) => w.essentials = Formulas

UserDone ==
    /\ Past(run, 2, 2) => w.record
    /\ Past(run, 2, 3) => w.attrs = Attrs
    /\ Past(run, 2, 4) => w.home
    /\ Past(run, 2, 5) => w.sshGroup

HermesDone ==
    /\ Past(run, 3, 2) => Matches(w.hermes, run.pin)
    /\ Past(run, 3, 4) => Matches(w.pinned, run.pin)

ConfigDone ==
    /\ Past(run, 4, 2) => w.config.gen >= run.pin
    /\ Past(run, 4, 3) => w.config.mode600
    /\ Past(run, 4, 4) => w.config.worker

SecretsDone ==
    /\ Past(run, 5, 2) => w.secrets["env"].gen >= run.pin
    /\ Past(run, 5, 3) => w.secrets["env"].owned
    /\ Past(run, 5, 4) => w.secrets["env"].mode
    /\ Past(run, 5, 5) => w.secrets["wrapper"].gen >= run.pin
    /\ Past(run, 5, 6) => w.secrets["wrapper"].owned
    /\ Past(run, 5, 7) => w.secrets["wrapper"].mode

KeyDone == Past(run, 6, 3) => \E g \in run.pin..MaxGen : w.keys[g] = 1 \/ g \in w.glued

HeartbeatDone ==
    ~SkipHeartbeat =>
        /\ Past(run, 8, 2) => w.plist >= run.pin
        /\ Past(run, 8, 4) => w.loaded = w.plist
        /\ Past(run, 8, 5) => w.beat = "fresh" \/ ~Beats

Achieved ==
    BrewDone /\ UserDone /\ HermesDone /\ ConfigDone /\ SecretsDone /\ KeyDone /\ HeartbeatDone

\* The daemon does not beat, or launchd does not take its plist.
Spoiled == w.plist \in Broken \/ ~w.plistOwned

\* What a run that nothing has gone wrong in can count on: the worker lacks
\* nothing, no script has failed but for such a plist, and the old job is gone
\* when the new one is loaded.
Clean ==
    /\ w.lacks = {} /\ ~run.errors /\ ~run.failed
    /\ run.exit => run.phase >= 8 /\ Spoiled
    /\ run.st = "script" /\ run.phase = 8 /\ run.i = 4 /\ ~SkipHeartbeat => w.loaded = 0

RunInv == run.st # "idle" /\ Full(run.opt) => Achieved /\ (run.clean => Clean)

\* What BootstrapAssumption says of the bounds.
LEMMA BootConstants ==
    /\ MaxGen \in Nat /\ MaxFaults \in Nat /\ 1 \in Gens /\ Gens \subseteq 1..MaxGen
    /\ \A o \in Options : o.from \in Phases /\ o.to \in Phases
  BY BootstrapAssumption DEF Gens

\* The phase scripts, written out.
LEMMA Scripts ==
    /\ Script[0] = <<"detect_brew", "shellenv", "essentials">>
    /\ Script[1] = <<"prereqs">>
    /\ Script[2] = <<"existing", "user_record", "attrs", "homedir", "ssh_group">>
    /\ Script[3] = <<"clt", "installer", "verify_pinned", "seed_pinned">>
    /\ Script[4] = <<"hermes_dir", "extract", "chmod_config", "rewrite">>
    /\ Script[5] = <<"scripts_dir", "env_mv", "env_own", "env_mode",
                     "wrapper_mv", "wrapper_own", "wrapper_mode">>
    /\ Script[6] = <<"ssh_dir", "keys_file", "install_key">>
    /\ Script[7] = <<"tirith">>
    /\ Script[8] = <<"heartbeat_dir", "install_plist", "bootout", "bootstrap", "first_heartbeat">>
    /\ Script[9] = <<"verify">>
  BY DEF Script, Phases

\* How long they are.
LEMMA Lengths ==
    /\ Len(Script[0]) = 3 /\ Len(Script[1]) = 1 /\ Len(Script[2]) = 5 /\ Len(Script[3]) = 4
    /\ Len(Script[4]) = 4 /\ Len(Script[5]) = 7 /\ Len(Script[6]) = 3 /\ Len(Script[7]) = 1
    /\ Len(Script[8]) = 5 /\ Len(Script[9]) = 1
  BY Scripts

\* No script is longer than seven commands.
LEMMA ShortScripts == \A p \in Phases : Len(Script[p]) \in 1..7
  BY Lengths DEF Phases

\* Where in the scripts a command is.
LEMMA Place ==
  ASSUME NEW p \in Phases, NEW i \in 1..7, i <= Len(Script[p])
  PROVE  /\ Script[p][i] = "detect_brew" => p = 0 /\ i = 1
         /\ Script[p][i] = "shellenv" => p = 0 /\ i = 2
         /\ Script[p][i] = "essentials" => p = 0 /\ i = 3
         /\ Script[p][i] = "prereqs" => p = 1 /\ i = 1
         /\ Script[p][i] = "existing" => p = 2 /\ i = 1
         /\ Script[p][i] = "user_record" => p = 2 /\ i = 2
         /\ Script[p][i] = "attrs" => p = 2 /\ i = 3
         /\ Script[p][i] = "homedir" => p = 2 /\ i = 4
         /\ Script[p][i] = "ssh_group" => p = 2 /\ i = 5
         /\ Script[p][i] = "clt" => p = 3 /\ i = 1
         /\ Script[p][i] = "installer" => p = 3 /\ i = 2
         /\ Script[p][i] = "verify_pinned" => p = 3 /\ i = 3
         /\ Script[p][i] = "seed_pinned" => p = 3 /\ i = 4
         /\ Script[p][i] = "hermes_dir" => p = 4 /\ i = 1
         /\ Script[p][i] = "extract" => p = 4 /\ i = 2
         /\ Script[p][i] = "chmod_config" => p = 4 /\ i = 3
         /\ Script[p][i] = "rewrite" => p = 4 /\ i = 4
         /\ Script[p][i] = "scripts_dir" => p = 5 /\ i = 1
         /\ Script[p][i] = "env_mv" => p = 5 /\ i = 2
         /\ Script[p][i] = "env_own" => p = 5 /\ i = 3
         /\ Script[p][i] = "env_mode" => p = 5 /\ i = 4
         /\ Script[p][i] = "wrapper_mv" => p = 5 /\ i = 5
         /\ Script[p][i] = "wrapper_own" => p = 5 /\ i = 6
         /\ Script[p][i] = "wrapper_mode" => p = 5 /\ i = 7
         /\ Script[p][i] = "ssh_dir" => p = 6 /\ i = 1
         /\ Script[p][i] = "keys_file" => p = 6 /\ i = 2
         /\ Script[p][i] = "install_key" => p = 6 /\ i = 3
         /\ Script[p][i] = "tirith" => p = 7 /\ i = 1
         /\ Script[p][i] = "heartbeat_dir" => p = 8 /\ i = 1
         /\ Script[p][i] = "install_plist" => p = 8 /\ i = 2
         /\ Script[p][i] = "bootout" => p = 8 /\ i = 3
         /\ Script[p][i] = "bootstrap" => p = 8 /\ i = 4
         /\ Script[p][i] = "first_heartbeat" => p = 8 /\ i = 5
         /\ Script[p][i] = "verify" => p = 9 /\ i = 1
<1>i. i = 1 \/ i = 2 \/ i = 3 \/ i = 4 \/ i = 5 \/ i = 6 \/ i = 7
  OBVIOUS
<1>0. CASE p = 0
  BY <1>0, <1>i, Scripts, Lengths
<1>1. CASE p = 1
  BY <1>1, <1>i, Scripts, Lengths
<1>2. CASE p = 2
  BY <1>2, <1>i, Scripts, Lengths
<1>3. CASE p = 3
  BY <1>3, <1>i, Scripts, Lengths
<1>4. CASE p = 4
  BY <1>4, <1>i, Scripts, Lengths
<1>5. CASE p = 5
  BY <1>5, <1>i, Scripts, Lengths
<1>6. CASE p = 6
  BY <1>6, <1>i, Scripts, Lengths
<1>7. CASE p = 7
  BY <1>7, <1>i, Scripts, Lengths
<1>8. CASE p = 8
  BY <1>8, <1>i, Scripts, Lengths
<1>9. CASE p = 9
  BY <1>9, <1>i, Scripts, Lengths
<1> QED
  BY <1>0, <1>1, <1>2, <1>3, <1>4, <1>5, <1>6, <1>7, <1>8, <1>9 DEF Phases

\* Changing one field of a run.
LEMMA OneField ==
  ASSUME NEW r \in Runs
  PROVE  /\ \A e \in BOOLEAN : [r EXCEPT !.errors = e] \in Runs
         /\ \A e \in BOOLEAN : [r EXCEPT !.clean = e] \in Runs
         /\ \A e \in BOOLEAN : [r EXCEPT !.exit = e] \in Runs
         /\ \A e \in BOOLEAN : [r EXCEPT !.failed = e] \in Runs
         /\ \A i \in 1..7 : [r EXCEPT !.i = i] \in Runs
         /\ \A p \in Phases : [r EXCEPT !.phase = p] \in Runs
         /\ \A g \in 0..MaxGen : [r EXCEPT !.pin = g] \in Runs
         /\ \A g \in 0..MaxGen : [r EXCEPT !.staged = g] \in Runs
         /\ \A s \in {"idle", "prepare", "script", "exited"} : [r EXCEPT !.st = s] \in Runs
<1>1. ASSUME NEW e \in BOOLEAN PROVE [r EXCEPT !.errors = e] \in Runs
  BY DEF Runs
<1>2. ASSUME NEW e \in BOOLEAN PROVE [r EXCEPT !.clean = e] \in Runs
  BY DEF Runs
<1>3. ASSUME NEW e \in BOOLEAN PROVE [r EXCEPT !.exit = e] \in Runs
  BY DEF Runs
<1>4. ASSUME NEW e \in BOOLEAN PROVE [r EXCEPT !.failed = e] \in Runs
  BY DEF Runs
<1>5. ASSUME NEW i \in 1..7 PROVE [r EXCEPT !.i = i] \in Runs
  BY DEF Runs
<1>6. ASSUME NEW p \in Phases PROVE [r EXCEPT !.phase = p] \in Runs
  BY DEF Runs
<1>7. ASSUME NEW g \in 0..MaxGen PROVE [r EXCEPT !.pin = g] \in Runs
  BY DEF Runs
<1>8. ASSUME NEW g \in 0..MaxGen PROVE [r EXCEPT !.staged = g] \in Runs
  BY DEF Runs
<1>9. ASSUME NEW s \in {"idle", "prepare", "script", "exited"} PROVE [r EXCEPT !.st = s] \in Runs
  BY DEF Runs
<1> QED BY <1>1, <1>2, <1>3, <1>4, <1>5, <1>6, <1>7, <1>8, <1>9


-----------------------------------------------------------------------------
(***************************************************************************)
(* What a command does to the run                                          *)
(***************************************************************************)

\* The script goes on, with or without an error event, or exits.
Goes(err) == Advance(err) /\ UNCHANGED <<gen, last>>
Stops(clean) == Exit(clean) /\ UNCHANGED <<gen, last>>

\* A failure that is tolerated: the script goes on with its next command.  Two
\* commands tolerate one.
Tolerates ==
    /\ run' = [run EXCEPT !.i = @ + 1, !.clean = FALSE]
    /\ UNCHANGED <<gen, last>>

Lenient == At("install_plist") \/ At("bootout")

\* Every command ends in one of these ways.
LEMMA CommandShape ==
  ASSUME BootTypeOK, Command
  PROVE  /\ run.st = "script" /\ faults' \in 0..MaxFaults
         /\ \/ Goes(FALSE) \/ Goes(TRUE) \/ Stops(TRUE) \/ Stops(FALSE)
            \/ Tolerates /\ Lenient
<1> DEFINE Ends == /\ run.st = "script" /\ faults' \in 0..MaxFaults
                   /\ \/ Goes(FALSE) \/ Goes(TRUE) \/ Stops(TRUE) \/ Stops(FALSE)
                      \/ Tolerates /\ Lenient
<1>f. /\ Fault => faults' \in 0..MaxFaults
      /\ UNCHANGED faults => faults' \in 0..MaxFaults
  BY BootConstants DEF Fault, BootTypeOK
<1> USE <1>f DEF At, Pass, Refuse, Sudo, Mutate, Goes, Stops
<1>1. CASE DetectBrew \/ Shellenv \/ Essentials \/ PrereqsStep
  BY <1>1 DEF DetectBrew, Shellenv, Essentials, PrereqsStep
<1>2. CASE Existing \/ UserRecord \/ ApplyAttrs \/ Homedir \/ SSHGroup
  BY <1>2 DEF Existing, UserRecord, ApplyAttrs, Homedir, SSHGroup
<1>3. CASE Clt \/ Installer \/ VerifyPinned \/ SeedPinned
  BY <1>3 DEF Clt, Installer, VerifyPinned, SeedPinned
<1>4. ASSUME NEW c, NEW d, EnsureDir(c, d) PROVE Ends
  BY <1>4 DEF EnsureDir
<1>5. CASE Extract \/ ChmodConfig \/ Rewrite
  BY <1>5 DEF Extract, ChmodConfig, Rewrite
<1>6. ASSUME NEW c, NEW a, ArtifactMv(c, a) \/ ArtifactOwn(c, a) \/ ArtifactMode(c, a) PROVE Ends
  BY <1>6 DEF ArtifactMv, ArtifactOwn, ArtifactMode
<1>7. CASE KeysFile \/ InstallKey
  BY <1>7 DEF KeysFile, InstallKey
<1>8. CASE Tirith
  BY <1>8 DEF Tirith
<1>9. CASE HeartbeatDir
  BY <1>4, <1>9 DEF HeartbeatDir
<1>10. CASE LaunchctlBootstrap \/ FirstHeartbeat \/ Verify
  BY <1>10 DEF LaunchctlBootstrap, FirstHeartbeat, Verify
<1>11. CASE InstallPlist \/ Bootout
  BY <1>11 DEF InstallPlist, Bootout, Tolerate, Tolerates, Lenient
<1> QED
  BY <1>1, <1>2, <1>3, <1>4, <1>5, <1>6, <1>7, <1>8, <1>9, <1>10, <1>11 DEF Command

\* What a script that goes on, or exits, leaves of the run.
LEMMA AdvanceDoes ==
  ASSUME run \in Runs, NEW err \in BOOLEAN, Advance(err)
  PROVE  /\ run' \in Runs /\ run'.phase = run.phase /\ run'.opt = run.opt /\ run'.pin = run.pin
         /\ run'.staged = run.staged /\ run'.exit = run.exit /\ run'.failed = run.failed
         /\ run'.errors <=> run.errors \/ err
         /\ run'.clean <=> run.clean /\ ~err
         /\ run'.i = IF run.i < Len(Script[run.phase]) THEN run.i + 1 ELSE 1
         /\ run'.st = IF run.i < Len(Script[run.phase]) THEN "script" ELSE "exited"
<1>t. run.i \in 1..7 /\ run.phase \in Phases /\ run.errors \in BOOLEAN /\ run.clean \in BOOLEAN
  BY DEF Runs
<1>l. Len(Script[run.phase]) \in 1..7
  BY <1>t, ShortScripts
<1>1. PICK e \in BOOLEAN : e = (run.errors \/ err)
  OBVIOUS
<1>2. PICK c \in BOOLEAN : c = (run.clean /\ ~err)
  OBVIOUS
<1>3. PICK i \in 1..7 : i = IF run.i < Len(Script[run.phase]) THEN run.i + 1 ELSE 1
  <2>1. ASSUME NEW k \in 1..7, NEW n \in 1..7 PROVE (IF k < n THEN k + 1 ELSE 1) \in 1..7
    OBVIOUS
  <2> QED BY <1>t, <1>l, <2>1
<1>4. PICK s \in {"idle", "prepare", "script", "exited"} :
                s = IF run.i < Len(Script[run.phase]) THEN "script" ELSE "exited"
  OBVIOUS
<1>5. run' = [run EXCEPT !.errors = e, !.clean = c, !.i = i, !.st = s]
  BY <1>1, <1>2, <1>3, <1>4, Zenon DEF Advance
<1>6. PICK a \in Runs : a = [run EXCEPT !.errors = e]
  BY OneField, Zenon
<1>7. PICK b \in Runs : b = [a EXCEPT !.clean = c]
  BY OneField, Zenon
<1>8. PICK d \in Runs : d = [b EXCEPT !.i = i]
  BY OneField, Zenon
<1>9. PICK f \in Runs : f = [d EXCEPT !.st = s]
  BY OneField, Zenon
<1>10. run' = f
  <2>1. run' = [[[[run EXCEPT !.errors = e] EXCEPT !.clean = c] EXCEPT !.i = i] EXCEPT !.st = s]
    BY <1>5, Zenon
  <2>2. run' = [[[a EXCEPT !.clean = c] EXCEPT !.i = i] EXCEPT !.st = s]
    BY <2>1, <1>6, Zenon
  <2>3. run' = [[b EXCEPT !.i = i] EXCEPT !.st = s]
    BY <2>2, <1>7, Zenon
  <2>4. run' = [d EXCEPT !.st = s]
    BY <2>3, <1>8, Zenon
  <2> QED BY <2>4, <1>9, Zenon
<1>11. /\ run' \in Runs /\ run'.st = s /\ run'.phase = run.phase /\ run'.i = i
      /\ run'.opt = run.opt /\ run'.pin = run.pin /\ run'.staged = run.staged /\ run'.exit = run.exit
      /\ run'.errors = e /\ run'.failed = run.failed /\ run'.clean = c
  <2>1. /\ run'.st = s /\ run'.phase = run.phase /\ run'.i = i /\ run'.opt = run.opt
       /\ run'.pin = run.pin /\ run'.staged = run.staged /\ run'.exit = run.exit /\ run'.errors = e
       /\ run'.failed = run.failed /\ run'.clean = c
    BY <1>6, <1>7, <1>8, <1>9, <1>10 DEF Runs
  <2> QED BY <1>10, <2>1, Zenon
<1> QED BY <1>1, <1>2, <1>3, <1>4, <1>11

\* A script that exits counts as one that failed, and as unclean if told so.
LEMMA ExitDoes ==
  ASSUME run \in Runs, NEW clean \in BOOLEAN, Exit(clean)
  PROVE  /\ run' \in Runs /\ run'.phase = run.phase /\ run'.opt = run.opt /\ run'.pin = run.pin
         /\ run'.staged = run.staged /\ run'.exit = TRUE /\ run'.failed = run.failed
         /\ run'.errors = run.errors /\ run'.i = 1 /\ run'.st = "exited"
         /\ run'.clean <=> run.clean /\ clean
<1>1. PICK c \in BOOLEAN : c = (run.clean /\ clean)
  OBVIOUS
<1>2. run' = [run EXCEPT !.st = "exited", !.i = 1, !.exit = TRUE, !.clean = c]
  BY <1>1, Zenon DEF Exit
<1>3. 1 \in 1..7
  OBVIOUS
<1>4. PICK a \in Runs : a = [run EXCEPT !.st = "exited"]
  BY OneField, Zenon
<1>5. PICK b \in Runs : b = [a EXCEPT !.i = 1]
  BY <1>3, OneField, Zenon
<1>6. PICK d \in Runs : d = [b EXCEPT !.exit = TRUE]
  BY OneField, Zenon
<1>7. PICK f \in Runs : f = [d EXCEPT !.clean = c]
  BY OneField, Zenon
<1>8. run' = f
  <2>1. run' = [[[[run EXCEPT !.st = "exited"] EXCEPT !.i = 1] EXCEPT !.exit = TRUE] EXCEPT !.clean = c]
    BY <1>2, Zenon
  <2>2. run' = [[[a EXCEPT !.i = 1] EXCEPT !.exit = TRUE] EXCEPT !.clean = c]
    BY <2>1, <1>4, Zenon
  <2>3. run' = [[b EXCEPT !.exit = TRUE] EXCEPT !.clean = c]
    BY <2>2, <1>5, Zenon
  <2>4. run' = [d EXCEPT !.clean = c]
    BY <2>3, <1>6, Zenon
  <2> QED BY <2>4, <1>7, Zenon
<1>9. /\ run' \in Runs /\ run'.st = "exited" /\ run'.phase = run.phase /\ run'.i = 1
      /\ run'.opt = run.opt /\ run'.pin = run.pin /\ run'.staged = run.staged /\ run'.exit = TRUE
      /\ run'.errors = run.errors /\ run'.failed = run.failed /\ run'.clean = c
  <2>1. /\ run'.st = "exited" /\ run'.phase = run.phase /\ run'.i = 1 /\ run'.opt = run.opt
       /\ run'.pin = run.pin /\ run'.staged = run.staged /\ run'.exit = TRUE /\ run'.errors = run.errors
       /\ run'.failed = run.failed /\ run'.clean = c
    BY <1>4, <1>5, <1>6, <1>7, <1>8 DEF Runs
  <2> QED BY <1>8, <2>1, Zenon
<1> QED BY <1>1, <1>9

\* A tolerated failure leads to the next command, in a run that is no longer
\* clean.
LEMMA ToleratesDoes ==
  ASSUME run \in Runs, run.phase = 8, run.i \in 2..3, Tolerates
  PROVE  /\ run' \in Runs /\ run'.phase = run.phase /\ run'.opt = run.opt /\ run'.pin = run.pin
         /\ run'.staged = run.staged /\ run'.exit = run.exit /\ run'.failed = run.failed
         /\ run'.errors = run.errors /\ run'.i = run.i + 1 /\ run'.st = run.st /\ ~run'.clean
<1>1. run' = [run EXCEPT !.i = run.i + 1, !.clean = FALSE]
  BY DEF Tolerates
<1>3. PICK k \in 1..7 : k = run.i + 1
  OBVIOUS
<1>2. run' = [run EXCEPT !.i = k, !.clean = FALSE]
  BY <1>1, <1>3, Zenon
<1>4. PICK a \in Runs : a = [run EXCEPT !.i = k]
  BY OneField, Zenon
<1>5. PICK b \in Runs : b = [a EXCEPT !.clean = FALSE]
  BY OneField, Zenon
<1>6. run' = b
  <2>1. run' = [[run EXCEPT !.i = k] EXCEPT !.clean = FALSE]
    BY <1>2, Zenon
  <2>2. run' = [a EXCEPT !.clean = FALSE]
    BY <2>1, <1>4, Zenon
  <2> QED BY <2>2, <1>5, Zenon
<1>7. /\ run' \in Runs /\ run'.st = run.st /\ run'.phase = run.phase /\ run'.i = k
      /\ run'.opt = run.opt /\ run'.pin = run.pin /\ run'.staged = run.staged /\ run'.exit = run.exit
      /\ run'.errors = run.errors /\ run'.failed = run.failed /\ run'.clean = FALSE
  <2>1. /\ run'.st = run.st /\ run'.phase = run.phase /\ run'.i = k /\ run'.opt = run.opt
       /\ run'.pin = run.pin /\ run'.staged = run.staged /\ run'.exit = run.exit /\ run'.errors = run.errors
       /\ run'.failed = run.failed /\ run'.clean = FALSE
    BY <1>4, <1>5, <1>6 DEF Runs
  <2> QED BY <1>6, <2>1, Zenon
<1> QED BY <1>3, <1>7

\* The run stays typed and in place.
LEMMA ShapeTyped ==
  ASSUME BootTypeOK, PositionInv, run.st = "script",
         \/ Goes(FALSE) \/ Goes(TRUE) \/ Stops(TRUE) \/ Stops(FALSE)
         \/ Tolerates /\ Lenient
  PROVE  run' \in Runs /\ PositionInv' /\ run'.opt = run.opt
<1>t. run \in Runs /\ run.i \in 1..7 /\ run.phase \in Phases
  BY DEF BootTypeOK, Runs
<1>p. run.i <= Len(Script[run.phase]) /\ ~run.exit /\ run.staged \in Gens
      /\ run.pin \in Gens /\ run.pin <= gen /\ last.result = "none" /\ run.pin <= run.staged
  BY DEF PositionInv
<1>l. Len(Script[run.phase]) \in 1..7
  BY <1>t, ShortScripts
<1>1. ASSUME NEW err \in BOOLEAN, Goes(err)
      PROVE  run' \in Runs /\ PositionInv' /\ run'.opt = run.opt
  <2>1. /\ run' \in Runs /\ run'.phase = run.phase /\ run'.opt = run.opt /\ run'.pin = run.pin
        /\ run'.staged = run.staged /\ run'.exit = run.exit
        /\ run'.i = IF run.i < Len(Script[run.phase]) THEN run.i + 1 ELSE 1
        /\ run'.st = IF run.i < Len(Script[run.phase]) THEN "script" ELSE "exited"
    BY <1>1, <1>t, AdvanceDoes DEF Goes
  <2>2. run'.st = "script" => run'.i <= Len(Script[run.phase])
    <3>1. ASSUME NEW k \in 1..7, NEW n \in 1..7, k < n PROVE k + 1 <= n
      BY <3>1
    <3> QED BY <1>t, <1>l, <2>1, <3>1
  <2>3. gen' = gen /\ last' = last
    BY <1>1 DEF Goes
  <2> QED BY <1>p, <2>1, <2>2, <2>3 DEF PositionInv
<1>2. ASSUME NEW clean \in BOOLEAN, Stops(clean)
      PROVE  run' \in Runs /\ PositionInv' /\ run'.opt = run.opt
  <2>1. /\ run' \in Runs /\ run'.opt = run.opt /\ run'.pin = run.pin /\ run'.st = "exited"
        /\ gen' = gen /\ last' = last
    BY <1>2, <1>t, ExitDoes DEF Stops
  <2> QED BY <1>p, <2>1 DEF PositionInv
<1>3. ASSUME Tolerates, Lenient
      PROVE  run' \in Runs /\ PositionInv' /\ run'.opt = run.opt
  <2>1. run.phase = 8 /\ run.i \in 2..3
    BY <1>3, <1>t, <1>p, Place DEF At, Lenient
  <2>2. /\ run'.phase = 8 /\ run'.opt = run.opt /\ run'.pin = run.pin /\ run'.i = run.i + 1
        /\ run'.staged = run.staged /\ run'.exit = run.exit /\ run'.st = "script"
        /\ run' \in Runs
    BY <1>t, <1>3, <2>1, ToleratesDoes
  <2>3. gen' = gen /\ last' = last /\ run.i + 1 <= Len(Script[8])
    BY <1>3, <2>1, Lengths DEF Tolerates
  <2> QED BY <1>p, <2>2, <2>3 DEF PositionInv
<1> QED BY <1>1, <1>2, <1>3

-----------------------------------------------------------------------------
(***************************************************************************)
(* What a command does to the worker                                       *)
(***************************************************************************)

\* v is x but for what phase p is there for.
Elsewhere(p, x, v) ==
    /\ v.lacks = x.lacks
    /\ p # 0 => v.shellenv = x.shellenv /\ v.essentials = x.essentials
    /\ p # 2 => v.record = x.record /\ v.attrs = x.attrs /\ v.home = x.home /\ v.sshGroup = x.sshGroup
    /\ p # 3 => v.hermes = x.hermes /\ v.pinned = x.pinned
    /\ p # 4 => v.config = x.config
    /\ p # 5 => v.secrets = x.secrets
    /\ p # 6 => v.keys = x.keys /\ v.glued = x.glued
    /\ p # 8 => v.plist = x.plist /\ v.plistOwned = x.plistOwned /\ v.loaded = x.loaded /\ v.beat = x.beat

Within(p, x, v) == v \in Workers /\ Elsewhere(p, x, v)

\* Changing one field of the worker.
LEMMA WorkerField ==
  ASSUME NEW x \in Workers
  PROVE  /\ \A p : Within(p, x, x)
         /\ \A f \in [EnvLines -> {"none", "torn", "whole"}] : Within(0, x, [x EXCEPT !.shellenv = f])
         /\ \A s \in SUBSET Formulas : Within(0, x, [x EXCEPT !.essentials = s])
         /\ Within(2, x, [x EXCEPT !.record = TRUE])
         /\ \A s \in SUBSET Attrs : Within(2, x, [x EXCEPT !.attrs = s])
         /\ Within(2, x, [x EXCEPT !.home = TRUE])
         /\ Within(2, x, [x EXCEPT !.sshGroup = TRUE])
         /\ \A v \in 0..MaxGen : Within(3, x, [x EXCEPT !.hermes = v])
         /\ \A v \in 0..MaxGen : Within(3, x, [x EXCEPT !.pinned = v])
         /\ \A p : \A s \in SUBSET Dirs : Within(p, x, [x EXCEPT !.dirs = s])
         /\ \A c \in [gen : 0..MaxGen, mode600 : BOOLEAN, worker : BOOLEAN] :
                Within(4, x, [x EXCEPT !.config = c])
         /\ \A f \in [Artifacts -> [gen : 0..MaxGen, owned : BOOLEAN, mode : BOOLEAN]] :
                Within(5, x, [x EXCEPT !.secrets = f])
         /\ \A k \in {"none", "open", "600"} : Within(6, x, [x EXCEPT !.keysFile = k])
         /\ \A f \in [Gens -> 0..1] : Within(6, x, [x EXCEPT !.keys = f])
         /\ \A b \in BOOLEAN : Within(6, x, [x EXCEPT !.keysTorn = b])
         /\ \A s \in SUBSET Gens : Within(6, x, [x EXCEPT !.glued = s])
         /\ \A p : Within(p, x, [x EXCEPT !.tirith = TRUE])
         /\ \A v \in 0..MaxGen : Within(8, x, [x EXCEPT !.plist = v])
         /\ \A b \in BOOLEAN : Within(8, x, [x EXCEPT !.plistOwned = b])
         /\ \A v \in 0..MaxGen : Within(8, x, [x EXCEPT !.loaded = v])
         /\ \A b \in {"none", "fresh", "old"} : Within(8, x, [x EXCEPT !.beat = b])
<1> USE DEF Within, Elsewhere, Workers
<1>1. \A p : Within(p, x, x)
  OBVIOUS
<1>2. ASSUME NEW f \in [EnvLines -> {"none", "torn", "whole"}] PROVE Within(0, x, [x EXCEPT !.shellenv = f])
  OBVIOUS
<1>3. ASSUME NEW s \in SUBSET Formulas PROVE Within(0, x, [x EXCEPT !.essentials = s])
  OBVIOUS
<1>4. Within(2, x, [x EXCEPT !.record = TRUE])
  OBVIOUS
<1>5. ASSUME NEW s \in SUBSET Attrs PROVE Within(2, x, [x EXCEPT !.attrs = s])
  OBVIOUS
<1>6. Within(2, x, [x EXCEPT !.home = TRUE])
  OBVIOUS
<1>7. Within(2, x, [x EXCEPT !.sshGroup = TRUE])
  OBVIOUS
<1>8. ASSUME NEW v \in 0..MaxGen PROVE Within(3, x, [x EXCEPT !.hermes = v])
  OBVIOUS
<1>9. ASSUME NEW v \in 0..MaxGen PROVE Within(3, x, [x EXCEPT !.pinned = v])
  OBVIOUS
<1>10. ASSUME NEW p, NEW s \in SUBSET Dirs PROVE Within(p, x, [x EXCEPT !.dirs = s])
  OBVIOUS
<1>11. ASSUME NEW c \in [gen : 0..MaxGen, mode600 : BOOLEAN, worker : BOOLEAN]
       PROVE Within(4, x, [x EXCEPT !.config = c])
  OBVIOUS
<1>12. ASSUME NEW f \in [Artifacts -> [gen : 0..MaxGen, owned : BOOLEAN, mode : BOOLEAN]]
       PROVE Within(5, x, [x EXCEPT !.secrets = f])
  OBVIOUS
<1>13. ASSUME NEW k \in {"none", "open", "600"} PROVE Within(6, x, [x EXCEPT !.keysFile = k])
  OBVIOUS
<1>14. ASSUME NEW f \in [Gens -> 0..1] PROVE Within(6, x, [x EXCEPT !.keys = f])
  OBVIOUS
<1>19. ASSUME NEW b \in BOOLEAN PROVE Within(6, x, [x EXCEPT !.keysTorn = b])
  OBVIOUS
<1>20. ASSUME NEW s \in SUBSET Gens PROVE Within(6, x, [x EXCEPT !.glued = s])
  OBVIOUS
<1>21. ASSUME NEW b \in BOOLEAN PROVE Within(8, x, [x EXCEPT !.plistOwned = b])
  OBVIOUS
<1>15. ASSUME NEW p PROVE Within(p, x, [x EXCEPT !.tirith = TRUE])
  OBVIOUS
<1>16. ASSUME NEW v \in 0..MaxGen PROVE Within(8, x, [x EXCEPT !.plist = v])
  OBVIOUS
<1>17. ASSUME NEW v \in 0..MaxGen PROVE Within(8, x, [x EXCEPT !.loaded = v])
  OBVIOUS
<1>18. ASSUME NEW b \in {"none", "fresh", "old"} PROVE Within(8, x, [x EXCEPT !.beat = b])
  OBVIOUS
<1> HIDE DEF Within, Elsewhere, Workers
<1> QED BY <1>1, <1>2, <1>3, <1>4, <1>5, <1>6, <1>7, <1>8, <1>9, <1>10, <1>11, <1>12, <1>13, <1>14,
           <1>15, <1>16, <1>17, <1>18, <1>19, <1>20, <1>21, Zenon


\* The changes of two fields, or of a part of one, that the scripts make: the
\* version file,
LEMMA SeedParts ==
  ASSUME NEW x \in Workers, NEW v \in 0..MaxGen, NEW s \in SUBSET Dirs
  PROVE  \E y : /\ y = [x EXCEPT !.pinned = v, !.dirs = s]
                /\ Within(3, x, y)
<1>y. PICK y : y = [x EXCEPT !.pinned = v, !.dirs = s]
  OBVIOUS
<1>1. PICK a \in Workers : a = [x EXCEPT !.pinned = v] /\ Within(3, x, a)
  BY WorkerField, Zenon DEF Within
<1>2. PICK b \in Workers : b = [a EXCEPT !.dirs = s] /\ Within(3, a, b)
  BY WorkerField, Zenon DEF Within
<1>3. y = b
  <2>1. y = [[x EXCEPT !.pinned = v] EXCEPT !.dirs = s]
    BY <1>y, Zenon
  <2> QED BY <1>1, <1>2, <2>1, Zenon
<1>4. Within(3, x, b)
  BY <1>1, <1>2 DEF Within, Elsewhere
<1> QED BY <1>y, <1>3, <1>4, Zenon

\* config.yaml,
LEMMA ConfigMode ==
  ASSUME NEW x \in Workers
  PROVE  \E y : /\ y = [x EXCEPT !.config.mode600 = TRUE]
                /\ Within(4, x, y) /\ y.config.gen = x.config.gen /\ y.config.mode600 /\ y.config.worker = x.config.worker
<1>y. PICK y : y = [x EXCEPT !.config.mode600 = TRUE]
  OBVIOUS
<1> DEFINE Configs == [gen : 0..MaxGen, mode600 : BOOLEAN, worker : BOOLEAN]
<1>1. x.config \in Configs
  BY DEF Workers
<1>2. PICK c \in Configs : c = [x.config EXCEPT !.mode600 = TRUE]
  BY <1>1
<1>3. PICK z \in Workers : z = [x EXCEPT !.config = c] /\ Within(4, x, z)
  BY WorkerField, Zenon DEF Within
<1>4. y = z
  BY <1>y, <1>2, <1>3, Zenon
<1>5. z.config = c
  BY <1>3 DEF Workers
<1>6. c.gen = x.config.gen /\ c.mode600 /\ c.worker = x.config.worker
  BY <1>1, <1>2
<1> QED BY <1>y, <1>3, <1>4, <1>5, <1>6, Zenon

\* Rewriting the paths of config.yaml leaves its contents and mode.
LEMMA ConfigPaths ==
  ASSUME NEW x \in Workers
  PROVE  \E y : /\ y = [x EXCEPT !.config.worker = TRUE]
                /\ Within(4, x, y) /\ y.config.gen = x.config.gen /\ y.config.worker /\ y.config.mode600 = x.config.mode600
<1>y. PICK y : y = [x EXCEPT !.config.worker = TRUE]
  OBVIOUS
<1> DEFINE Configs == [gen : 0..MaxGen, mode600 : BOOLEAN, worker : BOOLEAN]
<1>1. x.config \in Configs
  BY DEF Workers
<1>2. PICK c \in Configs : c = [x.config EXCEPT !.worker = TRUE]
  BY <1>1
<1>3. PICK z \in Workers : z = [x EXCEPT !.config = c] /\ Within(4, x, z)
  BY WorkerField, Zenon DEF Within
<1>4. y = z
  BY <1>y, <1>2, <1>3, Zenon
<1>5. z.config = c
  BY <1>3 DEF Workers
<1>6. c.gen = x.config.gen /\ c.worker /\ c.mode600 = x.config.mode600
  BY <1>1, <1>2
<1> QED BY <1>y, <1>3, <1>4, <1>5, <1>6, Zenon

\* an artifact of the secrets,
OtherSecrets(a, x, y) == \A b \in Artifacts \ {a} : y.secrets[b] = x.secrets[b]

Secrets == [gen : 0..MaxGen, owned : BOOLEAN, mode : BOOLEAN]

\* Replacing one artifact leaves the other.
LEMMA SecretReplaced ==
  ASSUME NEW x \in Workers, NEW a \in Artifacts, NEW s \in Secrets
  PROVE  \E y : /\ y = [x EXCEPT !.secrets[a] = s]
                /\ Within(5, x, y) /\ y.secrets[a] = s /\ OtherSecrets(a, x, y)
<1>y. PICK y : y = [x EXCEPT !.secrets[a] = s]
  OBVIOUS
<1>1. x.secrets \in [Artifacts -> Secrets]
  BY DEF Workers, Secrets
<1>2. PICK f \in [Artifacts -> Secrets] : f = [x.secrets EXCEPT ![a] = s]
  BY <1>1
<1>3. PICK z \in Workers : z = [x EXCEPT !.secrets = f] /\ Within(5, x, z)
  BY WorkerField, Zenon DEF Within, Secrets
<1>4. y = z
  BY <1>y, <1>2, <1>3, Zenon
<1>5. z.secrets = f
  BY <1>3 DEF Workers
<1>6. f[a] = s /\ \A b \in Artifacts \ {a} : f[b] = x.secrets[b]
  BY <1>1, <1>2
<1>7. OtherSecrets(a, x, z)
  BY <1>5, <1>6, Zenon DEF OtherSecrets
<1> QED BY <1>y, <1>3, <1>4, <1>5, <1>6, <1>7, Zenon

\* So does giving it its owner,
LEMMA SecretOwned ==
  ASSUME NEW x \in Workers, NEW a \in Artifacts
  PROVE  \E y : /\ y = [x EXCEPT !.secrets[a].owned = TRUE]
                /\ Within(5, x, y) /\ y.secrets[a].gen = x.secrets[a].gen /\ y.secrets[a].owned
                /\ y.secrets[a].mode = x.secrets[a].mode
                /\ OtherSecrets(a, x, y)
<1>y. PICK y : y = [x EXCEPT !.secrets[a].owned = TRUE]
  OBVIOUS
<1>1. x.secrets[a] \in Secrets
  BY DEF Workers, Secrets
<1>2. PICK s \in Secrets : s = [x.secrets[a] EXCEPT !.owned = TRUE]
  BY <1>1 DEF Secrets
<1>3. PICK z : /\ z = [x EXCEPT !.secrets[a] = s]
               /\ Within(5, x, z) /\ z.secrets[a] = s
               /\ OtherSecrets(a, x, z)
  BY SecretReplaced, Zenon
<1>4. s.gen = x.secrets[a].gen /\ s.owned /\ s.mode = x.secrets[a].mode
  BY <1>1, <1>2 DEF Secrets
<1>5. y = z
  BY <1>y, <1>2, <1>3, Zenon
<1> QED BY <1>y, <1>3, <1>4, <1>5, Zenon

\* and its mode.
LEMMA SecretMode ==
  ASSUME NEW x \in Workers, NEW a \in Artifacts
  PROVE  \E y : /\ y = [x EXCEPT !.secrets[a].mode = TRUE]
                /\ Within(5, x, y) /\ y.secrets[a].gen = x.secrets[a].gen /\ y.secrets[a].mode
                /\ y.secrets[a].owned = x.secrets[a].owned
                /\ OtherSecrets(a, x, y)
<1>y. PICK y : y = [x EXCEPT !.secrets[a].mode = TRUE]
  OBVIOUS
<1>1. x.secrets[a] \in Secrets
  BY DEF Workers, Secrets
<1>2. PICK s \in Secrets : s = [x.secrets[a] EXCEPT !.mode = TRUE]
  BY <1>1 DEF Secrets
<1>3. PICK z : /\ z = [x EXCEPT !.secrets[a] = s]
               /\ Within(5, x, z) /\ z.secrets[a] = s
               /\ OtherSecrets(a, x, z)
  BY SecretReplaced, Zenon
<1>4. s.gen = x.secrets[a].gen /\ s.mode /\ s.owned = x.secrets[a].owned
  BY <1>1, <1>2 DEF Secrets
<1>5. y = z
  BY <1>y, <1>2, <1>3, Zenon
<1> QED BY <1>y, <1>3, <1>4, <1>5, Zenon

\* and authorized_keys.
LEMMA KeyAdded ==
  ASSUME NEW x \in Workers, NEW g \in Gens, x.keys[g] = 0
  PROVE  \E y : /\ y = [x EXCEPT !.keys[g] = @ + 1]
                /\ Within(6, x, y) /\ y.keys[g] = 1
<1>y. PICK y : y = [x EXCEPT !.keys[g] = @ + 1]
  OBVIOUS
<1>1. x.keys \in [Gens -> 0..1]
  BY DEF Workers
<1>2. PICK f \in [Gens -> 0..1] : f = [x.keys EXCEPT ![g] = 1]
  <2>1. 1 \in 0..1
    OBVIOUS
  <2> QED BY <1>1, <2>1, Zenon
<1>3. y = [x EXCEPT !.keys[g] = 1]
  <2>1. x.keys[g] + 1 = 1
    OBVIOUS
  <2>2. y = [x EXCEPT !.keys[g] = x.keys[g] + 1]
    BY <1>y, Zenon
  <2> QED BY <2>1, <2>2, Zenon
<1>4. PICK z \in Workers : z = [x EXCEPT !.keys = f] /\ Within(6, x, z)
  BY WorkerField, Zenon DEF Within
<1>5. y = z
  BY <1>y, <1>2, <1>3, <1>4, Zenon
<1>6. z.keys = f
  BY <1>4 DEF Workers
<1>7. f[g] = 1
  BY <1>1, <1>2
<1> QED BY <1>y, <1>4, <1>5, <1>6, <1>7, Zenon

\* Appended to an end inside a line, it shares that line.
LEMMA KeyGlued ==
  ASSUME NEW x \in Workers, NEW g \in Gens
  PROVE  \E y : /\ y = [x EXCEPT !.keysTorn = FALSE, !.glued = @ \cup {g}]
                /\ Within(6, x, y) /\ g \in y.glued
<1>y. PICK y : y = [x EXCEPT !.keysTorn = FALSE, !.glued = @ \cup {g}]
  OBVIOUS
<1>0. x.glued \in SUBSET Gens
  BY DEF Workers
<1>1. PICK s \in SUBSET Gens : s = x.glued \cup {g}
  BY <1>0
<1>2. PICK a \in Workers : a = [x EXCEPT !.keysTorn = FALSE] /\ Within(6, x, a)
  BY WorkerField, Zenon DEF Within
<1>3. PICK b \in Workers : b = [a EXCEPT !.glued = s] /\ Within(6, a, b)
  BY WorkerField, Zenon DEF Within
<1>4. y = b
  <2>1. y = [[x EXCEPT !.keysTorn = FALSE] EXCEPT !.glued = x.glued \cup {g}]
    BY <1>y, Zenon
  <2> QED BY <1>1, <1>2, <1>3, <2>1, Zenon
<1>5. b.glued = s
  BY <1>3 DEF Workers
<1>6. Within(6, x, b)
  BY <1>2, <1>3 DEF Within, Elsewhere
<1> QED BY <1>y, <1>1, <1>4, <1>5, <1>6, Zenon

\* In authorized_keys: on a line of its own, or behind a torn one.
HasKey(x, g) == x.keys[g] = 1 \/ g \in x.glued

\* A key that had no line of its own is there after it was appended,
LEMMA KeyAppended ==
  ASSUME NEW x \in Workers, NEW g \in Gens, x.keys[g] = 0
  PROVE  Within(6, x, Appended(x, g)) /\ HasKey(Appended(x, g), g)
<1>1. CASE x.keysTorn
  BY <1>1, KeyGlued, Zenon DEF Appended, HasKey
<1>2. CASE ~x.keysTorn
  BY <1>2, KeyAdded, Zenon DEF Appended, HasKey
<1> QED BY <1>1, <1>2

\* and after authorized_keys was made private.
LEMMA KeyInstalled ==
  ASSUME NEW x \in Workers, NEW g \in Gens, x.keys[g] = 0
  PROVE  \E y : /\ y = [Appended(x, g) EXCEPT !.keysFile = "600"]
                /\ Within(6, x, y) /\ HasKey(y, g)
<1>1. PICK a : a = Appended(x, g) /\ Within(6, x, a) /\ HasKey(a, g)
  BY KeyAppended, Zenon
<1>2. PICK b : b = [a EXCEPT !.keysFile = "600"]
  OBVIOUS
<1>3. a \in Workers
  BY <1>1 DEF Within
<1>4. Within(6, a, b)
  BY <1>2, <1>3, WorkerField, Zenon
<1>5. b.keys = a.keys /\ b.glued = a.glued
  BY <1>2, <1>3 DEF Workers
<1>6. Within(6, x, b)
  BY <1>1, <1>4 DEF Within, Elsewhere
<1>7. HasKey(b, g)
  BY <1>1, <1>5 DEF HasKey
<1> QED BY <1>1, <1>2, <1>6, <1>7, Zenon

-----------------------------------------------------------------------------
(***************************************************************************)
(* What each command does: how it can end, and what it leaves of the       *)
(* worker when the script goes on                                          *)
(***************************************************************************)

\* A command with nothing to do goes on, one that refuses exits; both leave the
\* worker alone.
LEMMA Simple == /\ Pass => w' = w /\ Goes(FALSE)
                /\ Refuse => w' = w /\ Stops(TRUE)
  BY DEF Pass, Refuse, Goes, Stops

\* detect_brew only looks.
LEMMA DetectBrewDoes ==
  ASSUME w \in Workers, run \in Runs, DetectBrew
  PROVE  /\ At("detect_brew") /\ Within(0, w, w')
         /\ ~run.opt.dry => \/ Goes(FALSE) /\ w' = w
                            \/ Stops(FALSE)
                            \/ Stops(TRUE) /\ w' = w /\ w.lacks # {}
<1>0. Within(0, w, w)
  BY WorkerField, Zenon
<1>1. /\ At("detect_brew") /\ (w' = w)
      /\ ~run.opt.dry => \/ Goes(FALSE) /\ ((w' = w /\ TRUE))
                         \/ Stops(FALSE)
                         \/ Stops(TRUE) /\ w' = w /\ w.lacks # {}
  BY Simple, Zenon DEF DetectBrew, Sudo, Mutate, Goes, Stops
<1> QED BY <1>0, <1>1

\* What an append to the environment leaves is of its type.
LEMMA HalfWiredTyped ==
  ASSUME NEW e
  PROVE  HalfWired(e) \subseteq [EnvLines -> {"none", "torn", "whole"}]
  BY DEF HalfWired

\* A whole one leaves nothing for the greps to miss.
LEMMA WireDoes ==
  ASSUME NEW e \in [EnvLines -> {"none", "torn", "whole"}]
  PROVE  Wire(e) \in [EnvLines -> {"none", "torn", "whole"}] /\ Wired(Wire(e))
  BY DEF Wire, Wired

\* brew's environment, whose failure is an error event.
LEMMA ShellenvDoes ==
  ASSUME w \in Workers, run \in Runs, Shellenv
  PROVE  /\ At("shellenv") /\ Within(0, w, w')
         /\ ~run.opt.dry => \/ Goes(FALSE) /\ Wired(w'.shellenv)
                            \/ Goes(TRUE)
                            \/ Stops(FALSE)
<1>0. Within(0, w, w)
  BY WorkerField, Zenon
<1>t. w.shellenv \in [EnvLines -> {"none", "torn", "whole"}]
  BY DEF Workers
<1>1. PICK z \in Workers : z = [w EXCEPT !.shellenv = Wire(w.shellenv)] /\ Within(0, w, z)
  BY <1>t, WireDoes, WorkerField, Zenon DEF Within
<1>2. Wired(z.shellenv)
  <2>1. z.shellenv = Wire(w.shellenv)
    BY <1>1 DEF Workers
  <2> QED BY <1>t, <2>1, WireDoes
<1> DEFINE Partial == {[w EXCEPT !.shellenv = f] : f \in HalfWired(w.shellenv)}
<1>3. ASSUME NEW y \in Partial PROVE Within(0, w, y)
  <2>1. PICK f \in [EnvLines -> {"none", "torn", "whole"}] : y = [w EXCEPT !.shellenv = f]
    BY <1>3, HalfWiredTyped, Zenon
  <2> QED BY <2>1, WorkerField, Zenon
<1>4. /\ At("shellenv") /\ (w' = w \/ w' = z \/ w' \in Partial)
      /\ ~run.opt.dry => \/ Goes(FALSE) /\ ((w' = w /\ Wired(w.shellenv)) \/ w' = z)
                         \/ Goes(TRUE)
                         \/ Stops(FALSE)
  BY <1>1, Simple, Zenon DEF Shellenv, Mutate, Goes, Stops
<1>5. Within(0, w, w')
  BY <1>0, <1>1, <1>3, <1>4, Zenon
<1> QED BY <1>2, <1>4, <1>5

\* The essential formulas are installed, or some of them.
LEMMA EssentialsDoes ==
  ASSUME w \in Workers, run \in Runs, Essentials
  PROVE  /\ At("essentials") /\ Within(0, w, w')
         /\ ~run.opt.dry => \/ Goes(FALSE) /\ w'.essentials = Formulas /\ w'.shellenv = w.shellenv
                            \/ Stops(FALSE)
                            \/ Stops(TRUE) /\ w' = w /\ FALSE
<1>0. Within(0, w, w)
  BY WorkerField, Zenon
<1>1. PICK z \in Workers : z = [w EXCEPT !.essentials = Formulas] /\ Within(0, w, z)
  BY WorkerField, Zenon DEF Within
<1>2. z.essentials = Formulas /\ z.shellenv = w.shellenv
  BY <1>1 DEF Workers
<1> DEFINE Partial == {[w EXCEPT !.essentials = w.essentials \cup s] : s \in SUBSET Formulas}
<1>3. ASSUME NEW y \in Partial PROVE Within(0, w, y)
  <2>1. PICK s \in SUBSET Formulas : y = [w EXCEPT !.essentials = w.essentials \cup s]
    BY <1>3, Zenon
  <2>2. PICK a \in SUBSET Formulas : a = w.essentials \cup s
    BY DEF Workers
  <2> QED BY <2>1, <2>2, WorkerField, Zenon
<1>4. /\ At("essentials") /\ (w' = w \/ w' = z \/ w' \in Partial)
      /\ ~run.opt.dry => \/ Goes(FALSE) /\ ((w' = w /\ w.essentials = Formulas) \/ w' = z)
                         \/ Stops(FALSE)
                         \/ Stops(TRUE) /\ w' = w /\ FALSE
  BY <1>1, Simple, Zenon DEF Essentials, Mutate, Goes, Stops
<1>5. Within(0, w, w')
  BY <1>0, <1>1, <1>3, <1>4, Zenon
<1> QED BY <1>2, <1>4, <1>5

\* verify_prereqs only looks.
LEMMA PrereqsStepDoes ==
  ASSUME w \in Workers, run \in Runs, PrereqsStep
  PROVE  /\ At("prereqs") /\ Within(1, w, w')
         /\ ~run.opt.dry => \/ Goes(FALSE) /\ w' = w
                            \/ Stops(FALSE)
                            \/ Stops(TRUE) /\ w' = w /\ w.lacks # {}
<1>0. Within(1, w, w)
  BY WorkerField, Zenon
<1>1. /\ At("prereqs") /\ (w' = w)
      /\ ~run.opt.dry => \/ Goes(FALSE) /\ ((w' = w /\ TRUE))
                         \/ Stops(FALSE)
                         \/ Stops(TRUE) /\ w' = w /\ w.lacks # {}
  BY Simple, Zenon DEF PrereqsStep, Sudo, Mutate, Goes, Stops
<1> QED BY <1>0, <1>1

\* The refusal of an admin account.
LEMMA ExistingDoes ==
  ASSUME w \in Workers, run \in Runs, Existing
  PROVE  /\ At("existing") /\ Within(2, w, w')
         /\ ~run.opt.dry => \/ Goes(FALSE) /\ w' = w
                            \/ Stops(FALSE)
                            \/ Stops(TRUE) /\ w' = w /\ w.lacks # {}
<1>0. Within(2, w, w)
  BY WorkerField, Zenon
<1>1. /\ At("existing") /\ (w' = w)
      /\ ~run.opt.dry => \/ Goes(FALSE) /\ ((w' = w /\ TRUE))
                         \/ Stops(FALSE)
                         \/ Stops(TRUE) /\ w' = w /\ w.lacks # {}
  BY Simple, Zenon DEF Existing, Sudo, Mutate, Goes, Stops
<1> QED BY <1>0, <1>1

\* The record of the account is created.
LEMMA UserRecordDoes ==
  ASSUME w \in Workers, run \in Runs, UserRecord
  PROVE  /\ At("user_record") /\ Within(2, w, w')
         /\ ~run.opt.dry => \/ Goes(FALSE) /\ w'.record
                            \/ Stops(FALSE)
                            \/ Stops(TRUE) /\ w' = w /\ ~CanSudo
<1>0. Within(2, w, w)
  BY WorkerField, Zenon
<1>1. PICK z \in Workers : z = [w EXCEPT !.record = TRUE] /\ Within(2, w, z)
  BY WorkerField, Zenon DEF Within
<1>2. z.record
  BY <1>1 DEF Workers
<1>3. /\ At("user_record") /\ (w' = w \/ w' = z)
      /\ ~run.opt.dry => \/ Goes(FALSE) /\ ((w' = w /\ w.record) \/ w' = z)
                         \/ Stops(FALSE)
                         \/ Stops(TRUE) /\ w' = w /\ ~CanSudo
  BY <1>1, <1>2, Simple, Zenon DEF UserRecord, UserExists, Sudo, Mutate, Goes, Stops
<1> QED BY <1>0, <1>1, <1>2, <1>3

\* The attributes of the account are set, or some of them.
LEMMA ApplyAttrsDoes ==
  ASSUME w \in Workers, run \in Runs, ApplyAttrs
  PROVE  /\ At("attrs") /\ Within(2, w, w')
         /\ ~run.opt.dry => \/ Goes(FALSE) /\ w'.attrs = Attrs /\ w'.record = w.record
                            \/ Stops(FALSE)
                            \/ Stops(TRUE) /\ w' = w /\ ~CanSudo
<1>0. Within(2, w, w)
  BY WorkerField, Zenon
<1>1. PICK z \in Workers : z = [w EXCEPT !.attrs = Attrs] /\ Within(2, w, z)
  BY WorkerField, Zenon DEF Within
<1>2. z.attrs = Attrs /\ z.record = w.record
  BY <1>1 DEF Workers
<1> DEFINE Partial == {[w EXCEPT !.attrs = w.attrs \cup s] : s \in SUBSET Attrs}
<1>3. ASSUME NEW y \in Partial PROVE Within(2, w, y)
  <2>1. PICK s \in SUBSET Attrs : y = [w EXCEPT !.attrs = w.attrs \cup s]
    BY <1>3, Zenon
  <2>2. PICK a \in SUBSET Attrs : a = w.attrs \cup s
    BY DEF Workers
  <2>3. PICK x \in Workers : x = [w EXCEPT !.attrs = a] /\ Within(2, w, x)
    BY WorkerField, Zenon DEF Within
  <2>4. y = x
    BY <2>1, <2>2, <2>3, Zenon
  <2> QED BY <2>3, <2>4, Zenon
<1>4. /\ At("attrs") /\ (w' = w \/ w' = z \/ w' \in Partial)
      /\ ~run.opt.dry => \/ Goes(FALSE) /\ ((w' = w /\ w.attrs = Attrs) \/ w' = z)
                         \/ Stops(FALSE)
                         \/ Stops(TRUE) /\ w' = w /\ ~CanSudo
  BY <1>1, Simple, Zenon DEF ApplyAttrs, Sudo, Mutate, Goes, Stops
<1>5. Within(2, w, w')
  BY <1>0, <1>1, <1>3, <1>4, Zenon
<1> QED BY <1>2, <1>4, <1>5

\* The home directory is created.
LEMMA HomedirDoes ==
  ASSUME w \in Workers, run \in Runs, Homedir
  PROVE  /\ At("homedir") /\ Within(2, w, w')
         /\ ~run.opt.dry => \/ Goes(FALSE) /\ w'.home /\ w'.record = w.record /\ w'.attrs = w.attrs
                            \/ Stops(FALSE)
                            \/ Stops(TRUE) /\ w' = w /\ ~CanSudo
<1>0. Within(2, w, w)
  BY WorkerField, Zenon
<1>1. PICK z \in Workers : z = [w EXCEPT !.home = TRUE] /\ Within(2, w, z)
  BY WorkerField, Zenon DEF Within
<1>2. z.home /\ z.record = w.record /\ z.attrs = w.attrs
  BY <1>1 DEF Workers
<1>3. /\ At("homedir") /\ (w' = w \/ w' = z)
      /\ ~run.opt.dry => \/ Goes(FALSE) /\ ((w' = w /\ w.home) \/ w' = z)
                         \/ Stops(FALSE)
                         \/ Stops(TRUE) /\ w' = w /\ ~CanSudo
  BY <1>1, <1>2, Simple, Zenon DEF Homedir, Sudo, Mutate, Goes, Stops
<1> QED BY <1>0, <1>1, <1>2, <1>3

\* The account joins the ssh group.
LEMMA SSHGroupDoes ==
  ASSUME w \in Workers, run \in Runs, SSHGroup
  PROVE  /\ At("ssh_group") /\ Within(2, w, w')
         /\ ~run.opt.dry => \/ Goes(FALSE) /\ w'.sshGroup /\ w'.home = w.home /\ w'.record = w.record /\ w'.attrs = w.attrs
                            \/ Stops(FALSE)
                            \/ Stops(TRUE) /\ w' = w /\ ~CanSudo
<1>0. Within(2, w, w)
  BY WorkerField, Zenon
<1>1. PICK z \in Workers : z = [w EXCEPT !.sshGroup = TRUE] /\ Within(2, w, z)
  BY WorkerField, Zenon DEF Within
<1>2. z.sshGroup /\ z.home = w.home /\ z.record = w.record /\ z.attrs = w.attrs
  BY <1>1 DEF Workers
<1>3. /\ At("ssh_group") /\ (w' = w \/ w' = z)
      /\ ~run.opt.dry => \/ Goes(FALSE) /\ ((w' = w /\ w.sshGroup) \/ w' = z)
                         \/ Stops(FALSE)
                         \/ Stops(TRUE) /\ w' = w /\ ~CanSudo
  BY <1>1, <1>2, Simple, Zenon DEF SSHGroup, Sudo, Mutate, Goes, Stops
<1> QED BY <1>0, <1>1, <1>2, <1>3

\* The command line tools are only looked for.
LEMMA CltDoes ==
  ASSUME w \in Workers, run \in Runs, Clt
  PROVE  /\ At("clt") /\ Within(3, w, w')
         /\ ~run.opt.dry => \/ Goes(FALSE) /\ w' = w
                            \/ Stops(FALSE)
                            \/ Stops(TRUE) /\ w' = w /\ w.lacks # {}
<1>0. Within(3, w, w)
  BY WorkerField, Zenon
<1>1. /\ At("clt") /\ (w' = w)
      /\ ~run.opt.dry => \/ Goes(FALSE) /\ ((w' = w /\ TRUE))
                         \/ Stops(FALSE)
                         \/ Stops(TRUE) /\ w' = w /\ w.lacks # {}
  BY Simple, Zenon DEF Clt, Sudo, Mutate, Goes, Stops
<1> QED BY <1>0, <1>1

\* hermes is installed, or what a failed installer leaves.
LEMMA InstallerDoes ==
  ASSUME w \in Workers, run \in Runs, run.pin \in Gens, Installer
  PROVE  /\ At("installer") /\ Within(3, w, w')
         /\ ~run.opt.dry => \/ Goes(FALSE) /\ Matches(w'.hermes, run.pin)
                            \/ Stops(FALSE)
                            \/ Stops(TRUE) /\ w' = w /\ ~CanBeHermes
<1>0. Within(3, w, w)
  BY WorkerField, Zenon
<1>t. run.pin \in 0..MaxGen /\ 0 \in 0..MaxGen /\ w.hermes \in 0..MaxGen /\ run.pin # 0
  BY BootConstants DEF Runs, Workers, Gens
<1>1. PICK z \in Workers : z = [w EXCEPT !.hermes = run.pin] /\ Within(3, w, z)
  BY <1>t, WorkerField, Zenon DEF Within
<1>2. z.hermes = run.pin
  BY <1>1 DEF Workers
<1> DEFINE Partial == {[w EXCEPT !.hermes = v] : v \in {0, w.hermes, run.pin}}
<1>3. ASSUME NEW y \in Partial PROVE Within(3, w, y)
  <2>1. PICK v \in 0..MaxGen : y = [w EXCEPT !.hermes = v]
    BY <1>t, Zenon
  <2>2. PICK x \in Workers : x = [w EXCEPT !.hermes = v] /\ Within(3, w, x)
    BY WorkerField, Zenon DEF Within
  <2> QED BY <2>1, <2>2, Zenon
<1>4. /\ At("installer") /\ (w' = w \/ w' = z \/ w' \in Partial)
      /\ ~run.opt.dry => \/ Goes(FALSE) /\ ((w' = w /\ Matches(Version, run.pin)) \/ w' = z)
                         \/ Stops(FALSE)
                         \/ Stops(TRUE) /\ w' = w /\ ~CanBeHermes
  BY <1>1, Simple, Zenon DEF Installer, Sudo, Mutate, Goes, Stops
<1>5. Within(3, w, w')
  BY <1>0, <1>1, <1>3, <1>4, Zenon
<1>6. Matches(Version, run.pin) => Matches(w.hermes, run.pin)
  BY DEF Matches, Version
<1>7. Matches(z.hermes, run.pin)
  BY <1>2, <1>t DEF Matches
<1> QED BY <1>4, <1>5, <1>6, <1>7, Zenon

\* verify_pinned only looks.
LEMMA VerifyPinnedDoes ==
  ASSUME w \in Workers, run \in Runs, VerifyPinned
  PROVE  /\ At("verify_pinned") /\ Within(3, w, w')
         /\ ~run.opt.dry => \/ Goes(FALSE) /\ w' = w
                            \/ Stops(FALSE)
                            \/ Stops(TRUE) /\ w' = w /\ ~Matches(Version, run.pin)
<1>0. Within(3, w, w)
  BY WorkerField, Zenon
<1>1. /\ At("verify_pinned") /\ (w' = w)
      /\ ~run.opt.dry => \/ Goes(FALSE) /\ ((w' = w /\ TRUE))
                         \/ Stops(FALSE)
                         \/ Stops(TRUE) /\ w' = w /\ ~Matches(Version, run.pin)
  BY Simple, Zenon DEF VerifyPinned, Sudo, Mutate, Goes, Stops
<1> QED BY <1>0, <1>1

\* The version file is written.
LEMMA SeedPinnedDoes ==
  ASSUME w \in Workers, run \in Runs, run.pin \in Gens, SeedPinned
  PROVE  /\ At("seed_pinned") /\ Within(3, w, w')
         /\ ~run.opt.dry => \/ Goes(FALSE) /\ w'.hermes = w.hermes /\ Matches(w'.pinned, run.pin)
                            \/ Stops(FALSE)
                            \/ Stops(TRUE) /\ w' = w /\ ~CanBeHermes
<1>0. Within(3, w, w)
  BY WorkerField, Zenon
<1>t. run.pin \in 0..MaxGen /\ 0 \in 0..MaxGen /\ run.pin # 0 /\ w.dirs \cup {"hermes"} \in SUBSET Dirs
  BY BootConstants DEF Runs, Workers, Gens, Dirs
<1>p. PICK v \in 0..MaxGen, d \in SUBSET Dirs : v = run.pin /\ d = w.dirs \cup {"hermes"}
  BY <1>t
<1>1. PICK z : z = [w EXCEPT !.pinned = v, !.dirs = d] /\ Within(3, w, z)
  BY SeedParts, Zenon
<1>2. PICK y : y = [w EXCEPT !.pinned = 0, !.dirs = d] /\ Within(3, w, y)
  BY <1>t, SeedParts, Zenon
<1>3. /\ At("seed_pinned") /\ (w' = w \/ w' = z \/ w' = y)
      /\ ~run.opt.dry => \/ Goes(FALSE) /\ ((w' = w /\ Matches(w.pinned, run.pin)) \/ w' = z)
                         \/ Stops(FALSE)
                         \/ Stops(TRUE) /\ w' = w /\ ~CanBeHermes
  BY <1>p, <1>1, <1>2, Simple, Zenon DEF SeedPinned, Sudo, Mutate, Goes, Stops
<1>4. Matches(z.pinned, run.pin)
  <2>1. z.pinned = v
    BY <1>1 DEF Workers
  <2> QED BY <1>t, <1>p, <2>1 DEF Matches
<1>5. z.hermes = w.hermes
  BY <1>1 DEF Workers
<1> QED BY <1>0, <1>1, <1>2, <1>3, <1>4, <1>5, Zenon

\* A directory is created.
LEMMA EnsureDirDoes ==
  ASSUME w \in Workers, run \in Runs, NEW p, NEW c, NEW d \in Dirs, EnsureDir(c, d)
  PROVE  /\ At(c) /\ Within(p, w, w')
         /\ ~run.opt.dry => \/ Goes(FALSE)
                            \/ Stops(FALSE)
                            \/ Stops(TRUE) /\ w' = w /\ ~CanBeHermes
<1>0. Within(p, w, w)
  BY WorkerField, Zenon
<1>t. w.dirs \cup {"hermes", d} \in SUBSET Dirs
  BY DEF Workers, Dirs
<1>1. PICK z \in Workers : z = [w EXCEPT !.dirs = w.dirs \cup {"hermes", d}] /\ Within(p, w, z)
  BY <1>t, WorkerField, Zenon DEF Within
<1>2. /\ At(c) /\ (w' = w \/ w' = z)
      /\ ~run.opt.dry => \/ Goes(FALSE)
                         \/ Stops(FALSE)
                         \/ Stops(TRUE) /\ w' = w /\ ~CanBeHermes
  BY <1>1, Simple, Zenon DEF EnsureDir, Sudo, Mutate, Goes, Stops
<1> QED BY <1>0, <1>1, <1>2, Zenon

\* config.yaml is replaced.
LEMMA ExtractDoes ==
  ASSUME w \in Workers, run \in Runs, Extract
  PROVE  /\ At("extract") /\ Within(4, w, w')
         /\ ~run.opt.dry => \/ Goes(FALSE) /\ w'.config.gen = run.staged
                            \/ Stops(FALSE)
                            \/ Stops(TRUE) /\ w' = w /\ ~CanBeHermes
<1> DEFINE Configs == [gen : 0..MaxGen, mode600 : BOOLEAN, worker : BOOLEAN]
<1>0. Within(4, w, w)
  BY WorkerField, Zenon
<1>1. PICK c \in Configs : c = [gen |-> run.staged, mode600 |-> FALSE, worker |-> FALSE]
  BY DEF Runs
<1>2. PICK d \in Configs : d = [gen |-> 0, mode600 |-> FALSE, worker |-> FALSE]
  <2>1. 0 \in 0..MaxGen
    BY BootConstants
  <2> QED BY <2>1
<1>f. \A x \in Configs : Within(4, w, [w EXCEPT !.config = x])
  BY WorkerField
<1> HIDE DEF Configs
<1>3. PICK z \in Workers : z = [w EXCEPT !.config = c] /\ Within(4, w, z)
  BY <1>f, Zenon DEF Within
<1>4. PICK y \in Workers : y = [w EXCEPT !.config = d] /\ Within(4, w, y)
  BY <1>f, Zenon DEF Within
<1>5. z.config.gen = run.staged
  <2>1. z.config = c
    BY <1>3 DEF Workers
  <2> QED BY <1>1, <2>1
<1>6. /\ At("extract") /\ (w' = w \/ w' = z \/ w' = y)
      /\ ~run.opt.dry => \/ Goes(FALSE) /\ w' = z
                         \/ Stops(FALSE)
                         \/ Stops(TRUE) /\ w' = w /\ ~CanBeHermes
  BY <1>1, <1>2, <1>3, <1>4, Simple, Zenon DEF Extract, Sudo, Mutate, Goes, Stops
<1> QED BY <1>0, <1>3, <1>4, <1>5, <1>6

\* config.yaml becomes private.
LEMMA ChmodConfigDoes ==
  ASSUME w \in Workers, run \in Runs, ChmodConfig
  PROVE  /\ At("chmod_config") /\ Within(4, w, w')
         /\ ~run.opt.dry => \/ Goes(FALSE) /\ w'.config.mode600 /\ w'.config.gen = w.config.gen
                            \/ Stops(FALSE)
                            \/ Stops(TRUE) /\ w' = w /\ w.config.gen = 0
<1>0. Within(4, w, w)
  BY WorkerField, Zenon
<1>1. PICK z : /\ z = [w EXCEPT !.config.mode600 = TRUE] /\ Within(4, w, z)
              /\ z.config.mode600 /\ z.config.gen = w.config.gen
  BY ConfigMode, Zenon DEF Within
<1>2. /\ At("chmod_config") /\ (w' = w \/ w' = z)
      /\ ~run.opt.dry => \/ Goes(FALSE) /\ (w' = z)
                         \/ Stops(FALSE)
                         \/ Stops(TRUE) /\ w' = w /\ w.config.gen = 0
  BY <1>1, Simple, Zenon DEF ChmodConfig, Sudo, Mutate, Goes, Stops
<1> QED BY <1>0, <1>1, <1>2

\* config.yaml gets the worker's paths.
LEMMA RewriteDoes ==
  ASSUME w \in Workers, run \in Runs, Rewrite
  PROVE  /\ At("rewrite") /\ Within(4, w, w')
         /\ ~run.opt.dry => \/ Goes(FALSE) /\ w'.config.worker /\ w'.config.gen = w.config.gen /\ w'.config.mode600 = w.config.mode600
                            \/ Stops(FALSE)
                            \/ Stops(TRUE) /\ w' = w /\ w.config.gen = 0
<1>0. Within(4, w, w)
  BY WorkerField, Zenon
<1>1. PICK z : /\ z = [w EXCEPT !.config.worker = TRUE] /\ Within(4, w, z)
              /\ z.config.gen = w.config.gen /\ z.config.worker /\ z.config.mode600 = w.config.mode600
  BY ConfigPaths, Zenon DEF Within
<1>2. /\ At("rewrite") /\ (w' = w \/ w' = z)
      /\ ~run.opt.dry => \/ Goes(FALSE) /\ ((w' = w /\ w.config.worker) \/ w' = z)
                         \/ Stops(FALSE)
                         \/ Stops(TRUE) /\ w' = w /\ w.config.gen = 0
  BY <1>1, Simple, Zenon DEF Rewrite, Sudo, Mutate, Goes, Stops
<1> QED BY <1>0, <1>1, <1>2

\* An artifact is moved into place, given to hermes and made private.
LEMMA ArtifactMvDoes ==
  ASSUME w \in Workers, run \in Runs, NEW c, NEW a \in Artifacts, ArtifactMv(c, a)
  PROVE  /\ At(c) /\ Within(5, w, w')
         /\ ~run.opt.dry => \/ Goes(FALSE) /\ w'.secrets[a].gen = run.staged /\ OtherSecrets(a, w, w')
                            \/ Stops(FALSE)
                            \/ Stops(TRUE) /\ w' = w /\ ~CanSudo
<1>0. Within(5, w, w)
  BY WorkerField, Zenon
<1>1. PICK s \in Secrets : s = [gen |-> run.staged, owned |-> FALSE, mode |-> FALSE]
  BY DEF Runs, Secrets
<1>2. PICK z : /\ z = [w EXCEPT !.secrets[a] = s] /\ Within(5, w, z)
               /\ z.secrets[a] = s /\ OtherSecrets(a, w, z)
  BY SecretReplaced, Zenon
<1>3. s.gen = run.staged
  BY <1>1
<1>4. /\ At(c) /\ (w' = w \/ w' = z)
      /\ ~run.opt.dry => \/ Goes(FALSE) /\ w' = z
                         \/ Stops(FALSE)
                         \/ Stops(TRUE) /\ w' = w /\ ~CanSudo
  BY <1>1, <1>2, Simple, Zenon DEF ArtifactMv, Sudo, Mutate, Goes, Stops
<1> QED BY <1>0, <1>2, <1>3, <1>4, Zenon

\* chown gives an artifact its owner and changes nothing else of it.
LEMMA ArtifactOwnDoes ==
  ASSUME w \in Workers, run \in Runs, NEW c, NEW a \in Artifacts, ArtifactOwn(c, a)
  PROVE  /\ At(c) /\ Within(5, w, w')
         /\ ~run.opt.dry => \/ /\ Goes(FALSE) /\ w'.secrets[a].gen = w.secrets[a].gen
                               /\ w'.secrets[a].owned /\ w'.secrets[a].mode = w.secrets[a].mode
                               /\ OtherSecrets(a, w, w')
                            \/ Stops(FALSE)
                            \/ Stops(TRUE) /\ w' = w /\ ~CanSudo
<1>0. Within(5, w, w)
  BY WorkerField, Zenon
<1>1. PICK z : /\ z = [w EXCEPT !.secrets[a].owned = TRUE] /\ Within(5, w, z)
               /\ z.secrets[a].gen = w.secrets[a].gen /\ z.secrets[a].owned
               /\ z.secrets[a].mode = w.secrets[a].mode /\ OtherSecrets(a, w, z)
  BY SecretOwned, Zenon
<1>2. /\ At(c) /\ (w' = w \/ w' = z)
      /\ ~run.opt.dry => \/ Goes(FALSE) /\ w' = z
                         \/ Stops(FALSE)
                         \/ Stops(TRUE) /\ w' = w /\ ~CanSudo
  BY <1>1, Simple, Zenon DEF ArtifactOwn, Sudo, Mutate, Goes, Stops
<1> QED BY <1>0, <1>1, <1>2, Zenon

\* chmod does the same for its mode.
LEMMA ArtifactModeDoes ==
  ASSUME w \in Workers, run \in Runs, NEW c, NEW a \in Artifacts, ArtifactMode(c, a)
  PROVE  /\ At(c) /\ Within(5, w, w')
         /\ ~run.opt.dry => \/ /\ Goes(FALSE) /\ w'.secrets[a].gen = w.secrets[a].gen
                               /\ w'.secrets[a].mode /\ w'.secrets[a].owned = w.secrets[a].owned
                               /\ OtherSecrets(a, w, w')
                            \/ Stops(FALSE)
                            \/ Stops(TRUE) /\ w' = w /\ ~CanSudo
<1>0. Within(5, w, w)
  BY WorkerField, Zenon
<1>1. PICK z : /\ z = [w EXCEPT !.secrets[a].mode = TRUE] /\ Within(5, w, z)
               /\ z.secrets[a].gen = w.secrets[a].gen /\ z.secrets[a].mode
               /\ z.secrets[a].owned = w.secrets[a].owned /\ OtherSecrets(a, w, z)
  BY SecretMode, Zenon
<1>2. /\ At(c) /\ (w' = w \/ w' = z)
      /\ ~run.opt.dry => \/ Goes(FALSE) /\ w' = z
                         \/ Stops(FALSE)
                         \/ Stops(TRUE) /\ w' = w /\ ~CanSudo
  BY <1>1, Simple, Zenon DEF ArtifactMode, Sudo, Mutate, Goes, Stops
<1> QED BY <1>0, <1>1, <1>2, Zenon

\* authorized_keys is created.
LEMMA KeysFileDoes ==
  ASSUME w \in Workers, run \in Runs, KeysFile
  PROVE  /\ At("keys_file") /\ Within(6, w, w')
         /\ ~run.opt.dry => \/ Goes(FALSE) /\ TRUE
                            \/ Stops(FALSE)
                            \/ Stops(TRUE) /\ w' = w /\ ~CanBeHermes
<1>0. Within(6, w, w)
  BY WorkerField, Zenon
<1>1. PICK z \in Workers : z = [w EXCEPT !.keysFile = "600"] /\ Within(6, w, z)
  BY WorkerField, Zenon DEF Within
<1>2. PICK y \in Workers : y = [w EXCEPT !.keysFile = "open"] /\ Within(6, w, y)
  BY WorkerField, Zenon DEF Within
<1>3. /\ At("keys_file") /\ (w' = w \/ w' = z \/ w' = y)
      /\ ~run.opt.dry => \/ Goes(FALSE) /\ ((w' = w /\ TRUE) \/ w' = z)
                         \/ Stops(FALSE)
                         \/ Stops(TRUE) /\ w' = w /\ ~CanBeHermes
  BY <1>1, <1>2, Simple, Zenon DEF KeysFile, Sudo, Mutate, Goes, Stops
<1> QED BY <1>0, <1>1, <1>2, <1>3

\* The public key is appended unless it has a line of its own.
LEMMA InstallKeyDoes ==
  ASSUME w \in Workers, run \in Runs, run.staged \in Gens, InstallKey
  PROVE  /\ At("install_key") /\ Within(6, w, w')
         /\ ~run.opt.dry => \/ Goes(FALSE) /\ HasKey(w', run.staged)
                            \/ Stops(FALSE)
                            \/ Stops(TRUE) /\ w' = w /\ ~CanSudo
<1>0. Within(6, w, w)
  BY WorkerField, Zenon
<1>t. w.keys[run.staged] \in 0..1
  BY DEF Workers
<1>1. CASE w.keys[run.staged] = 0
  <2>1. PICK z : /\ z = [Appended(w, run.staged) EXCEPT !.keysFile = "600"]
                 /\ Within(6, w, z) /\ HasKey(z, run.staged)
    BY <1>1, KeyInstalled, Zenon
  <2>2. PICK y : y = Appended(w, run.staged) /\ Within(6, w, y)
    BY <1>1, KeyAppended, Zenon
  <2>3. PICK x : x = [w EXCEPT !.keysTorn = TRUE] /\ Within(6, w, x)
    BY WorkerField, Zenon
  <2>4. ~(w.keys[run.staged] > 0)
    BY <1>1
  <2>5. /\ At("install_key") /\ (w' = w \/ w' = z \/ w' = y \/ w' = x)
        /\ ~run.opt.dry => \/ Goes(FALSE) /\ w' = z
                           \/ Stops(FALSE)
                           \/ Stops(TRUE) /\ w' = w /\ ~CanSudo
    BY <2>1, <2>2, <2>3, <2>4, Simple, Zenon DEF InstallKey, Sudo, Mutate, Goes, Stops
  <2> QED BY <1>0, <2>1, <2>2, <2>3, <2>5, Zenon
<1>2. CASE w.keys[run.staged] = 1
  <2>1. w.keys[run.staged] > 0 /\ HasKey(w, run.staged)
    BY <1>2 DEF HasKey
  <2>2. CASE CanSudo
    BY <1>0, <2>1, <2>2, Simple, Zenon DEF InstallKey
  <2>3. CASE ~CanSudo
    <3>1. /\ At("install_key") /\ w' = w
          /\ ~run.opt.dry => Stops(TRUE)
      BY <2>3, Simple, Zenon DEF InstallKey, Sudo, Mutate
    <3> QED BY <1>0, <2>3, <3>1, Zenon
  <2> QED BY <2>2, <2>3
<1>3. w.keys[run.staged] = 0 \/ w.keys[run.staged] = 1
  BY <1>t
<1> QED BY <1>1, <1>2, <1>3, Zenon

\* tirith is best effort.
LEMMA TirithDoes ==
  ASSUME w \in Workers, run \in Runs, Tirith
  PROVE  /\ At("tirith") /\ Within(7, w, w')
         /\ Goes(FALSE) \/ Goes(TRUE)
<1>0. Within(7, w, w)
  BY WorkerField, Zenon
<1>1. PICK z \in Workers : z = [w EXCEPT !.tirith = TRUE] /\ Within(7, w, z)
  BY WorkerField, Zenon DEF Within
<1>2. At("tirith") /\ (w' = w \/ w' = z) /\ (Goes(FALSE) \/ Goes(TRUE))
  BY <1>1, Simple, Zenon DEF Tirith, Goes
<1> QED BY <1>0, <1>1, <1>2, Zenon

\* The heartbeat directory is created.
LEMMA HeartbeatDirDoes ==
  ASSUME w \in Workers, run \in Runs, HeartbeatDir
  PROVE  /\ At("heartbeat_dir") /\ Within(8, w, w')
         /\ ~run.opt.dry => \/ Goes(FALSE)
                            \/ Stops(FALSE)
                            \/ Stops(TRUE) /\ w' = w /\ ~CanBeHermes
<1>0. Within(8, w, w)
  BY WorkerField, Zenon
<1>1. "heartbeat" \in Dirs
  BY DEF Dirs
<1>2. EnsureDir("heartbeat_dir", "heartbeat") \/ (At("heartbeat_dir") /\ Pass)
  BY Zenon DEF HeartbeatDir
<1> QED BY <1>0, <1>1, <1>2, EnsureDirDoes, Simple, Zenon

\* The plist is installed, with or without its owner.
LEMMA InstallPlistDoes ==
  ASSUME w \in Workers, run \in Runs, InstallPlist
  PROVE  /\ At("install_plist") /\ Within(8, w, w')
         /\ ~run.opt.dry => \/ Goes(FALSE) /\ (SkipHeartbeat \/ w'.plist = run.staged)
                            \/ Tolerates /\ w'.plist = run.staged
                            \/ Stops(FALSE)
                            \/ Stops(TRUE) /\ w' = w /\ ~CanSudo
<1>0. Within(8, w, w)
  BY WorkerField, Zenon
<1>t. run.staged \in 0..MaxGen
  BY DEF Runs
<1>1. PICK x \in Workers : x = [w EXCEPT !.plist = run.staged] /\ Within(8, w, x)
  BY <1>t, WorkerField, Zenon DEF Within
<1>2. x.plist = run.staged
  BY <1>1 DEF Workers
<1>3. ASSUME NEW b \in BOOLEAN
      PROVE  \E z : /\ z = [w EXCEPT !.plist = run.staged, !.plistOwned = b]
                    /\ Within(8, w, z) /\ z.plist = run.staged
  <2>1. PICK z \in Workers : z = [x EXCEPT !.plistOwned = b] /\ Within(8, x, z)
    BY WorkerField, Zenon DEF Within
  <2>2. z = [w EXCEPT !.plist = run.staged, !.plistOwned = b]
    <3>1. z = [[w EXCEPT !.plist = run.staged] EXCEPT !.plistOwned = b]
      BY <1>1, <2>1, Zenon
    <3> QED BY <3>1, Zenon
  <2>3. z.plist = x.plist
    BY <2>1 DEF Workers
  <2>4. Within(8, w, z)
    BY <1>1, <2>1 DEF Within, Elsewhere
  <2> QED BY <1>2, <2>2, <2>3, <2>4, Zenon
<1>4. PICK z : /\ z = [w EXCEPT !.plist = run.staged, !.plistOwned = TRUE]
              /\ Within(8, w, z) /\ z.plist = run.staged
  BY <1>3, Zenon
<1>5. PICK y : /\ y = [w EXCEPT !.plist = run.staged, !.plistOwned = FALSE]
              /\ Within(8, w, y) /\ y.plist = run.staged
  BY <1>3, Zenon
<1>6. /\ At("install_plist") /\ (w' = w \/ w' = z \/ w' = y)
      /\ ~run.opt.dry => \/ Goes(FALSE) /\ ((w' = w /\ (SkipHeartbeat \/ w.plist = run.staged)) \/ w' = z)
                         \/ Tolerates /\ w' = y
                         \/ Stops(FALSE)
                         \/ Stops(TRUE) /\ w' = w /\ ~CanSudo
  BY <1>4, <1>5, Simple, Zenon DEF InstallPlist, Sudo, Mutate, Goes, Stops, Tolerate, Tolerates
<1> QED BY <1>0, <1>4, <1>5, <1>6

\* The old job is unloaded; a failure to do so is tolerated.
LEMMA BootoutDoes ==
  ASSUME w \in Workers, run \in Runs, Bootout
  PROVE  /\ At("bootout") /\ Within(8, w, w')
         /\ ~run.opt.dry => \/ Goes(FALSE) /\ (SkipHeartbeat \/ (w'.plist = w.plist /\ w'.loaded = 0))
                            \/ Tolerates /\ w' = w
                            \/ Stops(FALSE)
                            \/ Stops(TRUE) /\ w' = w /\ ~CanSudo
<1>0. Within(8, w, w)
  BY WorkerField, Zenon
<1>t. 0 \in 0..MaxGen
  BY BootConstants
<1>1. PICK z \in Workers : z = [w EXCEPT !.loaded = 0] /\ Within(8, w, z)
  BY <1>t, WorkerField, Zenon DEF Within
<1>2. z.plist = w.plist /\ z.loaded = 0
  BY <1>1 DEF Workers
<1>4. /\ At("bootout") /\ (w' = w \/ w' = z)
      /\ ~run.opt.dry => \/ Goes(FALSE) /\ ((w' = w /\ SkipHeartbeat) \/ w' = z)
                         \/ Tolerates /\ w' = w
                         \/ Stops(FALSE)
                         \/ Stops(TRUE) /\ w' = w /\ ~CanSudo
  BY <1>1, Simple, Zenon DEF Bootout, Sudo, Mutate, Goes, Stops, Tolerate, Tolerates
<1> QED BY <1>0, <1>1, <1>2, <1>4, Zenon

\* The job is loaded.
LEMMA LaunchctlBootstrapDoes ==
  ASSUME w \in Workers, run \in Runs, LaunchctlBootstrap
  PROVE  /\ At("bootstrap") /\ Within(8, w, w')
         /\ ~run.opt.dry => \/ Goes(FALSE) /\ (SkipHeartbeat \/ (w'.plist = w.plist /\ w'.loaded = w.plist))
                            \/ Stops(FALSE)
                            \/ Stops(TRUE) /\ w' = w /\ ~SkipHeartbeat /\ ~(CanSudo /\ w.loaded = 0 /\ w.plist # 0 /\ w.plistOwned)
<1>0. Within(8, w, w)
  BY WorkerField, Zenon
<1>t. w.plist \in 0..MaxGen
  BY DEF Workers
<1>1. PICK z \in Workers : z = [w EXCEPT !.loaded = w.plist] /\ Within(8, w, z)
  BY <1>t, WorkerField, Zenon DEF Within
<1>2. z.plist = w.plist /\ z.loaded = w.plist
  BY <1>1 DEF Workers
<1>3. /\ At("bootstrap") /\ (w' = w \/ w' = z)
      /\ ~run.opt.dry => \/ Goes(FALSE) /\ ((w' = w /\ SkipHeartbeat) \/ w' = z)
                         \/ Stops(FALSE)
                         \/ Stops(TRUE) /\ w' = w /\ ~SkipHeartbeat /\ ~(CanSudo /\ w.loaded = 0 /\ w.plist # 0 /\ w.plistOwned)
  BY <1>1, <1>2, Simple, Zenon DEF LaunchctlBootstrap, Sudo, Mutate, Goes, Stops
<1> QED BY <1>0, <1>1, <1>2, <1>3

\* The wait for a heartbeat only looks.
LEMMA FirstHeartbeatDoes ==
  ASSUME w \in Workers, run \in Runs, FirstHeartbeat
  PROVE  /\ At("first_heartbeat") /\ Within(8, w, w')
         /\ ~run.opt.dry => \/ Goes(FALSE) /\ w' = w /\ (SkipHeartbeat \/ w.beat = "fresh")
                            \/ Stops(FALSE)
                            \/ Stops(TRUE) /\ w' = w /\ ~SkipHeartbeat /\ ~Beats
<1>0. Within(8, w, w)
  BY WorkerField, Zenon
<1>1. /\ At("first_heartbeat") /\ (w' = w)
      /\ ~run.opt.dry => \/ Goes(FALSE) /\ ((w' = w /\ (SkipHeartbeat \/ w.beat = "fresh")))
                         \/ Stops(FALSE)
                         \/ Stops(TRUE) /\ w' = w /\ ~SkipHeartbeat /\ ~Beats
  BY Simple, Zenon DEF FirstHeartbeat, Sudo, Mutate, Goes, Stops
<1> QED BY <1>0, <1>1

\* The last phase only looks.
LEMMA VerifyDoes ==
  ASSUME w \in Workers, run \in Runs, Verify
  PROVE  /\ At("verify") /\ Within(9, w, w')
         /\ ~run.opt.dry => \/ Goes(FALSE) /\ w' = w
                            \/ Stops(FALSE)
                            \/ Stops(TRUE) /\ w' = w /\ ~(Matches(Version, run.pin) /\ w.lacks = {}
                                                  /\ (SkipHeartbeat \/ (CanBeHermes /\ w.beat = "fresh")))
<1>0. Within(9, w, w)
  BY WorkerField, Zenon
<1>1. /\ At("verify") /\ (w' = w)
      /\ ~run.opt.dry => \/ Goes(FALSE) /\ ((w' = w /\ TRUE))
                         \/ Stops(FALSE)
                         \/ Stops(TRUE) /\ w' = w /\ ~(Matches(Version, run.pin) /\ w.lacks = {}
                                                  /\ (SkipHeartbeat \/ (CanBeHermes /\ w.beat = "fresh")))
  BY Simple, Zenon DEF Verify, Sudo, Mutate, Goes, Stops
<1> QED BY <1>0, <1>1

-----------------------------------------------------------------------------
(***************************************************************************)
(* What the run has achieved, phase by phase                               *)
(***************************************************************************)

\* How far a script is that goes on, or that exits.
LEMMA PastNow ==
  ASSUME run.st = "script", NEW p, NEW k
  PROVE  Past(run, p, k) <=> run.phase > p \/ (run.phase = p /\ run.i > k)
  BY DEF Past

\* A script that goes on gets past the command it was at and no other.
LEMMA PastGoes ==
  ASSUME run \in Runs, PositionInv, run.st = "script", NEW err \in BOOLEAN, Goes(err),
         NEW p \in Phases, NEW k \in 1..7, k <= Len(Script[p]), Past(run', p, k)
  PROVE  run.phase > p \/ (run.phase = p /\ run.i >= k)
<1>1. /\ run'.phase = run.phase
      /\ run'.i = IF run.i < Len(Script[run.phase]) THEN run.i + 1 ELSE 1
      /\ run'.st = IF run.i < Len(Script[run.phase]) THEN "script" ELSE "exited"
  BY AdvanceDoes DEF Goes
<1>2. run.i \in 1..7 /\ run.phase \in Phases /\ run.i <= Len(Script[run.phase])
  BY DEF Runs, PositionInv
<1>3. Len(Script[run.phase]) \in 1..7
  BY <1>2, ShortScripts
<1>4. \/ run.phase > p
      \/ run.phase = p /\ run.i < Len(Script[run.phase]) /\ run.i + 1 > k
      \/ run.phase = p /\ ~(run.i < Len(Script[run.phase]))
  BY <1>1 DEF Past
<1>5. ASSUME NEW i \in 1..7, NEW n \in 1..7, i <= n, k <= n, (i < n /\ i + 1 > k) \/ ~(i < n)
      PROVE  i >= k
  BY <1>5
<1> QED BY <1>2, <1>3, <1>4, <1>5

\* One that exits has failed its phase, and counts as past the earlier ones only.
LEMMA PastStops ==
  ASSUME run \in Runs, NEW clean \in BOOLEAN, Stops(clean), NEW p, NEW k, Past(run', p, k)
  PROVE  run.phase > p
<1>1. run'.phase = run.phase /\ run'.st = "exited" /\ run'.exit
  BY ExitDoes DEF Stops
<1> QED BY <1>1 DEF Past

\* Where a failure is tolerated.
LEMMA LenientPlace ==
  ASSUME run \in Runs, PositionInv, Lenient
  PROVE  run.phase = 8 /\ run.i \in 2..3
  BY Place DEF Runs, PositionInv, At, Lenient

\* A command whose failure is tolerated is past no later command.
LEMMA PastTolerates ==
  ASSUME run \in Runs, PositionInv, Tolerates, Lenient, NEW p \in Phases, NEW k \in 1..7, Past(run', p, k)
  PROVE  run.phase = 8 /\ (8 > p \/ (p = 8 /\ k <= run.i))
<1>1. run.phase = 8 /\ run.i \in 2..3
  BY LenientPlace
<1>2. run'.phase = 8 /\ run'.st = "script" /\ run'.i = run.i + 1
  BY <1>1, ToleratesDoes DEF At, Lenient
<1> QED BY <1>1, <1>2 DEF Past, Phases

\* One step of a script.
ScriptStep ==
    /\ run \in Runs /\ PositionInv /\ run.st = "script"
    /\ \/ Goes(FALSE) \/ Goes(TRUE) \/ Stops(TRUE) \/ Stops(FALSE)
       \/ Tolerates /\ Lenient

\* What it changes of the run beside the position.
LEMMA StepKeeps ==
  ASSUME ScriptStep
  PROVE  run'.phase = run.phase /\ run'.opt = run.opt /\ run'.pin = run.pin /\ run'.failed = run.failed
<1>1. Tolerates /\ Lenient => run.phase = 8 /\ run.i \in 2..3
  BY LenientPlace DEF ScriptStep
<1> QED BY <1>1, AdvanceDoes, ExitDoes, ToleratesDoes DEF ScriptStep, Goes, Stops

\* Of the phases it is not in, it is past those before; when it exits, of its
\* own phase it is past nothing.
LEMMA PastElsewhere ==
  ASSUME ScriptStep, NEW p \in Phases, NEW k \in 1..7, k <= Len(Script[p]), Past(run', p, k),
         p # run.phase \/ Stops(TRUE) \/ Stops(FALSE)
  PROVE  run.phase > p /\ Past(run, p, k)
<1>1. run.phase \in Phases
  BY DEF ScriptStep, Runs
<1>2. run.phase > p
  BY <1>1, PastGoes, PastStops, PastTolerates DEF ScriptStep, Phases
<1> QED BY <1>2, PastNow DEF ScriptStep

\* The phases a step is not in keep what they have achieved; all do when the
\* script exits.
Exits == Stops(TRUE) \/ Stops(FALSE)

\* A step of one phase keeps what the others achieved, and a script that exits
\* claims nothing for its own.
LEMMA OtherPhases ==
  ASSUME ScriptStep, Elsewhere(run.phase, w, w'), Achieved
  PROVE  /\ run.phase # 0 \/ Exits => BrewDone'
         /\ run.phase # 2 \/ Exits => UserDone'
         /\ run.phase # 3 \/ Exits => HermesDone'
         /\ run.phase # 4 \/ Exits => ConfigDone'
         /\ run.phase # 5 \/ Exits => SecretsDone'
         /\ run.phase # 6 \/ Exits => KeyDone'
         /\ run.phase # 8 \/ Exits => HeartbeatDone'
<1>p. ASSUME NEW p \in Phases, NEW k \in 1..7, k <= Len(Script[p]), Past(run', p, k), p # run.phase \/ Exits
      PROVE  run.phase > p /\ Past(run, p, k) /\ run.phase # p
  <2>1. run.phase > p /\ Past(run, p, k)
    BY <1>p, PastElsewhere DEF Exits
  <2> QED BY <2>1 DEF Phases, ScriptStep, Runs
<1>k. run'.phase = run.phase /\ run'.opt = run.opt /\ run'.pin = run.pin
  BY StepKeeps
<1>s. SkipHeartbeat' <=> SkipHeartbeat
  BY <1>k DEF SkipHeartbeat
<1>1. ASSUME run.phase # 0 \/ Exits PROVE BrewDone'
  <2>1. /\ Past(run', 0, 2) => run.phase > 0 /\ Past(run, 0, 2) /\ run.phase # 0
        /\ Past(run', 0, 3) => run.phase > 0 /\ Past(run, 0, 3) /\ run.phase # 0
    <3>1. /\ 0 \in Phases /\ (run.phase # 0 => 0 # run.phase)
          /\ 2 \in 1..7 /\ 2 <= Len(Script[0])
          /\ 3 \in 1..7 /\ 3 <= Len(Script[0])
      BY Lengths DEF Phases
    <3> QED BY <1>p, <1>1, <3>1, Zenon
  <2>2. BrewDone
    BY DEF Achieved
  <2> QED BY <1>k, <1>s, <2>1, <2>2 DEF BrewDone, Elsewhere
<1>2. ASSUME run.phase # 2 \/ Exits PROVE UserDone'
  <2>1. /\ Past(run', 2, 2) => run.phase > 2 /\ Past(run, 2, 2) /\ run.phase # 2
        /\ Past(run', 2, 3) => run.phase > 2 /\ Past(run, 2, 3) /\ run.phase # 2
        /\ Past(run', 2, 4) => run.phase > 2 /\ Past(run, 2, 4) /\ run.phase # 2
        /\ Past(run', 2, 5) => run.phase > 2 /\ Past(run, 2, 5) /\ run.phase # 2
    <3>1. /\ 2 \in Phases /\ (run.phase # 2 => 2 # run.phase)
          /\ 2 \in 1..7 /\ 2 <= Len(Script[2])
          /\ 3 \in 1..7 /\ 3 <= Len(Script[2])
          /\ 4 \in 1..7 /\ 4 <= Len(Script[2])
          /\ 5 \in 1..7 /\ 5 <= Len(Script[2])
      BY Lengths DEF Phases
    <3> QED BY <1>p, <1>2, <3>1, Zenon
  <2>2. UserDone
    BY DEF Achieved
  <2> QED BY <1>k, <1>s, <2>1, <2>2 DEF UserDone, Elsewhere
<1>3. ASSUME run.phase # 3 \/ Exits PROVE HermesDone'
  <2>1. /\ Past(run', 3, 2) => run.phase > 3 /\ Past(run, 3, 2) /\ run.phase # 3
        /\ Past(run', 3, 4) => run.phase > 3 /\ Past(run, 3, 4) /\ run.phase # 3
    <3>1. /\ 3 \in Phases /\ (run.phase # 3 => 3 # run.phase)
          /\ 2 \in 1..7 /\ 2 <= Len(Script[3])
          /\ 4 \in 1..7 /\ 4 <= Len(Script[3])
      BY Lengths DEF Phases
    <3> QED BY <1>p, <1>3, <3>1, Zenon
  <2>2. HermesDone
    BY DEF Achieved
  <2> QED BY <1>k, <1>s, <2>1, <2>2 DEF HermesDone, Elsewhere
<1>4. ASSUME run.phase # 4 \/ Exits PROVE ConfigDone'
  <2>1. /\ Past(run', 4, 2) => run.phase > 4 /\ Past(run, 4, 2) /\ run.phase # 4
        /\ Past(run', 4, 3) => run.phase > 4 /\ Past(run, 4, 3) /\ run.phase # 4
        /\ Past(run', 4, 4) => run.phase > 4 /\ Past(run, 4, 4) /\ run.phase # 4
    <3>1. /\ 4 \in Phases /\ (run.phase # 4 => 4 # run.phase)
          /\ 2 \in 1..7 /\ 2 <= Len(Script[4])
          /\ 3 \in 1..7 /\ 3 <= Len(Script[4])
          /\ 4 \in 1..7 /\ 4 <= Len(Script[4])
      BY Lengths DEF Phases
    <3> QED BY <1>p, <1>4, <3>1, Zenon
  <2>2. ConfigDone
    BY DEF Achieved
  <2> QED BY <1>k, <1>s, <2>1, <2>2 DEF ConfigDone, Elsewhere
<1>5. ASSUME run.phase # 5 \/ Exits PROVE SecretsDone'
  <2>1. /\ Past(run', 5, 2) => run.phase > 5 /\ Past(run, 5, 2) /\ run.phase # 5
        /\ Past(run', 5, 3) => run.phase > 5 /\ Past(run, 5, 3) /\ run.phase # 5
        /\ Past(run', 5, 4) => run.phase > 5 /\ Past(run, 5, 4) /\ run.phase # 5
        /\ Past(run', 5, 5) => run.phase > 5 /\ Past(run, 5, 5) /\ run.phase # 5
        /\ Past(run', 5, 6) => run.phase > 5 /\ Past(run, 5, 6) /\ run.phase # 5
        /\ Past(run', 5, 7) => run.phase > 5 /\ Past(run, 5, 7) /\ run.phase # 5
    <3>1. /\ 5 \in Phases /\ (run.phase # 5 => 5 # run.phase)
          /\ 2 \in 1..7 /\ 2 <= Len(Script[5])
          /\ 3 \in 1..7 /\ 3 <= Len(Script[5])
          /\ 4 \in 1..7 /\ 4 <= Len(Script[5])
          /\ 5 \in 1..7 /\ 5 <= Len(Script[5])
          /\ 6 \in 1..7 /\ 6 <= Len(Script[5])
          /\ 7 \in 1..7 /\ 7 <= Len(Script[5])
      BY Lengths DEF Phases
    <3> QED BY <1>p, <1>5, <3>1, Zenon
  <2>2. SecretsDone
    BY DEF Achieved
  <2> QED BY <1>k, <1>s, <2>1, <2>2 DEF SecretsDone, Elsewhere
<1>6. ASSUME run.phase # 6 \/ Exits PROVE KeyDone'
  <2>1. /\ Past(run', 6, 3) => run.phase > 6 /\ Past(run, 6, 3) /\ run.phase # 6
    <3>1. /\ 6 \in Phases /\ (run.phase # 6 => 6 # run.phase)
          /\ 3 \in 1..7 /\ 3 <= Len(Script[6])
      BY Lengths DEF Phases
    <3> QED BY <1>p, <1>6, <3>1, Zenon
  <2>2. KeyDone
    BY DEF Achieved
  <2> QED BY <1>k, <1>s, <2>1, <2>2 DEF KeyDone, Elsewhere
<1>7. ASSUME run.phase # 8 \/ Exits PROVE HeartbeatDone'
  <2>1. /\ Past(run', 8, 2) => run.phase > 8 /\ Past(run, 8, 2) /\ run.phase # 8
        /\ Past(run', 8, 4) => run.phase > 8 /\ Past(run, 8, 4) /\ run.phase # 8
        /\ Past(run', 8, 5) => run.phase > 8 /\ Past(run, 8, 5) /\ run.phase # 8
    <3>1. /\ 8 \in Phases /\ (run.phase # 8 => 8 # run.phase)
          /\ 2 \in 1..7 /\ 2 <= Len(Script[8])
          /\ 4 \in 1..7 /\ 4 <= Len(Script[8])
          /\ 5 \in 1..7 /\ 5 <= Len(Script[8])
      BY Lengths DEF Phases
    <3> QED BY <1>p, <1>7, <3>1, Zenon
  <2>2. HeartbeatDone
    BY DEF Achieved
  <2> QED BY <1>k, <1>s, <2>1, <2>2 DEF HeartbeatDone, Elsewhere, Beats
<1> QED BY <1>1, <1>2, <1>3, <1>4, <1>5, <1>6, <1>7

\* The phase a step is in: a command that goes on has done its part, and the
\* commands before it keep theirs.
LEMMA Here ==
  ASSUME ScriptStep, NEW err \in BOOLEAN, Goes(err), NEW p \in Phases, NEW i \in 1..7,
         run.phase = p, run.i = i, NEW k \in 1..7, k <= Len(Script[p])
  PROVE  (k > i => ~Past(run', p, k)) /\ (k < i => Past(run, p, k))
<1>1. Past(run', p, k) => run.phase > p \/ (run.phase = p /\ run.i >= k)
  BY PastGoes DEF ScriptStep
<1>2. Past(run, p, k) <=> run.phase > p \/ (run.phase = p /\ run.i > k)
  BY PastNow DEF ScriptStep
<1> QED BY <1>1, <1>2 DEF Phases

\* Where each command is.
LEMMA Where ==
  ASSUME ScriptStep, NEW c, At(c)
  PROVE  /\ run.phase \in Phases /\ run.i \in 1..7 /\ run.i <= Len(Script[run.phase])
         /\ Script[run.phase][run.i] = c
  BY DEF ScriptStep, Runs, PositionInv, At

\* The user account: its record, attributes, home and access group in turn.
LEMMA UserSteps ==
  ASSUME w \in Workers, ScriptStep, ~run.opt.dry, UserDone, ~Exits,
         Existing \/ UserRecord \/ ApplyAttrs \/ Homedir \/ SSHGroup
  PROVE  UserDone'
<1>k. run \in Runs /\ run'.phase = run.phase /\ run'.opt = run.opt /\ run'.pin = run.pin
  BY StepKeeps DEF ScriptStep
<1>1. CASE Existing
  <2>1. At("existing") /\ Goes(FALSE) /\ w' = w
    BY <1>k, <1>1, ExistingDoes DEF Exits
  <2>2. run.phase = 2 /\ run.i = 1
    BY <2>1, Where, Place
  <2>3. /\ ~Past(run', 2, 2) /\ ~Past(run', 2, 3) /\ ~Past(run', 2, 4) /\ ~Past(run', 2, 5)
    <3>1. /\ 2 \in Phases /\ 1 \in 1..7
          /\ 2 \in 1..7 /\ 2 <= Len(Script[2]) /\ 2 > 1
          /\ 3 \in 1..7 /\ 3 <= Len(Script[2]) /\ 3 > 1
          /\ 4 \in 1..7 /\ 4 <= Len(Script[2]) /\ 4 > 1
          /\ 5 \in 1..7 /\ 5 <= Len(Script[2]) /\ 5 > 1
      BY Lengths DEF Phases
    <3> QED BY <2>1, <2>2, <3>1, Here, Zenon
  <2> QED BY <1>k, <2>1, <2>2, <2>3 DEF UserDone
<1>2. CASE UserRecord
  <2>1. At("user_record") /\ Goes(FALSE) /\ w'.record
    BY <1>k, <1>2, UserRecordDoes DEF Exits
  <2>2. run.phase = 2 /\ run.i = 2
    BY <2>1, Where, Place
  <2>3. /\ ~Past(run', 2, 3) /\ ~Past(run', 2, 4) /\ ~Past(run', 2, 5)
    <3>1. /\ 2 \in Phases /\ 2 \in 1..7
          /\ 3 \in 1..7 /\ 3 <= Len(Script[2]) /\ 3 > 2
          /\ 4 \in 1..7 /\ 4 <= Len(Script[2]) /\ 4 > 2
          /\ 5 \in 1..7 /\ 5 <= Len(Script[2]) /\ 5 > 2
      BY Lengths DEF Phases
    <3> QED BY <2>1, <2>2, <3>1, Here, Zenon
  <2> QED BY <1>k, <2>1, <2>2, <2>3 DEF UserDone
<1>3. CASE ApplyAttrs
  <2>1. At("attrs") /\ Goes(FALSE) /\ w'.attrs = Attrs /\ w'.record = w.record
    BY <1>k, <1>3, ApplyAttrsDoes DEF Exits
  <2>2. run.phase = 2 /\ run.i = 3
    BY <2>1, Where, Place
  <2>3. /\ ~Past(run', 2, 4) /\ ~Past(run', 2, 5) /\ Past(run, 2, 2)
    <3>1. /\ 2 \in Phases /\ 3 \in 1..7
          /\ 4 \in 1..7 /\ 4 <= Len(Script[2]) /\ 4 > 3
          /\ 5 \in 1..7 /\ 5 <= Len(Script[2]) /\ 5 > 3
          /\ 2 \in 1..7 /\ 2 <= Len(Script[2]) /\ 2 < 3
      BY Lengths DEF Phases
    <3> QED BY <2>1, <2>2, <3>1, Here, Zenon
  <2> QED BY <1>k, <2>1, <2>2, <2>3 DEF UserDone
<1>4. CASE Homedir
  <2>1. At("homedir") /\ Goes(FALSE) /\ w'.home /\ w'.record = w.record /\ w'.attrs = w.attrs
    BY <1>k, <1>4, HomedirDoes DEF Exits
  <2>2. run.phase = 2 /\ run.i = 4
    BY <2>1, Where, Place
  <2>3. /\ ~Past(run', 2, 5) /\ Past(run, 2, 2) /\ Past(run, 2, 3)
    <3>1. /\ 2 \in Phases /\ 4 \in 1..7
          /\ 5 \in 1..7 /\ 5 <= Len(Script[2]) /\ 5 > 4
          /\ 2 \in 1..7 /\ 2 <= Len(Script[2]) /\ 2 < 4
          /\ 3 \in 1..7 /\ 3 <= Len(Script[2]) /\ 3 < 4
      BY Lengths DEF Phases
    <3> QED BY <2>1, <2>2, <3>1, Here, Zenon
  <2> QED BY <1>k, <2>1, <2>2, <2>3 DEF UserDone
<1>5. CASE SSHGroup
  <2>1. At("ssh_group") /\ /\ Goes(FALSE) /\ w'.sshGroup /\ w'.home = w.home
                            /\ w'.record = w.record /\ w'.attrs = w.attrs
    BY <1>k, <1>5, SSHGroupDoes DEF Exits
  <2>2. run.phase = 2 /\ run.i = 5
    BY <2>1, Where, Place
  <2>3. /\ Past(run, 2, 2) /\ Past(run, 2, 3) /\ Past(run, 2, 4)
    <3>1. /\ 2 \in Phases /\ 5 \in 1..7
          /\ 2 \in 1..7 /\ 2 <= Len(Script[2]) /\ 2 < 5
          /\ 3 \in 1..7 /\ 3 <= Len(Script[2]) /\ 3 < 5
          /\ 4 \in 1..7 /\ 4 <= Len(Script[2]) /\ 4 < 5
      BY Lengths DEF Phases
    <3> QED BY <2>1, <2>2, <3>1, Here, Zenon
  <2> QED BY <1>k, <2>1, <2>2, <2>3 DEF UserDone
<1> QED BY <1>1, <1>2, <1>3, <1>4, <1>5

\* The installer and the file that pins the version.
LEMMA HermesSteps ==
  ASSUME w \in Workers, ScriptStep, ~run.opt.dry, HermesDone, ~Exits, run.pin \in Gens,
         Clt \/ Installer \/ VerifyPinned \/ SeedPinned
  PROVE  HermesDone'
<1>k. run \in Runs /\ run'.phase = run.phase /\ run'.opt = run.opt /\ run'.pin = run.pin
  BY StepKeeps DEF ScriptStep
<1>1. CASE Clt
  <2>1. At("clt") /\ Goes(FALSE) /\ w' = w
    BY <1>k, <1>1, CltDoes DEF Exits
  <2>2. run.phase = 3 /\ run.i = 1
    BY <2>1, Where, Place
  <2>3. /\ ~Past(run', 3, 2) /\ ~Past(run', 3, 4)
    <3>1. /\ 3 \in Phases /\ 1 \in 1..7
          /\ 2 \in 1..7 /\ 2 <= Len(Script[3]) /\ 2 > 1
          /\ 4 \in 1..7 /\ 4 <= Len(Script[3]) /\ 4 > 1
      BY Lengths DEF Phases
    <3> QED BY <2>1, <2>2, <3>1, Here, Zenon
  <2> QED BY <1>k, <2>1, <2>2, <2>3 DEF HermesDone
<1>2. CASE Installer
  <2>1. At("installer") /\ Goes(FALSE) /\ Matches(w'.hermes, run.pin)
    BY <1>k, <1>2, InstallerDoes DEF Exits
  <2>2. run.phase = 3 /\ run.i = 2
    BY <2>1, Where, Place
  <2>3. /\ ~Past(run', 3, 4)
    <3>1. /\ 3 \in Phases /\ 2 \in 1..7
          /\ 4 \in 1..7 /\ 4 <= Len(Script[3]) /\ 4 > 2
      BY Lengths DEF Phases
    <3> QED BY <2>1, <2>2, <3>1, Here, Zenon
  <2> QED BY <1>k, <2>1, <2>2, <2>3 DEF HermesDone
<1>3. CASE VerifyPinned
  <2>1. At("verify_pinned") /\ Goes(FALSE) /\ w' = w
    BY <1>k, <1>3, VerifyPinnedDoes DEF Exits
  <2>2. run.phase = 3 /\ run.i = 3
    BY <2>1, Where, Place
  <2>3. /\ ~Past(run', 3, 4) /\ Past(run, 3, 2)
    <3>1. /\ 3 \in Phases /\ 3 \in 1..7
          /\ 4 \in 1..7 /\ 4 <= Len(Script[3]) /\ 4 > 3
          /\ 2 \in 1..7 /\ 2 <= Len(Script[3]) /\ 2 < 3
      BY Lengths DEF Phases
    <3> QED BY <2>1, <2>2, <3>1, Here, Zenon
  <2> QED BY <1>k, <2>1, <2>2, <2>3 DEF HermesDone
<1>4. CASE SeedPinned
  <2>1. At("seed_pinned") /\ Goes(FALSE) /\ w'.hermes = w.hermes /\ Matches(w'.pinned, run.pin)
    BY <1>k, <1>4, SeedPinnedDoes DEF Exits
  <2>2. run.phase = 3 /\ run.i = 4
    BY <2>1, Where, Place
  <2>3. /\ Past(run, 3, 2)
    <3>1. /\ 3 \in Phases /\ 4 \in 1..7
          /\ 2 \in 1..7 /\ 2 <= Len(Script[3]) /\ 2 < 4
      BY Lengths DEF Phases
    <3> QED BY <2>1, <2>2, <3>1, Here, Zenon
  <2> QED BY <1>k, <2>1, <2>2, <2>3 DEF HermesDone
<1> QED BY <1>1, <1>2, <1>3, <1>4

\* The bundle: contents, mode, then the paths.
LEMMA ConfigSteps ==
  ASSUME w \in Workers, ScriptStep, ~run.opt.dry, ConfigDone, ~Exits,
         EnsureDir("hermes_dir", "hermes") \/ Extract \/ ChmodConfig \/ Rewrite
  PROVE  ConfigDone'
<1>k. run \in Runs /\ run'.phase = run.phase /\ run'.opt = run.opt /\ run'.pin = run.pin
  BY StepKeeps DEF ScriptStep
<1>s. run.pin <= run.staged /\ run.pin \in 1..MaxGen /\ run.staged \in 1..MaxGen
  BY DEF ScriptStep, PositionInv, Gens
<1>d. "hermes" \in Dirs
  BY DEF Dirs
<1>1. CASE EnsureDir("hermes_dir", "hermes")
  <2>1. At("hermes_dir") /\ Goes(FALSE)
    BY <1>k, <1>1, EnsureDirDoes, <1>d DEF Exits
  <2>2. run.phase = 4 /\ run.i = 1
    BY <2>1, Where, Place
  <2>3. /\ ~Past(run', 4, 2) /\ ~Past(run', 4, 3) /\ ~Past(run', 4, 4)
    <3>1. /\ 4 \in Phases /\ 1 \in 1..7
          /\ 2 \in 1..7 /\ 2 <= Len(Script[4]) /\ 2 > 1
          /\ 3 \in 1..7 /\ 3 <= Len(Script[4]) /\ 3 > 1
          /\ 4 \in 1..7 /\ 4 <= Len(Script[4]) /\ 4 > 1
      BY Lengths DEF Phases
    <3> QED BY <2>1, <2>2, <3>1, Here, Zenon
  <2> QED BY <1>k, <1>s, <2>1, <2>2, <2>3 DEF ConfigDone
<1>2. CASE Extract
  <2>1. At("extract") /\ Goes(FALSE) /\ w'.config.gen = run.staged
    BY <1>k, <1>2, ExtractDoes DEF Exits
  <2>2. run.phase = 4 /\ run.i = 2
    BY <2>1, Where, Place
  <2>3. /\ ~Past(run', 4, 3) /\ ~Past(run', 4, 4)
    <3>1. /\ 4 \in Phases /\ 2 \in 1..7
          /\ 3 \in 1..7 /\ 3 <= Len(Script[4]) /\ 3 > 2
          /\ 4 \in 1..7 /\ 4 <= Len(Script[4]) /\ 4 > 2
      BY Lengths DEF Phases
    <3> QED BY <2>1, <2>2, <3>1, Here, Zenon
  <2> QED BY <1>k, <1>s, <2>1, <2>2, <2>3 DEF ConfigDone
<1>3. CASE ChmodConfig
  <2>1. At("chmod_config") /\ Goes(FALSE) /\ w'.config.mode600 /\ w'.config.gen = w.config.gen
    BY <1>k, <1>3, ChmodConfigDoes DEF Exits
  <2>2. run.phase = 4 /\ run.i = 3
    BY <2>1, Where, Place
  <2>3. /\ ~Past(run', 4, 4) /\ Past(run, 4, 2)
    <3>1. /\ 4 \in Phases /\ 3 \in 1..7
          /\ 4 \in 1..7 /\ 4 <= Len(Script[4]) /\ 4 > 3
          /\ 2 \in 1..7 /\ 2 <= Len(Script[4]) /\ 2 < 3
      BY Lengths DEF Phases
    <3> QED BY <2>1, <2>2, <3>1, Here, Zenon
  <2> QED BY <1>k, <1>s, <2>1, <2>2, <2>3 DEF ConfigDone
<1>4. CASE Rewrite
  <2>1. At("rewrite") /\ /\ Goes(FALSE) /\ w'.config.worker
                          /\ w'.config.gen = w.config.gen /\ w'.config.mode600 = w.config.mode600
    BY <1>k, <1>4, RewriteDoes DEF Exits
  <2>2. run.phase = 4 /\ run.i = 4
    BY <2>1, Where, Place
  <2>3. /\ Past(run, 4, 2) /\ Past(run, 4, 3)
    <3>1. /\ 4 \in Phases /\ 4 \in 1..7
          /\ 2 \in 1..7 /\ 2 <= Len(Script[4]) /\ 2 < 4
          /\ 3 \in 1..7 /\ 3 <= Len(Script[4]) /\ 3 < 4
      BY Lengths DEF Phases
    <3> QED BY <2>1, <2>2, <3>1, Here, Zenon
  <2> QED BY <1>k, <1>s, <2>1, <2>2, <2>3 DEF ConfigDone
<1> QED BY <1>1, <1>2, <1>3, <1>4

\* The two artifacts, each moved into place, then given its owner and its mode.
LEMMA SecretsSteps ==
  ASSUME w \in Workers, ScriptStep, ~run.opt.dry, SecretsDone, ~Exits,
         \/ EnsureDir("scripts_dir", "scripts") \/ ArtifactMv("env_mv", "env")
         \/ ArtifactOwn("env_own", "env") \/ ArtifactMode("env_mode", "env")
         \/ ArtifactMv("wrapper_mv", "wrapper") \/ ArtifactOwn("wrapper_own", "wrapper")
         \/ ArtifactMode("wrapper_mode", "wrapper")
  PROVE  SecretsDone'
<1>k. run \in Runs /\ run'.phase = run.phase /\ run'.opt = run.opt /\ run'.pin = run.pin
  BY StepKeeps DEF ScriptStep
<1>s. run.pin <= run.staged /\ run.pin \in 1..MaxGen /\ run.staged \in 1..MaxGen
  BY DEF ScriptStep, PositionInv, Gens
<1>d. "scripts" \in Dirs /\ "env" \in Artifacts /\ "wrapper" \in Artifacts
  BY DEF Dirs, Artifacts
<1>1. CASE EnsureDir("scripts_dir", "scripts")
  <2>1. At("scripts_dir") /\ Goes(FALSE)
    BY <1>k, <1>1, EnsureDirDoes, <1>d DEF Exits
  <2>2. run.phase = 5 /\ run.i = 1
    BY <2>1, Where, Place
  <2>3. /\ ~Past(run', 5, 2) /\ ~Past(run', 5, 3) /\ ~Past(run', 5, 4) /\ ~Past(run', 5, 5)
        /\ ~Past(run', 5, 6) /\ ~Past(run', 5, 7)
    <3>1. /\ 5 \in Phases /\ 1 \in 1..7
          /\ 2 \in 1..7 /\ 2 <= Len(Script[5]) /\ 2 > 1
          /\ 3 \in 1..7 /\ 3 <= Len(Script[5]) /\ 3 > 1
          /\ 4 \in 1..7 /\ 4 <= Len(Script[5]) /\ 4 > 1
          /\ 5 \in 1..7 /\ 5 <= Len(Script[5]) /\ 5 > 1
          /\ 6 \in 1..7 /\ 6 <= Len(Script[5]) /\ 6 > 1
          /\ 7 \in 1..7 /\ 7 <= Len(Script[5]) /\ 7 > 1
      BY Lengths DEF Phases
    <3> QED BY <2>1, <2>2, <3>1, Here, Zenon
  <2> QED BY <1>k, <1>s, <1>d, <2>1, <2>2, <2>3 DEF SecretsDone, OtherSecrets
<1>2. CASE ArtifactMv("env_mv", "env")
  <2>1. At("env_mv") /\ Goes(FALSE) /\ w'.secrets["env"].gen = run.staged /\ OtherSecrets("env", w, w')
    BY <1>k, <1>2, ArtifactMvDoes, <1>d DEF Exits
  <2>2. run.phase = 5 /\ run.i = 2
    BY <2>1, Where, Place
  <2>3. /\ ~Past(run', 5, 3) /\ ~Past(run', 5, 4) /\ ~Past(run', 5, 5) /\ ~Past(run', 5, 6)
        /\ ~Past(run', 5, 7)
    <3>1. /\ 5 \in Phases /\ 2 \in 1..7
          /\ 3 \in 1..7 /\ 3 <= Len(Script[5]) /\ 3 > 2
          /\ 4 \in 1..7 /\ 4 <= Len(Script[5]) /\ 4 > 2
          /\ 5 \in 1..7 /\ 5 <= Len(Script[5]) /\ 5 > 2
          /\ 6 \in 1..7 /\ 6 <= Len(Script[5]) /\ 6 > 2
          /\ 7 \in 1..7 /\ 7 <= Len(Script[5]) /\ 7 > 2
      BY Lengths DEF Phases
    <3> QED BY <2>1, <2>2, <3>1, Here, Zenon
  <2> QED BY <1>k, <1>s, <1>d, <2>1, <2>2, <2>3 DEF SecretsDone, OtherSecrets
<1>3. CASE ArtifactOwn("env_own", "env")
  <2>1. At("env_own") /\ /\ Goes(FALSE) /\ w'.secrets["env"].gen = w.secrets["env"].gen
        /\ w'.secrets["env"].owned /\ OtherSecrets("env", w, w')
    BY <1>k, <1>3, ArtifactOwnDoes, <1>d DEF Exits
  <2>2. run.phase = 5 /\ run.i = 3
    BY <2>1, Where, Place
  <2>3. /\ ~Past(run', 5, 4) /\ ~Past(run', 5, 5) /\ ~Past(run', 5, 6) /\ ~Past(run', 5, 7)
        /\ Past(run, 5, 2)
    <3>1. /\ 5 \in Phases /\ 3 \in 1..7
          /\ 4 \in 1..7 /\ 4 <= Len(Script[5]) /\ 4 > 3
          /\ 5 \in 1..7 /\ 5 <= Len(Script[5]) /\ 5 > 3
          /\ 6 \in 1..7 /\ 6 <= Len(Script[5]) /\ 6 > 3
          /\ 7 \in 1..7 /\ 7 <= Len(Script[5]) /\ 7 > 3
          /\ 2 \in 1..7 /\ 2 <= Len(Script[5]) /\ 2 < 3
      BY Lengths DEF Phases
    <3> QED BY <2>1, <2>2, <3>1, Here, Zenon
  <2> QED BY <1>k, <1>s, <1>d, <2>1, <2>2, <2>3 DEF SecretsDone, OtherSecrets
<1>4. CASE ArtifactMode("env_mode", "env")
  <2>1. At("env_mode") /\ /\ Goes(FALSE) /\ w'.secrets["env"].gen = w.secrets["env"].gen
        /\ w'.secrets["env"].mode /\ w'.secrets["env"].owned = w.secrets["env"].owned
        /\ OtherSecrets("env", w, w')
    BY <1>k, <1>4, ArtifactModeDoes, <1>d DEF Exits
  <2>2. run.phase = 5 /\ run.i = 4
    BY <2>1, Where, Place
  <2>3. /\ ~Past(run', 5, 5) /\ ~Past(run', 5, 6) /\ ~Past(run', 5, 7) /\ Past(run, 5, 2)
        /\ Past(run, 5, 3)
    <3>1. /\ 5 \in Phases /\ 4 \in 1..7
          /\ 5 \in 1..7 /\ 5 <= Len(Script[5]) /\ 5 > 4
          /\ 6 \in 1..7 /\ 6 <= Len(Script[5]) /\ 6 > 4
          /\ 7 \in 1..7 /\ 7 <= Len(Script[5]) /\ 7 > 4
          /\ 2 \in 1..7 /\ 2 <= Len(Script[5]) /\ 2 < 4
          /\ 3 \in 1..7 /\ 3 <= Len(Script[5]) /\ 3 < 4
      BY Lengths DEF Phases
    <3> QED BY <2>1, <2>2, <3>1, Here, Zenon
  <2> QED BY <1>k, <1>s, <1>d, <2>1, <2>2, <2>3 DEF SecretsDone, OtherSecrets
<1>5. CASE ArtifactMv("wrapper_mv", "wrapper")
  <2>1. At("wrapper_mv") /\ Goes(FALSE) /\ w'.secrets["wrapper"].gen = run.staged /\ OtherSecrets("wrapper", w, w')
    BY <1>k, <1>5, ArtifactMvDoes, <1>d DEF Exits
  <2>2. run.phase = 5 /\ run.i = 5
    BY <2>1, Where, Place
  <2>3. /\ ~Past(run', 5, 6) /\ ~Past(run', 5, 7) /\ Past(run, 5, 2) /\ Past(run, 5, 3)
        /\ Past(run, 5, 4)
    <3>1. /\ 5 \in Phases /\ 5 \in 1..7
          /\ 6 \in 1..7 /\ 6 <= Len(Script[5]) /\ 6 > 5
          /\ 7 \in 1..7 /\ 7 <= Len(Script[5]) /\ 7 > 5
          /\ 2 \in 1..7 /\ 2 <= Len(Script[5]) /\ 2 < 5
          /\ 3 \in 1..7 /\ 3 <= Len(Script[5]) /\ 3 < 5
          /\ 4 \in 1..7 /\ 4 <= Len(Script[5]) /\ 4 < 5
      BY Lengths DEF Phases
    <3> QED BY <2>1, <2>2, <3>1, Here, Zenon
  <2> QED BY <1>k, <1>s, <1>d, <2>1, <2>2, <2>3 DEF SecretsDone, OtherSecrets
<1>6. CASE ArtifactOwn("wrapper_own", "wrapper")
  <2>1. At("wrapper_own") /\ /\ Goes(FALSE) /\ w'.secrets["wrapper"].gen = w.secrets["wrapper"].gen
        /\ w'.secrets["wrapper"].owned /\ OtherSecrets("wrapper", w, w')
    BY <1>k, <1>6, ArtifactOwnDoes, <1>d DEF Exits
  <2>2. run.phase = 5 /\ run.i = 6
    BY <2>1, Where, Place
  <2>3. /\ ~Past(run', 5, 7) /\ Past(run, 5, 2) /\ Past(run, 5, 3) /\ Past(run, 5, 4)
        /\ Past(run, 5, 5)
    <3>1. /\ 5 \in Phases /\ 6 \in 1..7
          /\ 7 \in 1..7 /\ 7 <= Len(Script[5]) /\ 7 > 6
          /\ 2 \in 1..7 /\ 2 <= Len(Script[5]) /\ 2 < 6
          /\ 3 \in 1..7 /\ 3 <= Len(Script[5]) /\ 3 < 6
          /\ 4 \in 1..7 /\ 4 <= Len(Script[5]) /\ 4 < 6
          /\ 5 \in 1..7 /\ 5 <= Len(Script[5]) /\ 5 < 6
      BY Lengths DEF Phases
    <3> QED BY <2>1, <2>2, <3>1, Here, Zenon
  <2> QED BY <1>k, <1>s, <1>d, <2>1, <2>2, <2>3 DEF SecretsDone, OtherSecrets
<1>7. CASE ArtifactMode("wrapper_mode", "wrapper")
  <2>1. At("wrapper_mode") /\ /\ Goes(FALSE) /\ w'.secrets["wrapper"].gen = w.secrets["wrapper"].gen
        /\ w'.secrets["wrapper"].mode /\ w'.secrets["wrapper"].owned = w.secrets["wrapper"].owned
        /\ OtherSecrets("wrapper", w, w')
    BY <1>k, <1>7, ArtifactModeDoes, <1>d DEF Exits
  <2>2. run.phase = 5 /\ run.i = 7
    BY <2>1, Where, Place
  <2>3. /\ Past(run, 5, 2) /\ Past(run, 5, 3) /\ Past(run, 5, 4) /\ Past(run, 5, 5)
        /\ Past(run, 5, 6)
    <3>1. /\ 5 \in Phases /\ 7 \in 1..7
          /\ 2 \in 1..7 /\ 2 <= Len(Script[5]) /\ 2 < 7
          /\ 3 \in 1..7 /\ 3 <= Len(Script[5]) /\ 3 < 7
          /\ 4 \in 1..7 /\ 4 <= Len(Script[5]) /\ 4 < 7
          /\ 5 \in 1..7 /\ 5 <= Len(Script[5]) /\ 5 < 7
          /\ 6 \in 1..7 /\ 6 <= Len(Script[5]) /\ 6 < 7
      BY Lengths DEF Phases
    <3> QED BY <2>1, <2>2, <3>1, Here, Zenon
  <2> QED BY <1>k, <1>s, <1>d, <2>1, <2>2, <2>3 DEF SecretsDone, OtherSecrets
<1> QED BY <1>1, <1>2, <1>3, <1>4, <1>5, <1>6, <1>7

\* A key that is in authorized_keys stays there.
LEMMA KeySteps ==
  ASSUME w \in Workers, ScriptStep, ~run.opt.dry, KeyDone, ~Exits,
         EnsureDir("ssh_dir", "ssh") \/ KeysFile \/ InstallKey
  PROVE  KeyDone'
<1>k. run \in Runs /\ run'.phase = run.phase /\ run'.opt = run.opt /\ run'.pin = run.pin
  BY StepKeeps DEF ScriptStep
<1>s. run.pin <= run.staged /\ run.pin \in 1..MaxGen /\ run.staged \in 1..MaxGen
  BY DEF ScriptStep, PositionInv, Gens
<1>d. "ssh" \in Dirs
  BY DEF Dirs
<1>g. run.staged \in Gens /\ run.staged \in run.pin..MaxGen
  BY <1>s, BootConstants DEF Gens
<1>1. CASE EnsureDir("ssh_dir", "ssh")
  <2>1. At("ssh_dir") /\ Goes(FALSE)
    BY <1>k, <1>1, EnsureDirDoes, <1>d DEF Exits
  <2>2. run.phase = 6 /\ run.i = 1
    BY <2>1, Where, Place
  <2>3. /\ ~Past(run', 6, 3)
    <3>1. /\ 6 \in Phases /\ 1 \in 1..7
          /\ 3 \in 1..7 /\ 3 <= Len(Script[6]) /\ 3 > 1
      BY Lengths DEF Phases
    <3> QED BY <2>1, <2>2, <3>1, Here, Zenon
  <2> QED BY <1>k, <1>g, <2>1, <2>2, <2>3 DEF KeyDone
<1>2. CASE KeysFile
  <2>1. At("keys_file") /\ Goes(FALSE)
    BY <1>k, <1>2, KeysFileDoes DEF Exits
  <2>2. run.phase = 6 /\ run.i = 2
    BY <2>1, Where, Place
  <2>3. /\ ~Past(run', 6, 3)
    <3>1. /\ 6 \in Phases /\ 2 \in 1..7
          /\ 3 \in 1..7 /\ 3 <= Len(Script[6]) /\ 3 > 2
      BY Lengths DEF Phases
    <3> QED BY <2>1, <2>2, <3>1, Here, Zenon
  <2> QED BY <1>k, <1>g, <2>1, <2>2, <2>3 DEF KeyDone
<1>3. CASE InstallKey
  <2>1. At("install_key") /\ Goes(FALSE) /\ HasKey(w', run.staged)
    BY <1>k, <1>3, InstallKeyDoes, <1>g DEF Exits
  <2>2. run.phase = 6 /\ run.i = 3
    BY <2>1, Where, Place
  <2> QED BY <1>k, <1>g, <2>1, <2>2 DEF KeyDone, HasKey
<1> QED BY <1>1, <1>2, <1>3

\* The plist, the job that is loaded from it, and its first heartbeat.
LEMMA HeartbeatSteps ==
  ASSUME w \in Workers, ScriptStep, ~run.opt.dry, HeartbeatDone, ~Exits,
         \/ HeartbeatDir \/ (InstallPlist /\ ~Tolerates) \/ (Bootout /\ ~Tolerates)
         \/ LaunchctlBootstrap \/ FirstHeartbeat
  PROVE  HeartbeatDone'
<1>k. run \in Runs /\ run'.phase = run.phase /\ run'.opt = run.opt /\ run'.pin = run.pin
  BY StepKeeps DEF ScriptStep
<1>s. run.pin <= run.staged /\ run.pin \in 1..MaxGen /\ run.staged \in 1..MaxGen
  BY DEF ScriptStep, PositionInv, Gens
<1>h. SkipHeartbeat' <=> SkipHeartbeat
  BY <1>k DEF SkipHeartbeat
<1>1. CASE HeartbeatDir
  <2>1. At("heartbeat_dir") /\ Goes(FALSE)
    BY <1>k, <1>1, HeartbeatDirDoes DEF Exits
  <2>2. run.phase = 8 /\ run.i = 1
    BY <2>1, Where, Place
  <2>3. /\ ~Past(run', 8, 2) /\ ~Past(run', 8, 4) /\ ~Past(run', 8, 5)
    <3>1. /\ 8 \in Phases /\ 1 \in 1..7
          /\ 2 \in 1..7 /\ 2 <= Len(Script[8]) /\ 2 > 1
          /\ 4 \in 1..7 /\ 4 <= Len(Script[8]) /\ 4 > 1
          /\ 5 \in 1..7 /\ 5 <= Len(Script[8]) /\ 5 > 1
      BY Lengths DEF Phases
    <3> QED BY <2>1, <2>2, <3>1, Here, Zenon
  <2> QED BY <1>k, <1>s, <1>h, <2>1, <2>2, <2>3 DEF HeartbeatDone
<1>2. CASE InstallPlist /\ ~Tolerates
  <2>1. At("install_plist") /\ Goes(FALSE) /\ (SkipHeartbeat \/ w'.plist = run.staged)
    BY <1>k, <1>2, InstallPlistDoes DEF Exits
  <2>2. run.phase = 8 /\ run.i = 2
    BY <2>1, Where, Place
  <2>3. /\ ~Past(run', 8, 4) /\ ~Past(run', 8, 5)
    <3>1. /\ 8 \in Phases /\ 2 \in 1..7
          /\ 4 \in 1..7 /\ 4 <= Len(Script[8]) /\ 4 > 2
          /\ 5 \in 1..7 /\ 5 <= Len(Script[8]) /\ 5 > 2
      BY Lengths DEF Phases
    <3> QED BY <2>1, <2>2, <3>1, Here, Zenon
  <2> QED BY <1>k, <1>s, <1>h, <2>1, <2>2, <2>3 DEF HeartbeatDone
<1>3. CASE Bootout /\ ~Tolerates
  <2>1. At("bootout") /\ Goes(FALSE) /\ (SkipHeartbeat \/ (w'.plist = w.plist /\ w'.loaded = 0))
    BY <1>k, <1>3, BootoutDoes DEF Exits
  <2>2. run.phase = 8 /\ run.i = 3
    BY <2>1, Where, Place
  <2>3. /\ ~Past(run', 8, 4) /\ ~Past(run', 8, 5) /\ Past(run, 8, 2)
    <3>1. /\ 8 \in Phases /\ 3 \in 1..7
          /\ 4 \in 1..7 /\ 4 <= Len(Script[8]) /\ 4 > 3
          /\ 5 \in 1..7 /\ 5 <= Len(Script[8]) /\ 5 > 3
          /\ 2 \in 1..7 /\ 2 <= Len(Script[8]) /\ 2 < 3
      BY Lengths DEF Phases
    <3> QED BY <2>1, <2>2, <3>1, Here, Zenon
  <2> QED BY <1>k, <1>s, <1>h, <2>1, <2>2, <2>3 DEF HeartbeatDone
<1>4. CASE LaunchctlBootstrap
  <2>1. At("bootstrap") /\ Goes(FALSE) /\ (SkipHeartbeat \/ (w'.plist = w.plist /\ w'.loaded = w.plist))
    BY <1>k, <1>4, LaunchctlBootstrapDoes DEF Exits
  <2>2. run.phase = 8 /\ run.i = 4
    BY <2>1, Where, Place
  <2>3. /\ ~Past(run', 8, 5) /\ Past(run, 8, 2)
    <3>1. /\ 8 \in Phases /\ 4 \in 1..7
          /\ 5 \in 1..7 /\ 5 <= Len(Script[8]) /\ 5 > 4
          /\ 2 \in 1..7 /\ 2 <= Len(Script[8]) /\ 2 < 4
      BY Lengths DEF Phases
    <3> QED BY <2>1, <2>2, <3>1, Here, Zenon
  <2> QED BY <1>k, <1>s, <1>h, <2>1, <2>2, <2>3 DEF HeartbeatDone
<1>5. CASE FirstHeartbeat
  <2>1. At("first_heartbeat") /\ Goes(FALSE) /\ w' = w /\ (SkipHeartbeat \/ w.beat = "fresh")
    BY <1>k, <1>5, FirstHeartbeatDoes DEF Exits
  <2>2. run.phase = 8 /\ run.i = 5
    BY <2>1, Where, Place
  <2>3. /\ Past(run, 8, 2) /\ Past(run, 8, 4)
    <3>1. /\ 8 \in Phases /\ 5 \in 1..7
          /\ 2 \in 1..7 /\ 2 <= Len(Script[8]) /\ 2 < 5
          /\ 4 \in 1..7 /\ 4 <= Len(Script[8]) /\ 4 < 5
      BY Lengths DEF Phases
    <3> QED BY <2>1, <2>2, <3>1, Here, Zenon
  <2> QED BY <1>k, <1>s, <1>h, <2>1, <2>2, <2>3 DEF HeartbeatDone
<1> QED BY <1>1, <1>2, <1>3, <1>4, <1>5

\* A tolerated failure leaves the new plist in place, or the one that was there.
LEMMA TolerateSteps ==
  ASSUME w \in Workers, ScriptStep, ~run.opt.dry, HeartbeatDone, ~Exits, Tolerates,
         InstallPlist \/ Bootout
  PROVE  HeartbeatDone'
<1>k. run \in Runs /\ run'.phase = run.phase /\ run'.opt = run.opt /\ run'.pin = run.pin
  BY StepKeeps DEF ScriptStep
<1>s. run.pin <= run.staged /\ run.pin \in 1..MaxGen /\ run.staged \in 1..MaxGen
  BY DEF ScriptStep, PositionInv, Gens
<1>h. SkipHeartbeat' <=> SkipHeartbeat
  BY <1>k DEF SkipHeartbeat
<1>l. Lenient
  BY DEF InstallPlist, Bootout, Lenient
<1>1. run.phase = 8 /\ run.i \in 2..3
  BY <1>k, <1>l, LenientPlace DEF ScriptStep
<1>2. ~Past(run', 8, 4) /\ ~Past(run', 8, 5)
  <2>1. run'.phase = 8 /\ run'.st = "script" /\ run'.i = run.i + 1
    BY <1>1, <1>k, ToleratesDoes DEF ScriptStep
  <2> QED BY <1>1, <2>1 DEF Past
<1>3. SkipHeartbeat \/ w'.plist >= run.pin
  <2>1. CASE InstallPlist
    <3>1. SkipHeartbeat \/ w'.plist = run.staged
      BY <1>k, <2>1, InstallPlistDoes DEF Exits
    <3> QED BY <1>s, <3>1
  <2>2. CASE Bootout
    <3>1. At("bootout") /\ (SkipHeartbeat \/ w'.plist = w.plist)
      BY <1>k, <2>2, BootoutDoes DEF Exits
    <3>2. run.i = 3
      BY <3>1, Where, Place
    <3>3. Past(run, 8, 2)
      BY <1>1, <3>2, PastNow DEF ScriptStep
    <3> QED BY <3>1, <3>3 DEF HeartbeatDone
  <2> QED BY <2>1, <2>2
<1> QED BY <1>k, <1>h, <1>2, <1>3 DEF HeartbeatDone

\* The baseline: a failure to set brew's environment is an error event.
LEMMA BrewSteps ==
  ASSUME w \in Workers, ScriptStep, ~run.opt.dry, BrewDone, ~Exits, DetectBrew \/ Shellenv \/ Essentials
  PROVE  BrewDone'
<1>k. run \in Runs /\ run'.phase = run.phase /\ run'.opt = run.opt /\ run'.pin = run.pin
  BY StepKeeps DEF ScriptStep
<1>e. ASSUME NEW err \in BOOLEAN, Goes(err) PROVE run'.errors <=> run.errors \/ err
  BY <1>k, <1>e, AdvanceDoes DEF Goes
<1>p. ASSUME NEW err \in BOOLEAN, Goes(err), run.phase = 0
      PROVE  /\ run.i < 2 => ~Past(run', 0, 2)
             /\ run.i < 3 => ~Past(run', 0, 3)
             /\ run.i > 2 => Past(run, 0, 2)
  <2>1. run.i \in 1..7 /\ 0 \in Phases /\ 2 \in 1..7 /\ 3 \in 1..7 /\ 2 <= Len(Script[0]) /\ 3 <= Len(Script[0])
    BY <1>k, Lengths DEF Runs, Phases
  <2>2. /\ 2 > run.i => ~Past(run', 0, 2)
        /\ 3 > run.i => ~Past(run', 0, 3)
        /\ 2 < run.i => Past(run, 0, 2)
    BY <1>p, <2>1, Here, Zenon
  <2> QED BY <2>1, <2>2
<1>1. CASE DetectBrew
  <2>1. At("detect_brew") /\ Goes(FALSE) /\ w' = w
    BY <1>k, <1>1, DetectBrewDoes DEF Exits
  <2>2. run.phase = 0 /\ run.i = 1
    BY <2>1, Where, Place
  <2>3. ~Past(run', 0, 2) /\ ~Past(run', 0, 3)
    <3>1. run.i < 2 /\ run.i < 3
      BY <2>2
    <3> QED BY <1>p, <2>1, <2>2, <3>1, Zenon
  <2> QED BY <2>3 DEF BrewDone
<1>2. CASE Shellenv
  <2>1. At("shellenv") /\ ((Goes(FALSE) /\ Wired(w'.shellenv)) \/ Goes(TRUE))
    BY <1>k, <1>2, ShellenvDoes DEF Exits
  <2>2. run.phase = 0 /\ run.i = 2
    BY <2>1, Where, Place
  <2>3. ~Past(run', 0, 3)
    <3>1. run.i < 3
      BY <2>2
    <3> QED BY <1>p, <2>1, <2>2, <3>1, Zenon
  <2>4. Wired(w'.shellenv) \/ run'.errors
    BY <1>e, <2>1
  <2> QED BY <1>k, <2>2, <2>3, <2>4 DEF BrewDone
<1>3. CASE Essentials
  <2>1. At("essentials") /\ Goes(FALSE) /\ w'.essentials = Formulas /\ w'.shellenv = w.shellenv
    BY <1>k, <1>3, EssentialsDoes DEF Exits
  <2>2. run.phase = 0 /\ run.i = 3
    BY <2>1, Where, Place
  <2>3. Past(run, 0, 2)
    <3>1. run.i > 2
      BY <2>2
    <3> QED BY <1>p, <2>1, <2>2, <3>1, Zenon
  <2>4. run'.errors <=> run.errors
    BY <1>e, <2>1
  <2> QED BY <1>k, <2>1, <2>2, <2>3, <2>4 DEF BrewDone
<1> QED BY <1>1, <1>2, <1>3

-----------------------------------------------------------------------------
(***************************************************************************)
(* A step of a script                                                      *)
(***************************************************************************)

\* The commands of each phase.
BrewCommands == DetectBrew \/ Shellenv \/ Essentials
PrereqCommands == PrereqsStep
UserCommands == Existing \/ UserRecord \/ ApplyAttrs \/ Homedir \/ SSHGroup
HermesCommands == Clt \/ Installer \/ VerifyPinned \/ SeedPinned
ConfigCommands == EnsureDir("hermes_dir", "hermes") \/ Extract \/ ChmodConfig \/ Rewrite
SecretsCommands ==
    \/ EnsureDir("scripts_dir", "scripts") \/ ArtifactMv("env_mv", "env")
    \/ ArtifactOwn("env_own", "env") \/ ArtifactMode("env_mode", "env")
    \/ ArtifactMv("wrapper_mv", "wrapper") \/ ArtifactOwn("wrapper_own", "wrapper")
    \/ ArtifactMode("wrapper_mode", "wrapper")
KeyCommands == EnsureDir("ssh_dir", "ssh") \/ KeysFile \/ InstallKey
TirithCommands == Tirith
HeartbeatCommands ==
    \/ HeartbeatDir \/ InstallPlist \/ Bootout \/ LaunchctlBootstrap
    \/ FirstHeartbeat
VerifyCommands == Verify

\* The commands, by the phase they belong to.
LEMMA CommandPhases ==
    Command <=> \/ BrewCommands \/ PrereqCommands \/ UserCommands \/ HermesCommands \/ ConfigCommands
                \/ SecretsCommands \/ KeyCommands \/ TirithCommands \/ HeartbeatCommands \/ VerifyCommands
  BY Zenon DEF Command, BrewCommands, PrereqCommands, UserCommands, HermesCommands, ConfigCommands,
         SecretsCommands, KeyCommands, TirithCommands, HeartbeatCommands, VerifyCommands

\* Every command is a step of a script.
LEMMA CommandStep ==
  ASSUME BootTypeOK, PositionInv, Command
  PROVE  ScriptStep /\ faults' \in 0..MaxFaults /\ gen' = gen /\ last' = last
<1>1. ScriptStep /\ faults' \in 0..MaxFaults
  BY CommandShape DEF ScriptStep, BootTypeOK
<1> QED BY <1>1 DEF ScriptStep, Goes, Stops, Tolerates

\* It is in the phase it belongs to, and changes of the worker only what that
\* phase is there for.
LEMMA BrewWithin ==
  ASSUME w \in Workers, ScriptStep, BrewCommands
  PROVE  run.phase = 0 /\ Within(0, w, w')
<1>r. run \in Runs /\ run.pin \in Gens /\ run.staged \in Gens
  BY DEF ScriptStep, PositionInv
<1>1. CASE DetectBrew
  <2>1. At("detect_brew") /\ Within(0, w, w')
    BY <1>r, <1>1, DetectBrewDoes
  <2> QED BY <2>1, Where, Place
<1>2. CASE Shellenv
  <2>1. At("shellenv") /\ Within(0, w, w')
    BY <1>r, <1>2, ShellenvDoes
  <2> QED BY <2>1, Where, Place
<1>3. CASE Essentials
  <2>1. At("essentials") /\ Within(0, w, w')
    BY <1>r, <1>3, EssentialsDoes
  <2> QED BY <2>1, Where, Place
<1> QED BY <1>1, <1>2, <1>3 DEF BrewCommands

\* The prerequisites are only looked at.
LEMMA PrereqWithin ==
  ASSUME w \in Workers, ScriptStep, PrereqCommands
  PROVE  run.phase = 1 /\ Within(1, w, w')
<1>r. run \in Runs /\ run.pin \in Gens /\ run.staged \in Gens
  BY DEF ScriptStep, PositionInv
<1>1. CASE PrereqsStep
  <2>1. At("prereqs") /\ Within(1, w, w')
    BY <1>r, <1>1, PrereqsStepDoes
  <2> QED BY <2>1, Where, Place
<1> QED BY <1>1 DEF PrereqCommands

\* The same for the account,
LEMMA UserWithin ==
  ASSUME w \in Workers, ScriptStep, UserCommands
  PROVE  run.phase = 2 /\ Within(2, w, w')
<1>r. run \in Runs /\ run.pin \in Gens /\ run.staged \in Gens
  BY DEF ScriptStep, PositionInv
<1>1. CASE Existing
  <2>1. At("existing") /\ Within(2, w, w')
    BY <1>r, <1>1, ExistingDoes
  <2> QED BY <2>1, Where, Place
<1>2. CASE UserRecord
  <2>1. At("user_record") /\ Within(2, w, w')
    BY <1>r, <1>2, UserRecordDoes
  <2> QED BY <2>1, Where, Place
<1>3. CASE ApplyAttrs
  <2>1. At("attrs") /\ Within(2, w, w')
    BY <1>r, <1>3, ApplyAttrsDoes
  <2> QED BY <2>1, Where, Place
<1>4. CASE Homedir
  <2>1. At("homedir") /\ Within(2, w, w')
    BY <1>r, <1>4, HomedirDoes
  <2> QED BY <2>1, Where, Place
<1>5. CASE SSHGroup
  <2>1. At("ssh_group") /\ Within(2, w, w')
    BY <1>r, <1>5, SSHGroupDoes
  <2> QED BY <2>1, Where, Place
<1> QED BY <1>1, <1>2, <1>3, <1>4, <1>5 DEF UserCommands

\* for the installer,
LEMMA HermesWithin ==
  ASSUME w \in Workers, ScriptStep, HermesCommands
  PROVE  run.phase = 3 /\ Within(3, w, w')
<1>r. run \in Runs /\ run.pin \in Gens /\ run.staged \in Gens
  BY DEF ScriptStep, PositionInv
<1>1. CASE Clt
  <2>1. At("clt") /\ Within(3, w, w')
    BY <1>r, <1>1, CltDoes
  <2> QED BY <2>1, Where, Place
<1>2. CASE Installer
  <2>1. At("installer") /\ Within(3, w, w')
    BY <1>r, <1>2, InstallerDoes
  <2> QED BY <2>1, Where, Place
<1>3. CASE VerifyPinned
  <2>1. At("verify_pinned") /\ Within(3, w, w')
    BY <1>r, <1>3, VerifyPinnedDoes
  <2> QED BY <2>1, Where, Place
<1>4. CASE SeedPinned
  <2>1. At("seed_pinned") /\ Within(3, w, w')
    BY <1>r, <1>4, SeedPinnedDoes
  <2> QED BY <2>1, Where, Place
<1> QED BY <1>1, <1>2, <1>3, <1>4 DEF HermesCommands

\* for the bundle,
LEMMA ConfigWithin ==
  ASSUME w \in Workers, ScriptStep, ConfigCommands
  PROVE  run.phase = 4 /\ Within(4, w, w')
<1>r. run \in Runs /\ run.pin \in Gens /\ run.staged \in Gens
  BY DEF ScriptStep, PositionInv
<1>d. "hermes" \in Dirs
  BY DEF Dirs
<1>1. CASE EnsureDir("hermes_dir", "hermes")
  <2>1. At("hermes_dir") /\ Within(4, w, w')
    BY <1>r, <1>d, <1>1, EnsureDirDoes
  <2> QED BY <2>1, Where, Place
<1>2. CASE Extract
  <2>1. At("extract") /\ Within(4, w, w')
    BY <1>r, <1>2, ExtractDoes
  <2> QED BY <2>1, Where, Place
<1>3. CASE ChmodConfig
  <2>1. At("chmod_config") /\ Within(4, w, w')
    BY <1>r, <1>3, ChmodConfigDoes
  <2> QED BY <2>1, Where, Place
<1>4. CASE Rewrite
  <2>1. At("rewrite") /\ Within(4, w, w')
    BY <1>r, <1>4, RewriteDoes
  <2> QED BY <2>1, Where, Place
<1> QED BY <1>1, <1>2, <1>3, <1>4 DEF ConfigCommands

\* for the secrets,
LEMMA SecretsWithin ==
  ASSUME w \in Workers, ScriptStep, SecretsCommands
  PROVE  run.phase = 5 /\ Within(5, w, w')
<1>r. run \in Runs /\ run.pin \in Gens /\ run.staged \in Gens
  BY DEF ScriptStep, PositionInv
<1>d. "scripts" \in Dirs /\ "env" \in Artifacts /\ "wrapper" \in Artifacts
  BY DEF Dirs, Artifacts
<1>1. CASE EnsureDir("scripts_dir", "scripts")
  <2>1. At("scripts_dir") /\ Within(5, w, w')
    BY <1>r, <1>d, <1>1, EnsureDirDoes
  <2> QED BY <2>1, Where, Place
<1>2. CASE ArtifactMv("env_mv", "env")
  <2>1. At("env_mv") /\ Within(5, w, w')
    BY <1>r, <1>d, <1>2, ArtifactMvDoes
  <2> QED BY <2>1, Where, Place
<1>3. CASE ArtifactOwn("env_own", "env")
  <2>1. At("env_own") /\ Within(5, w, w')
    BY <1>r, <1>d, <1>3, ArtifactOwnDoes
  <2> QED BY <2>1, Where, Place
<1>4. CASE ArtifactMode("env_mode", "env")
  <2>1. At("env_mode") /\ Within(5, w, w')
    BY <1>r, <1>d, <1>4, ArtifactModeDoes
  <2> QED BY <2>1, Where, Place
<1>5. CASE ArtifactMv("wrapper_mv", "wrapper")
  <2>1. At("wrapper_mv") /\ Within(5, w, w')
    BY <1>r, <1>d, <1>5, ArtifactMvDoes
  <2> QED BY <2>1, Where, Place
<1>6. CASE ArtifactOwn("wrapper_own", "wrapper")
  <2>1. At("wrapper_own") /\ Within(5, w, w')
    BY <1>r, <1>d, <1>6, ArtifactOwnDoes
  <2> QED BY <2>1, Where, Place
<1>7. CASE ArtifactMode("wrapper_mode", "wrapper")
  <2>1. At("wrapper_mode") /\ Within(5, w, w')
    BY <1>r, <1>d, <1>7, ArtifactModeDoes
  <2> QED BY <2>1, Where, Place
<1> QED BY <1>1, <1>2, <1>3, <1>4, <1>5, <1>6, <1>7 DEF SecretsCommands

\* for the key,
LEMMA KeyWithin ==
  ASSUME w \in Workers, ScriptStep, KeyCommands
  PROVE  run.phase = 6 /\ Within(6, w, w')
<1>r. run \in Runs /\ run.pin \in Gens /\ run.staged \in Gens
  BY DEF ScriptStep, PositionInv
<1>d. "ssh" \in Dirs
  BY DEF Dirs
<1>1. CASE EnsureDir("ssh_dir", "ssh")
  <2>1. At("ssh_dir") /\ Within(6, w, w')
    BY <1>r, <1>d, <1>1, EnsureDirDoes
  <2> QED BY <2>1, Where, Place
<1>2. CASE KeysFile
  <2>1. At("keys_file") /\ Within(6, w, w')
    BY <1>r, <1>2, KeysFileDoes
  <2> QED BY <2>1, Where, Place
<1>3. CASE InstallKey
  <2>1. At("install_key") /\ Within(6, w, w')
    BY <1>r, <1>3, InstallKeyDoes
  <2> QED BY <2>1, Where, Place
<1> QED BY <1>1, <1>2, <1>3 DEF KeyCommands

\* for tirith,
LEMMA TirithWithin ==
  ASSUME w \in Workers, ScriptStep, TirithCommands
  PROVE  run.phase = 7 /\ Within(7, w, w')
<1>r. run \in Runs /\ run.pin \in Gens /\ run.staged \in Gens
  BY DEF ScriptStep, PositionInv
<1>1. CASE Tirith
  <2>1. At("tirith") /\ Within(7, w, w')
    BY <1>r, <1>1, TirithDoes
  <2> QED BY <2>1, Where, Place
<1> QED BY <1>1 DEF TirithCommands

\* for the heartbeat,
LEMMA HeartbeatWithin ==
  ASSUME w \in Workers, ScriptStep, HeartbeatCommands
  PROVE  run.phase = 8 /\ Within(8, w, w')
<1>r. run \in Runs /\ run.pin \in Gens /\ run.staged \in Gens
  BY DEF ScriptStep, PositionInv
<1>1. CASE HeartbeatDir
  <2>1. At("heartbeat_dir") /\ Within(8, w, w')
    BY <1>r, <1>1, HeartbeatDirDoes
  <2> QED BY <2>1, Where, Place
<1>2. CASE InstallPlist
  <2>1. At("install_plist") /\ Within(8, w, w')
    BY <1>r, <1>2, InstallPlistDoes
  <2> QED BY <2>1, Where, Place
<1>3. CASE Bootout
  <2>1. At("bootout") /\ Within(8, w, w')
    BY <1>r, <1>3, BootoutDoes
  <2> QED BY <2>1, Where, Place
<1>4. CASE LaunchctlBootstrap
  <2>1. At("bootstrap") /\ Within(8, w, w')
    BY <1>r, <1>4, LaunchctlBootstrapDoes
  <2> QED BY <2>1, Where, Place
<1>5. CASE FirstHeartbeat
  <2>1. At("first_heartbeat") /\ Within(8, w, w')
    BY <1>r, <1>5, FirstHeartbeatDoes
  <2> QED BY <2>1, Where, Place
<1> QED BY <1>1, <1>2, <1>3, <1>4, <1>5 DEF HeartbeatCommands

\* and for the verification, which only looks.
LEMMA VerifyWithin ==
  ASSUME w \in Workers, ScriptStep, VerifyCommands
  PROVE  run.phase = 9 /\ Within(9, w, w')
<1>r. run \in Runs /\ run.pin \in Gens /\ run.staged \in Gens
  BY DEF ScriptStep, PositionInv
<1>1. CASE Verify
  <2>1. At("verify") /\ Within(9, w, w')
    BY <1>r, <1>1, VerifyDoes
  <2> QED BY <2>1, Where, Place
<1> QED BY <1>1 DEF VerifyCommands

\* What the whole pipeline has achieved outlasts every command.
LEMMA CommandAchieves ==
  ASSUME w \in Workers, ScriptStep, Command, ~run.opt.dry, Achieved
  PROVE  Achieved'
<1>d. BrewDone /\ UserDone /\ HermesDone /\ ConfigDone /\ SecretsDone /\ KeyDone /\ HeartbeatDone
  BY DEF Achieved
<1>g. run.pin \in Gens
  BY DEF ScriptStep, PositionInv
<1>0. CASE BrewCommands
  <2>1. run.phase = 0 /\ Elsewhere(run.phase, w, w')
    BY <1>0, BrewWithin DEF Within
  <2>2. /\ UserDone' /\ HermesDone' /\ ConfigDone' /\ SecretsDone'
        /\ KeyDone' /\ HeartbeatDone'
    BY <2>1, OtherPhases
  <2>3. BrewDone'
    <3>1. CASE Exits
      BY <2>1, <3>1, OtherPhases
    <3>2. CASE ~Exits
      BY <1>d, <1>g, <1>0, <3>2, BrewSteps, Zenon DEF BrewCommands
    <3> QED BY <3>1, <3>2
  <2> QED BY <2>2, <2>3 DEF Achieved
<1>1. CASE PrereqCommands
  <2>1. run.phase = 1 /\ Elsewhere(run.phase, w, w')
    BY <1>1, PrereqWithin DEF Within
  <2>2. /\ BrewDone' /\ UserDone' /\ HermesDone' /\ ConfigDone'
        /\ SecretsDone' /\ KeyDone' /\ HeartbeatDone'
    BY <2>1, OtherPhases
  <2> QED BY <2>2 DEF Achieved
<1>2. CASE UserCommands
  <2>1. run.phase = 2 /\ Elsewhere(run.phase, w, w')
    BY <1>2, UserWithin DEF Within
  <2>2. /\ BrewDone' /\ HermesDone' /\ ConfigDone' /\ SecretsDone'
        /\ KeyDone' /\ HeartbeatDone'
    BY <2>1, OtherPhases
  <2>3. UserDone'
    <3>1. CASE Exits
      BY <2>1, <3>1, OtherPhases
    <3>2. CASE ~Exits
      BY <1>d, <1>g, <1>2, <3>2, UserSteps, Zenon DEF UserCommands
    <3> QED BY <3>1, <3>2
  <2> QED BY <2>2, <2>3 DEF Achieved
<1>3. CASE HermesCommands
  <2>1. run.phase = 3 /\ Elsewhere(run.phase, w, w')
    BY <1>3, HermesWithin DEF Within
  <2>2. /\ BrewDone' /\ UserDone' /\ ConfigDone' /\ SecretsDone'
        /\ KeyDone' /\ HeartbeatDone'
    BY <2>1, OtherPhases
  <2>3. HermesDone'
    <3>1. CASE Exits
      BY <2>1, <3>1, OtherPhases
    <3>2. CASE ~Exits
      BY <1>d, <1>g, <1>3, <3>2, HermesSteps, Zenon DEF HermesCommands
    <3> QED BY <3>1, <3>2
  <2> QED BY <2>2, <2>3 DEF Achieved
<1>4. CASE ConfigCommands
  <2>1. run.phase = 4 /\ Elsewhere(run.phase, w, w')
    BY <1>4, ConfigWithin DEF Within
  <2>2. /\ BrewDone' /\ UserDone' /\ HermesDone' /\ SecretsDone'
        /\ KeyDone' /\ HeartbeatDone'
    BY <2>1, OtherPhases
  <2>3. ConfigDone'
    <3>1. CASE Exits
      BY <2>1, <3>1, OtherPhases
    <3>2. CASE ~Exits
      BY <1>d, <1>g, <1>4, <3>2, ConfigSteps, Zenon DEF ConfigCommands
    <3> QED BY <3>1, <3>2
  <2> QED BY <2>2, <2>3 DEF Achieved
<1>5. CASE SecretsCommands
  <2>1. run.phase = 5 /\ Elsewhere(run.phase, w, w')
    BY <1>5, SecretsWithin DEF Within
  <2>2. /\ BrewDone' /\ UserDone' /\ HermesDone' /\ ConfigDone'
        /\ KeyDone' /\ HeartbeatDone'
    BY <2>1, OtherPhases
  <2>3. SecretsDone'
    <3>1. CASE Exits
      BY <2>1, <3>1, OtherPhases
    <3>2. CASE ~Exits
      BY <1>d, <1>g, <1>5, <3>2, SecretsSteps, Zenon DEF SecretsCommands
    <3> QED BY <3>1, <3>2
  <2> QED BY <2>2, <2>3 DEF Achieved
<1>6. CASE KeyCommands
  <2>1. run.phase = 6 /\ Elsewhere(run.phase, w, w')
    BY <1>6, KeyWithin DEF Within
  <2>2. /\ BrewDone' /\ UserDone' /\ HermesDone' /\ ConfigDone'
        /\ SecretsDone' /\ HeartbeatDone'
    BY <2>1, OtherPhases
  <2>3. KeyDone'
    <3>1. CASE Exits
      BY <2>1, <3>1, OtherPhases
    <3>2. CASE ~Exits
      BY <1>d, <1>g, <1>6, <3>2, KeySteps, Zenon DEF KeyCommands
    <3> QED BY <3>1, <3>2
  <2> QED BY <2>2, <2>3 DEF Achieved
<1>7. CASE TirithCommands
  <2>1. run.phase = 7 /\ Elsewhere(run.phase, w, w')
    BY <1>7, TirithWithin DEF Within
  <2>2. /\ BrewDone' /\ UserDone' /\ HermesDone' /\ ConfigDone'
        /\ SecretsDone' /\ KeyDone' /\ HeartbeatDone'
    BY <2>1, OtherPhases
  <2> QED BY <2>2 DEF Achieved
<1>8. CASE HeartbeatCommands
  <2>1. run.phase = 8 /\ Elsewhere(run.phase, w, w')
    BY <1>8, HeartbeatWithin DEF Within
  <2>2. /\ BrewDone' /\ UserDone' /\ HermesDone' /\ ConfigDone'
        /\ SecretsDone' /\ KeyDone'
    BY <2>1, OtherPhases
  <2>3. HeartbeatDone'
    <3>1. CASE Exits
      BY <2>1, <3>1, OtherPhases
    <3>2. CASE ~Exits /\ (InstallPlist \/ Bootout) /\ Tolerates
      BY <1>d, <3>2, TolerateSteps
    <3>3. CASE ~Exits /\ ~((InstallPlist \/ Bootout) /\ Tolerates)
      BY <1>d, <1>8, <3>3, HeartbeatSteps, Zenon DEF HeartbeatCommands
    <3> QED BY <3>1, <3>2, <3>3
  <2> QED BY <2>2, <2>3 DEF Achieved
<1>9. CASE VerifyCommands
  <2>1. run.phase = 9 /\ Elsewhere(run.phase, w, w')
    BY <1>9, VerifyWithin DEF Within
  <2>2. /\ BrewDone' /\ UserDone' /\ HermesDone' /\ ConfigDone'
        /\ SecretsDone' /\ KeyDone' /\ HeartbeatDone'
    BY <2>1, OtherPhases
  <2> QED BY <2>2 DEF Achieved
<1> QED BY <1>0, <1>1, <1>2, <1>3, <1>4, <1>5, <1>6, <1>7, <1>8, <1>9, CommandPhases

\* In a run that nothing has gone wrong in, sudo works, and so does hermes once
\* its account is there.
LEMMA Able ==
  ASSUME w \in Workers, ScriptStep, Achieved, Clean
  PROVE  CanSudo /\ w.lacks = {} /\ (run.phase > 2 => CanBeHermes)
<1>1. w.lacks = {} /\ CanSudo
  BY DEF Clean, CanSudo
<1>2. ASSUME run.phase > 2 PROVE CanBeHermes
  <2>1. Past(run, 2, 2) /\ Past(run, 2, 3) /\ Past(run, 2, 4)
    BY <1>2 DEF Past
  <2>2. w.record /\ w.attrs = Attrs /\ w.home
    BY <2>1 DEF Achieved, UserDone
  <2> QED BY <1>1, <2>2 DEF CanBeHermes, Attrs
<1> QED BY <1>1, <1>2

\* How a command of such a run ends: it refuses only a plist that launchd does
\* not take, or whose daemon does not beat.
Harmless ==
    \/ Goes(FALSE) \/ Goes(TRUE) \/ Stops(FALSE)
    \/ Tolerates /\ Lenient
    \/ Stops(TRUE) /\ w' = w /\ run.phase >= 8 /\ Spoiled

\* With the prerequisites met, no command of the baseline refuses.
LEMMA BrewHarmless ==
  ASSUME w \in Workers, ScriptStep, BrewCommands, ~run.opt.dry, Achieved, Clean
  PROVE  Harmless
<1>r. run \in Runs /\ run.pin \in 1..MaxGen /\ run.pin \in Gens /\ run.staged \in Gens
  BY DEF ScriptStep, PositionInv, Gens
<1>a. CanSudo /\ w.lacks = {}
  BY Able
<1>1. CASE DetectBrew
  BY <1>r, <1>a, <1>1, DetectBrewDoes, Zenon DEF Harmless
<1>2. CASE Shellenv
  BY <1>r, <1>a, <1>2, ShellenvDoes, Zenon DEF Harmless
<1>3. CASE Essentials
  BY <1>r, <1>a, <1>3, EssentialsDoes, Zenon DEF Harmless
<1> QED BY <1>1, <1>2, <1>3 DEF BrewCommands

\* They are what the second phase asks for.
LEMMA PrereqHarmless ==
  ASSUME w \in Workers, ScriptStep, PrereqCommands, ~run.opt.dry, Achieved, Clean
  PROVE  Harmless
<1>r. run \in Runs /\ run.pin \in 1..MaxGen /\ run.pin \in Gens /\ run.staged \in Gens
  BY DEF ScriptStep, PositionInv, Gens
<1>a. CanSudo /\ w.lacks = {}
  BY Able
<1>1. CASE PrereqsStep
  BY <1>r, <1>a, <1>1, PrereqsStepDoes, Zenon DEF Harmless
<1> QED BY <1>1 DEF PrereqCommands

\* The account can be made or completed from whatever there is of it.
LEMMA UserHarmless ==
  ASSUME w \in Workers, ScriptStep, UserCommands, ~run.opt.dry, Achieved, Clean
  PROVE  Harmless
<1>r. run \in Runs /\ run.pin \in 1..MaxGen /\ run.pin \in Gens /\ run.staged \in Gens
  BY DEF ScriptStep, PositionInv, Gens
<1>a. CanSudo /\ w.lacks = {}
  BY Able
<1>1. CASE Existing
  BY <1>r, <1>a, <1>1, ExistingDoes, Zenon DEF Harmless
<1>2. CASE UserRecord
  BY <1>r, <1>a, <1>2, UserRecordDoes, Zenon DEF Harmless
<1>3. CASE ApplyAttrs
  BY <1>r, <1>a, <1>3, ApplyAttrsDoes, Zenon DEF Harmless
<1>4. CASE Homedir
  BY <1>r, <1>a, <1>4, HomedirDoes, Zenon DEF Harmless
<1>5. CASE SSHGroup
  BY <1>r, <1>a, <1>5, SSHGroupDoes, Zenon DEF Harmless
<1> QED BY <1>1, <1>2, <1>3, <1>4, <1>5 DEF UserCommands

\* What the installer leaves is what the check after it asks for.
LEMMA HermesHarmless ==
  ASSUME w \in Workers, ScriptStep, HermesCommands, ~run.opt.dry, Achieved, Clean
  PROVE  Harmless
<1>r. run \in Runs /\ run.pin \in 1..MaxGen /\ run.pin \in Gens /\ run.staged \in Gens
  BY DEF ScriptStep, PositionInv, Gens
<1>a. CanSudo /\ w.lacks = {} /\ CanBeHermes
  <2>1. run.phase > 2
    BY HermesWithin
  <2> QED BY <2>1, Able
<1>1. CASE Clt
  BY <1>r, <1>a, <1>1, CltDoes, Zenon DEF Harmless
<1>2. CASE Installer
  BY <1>r, <1>a, <1>2, InstallerDoes, Zenon DEF Harmless
<1>3. CASE VerifyPinned
  <2>1. At("verify_pinned")
    BY <1>r, <1>3, VerifyPinnedDoes
  <2>2. run.phase = 3 /\ run.i = 3 /\ run.st = "script"
    BY <2>1, Where, Place DEF At
  <2>3. Matches(Version, run.pin)
    <3>1. Past(run, 3, 2)
      BY <2>2 DEF Past
    <3>2. Matches(w.hermes, run.pin)
      BY <3>1 DEF Achieved, HermesDone
    <3> QED BY <1>a, <3>2 DEF Version
  <2> QED BY <1>r, <1>a, <1>3, <2>3, VerifyPinnedDoes, Zenon DEF Harmless
<1>4. CASE SeedPinned
  BY <1>r, <1>a, <1>4, SeedPinnedDoes, Zenon DEF Harmless
<1> QED BY <1>1, <1>2, <1>3, <1>4 DEF HermesCommands

\* The directory is there when the bundle is unpacked.
LEMMA ConfigHarmless ==
  ASSUME w \in Workers, ScriptStep, ConfigCommands, ~run.opt.dry, Achieved, Clean
  PROVE  Harmless
<1>r. run \in Runs /\ run.pin \in 1..MaxGen /\ run.pin \in Gens /\ run.staged \in Gens
  BY DEF ScriptStep, PositionInv, Gens
<1>a. CanSudo /\ w.lacks = {} /\ CanBeHermes
  <2>1. run.phase > 2
    BY ConfigWithin
  <2> QED BY <2>1, Able
<1>d. "hermes" \in Dirs
  BY DEF Dirs
<1>1. CASE EnsureDir("hermes_dir", "hermes")
  BY <1>r, <1>a, <1>d, <1>1, EnsureDirDoes, Zenon DEF Harmless
<1>2. CASE Extract
  BY <1>r, <1>a, <1>2, ExtractDoes, Zenon DEF Harmless
<1>3. CASE ChmodConfig
  <2>1. At("chmod_config")
    BY <1>r, <1>3, ChmodConfigDoes
  <2>2. run.phase = 4 /\ run.i = 3 /\ run.st = "script"
    BY <2>1, Where, Place DEF At
  <2>3. w.config.gen # 0
    <3>1. Past(run, 4, 2)
      BY <2>2 DEF Past
    <3>2. w.config.gen >= run.pin
      BY <3>1 DEF Achieved, ConfigDone
    <3> QED BY <1>r, <3>2
  <2> QED BY <1>r, <1>a, <1>3, <2>3, ChmodConfigDoes, Zenon DEF Harmless
<1>4. CASE Rewrite
  <2>1. At("rewrite")
    BY <1>r, <1>4, RewriteDoes
  <2>2. run.phase = 4 /\ run.i = 4 /\ run.st = "script"
    BY <2>1, Where, Place DEF At
  <2>3. w.config.gen # 0
    <3>1. Past(run, 4, 2)
      BY <2>2 DEF Past
    <3>2. w.config.gen >= run.pin
      BY <3>1 DEF Achieved, ConfigDone
    <3> QED BY <1>r, <3>2
  <2> QED BY <1>r, <1>a, <1>4, <2>3, RewriteDoes, Zenon DEF Harmless
<1> QED BY <1>1, <1>2, <1>3, <1>4 DEF ConfigCommands

\* Each artifact is in place when its owner and mode are set.
LEMMA SecretsHarmless ==
  ASSUME w \in Workers, ScriptStep, SecretsCommands, ~run.opt.dry, Achieved, Clean
  PROVE  Harmless
<1>r. run \in Runs /\ run.pin \in 1..MaxGen /\ run.pin \in Gens /\ run.staged \in Gens
  BY DEF ScriptStep, PositionInv, Gens
<1>a. CanSudo /\ w.lacks = {} /\ CanBeHermes
  <2>1. run.phase > 2
    BY SecretsWithin
  <2> QED BY <2>1, Able
<1>d. "scripts" \in Dirs /\ "env" \in Artifacts /\ "wrapper" \in Artifacts
  BY DEF Dirs, Artifacts
<1>1. CASE EnsureDir("scripts_dir", "scripts")
  BY <1>r, <1>a, <1>d, <1>1, EnsureDirDoes, Zenon DEF Harmless
<1>2. CASE ArtifactMv("env_mv", "env")
  BY <1>r, <1>a, <1>d, <1>2, ArtifactMvDoes, Zenon DEF Harmless
<1>3. CASE ArtifactOwn("env_own", "env")
  BY <1>r, <1>a, <1>d, <1>3, ArtifactOwnDoes, Zenon DEF Harmless
<1>4. CASE ArtifactMode("env_mode", "env")
  BY <1>r, <1>a, <1>d, <1>4, ArtifactModeDoes, Zenon DEF Harmless
<1>5. CASE ArtifactMv("wrapper_mv", "wrapper")
  BY <1>r, <1>a, <1>d, <1>5, ArtifactMvDoes, Zenon DEF Harmless
<1>6. CASE ArtifactOwn("wrapper_own", "wrapper")
  BY <1>r, <1>a, <1>d, <1>6, ArtifactOwnDoes, Zenon DEF Harmless
<1>7. CASE ArtifactMode("wrapper_mode", "wrapper")
  BY <1>r, <1>a, <1>d, <1>7, ArtifactModeDoes, Zenon DEF Harmless
<1> QED BY <1>1, <1>2, <1>3, <1>4, <1>5, <1>6, <1>7 DEF SecretsCommands

\* The key is appended once or found.
LEMMA KeyHarmless ==
  ASSUME w \in Workers, ScriptStep, KeyCommands, ~run.opt.dry, Achieved, Clean
  PROVE  Harmless
<1>r. run \in Runs /\ run.pin \in 1..MaxGen /\ run.pin \in Gens /\ run.staged \in Gens
  BY DEF ScriptStep, PositionInv, Gens
<1>a. CanSudo /\ w.lacks = {} /\ CanBeHermes
  <2>1. run.phase > 2
    BY KeyWithin
  <2> QED BY <2>1, Able
<1>d. "ssh" \in Dirs
  BY DEF Dirs
<1>1. CASE EnsureDir("ssh_dir", "ssh")
  BY <1>r, <1>a, <1>d, <1>1, EnsureDirDoes, Zenon DEF Harmless
<1>2. CASE KeysFile
  BY <1>r, <1>a, <1>2, KeysFileDoes, Zenon DEF Harmless
<1>3. CASE InstallKey
  BY <1>r, <1>a, <1>3, InstallKeyDoes, Zenon DEF Harmless
<1> QED BY <1>1, <1>2, <1>3 DEF KeyCommands

\* tirith is installed, found or skipped.
LEMMA TirithHarmless ==
  ASSUME w \in Workers, ScriptStep, TirithCommands, ~run.opt.dry, Achieved, Clean
  PROVE  Harmless
<1>r. run \in Runs /\ run.pin \in 1..MaxGen /\ run.pin \in Gens /\ run.staged \in Gens
  BY DEF ScriptStep, PositionInv, Gens
<1>a. CanSudo /\ w.lacks = {} /\ CanBeHermes
  <2>1. run.phase > 2
    BY TirithWithin
  <2> QED BY <2>1, Able
<1>1. CASE Tirith
  BY <1>r, <1>a, <1>1, TirithDoes, Zenon DEF Harmless
<1> QED BY <1>1 DEF TirithCommands

\* The old job is gone when the new one is loaded, from a plist that is root's
\* unless an earlier run broke off; its first heartbeat comes unless its daemon
\* does not beat.
LEMMA HeartbeatHarmless ==
  ASSUME w \in Workers, ScriptStep, HeartbeatCommands, ~run.opt.dry, Achieved, Clean
  PROVE  Harmless
<1>r. run \in Runs /\ run.pin \in 1..MaxGen /\ run.pin \in Gens /\ run.staged \in Gens
  BY DEF ScriptStep, PositionInv, Gens
<1>a. CanSudo /\ w.lacks = {} /\ CanBeHermes /\ run.phase >= 8
  <2>1. run.phase = 8
    BY HeartbeatWithin
  <2> QED BY <2>1, Able
<1>1. CASE HeartbeatDir
  BY <1>r, <1>a, <1>1, HeartbeatDirDoes, Zenon DEF Harmless
<1>2. CASE InstallPlist
  BY <1>r, <1>a, <1>2, InstallPlistDoes, Zenon DEF Harmless, Lenient
<1>3. CASE Bootout
  BY <1>r, <1>a, <1>3, BootoutDoes, Zenon DEF Harmless, Lenient
<1>4. CASE LaunchctlBootstrap
  <2>1. At("bootstrap")
    BY <1>r, <1>4, LaunchctlBootstrapDoes
  <2>2. run.phase = 8 /\ run.i = 4 /\ run.st = "script"
    BY <2>1, Where, Place DEF At
  <2>3. SkipHeartbeat \/ (w.loaded = 0 /\ w.plist # 0)
    <3>1. Past(run, 8, 2)
      BY <2>2 DEF Past
    <3>2. ~SkipHeartbeat => w.plist >= run.pin /\ w.loaded = 0
      BY <2>2, <3>1 DEF Achieved, HeartbeatDone, Clean
    <3> QED BY <1>r, <3>2
  <2> QED BY <1>r, <1>a, <1>4, <2>3, LaunchctlBootstrapDoes, Zenon DEF Harmless, Spoiled
<1>5. CASE FirstHeartbeat
  <2>1. At("first_heartbeat")
    BY <1>r, <1>5, FirstHeartbeatDoes
  <2>2. run.phase = 8 /\ run.i = 5 /\ run.st = "script"
    BY <2>1, Where, Place DEF At
  <2>3. ~SkipHeartbeat /\ ~Beats => w.plist \in Broken
    <3>1. Past(run, 8, 2) /\ Past(run, 8, 4)
      BY <2>2 DEF Past
    <3>2. ~SkipHeartbeat => w.plist >= run.pin /\ w.loaded = w.plist
      BY <3>1 DEF Achieved, HeartbeatDone
    <3> QED BY <1>r, <3>2 DEF Beats
  <2> QED BY <1>r, <1>a, <1>5, <2>3, FirstHeartbeatDoes, Zenon DEF Harmless, Spoiled
<1> QED BY <1>1, <1>2, <1>3, <1>4, <1>5 DEF HeartbeatCommands

\* The verification asks for what the earlier phases have achieved.
LEMMA VerifyHarmless ==
  ASSUME w \in Workers, ScriptStep, VerifyCommands, ~run.opt.dry, Achieved, Clean
  PROVE  Harmless
<1>r. run \in Runs /\ run.pin \in 1..MaxGen /\ run.pin \in Gens /\ run.staged \in Gens
  BY DEF ScriptStep, PositionInv, Gens
<1>a. CanSudo /\ w.lacks = {} /\ CanBeHermes /\ run.phase >= 8
  <2>1. run.phase = 9
    BY VerifyWithin
  <2> QED BY <2>1, Able
<1>1. CASE Verify
  <2>1. At("verify")
    BY <1>r, <1>1, VerifyDoes
  <2>2. run.phase = 9 /\ run.i = 1 /\ run.st = "script"
    BY <2>1, Where, Place DEF At
  <2>3. /\ Matches(Version, run.pin)
        /\ SkipHeartbeat \/ w.beat = "fresh" \/ w.plist \in Broken
    <3>1. Past(run, 3, 2) /\ Past(run, 8, 2) /\ Past(run, 8, 4) /\ Past(run, 8, 5)
      BY <2>2 DEF Past
    <3>2. Matches(w.hermes, run.pin)
      BY <3>1 DEF Achieved, HermesDone
    <3>3. ~SkipHeartbeat => w.plist >= run.pin /\ w.loaded = w.plist /\ (w.beat = "fresh" \/ ~Beats)
      BY <3>1 DEF Achieved, HeartbeatDone
    <3>4. Matches(Version, run.pin)
      BY <1>a, <3>2 DEF Version
    <3>5. SkipHeartbeat \/ w.beat = "fresh" \/ w.plist \in Broken
      BY <1>r, <3>3 DEF Beats
    <3> QED BY <3>4, <3>5
  <2> QED BY <1>r, <1>a, <1>1, <2>3, VerifyDoes, Zenon DEF Harmless, Spoiled
<1> QED BY <1>1 DEF VerifyCommands

\* So it is for every command.
LEMMA CommandHarmless ==
  ASSUME w \in Workers, ScriptStep, Command, ~run.opt.dry, Achieved, Clean
  PROVE  Harmless
  BY CommandPhases, BrewHarmless, PrereqHarmless, UserHarmless, HermesHarmless, ConfigHarmless,
     SecretsHarmless, KeyHarmless, TirithHarmless, HeartbeatHarmless, VerifyHarmless

\* Only a bootout leads to the loading of the job.
LEMMA OnlyBootout ==
  ASSUME w \in Workers, ScriptStep, Command, run.phase = 8, run.i = 3
  PROVE  Bootout
<1>1. HeartbeatCommands
  <2>1. run.phase = 8
    OBVIOUS
  <2> QED BY <2>1, CommandPhases, BrewWithin, PrereqWithin, UserWithin, HermesWithin, ConfigWithin,
             SecretsWithin, KeyWithin, TirithWithin, VerifyWithin
<1>2. At("bootout")
  BY Scripts DEF At, ScriptStep
<1>3. At("heartbeat_dir") \/ At("install_plist") \/ At("bootstrap") \/ At("first_heartbeat") \/ Bootout
  BY <1>1 DEF HeartbeatCommands, HeartbeatDir, EnsureDir, InstallPlist, LaunchctlBootstrap, FirstHeartbeat
<1> QED BY <1>2, <1>3 DEF At

\* A run that nothing has gone wrong in stays so.
LEMMA CommandClean ==
  ASSUME w \in Workers, ScriptStep, Command, ~run.opt.dry, Achieved, Clean, run.clean, run'.clean
  PROVE  Clean'
<1>r. run \in Runs /\ run.st = "script" /\ ~run.exit /\ ~run.errors /\ ~run.failed /\ w.lacks = {}
  BY DEF ScriptStep, PositionInv, Clean
<1>k. run'.phase = run.phase /\ run'.opt = run.opt /\ run'.failed = run.failed
  BY StepKeeps
<1>h. SkipHeartbeat' <=> SkipHeartbeat
  BY <1>k DEF SkipHeartbeat
<1>l. w'.lacks = {}
  BY <1>r, CommandPhases, BrewWithin, PrereqWithin, UserWithin, HermesWithin, ConfigWithin,
     SecretsWithin, KeyWithin, TirithWithin, HeartbeatWithin, VerifyWithin DEF Within, Elsewhere
<1>1. CASE Goes(FALSE)
  <2>1. /\ ~run'.exit /\ ~run'.errors
        /\ run'.i = IF run.i < Len(Script[run.phase]) THEN run.i + 1 ELSE 1
    BY <1>r, <1>1, AdvanceDoes DEF Goes
  <2>2. ASSUME run'.phase = 8, run'.i = 4, ~SkipHeartbeat PROVE w'.loaded = 0
    <3>1. run.phase = 8 /\ run.i = 3
      <4>1. run.i \in 1..7
        BY <1>r DEF Runs
      <4> QED BY <1>k, <2>1, <2>2, <4>1
    <3>2. Bootout
      BY <3>1, OnlyBootout
    <3>3. ~Tolerates /\ ~Stops(TRUE) /\ ~Stops(FALSE)
      <4>1. ~Tolerates
        BY <1>r, <3>1, ToleratesDoes
      <4> QED BY <1>r, <2>1, <4>1, ExitDoes DEF Stops
    <3> QED BY <1>r, <2>2, <3>2, <3>3, BootoutDoes
  <2> QED BY <1>r, <1>k, <1>h, <1>l, <2>1, <2>2 DEF Clean
<1>2. ~Goes(TRUE) /\ ~Stops(FALSE) /\ ~(Tolerates /\ Lenient)
  <2>1. ~Goes(TRUE)
    BY <1>r, AdvanceDoes DEF Goes
  <2>2. ~Stops(FALSE)
    BY <1>r, ExitDoes DEF Stops
  <2>3. ~(Tolerates /\ Lenient)
    BY <1>r, LenientPlace, ToleratesDoes DEF ScriptStep
  <2> QED BY <2>1, <2>2, <2>3
<1>3. CASE Stops(TRUE) /\ w' = w /\ run.phase >= 8 /\ Spoiled
  <2>1. run'.st = "exited" /\ ~run'.errors
    BY <1>r, <1>3, ExitDoes DEF Stops
  <2> QED BY <1>r, <1>k, <1>l, <1>3, <2>1 DEF Clean, Spoiled
<1> QED BY <1>1, <1>2, <1>3, CommandHarmless DEF Harmless

-----------------------------------------------------------------------------
(***************************************************************************)
(* The gateway                                                             *)
(***************************************************************************)

Lasts == [result : {"none", "complete", "failed"}, phase : Phases, opt : Options, pin : 0..MaxGen,
          clean : BOOLEAN]

\* What the gateway's steps do to the run.
LEMMA ReturnDoes ==
  ASSUME run \in Runs, NEW result \in {"complete", "failed"}, NEW clean \in BOOLEAN, Return(result, clean)
  PROVE  /\ run' \in Runs /\ run'.st = "idle"
         /\ last' \in Lasts /\ last'.result = result /\ last'.phase = run.phase /\ last'.opt = run.opt
         /\ last'.pin = run.pin /\ last'.clean = clean
<1>1. 0 \in Phases /\ 1 \in 1..7 /\ 0 \in 0..MaxGen
  BY BootConstants DEF Phases
<1>2. run.opt \in Options /\ run.pin \in 0..MaxGen /\ run.phase \in Phases
  BY DEF Runs
<1>3. run' \in Runs /\ run'.st = "idle"
  BY <1>1, <1>2 DEF Return, Runs
<1> QED BY <1>2, <1>3 DEF Return, Lasts

\* A phase begins with its first command and the gateway's files as they are.
LEMMA PrepareDoes ==
  ASSUME run \in Runs, gen \in Gens, Prepare
  PROVE  /\ run' \in Runs /\ run'.st = "script" /\ run'.i = 1 /\ run'.staged = gen
         /\ ~run'.exit /\ ~run'.errors /\ run'.phase = run.phase /\ run'.opt = run.opt
         /\ run'.pin = run.pin /\ run'.failed = run.failed /\ run'.clean = run.clean
<1>0. gen \in 0..MaxGen
  BY BootConstants DEF Gens
<1>1. run' = [run EXCEPT !.st = "script", !.i = 1, !.staged = gen, !.exit = FALSE, !.errors = FALSE]
  BY DEF Prepare
<1>2. 1 \in 1..7
  OBVIOUS
<1>3. PICK a \in Runs : a = [run EXCEPT !.st = "script"]
  BY OneField, Zenon
<1>4. PICK b \in Runs : b = [a EXCEPT !.i = 1]
  BY <1>2, OneField, Zenon
<1>5. PICK d \in Runs : d = [b EXCEPT !.staged = gen]
  BY <1>0, OneField, Zenon
<1>6. PICK f \in Runs : f = [d EXCEPT !.exit = FALSE]
  BY OneField, Zenon
<1>7. PICK z \in Runs : z = [f EXCEPT !.errors = FALSE]
  BY OneField, Zenon
<1>8. run' = z
  <2>1. run' = [[[[[run EXCEPT !.st = "script"] EXCEPT !.i = 1] EXCEPT !.staged = gen] EXCEPT !.exit = FALSE] EXCEPT !.errors = FALSE]
    BY <1>1, Zenon
  <2>2. run' = [[[[a EXCEPT !.i = 1] EXCEPT !.staged = gen] EXCEPT !.exit = FALSE] EXCEPT !.errors = FALSE]
    BY <2>1, <1>3, Zenon
  <2>3. run' = [[[b EXCEPT !.staged = gen] EXCEPT !.exit = FALSE] EXCEPT !.errors = FALSE]
    BY <2>2, <1>4, Zenon
  <2>4. run' = [[d EXCEPT !.exit = FALSE] EXCEPT !.errors = FALSE]
    BY <2>3, <1>5, Zenon
  <2>5. run' = [f EXCEPT !.errors = FALSE]
    BY <2>4, <1>6, Zenon
  <2> QED BY <2>5, <1>7, Zenon
<1>9. /\ run' \in Runs /\ run'.st = "script" /\ run'.phase = run.phase /\ run'.i = 1
      /\ run'.opt = run.opt /\ run'.pin = run.pin /\ run'.staged = gen /\ run'.exit = FALSE
      /\ run'.errors = FALSE /\ run'.failed = run.failed /\ run'.clean = run.clean
  <2>1. /\ run'.st = "script" /\ run'.phase = run.phase /\ run'.i = 1 /\ run'.opt = run.opt
       /\ run'.pin = run.pin /\ run'.staged = gen /\ run'.exit = FALSE /\ run'.errors = FALSE
       /\ run'.failed = run.failed /\ run'.clean = run.clean
    BY <1>3, <1>4, <1>5, <1>6, <1>7, <1>8 DEF Runs
  <2> QED BY <1>8, <2>1, Zenon
<1> QED BY <1>9

\* The next phase begins when the one before it was OK.
GoesOn ==
    run' = [run EXCEPT !.st = "prepare", !.phase = @ + 1, !.failed = run.failed \/ ~PhaseOK]

\* The next phase comes up, and a failed one is remembered.
LEMMA NextPhaseDoes ==
  ASSUME run \in Runs, run.phase < run.opt.to, GoesOn
  PROVE  /\ run' \in Runs /\ run'.st = "prepare" /\ run'.phase = run.phase + 1
         /\ run'.failed <=> run.failed \/ ~PhaseOK
         /\ run'.opt = run.opt /\ run'.pin = run.pin /\ run'.staged = run.staged
         /\ run'.exit = run.exit /\ run'.errors = run.errors /\ run'.clean = run.clean
<1>1. run.phase \in 0..9 /\ run.opt.to \in 0..9
  BY BootConstants DEF Runs, Phases
<1>2. PICK p \in Phases : p = run.phase + 1
  BY <1>1 DEF Phases
<1>3. PICK c \in BOOLEAN : c = (run.failed \/ ~PhaseOK)
  OBVIOUS
<1>4. run' = [run EXCEPT !.st = "prepare", !.phase = p, !.failed = c]
  BY <1>2, <1>3, Zenon DEF GoesOn
<1>5. PICK a \in Runs : a = [run EXCEPT !.st = "prepare"]
  BY OneField, Zenon
<1>6. PICK b \in Runs : b = [a EXCEPT !.phase = p]
  BY OneField, Zenon
<1>7. PICK d \in Runs : d = [b EXCEPT !.failed = c]
  BY OneField, Zenon
<1>8. run' = d
  <2>1. run' = [[[run EXCEPT !.st = "prepare"] EXCEPT !.phase = p] EXCEPT !.failed = c]
    BY <1>4, Zenon
  <2>2. run' = [[a EXCEPT !.phase = p] EXCEPT !.failed = c]
    BY <2>1, <1>5, Zenon
  <2>3. run' = [b EXCEPT !.failed = c]
    BY <2>2, <1>6, Zenon
  <2> QED BY <2>3, <1>7, Zenon
<1>9. /\ run' \in Runs /\ run'.st = "prepare" /\ run'.phase = p /\ run'.i = run.i
      /\ run'.opt = run.opt /\ run'.pin = run.pin /\ run'.staged = run.staged /\ run'.exit = run.exit
      /\ run'.errors = run.errors /\ run'.failed = c /\ run'.clean = run.clean
  <2>1. /\ run'.st = "prepare" /\ run'.phase = p /\ run'.i = run.i /\ run'.opt = run.opt
       /\ run'.pin = run.pin /\ run'.staged = run.staged /\ run'.exit = run.exit /\ run'.errors = run.errors
       /\ run'.failed = c /\ run'.clean = run.clean
    BY <1>5, <1>6, <1>7, <1>8 DEF Runs
  <2> QED BY <1>8, <2>1, Zenon
<1> QED BY <1>2, <1>3, <1>9

\* The start of a run.
LEMMA StartDoes ==
  ASSUME BootTypeOK, NEW o \in Options, StartRun(o)
  PROVE  /\ run' \in Runs /\ run'.st = "prepare" /\ run'.phase = o.from /\ run'.opt = o
         /\ run'.pin = gen /\ ~run'.exit /\ ~run'.errors /\ ~run'.failed
         /\ run'.clean <=> w.lacks = {}
         /\ last' \in Lasts /\ last'.result = "none"
         /\ gen' = gen /\ w' = w /\ faults' = faults
<1>1. o.from \in Phases /\ 1 \in 1..7 /\ gen \in 0..MaxGen /\ 0 \in 0..MaxGen
  BY BootConstants DEF BootTypeOK, Gens
<1>2. PICK c \in BOOLEAN : c = (w.lacks = {})
  OBVIOUS
<1>3. run' = [st |-> "prepare", phase |-> o.from, i |-> 1, opt |-> o, pin |-> gen, staged |-> 0,
              exit |-> FALSE, errors |-> FALSE, failed |-> FALSE, clean |-> c]
  BY <1>2, Zenon DEF StartRun
<1>4. /\ run' \in Runs /\ run'.st = "prepare" /\ run'.phase = o.from /\ run'.opt = o
      /\ run'.pin = gen /\ ~run'.exit /\ ~run'.errors /\ ~run'.failed
      /\ run'.clean = c
  BY <1>1, <1>3 DEF Runs
<1>5. last' = [result |-> "none", phase |-> 0, opt |-> o, pin |-> 0, clean |-> FALSE] /\ UNCHANGED <<gen, w, faults>>
  BY Zenon DEF StartRun
<1>6. last' \in Lasts /\ last'.result = "none"
  BY <1>1, <1>5 DEF Lasts, Phases
<1> QED BY <1>2, <1>4, <1>5, <1>6

-----------------------------------------------------------------------------
(***************************************************************************)
(* The invariant                                                           *)
(***************************************************************************)

BootInv == BootTypeOK /\ PositionInv /\ RunInv /\ AcceptedIsProvisioned /\ CleanRunCompletes

\* What the phases are there for, apart from a heartbeat, is as it was.
SameWork ==
    /\ w'.shellenv = w.shellenv /\ w'.essentials = w.essentials
    /\ w'.record = w.record /\ w'.attrs = w.attrs /\ w'.home = w.home /\ w'.sshGroup = w.sshGroup
    /\ w'.hermes = w.hermes /\ w'.pinned = w.pinned
    /\ w'.config = w.config /\ w'.secrets = w.secrets /\ w'.keys = w.keys /\ w'.glued = w.glued
    /\ w'.plist = w.plist /\ w'.plistOwned = w.plistOwned /\ w'.loaded = w.loaded
    /\ w'.beat = w.beat \/ w'.beat = "fresh" \/ ~Beats

\* A step that is not a command keeps what the run has achieved.
LEMMA AchievedStays ==
  ASSUME Achieved, SameWork, run'.opt = run.opt, run'.pin = run.pin,
         \A p \in Phases, k \in 1..7 : Past(run', p, k) => Past(run, p, k),
         Past(run', 0, 2) => (run'.phase = run.phase /\ run'.errors = run.errors) \/ run.phase # 0 \/ ~run.errors
  PROVE  Achieved'
<1>h. (SkipHeartbeat' <=> SkipHeartbeat) /\ (Beats' <=> Beats)
  BY DEF SkipHeartbeat, Beats, SameWork
<1>1. BrewDone'
  <2>1. /\ Past(run', 0, 2) => Past(run, 0, 2)
        /\ Past(run', 0, 3) => Past(run, 0, 3)
    <3>1. 0 \in Phases /\ 2 \in 1..7 /\ 3 \in 1..7
      BY DEF Phases
    <3> QED BY <3>1, Zenon
  <2>2. BrewDone
    BY DEF Achieved
  <2> QED BY <1>h, <2>1, <2>2 DEF BrewDone, SameWork
<1>2. UserDone'
  <2>1. /\ Past(run', 2, 2) => Past(run, 2, 2)
        /\ Past(run', 2, 3) => Past(run, 2, 3)
        /\ Past(run', 2, 4) => Past(run, 2, 4)
        /\ Past(run', 2, 5) => Past(run, 2, 5)
    <3>1. 2 \in Phases /\ 2 \in 1..7 /\ 3 \in 1..7 /\ 4 \in 1..7 /\ 5 \in 1..7
      BY DEF Phases
    <3> QED BY <3>1, Zenon
  <2>2. UserDone
    BY DEF Achieved
  <2> QED BY <1>h, <2>1, <2>2 DEF UserDone, SameWork
<1>3. HermesDone'
  <2>1. /\ Past(run', 3, 2) => Past(run, 3, 2)
        /\ Past(run', 3, 4) => Past(run, 3, 4)
    <3>1. 3 \in Phases /\ 2 \in 1..7 /\ 4 \in 1..7
      BY DEF Phases
    <3> QED BY <3>1, Zenon
  <2>2. HermesDone
    BY DEF Achieved
  <2> QED BY <1>h, <2>1, <2>2 DEF HermesDone, SameWork
<1>4. ConfigDone'
  <2>1. /\ Past(run', 4, 2) => Past(run, 4, 2)
        /\ Past(run', 4, 3) => Past(run, 4, 3)
        /\ Past(run', 4, 4) => Past(run, 4, 4)
    <3>1. 4 \in Phases /\ 2 \in 1..7 /\ 3 \in 1..7 /\ 4 \in 1..7
      BY DEF Phases
    <3> QED BY <3>1, Zenon
  <2>2. ConfigDone
    BY DEF Achieved
  <2> QED BY <1>h, <2>1, <2>2 DEF ConfigDone, SameWork
<1>5. SecretsDone'
  <2>1. /\ Past(run', 5, 2) => Past(run, 5, 2)
        /\ Past(run', 5, 3) => Past(run, 5, 3)
        /\ Past(run', 5, 4) => Past(run, 5, 4)
        /\ Past(run', 5, 5) => Past(run, 5, 5)
        /\ Past(run', 5, 6) => Past(run, 5, 6)
        /\ Past(run', 5, 7) => Past(run, 5, 7)
    <3>1. 5 \in Phases /\ 2 \in 1..7 /\ 3 \in 1..7 /\ 4 \in 1..7 /\ 5 \in 1..7 /\ 6 \in 1..7 /\ 7 \in 1..7
      BY DEF Phases
    <3> QED BY <3>1, Zenon
  <2>2. SecretsDone
    BY DEF Achieved
  <2> QED BY <1>h, <2>1, <2>2 DEF SecretsDone, SameWork
<1>6. KeyDone'
  <2>1. /\ Past(run', 6, 3) => Past(run, 6, 3)
    <3>1. 6 \in Phases /\ 3 \in 1..7
      BY DEF Phases
    <3> QED BY <3>1, Zenon
  <2>2. KeyDone
    BY DEF Achieved
  <2> QED BY <1>h, <2>1, <2>2 DEF KeyDone, SameWork
<1>7. HeartbeatDone'
  <2>1. /\ Past(run', 8, 2) => Past(run, 8, 2)
        /\ Past(run', 8, 4) => Past(run, 8, 4)
        /\ Past(run', 8, 5) => Past(run, 8, 5)
    <3>1. 8 \in Phases /\ 2 \in 1..7 /\ 4 \in 1..7 /\ 5 \in 1..7
      BY DEF Phases
    <3> QED BY <3>1, Zenon
  <2>2. HeartbeatDone
    BY DEF Achieved
  <2> QED BY <1>h, <2>1, <2>2 DEF HeartbeatDone, SameWork
<1> QED BY <1>1, <1>2, <1>3, <1>4, <1>5, <1>6, <1>7 DEF Achieved

\* A worker that all of its phases are past is provisioned.
Provisioned(v, o, pin) ==
    /\ Wired(v.shellenv) /\ v.essentials = Formulas
    /\ v.record /\ v.attrs = Attrs /\ v.home /\ v.sshGroup
    /\ Matches(v.hermes, pin) /\ Matches(v.pinned, pin)
    /\ v.config.gen >= pin /\ v.config.mode600 /\ v.config.worker
    /\ \A a \in Artifacts : v.secrets[a].gen >= pin /\ v.secrets[a].owned /\ v.secrets[a].mode
    /\ \E g \in pin..MaxGen : v.keys[g] = 1 \/ g \in v.glued
    /\ "heartbeat" \notin o.skip => v.loaded >= pin /\ v.loaded = v.plist

\* What AcceptedIsProvisioned says of the last run.
LEMMA AcceptedMeans ==
    AcceptedIsProvisioned <=>
        (last.result = "complete" /\ Full(last.opt) => Provisioned(w, last.opt, last.pin))
  BY DEF AcceptedIsProvisioned, Provisioned, UserExists, Attrs

\* A run in its last phase is past every command of the others.
LEMMA AllPast ==
  ASSUME run.phase = 9, Achieved
  PROVE  Provisioned(w, run.opt, run.pin)
<1>1. ASSUME NEW p \in Phases, NEW k, p # 9 PROVE Past(run, p, k)
  BY <1>1 DEF Past, Phases
<1>2. \A p \in Phases, k \in 1..7 : p # 9 => Past(run, p, k)
  BY <1>1
<1>3. Past(run, 0, 2) /\ Past(run, 0, 3)
  <2>1. 0 \in Phases /\ 0 # 9 /\ 2 \in 1..7 /\ 3 \in 1..7
    BY DEF Phases
  <2> QED BY <1>2, <2>1, Zenon
<1>4. Past(run, 2, 2) /\ Past(run, 2, 3) /\ Past(run, 2, 4) /\ Past(run, 2, 5)
  <2>1. 2 \in Phases /\ 2 # 9 /\ 2 \in 1..7 /\ 3 \in 1..7 /\ 4 \in 1..7 /\ 5 \in 1..7
    BY DEF Phases
  <2> QED BY <1>2, <2>1, Zenon
<1>5. Past(run, 3, 2) /\ Past(run, 3, 4)
  <2>1. 3 \in Phases /\ 3 # 9 /\ 2 \in 1..7 /\ 4 \in 1..7
    BY DEF Phases
  <2> QED BY <1>2, <2>1, Zenon
<1>6. Past(run, 4, 2) /\ Past(run, 4, 3) /\ Past(run, 4, 4)
  <2>1. 4 \in Phases /\ 4 # 9 /\ 2 \in 1..7 /\ 3 \in 1..7 /\ 4 \in 1..7
    BY DEF Phases
  <2> QED BY <1>2, <2>1, Zenon
<1>7. Past(run, 5, 2) /\ Past(run, 5, 3) /\ Past(run, 5, 4) /\ Past(run, 5, 5) /\ Past(run, 5, 6) /\ Past(run, 5, 7)
  <2>1. 5 \in Phases /\ 5 # 9 /\ 2 \in 1..7 /\ 3 \in 1..7 /\ 4 \in 1..7 /\ 5 \in 1..7 /\ 6 \in 1..7 /\ 7 \in 1..7
    BY DEF Phases
  <2> QED BY <1>2, <2>1, Zenon
<1>8. Past(run, 6, 3)
  <2>1. 6 \in Phases /\ 6 # 9 /\ 3 \in 1..7
    BY DEF Phases
  <2> QED BY <1>2, <2>1, Zenon
<1>9. Past(run, 8, 2) /\ Past(run, 8, 4) /\ Past(run, 8, 5)
  <2>1. 8 \in Phases /\ 8 # 9 /\ 2 \in 1..7 /\ 4 \in 1..7 /\ 5 \in 1..7
    BY DEF Phases
  <2> QED BY <1>2, <2>1, Zenon
<1>10. /\ Wired(w.shellenv) /\ w.essentials = Formulas
       /\ w.record /\ w.attrs = Attrs /\ w.home /\ w.sshGroup
       /\ Matches(w.hermes, run.pin) /\ Matches(w.pinned, run.pin)
       /\ w.config.gen >= run.pin /\ w.config.mode600 /\ w.config.worker
  BY <1>3, <1>4, <1>5, <1>6 DEF Achieved, BrewDone, UserDone, HermesDone, ConfigDone
<1>11. \A a \in Artifacts : w.secrets[a].gen >= run.pin /\ w.secrets[a].owned /\ w.secrets[a].mode
  BY <1>7 DEF Achieved, SecretsDone, Artifacts
<1>12. \E g \in run.pin..MaxGen : w.keys[g] = 1 \/ g \in w.glued
  BY <1>8 DEF Achieved, KeyDone
<1>13. "heartbeat" \notin run.opt.skip => w.loaded >= run.pin /\ w.loaded = w.plist
  BY <1>9 DEF Achieved, HeartbeatDone, SkipHeartbeat
<1> QED BY <1>10, <1>11, <1>12, <1>13 DEF Provisioned

\* There is no run at first, and none has ended.
LEMMA BootInvInit == BootInit => BootInv
<1> SUFFICES ASSUME BootInit PROVE BootInv
  OBVIOUS
<1>1. gen \in Gens /\ faults \in 0..MaxFaults
  BY BootConstants DEF BootInit
<1>2. run.st = "idle" /\ last.result = "none"
  BY DEF BootInit
<1>3. run \in Runs /\ last \in Lasts
  <2>1. 0 \in Phases /\ 1 \in 1..7 /\ 0 \in 0..MaxGen
    BY BootConstants DEF Phases
  <2>2. PICK o \in Options :
           /\ run = [st |-> "idle", phase |-> 0, i |-> 1, opt |-> o, pin |-> 0, staged |-> 0,
                     exit |-> FALSE, errors |-> FALSE, failed |-> FALSE, clean |-> FALSE]
           /\ last = [result |-> "none", phase |-> 0, opt |-> o, pin |-> 0, clean |-> FALSE]
    BY Zenon DEF BootInit
  <2> QED BY <2>1, <2>2 DEF Runs, Lasts
<1>4. w \in Workers
  <2>1. PICK lacks \in SUBSET Prereqs : w = [
            lacks |-> lacks, shellenv |-> [l \in EnvLines |-> "none"], essentials |-> {},
            record |-> "nonadmin" \in lacks,
            attrs |-> IF "nonadmin" \in lacks THEN {"UniqueID"} ELSE {},
            home |-> "nonadmin" \in lacks, sshGroup |-> FALSE,
            hermes |-> 0, pinned |-> 0, dirs |-> {},
            config |-> [gen |-> 0, mode600 |-> FALSE, worker |-> FALSE],
            secrets |-> [a \in Artifacts |-> [gen |-> 0, owned |-> FALSE, mode |-> FALSE]],
            keysFile |-> "none", keys |-> [g \in Gens |-> 0], keysTorn |-> FALSE, glued |-> {},
            tirith |-> FALSE,
            plist |-> 0, plistOwned |-> TRUE, loaded |-> 0, beat |-> "none"]
    BY Zenon DEF BootInit
  <2>2. PICK b \in BOOLEAN : b = ("nonadmin" \in lacks)
    <3>1. CASE "nonadmin" \in lacks
      <4>1. TRUE = ("nonadmin" \in lacks)
        BY <3>1
      <4> QED BY <4>1
    <3>2. CASE "nonadmin" \notin lacks
      <4>1. FALSE = ("nonadmin" \in lacks)
        BY <3>2
      <4> QED BY <4>1
    <3> QED BY <3>1, <3>2
  <2>3. PICK s \in SUBSET Attrs : s = IF "nonadmin" \in lacks THEN {"UniqueID"} ELSE {}
    BY DEF Attrs
  <2>4. PICK c \in [gen : 0..MaxGen, mode600 : BOOLEAN, worker : BOOLEAN] :
            c = [gen |-> 0, mode600 |-> FALSE, worker |-> FALSE]
    <3>1. 0 \in 0..MaxGen
      BY BootConstants
    <3> QED BY <3>1
  <2>5. PICK f \in [Artifacts -> [gen : 0..MaxGen, owned : BOOLEAN, mode : BOOLEAN]] :
            f = [a \in Artifacts |-> [gen |-> 0, owned |-> FALSE, mode |-> FALSE]]
    <3>1. 0 \in 0..MaxGen
      BY BootConstants
    <3>2. [gen |-> 0, owned |-> FALSE, mode |-> FALSE] \in [gen : 0..MaxGen, owned : BOOLEAN, mode : BOOLEAN]
      BY <3>1
    <3> QED BY <3>2, Zenon
  <2>6. PICK k \in [Gens -> 0..1] : k = [g \in Gens |-> 0]
    <3>1. 0 \in 0..1
      OBVIOUS
    <3> QED BY <3>1, Zenon
  <2>9. PICK e \in [EnvLines -> {"none", "torn", "whole"}] : e = [l \in EnvLines |-> "none"]
    OBVIOUS
  <2>7. w = [lacks |-> lacks, shellenv |-> e, essentials |-> {},
             record |-> b, attrs |-> s, home |-> b, sshGroup |-> FALSE,
             hermes |-> 0, pinned |-> 0, dirs |-> {}, config |-> c, secrets |-> f,
             keysFile |-> "none", keys |-> k, keysTorn |-> FALSE, glued |-> {}, tirith |-> FALSE,
             plist |-> 0, plistOwned |-> TRUE, loaded |-> 0, beat |-> "none"]
    BY <2>1, <2>2, <2>3, <2>4, <2>5, <2>6, <2>9, Zenon
  <2>8. 0 \in 0..MaxGen
    BY BootConstants
  <2> QED BY <2>7, <2>8 DEF Workers
<1>5. BootTypeOK
  BY <1>1, <1>3, <1>4 DEF BootTypeOK, Lasts
<1> QED BY <1>2, <1>5 DEF BootInv, PositionInv, RunInv, AcceptedIsProvisioned, CleanRunCompletes

\* While a run is in progress nothing is claimed of the last one.
LEMMA NothingClaimed ==
  ASSUME last'.result = "none"
  PROVE  AcceptedIsProvisioned' /\ CleanRunCompletes'
  BY DEF AcceptedIsProvisioned, CleanRunCompletes

\* A step that leaves the run and the phases' work alone.
LEMMA AroundKeeps ==
  ASSUME BootInv, w' \in Workers, SameWork, UNCHANGED <<run, last, faults>>, gen' \in Gens, gen <= gen',
         w'.lacks = w.lacks \/ w.lacks # {}
  PROVE  BootInv'
<1>1. BootTypeOK'
  BY DEF BootInv, BootTypeOK
<1>2. PositionInv'
  <2>1. run.st # "idle" => run.pin \in 1..MaxGen /\ gen \in 1..MaxGen /\ gen' \in 1..MaxGen
    BY DEF BootInv, BootTypeOK, PositionInv, Gens
  <2> QED BY <2>1 DEF BootInv, PositionInv
<1>3. RunInv'
  <2> SUFFICES ASSUME run.st # "idle", Full(run.opt) PROVE Achieved' /\ (run.clean => Clean')
    BY DEF RunInv
  <2>1. Achieved /\ (run.clean => Clean)
    BY DEF BootInv, RunInv
  <2>2. Achieved'
    BY <2>1, AchievedStays
  <2>3. (SkipHeartbeat' <=> SkipHeartbeat) /\ w'.plist = w.plist /\ w'.loaded = w.loaded
    BY DEF SkipHeartbeat, SameWork
  <2> QED BY <2>1, <2>2, <2>3 DEF Clean, Spoiled, SameWork
<1>4. AcceptedIsProvisioned'
  <2>1. last.result = "complete" /\ Full(last.opt) => Provisioned(w, last.opt, last.pin)
    BY AcceptedMeans DEF BootInv
  <2>2. Provisioned(w, last.opt, last.pin) => Provisioned(w', last.opt, last.pin)
    BY DEF Provisioned, SameWork
  <2> QED BY <2>1, <2>2 DEF AcceptedIsProvisioned, Provisioned, UserExists, Attrs
<1>5. CleanRunCompletes'
  BY DEF BootInv, CleanRunCompletes, SameWork
<1> QED BY <1>1, <1>2, <1>3, <1>4, <1>5 DEF BootInv

\* Heartbeats, time, the administrator and the operator.
LEMMA AroundStep ==
  ASSUME BootInv, Beat \/ Age \/ Admin \/ Edit
  PROVE  BootInv'
<1>t. w \in Workers /\ gen \in 1..MaxGen /\ MaxGen \in Nat
  BY BootConstants DEF BootInv, BootTypeOK, Gens
<1>1. CASE Beat
  <2>1. PICK z \in Workers : z = [w EXCEPT !.beat = "fresh"] /\ Within(8, w, z)
    BY <1>t, WorkerField, Zenon DEF Within
  <2>2. /\ z.plist = w.plist /\ z.plistOwned = w.plistOwned /\ z.loaded = w.loaded
        /\ z.beat = "fresh"
    BY <1>t, <2>1 DEF Workers
  <2>3. w' = z /\ UNCHANGED <<gen, run, last, faults>>
    BY <1>1, <2>1, Zenon DEF Beat
  <2>4. SameWork /\ w'.lacks = w.lacks
    BY <2>1, <2>2, <2>3 DEF SameWork, Within, Elsewhere
  <2> QED BY <1>t, <2>3, <2>4, AroundKeeps DEF Gens
<1>2. CASE Age
  <2>1. PICK z \in Workers : z = [w EXCEPT !.beat = "old"] /\ Within(8, w, z)
    BY <1>t, WorkerField, Zenon DEF Within
  <2>2. z.plist = w.plist /\ z.plistOwned = w.plistOwned /\ z.loaded = w.loaded
    BY <1>t, <2>1 DEF Workers
  <2>3. w' = z /\ UNCHANGED <<gen, run, last, faults>> /\ ~Beats
    BY <1>2, <2>1, Zenon DEF Age
  <2>4. SameWork /\ w'.lacks = w.lacks
    BY <2>1, <2>2, <2>3 DEF SameWork, Within, Elsewhere
  <2> QED BY <1>t, <2>3, <2>4, AroundKeeps DEF Gens
<1>3. CASE Admin
  <2>1. PICK p \in w.lacks : w' = [w EXCEPT !.lacks = w.lacks \ {p}]
    BY <1>3, Zenon DEF Admin
  <2>2. w' \in Workers /\ SameWork
    BY <1>t, <2>1 DEF Workers, SameWork
  <2>3. UNCHANGED <<gen, run, last, faults>> /\ w.lacks # {}
    BY <1>3 DEF Admin
  <2> QED BY <1>t, <2>2, <2>3, AroundKeeps DEF Gens
<1>4. CASE Edit
  <2>1. gen' \in 1..MaxGen /\ gen <= gen'
    BY <1>t, <1>4 DEF Edit
  <2>2. UNCHANGED <<w, run, last, faults>>
    BY <1>4 DEF Edit
  <2>3. SameWork
    BY <2>2 DEF SameWork
  <2> QED BY <1>t, <2>1, <2>2, <2>3, AroundKeeps DEF Gens
<1> QED BY <1>1, <1>2, <1>3, <1>4

\* A run that has just begun has nothing to show.
LEMMA NothingPast ==
  ASSUME \A p \in Phases, k \in 1..7 : ~Past(run', p, k)
  PROVE  Achieved'
<1>1. BrewDone'
  <2>1. 0 \in Phases /\ 2 \in 1..7 /\ 3 \in 1..7
    BY DEF Phases
  <2>2. ~Past(run', 0, 2) /\ ~Past(run', 0, 3)
    BY <2>1, Zenon
  <2> QED BY <2>2 DEF BrewDone
<1>2. UserDone'
  <2>1. 2 \in Phases /\ 2 \in 1..7 /\ 3 \in 1..7 /\ 4 \in 1..7 /\ 5 \in 1..7
    BY DEF Phases
  <2>2. ~Past(run', 2, 2) /\ ~Past(run', 2, 3) /\ ~Past(run', 2, 4) /\ ~Past(run', 2, 5)
    BY <2>1, Zenon
  <2> QED BY <2>2 DEF UserDone
<1>3. HermesDone'
  <2>1. 3 \in Phases /\ 2 \in 1..7 /\ 4 \in 1..7
    BY DEF Phases
  <2>2. ~Past(run', 3, 2) /\ ~Past(run', 3, 4)
    BY <2>1, Zenon
  <2> QED BY <2>2 DEF HermesDone
<1>4. ConfigDone'
  <2>1. 4 \in Phases /\ 2 \in 1..7 /\ 3 \in 1..7 /\ 4 \in 1..7
    BY DEF Phases
  <2>2. ~Past(run', 4, 2) /\ ~Past(run', 4, 3) /\ ~Past(run', 4, 4)
    BY <2>1, Zenon
  <2> QED BY <2>2 DEF ConfigDone
<1>5. SecretsDone'
  <2>1. 5 \in Phases /\ 2 \in 1..7 /\ 3 \in 1..7 /\ 4 \in 1..7 /\ 5 \in 1..7 /\ 6 \in 1..7 /\ 7 \in 1..7
    BY DEF Phases
  <2>2. ~Past(run', 5, 2) /\ ~Past(run', 5, 3) /\ ~Past(run', 5, 4) /\ ~Past(run', 5, 5) /\ ~Past(run', 5, 6) /\ ~Past(run', 5, 7)
    BY <2>1, Zenon
  <2> QED BY <2>2 DEF SecretsDone
<1>6. KeyDone'
  <2>1. 6 \in Phases /\ 3 \in 1..7
    BY DEF Phases
  <2>2. ~Past(run', 6, 3)
    BY <2>1, Zenon
  <2> QED BY <2>2 DEF KeyDone
<1>7. HeartbeatDone'
  <2>1. 8 \in Phases /\ 2 \in 1..7 /\ 4 \in 1..7 /\ 5 \in 1..7
    BY DEF Phases
  <2>2. ~Past(run', 8, 2) /\ ~Past(run', 8, 4) /\ ~Past(run', 8, 5)
    BY <2>1, Zenon
  <2> QED BY <2>2 DEF HeartbeatDone
<1> QED BY <1>1, <1>2, <1>3, <1>4, <1>5, <1>6, <1>7 DEF Achieved

\* A new run has achieved nothing, and takes nothing back.
LEMMA StartStep ==
  ASSUME BootInv, NEW o \in Options, StartRun(o)
  PROVE  BootInv'
<1>1. /\ run' \in Runs /\ run'.st = "prepare" /\ run'.phase = o.from /\ run'.opt = o
      /\ run'.pin = gen /\ ~run'.exit /\ ~run'.errors /\ ~run'.failed
      /\ run'.clean <=> w.lacks = {}
      /\ last' \in Lasts /\ last'.result = "none"
      /\ gen' = gen /\ w' = w /\ faults' = faults
  BY StartDoes DEF BootInv
<1>2. BootTypeOK'
  BY <1>1 DEF BootInv, BootTypeOK, Lasts
<1>3. PositionInv'
  <2>1. gen \in Gens /\ gen <= gen
    BY DEF BootInv, BootTypeOK, Gens
  <2> QED BY <1>1, <2>1 DEF PositionInv
<1>4. RunInv'
  <2> SUFFICES ASSUME Full(o) PROVE Achieved' /\ (run'.clean => Clean')
    BY <1>1 DEF RunInv
  <2>1. ASSUME NEW p \in Phases, NEW k PROVE ~Past(run', p, k)
    BY <1>1 DEF Past, Full, Phases
  <2>2. \A p \in Phases, k \in 1..7 : ~Past(run', p, k)
    BY <2>1
  <2>3. Achieved'
    BY <2>2, NothingPast
  <2> QED BY <1>1, <2>3 DEF Clean
<1> QED BY <1>1, <1>2, <1>3, <1>4, NothingClaimed DEF BootInv

\* A phase whose files were read begins.
LEMMA PrepareStep ==
  ASSUME BootInv, Prepare
  PROVE  BootInv'
<1>t. run \in Runs /\ gen \in Gens /\ run.st = "prepare" /\ run.phase \in Phases
  BY DEF BootInv, BootTypeOK, Prepare, Runs
<1>1. /\ run' \in Runs /\ run'.st = "script" /\ run'.i = 1 /\ run'.staged = gen
      /\ ~run'.exit /\ ~run'.errors /\ run'.phase = run.phase /\ run'.opt = run.opt
      /\ run'.pin = run.pin /\ run'.failed = run.failed /\ run'.clean = run.clean
  BY <1>t, PrepareDoes
<1>2. gen' = gen /\ w' = w /\ last' = last /\ faults' = faults
  BY DEF Prepare
<1>3. BootTypeOK'
  BY <1>1, <1>2 DEF BootInv, BootTypeOK
<1>4. PositionInv' /\ last'.result = "none"
  <2>1. run.pin \in Gens /\ run.pin <= gen /\ last.result = "none"
    BY <1>t DEF BootInv, PositionInv
  <2>2. Len(Script[run.phase]) \in 1..7
    BY <1>t, ShortScripts
  <2>3. 1 <= Len(Script[run.phase])
    <3>1. \A n \in 1..7 : 1 <= n
      OBVIOUS
    <3> QED BY <2>2, <3>1
  <2> QED BY <1>t, <1>1, <1>2, <2>1, <2>3 DEF PositionInv
<1>5. RunInv'
  <2> SUFFICES ASSUME Full(run.opt) PROVE Achieved' /\ (run'.clean => Clean')
    BY <1>1 DEF RunInv
  <2>1. Achieved /\ (run.clean => Clean)
    BY <1>t DEF BootInv, RunInv
  <2>2. ASSUME NEW p \in Phases, NEW k \in 1..7, Past(run', p, k) PROVE run.phase > p
    BY <1>1, <2>2 DEF Past
  <2>3. ASSUME NEW p \in Phases, NEW k \in 1..7, Past(run', p, k) PROVE Past(run, p, k)
    BY <2>2, <2>3 DEF Past
  <2>4. Past(run', 0, 2) => run.phase # 0
    <3>1. 0 \in Phases /\ 2 \in 1..7
      BY DEF Phases
    <3>2. Past(run', 0, 2) => run.phase > 0
      BY <2>2, <3>1, Zenon
    <3> QED BY <3>2
  <2>5. SameWork
    BY <1>2 DEF SameWork
  <2>6. Achieved'
    BY <1>1, <2>1, <2>3, <2>4, <2>5, AchievedStays
  <2>7. run'.clean => Clean'
    BY <1>1, <1>2, <2>1 DEF Clean
  <2> QED BY <2>6, <2>7
<1> QED BY <1>3, <1>4, <1>5, NothingClaimed DEF BootInv

\* The end of the run.
LEMMA ReturnKeeps ==
  ASSUME BootInv, run.st # "idle", NEW result \in {"complete", "failed"}, NEW clean \in BOOLEAN,
         Return(result, clean), gen' = gen, w' = w, faults' \in 0..MaxFaults,
         result = "complete" /\ Full(run.opt) => Provisioned(w, run.opt, run.pin),
         result = "failed" /\ Full(run.opt) /\ clean => run.phase >= 8 /\ Spoiled
  PROVE  BootInv'
<1>1. /\ run' \in Runs /\ run'.st = "idle"
      /\ last' \in Lasts /\ last'.result = result /\ last'.phase = run.phase /\ last'.opt = run.opt
      /\ last'.pin = run.pin /\ last'.clean = clean
  BY ReturnDoes DEF BootInv, BootTypeOK
<1>2. BootTypeOK'
  BY <1>1 DEF BootInv, BootTypeOK, Lasts
<1>3. PositionInv' /\ RunInv'
  BY <1>1 DEF PositionInv, RunInv
<1>4. CleanRunCompletes'
  BY <1>1 DEF CleanRunCompletes, Spoiled
<1>5. AcceptedIsProvisioned'
  BY <1>1 DEF AcceptedIsProvisioned, Provisioned, UserExists, Attrs
<1> QED BY <1>2, <1>3, <1>4, <1>5 DEF BootInv

\* A phase that has ended leads to the next one or ends the run.
LEMMA EndStep ==
  ASSUME BootInv, EndPhase
  PROVE  BootInv'
<1>t. run \in Runs /\ run.st = "exited" /\ run.phase \in 0..9 /\ run.clean \in BOOLEAN
  BY DEF BootInv, BootTypeOK, EndPhase, Runs, Phases
<1>u. gen' = gen /\ w' = w /\ faults' = faults /\ faults' \in 0..MaxFaults
  BY DEF EndPhase, BootInv, BootTypeOK
<1>r. Full(run.opt) => Achieved /\ (run.clean => Clean) /\ ~run.opt.dry /\ run.opt.to = 9
  BY <1>t DEF BootInv, RunInv, Full
<1>1. CASE ~PhaseOK /\ ~run.opt.dry
  <2>1. Return("failed", run.clean)
    BY <1>1, Zenon DEF EndPhase
  <2>2. Full(run.opt) /\ run.clean => run.phase >= 8 /\ Spoiled
    BY <1>1, <1>r DEF PhaseOK, Clean
  <2> QED BY <1>t, <1>u, <2>1, <2>2, ReturnKeeps
<1>2. CASE ~(~PhaseOK /\ ~run.opt.dry) /\ run.phase < run.opt.to
  <2>1. GoesOn /\ last' = last
    BY <1>2, Zenon DEF EndPhase, GoesOn
  <2>2. /\ run' \in Runs /\ run'.st = "prepare" /\ run'.phase = run.phase + 1
        /\ run'.failed <=> run.failed \/ ~PhaseOK
        /\ run'.opt = run.opt /\ run'.pin = run.pin /\ run'.staged = run.staged
        /\ run'.exit = run.exit /\ run'.errors = run.errors /\ run'.clean = run.clean
    BY <1>t, <1>2, <2>1, NextPhaseDoes
  <2>3. BootTypeOK'
    BY <1>u, <2>1, <2>2 DEF BootInv, BootTypeOK
  <2>4. PositionInv' /\ last'.result = "none"
    BY <1>t, <1>u, <2>1, <2>2 DEF BootInv, PositionInv
  <2>5. RunInv'
    <3> SUFFICES ASSUME Full(run.opt) PROVE Achieved' /\ (run'.clean => Clean')
      BY <2>2 DEF RunInv
    <3>1. ~run.exit /\ ~run.errors
      BY <1>2, <1>r DEF PhaseOK
    <3>2. ASSUME NEW p \in Phases, NEW k \in 1..7, Past(run', p, k) PROVE Past(run, p, k)
      <4>1. run.phase + 1 > p
        BY <2>2, <3>2 DEF Past
      <4>2. run.phase > p \/ run.phase = p
        BY <1>t, <4>1 DEF Phases
      <4> QED BY <1>t, <3>1, <4>2 DEF Past
    <3>3. SameWork
      BY <1>u DEF SameWork
    <3>4. Achieved'
      BY <1>r, <2>2, <3>1, <3>2, <3>3, AchievedStays
    <3>5. run'.clean => Clean'
      BY <1>u, <1>r, <2>2, <3>1 DEF Clean, PhaseOK
    <3> QED BY <3>4, <3>5
  <2> QED BY <2>3, <2>4, <2>5, NothingClaimed DEF BootInv
<1>3. CASE ~(~PhaseOK /\ ~run.opt.dry) /\ ~(run.phase < run.opt.to)
  <2>1. Return(IF run.failed \/ ~PhaseOK THEN "failed" ELSE "complete", run.clean)
    BY <1>3, Zenon DEF EndPhase
  <2>2. Full(run.opt) => run.phase = 9 /\ Achieved /\ (run.clean => ~run.failed) /\ PhaseOK
    BY <1>t, <1>r, <1>3 DEF Clean
  <2>3. CASE run.failed \/ ~PhaseOK
    <3>1. Return("failed", run.clean)
      BY <2>1, <2>3
    <3>2. Full(run.opt) => ~run.clean
      BY <2>2, <2>3
    <3> QED BY <1>t, <1>u, <3>1, <3>2, ReturnKeeps
  <2>4. CASE ~(run.failed \/ ~PhaseOK)
    <3>1. Return("complete", run.clean)
      BY <2>1, <2>4
    <3>2. Full(run.opt) => Provisioned(w, run.opt, run.pin)
      BY <2>2, AllPast
    <3> QED BY <1>t, <1>u, <3>1, <3>2, ReturnKeeps
  <2> QED BY <2>3, <2>4
<1> QED BY <1>1, <1>2, <1>3

\* A script that goes on or exits keeps the invariant as long as the worker is
\* changed within the phase.
LEMMA CommandKeeps ==
  ASSUME BootInv, Command
  PROVE  BootInv'
<1>1. ScriptStep /\ faults' \in 0..MaxFaults /\ gen' = gen /\ last' = last
  BY CommandStep DEF BootInv
<1>2. w \in Workers /\ run.st = "script"
  BY <1>1 DEF BootInv, BootTypeOK, ScriptStep
<1>3. w' \in Workers
  BY <1>1, <1>2, CommandPhases, BrewWithin, PrereqWithin, UserWithin, HermesWithin, ConfigWithin,
     SecretsWithin, KeyWithin, TirithWithin, HeartbeatWithin, VerifyWithin DEF Within
<1>4. run' \in Runs /\ PositionInv' /\ run'.opt = run.opt
  BY <1>1, ShapeTyped DEF BootInv, ScriptStep
<1>5. BootTypeOK'
  BY <1>1, <1>3, <1>4 DEF BootInv, BootTypeOK
<1>6. last'.result = "none"
  BY <1>1, <1>2 DEF BootInv, PositionInv
<1>7. RunInv'
  <2> SUFFICES ASSUME Full(run.opt) PROVE Achieved' /\ (run'.clean => Clean')
    BY <1>4 DEF RunInv
  <2>1. Achieved /\ (run.clean => Clean) /\ ~run.opt.dry
    BY <1>2 DEF BootInv, RunInv, Full
  <2>2. Achieved'
    BY <1>1, <1>2, <2>1, CommandAchieves
  <2>3. run'.clean => run.clean
    <3>1. CASE Goes(FALSE) \/ Goes(TRUE)
      BY <1>1, <3>1, AdvanceDoes DEF ScriptStep, Goes
    <3>2. CASE Stops(TRUE) \/ Stops(FALSE)
      BY <1>1, <3>2, ExitDoes DEF ScriptStep, Stops
    <3>3. CASE Tolerates /\ Lenient
      <4>1. run.phase = 8 /\ run.i \in 2..3
        BY <1>1, <3>3, LenientPlace DEF ScriptStep
      <4> QED BY <1>1, <3>3, <4>1, ToleratesDoes DEF ScriptStep
    <3> QED BY <1>1, <3>1, <3>2, <3>3 DEF ScriptStep
  <2>4. run'.clean => Clean'
    BY <1>1, <1>2, <2>1, <2>3, CommandClean
  <2> QED BY <2>2, <2>4
<1> QED BY <1>4, <1>5, <1>6, <1>7, NothingClaimed DEF BootInv

\* Faults are counted up to their bound.
LEMMA FaultBounded ==
  ASSUME BootTypeOK, Fault
  PROVE  faults' \in 0..MaxFaults
  BY BootConstants DEF BootTypeOK, Fault

\* A lost session ends the script, in a run that is no longer clean.
LEMMA DropKeeps ==
  ASSUME BootInv, Drop
  PROVE  BootInv'
<1>1. /\ run.st = "script" /\ Stops(FALSE) /\ w' = w /\ last' = last /\ gen' = gen
      /\ faults' \in 0..MaxFaults
  <2>1. run.st = "script" /\ Fault /\ Exit(FALSE) /\ w' = w /\ last' = last /\ gen' = gen
    BY DEF Drop
  <2>2. faults' \in 0..MaxFaults
    BY <2>1, FaultBounded DEF BootInv
  <2> QED BY <2>1, <2>2 DEF Stops
<1>2. ScriptStep
  BY <1>1 DEF ScriptStep, BootInv, BootTypeOK
<1>3. run' \in Runs /\ PositionInv' /\ run'.opt = run.opt
  BY <1>1, ShapeTyped DEF BootInv
<1>4. BootTypeOK'
  BY <1>1, <1>3 DEF BootInv, BootTypeOK
<1>5. last'.result = "none"
  BY <1>1 DEF BootInv, PositionInv
<1>6. RunInv'
  <2> SUFFICES ASSUME Full(run.opt) PROVE Achieved' /\ ~run'.clean
    BY <1>3 DEF RunInv
  <2>1. Achieved
    BY <1>1 DEF BootInv, RunInv
  <2>2. Elsewhere(run.phase, w, w')
    BY <1>1 DEF Elsewhere
  <2>3. Achieved'
    BY <1>1, <1>2, <2>1, <2>2, OtherPhases DEF Exits, Achieved
  <2>4. ~run'.clean
    BY <1>1, <1>2, ExitDoes DEF ScriptStep, Stops
  <2> QED BY <2>3, <2>4
<1> QED BY <1>3, <1>4, <1>5, <1>6, NothingClaimed DEF BootInv

\* Files that cannot be read or uploaded end the run.
LEMMA PrepareFailsKeeps ==
  ASSUME BootInv, PrepareFails
  PROVE  BootInv'
<1>1. /\ run.st # "idle" /\ Return("failed", FALSE) /\ gen' = gen /\ w' = w
      /\ faults' \in 0..MaxFaults
  <2>1. run.st = "prepare" /\ Fault /\ Return("failed", FALSE) /\ gen' = gen /\ w' = w
    BY DEF PrepareFails
  <2>2. faults' \in 0..MaxFaults
    BY <2>1, FaultBounded DEF BootInv
  <2> QED BY <2>1, <2>2
<1> QED BY <1>1, ReturnKeeps

\* Every step of the gateway, the worker and those around them.
LEMMA BootInvNext == BootInv /\ [BootNext]_bootVars => BootInv'
<1> SUFFICES ASSUME BootInv, [BootNext]_bootVars PROVE BootInv'
  OBVIOUS
<1>1. CASE UNCHANGED bootVars
  <2>1. gen' = gen /\ w' = w /\ run' = run /\ last' = last /\ faults' = faults
    BY <1>1 DEF bootVars
  <2>2. SameWork
    BY <2>1 DEF SameWork
  <2>3. w' \in Workers /\ gen' \in Gens /\ gen <= gen'
    BY <2>1 DEF BootInv, BootTypeOK, Gens
  <2> QED BY <2>1, <2>2, <2>3, AroundKeeps
<1>2. CASE BootNext
  BY <1>2, StartStep, PrepareStep, PrepareFailsKeeps, EndStep, CommandKeeps, DropKeeps, AroundStep DEF BootNext
<1> QED BY <1>1, <1>2

\* It holds always.
LEMMA BootAlways == BootSpec => []BootInv
  BY BootInvInit, BootInvNext, PTL DEF BootSpec

\* The worker and the run of bootstrap-worker are always of their types: no key
\* has two lines of its own in authorized_keys (phase06_setup_dedicated_key),
\* however often and wherever runs break off.
THEOREM BootTyped == BootSpec => []BootTypeOK
<1>1. BootInv => BootTypeOK
  BY DEF BootInv
<1> QED BY <1>1, BootAlways, PTL

\* Whenever runBootstrapWorker has reported success for the whole pipeline, the
\* worker has everything the phases are there for, whatever earlier runs left; a
\* torn line of the shellenv (phase00) and a key glued to a torn line (phase06)
\* are all it may have wrong of that.
THEOREM Accepted == BootSpec => []AcceptedIsProvisioned
<1>1. BootInv => AcceptedIsProvisioned
  BY DEF BootInv
<1> QED BY <1>1, BootAlways, PTL

\* A run of the whole pipeline in which nothing goes wrong never fails because
\* of what earlier runs left behind, but for a plist whose daemon does not beat
\* or that phase08 moved into place and did not give to root.
THEOREM CleanRuns == BootSpec => []CleanRunCompletes
<1>1. BootInv => CleanRunCompletes
  BY DEF BootInv
<1> QED BY <1>1, BootAlways, PTL

=============================================================================
