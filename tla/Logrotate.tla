------------------------------ MODULE Logrotate ------------------------------
(***************************************************************************)
(* fleetctl logrotate: rotateAll, rotateOne and pruneRotations, beside     *)
(* processes that append to the logs.                                      *)
(*                                                                         *)
(* The lines of a log are numbered as they are written.  The file holds    *)
(* the lines base[l]+1..written[l]: truncation is the only thing that      *)
(* removes lines from it.  An archive is the set of lines its gzip holds,  *)
(* under the second that names it.                                         *)
(*                                                                         *)
(* Operators named A_xyz are plausible bugs of the definition A below them.*)
(***************************************************************************)
EXTENDS Integers, FiniteSets

CONSTANTS
    Logs,           \* the *.jsonl files of ~/.hermes/logs
    Rotators,       \* processes running `fleetctl logrotate'
    MaxLines,       \* bound: lines per log
    MaxTime,        \* bound: seconds
    Envs            \* the environments explored

\* What is there, the flags --threshold-bytes (in lines) and --keep, whether
\* file operations can fail and processes die, whether the gateway can lose
\* power, and bounds on the lines of a log and the seconds explored.
EnvRecords == [logs : SUBSET Logs, rotators : SUBSET Rotators,
               threshold : Nat \ {0}, keep : Nat \ {0},
               faults : BOOLEAN, powerFails : BOOLEAN,
               lines : 0..MaxLines, seconds : 0..MaxTime]

ASSUME LogrotateAssumption ==
    /\ MaxLines \in Nat /\ MaxTime \in Nat
    /\ Envs \subseteq EnvRecords

Times == 0..MaxTime
Lines == 1..MaxLines

VARIABLES
    env,        \* the environment: chosen at the start, never changed
    written,    \* [Logs -> 0..MaxLines]
    base,       \* [Logs -> 0..MaxLines]
    arch,       \* [Logs -> [a subset of Times -> SUBSET Lines]]
    unsynced,   \* [Logs -> SUBSET Times]: archives whose data is not on disk
    now,
    pc, todo, cur, ts, off, copy,   \* of each rotator
    lastEnd,    \* history: second in which the rotator's last run ended
    late,       \* history: lines appended between a copy's end and its truncation
    pruned      \* history: lines of archives that --keep let go

vars == <<env, written, base, arch, unsynced, now, pc, todo, cur, ts, off, copy,
          lastEnd, late, pruned>>
rotator == <<todo, cur, ts, off, copy, lastEnd>>
files == <<written, base, arch, unsynced>>
history == <<late, pruned>>

TypeOK ==
    /\ env \in EnvRecords
    /\ written \in [Logs -> 0..MaxLines]
    /\ base \in [Logs -> 0..MaxLines] /\ \A l \in Logs : base[l] <= written[l]
    /\ \A l \in Logs : /\ DOMAIN arch[l] \subseteq Times
                       /\ \A t \in DOMAIN arch[l] : arch[l][t] \subseteq 1..written[l]
                       /\ unsynced[l] \subseteq DOMAIN arch[l]
    /\ now \in Times
    /\ pc \in [Rotators -> {"idle", "scan", "copy", "rename", "truncate", "prune"}]
    /\ todo \in [Rotators -> SUBSET Logs]
    /\ cur \in [Rotators -> Logs]
    /\ ts \in [Rotators -> Times]
    /\ off \in [Rotators -> 0..MaxLines]
    /\ copy \in [Rotators -> SUBSET Lines]
    /\ lastEnd \in [Rotators -> {-1} \cup Times]
    /\ late \in [Logs -> SUBSET Lines]
    /\ pruned \in [Logs -> SUBSET Lines]

Init ==
    /\ env \in Envs
    /\ written = [l \in Logs |-> 0]
    /\ base = [l \in Logs |-> 0]
    /\ arch = [l \in Logs |-> [t \in {} |-> {}]]
    /\ unsynced = [l \in Logs |-> {}]
    /\ now = 0
    /\ pc = [r \in Rotators |-> "idle"]
    /\ todo = [r \in Rotators |-> {}]
    /\ cur \in [Rotators -> Logs] /\ \A r, s \in Rotators : cur[r] = cur[s]
    /\ ts = [r \in Rotators |-> 0]
    /\ off = [r \in Rotators |-> 0]
    /\ copy = [r \in Rotators |-> {}]
    /\ lastEnd = [r \in Rotators |-> -1]
    /\ late = [l \in Logs |-> {}]
    /\ pruned = [l \in Logs |-> {}]

Size(l) == written[l] - base[l]

-----------------------------------------------------------------------------
\* Has a rotator read the end of l without having truncated it?
Exposed(l) == \E r \in Rotators : pc[r] \in {"rename", "truncate"} /\ cur[r] = l

\* Logger.Action of some process: one write to a file opened with O_APPEND.
AppendLine(l) ==
    /\ l \in env.logs /\ written[l] < env.lines
    /\ written' = [written EXCEPT ![l] = @ + 1]
    /\ late' = [late EXCEPT ![l] = @ \cup (IF Exposed(l) THEN {written[l] + 1} ELSE {})]
    /\ UNCHANGED <<base, arch, unsynced, now, pc, rotator, pruned>>

\* runLogrotate and the ReadDir of rotateAll.  A rotator's next
\* run does not start in the second in which its last one ended.
Start(r) ==
    /\ r \in env.rotators /\ pc[r] = "idle" /\ lastEnd[r] < now
    /\ pc' = [pc EXCEPT ![r] = "scan"]
    /\ todo' = [todo EXCEPT ![r] = env.logs]
    /\ UNCHANGED <<files, now, cur, ts, off, copy, lastEnd, history>>

\* continue of the loop over the directory's entries.
Continue(r) == pc' = [pc EXCEPT ![r] = "scan"]

\* End of the run.
Finish(r) ==
    /\ pc[r] = "scan" /\ todo[r] = {}
    /\ pc' = [pc EXCEPT ![r] = "idle"]
    /\ lastEnd' = [lastEnd EXCEPT ![r] = now]
    /\ UNCHANGED <<files, now, todo, cur, ts, off, copy, history>>

\* The file is below the threshold, or its stat fails.
Skip(r, l) ==
    /\ pc[r] = "scan" /\ l \in todo[r]
    /\ Size(l) < env.threshold \/ env.faults
    /\ todo' = [todo EXCEPT ![r] = @ \ {l}]
    /\ UNCHANGED <<files, now, pc, cur, ts, off, copy, lastEnd, history>>

\* The file is large enough: rotateOne names the archive by the clock.
Rotate(r, l) ==
    /\ pc[r] = "scan" /\ l \in todo[r]
    /\ Size(l) >= env.threshold
    /\ todo' = [todo EXCEPT ![r] = @ \ {l}]
    /\ cur' = [cur EXCEPT ![r] = l]
    /\ ts' = [ts EXCEPT ![r] = now]
    /\ off' = [off EXCEPT ![r] = 0]
    /\ copy' = [copy EXCEPT ![r] = {}]
    /\ pc' = [pc EXCEPT ![r] = "copy"]
    /\ UNCHANGED <<files, now, lastEnd, history>>

\* io.Copy reads on at its offset, wherever the file's lines have gone.
CopyLine(r) ==
    /\ pc[r] = "copy" /\ off[r] < Size(cur[r])
    /\ copy' = [copy EXCEPT ![r] = @ \cup {base[cur[r]] + off[r] + 1}]
    /\ off' = [off EXCEPT ![r] = @ + 1]
    /\ UNCHANGED <<files, now, pc, todo, cur, ts, lastEnd, history>>

\* io.Copy meets the end of the file; the gzip and the temp file are closed.
CopyEnd(r) ==
    /\ pc[r] = "copy" /\ off[r] >= Size(cur[r])
    /\ pc' = [pc EXCEPT ![r] = "rename"]
    /\ UNCHANGED <<files, now, rotator, history>>

\* Bug: the file is truncated although the copy failed.
RotateFails_truncate(r) ==
    /\ env.faults /\ pc[r] \in {"copy", "rename"}
    /\ base' = [base EXCEPT ![cur[r]] = written[cur[r]]]
    /\ Continue(r)
    /\ UNCHANGED <<written, arch, unsynced, now, rotator, history>>

\* Opening, copying, closing or renaming fails: the temp file is removed.
RotateFails(r) ==
    /\ env.faults /\ pc[r] \in {"copy", "rename"}
    /\ Continue(r)
    /\ UNCHANGED <<files, now, rotator, history>>

\* os.Rename to <log>.<ts>.gz, over a file of that name.
Rename(r) ==
    /\ pc[r] = "rename"
    /\ arch' = [arch EXCEPT ![cur[r]] =
                  [t \in DOMAIN @ \cup {ts[r]} |-> IF t = ts[r] THEN copy[r] ELSE @[t]]]
    /\ unsynced' = [unsynced EXCEPT ![cur[r]] = @ \cup {ts[r]}]
    /\ pc' = [pc EXCEPT ![r] = "truncate"]
    /\ UNCHANGED <<written, base, now, rotator, history>>

\* os.Truncate of the source, whatever was appended since the copy.
Truncate(r) ==
    /\ pc[r] = "truncate"
    /\ base' = [base EXCEPT ![cur[r]] = written[cur[r]]]
    /\ pc' = [pc EXCEPT ![r] = "prune"]
    /\ UNCHANGED <<written, arch, unsynced, now, rotator, history>>

\* os.Truncate fails: the archive stays and nothing is pruned.
TruncateFails(r) ==
    /\ env.faults /\ pc[r] = "truncate"
    /\ Continue(r)
    /\ UNCHANGED <<files, now, rotator, history>>

\* matches[:len(matches)-keep], by name and so by age.
ToDelete(l) ==
    {t \in DOMAIN arch[l] : Cardinality({u \in DOMAIN arch[l] : u > t}) >= env.keep}

\* pruneRotations; a Remove that fails does not keep it from the others.
PruneRotations(r) ==
    /\ pc[r] = "prune"
    /\ LET l == cur[r] IN
       \E D \in SUBSET ToDelete(l) :
         /\ D = ToDelete(l) \/ env.faults
         /\ arch' = [arch EXCEPT ![l] = [t \in DOMAIN @ \ D |-> @[t]]]
         /\ unsynced' = [unsynced EXCEPT ![l] = @ \ D]
         /\ pruned' = [pruned EXCEPT ![l] = @ \cup UNION {arch[l][t] : t \in D}]
    /\ Continue(r)
    /\ UNCHANGED <<written, base, now, rotator, late>>

Crash(r) ==
    /\ env.faults /\ pc[r] # "idle"
    /\ pc' = [pc EXCEPT ![r] = "idle"]
    /\ lastEnd' = [lastEnd EXCEPT ![r] = now]
    /\ UNCHANGED <<files, now, todo, cur, ts, off, copy, history>>

-----------------------------------------------------------------------------
\* The kernel writes an archive's data back.
Writeback(l) ==
    /\ env.powerFails
    /\ \E t \in unsynced[l] : unsynced' = [unsynced EXCEPT ![l] = @ \ {t}]
    /\ UNCHANGED <<written, base, arch, now, pc, rotator, history>>

\* Names and sizes are journalled; the data of archives that was not written
\* back is lost.
PowerFail ==
    /\ env.powerFails
    /\ arch' = [l \in Logs |-> [t \in DOMAIN arch[l] |->
                                  IF t \in unsynced[l] THEN {} ELSE arch[l][t]]]
    /\ unsynced' = [l \in Logs |-> {}]
    /\ pc' = [r \in Rotators |-> "idle"]
    /\ lastEnd' = [r \in Rotators |-> now]
    /\ UNCHANGED <<written, base, now, todo, cur, ts, off, copy, history>>

Tick ==
    /\ now < env.seconds
    /\ now' = now + 1
    /\ UNCHANGED <<files, pc, rotator, history>>

RotatorStep(r) ==
    \/ Start(r) \/ Finish(r) \/ CopyLine(r) \/ CopyEnd(r) \/ RotateFails(r)
    \/ Rename(r) \/ Truncate(r) \/ TruncateFails(r) \/ PruneRotations(r) \/ Crash(r)
    \/ \E l \in Logs : Skip(r, l) \/ Rotate(r, l)

Next == /\ \/ Tick \/ PowerFail
           \/ \E r \in Rotators : RotatorStep(r)
           \/ \E l \in Logs : AppendLine(l) \/ Writeback(l)
        /\ UNCHANGED env

Spec == Init /\ [][Next]_vars

-----------------------------------------------------------------------------
\* One run of logrotate at a time, on a gateway that keeps its power.
Alone == ~env.powerFails /\ \A r, s \in env.rotators : r = s

Archived(l) == UNION {arch[l][t] : t \in DOMAIN arch[l]}

\* With one rotator, a line that is neither in the log nor in an archive was let
\* go by --keep or was appended between the end of its log's copy and the
\* truncation, whatever failed and wherever a rotator died.
LossOnlyInWindow ==
    Alone => \A l \in Logs :
        1..base[l] \subseteq Archived(l) \cup pruned[l] \cup late[l]
=============================================================================
