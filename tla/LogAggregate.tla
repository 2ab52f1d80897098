---------------------------- MODULE LogAggregate ----------------------------
(***************************************************************************)
(* `fleetctl log-aggregate': one goroutine per worker, at most             *)
(* MaxConcurrent of them at work, pulls the worker's *.jsonl files to the  *)
(* gateway, replaces the copies there, optionally compresses the files on  *)
(* the worker, and prunes copies that are too old.                         *)
(*                                                                         *)
(* A worker has one log, a set of lines, possibly among other logs.  Runs  *)
(* do not overlap (the agent starts one a day), and a compression that     *)
(* outlives its run ends before the next one begins; a run may die and     *)
(* leave a copy half written.                                              *)
(* Operators named A_xyz are plausible bugs of the definition A below them.*)
(***************************************************************************)
EXTENDS Naturals, FiniteSets

CONSTANTS
    Workers,        \* the entries of nodes.txt
    MaxLines,       \* bound: lines written on all workers
    MaxConcurrent   \* pulls at work at once

Lines == 1..MaxLines

VARIABLES
    written,    \* number of lines written so far
    live,       \* [Workers -> lines of the .jsonl file]
    gz,         \* [Workers -> lines of the .jsonl.gz file next to it]
    old,        \* workers whose log was last written KeepDays ago
    agg,        \* [Workers -> lines of the gateway's copy]
    aggOld,     \* workers whose copy is as old as that
    run,        \* "idle", "running" or "returned", and whether to rotate
    pull,       \* [Workers -> step, archive received, result, and (history) whether
                \*  tar failed on the worker's log unnoticed]
    due,        \* history: [Workers -> lines in the log when the run began]
    turns,      \* history: [Lines -> files that held it and were removed, up to 2]
    gzip,       \* [Workers -> the compression under way there: "none", "open" with
                \*  the earlier archive removed, "read" with the log compressed; and
                \*  whether a process has a log open that was unlinked]
    late        \* history: lines written after the compression had read the log and
                \* before it removed it, or to a log that was already unlinked

vars == <<written, live, gz, old, agg, aggOld, run, pull, due, turns, gzip, late>>
worker == <<written, live, gz, old, turns, gzip, late>>

Steps == {"idle", "start", "pull", "extract", "copy", "rotate", "rotating", "prune", "done"}
Idle == [at |-> "idle", blob |-> {}, blobOld |-> FALSE, ok |-> TRUE, hidden |-> FALSE]

TypeOK ==
    /\ written \in 0..MaxLines
    /\ live \in [Workers -> SUBSET Lines] /\ gz \in [Workers -> SUBSET Lines]
    /\ agg \in [Workers -> SUBSET Lines] /\ old \subseteq Workers /\ aggOld \subseteq Workers
    /\ run \in [at : {"idle", "running", "returned"}, rotate : BOOLEAN, ok : BOOLEAN]
    /\ pull \in [Workers -> [at : Steps, blob : SUBSET Lines, blobOld : BOOLEAN, ok : BOOLEAN,
                            hidden : BOOLEAN]]
    /\ due \in [Workers -> SUBSET Lines] /\ turns \in [Lines -> 0..2]
    /\ gzip \in [Workers -> [at : {"none", "open", "read"}, held : BOOLEAN]]
    /\ late \subseteq Lines

NoLines == [w \in Workers |-> {}]
NoRun == [at |-> "idle", rotate |-> FALSE, ok |-> TRUE]

Init ==
    /\ written = 0 /\ live = NoLines /\ gz = NoLines /\ old = {}
    /\ agg = NoLines /\ aggOld = {}
    /\ run = NoRun /\ pull = [w \in Workers |-> Idle]
    /\ due = NoLines /\ turns = [l \in Lines |-> 0]
    /\ gzip = [w \in Workers |-> [at |-> "none", held |-> FALSE]] /\ late = {}

At(w, step) == pull[w].at = step
Goto(w, step) == pull' = [pull EXCEPT ![w].at = step]
Fail(w) == pull' = [pull EXCEPT ![w] = [Idle EXCEPT !.at = "done", !.ok = FALSE]]

-----------------------------------------------------------------------------
Write(w) ==
    /\ written < MaxLines /\ written' = written + 1
    /\ live' = [live EXCEPT ![w] = @ \cup {written + 1}]
    /\ old' = old \ {w}
    /\ late' = IF gzip[w].at = "read" THEN late \cup {written + 1} ELSE late
    /\ UNCHANGED <<gz, agg, aggOld, run, pull, due, turns, gzip>>

\* log.Open keeps its descriptor: a process that had the log open when it was
\* compressed writes to the unlinked file.
WriteUnlinked(w) ==
    /\ gzip[w].held
    /\ written < MaxLines /\ written' = written + 1
    /\ late' = late \cup {written + 1}
    /\ UNCHANGED <<live, old, gz, agg, aggOld, run, pull, due, turns, gzip>>

\* KeepDays go by without a line.
Age(w) ==
    /\ old' = old \cup {w} /\ aggOld' = aggOld \cup {w}
    /\ run.at = "idle"
    /\ UNCHANGED <<written, live, gz, agg, run, pull, due, turns, gzip, late>>

-----------------------------------------------------------------------------
\* Run: a goroutine for every target, then wait for all of them.
Run ==
    /\ run.at = "idle" /\ \A w \in Workers : gzip[w].at = "none"
    /\ \E rotate \in BOOLEAN : run' = [at |-> "running", rotate |-> rotate, ok |-> TRUE]
    /\ pull' = [w \in Workers |-> [Idle EXCEPT !.at = "start"]]
    /\ due' = live
    /\ UNCHANGED worker /\ UNCHANGED <<agg, aggOld>>

Acquire(w) ==
    /\ At(w, "start")
    /\ Cardinality({v \in Workers : pull[v].at \notin {"idle", "start", "done"}}) < MaxConcurrent
    /\ Goto(w, "pull")
    /\ UNCHANGED worker /\ UNCHANGED <<agg, aggOld, run, due>>

\* The archive of the log as it is now.  No log file, no archive.
PullWhole(w) ==
    /\ At(w, "pull")
    /\ pull' = [pull EXCEPT ![w].at = IF live[w] = {} THEN "prune" ELSE "extract",
                            ![w].blob = live[w], ![w].blobOld = w \in old]
    /\ UNCHANGED worker /\ UNCHANGED <<agg, aggOld, run, due>>

\* tar fails on the log, and the pipe into gzip hides its exit status: the log is
\* missing from the archive (which may hold others, and then has the worker's
\* logs compressed), or is in it in part.
PullHidden(w) ==
    /\ At(w, "pull") /\ live[w] # {}
    /\ \/ \E others \in BOOLEAN :
              pull' = [pull EXCEPT ![w].at = IF others /\ run.rotate THEN "rotate" ELSE "prune",
                                   ![w].hidden = TRUE]
       \/ \E part \in SUBSET live[w] :
              pull' = [pull EXCEPT ![w].at = "extract", ![w].blob = part,
                                   ![w].blobOld = w \in old, ![w].hidden = TRUE]
    /\ UNCHANGED worker /\ UNCHANGED <<agg, aggOld, run, due>>

PullArchive(w) == PullWhole(w) \/ PullHidden(w)

\* extractTarGz opens the copy with O_TRUNC ...
Truncate(w) ==
    /\ At(w, "extract")
    /\ agg' = [agg EXCEPT ![w] = {}] /\ aggOld' = aggOld \ {w}
    /\ Goto(w, "copy")
    /\ UNCHANGED worker /\ UNCHANGED <<run, due>>

\* ... fills it and takes over the modification time.
CopyEntry(w) ==
    /\ At(w, "copy")
    /\ agg' = [agg EXCEPT ![w] = pull[w].blob]
    /\ aggOld' = IF pull[w].blobOld THEN aggOld \cup {w} ELSE aggOld
    /\ pull' = [pull EXCEPT ![w].at = IF run.rotate THEN "rotate" ELSE "prune",
                            ![w].blob = {}, ![w].blobOld = FALSE]
    /\ UNCHANGED worker /\ UNCHANGED <<run, due>>

\* gzip -f on the worker.  It removes an earlier archive ...
Rotate(w) ==
    /\ At(w, "rotate") /\ Goto(w, "rotating")
    /\ IF live[w] = {}
       THEN UNCHANGED <<gz, turns, gzip>>
       ELSE /\ gz' = [gz EXCEPT ![w] = {}]
            /\ gzip' = [gzip EXCEPT ![w].at = "open"]
            /\ turns' = [l \in Lines |-> IF l \in gz[w] \ live[w] /\ turns[l] < 2
                                         THEN turns[l] + 1 ELSE turns[l]]
    /\ UNCHANGED <<written, live, old, late, agg, aggOld, run, due>>

\* ... reads the log to its end (what was written since the pull goes along) ...
GzipRead_pulled(w) ==
    /\ gzip[w].at = "open" /\ gzip' = [gzip EXCEPT ![w].at = "read"]
    /\ gz' = [gz EXCEPT ![w] = agg[w]]
    /\ UNCHANGED <<written, live, old, turns, late, agg, aggOld, run, pull, due>>

GzipRead(w) ==
    /\ gzip[w].at = "open" /\ gzip' = [gzip EXCEPT ![w].at = "read"]
    /\ gz' = [gz EXCEPT ![w] = live[w]]
    /\ UNCHANGED <<written, live, old, turns, late, agg, aggOld, run, pull, due>>

\* ... and removes it, with what was written since; some process may have it open.
GzipUnlink(w) ==
    /\ gzip[w].at = "read"
    /\ \E open \in BOOLEAN :
           gzip' = [gzip EXCEPT ![w].at = "none", ![w].held = @ \/ open]
    /\ live' = [live EXCEPT ![w] = {}]
    /\ turns' = [l \in Lines |-> IF l \in live[w] /\ turns[l] < 2 THEN turns[l] + 1 ELSE turns[l]]
    /\ UNCHANGED <<written, gz, old, late, agg, aggOld, run, pull, due>>

\* It fails or is killed, the log left alone and a part of the new archive, or
\* nothing, in place of the earlier one; `; true' hides that, too.
GzipFails(w) ==
    /\ gzip[w].at # "none" /\ gzip' = [gzip EXCEPT ![w].at = "none"]
    /\ \E part \in SUBSET (IF gzip[w].at = "open" THEN live[w] ELSE gz[w]) :
           gz' = [gz EXCEPT ![w] = part]
    /\ UNCHANGED <<written, live, old, turns, late, agg, aggOld, run, pull, due>>

Rotated(w) ==
    /\ At(w, "rotating") /\ gzip[w].at = "none" /\ Goto(w, "prune")
    /\ UNCHANGED worker /\ UNCHANGED <<agg, aggOld, run, due>>

Prune(w) ==
    /\ At(w, "prune") /\ Goto(w, "done")
    /\ agg' = IF w \in aggOld THEN [agg EXCEPT ![w] = {}] ELSE agg
    /\ UNCHANGED worker /\ UNCHANGED <<aggOld, run, due>>

\* ssh, the archive, the copy, the rotation or the pruning fails: the other
\* workers go on, and so does a compression the session had started.  A copy that
\* fails is left partial.
PullFails_quiet(w) ==
    /\ pull[w].at \notin {"idle", "start", "done"} /\ Goto(w, "done")
    /\ UNCHANGED worker /\ UNCHANGED <<agg, aggOld, run, due>>

PullFails(w) ==
    /\ pull[w].at \notin {"idle", "start", "done"} /\ Fail(w)
    /\ IF At(w, "copy")
       THEN \E part \in SUBSET pull[w].blob : agg' = [agg EXCEPT ![w] = part]
       ELSE UNCHANGED agg
    /\ UNCHANGED worker /\ UNCHANGED <<aggOld, run, due>>

\* All goroutines are back: OK unless one of them failed.
Return ==
    /\ run.at = "running" /\ \A w \in Workers : At(w, "done")
    /\ run' = [run EXCEPT !.at = "returned", !.ok = \A w \in Workers : pull[w].ok]
    /\ UNCHANGED worker /\ UNCHANGED <<agg, aggOld, pull, due>>

\* The command reports and ends, or dies at any point.
End ==
    /\ run.at # "idle"
    /\ run' = NoRun /\ pull' = [w \in Workers |-> Idle] /\ due' = NoLines
    /\ UNCHANGED worker /\ UNCHANGED <<agg, aggOld>>

Next ==
    \/ Run \/ Return \/ End
    \/ \E w \in Workers :
           \/ Write(w) \/ WriteUnlinked(w) \/ Age(w)
           \/ Acquire(w) \/ PullArchive(w) \/ Truncate(w) \/ CopyEntry(w)
           \/ Rotate(w) \/ Rotated(w) \/ Prune(w) \/ PullFails(w)
           \/ GzipRead(w) \/ GzipUnlink(w) \/ GzipFails(w)

Spec == Init /\ [][Next]_vars

-----------------------------------------------------------------------------
\* A run that reports success has, for every worker, landed each line that was
\* in the log when the run began, unless the log is older than the retention,
\* in which case the copy is pulled and pruned at once, or tar failed on the
\* worker behind the pipe, which no exit status shows.
OKMeansPulled ==
    run.at = "returned" /\ run.ok =>
        \A w \in Workers :
            due[w] \subseteq agg[w] \/ (w \in aggOld /\ agg[w] = {}) \/ pull[w].hidden

\* Compressing after a pull keeps a line for one cycle: a line is on its worker
\* until two files that held it were removed, the log by a compression that
\* finished and the archive by the next one to begin, wherever runs fail or die
\* and whichever compressions fail.  Except for a line that arrived between a
\* compression's last read and its unlink, or through a descriptor of the
\* unlinked log.  (A line of which two files are gone may never have been pulled.)
SurvivesOneRotation ==
    \A l \in (1..written) \ late :
        turns[l] < 2 => \E w \in Workers : l \in live[w] \cup gz[w]
=============================================================================
