------------------------------ MODULE Backups ------------------------------
(***************************************************************************)
(* `fleetctl backup-worker' mirrors a worker's ~/.hermes into the          *)
(* gateway's with rsync; `fleetctl backup' takes a restic snapshot of the  *)
(* gateway's tree, mirror included, thins out old snapshots and records    *)
(* when it started in LAST_BACKUP.  Both run once a day, ten minutes       *)
(* apart, and whenever an operator runs them; no lock keeps two pulls, two *)
(* backups, or a pull and a backup apart.                                  *)
(*                                                                         *)
(* rsync and restic are external: rsync --delete first removes what the    *)
(* worker does not have, the marker .LAST_PULL included, and then rewrites *)
(* changed files in place; after an I/O error it skips the deletion, goes  *)
(* on, and fails at the end.  restic keeps the snapshot begun last; when it *)
(* could not read every file it saves what it has and exits 3.             *)
(* Operators named A_xyz are plausible bugs of the definition A below them.*)
(***************************************************************************)
EXTENDS Naturals, FiniteSets

CONSTANTS
    Runs,           \* processes running `fleetctl backup'
    Pullers,        \* processes running `fleetctl backup-worker'
    NumFiles,       \* files of the mirror, in rsync's order
    MaxVersion,     \* bound: changes of the gateway's own state
    MaxSnapshots    \* bound: snapshots begun

Files == 1..NumFiles
Versions == 0..MaxVersion
Never == MaxVersion + 1         \* LAST_BACKUP is missing

VARIABLES
    own,        \* version of the gateway's own state
    torn,       \* files of the mirror that are neither old nor new
    lastPull,   \* whether the mirror has a .LAST_PULL
    pull,       \* [Pullers -> step, next file, whether rsync met an I/O error]
    repo,       \* whether the restic repository is initialised
    snapshots,  \* set of [order begun, version, mirror]
    begun,      \* number of snapshots begun
    backup,     \* [Runs -> step, version at start, and the snapshot being taken]
    lastBackup, \* LAST_BACKUP, as the version at the time it gives
    doubt,      \* history: the rsync that began last overlapped another one, or
                \* kept the marker because of an I/O error
    cut         \* history: whether the last thinning out kept an incomplete snapshot

vars == <<own, torn, lastPull, pull, repo, snapshots, begun, backup, lastBackup, doubt, cut>>
mirror == <<torn, lastPull, pull, doubt>>

\* What a snapshot shows of the mirror: "marked" and whole, "torn" though
\* marked, or nothing to rely on: unmarked, in doubt, or a pull overlapped it.
Mirrors == {"marked", "torn", "none"}
Snapshots == [n : 0..MaxSnapshots, own : Versions, mirror : Mirrors, whole : BOOLEAN]
NoSnapshot == [n |-> 0, own |-> 0, mirror |-> "none", whole |-> TRUE]
NoPull == [at |-> "idle", next |-> 1, io |-> FALSE]
Idle == [at |-> "idle", start |-> 0, snap |-> NoSnapshot]

TypeOK ==
    /\ own \in Versions /\ torn \subseteq Files /\ lastPull \in BOOLEAN
    /\ pull \in [Pullers -> [at : {"idle", "rsync", "mark"}, next : Files, io : BOOLEAN]]
    /\ doubt \in BOOLEAN /\ cut \in BOOLEAN
    /\ repo \in BOOLEAN /\ snapshots \subseteq Snapshots /\ begun \in 0..MaxSnapshots
    /\ backup \in [Runs -> [at : {"idle", "ready", "scan", "commit", "forget", "mark"},
                            start : Versions, snap : Snapshots]]
    /\ lastBackup \in 0..Never

Init ==
    /\ own = 0 /\ torn = {} /\ lastPull = FALSE
    /\ pull = [p \in Pullers |-> NoPull] /\ doubt = FALSE
    /\ repo = FALSE /\ snapshots = {} /\ begun = 0
    /\ backup = [b \in Runs |-> Idle]
    /\ lastBackup = Never /\ cut = FALSE

At(b, step) == backup[b].at = step

-----------------------------------------------------------------------------
\* The gateway goes on working while it is backed up.
Change ==
    /\ own < MaxVersion /\ own' = own + 1
    /\ UNCHANGED mirror /\ UNCHANGED <<repo, snapshots, begun, backup, lastBackup, cut>>

-----------------------------------------------------------------------------
\* Snapshots being taken meanwhile see the mirror change under them.
Overlap ==
    backup' = [b \in Runs |->
                  IF At(b, "scan") \/ At(b, "commit")
                  THEN [backup[b] EXCEPT !.snap.mirror = "none"] ELSE backup[b]]

\* backup-worker starts rsync for the worker, or fails before.
pullOneWorker_keep(p) ==
    /\ pull[p].at = "idle"
    /\ \E io \in BOOLEAN :
          /\ pull' = [pull EXCEPT ![p] = [at |-> "rsync", next |-> 1, io |-> io]]
          /\ doubt' = (io \/ \E q \in Pullers \ {p} : pull[q].at # "idle")
    /\ Overlap
    /\ UNCHANGED <<own, torn, lastPull, repo, snapshots, begun, lastBackup, cut>>

pullOneWorker(p) ==
    /\ pull[p].at = "idle"
    /\ \E io \in BOOLEAN :
          /\ pull' = [pull EXCEPT ![p] = [at |-> "rsync", next |-> 1, io |-> io]]
          /\ lastPull' = (io /\ lastPull)
          /\ doubt' = (io \/ \E q \in Pullers \ {p} : pull[q].at # "idle")
    /\ Overlap
    /\ UNCHANGED <<own, torn, repo, snapshots, begun, lastBackup, cut>>

\* rsync --inplace rewrites the next file, if it changed, ...
RewriteFile(p) ==
    /\ pull[p].at = "rsync" /\ pull[p].next \notin torn
    /\ torn' = torn \cup {pull[p].next}
    /\ Overlap
    /\ UNCHANGED <<own, lastPull, pull, doubt, repo, snapshots, begun, lastBackup, cut>>

\* ... and gets to its end, repairing what an earlier run left; after the last
\* file it exits 0, or 23 if there was an I/O error.
FinishFile(p) ==
    /\ pull[p].at = "rsync"
    /\ torn' = torn \ {pull[p].next}
    /\ pull' = [pull EXCEPT ![p] =
                   IF pull[p].next # NumFiles THEN [pull[p] EXCEPT !.next = @ + 1]
                   ELSE IF pull[p].io THEN NoPull
                   ELSE [NoPull EXCEPT !.at = "mark"]]
    /\ Overlap
    /\ UNCHANGED <<own, lastPull, doubt, repo, snapshots, begun, lastBackup, cut>>

\* A successful pull writes .LAST_PULL (an error there is ignored).
MarkPull(p) ==
    /\ pull[p].at = "mark"
    /\ lastPull' \in {lastPull, TRUE}
    /\ pull' = [pull EXCEPT ![p] = NoPull]
    /\ Overlap
    /\ UNCHANGED <<own, torn, doubt, repo, snapshots, begun, lastBackup, cut>>

\* rsync fails, or the process dies: the failure is counted, the next worker
\* is pulled, and what was rewritten stays.
PullFails(p) ==
    /\ pull[p].at # "idle"
    /\ pull' = [pull EXCEPT ![p] = NoPull]
    /\ Overlap
    /\ UNCHANGED <<own, torn, lastPull, doubt, repo, snapshots, begun, lastBackup, cut>>

-----------------------------------------------------------------------------
\* ensureResticRepo: a probe that fails, for whatever reason, is followed by
\* an init, which is content with a repository that is there already.
ensureResticRepo(b) ==
    /\ At(b, "idle")
    /\ repo' = TRUE
    /\ backup' = [backup EXCEPT ![b].at = "ready"]
    /\ UNCHANGED mirror /\ UNCHANGED <<own, snapshots, begun, lastBackup, cut>>

\* start := time.Now(), and restic backup begins.
StartBackup(b) ==
    /\ At(b, "ready") /\ begun < MaxSnapshots
    /\ begun' = begun + 1
    /\ backup' = [backup EXCEPT ![b] =
                     [at |-> "scan", start |-> own,
                      snap |-> [n |-> begun + 1, own |-> 0, whole |-> TRUE,
                                mirror |-> IF \E p \in Pullers : pull[p].at # "idle"
                                           THEN "none" ELSE "marked"]]]
    /\ UNCHANGED mirror /\ UNCHANGED <<own, repo, snapshots, lastBackup, cut>>

\* restic reads the tree at some moment of its run, ...
Scan(b) ==
    /\ At(b, "scan")
    /\ backup' = [backup EXCEPT ![b].at = "commit", ![b].snap.own = own,
                     ![b].snap.mirror = IF @ = "none" \/ ~lastPull \/ doubt THEN "none"
                                        ELSE IF torn = {} THEN "marked" ELSE "torn"]
    /\ UNCHANGED mirror /\ UNCHANGED <<own, repo, snapshots, begun, lastBackup, cut>>

\* ... and saves the snapshot; a dry run saves nothing and records nothing.
Commit(b) ==
    /\ At(b, "commit")
    /\ \/ /\ snapshots' = snapshots \cup {backup[b].snap}
          /\ backup' = [backup EXCEPT ![b].at = "forget", ![b].snap = NoSnapshot]
       \/ /\ backup' = [backup EXCEPT ![b] = Idle] /\ UNCHANGED snapshots
    /\ UNCHANGED mirror /\ UNCHANGED <<own, repo, begun, lastBackup, cut>>

\* restic forget --prune keeps one snapshot a day, the one begun last, and
\* others of earlier days; its failure is only a warning.
runResticForget(b) ==
    /\ At(b, "forget")
    /\ \/ UNCHANGED <<snapshots, cut>>
       \/ \E s \in snapshots :
             /\ \A t \in snapshots : t.n <= s.n
             /\ snapshots' = {s} /\ cut' = ~s.whole
    /\ backup' = [backup EXCEPT ![b].at = "mark"]
    /\ UNCHANGED mirror /\ UNCHANGED <<own, repo, begun, lastBackup>>

\* LAST_BACKUP gets the time the backup started.
writeLastBackupMarker_now(b) ==
    /\ At(b, "mark")
    /\ lastBackup' \in {lastBackup, own}
    /\ backup' = [backup EXCEPT ![b] = Idle]
    /\ UNCHANGED mirror /\ UNCHANGED <<own, repo, snapshots, begun, cut>>

writeLastBackupMarker(b) ==
    /\ At(b, "mark")
    /\ lastBackup' \in {lastBackup, backup[b].start}
    /\ backup' = [backup EXCEPT ![b] = Idle]
    /\ UNCHANGED mirror /\ UNCHANGED <<own, repo, snapshots, begun, cut>>

\* restic fails (with exit code 3 it has saved a snapshot without the files it
\* could not read), or the process dies.
BackupFails(b) ==
    /\ ~At(b, "idle")
    /\ backup' = [backup EXCEPT ![b] = Idle]
    /\ \/ UNCHANGED snapshots
       \/ /\ At(b, "commit")
          /\ snapshots' = snapshots \cup {[backup[b].snap EXCEPT !.whole = FALSE]}
    /\ UNCHANGED mirror /\ UNCHANGED <<own, repo, begun, lastBackup, cut>>

Next ==
    \/ Change
    \/ \E p \in Pullers :
           \/ pullOneWorker(p) \/ RewriteFile(p) \/ FinishFile(p) \/ MarkPull(p) \/ PullFails(p)
    \/ \E b \in Runs :
           \/ ensureResticRepo(b) \/ StartBackup(b) \/ Scan(b) \/ Commit(b)
           \/ runResticForget(b) \/ writeLastBackupMarker(b) \/ BackupFails(b)

Spec == Init /\ [][Next]_vars

-----------------------------------------------------------------------------
\* The time in LAST_BACKUP can be relied on: the repository holds a snapshot
\* with every change the gateway had made by then, although the gateway keeps
\* changing under restic, runs overlap and end out of order, and each of them
\* thins out the snapshots of the others.  That snapshot is complete unless a
\* thinning out has kept an incomplete one, begun later, in place of it.
BackupCovers ==
    lastBackup # Never => \E s \in snapshots : s.own >= lastBackup /\ (s.whole \/ cut)

\* A mirror that carries .LAST_PULL is whole, in the gateway's tree and in
\* every complete snapshot no pull overlapped, after any number of failed pulls:
\* rsync rewrites files in place, but only after it has removed the marker.
\* That is in doubt after an rsync that began beside another one, or that an I/O
\* error kept from removing the marker, until the next one begins.
\* (Nothing but ten minutes keeps a pull and a snapshot apart.)
MarkedMirrorIsWhole ==
    /\ lastPull /\ ~doubt => torn = {}
    /\ \A s \in snapshots : s.whole => s.mirror # "torn"
=============================================================================
