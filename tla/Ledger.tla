------------------------------- MODULE Ledger -------------------------------
(***************************************************************************)
(* One task's ledger file: internal/ledger Append, step by step down to    *)
(* the disk, Read/ReadSince, and the fleet.LedgerTail poller that follows  *)
(* the file with a timestamp cursor.                                       *)
(*                                                                         *)
(* Writers are processes or goroutines appending to the same task id.      *)
(* Signatures verify when the writers share the key of the directory;       *)
(* here a line is either whole or torn.                                    *)
(*                                                                         *)
(* Operators named A_xyz are plausible bugs of the action A below them.    *)
(***************************************************************************)
EXTENDS Naturals, Sequences, FiniteSets

CONSTANTS
    Writers,
    MaxTs,          \* bound on the clock, hence on the entries stamped
    Envs            \* the environments a behaviour may run in

\* An environment says how many appenders the task has, how often the power
\* may fail, whether a process may die in an Append, and whether writes can be
\* short (disk full) and fsync can fail.
EnvRecords == [writers : SUBSET Writers, powerLosses : Nat, crashes : BOOLEAN,
               diskFails : BOOLEAN]

ASSUME LedgerAssumption == MaxTs \in Nat /\ Envs \subseteq EnvRecords

VARIABLES
    env,        \* the environment, chosen once
    pc,         \* [Writers -> PCs]
    ts,         \* [Writers -> 0..MaxTs]: timestamp of the entry being appended
    first,      \* [Writers -> BOOLEAN]: firstWrite
    exists,     \* is <task>.jsonl there?
    file,       \* its fragments: [ts, whole]; a torn one does not parse, and
                \* neither does the line it makes with the fragment after it
    onDisk,     \* how many of them are on the platter
    dirent,     \* has the directory entry reached the platter?
    acked,      \* timestamps of the entries whose Append returned nil
    now,        \* next clock reading; two readings never coincide
    lost,       \* did a power loss drop part of the file?
    orphan,     \* history: the file's first appender died before it had seen to
                \* the directory entry
    unsafe,     \* history: timestamps of the lines written while orphan, or
                \* behind a torn fragment
    cursor,     \* the poller's cursor
    seen,       \* timestamps it was given, in order
    losses

vars == <<env, pc, ts, first, exists, file, onDisk, dirent, acked, now, lost,
          orphan, unsafe, cursor, seen, losses>>

DiskFails == env.diskFails

PCs == {"idle", "stat", "write", "sync", "dirsync"}
Fragments == [ts : 1..MaxTs, whole : BOOLEAN]

TypeOK ==
    /\ env \in Envs
    /\ pc \in [Writers -> PCs]
    /\ ts \in [Writers -> 0..MaxTs]
    /\ first \in [Writers -> BOOLEAN]
    /\ exists \in BOOLEAN /\ dirent \in BOOLEAN /\ lost \in BOOLEAN
    /\ orphan \in BOOLEAN /\ unsafe \subseteq 1..MaxTs
    /\ file \in Seq(Fragments)
    /\ onDisk \in 0..Len(file)
    /\ acked \subseteq 1..MaxTs
    /\ now \in 1..(MaxTs + 1)
    /\ cursor \in 0..MaxTs
    /\ seen \in Seq(1..MaxTs)
    /\ losses \in 0..env.powerLosses

Init ==
    /\ env \in Envs
    /\ pc = [w \in Writers |-> "idle"]
    /\ ts = [w \in Writers |-> 0]
    /\ first = [w \in Writers |-> FALSE]
    /\ exists = FALSE /\ dirent = FALSE /\ lost = FALSE
    /\ orphan = FALSE /\ unsafe = {}
    /\ file = <<>>
    /\ onDisk = 0
    /\ acked = {}
    /\ now = 1
    /\ cursor = 0
    /\ seen = <<>>
    /\ losses = 0

Goto(w, l) == pc' = [pc EXCEPT ![w] = l]
pollVars == <<cursor, seen>>
diskVars == <<exists, file, onDisk, dirent>>
history == <<lost, orphan, unsafe>>

-----------------------------------------------------------------------------
\* Append: the entry gets its Ts and its signature before the file is touched.
Stamp(w) ==
    /\ pc[w] = "idle"
    /\ now <= MaxTs
    /\ ts' = [ts EXCEPT ![w] = now]
    /\ now' = now + 1
    /\ Goto(w, "stat")
    /\ UNCHANGED <<first, diskVars, acked, history, pollVars, losses>>

\* os.Stat decides whether this call will fsync the directory.
StatFile(w) ==
    /\ pc[w] = "stat"
    /\ first' = [first EXCEPT ![w] = ~exists]
    /\ Goto(w, "write")
    /\ UNCHANGED <<ts, diskVars, acked, now, history, pollVars, losses>>

TornTail == file # <<>> /\ ~file[Len(file)].whole

\* One O_APPEND write.  A short write leaves its bytes behind and returns the
\* error.
WriteLine(w) ==
    /\ pc[w] = "write"
    /\ exists' = TRUE
    /\ \E whole \in {TRUE, ~DiskFails} :
         /\ file' = Append(file, [ts |-> ts[w], whole |-> whole])
         /\ Goto(w, IF whole THEN "sync" ELSE "idle")
    /\ unsafe' = IF orphan \/ TornTail THEN unsafe \cup {ts[w]} ELSE unsafe
    /\ UNCHANGED <<ts, first, onDisk, dirent, acked, now, lost, orphan, pollVars, losses>>

\* Bug: the file is closed without fsync.
SyncFile_skip(w) ==
    /\ pc[w] = "sync"
    /\ Goto(w, IF first[w] THEN "dirsync" ELSE "idle")
    /\ acked' = IF first[w] THEN acked ELSE acked \cup {ts[w]}
    /\ UNCHANGED <<ts, first, exists, file, onDisk, dirent, now, history, pollVars, losses>>

\* fsync covers everything written so far, by anybody.  Its failure is
\* returned although the line is in the file.
SyncFile(w) ==
    /\ pc[w] = "sync"
    /\ \/ /\ onDisk' = Len(file)
          /\ Goto(w, IF first[w] THEN "dirsync" ELSE "idle")
          /\ acked' = IF first[w] THEN acked ELSE acked \cup {ts[w]}
       \/ /\ DiskFails
          /\ Goto(w, "idle")
          /\ UNCHANGED <<onDisk, acked>>
    /\ UNCHANGED <<ts, first, exists, file, dirent, now, history, pollVars, losses>>

\* Only the call that found no file fsyncs the directory, and ignores whether
\* that worked.
SyncDir(w) ==
    /\ pc[w] = "dirsync"
    /\ dirent' \in {TRUE, dirent \/ ~DiskFails}
    /\ acked' = acked \cup {ts[w]}
    /\ Goto(w, "idle")
    /\ UNCHANGED <<ts, first, exists, file, onDisk, now, history, pollVars, losses>>

\* The process dies in the middle of an Append, perhaps when it has created the
\* file and written nothing; the page cache lives on.  The next appender finds
\* the file and leaves the directory alone.
Crash(w) ==
    /\ env.crashes /\ pc[w] # "idle"
    /\ Goto(w, "idle")
    /\ exists' \in {exists, exists \/ pc[w] = "write"}
    /\ orphan' = (orphan \/ (exists' /\ first[w] /\ pc[w] # "stat"))
    /\ UNCHANGED <<ts, first, file, onDisk, dirent, acked, now, lost, unsafe, pollVars, losses>>

\* Power loss: what was not fsynced is gone, except that a prefix of it (the
\* last line of which may be torn) can have reached the platter; without its
\* directory entry the whole file is gone.
PowerLoss ==
    /\ losses < env.powerLosses
    /\ losses' = losses + 1
    /\ pc' = [w \in Writers |-> "idle"]
    /\ \E keep \in onDisk..Len(file), torn \in BOOLEAN, linked \in {TRUE, dirent} :
         LET whole == IF linked THEN SubSeq(file, 1, keep) ELSE <<>>
         IN  /\ exists' = (exists /\ linked)
             /\ file' = IF torn /\ linked /\ keep < Len(file)
                        THEN Append(whole, [file[keep + 1] EXCEPT !.whole = FALSE])
                        ELSE whole
             /\ lost' = (lost \/ Len(file') < Len(file))
             /\ onDisk' = Len(file')
             /\ dirent' = (dirent \/ (linked /\ exists))
    /\ orphan' = FALSE
    /\ UNCHANGED <<ts, first, acked, now, unsafe, pollVars>>

-----------------------------------------------------------------------------
\* Read fails as a whole on the first line that does not parse.
Readable == exists /\ \A n \in DOMAIN file : file[n].whole

\* Bug: entries at the cursor are returned again.
ReadSince_inclusive(after) ==
    LET since[n \in 0..Len(file)] ==
            IF n = 0 THEN <<>>
            ELSE IF file[n].ts >= after THEN Append(since[n - 1], file[n])
            ELSE since[n - 1]
    IN  since[Len(file)]

\* ReadSince: the entries strictly after the cursor, in file order.
ReadSince(after) ==
    LET since[n \in 0..Len(file)] ==
            IF n = 0 THEN <<>>
            ELSE IF file[n].ts > after THEN Append(since[n - 1], file[n])
            ELSE since[n - 1]
    IN  since[Len(file)]

\* Bug: the cursor moves to the time of the poll.
Poll_clockCursor ==
    LET got == ReadSince(cursor) IN
    /\ Readable
    /\ cursor' = IF now > 1 THEN now - 1 ELSE 0
    /\ seen' = seen \o [n \in DOMAIN got |-> got[n].ts]
    /\ UNCHANGED <<pc, ts, first, diskVars, acked, now, history, losses>>

\* LedgerTailHandler.Handle, with the cursor the client echoes back: the Ts
\* of the last entry returned.  A missing file is an empty answer and an
\* unreadable one an error; neither moves the cursor.
Poll ==
    LET got == ReadSince(cursor) IN
    /\ Readable
    /\ got # <<>>
    /\ cursor' = got[Len(got)].ts
    /\ seen' = seen \o [n \in DOMAIN got |-> got[n].ts]
    /\ UNCHANGED <<pc, ts, first, diskVars, acked, now, history, losses>>

AppendStep(w) == StatFile(w) \/ WriteLine(w) \/ SyncFile(w) \/ SyncDir(w)

Next ==
    /\ \/ \E w \in env.writers : Stamp(w) \/ AppendStep(w) \/ Crash(w)
       \/ PowerLoss
       \/ Poll
    /\ UNCHANGED env

Spec == Init /\ [][Next]_vars

\* An Append that has begun goes on; the client keeps polling.
FairSpec ==
    /\ Spec
    /\ \A w \in Writers : WF_vars(AppendStep(w) /\ UNCHANGED env)
    /\ WF_vars(Poll /\ UNCHANGED env)

-----------------------------------------------------------------------------
\* The line of entry t parses: it is whole and follows a newline.
Decodable(t) == \E n \in DOMAIN file :
                    file[n].ts = t /\ file[n].whole /\ (n = 1 \/ file[n - 1].whole)
Seen(t) == \E m \in DOMAIN seen : seen[m] = t

\* An entry whose Append returned nil survives crashes and power losses as a line
\* that parses, on a disk whose writes and fsyncs do not fail.  Two kinds of
\* acknowledged entry are not safe, and no others: Append writes behind a torn
\* fragment without a newline, and it never fsyncs the directory for a file
\* whose first appender died.
AckedSurvives == ~DiskFails => \A t \in acked \ unsafe : Decodable(t)

\* The poller gets every entry once and misses none the cursor has passed.
TailExactlyOnce ==
    /\ \A m, n \in DOMAIN seen : seen[m] = seen[n] => m = n
    /\ \A n \in DOMAIN file : file[n].ts <= cursor => Seen(file[n].ts)

\* What is in the file reaches the client that keeps polling, the terminal
\* entry it waits for in particular, unless a torn line makes the file
\* unreadable or a power loss takes entries back.
TailDelivers ==
    \A t \in 1..MaxTs : Decodable(t) ~> (Seen(t) \/ lost \/ ~Readable)
=============================================================================
