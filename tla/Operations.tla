----------------------------- MODULE Operations -----------------------------
(***************************************************************************)
(* The operator commands, the SSH client and the snapshot cache side by    *)
(* side.  Each has a module of its own and shares no state with the        *)
(* others, so a behaviour is about one subsystem, which the initial state  *)
(* picks, and the subsystem's variables are the first of x1 .. x12.        *)
(***************************************************************************)
EXTENDS Integers, Sequences

CONSTANTS
    Processes,      \* processes, operators, workers: whoever acts concurrently
    Keys,           \* signing keys and host keys
    Plists,         \* renderings of a plist
    Whats, JobEnvs, \* schedules with their commands, environments of scheduled jobs
    Inputs,         \* what a pipeline step can be given
    Ids,            \* pairings
    MaxPublished,   \* bound: snapshots the publisher builds
    NumFiles, MaxContent, BadNames, NumSkills, MaxEdits,
                    \* files of a bundle or mirror, their contents, refused names, skills, edits
    NumHosts, MaxLate,
                    \* targets of a command, remote processes that outlive their session
    Callers, TTL, MaxBuilds, Refreshes, Leavers,
                    \* who asks for a snapshot, how, and who may go away
    MaxLines, MaxConcurrent,
                    \* bound: lines of a worker's log; --max-concurrent
    MaxVersion, MaxSnapshots,
                    \* bounds: versions of the backed-up files, snapshots
    NumChecks, NumShell, NumSteps, MaxParallel,
                    \* checks, those that need a shell, steps of each, goroutines
    Titles, Semvers, Refs, ListLimit
                    \* releases, pins, other refs, releases listed

\* The bounds are numbers, and no datum is one of the words the modules use for
\* "there is none".
ASSUME OperationsAssumption ==
    /\ "none" \notin Whats \cup Ids \cup Callers
    /\ Inputs # {} /\ Inputs \cap {"absent", "partial", "none"} = {}
    /\ NumHosts \in Nat \ {0} /\ NumChecks \in Nat \ {0} /\ NumSteps \in Nat
    /\ TTL \in Nat /\ MaxBuilds \in Nat /\ MaxLines \in Nat
    /\ MaxPublished \in Nat /\ MaxContent \in Nat \ {0} /\ NumSkills \in Nat /\ MaxEdits \in Nat
    /\ Keys \cap {"absent", "torn"} = {}
    /\ NumFiles \in Nat \ {0} /\ MaxVersion \in Nat /\ MaxSnapshots \in Nat
    /\ Titles \in Seq([pin : Semvers, texts : SUBSET Semvers]) /\ "" \notin Semvers

VARIABLES which, x1, x2, x3, x4, x5, x6, x7, x8, x9, x10, x11, x12

vars == <<which, x1, x2, x3, x4, x5, x6, x7, x8, x9, x10, x11, x12>>

A == INSTANCE Agents WITH
    Operators <- Processes, Versions <- Plists, agent <- x1, plist <- x2,
    job <- x3, op <- x4, result <- x5, intent <- x6, alone <- x7, bootoutLost <- x8
C == INSTANCE Cronjobs WITH
    Clients <- Processes, table <- x1, call <- x2, shown <- x3, promised <- x4,
    serial <- x5
M == INSTANCE Markers WITH
    Runs <- Processes, input <- x1, marker <- x2, tmp <- x3, run <- x4,
    done <- x5, slipped <- x6, skipped <- x7
P == INSTANCE Pairing WITH
    Procs <- Processes, file <- x1, act <- x2, outcome <- x3, created <- x4,
    revoking <- x5, revoked <- x6
U == INSTANCE Publisher WITH
    MaxSnapshots <- MaxPublished, out <- x1, tmp <- x2, cloud <- x3, late <- x4,
    built <- x5, pub <- x6, failures <- x7, together <- x8, cached <- x9, held <- x10
G == INSTANCE ConfigSync WITH
    priv <- x1, pub <- x2, init <- x3, src <- x4, bundle <- x5, pack <- x6,
    apply <- x7, dest <- x8, verdict <- x9, signed <- x10, overlap <- x11,
    disturbed <- x12
K == INSTANCE SkillSync WITH
    Pullers <- Processes, repo <- x1, signing <- x2, tree <- x3, pull <- x4,
    skills <- x5, signed <- x6, crowded <- x7, edits <- x8
F == INSTANCE FanOut WITH
    Operators <- Processes, setting <- x1, has <- x2, brewless <- x3, op <- x4,
    late <- x5, met <- x6
S == INSTANCE SSHClient WITH
    Dialers <- Processes, file <- x1, hostKey <- x2, dial <- x3,
    agentConn <- x4, conn <- x5, keepalive <- x6, accepted <- x7, crowded <- x8
H == INSTANCE HealthSnapshot WITH
    pc <- x1, force <- x2, gone <- x3, mutex <- x4, cached <- x5, comp <- x6,
    got <- x7, floor <- x8, newest <- x9, builds <- x10
L == INSTANCE LogAggregate WITH
    Workers <- Processes, written <- x1, live <- x2, gz <- x3, old <- x4,
    agg <- x5, aggOld <- x6, run <- x7, pull <- x8, due <- x9, turns <- x10,
    gzip <- x11, late <- x12
B == INSTANCE Backups WITH
    Runs <- Processes, Pullers <- Processes, own <- x1, torn <- x2, lastPull <- x3,
    pull <- x4, repo <- x5, snapshots <- x6, begun <- x7, backup <- x8,
    lastBackup <- x9, doubt <- x10, cut <- x11
D == INSTANCE Gates WITH
    line <- x1, at <- x2, next <- x3, step <- x4, task <- x5, result <- x6,
    exit <- x7, summary <- x8, good <- x9, missed <- x10
E == INSTANCE Releases WITH
    Procs <- Processes, Others <- Refs, published <- x1, cache <- x2,
    proc <- x3, answer <- x4, torn <- x5

Init ==
    \/ which = "agents" /\ A!Init /\ x9 = 0 /\ x10 = 0 /\ x11 = 0 /\ x12 = 0
    \/ /\ which = "cronjobs" /\ C!Init
       /\ x6 = 0 /\ x7 = 0 /\ x8 = 0 /\ x9 = 0 /\ x10 = 0 /\ x11 = 0 /\ x12 = 0
    \/ /\ which = "markers" /\ M!Init
       /\ x8 = 0 /\ x9 = 0 /\ x10 = 0 /\ x11 = 0 /\ x12 = 0
    \/ /\ which = "pairing" /\ P!Init
       /\ x7 = 0 /\ x8 = 0 /\ x9 = 0 /\ x10 = 0 /\ x11 = 0 /\ x12 = 0
    \/ which = "publisher" /\ U!Init /\ x11 = 0 /\ x12 = 0
    \/ which = "configsync" /\ G!Init
    \/ /\ which = "skillsync" /\ K!Init
       /\ x9 = 0 /\ x10 = 0 /\ x11 = 0 /\ x12 = 0
    \/ /\ which = "fanout" /\ F!Init
       /\ x7 = 0 /\ x8 = 0 /\ x9 = 0 /\ x10 = 0 /\ x11 = 0 /\ x12 = 0
    \/ /\ which = "sshclient" /\ S!Init
       /\ x9 = 0 /\ x10 = 0 /\ x11 = 0 /\ x12 = 0
    \/ which = "health" /\ H!Init /\ x11 = 0 /\ x12 = 0
    \/ which = "logaggregate" /\ L!Init
    \/ which = "backups" /\ B!Init /\ x12 = 0
    \/ which = "gates" /\ D!Init /\ x11 = 0 /\ x12 = 0
    \/ /\ which = "releases" /\ E!Init
       /\ x6 = 0 /\ x7 = 0 /\ x8 = 0 /\ x9 = 0 /\ x10 = 0 /\ x11 = 0 /\ x12 = 0

Next ==
    \/ /\ which = "agents" /\ A!Next
       /\ UNCHANGED <<which, x9, x10, x11, x12>>
    \/ /\ which = "cronjobs" /\ C!Next
       /\ UNCHANGED <<which, x6, x7, x8, x9, x10, x11, x12>>
    \/ /\ which = "markers" /\ M!Next
       /\ UNCHANGED <<which, x8, x9, x10, x11, x12>>
    \/ /\ which = "pairing" /\ P!Next
       /\ UNCHANGED <<which, x7, x8, x9, x10, x11, x12>>
    \/ /\ which = "publisher" /\ U!Next
       /\ UNCHANGED <<which, x11, x12>>
    \/ /\ which = "configsync" /\ G!Next
       /\ UNCHANGED which
    \/ /\ which = "skillsync" /\ K!Next
       /\ UNCHANGED <<which, x9, x10, x11, x12>>
    \/ /\ which = "fanout" /\ F!Next
       /\ UNCHANGED <<which, x7, x8, x9, x10, x11, x12>>
    \/ /\ which = "sshclient" /\ S!Next
       /\ UNCHANGED <<which, x9, x10, x11, x12>>
    \/ /\ which = "health" /\ H!Next
       /\ UNCHANGED <<which, x11, x12>>
    \/ /\ which = "logaggregate" /\ L!Next
       /\ UNCHANGED which
    \/ /\ which = "backups" /\ B!Next
       /\ UNCHANGED <<which, x12>>
    \/ /\ which = "gates" /\ D!Next
       /\ UNCHANGED <<which, x11, x12>>
    \/ /\ which = "releases" /\ E!Next
       /\ UNCHANGED <<which, x6, x7, x8, x9, x10, x11, x12>>

Spec == Init /\ [][Next]_vars

-----------------------------------------------------------------------------
\* What an install or uninstall of a LaunchAgent that ran alone reported holds
\* on disk and in launchd, whatever failed commands left behind (Agents).
ReportedIsInstalled == which = "agents" => A!ReportedIsInstalled

\* A cronjob install or remove that ran alone and reported success left the
\* schedule and command it was given, also after an interrupted update (Cronjobs).
PromisedIsScheduled == which = "cronjobs" => C!PromisedIsScheduled

\* A pipeline step is skipped only for an input it was completed with (or one
\* that slipped in before `markers hash' read it), however runs overlap or die
\* (Markers).
SkipMeansDone == which = "markers" => M!SkipMeansDone

\* A pairing is good from Create to the first Revoke, and never after a Revoke
\* that returned nil, whatever dies between truncating and writing (Pairing).
TokenHonoured == which = "pairing" => P!TokenHonoured

\* While the publisher's loop and --once take turns, readers see whole snapshots
\* that go back only to the one the loop's handler still keeps, and the cloud
\* holds only what the file has held (Publisher).
ReadersGoForward == [][which = "publisher" => U!ReadersGoForward]_vars

\* config-sync's verdict is right both ways: what it applies is what was signed,
\* while the bundle changes under it, and it rejects a bundle only for an edit
\* during pack, a pack that was cut short or under way, damage, two overlapping
\* runs of init, or a file name that pack signs and verify refuses (ConfigSync).
VerdictIsRight ==
    [][which = "configsync" => G!AppliedIsSigned /\ G!RejectedForCause]_vars

\* With one pull at a time, skill-sync leaves only contents some signed manifest
\* lists; when it has copied all, every skill of the verified manifest is as listed,
\* and what is not listed is as it was (SkillSync).
SkillsAreSigned == [][which = "skillsync" => K!SkillsAreSigned]_vars

\* A delegate, update, screensharing or brew command that exits 0 had every target
\* in the promised state at some moment of its visit (FanOut).
SuccessIsTrue == which = "fanout" => F!SuccessIsTrue

\* Dials that do not overlap accept no second key for a host (SSHClient).
FirstKeyOnly == which = "sshclient" => S!FirstKeyOnly

\* A failed dial and a closed client hold no connection, to the host or to the
\* SSH agent, whichever step failed (SSHClient).
NothingLeaks == which = "sshclient" => S!NothingLeaks

\* A call of fleet.HealthSnapshot never returns a snapshot older than one that
\* had been returned before it began (HealthSnapshot).
MonotonicReads == which = "health" => H!MonotonicReads

\* A log-aggregate run that succeeded landed every line that was in a worker's
\* log when it began, unless tar failed there behind the pipe (LogAggregate).
OKMeansPulled == which = "logaggregate" => L!OKMeansPulled

\* No line is lost before a log and an archive that held it were removed, wherever
\* runs and compressions fail or die, save for a line that came between gzip's last
\* read and its unlink or went to the unlinked log (LogAggregate).
SurvivesOneRotation == which = "logaggregate" => L!SurvivesOneRotation

\* The marker files of the backups can be relied on: LAST_BACKUP never gives a
\* time whose changes no snapshot holds, however backups overlap, end out of order
\* and forget each other's snapshots (a complete one, unless an incomplete one
\* was kept in its place), and a mirror with a .LAST_PULL is whole, on disk and in
\* every complete snapshot no pull overlapped, after any failed pulls, while no two
\* pulls overlap and no I/O error keeps rsync from removing the marker (Backups).
MarkersVouch == which = "backups" => B!BackupCovers /\ B!MarkedMirrorIsWhole

\* A green exit of verify, usecase-tests or test means that every required check
\* that was selected ran to its end and did not fail (Gates).
GreenMeansGood == which = "gates" => D!GreenMeansGood

\* The release resolver answers with the tag of the pin it was asked for, however
\* bootstraps with different pins share its cache, unless the pin's text is in
\* another release's title or a write of the cache broke off (Releases).
TagIsOfPin == which = "releases" => E!TagIsOfPin
=============================================================================
