# A TLA+ model of owera-fleet

owera-fleet is the operator plane of a small fleet of Macs. One Go binary, `fleetctl`, runs on a gateway: as a
JSON-RPC server (`fleetctl serve`) that the customer plane drives, as a handful of launchd agents (watchdog,
heartbeats bridge, log rotation, snapshot publisher, ...) and as an operator's command line that bootstraps,
updates and repairs workers over SSH. Its state is files under `~/.hermes` on the gateway and on each worker;
there is no database, so what keeps the state consistent is the order of system calls, a few mutexes and flocks,
and commands that can be run again.

This directory holds TLA+ modules for the parts where that order matters, TLC configurations that check them on
small instances, and TLAPS proofs of the most important results. `PROJECT.json` is the index: components, runs,
the source lines every definition translates (`map`), a deliberate bug for every property that shows that the
property can fail (`mutants`), and the hazards the properties are for.

```
tlc -workers 2 -config SubmitJob_calls.cfg MCSubmitJob      # one run; see the table below
tlapm SubmitJob_proof.tla                                    # one proof module
```

## 1. Inventory

Paths are below `src/`; `commands/` is `cmd/fleetctl/commands/`.

| Component | State | Operations | Interacts through | Model |
|---|---|---|---|---|
| `fleet.SubmitJob` (`internal/rpc/submitjob.go`) | `.cloud-jobs.json` behind an RWMutex; one dispatch context per task | Handle: validate, look up, mark, record, register, dispatch, clean up | ledger files, run registry, routers, SSH | `SubmitJob` |
| `fleet.CancelTask`, run registry (`internal/rpc/canceltask.go`, `internal/runregistry`) | map from task id to cancel func | Register, Unregister, Cancel | the contexts of running tasks | `SubmitJob` |
| SKU routers (`internal/skus`), `fleetctl serve` (`commands/serve.go`) | none | Dispatch of each SKU | ledger appends, SSH primitive | `SubmitJob` |
| Ledger (`internal/ledger`), `fleet.LedgerTail` | one signed JSONL file per task; the client's cursor | Append, Read, ReadSince, poll | the file | `Ledger` |
| Swarm (`internal/orchestrator`, `commands/swarm.go`) | goroutines, semaphore, results slice | Execute | parent ledger, SSH leaves, context | `Orchestrator` |
| Budget (`internal/budget`) | `<id>.json`, `<id>.lock` per pairing | Check, Consume, Get, SetLimits | flock between processes | `Budget`, `BudgetSpec` |
| Heartbeats bridge (`commands/heartbeats_bridge.go`) | `~/.hermes/heartbeats/<host>.json` | sweep, bridgeOne | SSH probes; watchdog and snapshot read its files | `Heartbeats` |
| Watchdog (`commands/watchdog.go`), alert router (`internal/alerting`) | one marker file per stale host | scanCycle, Fire | heartbeat files, PagerDuty, OpsGenie, ntfy | `Watchdog` |
| `fleet.HealthSnapshot` (`internal/rpc/healthsnapshot.go`) | cached snapshot, two mutexes | Snapshot, Refresh, compute | heartbeat files, `hermes --version` under the caller's context | `HealthSnapshot`, verdict in `Heartbeats` |
| Log rotation (`commands/logrotate.go`), telemetry log (`internal/log`) | `*.jsonl` and their `.gz` archives | rotateAll, rotateOne, pruneRotations; append | processes with the log open | `Logrotate` |
| Worker bootstrap (`commands/bootstrap_worker.go`, `internal/bootstrap`, `remote/phase00..09`) | everything on a worker | ten phase scripts, each a list of checked commands | SSH uploads and sessions, the gateway's files | `Bootstrap` |
| SSH client (`internal/ssh`) | `known_hosts`, the agent's socket, one connection and one keepalive per client | Dial, RunWith, Close | every command that talks to a worker | `SSHClient`; how a remote command ends is an alternative in its callers |
| JSON-RPC server (`internal/rpc/server.go`) | request contexts | serve a request | callers above | as outcomes in `SubmitJob` |
| launchd manager (`internal/launchd`) and the install, uninstall and status commands of the agents (`setup_agent.go`, `watchdog.go`, `heartbeats_bridge.go`, `logrotate.go`, `backup.go`, `backup_worker.go`, `snapshot_publish_launchd.go`) | plist file and loaded job, which can disagree | Install, Uninstall, Status | `launchctl`, login | `Agents` |
| Scheduled jobs (`internal/hermesjobs`, `commands/cronjob.go`) | the runtime's job table | list, install, remove | `hermes` subprocesses | `Cronjobs` |
| Unattended-job markers (`internal/markers`) | one JSON file per step and its temporary | verify, hash, invalidate | pipelines that overlap | `Markers` |
| Pairing (`internal/pairing`) | one file per pairing | create, revoke, authenticate | the gateway reads what the command line writes | `Pairing` |
| Snapshot publisher (`commands/snapshot_publish.go`) | output file, its temporary, the cloud's copy | the loop, `--once` | readers of the file, HTTP PUT | `Publisher` |
| Config bundles (`internal/configsync`) | keys, tar file, destination | init, pack, verify, apply | people editing the source | `ConfigSync` |
| Skill bundles (`internal/skillsync`) | repository, working tree, skills | sign, pull, verify | git, two pulls on one tree | `SkillSync` |
| `delegate`, `update`, `screensharing`, `brew`, worker registry (`internal/nodes`) | settings of the workers | resolve targets, probe, act, probe again | SSH; timed-out remote processes | `FanOut` |
| Log aggregation (`internal/logaggregate`) | per-worker copies, rotated logs on the worker | pull, extract, compress, prune | workers that keep writing | `LogAggregate` |
| Backups (`commands/backup.go`, `backup_worker.go`) | restic repository, mirrors, two kinds of marker | backup, forget, pull | restic, rsync, each other | `Backups` |
| Gates: `verify`, `usecase-tests`, `test` | results of the checks | run, judge, exit | goroutines, subprocesses | `Gates` |
| Release resolver (`internal/hermesrelease`) | a one-line cache | Resolve | `gh`, several bootstraps | `Releases` |
| State report, health diff, health probe, metrics, audit, Hermes client, secrets runner, scenario bodies, command tree | none of their own | collect, parse, render, run once | - | not modelled |

What is hard here, and hence where the properties point:

* **interleaving and atomicity**: requests are goroutines, `fleetctl` invocations are processes. Look-up and
  record of a job are two critical sections; `.cloud-jobs.json` and the budget file are rewritten whole; a cancel
  races the task's own unregistration; appends race rotation.
* **crashes, power loss, partial failure**: most writes are tmp-and-rename, some with fsync and some without;
  a router with several backends can deliver to some of them; a bootstrap session can end between any two
  commands of a script and the operator starts over.
* **stale state and thresholds**: a heartbeat file on the gateway is dated by the probe and not by the beat it
  saw; three consumers compare it with their own threshold; markers outlive outages; the snapshot is cached.
* **liveness**: delegates block their call until they end or are cancelled; a poller waits for a terminal entry;
  a semaphore, two mutexes and a flock must always be given back.

What makes each component correct: at most one dispatch per `cloud_job_id` and one task id for all its answers;
no lost pair, no leaked or lost registration; acknowledged ledger entries and budget grants survive; caps hold per
day; a swarm says OK only if every leaf ran; every silent worker is reported, nobody is paged about a live one, a
"recovered" always follows an alert; a log line is lost only in the documented window; a bootstrap that reports
success left a provisioned worker, whatever earlier runs left half done; and of every operator command: what it
reports as done is done, what a signature, a marker or a green exit vouches for is so, and a failure half-way is
something the next run gets out of.

## 2. Plan

Order: by how much depends on the component and how hard it is to test.

1. `SubmitJob` (+ `MCSubmitJob`): the gateway's front door. *Done.*
2. `Ledger`: what an atomic append of `SubmitJob` and `Orchestrator` is made of. *Done.*
3. `Budget` against the abstract `BudgetSpec`. *Done.*
4. `Orchestrator`. *Done.*
5. `Heartbeats`, `Watchdog`, composed by `FleetHealth`; `HealthSnapshot`. *Done.*
6. `Logrotate`. *Done.*
7. `Bootstrap`: gateway and phase scripts. *Done.*
8. The small file stores: `Markers`, `Publisher`, `Pairing`. *Done.*
9. `Agents` (launchd) and `Cronjobs`: two systems to keep in step, under interrupted installs. *Done.*
10. Distribution to workers and back: `ConfigSync`, `SkillSync`, `Releases`, `FanOut`, `LogAggregate`, `Backups`, over
    `SSHClient`. *Done.*
11. `Gates`: the runners whose exit code others rely on. *Done.*
12. Proofs: `SubmitJob`, `Ledger`, `Budget` with the refinement of `BudgetSpec`, `Orchestrator`, `Watchdog`, `Heartbeats`,
    `FleetHealth` as an implementation of both, the components of `Operations`, `Logrotate` and `Bootstrap`. *Done.* None of
    these modules has a RECURSIVE operator. Every safety property of a passing run is a theorem.

Composition: `FleetHealth` extends `Watchdog` and instantiates `Heartbeats` over the shared heartbeat files. `SubmitJob`
uses the ledger as an atomic append; `Ledger` justifies that for one appender. The modules of
items 8 to 11 share no state with each other (each has its own files), so `Operations` puts them side by side in
one run instead of as a product.

## 3. Modules and the code

Conventions. A process, goroutine or request has a program counter; one action is one lock operation, one file
operation, one ledger append or one remote command, with the failures the code handles as alternatives of the
action. Where several environments are worth exploring (who calls, what can fail, how often the power fails), an
`env` record is chosen in the initial state and never changes, so that one run covers several small environments instead of
one large product. Operators named `A_xyz` are variants of `A` with a plausible bug; no specification uses them.
Variables commented `history` serve properties only.

**SubmitJob.** `Handle` of `submitjob.go` is `Arrive`, `Lookup`, `Mark`, `RecordBegin`, `RecordWrite`,
`PersistFailed`, `Register`, then one group of actions per router (`OneShotBill`/`OneShotComplete`,
`TriageDispatch`, `DelegateDispatch` with `DelegateOutcome`, failures) and `Cleanup`. `rmap` is the map
`recordCloudJob` read under the lock; `jobMap` is the file as a reader sees it, `durMap` as the disk has it, since
the rename is not fsynced. `CancelLookup` and `CancelInvoke` are the two halves of `Cancel`, between which the lock
is released. `ClientGone` cancels a request's context, `Restart` ends the process with or without a power loss.
Task ids come from `crypto/rand` and are unique by construction. The three finite SKUs differ only in what they
bill and are one, "oneshot".

**Ledger.** `Append` is `Stamp`, `StatFile`, `WriteLine`, `SyncFile`, `SyncDir`; a line is whole or torn, and a
fragment makes the file unreadable for `Read` as in the code. `Crash` ends a process inside an `Append`, `PowerLoss`
the machine. `orphan` and `unsafe` are history: which lines were written to a file whose first appender died, or
behind a fragment. `Poll` is `LedgerTail` with its `Ts` cursor.

**Budget, BudgetSpec.** Every system call of `load()` and `save()` is a step between `Lock` and `Unlock`. The
abstract budget has grants and caps only. `Abs` maps the concrete file's caps and the acknowledged calls to it.

**Orchestrator.** `Execute`: `SpawnCheck`/`Acquire` (the select of the spawn loop), `Wait`, `Snapshot` (the one look
at the context), `WriteStart`, the merge loop, `WriteFinal`, `Finish`; leaves run, retry, store and release.

**Heartbeats.** `StartSweep`, per host `Probe`, `ProbeFails`, `Judge`, `Touch`, `TouchFails`; the workers' daemons
and networks are the environment. A host can refuse, hang (the dial ends with its context) or be stuck (`Stuck`: a
handshake or session that no context ends). Times are ages in scaled units, capped one above the largest value compared.

**Watchdog.** `StartScan` (with `diskFails` over some of the files only), `DirUnreadable`, then per host `PassOver`, `FireStale` or `FireRecovered`, `SendOK`/`SendFail` to
each backend, `WriteMarker` or `RemoveMarker`; `Crash` and launchd's `Restart`.

**FleetHealth.** Both above, sharing `age` and the clock: `Touch` of the bridge is the `Beat` of the watchdog, and a
`FleetTick` is a tick of both. A step of one leaves the rest of the other alone, so that the fleet implements each of
them, which is proved.

**HealthSnapshot.** `FastPath`, `Lock`, `Recheck`, `Version`, `Store` of concurrent `Snapshot` and `Refresh` calls;
a snapshot is its build number and its `gateway.ok`.

**Logrotate.** Lines are numbered as written; the file holds `base+1..written`. `copy`, `rename`, `truncate` and
`prune` are steps beside appends; an archive is the set of lines of its gzip under the second that names it.

**Bootstrap.** `StartRun`, `Prepare`, `EndPhase` are `runBootstrapWorker`; `Script` lists the commands of the ten phase
scripts, and each is an action with its probe, its dry-run branch and its failures. What the gateway distributes is
known by its generation, so "the new config" and "an old one" are told apart. `Mutate` is the shape all commands
share: done, failed leaving one of the partial states the command can leave, or only described in a dry run;
`Tolerate` is a failure hidden by the script's `|| true`. Commands of several writes leave what some of them did:
`HalfWired` of the shellenv's two appends (`torn` is a line that has no more than its comment), `essentials` some of the
formulas, `keysTorn` an `authorized_keys` that ends inside a line, which the next append shares (`glued`), and a plist
that `mv` has put in place without its owner (`~plistOwned`). A printf of the shellenv that writes nothing and is
followed by one that does, in the same append, is left out. A
version matches its pin by substring (`grep -qF`), modelled by `Contained`.

**Agents.** `Install` (uninstall what is there, `WritePlist`, `Bootstrap`), `Uninstall` (`Bootout`, `RemovePlist`) and
`Status`, then the commands of each agent as the calls they make; `Login` loads what lies in `LaunchAgents`. The plist's
text is a version.

**Cronjobs.** Install is list, remove, add: three subprocesses. A job is its schedule and command (`what`) and its
environment and tags (`env`); only `what` is compared.

**Markers.** The pipeline's cycle (`runMarkersVerify`, the step, `runMarkersHash`) over `Write`'s open, write and
rename. The shared temporary is modelled as a file with descriptors: what a run wrote may meanwhile have become the
marker.

**Pairing.** `os.WriteFile` is `Truncate` and `Fill`; `Authenticate` reads in between.

**Publisher.** The loop and `--once`: `Build` or, in the loop, `FromCache` (the handler keeps its snapshot for 30s; the
time is abstracted to a choice), `OpenTmp`, `WriteTmp`, `SyncTmp`, `Rename`, `doHTTPPut`; a PUT that was given up can
still arrive (`LatePut`).

**ConfigSync, SkillSync.** Contents are numbers and stand for their hashes, a signature is its signer. `PackDir`'s two
passes, the tar file written in place, the verification in memory (config) or on disk, twice (skills), and the copy file
by file are separate steps; people edit, files are damaged and commands die in between. `BadNames` holds the versions of
files whose names `validateManifestPath` turns down. Skills are added, changed and dropped, at most `MaxEdits` times.

**FanOut.** Four commands with one shape: resolve, then per host dial, probe, act, probe again as the command does. One
behaviour is about one setting. A command that times out may act later (`Late`), which is why a setting can change
after its last probe.

**SSHClient.** `buildAuth`, `StatHosts`/`SeedHosts`/`LoadHosts`, `DialTCP`, `Handshake`, with the connections each step
holds; `Abandon` is the cleanup of every failing path.

**LogAggregate.** Per worker `Acquire`, `PullArchive` (`PullWhole`, or `PullHidden` where tar fails behind the pipe),
`Truncate`/`CopyEntry` over yesterday's copy, the remote gzip as `Rotate` (the older archive goes), `GzipRead`, `GzipUnlink`
or `GzipFails`, with or without its session, then `Prune`, while the worker writes (`WriteUnlinked`: through a descriptor
of the log that was removed). The worker's own rotator (`Logrotate`) is not composed with it.

**Backups.** `ensureResticRepo`, `StartBackup`, `Scan`, `Commit`, `runResticForget`, `writeLastBackupMarker`, and
`BackupFails`, which with restic's exit code 3 leaves an incomplete snapshot; beside any number of pulls:
`pullOneWorker`, `RewriteFile`, `FinishFile`, `MarkPull`. An rsync with an I/O error keeps the marker and fails at its end.

**Gates.** One command line per behaviour, chosen in `Init`. `RunAll` of verify is `Spawn`, `runOne`, `Leave` and the
aggregation after `wg.Wait`; `Runner.Run` and `runTest` are loops over `next`. A result starts as the zero value.

**Releases.** The cache is a pin and a tag; a release has a pin of its own and the pins whose text its title contains.

**Operations.** The variables of the fourteen modules above (`HealthSnapshot` included) are instances over the slots
`x1` to `x12`; `which` says whose behaviour it is, chosen in the initial state. The run's state space is the sum of the
modules' and not their product. Its properties are the modules' own under `which = ...`.

## 4. Runs

| Run | Instance | Shows |
|---|---|---|
| `submit` | `SubmitJob_calls` | Five environments (Serial, Cancelled, PowerLoss, Contended, Mapped): three calls, two of one job, two cancels, a restart, disk errors. Serialised calls are dispatched once (`SerialCallsDispatchOnce`) and all answers name the task on record (`SameTaskForRetries`); the map loses no pair (`NoLostMapping`); the registry neither leaks nor loses a task (`RegistryIsExact`); every call is answered but a delegate hung in its SSH call, which holds up no other, and a cancel reaches its task's context (`CallsEnd`). |
| `submit_overlap` | `SubmitJob_overlap` | **Violation** of `AtMostOnceDispatch`, see section 7. |
| `ledger` | `Ledger_one` | One appender with short writes, fsync errors, process crashes, up to two power losses: `AckedSurvives` (as a line that parses; two kinds of line excepted, section 7), `TailExactlyOnce`, `TailDelivers`. |
| `swarm` | `Orchestrator_swarm` | Three leaves, two slots, one retry, a failing ledger, a cancel at any time: `OKMeansEveryLeafRan`, `LedgerMatchesResult`; if the leaves' runs return, `Execute` does, and one hung leaf does not stop the others (`ExecuteEnds`). |
| `budget` | `Budget_caps` | Two or three processes around midnight with crashes, power loss, failing system calls: `RefinesBudgetSpec`, `GrantsAreDurable`. |
| `watchdog` | `Watchdog_alerts` | Two hosts without faults, one host with a crash only, one host with failing sends and disk and either slow sends or a crash: `ReportedInTime`, `RecoveryFollowsAlert`, `RepeatsAreSpaced`, `StaleIsReported`. |
| `heartbeats` | `Heartbeats_evidence` | Two workers behind refused, hung and stuck connections with failing writes: `FreshMeansAlive`, `LiveIsReported`. |
| `fleet_alarm` | `FleetHealth_alarm` | Worker, bridge and watchdog end to end, with a crash of the watchdog or with failing sends and markers: `DeadIsReported`, `NoFalseAlarm`. |
| `health_gateway` | `HealthSnapshot_gateway` | **Violation** of `GatewayOK`, see section 7. |
| `logrotate` | `Logrotate_archives` | One rotator with any failure, four undisturbed runs that reach `--keep`, two rotators with power failures: `LossOnlyInWindow`. |
| `bootstrap` | `Bootstrap_reruns` | Any number of runs (plain, dry, parts skipped, one phase alone), two faults anywhere, a gateway whose files change, a plist whose daemon never beats, appends that break off within a line, a plist moved but not given to root (3.0 million states): `AcceptedIsProvisioned`, `CleanRunCompletes`. |
| `operations` | `Operations` | The fourteen modules of `Operations`, see the next table. |

| Property of `operations` | Module | Says |
|---|---|---|
| `ReportedIsInstalled` | `Agents` | What an install or uninstall that ran alone reported holds on disk and in launchd (a bootout that fails is the named exception). |
| `PromisedIsScheduled` | `Cronjobs` | An install or remove that ran alone and succeeded left the schedule and command it was given, also after an interrupted update. |
| `SkipMeansDone` | `Markers` | A step is skipped only for an input it was completed with, or one that slipped in before it was hashed. |
| `TokenHonoured` | `Pairing` | A pairing is good from Create to the first Revoke and never after a Revoke that succeeded. |
| `ReadersGoForward` | `Publisher` | While loop and `--once` take turns, readers see whole snapshots, which go back only to the one the loop's handler still keeps; the cloud holds only what the file has held. |
| `VerdictIsRight` | `ConfigSync` | What apply leaves is what was signed, under clean names (`AppliedIsSigned`); a bundle is rejected only for cause (`RejectedForCause`). |
| `SkillsAreSigned` | `SkillSync` | With one pull at a time only signed contents arrive; at the end every skill of the verified manifest is as listed, and no other was touched. |
| `SuccessIsTrue` | `FanOut` | Exit 0 means that every target was in the promised state at some moment of its visit. |
| `FirstKeyOnly`, `NothingLeaks` | `SSHClient` | Dials that do not overlap accept no second key; a failed dial or closed client holds no connection. |
| `MonotonicReads` | `HealthSnapshot` | No call returns a snapshot older than one returned before it began. |
| `OKMeansPulled`, `SurvivesOneRotation` | `LogAggregate` | A run that succeeded landed every line that was there when it began, unless tar failed unnoticed on that worker; no line is lost before a log and an archive that held it were removed, save for one that came between gzip's last read and its unlink or went to the unlinked log. |
| `MarkersVouch` | `Backups` | LAST_BACKUP gives a time that some snapshot covers, a complete one unless `forget` preferred an incomplete one (`BackupCovers`); a mirror with .LAST_PULL is whole, unless the last rsync to begin ran beside another or kept the marker after an I/O error (`MarkedMirrorIsWhole`). |
| `GreenMeansGood` | `Gates` | Exit 0 means that every required check that was selected ran and did not fail. |
| `TagIsOfPin` | `Releases` | However bootstraps share the cache, the tag is of the release of the pin that was asked for; exceptions are a pin whose text is in another release's title, and a write of the cache that broke off within the tag. |

Every module has a `TypeOK`. In `SubmitJob`, `Ledger`, `Budget`, `Orchestrator`, `Heartbeats`, `Watchdog` and `Bootstrap`
(`BootTypeOK`) it is proved as a theorem and in the components of section 5's table as a part of the invariant; elsewhere it served while the
module was written. It is not among the properties of the runs.

### Bounds, and why they are enough

* *Calls, writers, processes, callers.* The properties of `SubmitJob` relate at most two calls of one job and one of
  another; two of one job and one other cover every pair. Three budget processes and three snapshot callers are
  needed for one to wait while two others change the state.
* *Restarts, crashes, power losses, faults.* One (two in `Ledger` and `Bootstrap`) is the number after which a
  second one finds the state a first one left. `MaxFaults = 2` lets a run break off in what another broken run left.
* *Swarm.* Three leaves over two slots: the spawn loop waits, and a leaf can stay unspawned.
* *Time.* Intervals and thresholds are scaled to 1 to 5 units; what matters is their order and that a scan interval
  is at least two units, so that a deadline can end it early. `ReportedInTime` assumes `stale-max >= interval`, as
  the defaults (5m, 120s) have it. In `fleet_alarm` dedup-window (9) is longer than both outages of a worker can be
  apart, so that a second one falls into the window of the first. Ages are capped one above the largest comparison. `MaxDay = 1` is one midnight.
* *Log lines.* Sizes are counted in lines. A rotator's next run does not start in the second in which its last one
  ended (launchd starts one a day). Three seconds and nine lines give four rotations with `--keep 2`.
* *Bootstrap.* Two generations tell new from old; generation 1's version text contains generation 2's
  (v0.13.10 and v0.13.1), and generation 2's daemon is the broken one. One single-phase command line (phase 6) stands
  for `--phase`, phase 6 being the one that appends; a second one multiplies the state space and tells nothing new.
* *Operations.* Two processes, hosts, workers and keys: every hazard there is between two actors, or between one and
  the leftovers of an earlier one, and nothing bounds how often they act except versions, edits, snapshots and lines (1 to 4).
  Three callers for the snapshot cache (one rebuilds, one waits, one finds the old value). Two files and two contents
  give a tree that mixes an old and a new file. Three checks over two slots of verify; two steps per scenario file.
  Three releases of which the second's title contains the first's pin.
* *Symmetry* is used in `operations` only (processes and keys are interchangeable, and it has no liveness property); the
  other runs check liveness or tell their actors apart.
* `CHECK_DEADLOCK FALSE` stands where the modelled system ends: all calls answered, `Execute` returned, the bounds
  on the clock, lines or timestamps reached.

### Fairness, and what in the code justifies it

* `SubmitJob`, `Orchestrator`: weak fairness of each goroutine's own steps (the Go scheduler runs every runnable
  goroutine). Nothing makes clients call, leave or cancel, and nothing makes the SSH client return, to a delegate or a
  swarm leaf: a context ends neither the handshake (`ssh.go:323`) nor `NewSession` (`:493`) nor the drain after the
  signal (`:515`). So no fairness is assumed of a delegate's end, cancelled or not, nor of a leaf's run; the properties
  say what follows for the others, and what follows if the runs do return.
* `Ledger`: an `Append` that has begun goes on, and the client keeps polling (`ledgertail.go:12`).
* `Watchdog`: the process runs, launchd restarts it (`KeepAlive` in `owera-watchdog.plist.tmpl`), time passes. Strong fairness of sends and
  of directory reads that skip no file says that a backend tried again and again answers, and a directory is read in
  full, in the end; without it no alert could be promised.
* The modules of `operations`, `Budget`, `Heartbeats`, `FleetHealth`, `Logrotate` and `Bootstrap` state safety only and
  have no fairness: an operator's command may stop at any step.

## 5. Proofs

Eight modules hold theorems; the components of `Operations` share one, `FleetHealth` is in `Watchdog_proof`, and
`Logrotate` and `Bootstrap` share `Upkeep_proof`. All theorems are about every
value of the constants, not about the instances above: any number of processes, hosts, files, days, retries and crashes.
Thirty-six properties of the runs are theorems: all but the four liveness properties. Most of them are not inductive, since they speak of the end of an operation
and say nothing of the states on the way; the strengthening is what the code relies on at each program counter, and is
named below. The proofs have one step, or one lemma, per action.

**SubmitJob_proof** (assumes `ConstantsAssumption`: every call has a job, `None` is not a call, environments are
well formed).
* `TypeCorrect`: `Spec => []TypeOK`, one case per action, faults included.
* `AtMostOnce`: `Spec => []SerialCallsDispatchOnce`, and `RetriesAgree`: `Spec => []SameTaskForRetries`. "No job is
  dispatched twice" is not inductive: it says nothing of a call between look-up and dispatch. `JobInv` adds it: the
  writer holds the lock and what it read is what is on disk (`WriterIsCurrent`); at most one call of a job is between
  look-up and record (`WindowExclusive`, where the serialisation by the customer plane enters); the job of a call in
  that window has no mapping (`FreshInWindow`); every task that is or was dispatched is the one its job maps to
  (`CommittedIsMapped`); answers name the mapping (`AnswersName`). The theorem `JobInvariant` is
  `Spec => [](Calm => JobInv)`; `Calm` is the assumption that calls of a job are serialised and the map file can be
  read and written.
* `MappingsStay`: the action property `NoLostMapping`, from `WriterIsCurrent` alone, so also for overlapping calls; the
  disk has to work (`Steady`).
* `RegistryExact`: `Spec => []RegistryIsExact`. `RegistryInv` says for each task, by the point its call has reached,
  whether it is registered and its context live, and that a task a cancel has taken out is not registered any more.

**Ledger_proof** (assumes `LedgerAssumption`).
* `TypeCorrect`; `LedgerInvariant`: `Spec => []IInv`.
* `Durability` and `ExactlyOnce`: `AckedSurvives` and `TailExactlyOnce` under `OneWriter`, the task having one appender
  (with two they are false, section 7). `OrderInv`: the file is in the order of its stamps, a stamp under way is later
  than everything in the file and than the cursor, and what the cursor has passed was delivered. `DurableInv`: the file
  has its directory entry on the platter, or its first appender is about to sync it, or died before; an acknowledged
  line that is not `unsafe` is on the platter behind a newline.
* What `ReadSince` returns is a fact about a recursive function on files of any length. The induction schemas cannot be
  used, so it is proved by the least-number principle (`LeastNumber`, from the library's `WFMin`): a shortest prefix
  for which the claim fails does not exist.

**Budget_proof** (assumes `BudgetAssumption`).
* `TypeCorrect`; `Counted`: `Spec => []IInv`; `Durable`: `Spec => []GrantsAreDurable`.
* `Refinement`: `Spec /\ SafeEnv(env) => RefinesBudgetSpec`. `SafeEnv` excludes one combination, a power loss where a
  directory fsync may have failed: the code ignores that error. Mutual exclusion (`LockInv`) is
  inductive by itself; on top of it `CountInv` says that the file, the platter and the `State` in the holder's hand
  (`InHand`, by program counter) count everything acknowledged. The refinement then is one lemma: the `Unlock` of a
  successful `Consume` is a `Grant` within the caps in force, a step that changes the file's caps a `Relimit`, and every
  other step a stutter.

**Orchestrator_proof** (assumes `SwarmAssumption`).
* `TypeCorrect`; `OKIsHonest`: `Spec => []OKMeansEveryLeafRan`; `LedgerIsHonest`: `Spec => []LedgerMatchesResult`.
  `RunInv`: leaves are spawned in order, the loop ends early only when the context is done, a result is stored before
  its slot is given back, and after the snapshot `cancelled` is false only if every leaf is done. `LedgerInv` adds, for a
  ledger without failed appends, what it contains by the point `Execute` has reached, with the number of verdicts as a
  cardinality.

**Watchdog_proof** (assumes `WatchdogAssumption`: natural thresholds, an interval of at least two units).
* `TypeCorrect`.
* `MarkersAreKnown`: `Spec => []MarkerInv`. A marker stands for a Critical that every backend accepted; a Fire in
  progress without error has reached every backend not in its queue any more; a Warning is sent only for a host with
  a marker.
* `RecoveriesFollowAlerts`: the action property `RecoveryFollowsAlert`, from `MarkerInv`, under every fault.
* `RepeatsSpaced`: the action property `RepeatsAreSpaced` (`Working`: backends and disk work; and no crash so far).
  `DedupInv`: the last Critical a backend got dates the marker, or is about to, or the host was found fresh since.
* `OutagesReported`: `ReportedInTime` if `Interval <= StaleMax`, as the defaults (120s, 5m) have it. `ReportInv`: a marker
  suppresses an alert only about an outage that was reported, which is where the assumption is needed: otherwise a host
  could recover and go stale again between two scans. After a crash it can also suppress one about an outage that began
  while the process was down, as long as dedup-window lasts (`Suppressed`): a gap of the code (section 7), and the
  invariant without crashes is stronger.
* `FleetIsWatchdog` and `FleetIsBridge`: `FleetSpec => Spec` and `FleetSpec => Bridge!Spec`. Each step of the fleet is a
  step of the watchdog or of its surroundings (a touch of the bridge is a heartbeat), and likewise for the bridge. So the
  fleet has every property of its parts, and only the relation between them is left to prove.
* `DeadReported`: `DeadIsReported` if `Interval <= StaleMax`. It follows from `ReportedInTime` and `FreshMeansAlive`: a
  worker that has been silent for longer than both thresholds has a file that is older than the second.
* `AlarmsAreTrue`: the action property `NoFalseAlarm` if the daemon beats at least every stale-max of the bridge, the bridge
  sweeps at least every stale-max of the watchdog, and a probe has time (defaults: 60s sweeps, 5m and 5m, 10s).
  `AlarmInv`: who is still to be alerted about was found stale at the start of the scan, and a host that is found stale has
  not been good for two sweeps (`LiveFresh` of `Heartbeats_proof`).

**Heartbeats_proof** (assumes `HeartbeatsAssumption`).
* `TypeCorrect`.
* `FreshIsEvidence`: `Spec => []FreshMeansAlive`. The strengthening `ProbeInv` says what a probe under way knows:
  after the stat the worker's beat is not older than observed, after Judge not older than stale-max.
* `LiveReported`: `Spec => []LiveIsReported` under `SettingsFit`: the daemon's period is at most stale-max, the interval at
  most the snapshot's threshold, and ssh-timeout not zero. `ReportedInv`: a host that has been good since before the sweep
  began has been touched by it or still has its turn.
* `LiveFresh`: under `SettingsFit`, at any moment, also half-way through a sweep, the file of a worker that has been alive
  and reachable for two intervals is at most one interval old. `RecentInv` keeps the previous sweep's touch in force until
  the present sweep gets to the host. `FleetHealth` relies on it.

**Upkeep_proof** (assumes `LogrotateAssumption` and `BootstrapAssumption`).
* `LossesBounded`: `Spec => []LossOnlyInWindow`. `RotatorInv`, for a lone rotator and by its program counter: the name of
  the archive it is about to write is not taken, its copy holds what it has read, and what was appended since it met the
  end of the file is `late`.
* `BootTyped`, `Accepted`, `CleanRuns`: `BootSpec => []BootTypeOK`, `[]AcceptedIsProvisioned`, `[]CleanRunCompletes`, for
  any number of runs, faults and versions. The properties speak of runs that have ended; the
  invariant is about the run under way. `Past(r, p, k)` says that run `r` has been through command `k` of phase `p`, and
  `Achieved` what each command it is past stands for: contents of the pinned generation or later, owners and modes, the
  key, the loaded job. A script that exits early claims nothing for its phase. The two halves of the proof are
  that a command establishes its own claim (`UserSteps`, `SecretsSteps`, ...) and that no command, heartbeat,
  administrator or edit takes back another's (`Within`: each phase changes its own part of the worker). `Clean` adds what a
  run without faults can count on, above all that the old job is gone when the new one is loaded (`bootout` before
  `bootstrap`), so that the only refusal left is that of a plist that is not root's or whose daemon does not beat
  (`Harmless`, `Spoiled`).

**Operations_proof** (assumes `OperationsAssumption`: bounds are naturals, and the words the modules use for "nothing" are
not among the data; a config tree has a file, as the last `WriteEntry` is what ends a pack, and a file has some
content). Each result is first proved of the component's own specification (the lemmas `...Alone`), from an
inductive invariant, and then of `Operations`: a behaviour stays with the component it began with (`OneSubsystem`), so it
is one of that component.

| Theorem | Property | Inductive invariant |
|---|---|---|
| `MarkersSound` | `SkipMeansDone` | `MarkedInv`: marker, temporary and every run's hash are of a completed input or one that slipped in |
| `PairingSound` | `TokenHonoured` | `PairedInv`: what a file says of its pairing's history, and what a process about to write it has seen |
| `ResolverSound` | `TagIsOfPin` | `TaggedInv`: the same of the cache, of processes that found a tag and of answers |
| `FirstKeyTrusted`, `ConnectionsClosed` | `FirstKeyOnly`, `NothingLeaks` | `TrustInv`: one key in the file, what a lone dial read of it is current |
| `SnapshotsMonotonic` | `MonotonicReads` | `CacheInv`: the build under way is the newest, no answer is newer than the cache |
| `InstallsReported` | `ReportedIsInstalled` | `InstalledInv`: plist and job by the step of the one command under way |
| `PromisesKept` | `PromisedIsScheduled` | `PromisedInv`: the same for the runtime's table |
| `GreenIsEarned` | `GreenMeansGood` | `TaskInv`, `LoopInv`: what lies behind the loop, or was stored by a goroutine, has run or failed |
| `SuccessesAreTrue` | `SuccessIsTrue` | `VisitInv`: every host behind the loop was seen as wanted unless one failed |
| `RunsLand`, `LinesSurvive` | `OKMeansPulled`, `SurvivesOneRotation` | `PulledInv`, `KeptInv`: where a line is, by the step of its worker's pull and the number of compressions |
| `ReadersForward` | `ReadersGoForward` | `PublisherInv`: while publishers take turns, `<out>.tmp` belongs to the one at work, whose snapshot is no older than the published one, or is the one the loop's handler keeps |
| `VerdictsRight` | `VerdictIsRight` | `ConfigInv`: a private key and its public key belong together, what a reader holds of an undisturbed bundle is what was packed, what apply writes was signed and has clean names |
| `SkillsSigned` | `SkillsAreSigned` | `SkillInv`: the tree a lone pull copies from is still the one it verified, and the skills it is done with are in place |
| `BackupsVouch` | `MarkersVouch` | `BackupInv`: the last snapshot that was begun covers what the marker says, whatever is forgotten; a pull that is not in doubt is alone, and the mirror behind it is whole |

Only model-checked:
* `CallsEnd`, `TailDelivers`, `ExecuteEnds`, `StaleIsReported`: liveness under fairness, and `ENABLED`, are out of the
  prover's reach.

## 6. Not modelled, and why

Rendering, parsing, flags, logging and message formats; cryptography (a signature verifies or not); the streaming of
SSH output; read-only reports; subprocess wrappers without state; the bodies of the ten use-case scenarios, which only
have an outcome. Health diff is a parser over the wording of two reports. In modelled components: `Tasks`, `VerifyAll`
and `ReadByTenant` of the ledger (loops over `Read`), concurrent bootstraps of one worker, a remote command that
outlives its session in `Bootstrap` (`FanOut` has it), clocks that step back. Each entry of `components` in
`PROJECT.json` has its own note.

## 7. What the models show about the code

Two runs exhibit a disagreement between the code and its own comments:

* `submit_overlap`: look-up (`submitjob.go:220`) and record (`:257`) are two critical sections, so two overlapping
  calls with one `cloud_job_id` are both dispatched, although `:14-16` calls the id "the idempotency anchor". If the
  customer plane serialises the calls of a job the promise holds, and is proved.
* `health_gateway`: a rebuild runs `hermes --version` under the context of the request that triggered it
  (`healthsnapshot.go:290`). A client that goes away leaves `gateway.ok=false` in everybody's cache for the TTL,
  although `:53-54` and `:113-115` promise otherwise.

Smaller differences met while modelling; the modules have the code's behaviour, and the properties are stated so
that they hold of it:

* *Ledger.* `Ts` is taken (`ledger.go:139`) before the write, so two appenders of one task can write out of order
  and the cursor (`ledgertail.go:117`) skips an entry, against `ledgertail.go:47-48` and `ledger.go:257-261`; the
  second appender can also be acknowledged before the directory entry is on disk. `Ledger_one` has one appender.
  Two kinds of acknowledged entry are lost even with one appender on a disk that works, against
  `ledger.go:173-175,183-184`; `AckedSurvives` exempts exactly these (`unsafe`). A power loss can leave a torn last
  line; `Append` puts the next entry behind it without a newline (`:169`), the joined line does not parse, and `Read`
  fails for the whole task (`:218`). And a process that dies between creating the file and the directory fsync
  (`:165-189`) leaves a file the next `Append` takes for durable (`:163`), so a power loss can drop it whole.
* *SubmitJob.* A delegate leaves no terminal entry (`submitjob.go:506`, against `:66`), a cancelled one no cancel
  entry (`:492`, against `canceltask.go:57`), and a cancel may leave it hung in the SSH client's drain (`ssh.go:515`);
  a subscription does not survive a restart (`runregistry.go:34`, against `submitjob.go:285`); the call blocks while a
  delegate runs (`server.go:107-108`). The map is renamed without fsync.
* *Orchestrator.* `--timeout` ends neither the SSH handshake nor `NewSession` nor the drain (`ssh.go:323`, `:493`,
  `:515`): a leaf can keep its slot for ever, and `Execute` from returning.
* *Watchdog.* With one failing backend no marker is written and the working ones are paged on every scan
  (`watchdog.go:276`), against the dedup window of `:83-84` and `:110`. `RepeatsAreSpaced` asks for working backends. A marker of an
  outage that ended while the watchdog was down is not removed, and suppresses the report of the next outage until
  dedup-window has passed (`watchdog.go:259`); `ReportedInTime` and `DeadIsReported` make the exception.
* *Heartbeats.* Hung probes take the sweep's time from the nodes after them (`heartbeats_bridge.go:166`, against
  `:81-84`). A handshake that is never answered (`ssh.go:323`) stops the sweep for good, --ssh-timeout or not, and then
  no file is touched; `LiveIsReported` exempts both. The thresholds of bridge and snapshot add up (`healthsnapshot.go:314`, against `:87-88`).
* *HealthSnapshot.* The age of what is served can be the TTL plus the rebuild (`healthsnapshot.go:265`, against `:93-94`).
* *Logrotate.* Two rotators in one second overwrite each other's archive (`logrotate.go:262`), and the archive is not
  fsynced before the truncation (`:289`): more is lost than the one line of `:7-11`. `LossOnlyInWindow` asks for one
  rotator and power.
* *Bootstrap.* The comment that goes before each line of the shellenv satisfies the grep for the line
  (`phase00:240,243`, `:258-267`): a run that ends within the append leaves a worker that every later run finds wired.
  A key appended to a torn line of `authorized_keys` (`phase06:238`) is reported installed, though it shares that line;
  a later run looks for the whole line (`:225`) and appends it again. A plist that was moved into place and whose
  `chown` did not follow, or failed behind `|| true` (`phase08:224-230`), is "already up to date" for every later run
  (`:211`), and launchd refuses it. The two properties make these exceptions. A heartbeat of the previous job satisfies `wait_first_heartbeat` (`phase08:280`) and phase 9. The pin
  matches by substring (v0.13.10 passes for v0.13.1). `authorized_keys` can stay at its default mode after a run that
  was interrupted between `touch` and `chmod`. Phase 0's and phase 7's "non-fatal" failures log an error event, which
  fails the phase at the gateway. Phase 9 checks neither config, secrets nor key. Two runs share names under `/tmp`.
* *Agents.* A bootout that fails for another reason than "not loaded" is logged, and uninstall reports success with the
  job still loaded (`launchd.go:366-381`).
* *Cronjobs.* A changed environment or tag is not seen as a change: install reports success and leaves the old ones.
* *Markers.* The input is hashed after the step (`markers.go:224`), so one that changed meanwhile is marked as done.
* *Pairing.* A pairing is written in place, without fsync or rename: a crash in between loses it (`pairing.go:195`).
* *Publisher.* `snapshot_publish.go:403-405` promises that readers never see half-written bytes; that fails when the loop
  and `--once` overlap, since both write one temporary. `ReadersGoForward` asks that they take turns. Even then readers
  go back: the handler's cache is per process (`healthsnapshot.go:241`), its TTL is the default interval and counts from
  the end of the rebuild, so the loop's next tick can write again what it had before `--once` published a newer one.
* *ConfigSync.* `PackDir` looks at no file name (`configsync.go:96-99`), so a directory with a colon or a backslash in one
  packs and signs, and every verify of it fails (`:284`); `RejectedForCause` names the cause. The set of files is fixed:
  apply leaves files a later manifest drops, as skill-sync does.
* *SkillSync.* Apply removes nothing (`skillsync.go:211-230`): a skill dropped from the manifest stays installed, and
  `SkillsAreSigned` says only that some signed manifest had it. Apply reads the tree again after verification, and
  files arrive one at a time: "a half-applied bundle never appears" holds per file only. With two pulls on one tree
  neither holds.
* *FanOut.* `update` without `--node` or `--all` visits nobody and succeeds, against its help (`update.go:33-35`). A
  remote process whose call timed out may act after a later command has reported the opposite.
* *SSHClient.* `known_hosts` is seeded by a truncating write after a stat (`ssh.go:654`): overlapping first dials can
  forget a key. RunWith's drain (`ssh.go:515`) can block, and a failing keepalive does not close the connection.
* *LogAggregate.* A tar that fails on the worker exits 0 behind `| gzip -c` (`logaggregate.go:254`, against `:263-265`): the
  run reports OK for a log that arrived in part or not at all, and may have it compressed unpulled. Lines appended
  between pull and gzip are lost with the second rotation; those that come while gzip ends, or through a descriptor
  that `log.Open` holds, at once; a gzip that fails has already removed the older archive, and `; true` hides it. The
  two properties make these exceptions by their cause. A failed pull leaves a partial copy over yesterday's; two users on one host share a directory. `logaggregate.go:31-32` says that KeepDays zero disables
  pruning, `:382-385` replaces zero by the default.
* *Backups.* `.LAST_PULL` is dated at the end of a pull, LAST_BACKUP at the start of a backup; only ten minutes between
  their schedules keep a pull and a snapshot apart. Nothing locks `backup-worker`: of two overlapping pulls the first to
  end writes `.LAST_PULL` over the files the other is rewriting in place, and after a remote I/O error rsync skips the
  deletion and so keeps the old marker over a mirror it changes. restic's exit code 3 saves an incomplete snapshot; the
  run fails, but the next `forget --keep-daily` counts it like any other and can keep it in place of a complete one of the
  same day, which LAST_BACKUP goes on naming. `MarkersVouch` makes these exceptions by their cause.
* *Gates.* `test` takes the exit code 0 of a shell that never started (`test_runner.go:93-98`) and drops the error
  (`:175`), so with `--timeout 0`, or when fork fails, steps that expect nothing but exit 0 pass without having run,
  against `:54-55` ("executes each step as a shell command"). An unknown ID beside a known one is ignored by `verify`
  and `test`; an ID of white space makes `usecase-tests` pass with nothing run, which `usecasetests.go:246-249` means
  to exclude.
* *Releases.* A pin that is a prefix of a newer one (v0.13.1, v0.13.10) resolves to the newer release
  (`resolver.go:302`), though `:292-299` says that the match is bounded by word-ish delimiters; `TagIsOfPin` excepts
  pins that are contained in another release's title (`Contained`), and the instance has one. A cache write cut short
  within the tag is served from then on.

Hazards without a property, and why: `submitjob.go:401` (no fsync before the rename; after a power loss an
acknowledged pair can be gone, which no property of the code excludes), `ledger.go:139` (two appenders, see above),
`budget.go:226` (a clock that steps back over midnight grants a second day; clocks only advance in `Budget`),
`bootstrap_worker.go:550` (two bootstraps of one worker share names under `/tmp`; `Bootstrap` has one at a time),
`phase08:280` (see above).
