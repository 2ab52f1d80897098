----------------------------- MODULE Bootstrap -----------------------------
(***************************************************************************)
(* fleetctl bootstrap-worker: the gateway stages files and runs the phase  *)
(* scripts one by one on a worker; each script is a list of commands that  *)
(* look before they change anything.  Commands fail, sessions are lost in  *)
(* the middle of a script, and the operator runs the pipeline again.       *)
(*                                                                         *)
(* What the gateway distributes (the pinned version, config.yaml, secrets, *)
(* key, plist) is known by its generation; 0 is "not there".               *)
(*                                                                         *)
(* Operators named A_xyz are plausible bugs of the definition A below them.*)
(***************************************************************************)
EXTENDS Integers, Sequences

CONSTANTS
    MaxGen,         \* bound on the generations explored
    MaxFaults,      \* bound on the failures explored
    Options,        \* the command lines operators use
    Contained,      \* <<v, p>>: the text of version v contains that of p
    Broken          \* generations of the plist whose daemon never beats

Gens == 1..MaxGen
Phases == 0..9

ASSUME BootstrapAssumption ==
    /\ MaxGen \in Nat \ {0} /\ MaxFaults \in Nat
    /\ Options \subseteq [from : Phases, to : Phases, dry : BOOLEAN, allowAdmin : BOOLEAN,
                          skip : SUBSET {"tirith", "heartbeat"}]
    /\ Contained \subseteq Gens \X Gens /\ Broken \subseteq Gens

VARIABLES
    gen,        \* generation of the gateway's files
    w,          \* the worker
    run,        \* the run in progress, if any
    last,       \* how the last run ended
    faults      \* failures still allowed

bootVars == <<gen, w, run, last, faults>>

\* The commands of each phase script.
Script == [p \in Phases |->
    CASE p = 0 -> <<"detect_brew", "shellenv", "essentials">>
      [] p = 1 -> <<"prereqs">>
      [] p = 2 -> <<"existing", "user_record", "attrs", "homedir", "ssh_group">>
      [] p = 3 -> <<"clt", "installer", "verify_pinned", "seed_pinned">>
      [] p = 4 -> <<"hermes_dir", "extract", "chmod_config", "rewrite">>
      [] p = 5 -> <<"scripts_dir", "env_mv", "env_own", "env_mode",
                    "wrapper_mv", "wrapper_own", "wrapper_mode">>
      [] p = 6 -> <<"ssh_dir", "keys_file", "install_key">>
      [] p = 7 -> <<"tirith">>
      [] p = 8 -> <<"heartbeat_dir", "install_plist", "bootout", "bootstrap", "first_heartbeat">>
      [] p = 9 -> <<"verify">>]

Prereqs == {"brew", "sudo", "clt", "nonadmin"}
Attrs == {"UniqueID", "others"}
Dirs == {"hermes", "scripts", "ssh", "heartbeat"}
Artifacts == {"env", "wrapper"}
EnvLines == {"guard", "brew"}          \* what ~/.local/bin/env is to hold, in this order
Formulas == {"formula1", "formula2"}

Workers == [
    lacks : SUBSET Prereqs,             \* what an admin has to put right
    shellenv : [EnvLines -> {"none", "torn", "whole"}], essentials : SUBSET Formulas,
    record : BOOLEAN, attrs : SUBSET Attrs, home : BOOLEAN, sshGroup : BOOLEAN,
    hermes : 0..MaxGen, pinned : 0..MaxGen,
    dirs : SUBSET Dirs,
    config : [gen : 0..MaxGen, mode600 : BOOLEAN, worker : BOOLEAN],
    secrets : [Artifacts -> [gen : 0..MaxGen, owned : BOOLEAN, mode : BOOLEAN]],
    keysFile : {"none", "open", "600"}, keys : [Gens -> 0..1],
    keysTorn : BOOLEAN,                 \* authorized_keys ends inside a line
    glued : SUBSET Gens,                \* keys appended to such an end
    tirith : BOOLEAN,
    plist : 0..MaxGen,
    plistOwned : BOOLEAN,               \* root's, as launchd asks
    loaded : 0..MaxGen, beat : {"none", "fresh", "old"}]

Runs == [st : {"idle", "prepare", "script", "exited"}, phase : Phases, i : 1..7,
         opt : Options, pin : 0..MaxGen, staged : 0..MaxGen,
         exit : BOOLEAN,             \* the script exited with a code other than 0
         errors : BOOLEAN,           \* it logged an event with result "error"
         failed : BOOLEAN, clean : BOOLEAN]

\* No key has two lines of its own in authorized_keys.
BootTypeOK ==
    /\ gen \in Gens
    /\ w \in Workers
    /\ run \in Runs
    /\ last \in [result : {"none", "complete", "failed"}, phase : Phases, opt : Options,
                 pin : 0..MaxGen, clean : BOOLEAN]
    /\ faults \in 0..MaxFaults

BootInit ==
    /\ gen = 1
    /\ \E lacks \in SUBSET Prereqs : w = [
            lacks |-> lacks, shellenv |-> [l \in EnvLines |-> "none"], essentials |-> {},
            record |-> "nonadmin" \in lacks,
            attrs |-> IF "nonadmin" \in lacks THEN {"UniqueID"} ELSE {},
            home |-> "nonadmin" \in lacks, sshGroup |-> FALSE,
            hermes |-> 0, pinned |-> 0, dirs |-> {},
            config |-> [gen |-> 0, mode600 |-> FALSE, worker |-> FALSE],
            secrets |-> [a \in Artifacts |-> [gen |-> 0, owned |-> FALSE, mode |-> FALSE]],
            keysFile |-> "none", keys |-> [g \in Gens |-> 0], keysTorn |-> FALSE, glued |-> {},
            tirith |-> FALSE,
            plist |-> 0, plistOwned |-> TRUE, loaded |-> 0, beat |-> "none"]
    /\ \E o \in Options :
        /\ run = [st |-> "idle", phase |-> 0, i |-> 1, opt |-> o, pin |-> 0, staged |-> 0,
                  exit |-> FALSE, errors |-> FALSE, failed |-> FALSE, clean |-> FALSE]
        /\ last = [result |-> "none", phase |-> 0, opt |-> o, pin |-> 0, clean |-> FALSE]
    /\ faults = MaxFaults

-----------------------------------------------------------------------------
\* The gateway: runBootstrapWorker.

Fault == faults > 0 /\ faults' = faults - 1

\* The command ends.
Return(result, clean) ==
    /\ last' = [result |-> result, phase |-> run.phase, opt |-> run.opt, pin |-> run.pin,
                clean |-> clean]
    /\ run' = [st |-> "idle", phase |-> 0, i |-> 1, opt |-> run.opt, pin |-> 0, staged |-> 0,
               exit |-> FALSE, errors |-> FALSE, failed |-> FALSE, clean |-> FALSE]

\* The pinned version is read, and its tag resolved, before the first phase.
StartRun(o) ==
    /\ run.st = "idle"
    /\ run' = [st |-> "prepare", phase |-> o.from, i |-> 1, opt |-> o, pin |-> gen, staged |-> 0,
               exit |-> FALSE, errors |-> FALSE, failed |-> FALSE, clean |-> w.lacks = {}]
    /\ last' = [result |-> "none", phase |-> 0, opt |-> o, pin |-> 0, clean |-> FALSE]
    /\ UNCHANGED <<gen, w, faults>>

\* buildPhasePrep, the uploads of the phase's files and of its script: the
\* files are read now, and replace what an earlier run left in /tmp.
Prepare ==
    /\ run.st = "prepare"
    /\ run' = [run EXCEPT !.st = "script", !.i = 1, !.staged = gen, !.exit = FALSE, !.errors = FALSE]
    /\ UNCHANGED <<gen, w, last, faults>>

\* A file is missing on the gateway or an upload fails: the command gives up,
\* in a dry run too.
PrepareFails ==
    /\ run.st = "prepare" /\ Fault
    /\ Return("failed", FALSE)
    /\ UNCHANGED <<gen, w>>

\* PhaseResult.OK: exit code 0 and no error event.
PhaseOK == ~run.exit /\ ~run.errors

\* The script is over: the first failed phase ends the run, unless it is a
\* dry run, which fails at its end.
EndPhase ==
    /\ run.st = "exited"
    /\ LET failed == run.failed \/ ~PhaseOK IN
       IF ~PhaseOK /\ ~run.opt.dry THEN Return("failed", run.clean)
       ELSE IF run.phase < run.opt.to
       THEN /\ run' = [run EXCEPT !.st = "prepare", !.phase = @ + 1, !.failed = failed]
            /\ UNCHANGED last
       ELSE Return(IF failed THEN "failed" ELSE "complete", run.clean)
    /\ UNCHANGED <<gen, w, faults>>

-----------------------------------------------------------------------------
\* The worker: what every command of a script does.

At(c) == run.st = "script" /\ Script[run.phase][run.i] = c

\* The script goes on with its next command; err: an error event was logged.
Advance(err) ==
    run' = [run EXCEPT !.errors = @ \/ err, !.clean = @ /\ ~err,
                       !.i = IF @ < Len(Script[run.phase]) THEN @ + 1 ELSE 1,
                       !.st = IF run.i < Len(Script[run.phase]) THEN "script" ELSE "exited"]

\* The script logs an error and exits with a code other than 0.
Exit(clean) ==
    run' = [run EXCEPT !.st = "exited", !.i = 1, !.exit = TRUE, !.clean = @ /\ clean]

\* Nothing to do.
Pass == Advance(FALSE) /\ UNCHANGED <<gen, w, last, faults>>

\* A check fails.
Refuse == Exit(TRUE) /\ UNCHANGED <<gen, w, last, faults>>

\* The command makes w into new, or fails or is cut off and leaves one of
\* partial.  A dry run only says what it would do.
Mutate(new, partial) ==
    /\ \/ run.opt.dry /\ w' = w /\ Advance(FALSE) /\ UNCHANGED faults
       \/ ~run.opt.dry /\ w' = new /\ Advance(FALSE) /\ UNCHANGED faults
       \/ ~run.opt.dry /\ Fault /\ w' \in partial /\ Exit(FALSE)
    /\ UNCHANGED <<gen, last>>

\* sudo: can it be used, and is there a hermes account with a home?
CanSudo == "sudo" \notin w.lacks
CanBeHermes == CanSudo /\ w.record /\ "UniqueID" \in w.attrs /\ w.home

\* A command under sudo or sudo -u hermes.
Sudo(able, new, partial) ==
    \/ (able \/ run.opt.dry) /\ Mutate(new, partial)
    \/ ~able /\ ~run.opt.dry /\ Refuse

\* The session is lost, or the phase's timeout ends it, between two commands.
Drop ==
    /\ run.st = "script" /\ Fault
    /\ Exit(FALSE)
    /\ UNCHANGED <<gen, w, last>>

-----------------------------------------------------------------------------
\* phase00_brew_baseline and phase01_verify_prereqs

DetectBrew ==
    /\ At("detect_brew")
    /\ IF "brew" \in w.lacks THEN Refuse ELSE Pass

\* What the greps of ensure_shellenv ask of e: a line's comment, which goes
\* before it, satisfies them too.
Wired(e) == \A l \in EnvLines : e[l] # "none"

\* Both missing lines appended, and what an append that breaks off leaves of
\* them; the guard goes first.
Wire(e) == [l \in EnvLines |-> IF e[l] = "none" THEN "whole" ELSE e[l]]
HalfWired(e) ==
    {f \in [EnvLines -> {"none", "torn", "whole"}] :
        /\ \A l \in EnvLines : e[l] # "none" => f[l] = e[l]
        /\ e["guard"] = "none" /\ f["brew"] # e["brew"] => f["guard"] = "whole"}

\* ensure_local_env_dir and ensure_shellenv: a failure is logged as an error
\* but the script goes on and exits 0.
Shellenv ==
    /\ At("shellenv")
    /\ LET half == {[w EXCEPT !.shellenv = f] : f \in HalfWired(w.shellenv)} IN
       \/ Wired(w.shellenv) /\ Pass
       \/ ~Wired(w.shellenv) /\ Mutate([w EXCEPT !.shellenv = Wire(w.shellenv)], half)
       \/ /\ ~Wired(w.shellenv) /\ ~run.opt.dry /\ Fault
          /\ w' \in half /\ Advance(TRUE)
          /\ UNCHANGED <<gen, last>>

\* install_essential and verify_essential of every formula, one after the other;
\* when one fails the others are still tried.
Essentials ==
    /\ At("essentials")
    /\ \/ w.essentials = Formulas /\ Pass
       \/ /\ w.essentials # Formulas
          /\ Mutate([w EXCEPT !.essentials = Formulas],
                    {[w EXCEPT !.essentials = @ \cup s] : s \in SUBSET Formulas})

PrereqsStep ==
    /\ At("prereqs")
    /\ IF w.lacks \cap {"sudo", "brew", "clt"} # {} THEN Refuse ELSE Pass

-----------------------------------------------------------------------------
\* phase02_create_user

\* user_exists looks at UniqueID only.
UserExists == w.record /\ "UniqueID" \in w.attrs

Existing ==
    /\ At("existing")
    /\ IF UserExists /\ "nonadmin" \in w.lacks /\ ~run.opt.allowAdmin THEN Refuse ELSE Pass

UserRecord ==
    /\ At("user_record")
    /\ IF UserExists THEN Pass ELSE Sudo(CanSudo, [w EXCEPT !.record = TRUE], {w})

\* Bug: the attributes are set only when the record is new.
ApplyAttrs_newOnly ==
    /\ At("attrs")
    /\ IF w.attrs # {} THEN Pass
       ELSE Sudo(CanSudo, [w EXCEPT !.attrs = Attrs],
                 {[w EXCEPT !.attrs = @ \cup s] : s \in SUBSET Attrs})

\* apply_dscl_attr of each attribute; when one fails the others are still set.
ApplyAttrs ==
    /\ At("attrs")
    /\ IF w.attrs = Attrs THEN Pass
       ELSE Sudo(CanSudo, [w EXCEPT !.attrs = Attrs],
                 {[w EXCEPT !.attrs = @ \cup s] : s \in SUBSET Attrs})

Homedir ==
    /\ At("homedir")
    /\ IF w.home THEN Pass ELSE Sudo(CanSudo, [w EXCEPT !.home = TRUE], {w, [w EXCEPT !.home = TRUE]})

SSHGroup ==
    /\ At("ssh_group")
    /\ IF w.sshGroup THEN Pass ELSE Sudo(CanSudo, [w EXCEPT !.sshGroup = TRUE], {w})

-----------------------------------------------------------------------------
\* phase03_install_hermes

\* grep -qF: the installed version's text contains the pinned one's.
Matches(v, p) == v # 0 /\ (v = p \/ <<v, p>> \in Contained)

Version == IF CanBeHermes THEN w.hermes ELSE 0

Clt ==
    /\ At("clt")
    /\ IF "clt" \in w.lacks THEN Refuse ELSE Pass

\* probe_already_pinned and run_installer; what a failed installer leaves
\* behind may be the old version, the new one or nothing that works.
Installer ==
    /\ At("installer")
    /\ IF Matches(Version, run.pin) THEN Pass
       ELSE Sudo(CanBeHermes, [w EXCEPT !.hermes = run.pin],
                 {[w EXCEPT !.hermes = v] : v \in {0, w.hermes, run.pin}})

\* probe_hermes_on_path and verify_pinned.
VerifyPinned ==
    /\ At("verify_pinned")
    /\ IF run.opt.dry \/ Matches(Version, run.pin) THEN Pass ELSE Refuse

\* seed_pinned_version_file; tee truncates before it writes.
SeedPinned ==
    /\ At("seed_pinned")
    /\ IF CanBeHermes /\ Matches(w.pinned, run.pin) THEN Pass
       ELSE Sudo(CanBeHermes, [w EXCEPT !.pinned = run.pin, !.dirs = @ \cup {"hermes"}],
                 {w, [w EXCEPT !.pinned = 0, !.dirs = @ \cup {"hermes"}]})

-----------------------------------------------------------------------------
\* phase04_seed_config to phase06_setup_dedicated_key

\* mkdir -p as hermes.
EnsureDir(c, d) ==
    /\ At(c)
    /\ IF CanBeHermes /\ d \in w.dirs THEN Pass
       ELSE Sudo(CanBeHermes, [w EXCEPT !.dirs = @ \cup {"hermes", d}], {w})

\* probe_bundle and extract_bundle, which does not look first: config.yaml is
\* replaced, with the gateway's paths and mode.  A failure can leave it torn.
Extract ==
    /\ At("extract")
    /\ Sudo(CanBeHermes, [w EXCEPT !.config = [gen |-> run.staged, mode600 |-> FALSE, worker |-> FALSE]],
            {w, [w EXCEPT !.config = [gen |-> 0, mode600 |-> FALSE, worker |-> FALSE]]})

ChmodConfig ==
    /\ At("chmod_config")
    /\ Sudo(w.config.gen # 0, [w EXCEPT !.config.mode600 = TRUE], {w})

\* rewrite_tirith_path and cleanup_bundle.
Rewrite ==
    /\ At("rewrite")
    /\ IF w.config.worker THEN Pass
       ELSE Sudo(w.config.gen # 0, [w EXCEPT !.config.worker = TRUE], {w, [w EXCEPT !.config.worker = TRUE]})

\* install_artifact: mv, chown, chmod.
ArtifactMv(c, a) ==
    /\ At(c)
    /\ Sudo(CanSudo, [w EXCEPT !.secrets[a] = [gen |-> run.staged, owned |-> FALSE, mode |-> FALSE]], {w})

ArtifactOwn(c, a) ==
    /\ At(c)
    /\ Sudo(CanSudo, [w EXCEPT !.secrets[a].owned = TRUE], {w})

ArtifactMode(c, a) ==
    /\ At(c)
    /\ Sudo(CanSudo, [w EXCEPT !.secrets[a].mode = TRUE], {w})

\* ensure_authorized_keys_file: touch, then chmod 600.
KeysFile ==
    /\ At("keys_file")
    /\ IF w.keysFile # "none" THEN Pass
       ELSE Sudo(CanBeHermes, [w EXCEPT !.keysFile = "600"], {w, [w EXCEPT !.keysFile = "open"]})

\* x with key g appended: to an end inside a line it is not a line of its own.
Appended(x, g) ==
    IF x.keysTorn THEN [x EXCEPT !.keysTorn = FALSE, !.glued = @ \cup {g}]
                  ELSE [x EXCEPT !.keys[g] = @ + 1]

\* probe_pubkey, install_key and cleanup_pubkey: grep for the whole line, then
\* tee -a, which can break off within it, chown and chmod.
InstallKey ==
    /\ At("install_key")
    /\ IF CanSudo /\ w.keys[run.staged] > 0 THEN Pass
       ELSE Sudo(CanSudo, [Appended(w, run.staged) EXCEPT !.keysFile = "600"],
            {w, Appended(w, run.staged), [w EXCEPT !.keysTorn = TRUE]})

-----------------------------------------------------------------------------
\* phase07_install_tirith, phase08_launchd_heartbeat, phase09_verify

\* Best effort: brew, then the hermes skill, then left to hermes itself.  Only
\* a mktemp that fails is logged as an error, and the script exits 0 even so.
Tirith ==
    /\ At("tirith")
    /\ \/ ("tirith" \in run.opt.skip \/ w.tirith \/ run.opt.dry) /\ Pass
       \/ /\ "tirith" \notin run.opt.skip /\ ~w.tirith /\ ~run.opt.dry
          /\ \/ CanBeHermes /\ w' = [w EXCEPT !.tirith = TRUE] /\ Advance(FALSE) /\ UNCHANGED faults
             \/ w' = w /\ Advance(FALSE) /\ UNCHANGED faults
             \/ Fault /\ w' = w /\ Advance(TRUE)
          /\ UNCHANGED <<gen, last>>

SkipHeartbeat == "heartbeat" \in run.opt.skip

HeartbeatDir ==
    \/ ~SkipHeartbeat /\ EnsureDir("heartbeat_dir", "heartbeat")
    \/ At("heartbeat_dir") /\ SkipHeartbeat /\ Pass

\* A failure that the script's "|| true" hides: it goes on, with w as given.
Tolerate(worker) ==
    /\ ~run.opt.dry /\ Fault
    /\ w' = worker /\ run' = [run EXCEPT !.i = @ + 1, !.clean = FALSE]
    /\ UNCHANGED <<gen, last>>

\* remove_legacy_agent and install_plist: cmp of the contents, then mv, chown
\* and chmod; the last two may fail.
InstallPlist ==
    /\ At("install_plist")
    /\ LET moved == [w EXCEPT !.plist = run.staged, !.plistOwned = FALSE] IN
       \/ (SkipHeartbeat \/ (CanSudo /\ w.plist = run.staged)) /\ Pass
       \/ /\ ~SkipHeartbeat /\ ~(CanSudo /\ w.plist = run.staged)
          /\ \/ Sudo(CanSudo, [w EXCEPT !.plist = run.staged, !.plistOwned = TRUE], {w, moved})
             \/ CanSudo /\ Tolerate(moved)

\* Bug: a loaded job is left alone.
Bootout_keep ==
    /\ At("bootout")
    /\ IF SkipHeartbeat \/ w.loaded # 0 THEN Pass
       ELSE Sudo(CanSudo, [w EXCEPT !.loaded = 0], {w})

\* launchctl bootout, whose failure is tolerated.
Bootout ==
    /\ At("bootout")
    /\ \/ SkipHeartbeat /\ Pass
       \/ ~SkipHeartbeat /\ Sudo(CanSudo, [w EXCEPT !.loaded = 0], {w})
       \/ ~SkipHeartbeat /\ Tolerate(w)

\* launchctl bootstrap, which fails when the job is still loaded, or its plist
\* is not root's.
LaunchctlBootstrap ==
    /\ At("bootstrap")
    /\ IF SkipHeartbeat THEN Pass
       ELSE Sudo(CanSudo /\ w.loaded = 0 /\ w.plist # 0 /\ w.plistOwned, [w EXCEPT !.loaded = w.plist], {w})

Beats == w.loaded \notin Broken \cup {0}

\* wait_first_heartbeat: any file of the last two minutes will do.  A daemon
\* that works beats within the wait unless the worker is too slow.
FirstHeartbeat ==
    /\ At("first_heartbeat")
    /\ \/ (SkipHeartbeat \/ run.opt.dry \/ w.beat = "fresh") /\ Pass
       \/ ~SkipHeartbeat /\ ~run.opt.dry /\ w.beat # "fresh" /\ ~Beats /\ Refuse
       \/ ~SkipHeartbeat /\ ~run.opt.dry /\ w.beat # "fresh" /\ Fault /\ Exit(FALSE) /\ UNCHANGED <<gen, w, last>>

\* probe_hermes_version, probe_user_role and probe_heartbeat_fresh.
Verify ==
    /\ At("verify")
    /\ IF /\ Matches(Version, run.pin)
          /\ "nonadmin" \notin w.lacks \/ run.opt.allowAdmin
          /\ SkipHeartbeat \/ (CanBeHermes /\ w.beat = "fresh")
       THEN Pass ELSE Refuse

-----------------------------------------------------------------------------
\* Around the pipeline.

\* The daemon writes a heartbeat every minute.
Beat ==
    /\ Beats /\ w.beat # "fresh"
    /\ w' = [w EXCEPT !.beat = "fresh"]
    /\ UNCHANGED <<gen, run, last, faults>>

\* Two minutes pass without a heartbeat.
Age ==
    /\ ~Beats /\ w.beat = "fresh"
    /\ w' = [w EXCEPT !.beat = "old"]
    /\ UNCHANGED <<gen, run, last, faults>>

\* An admin installs what is missing, or takes hermes out of the admin group.
Admin ==
    /\ w.lacks # {}
    /\ \E p \in w.lacks : w' = [w EXCEPT !.lacks = @ \ {p}]
    /\ UNCHANGED <<gen, run, last, faults>>

\* The operator changes the gateway's files.
Edit ==
    /\ gen < MaxGen
    /\ gen' = gen + 1
    /\ UNCHANGED <<w, run, last, faults>>

Command ==
    \/ DetectBrew \/ Shellenv \/ Essentials \/ PrereqsStep
    \/ Existing \/ UserRecord \/ ApplyAttrs \/ Homedir \/ SSHGroup
    \/ Clt \/ Installer \/ VerifyPinned \/ SeedPinned
    \/ EnsureDir("hermes_dir", "hermes") \/ Extract \/ ChmodConfig \/ Rewrite
    \/ EnsureDir("scripts_dir", "scripts")
    \/ ArtifactMv("env_mv", "env") \/ ArtifactOwn("env_own", "env") \/ ArtifactMode("env_mode", "env")
    \/ ArtifactMv("wrapper_mv", "wrapper") \/ ArtifactOwn("wrapper_own", "wrapper")
    \/ ArtifactMode("wrapper_mode", "wrapper")
    \/ EnsureDir("ssh_dir", "ssh") \/ KeysFile \/ InstallKey
    \/ Tirith
    \/ HeartbeatDir \/ InstallPlist \/ Bootout \/ LaunchctlBootstrap \/ FirstHeartbeat
    \/ Verify

BootNext ==
    \/ \E o \in Options : StartRun(o)
    \/ Prepare \/ PrepareFails \/ EndPhase
    \/ Command \/ Drop
    \/ Beat \/ Age \/ Admin \/ Edit

BootSpec == BootInit /\ [][BootNext]_bootVars

-----------------------------------------------------------------------------
Full(o) == o.from = 0 /\ o.to = 9 /\ ~o.dry

\* When the whole pipeline has reported success, the worker has everything
\* the phases are there for, at least as new as what the gateway had when the
\* run began, whatever earlier runs left half done.  What an append that broke
\* off has left is not repaired, and is all that is not: a torn line of the
\* shellenv stays, and a key may be glued to the torn line before it.
AcceptedIsProvisioned ==
    last.result = "complete" /\ Full(last.opt) =>
        /\ Wired(w.shellenv) /\ w.essentials = Formulas
        /\ UserExists /\ w.attrs = Attrs /\ w.home /\ w.sshGroup
        /\ Matches(w.hermes, last.pin) /\ Matches(w.pinned, last.pin)
        /\ w.config.gen >= last.pin /\ w.config.mode600 /\ w.config.worker
        /\ \A a \in Artifacts : w.secrets[a].gen >= last.pin /\ w.secrets[a].owned /\ w.secrets[a].mode
        /\ \E g \in last.pin..MaxGen : w.keys[g] = 1 \/ g \in w.glued
        /\ "heartbeat" \notin last.opt.skip => w.loaded >= last.pin /\ w.loaded = w.plist

\* The phases are idempotent: what earlier runs left behind, wherever they
\* broke off, never makes a run fail in which nothing else goes wrong.  The
\* exceptions are the last phases', a daemon that does not beat and a plist
\* that was moved into place but not given to root, which no later run does.
CleanRunCompletes ==
    last.result = "failed" /\ Full(last.opt) /\ last.clean =>
        last.phase >= 8 /\ (w.plist \in Broken \/ ~w.plistOwned)
=============================================================================
