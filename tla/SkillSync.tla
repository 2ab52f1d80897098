------------------------------ MODULE SkillSync ------------------------------
(***************************************************************************)
(* Signed skill bundles: `fleetctl skill-sync sign', pull and verify.  The *)
(* gateway signs a directory of a Git repository; a worker fetches the     *)
(* branch into a working tree, verifies the tree against its pinned key    *)
(* and copies the files one at a time.  Pulls of one worker share the      *)
(* working tree.  Fetching and checking out FETCH_HEAD are one step: a     *)
(* checkout that is cut short ends its pull, and the next one starts with  *)
(* `checkout -f'.                                                          *)
(*                                                                         *)
(* A commit is the content of the files, 0 where there is none, the        *)
(* manifest (contents stand for their hashes) and the manifest the         *)
(* signature belongs to.  The keys are those of one `skill-sync init',     *)
(* which works as ConfigSync's does.                                       *)
(* Operators named A_xyz are plausible bugs of the definition A below them.*)
(***************************************************************************)
EXTENDS Naturals

CONSTANTS
    NumSkills,      \* files a bundle may have, in the order of their paths
    MaxContent,     \* bound: contents of a file
    MaxEdits,       \* bound: changes to the files of the repository
    Pullers         \* processes running `skill-sync pull' on the worker

Skills == 1..NumSkills
Contents == 1..MaxContent
None == [s \in Skills |-> 0]
Trees == [Skills -> 0..MaxContent]
Commits == [data : Trees, man : Trees, sig : Trees]
WorkingTrees == [git : BOOLEAN, data : Trees, man : Trees, sig : Trees]
NoTree == [git |-> FALSE, data |-> None, man |-> None, sig |-> None]
HalfClone == [NoTree EXCEPT !.git = TRUE]
Listed(man) == {s \in Skills : man[s] # 0}

VARIABLES
    repo,       \* head of the branch, and the directory sign works on
    signing,    \* the manifest sign has hashed and whose signature is not written yet
    tree,       \* the worker's working tree, and whether it has a .git
    pull,       \* [Pullers -> step, manifest, files left]
    skills,     \* the destination directory
    signed,     \* history: manifests that were signed
    crowded,    \* history: two pulls were at work at once
    edits       \* changes to the repository so far

vars == <<repo, signing, tree, pull, skills, signed, crowded, edits>>
gateway == <<repo, signing, signed, edits>>

Idle == [at |-> "idle", man |-> None, todo |-> {}]

TypeOK ==
    /\ repo \in Commits /\ signing \in Trees
    /\ tree \in WorkingTrees
    /\ pull \in [Pullers -> [at : {"idle", "fetch", "clone", "verify",
                                   "reverify", "copy"},
                             man : Trees, todo : SUBSET Skills]]
    /\ skills \in Trees /\ signed \subseteq Trees /\ crowded \in BOOLEAN
    /\ edits \in 0..MaxEdits

Init ==
    /\ repo = [data |-> [s \in Skills |-> 1], man |-> None, sig |-> None]
    /\ signing = None
    /\ tree = NoTree
    /\ pull = [p \in Pullers |-> Idle]
    /\ skills = None /\ signed = {} /\ crowded = FALSE /\ edits = 0

First(S) == CHOOSE s \in S : \A t \in S : s <= t
At(p, step) == pull[p].at = step
Goto(p, step) == pull' = [pull EXCEPT ![p].at = step]
End(p) == pull' = [pull EXCEPT ![p] = Idle]

-----------------------------------------------------------------------------
\* Somebody commits a change, to signed files too: a skill changes, is added or
\* is dropped, though never the last one.
Edit(s, c) ==
    /\ repo.data[s] # c /\ edits < MaxEdits
    /\ edits' = edits + 1
    /\ repo' = [repo EXCEPT !.data[s] = c]
    /\ Listed(repo'.data) # {}
    /\ UNCHANGED <<signing, tree, pull, skills, signed, crowded>>

\* sign: SignDir hashes the directory and writes the manifest, then the
\* signature; what is pushed may fall in between.
runSkillSyncSign ==
    /\ signing = None
    /\ repo' = [repo EXCEPT !.man = repo.data]
    /\ signing' = repo.data
    /\ signed' = signed \cup {repo.data}
    /\ UNCHANGED <<tree, pull, skills, crowded, edits>>

WriteSignature ==
    /\ signing # None
    /\ repo' \in {repo, [repo EXCEPT !.sig = signing]}    \* or sign died
    /\ signing' = None
    /\ UNCHANGED <<tree, pull, skills, signed, crowded, edits>>

-----------------------------------------------------------------------------
\* pull and verify: isWorkingTree looks for .git, no more.
runSkillSyncPullOrVerify(p) ==
    /\ At(p, "idle")
    /\ Goto(p, IF tree.git THEN "fetch" ELSE "clone")
    /\ crowded' = (crowded \/ \E q \in Pullers \ {p} : ~At(q, "idle"))
    /\ UNCHANGED gateway /\ UNCHANGED <<tree, skills>>

Checkout == [git |-> TRUE, data |-> repo.data, man |-> repo.man, sig |-> repo.sig]

\* What lies there without a .git is removed first.
Clone(p) ==
    /\ At(p, "clone")
    /\ tree' = Checkout
    /\ Goto(p, "verify")
    /\ UNCHANGED gateway /\ UNCHANGED <<skills, crowded>>

Fetch(p) ==
    /\ At(p, "fetch") /\ tree.git
    /\ tree' = Checkout
    /\ Goto(p, "verify")
    /\ UNCHANGED gateway /\ UNCHANGED <<skills, crowded>>

\* Missing or wrong signature and any listed file that differs end the command;
\* a file that is not listed does not matter.
Verified(t) ==
    /\ t.sig # None /\ t.sig = t.man
    /\ \A s \in Listed(t.man) : t.data[s] = t.man[s]

\* Pull verifies the tree; without --apply, and for `verify', that is all.
verifyOnDisk(p) ==
    /\ At(p, "verify")
    /\ End(p) \/ (Verified(tree) /\ Goto(p, "reverify"))
    /\ UNCHANGED gateway /\ UNCHANGED <<tree, skills, crowded>>

\* Apply verifies it again, ...
Apply_trusting(p) ==
    /\ At(p, "reverify")
    /\ pull' = [pull EXCEPT ![p].at = "copy", ![p].man = tree.man,
                                       ![p].todo = Listed(tree.man)]
    /\ UNCHANGED gateway /\ UNCHANGED <<tree, skills, crowded>>

Apply(p) ==
    /\ At(p, "reverify")
    /\ IF Verified(tree)
       THEN pull' = [pull EXCEPT ![p].at = "copy", ![p].man = tree.man,
                                       ![p].todo = Listed(tree.man)]
       ELSE End(p)
    /\ UNCHANGED gateway /\ UNCHANGED <<tree, skills, crowded>>

\* ... leaves files that already have the manifest's hash, and copies the
\* others from the tree as it is by then, each by a rename; a file that has gone
\* leaves PullFails.  A skill the manifest does not list stays as it is.
CopyFile(p) ==
    /\ At(p, "copy")
    /\ LET s == First(pull[p].todo)
       IN /\ \/ skills[s] = pull[p].man[s] /\ skills' = skills
             \/ /\ skills[s] # pull[p].man[s] /\ tree.data[s] # 0
                /\ skills' = [skills EXCEPT ![s] = tree.data[s]]
          /\ IF pull[p].todo = {s} THEN End(p)
             ELSE pull' = [pull EXCEPT ![p].todo = @ \ {s}]
    /\ UNCHANGED gateway /\ UNCHANGED <<tree, crowded>>

\* git fails, a copy fails or the process dies.  A clone that fails has removed
\* what was there; one that is killed may leave a .git with nothing checked out.
PullFails(p) ==
    /\ ~At(p, "idle") /\ End(p)
    /\ tree' \in IF At(p, "clone") THEN {tree, NoTree, HalfClone} ELSE {tree}
    /\ UNCHANGED gateway /\ UNCHANGED <<skills, crowded>>

\* Somebody works in the tree, though not while files are copied out of it.
LocalEdit(s) ==
    /\ tree.git /\ \A p \in Pullers : ~At(p, "copy")
    /\ tree.data[s] # MaxContent
    /\ tree' = [tree EXCEPT !.data[s] = MaxContent]
    /\ UNCHANGED gateway /\ UNCHANGED <<pull, skills, crowded>>

Next ==
    \/ \E s \in Skills : LocalEdit(s) \/ \E c \in 0..MaxContent : Edit(s, c)
    \/ runSkillSyncSign \/ WriteSignature
    \/ \E p \in Pullers :
           \/ runSkillSyncPullOrVerify(p) \/ Clone(p) \/ Fetch(p)
           \/ verifyOnDisk(p) \/ Apply(p) \/ CopyFile(p) \/ PullFails(p)

Spec == Init /\ [][Next]_vars

-----------------------------------------------------------------------------
\* What no step may do.  With one pull at a time, every skill in place has a
\* content some signed manifest lists for it, and a pull that copied its last
\* file leaves every skill its manifest lists as the manifest says, whatever was
\* pushed, half signed or edited in the tree before Apply began; a skill it does
\* not list is none a pull of now brought, but one an earlier manifest did, since
\* Apply removes nothing.  Apply copies from the tree after verifying it, so a
\* second pull that checks out another commit meanwhile breaks this.
SkillsAreSigned ==
    /\ crowded' \/ \A s \in Skills : skills'[s] # 0 => \E m \in signed' : m[s] = skills'[s]
    /\ \A p \in Pullers :
           At(p, "copy") /\ skills' # skills /\ ~crowded =>
               /\ \A s \in Skills : skills'[s] # skills[s] => s \in Listed(pull[p].man)
               /\ pull'[p].at = "idle" =>
                      \A s \in Listed(pull[p].man) : skills'[s] = pull[p].man[s]
=============================================================================
