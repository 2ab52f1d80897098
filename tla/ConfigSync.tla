----------------------------- MODULE ConfigSync -----------------------------
(***************************************************************************)
(* Signed config bundles: `fleetctl config-sync init', pack, verify and    *)
(* apply.  The gateway packs a directory people edit into one tar file;    *)
(* the file is read by verify and apply while it may be damaged or packed  *)
(* again, and apply writes the verified files one at a time.               *)
(*                                                                         *)
(* A file's versions are numbered, so a number stands for its hash; it     *)
(* stands for its name, too, and a version may be one whose name verify    *)
(* refuses.                                                                *)
(* Operators named A_xyz are plausible bugs of the definition A below them.*)
(***************************************************************************)
EXTENDS Naturals

CONSTANTS
    NumFiles,       \* files in the source directory, in the order of their paths
    MaxContent,     \* bound: versions a file goes through
    BadNames,       \* <<file, version>> of the names that hold a colon or a backslash
    Keys            \* key pairs; each is the one a run of init generates

Files == 1..NumFiles
Contents == 1..MaxContent
Missing == 0                    \* no such entry or file, or not a whole one
Trees == [Files -> Contents \cup {Missing}]
Empty == [f \in Files |-> Missing]
Without(tree) == {f \in Files : tree[f] = Missing}
First(S) == CHOOSE f \in S : \A g \in S : f <= g
Misnamed(tree) == \E f \in Files : <<f, tree[f]>> \in BadNames

VARIABLES
    priv,           \* signing.key: "absent", "torn" or a key
    pub,            \* signing.pub: a key, or "absent" (also when torn: it does not load)
    init,           \* [Keys -> step of the init run that generated the key]
    src,            \* the source directory
    bundle,         \* the tar file: manifest, its signer, file entries
    pack,           \* the pack command: step, manifest, key
    apply,          \* the verify or apply command: step, what it has read
    dest,           \* the destination directory
    verdict,        \* how the last apply or verify ended
    signed,         \* history: manifests signed so far
    overlap,        \* history: two runs of init were at work at once
    disturbed       \* history: why the bundle may rightly be rejected

vars == <<priv, pub, init, src, bundle, pack, apply, dest, verdict,
          signed, overlap, disturbed>>
keys == <<priv, pub, init, overlap>>

NoBundle == [man |-> Empty, by |-> "absent", data |-> Empty]
Packing == [at : {"idle", "hash", "write"}, man : Trees, by : Keys \cup {"absent"}]
Applying == [at : {"idle", "read", "check", "write"}, man : Trees,
             by : Keys \cup {"absent"}, pub : Keys \cup {"absent"},
             data : Trees, todo : SUBSET Files]
NotPacking == [at |-> "idle", man |-> Empty, by |-> "absent"]
NotApplying == [at |-> "idle", man |-> Empty, by |-> "absent", pub |-> "absent",
                data |-> Empty, todo |-> {}]

TypeOK ==
    /\ priv \in Keys \cup {"absent", "torn"} /\ pub \in Keys \cup {"absent"}
    /\ init \in [Keys -> {"idle", "priv", "pub"}]
    /\ src \in [Files -> Contents] /\ dest \in Trees
    /\ bundle \in [man : Trees, by : Keys \cup {"absent"}, data : Trees]
    /\ pack \in Packing /\ apply \in Applying
    /\ verdict \in {"none", "ok", "rejected", "failed"}
    /\ signed \subseteq Trees
    /\ overlap \in BOOLEAN /\ disturbed \in BOOLEAN

Init ==
    /\ priv = "absent" /\ pub = "absent" /\ init = [k \in Keys |-> "idle"]
    /\ src = [f \in Files |-> 1] /\ dest = Empty
    /\ bundle = NoBundle
    /\ pack = NotPacking /\ apply = NotApplying
    /\ verdict = "none"
    /\ signed = {} /\ overlap = FALSE /\ disturbed = FALSE

-----------------------------------------------------------------------------
runConfigSyncInit_rerun(k) ==
    /\ init[k] = "idle"
    /\ init' = [init EXCEPT ![k] = "priv"]
    /\ overlap' = (overlap \/ \E j \in Keys \ {k} : init[j] # "idle")
    /\ UNCHANGED <<priv, pub, src, bundle, pack, apply, dest, verdict, signed, disturbed>>

\* init: an existing signing.key, whatever it holds, ends it.
runConfigSyncInit(k) ==
    /\ init[k] = "idle" /\ priv = "absent"
    /\ init' = [init EXCEPT ![k] = "priv"]
    /\ overlap' = (overlap \/ \E j \in Keys \ {k} : init[j] # "idle")
    /\ UNCHANGED <<priv, pub, src, bundle, pack, apply, dest, verdict, signed, disturbed>>

WriteKey(k) ==
    /\ \/ init[k] = "priv" /\ priv' = k /\ init' = [init EXCEPT ![k] = "pub"] /\ UNCHANGED pub
       \/ init[k] = "pub" /\ pub' = k /\ init' = [init EXCEPT ![k] = "idle"] /\ UNCHANGED priv
    /\ UNCHANGED <<src, bundle, pack, apply, dest, verdict, signed, overlap, disturbed>>

\* A write fails, or init dies, and the file in hand may be cut short.
InitFails(k) ==
    /\ init[k] # "idle"
    /\ init' = [init EXCEPT ![k] = "idle"]
    /\ priv' \in IF init[k] = "priv" THEN {priv, "torn"} ELSE {priv}
    /\ pub' \in IF init[k] = "pub" THEN {pub, "absent"} ELSE {pub}
    /\ UNCHANGED <<src, bundle, pack, apply, dest, verdict, signed, overlap, disturbed>>

-----------------------------------------------------------------------------
\* pack: load the private key; PackDir hashes the files in one pass, in walk order, and
\* looks at no name but its own two; ...
runConfigSyncPack ==
    /\ pack.at = "idle" /\ priv \in Keys
    /\ pack' = [at |-> "hash", man |-> Empty, by |-> priv]
    /\ UNCHANGED keys /\ UNCHANGED <<src, bundle, apply, dest, verdict, signed, disturbed>>

HashFile ==
    /\ pack.at = "hash" /\ Without(pack.man) # {}
    /\ LET f == First(Without(pack.man)) IN pack' = [pack EXCEPT !.man[f] = src[f]]
    /\ UNCHANGED keys /\ UNCHANGED <<src, bundle, apply, dest, verdict, signed, disturbed>>

\* ... signs the manifest, truncates the tar file, writes manifest and signature,
Create ==
    /\ pack.at = "hash" /\ Without(pack.man) = {}
    /\ pack' = [pack EXCEPT !.at = "write"]
    /\ bundle' = [man |-> pack.man, by |-> pack.by, data |-> Empty]
    /\ signed' = signed \cup {pack.man}
    /\ disturbed' = (apply.at # "idle")
    /\ UNCHANGED keys /\ UNCHANGED <<src, apply, dest, verdict>>

\* and reads every file a second time into it, under the name it had in the walk; one
\* renamed since is not there, which leaves PackFails.
WriteEntry ==
    /\ pack.at = "write"
    /\ LET f == First(Without(bundle.data))
       IN /\ <<f, src[f]>> \in BadNames <=> <<f, pack.man[f]>> \in BadNames
          /\ bundle' = [bundle EXCEPT !.data[f] = src[f]]
          /\ pack' = IF Without(bundle.data) = {f} THEN NotPacking ELSE pack
          /\ disturbed' = (disturbed \/ src[f] # pack.man[f])
    /\ UNCHANGED keys /\ UNCHANGED <<src, apply, dest, verdict, signed>>

\* A read or write fails or pack dies: half a bundle stays under the name.
PackFails ==
    /\ pack.at # "idle"
    /\ pack' = NotPacking
    /\ disturbed' = (disturbed \/ pack.at = "write")
    /\ UNCHANGED keys /\ UNCHANGED <<src, bundle, apply, dest, verdict, signed>>

-----------------------------------------------------------------------------
\* apply and verify: load the public key, read manifest and signature from the tar file, then the
\* entries; the file may be packed again in between.  No key, and nothing happens.
runConfigSyncApply ==
    /\ apply.at = "idle" /\ bundle # NoBundle
    /\ pub \in Keys
    /\ apply' = [NotApplying EXCEPT !.at = "read", !.pub = pub,
                                   !.man = bundle.man, !.by = bundle.by]
    /\ disturbed' = (disturbed \/ pack.at = "write")
    /\ verdict' = "none"
    /\ UNCHANGED keys /\ UNCHANGED <<src, bundle, pack, dest, signed>>

ReadEntries ==
    /\ apply.at = "read"
    /\ apply' = [apply EXCEPT !.at = "check", !.data = bundle.data]
    /\ UNCHANGED keys
    /\ UNCHANGED <<src, bundle, pack, dest, verdict, signed, disturbed>>

\* verifyContent: the signature, then name and contents of every file of the manifest.
\* `verify' and --verify-only stop here.
verifyContent_anyName ==
    /\ apply.at = "check"
    /\ IF apply.by = apply.pub /\ apply.data = apply.man
       THEN \/ apply' = [NotApplying EXCEPT !.at = "write", !.data = apply.data, !.todo = Files] /\ UNCHANGED verdict
            \/ apply' = NotApplying /\ verdict' = "ok"
       ELSE apply' = NotApplying /\ verdict' = "rejected"
    /\ UNCHANGED keys /\ UNCHANGED <<src, bundle, pack, dest, signed, disturbed>>

verifyContent ==
    /\ apply.at = "check"
    /\ IF apply.by = apply.pub /\ apply.data = apply.man /\ ~Misnamed(apply.man)
       THEN \/ apply' = [NotApplying EXCEPT !.at = "write", !.data = apply.data, !.todo = Files] /\ UNCHANGED verdict
            \/ apply' = NotApplying /\ verdict' = "ok"
       ELSE apply' = NotApplying /\ verdict' = "rejected"
    /\ UNCHANGED keys /\ UNCHANGED <<src, bundle, pack, dest, signed, disturbed>>

\* Apply writes what was verified, which it kept in memory.
WriteFile_reread ==
    /\ apply.at = "write"
    /\ LET f == First(apply.todo)
       IN /\ dest' = [dest EXCEPT ![f] = bundle.data[f]]
          /\ IF apply.todo = {f} THEN apply' = NotApplying /\ verdict' = "ok"
             ELSE apply' = [apply EXCEPT !.todo = @ \ {f}] /\ UNCHANGED verdict
    /\ UNCHANGED keys /\ UNCHANGED <<src, bundle, pack, signed, disturbed>>

WriteFile ==
    /\ apply.at = "write"
    /\ LET f == First(apply.todo)
       IN /\ dest' = [dest EXCEPT ![f] = apply.data[f]]
          /\ IF apply.todo = {f} THEN apply' = NotApplying /\ verdict' = "ok"
             ELSE apply' = [apply EXCEPT !.todo = @ \ {f}] /\ UNCHANGED verdict
    /\ UNCHANGED keys /\ UNCHANGED <<src, bundle, pack, signed, disturbed>>

ApplyFails ==
    /\ apply.at = "write"
    /\ dest' \in {dest, [dest EXCEPT ![First(apply.todo)] = Missing]}
    /\ apply' = NotApplying /\ verdict' = "failed"
    /\ UNCHANGED keys /\ UNCHANGED <<src, bundle, pack, signed, disturbed>>

-----------------------------------------------------------------------------
Edit(f) ==
    /\ src[f] < MaxContent
    /\ src' = [src EXCEPT ![f] = @ + 1]
    /\ UNCHANGED keys
    /\ UNCHANGED <<bundle, pack, apply, dest, verdict, signed, disturbed>>

\* The tar file is damaged where it lies or on its way; one entry is enough,
\* and it is the same which.
Damage ==
    /\ bundle.data[1] \in Contents /\ pack.at = "idle"
    /\ bundle' = [bundle EXCEPT !.data[1] = Missing]
    /\ disturbed' = TRUE
    /\ UNCHANGED keys /\ UNCHANGED <<src, pack, apply, dest, verdict, signed>>

Next ==
    \/ \E k \in Keys : runConfigSyncInit(k) \/ WriteKey(k) \/ InitFails(k)
    \/ runConfigSyncPack \/ HashFile \/ Create \/ WriteEntry \/ PackFails
    \/ runConfigSyncApply \/ ReadEntries \/ verifyContent \/ WriteFile \/ ApplyFails
    \/ \E f \in Files : Edit(f)
    \/ Damage

Spec == Init /\ [][Next]_vars

-----------------------------------------------------------------------------
(* What no step may do.                                                    *)

\* A file apply has written whole is one some signed manifest lists, under a
\* clean name, and an apply that succeeded leaves all files of one manifest,
\* whatever happened to the bundle while it was read and written
\* (Verifier.Apply writes the bytes verifyContent has checked).
AppliedIsSigned ==
    /\ \A f \in Files : dest'[f] \in Contents =>
           \E m \in signed' : m[f] = dest'[f] /\ ~Misnamed(m)
    /\ verdict' = "ok" /\ apply.at = "write" /\ apply'.at = "idle" => dest' \in signed

\* verify and apply refuse a bundle only for cause: a file edited during pack,
\* an interrupted pack, one under way, damage, keys that two runs of init made
\* at once, or a file whose name pack signs and verify refuses, so that no
\* bundle of this directory is ever applied until the file is renamed.
RejectedForCause ==
    apply.at = "check" /\ apply'.at = "idle" /\ verdict' = "rejected" =>
        disturbed \/ overlap \/ Misnamed(apply.man)
=============================================================================
