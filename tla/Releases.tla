------------------------------ MODULE Releases ------------------------------
(***************************************************************************)
(* The Hermes release resolver: the version pin of the fleet ("v0.13.1")   *)
(* is translated to the git tag of the release whose title contains it,    *)
(* and the last translation is kept in ~/.hermes/PINNED_VERSION_TAG, which *)
(* bootstraps of several workers read and rewrite in place.                *)
(*                                                                         *)
(* The r-th release upstream has tag r.                                    *)
(* Operators named A_xyz are plausible bugs of the definition A below them.*)
(***************************************************************************)
EXTENDS Naturals, Sequences

CONSTANTS
    Titles,     \* sequence of releases: the pin of each, and the pins whose text its title has
    Semvers,    \* pins of the form v<n>.<n>.<n>
    Others,     \* pins of another form: a branch, a CalVer tag
    ListLimit,  \* releases `gh release list' returns
    Procs       \* bootstraps under way

Tags == 1..Len(Titles)
Cut == 0                                    \* the beginning of a tag
Absent == [pin |-> "", tag |-> Cut]         \* no file, or one that does not parse
Failed == [pin |-> "", tag |-> Cut]         \* no tag: an error
Caches == [pin : Semvers, tag : Tags \cup {Cut}] \cup {Absent}

VARIABLES
    published,  \* releases upstream so far
    cache,      \* PINNED_VERSION_TAG
    proc,       \* [Procs -> where the call of Resolve is, its pin, the tag found]
    answer,     \* [Procs -> the pin and tag of the last answer, or Failed]
    torn        \* history: a write of the cache broke off within the tag

vars == <<published, cache, proc, answer, torn>>

Idle == [at |-> "idle", pin |-> "", tag |-> Cut]

TypeOK ==
    /\ published \in 0..Len(Titles)
    /\ cache \in Caches
    /\ proc \in [Procs -> [at : {"list", "open", "write"}, pin : Semvers,
                           tag : Tags \cup {Cut}] \cup {Idle}]
    /\ answer \in [Procs -> Caches]
    /\ torn \in BOOLEAN

Init ==
    /\ published = 0 /\ cache = Absent /\ torn = FALSE
    /\ proc = [p \in Procs |-> Idle] /\ answer = [p \in Procs |-> Failed]

Answer(p, pin, tag) ==
    /\ answer' = [answer EXCEPT ![p] = [pin |-> pin, tag |-> tag]]
    /\ proc' = [proc EXCEPT ![p] = Idle]

Fail(p) ==
    /\ answer' = [answer EXCEPT ![p] = Failed]
    /\ proc' = [proc EXCEPT ![p] = Idle]

-----------------------------------------------------------------------------
cacheLookup_any(pin) == cache # Absent

\* The cache counts only for the pin on its first line.
cacheLookup(pin) == cache.pin = pin

\* Resolve: what is not of the form of a semver is refused, ...
Refuse(p, pin) ==
    /\ proc[p].at = "idle" /\ pin \in Others
    /\ Fail(p)
    /\ UNCHANGED <<published, cache, torn>>

\* ... the cache answers for its own pin, other pins are looked up.
Resolve(p, pin) ==
    /\ proc[p].at = "idle" /\ pin \in Semvers
    /\ IF cacheLookup(pin) THEN Answer(p, pin, cache.tag)
       ELSE /\ proc' = [proc EXCEPT ![p] = [at |-> "list", pin |-> pin, tag |-> Cut]]
            /\ UNCHANGED answer
    /\ UNCHANGED <<published, cache, torn>>

Listed == {r \in Tags : r <= published /\ r + ListLimit > published}

\* The first title in the list, which begins with the newest, that contains the
\* pin, if only as the beginning of a longer one.
matchSemver(pin) ==
    LET found == {r \in Listed : pin \in Titles[r].texts}
    IN {r \in found : \A q \in found : q <= r}

List(p) ==
    /\ proc[p].at = "list"
    /\ \/ Fail(p)       \* gh is missing, offline or too slow
       \/ matchSemver(proc[p].pin) = {} /\ Fail(p)
       \/ /\ \E r \in matchSemver(proc[p].pin) :
                proc' = [proc EXCEPT ![p].at = "open", ![p].tag = r]
          /\ UNCHANGED answer
    /\ UNCHANGED <<published, cache, torn>>

\* WriteCache: the file is truncated and written where it is.  Its errors are
\* ignored, the tag is returned all the same.
OpenCache(p) ==
    /\ proc[p].at = "open"
    /\ \/ /\ cache' = Absent
          /\ proc' = [proc EXCEPT ![p].at = "write"]
          /\ UNCHANGED answer
       \/ Answer(p, proc[p].pin, proc[p].tag) /\ UNCHANGED cache
    /\ UNCHANGED <<published, torn>>

WriteCache(p) ==
    /\ proc[p].at = "write"
    /\ Answer(p, proc[p].pin, proc[p].tag)
    /\ \/ cache' = [pin |-> proc[p].pin, tag |-> proc[p].tag] /\ UNCHANGED torn
       \/ cache' = Absent /\ UNCHANGED torn             \* cut short in the first line
       \/ cache' = [pin |-> proc[p].pin, tag |-> Cut] /\ torn' = TRUE
    /\ UNCHANGED published

Crash(p) ==
    /\ proc[p].at # "idle"
    /\ proc' = [proc EXCEPT ![p] = Idle]
    /\ UNCHANGED <<published, cache, answer, torn>>

Publish ==
    /\ published < Len(Titles)
    /\ published' = published + 1
    /\ UNCHANGED <<cache, proc, answer, torn>>

Next ==
    \/ \E p \in Procs : \/ \E pin \in Semvers : Resolve(p, pin)
                        \/ \E pin \in Others : Refuse(p, pin)
                        \/ List(p) \/ OpenCache(p) \/ WriteCache(p) \/ Crash(p)
    \/ Publish

Spec == Init /\ [][Next]_vars

-----------------------------------------------------------------------------
\* The text of a pin is also in the title of another pin's release, as v0.13.1 is
\* in that of v0.13.10.
Contained(pin) == \E r \in Tags : Titles[r].pin # pin /\ pin \in Titles[r].texts

\* However bootstraps with different pins share the cache and die while they
\* write it, Resolve answers with the tag of the pin's own release (cacheLookup
\* compares the pin, matchSemver the title).  There are two exceptions: a write
\* that broke off within the tag leaves a wrong one, and a pin that is contained
\* in another's can get the tag of a release that merely has its text in the title.
TagIsOfPin ==
    \A p \in Procs : answer[p] # Failed =>
        LET pin == answer[p].pin
            tag == answer[p].tag
        IN IF tag = Cut THEN torn
           ELSE \/ Titles[tag].pin = pin
                \/ Contained(pin) /\ pin \in Titles[tag].texts
=============================================================================
