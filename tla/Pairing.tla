------------------------------- MODULE Pairing -------------------------------
(***************************************************************************)
(* Pairings: pairing.Store and `fleetctl pair'.  One file per pairing,     *)
(* written in place with os.WriteFile and without a lock, by several       *)
(* processes that can die half-way.  The token of a pairing is as unique   *)
(* as its id, which stands for both.                                       *)
(*                                                                         *)
(* Operators named A_xyz are plausible bugs of the definition A below them.*)
(***************************************************************************)
CONSTANTS
    Procs,      \* processes using the store
    Ids         \* pairings that can be created

NoId == "none"

VARIABLES
    file,       \* [Ids -> what <id>.json holds]
    act,        \* [Procs -> the step the process is at, the pairing, what it writes]
    outcome,    \* what the last Authenticate, list or show said
    created,    \* history: pairings whose Create returned
    revoking,   \* history: pairings a Revoke found active
    revoked     \* history: pairings whose Revoke returned nil

vars == <<file, act, outcome, created, revoking, revoked>>
history == <<created, revoking, revoked>>

TypeOK ==
    /\ file \in [Ids -> {"absent", "torn", "active", "inactive"}]
    /\ act \in [Procs -> [at : {"idle", "open", "write", "read"}, id : Ids \cup {NoId},
                          to : {"active", "inactive"}]]
    /\ outcome \in {"none", "granted", "denied", "error"}
    /\ created \subseteq Ids /\ revoking \subseteq Ids /\ revoked \subseteq Ids

Idle == [at |-> "idle", id |-> NoId, to |-> "active"]

Init ==
    /\ file = [i \in Ids |-> "absent"]
    /\ act = [p \in Procs |-> Idle]
    /\ outcome = "none"
    /\ created = {} /\ revoking = {} /\ revoked = {}

At(p, step) == act[p].at = step
Goto(p, step) == act' = [act EXCEPT ![p].at = step]
End(p) == act' = [act EXCEPT ![p] = Idle]

\* Store.write truncates the file, then fills it; either step can fail.
Truncate(p) ==
    /\ At(p, "open")
    /\ \/ file' = [file EXCEPT ![act[p].id] = "torn"] /\ Goto(p, "write")
       \/ UNCHANGED file /\ End(p)
    /\ UNCHANGED outcome /\ UNCHANGED history

Fill(p) ==
    /\ At(p, "write")
    /\ LET i == act[p].id  to == act[p].to
       IN \/ /\ file' = [file EXCEPT ![i] = to]
             /\ created' = IF to = "active" THEN created \cup {i} ELSE created
             /\ revoked' = IF to = "inactive" THEN revoked \cup {i} ELSE revoked
          \/ UNCHANGED <<file, created, revoked>>
    /\ End(p)
    /\ UNCHANGED <<outcome, revoking>>

-----------------------------------------------------------------------------
\* Create: a random id, so one no other call has.
runPairCreate(p) ==
    /\ At(p, "idle")
    /\ \E i \in Ids : /\ file[i] = "absent" /\ \A q \in Procs : act[q].id # i
                      /\ act' = [act EXCEPT ![p] = [at |-> "open", id |-> i, to |-> "active"]]
    /\ UNCHANGED <<file, outcome>> /\ UNCHANGED history

runPairRevoke(p) ==
    /\ At(p, "idle")
    /\ \E i \in Ids : act' = [act EXCEPT ![p] = [at |-> "read", id |-> i, to |-> "inactive"]]
    /\ UNCHANGED <<file, outcome>> /\ UNCHANGED history

\* Nothing to revoke and already revoked are success, a file it cannot parse is not.
Revoke_early(p) ==
    /\ At(p, "read")
    /\ LET i == act[p].id
       IN \/ file[i] = "active" /\ Goto(p, "open") /\ revoking' = revoking \cup {i}
             /\ revoked' = revoked \cup {i}
          \/ file[i] # "active" /\ End(p) /\ UNCHANGED <<revoking, revoked>>
    /\ UNCHANGED <<file, outcome, created>>

Revoke(p) ==
    /\ At(p, "read")
    /\ LET i == act[p].id
       IN \/ file[i] = "active" /\ Goto(p, "open") /\ revoking' = revoking \cup {i}
             /\ UNCHANGED revoked
          \/ file[i] = "inactive" /\ End(p) /\ revoked' = revoked \cup {i}
             /\ UNCHANGED revoking
          \/ file[i] \in {"absent", "torn"} /\ End(p) /\ UNCHANGED <<revoking, revoked>>
    /\ UNCHANGED <<file, outcome, created>>

\* List skips files it cannot read, so a torn pairing is one that does not exist.
Authenticate ==
    /\ \E i \in Ids : /\ file[i] # "absent"
                      /\ outcome' = IF file[i] = "active" THEN "granted" ELSE "denied"
    /\ UNCHANGED <<file, act>> /\ UNCHANGED history

\* pair list shows every readable pairing, pair show fails on an unreadable one.
runPairShow ==
    /\ \E i \in Ids : outcome' = IF file[i] \in {"absent", "torn"} THEN "error" ELSE "none"
    /\ UNCHANGED <<file, act>> /\ UNCHANGED history

Die(p) ==
    /\ ~At(p, "idle") /\ End(p)
    /\ UNCHANGED <<file, outcome>> /\ UNCHANGED history

Next ==
    \/ \E p \in Procs : runPairCreate(p) \/ runPairRevoke(p) \/ Revoke(p)
                        \/ Truncate(p) \/ Fill(p) \/ Die(p)
    \/ Authenticate \/ runPairShow

Spec == Init /\ [][Next]_vars

-----------------------------------------------------------------------------
\* A pairing that was created is good until somebody starts to revoke it, and
\* never again once a revocation was acknowledged, whoever else revokes it,
\* fails or dies meanwhile (Store.Create, Revoke and Authenticate).
TokenHonoured ==
    \A i \in Ids : /\ i \in created \ revoking => file[i] = "active"
                   /\ i \in revoked => file[i] # "active"
=============================================================================
