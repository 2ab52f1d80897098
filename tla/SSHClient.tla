------------------------------ MODULE SSHClient ------------------------------
(***************************************************************************)
(* The SSH client every command dials with: authentication, trust on first *)
(* use through known_hosts, connection, keepalive, commands and Close.     *)
(* Dials of one host, by processes that share known_hosts.                 *)
(* Operators named A_xyz are plausible bugs of the definition A below them.*)
(***************************************************************************)
EXTENDS Naturals, FiniteSets

CONSTANTS
    Dialers,        \* the processes that dial
    Keys            \* host keys the host may present

VARIABLES
    file,       \* known_hosts: whether it exists, and the host's keys in it
    hostKey,    \* the key the host presents now
    dial,       \* [Dialers -> step, strict, keys loaded]
    agentConn,  \* dialers with an open connection to the SSH agent
    conn,       \* dialers with an open connection to the host
    keepalive,  \* dialers whose keepalive goroutine is running
    accepted,   \* history: keys a completed handshake was made with
    crowded     \* history: two dials were between stat and handshake at once

vars == <<file, hostKey, dial, agentConn, conn, keepalive, accepted, crowded>>
world == <<file, hostKey, accepted, crowded>>

Idle == [at |-> "idle", strict |-> FALSE, want |-> {}]
Steps == {"idle", "stat", "seed", "load", "tcp", "handshake", "open", "running"}

TypeOK ==
    /\ file \in [exists : BOOLEAN, keys : SUBSET Keys] /\ hostKey \in Keys
    /\ dial \in [Dialers -> [at : Steps, strict : BOOLEAN, want : SUBSET Keys]]
    /\ agentConn \subseteq Dialers /\ conn \subseteq Dialers /\ keepalive \subseteq Dialers
    /\ accepted \subseteq Keys /\ crowded \in BOOLEAN

Init ==
    /\ file = [exists |-> FALSE, keys |-> {}]
    /\ hostKey \in Keys
    /\ dial = [d \in Dialers |-> Idle]
    /\ agentConn = {} /\ conn = {} /\ keepalive = {}
    /\ accepted = {} /\ crowded = FALSE

At(d, step) == dial[d].at = step
Goto(d, step) == dial' = [dial EXCEPT ![d].at = step]

-----------------------------------------------------------------------------
(* Dial.  buildAuth opens the agent's socket; an agent that does not       *)
(* answer is passed over if there is a key file.  Every later error closes *)
(* what is open by then.                                                   *)
buildAuth(d) ==
    /\ At(d, "idle") /\ d \notin keepalive
    /\ \E strict, agent \in BOOLEAN :
          /\ dial' = [dial EXCEPT ![d].at = "stat", ![d].strict = strict]
          /\ agentConn' = IF agent THEN agentConn \cup {d} ELSE agentConn
    /\ crowded' = (crowded \/ \E e \in Dialers : dial[e].at \notin {"idle", "open", "running"})
    /\ UNCHANGED <<file, hostKey, conn, keepalive, accepted>>

Abandon_agent(d) ==
    /\ dial' = [dial EXCEPT ![d] = Idle]
    /\ conn' = conn \ {d}
    /\ agentConn' = IF d \in conn THEN agentConn ELSE agentConn \ {d}
    /\ UNCHANGED keepalive

Abandon(d) ==
    /\ dial' = [dial EXCEPT ![d] = Idle]
    /\ conn' = conn \ {d} /\ agentConn' = agentConn \ {d}
    /\ UNCHANGED keepalive

\* buildHostKeyCallback: look for known_hosts, create it, load it, each of which
\* may fail.  Creating it truncates whatever another dial has put there since the
\* look, also when it fails in the end.
StatHosts(d) ==
    /\ At(d, "stat")
    /\ IF ~file.exists /\ dial[d].strict THEN Abandon(d)
       ELSE Goto(d, IF file.exists THEN "load" ELSE "seed") /\ UNCHANGED <<agentConn, conn, keepalive>>
    /\ UNCHANGED world

SeedHosts(d) ==
    /\ At(d, "seed")
    /\ \/ /\ file' = [exists |-> TRUE, keys |-> {}]
          /\ Goto(d, "load") /\ UNCHANGED <<agentConn, conn, keepalive>>
       \/ /\ file' \in {file, [exists |-> TRUE, keys |-> {}]}
          /\ Abandon(d)
    /\ UNCHANGED <<hostKey, accepted, crowded>>

LoadHosts(d) ==
    /\ At(d, "load")
    /\ \/ /\ dial' = [dial EXCEPT ![d].at = "tcp", ![d].want = file.keys]
          /\ UNCHANGED <<agentConn, conn, keepalive>>
       \/ Abandon(d)
    /\ UNCHANGED world

\* dialFiltered: the first usable address that answers, or an error.
DialTCP(d) ==
    /\ At(d, "tcp")
    /\ \/ Goto(d, "handshake") /\ conn' = conn \cup {d} /\ UNCHANGED <<agentConn, keepalive>>
       \/ Abandon(d)
    /\ UNCHANGED world

\* The host key callback: a key loaded before is fine, another one is not; an
\* unseen host is recorded unless the dial is strict.
KeyOK_any(d) == hostKey \in dial[d].want \/ ~dial[d].strict

KeyOK(d) == hostKey \in dial[d].want \/ (dial[d].want = {} /\ ~dial[d].strict)

\* The handshake.  The key is recorded before authentication can fail; a
\* client that may be used gets its keepalive goroutine, if one is asked for.
Handshake(d) ==
    /\ At(d, "handshake") /\ KeyOK(d)
    /\ file' = IF hostKey \in dial[d].want THEN file ELSE [file EXCEPT !.keys = @ \cup {hostKey}]
    /\ \/ /\ Goto(d, "open")
          /\ accepted' = accepted \cup {hostKey}
          /\ keepalive' \in {keepalive, keepalive \cup {d}}
          /\ UNCHANGED <<agentConn, conn>>
       \/ Abandon(d) /\ UNCHANGED accepted
    /\ UNCHANGED <<hostKey, crowded>>

HandshakeFails(d) ==
    /\ At(d, "handshake")
    /\ Abandon(d)
    /\ UNCHANGED world

-----------------------------------------------------------------------------
\* RunWith opens a session and waits for the command, the context or the end
\* of the connection.  The client stays usable whatever the outcome.
RunWith(d) ==
    /\ At(d, "open") /\ Goto(d, "running")
    /\ UNCHANGED world /\ UNCHANGED <<agentConn, conn, keepalive>>

RunReturns(d) ==
    /\ At(d, "running") /\ Goto(d, "open")
    /\ UNCHANGED world /\ UNCHANGED <<agentConn, conn, keepalive>>

\* Close, deferred by every caller after its last command.
Close(d) ==
    /\ At(d, "open")
    /\ Abandon(d)
    /\ UNCHANGED world

\* The keepalive ends at the first tick after Close, or when a request fails,
\* which leaves the client open.
KeepaliveEnds(d) ==
    /\ d \in keepalive
    /\ keepalive' = keepalive \ {d}
    /\ UNCHANGED world /\ UNCHANGED <<dial, agentConn, conn>>

\* The host is reinstalled, or another machine answers to its name.
HostRekeyed(k) ==
    /\ hostKey' = k
    /\ UNCHANGED <<file, dial, agentConn, conn, keepalive, accepted, crowded>>

Next ==
    \/ \E d \in Dialers :
           \/ buildAuth(d) \/ StatHosts(d) \/ SeedHosts(d) \/ LoadHosts(d) \/ DialTCP(d)
           \/ Handshake(d) \/ HandshakeFails(d)
           \/ RunWith(d) \/ RunReturns(d) \/ Close(d) \/ KeepaliveEnds(d)
    \/ \E k \in Keys : HostRekeyed(k)

Spec == Init /\ [][Next]_vars

-----------------------------------------------------------------------------
\* Trust on first use means the first key only: while dials do not overlap, no
\* second key is ever accepted for the host, across any number of failed and
\* successful dials and changes of the host.  (Dials that overlap may each
\* accept a different key, and one may empty the file another has written.)
FirstKeyOnly == crowded \/ Cardinality(accepted) <= 1

\* A dial that failed and a client that was closed hold no connection, to the
\* host or to the agent, whichever step the dial failed at.
NothingLeaks ==
    \A d \in Dialers : At(d, "idle") => d \notin agentConn /\ d \notin conn
=============================================================================
