----------------------------- MODULE BudgetSpec -----------------------------
(***************************************************************************)
(* What the per-pairing budget promises: a request is granted on a day     *)
(* only if that day's granted requests and granted cost stay within the    *)
(* caps in force, whoever asks and whatever crashes.                       *)
(***************************************************************************)
EXTENDS Naturals

CONSTANTS Days, Costs

VARIABLES
    reqs,     \* [Days -> Nat]: requests granted on each day
    cost,     \* [Days -> Nat]: cost granted on each day
    maxReq,   \* the daily request cap in force
    maxCost   \* the daily cost cap in force

vars == <<reqs, cost, maxReq, maxCost>>

Init == /\ reqs = [d \in Days |-> 0]
        /\ cost = [d \in Days |-> 0]
        /\ maxReq \in Nat
        /\ maxCost \in Nat

Grant(d, c) ==
    /\ reqs[d] + 1 <= maxReq
    /\ cost[d] + c <= maxCost
    /\ reqs' = [reqs EXCEPT ![d] = @ + 1]
    /\ cost' = [cost EXCEPT ![d] = @ + c]
    /\ UNCHANGED <<maxReq, maxCost>>

\* SetLimits, by the operator, at any time.
Relimit == /\ maxReq' \in Nat
           /\ maxCost' \in Nat
           /\ UNCHANGED <<reqs, cost>>

Next == (\E d \in Days, c \in Costs : Grant(d, c)) \/ Relimit

Spec == Init /\ [][Next]_vars
=============================================================================
