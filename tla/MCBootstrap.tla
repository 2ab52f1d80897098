---------------------------- MODULE MCBootstrap ----------------------------
(***************************************************************************)
(* The command lines Bootstrap is checked with: the whole pipeline, plain, *)
(* as a dry run, and with everything optional skipped; one phase alone.    *)
(***************************************************************************)
EXTENDS Bootstrap

Plain == [from |-> 0, to |-> 9, dry |-> FALSE, allowAdmin |-> FALSE, skip |-> {}]

MCOptions == {
    Plain,
    [Plain EXCEPT !.dry = TRUE],
    [Plain EXCEPT !.allowAdmin = TRUE, !.skip = {"tirith", "heartbeat"}],
    [Plain EXCEPT !.from = 6, !.to = 6]}

\* As v0.13.10 contains v0.13.1.
MCContained == {<<1, 2>>}
=============================================================================
