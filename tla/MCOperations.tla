---------------------------- MODULE MCOperations ----------------------------
(* An instance of Operations for TLC.                                      *)
EXTENDS Operations, TLC

\* The second release's title contains the first one's pin as text.
MCTitles == <<[pin |-> "v0.13.1", texts |-> {"v0.13.1"}],
              [pin |-> "v0.13.10", texts |-> {"v0.13.1", "v0.13.10"}],
              [pin |-> "v0.14.0", texts |-> {"v0.14.0"}]>>

\* The second version of the second file has a name verify refuses.
MCBadNames == {<<2, 2>>}

Symmetry == Permutations(Processes) \cup Permutations(Keys)
=============================================================================
