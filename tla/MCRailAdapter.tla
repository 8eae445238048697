---------------------------- MODULE MCRailAdapter ----------------------------
(* Instances of RailAdapter.                                                  *)
EXTENDS RailAdapter, TLC

CONSTANTS c1, c2, c3

\* Second attempts, two of them without a key; the third gives a key, the one that
\* the others' captures and refunds derive.
SecondAttempts == [c \in Calls |-> 2]
LastHasKey == [c \in Calls |-> IF c = c3 THEN 1 ELSE 0]

KeylessCalls == Permutations(Calls \ {c3})
=============================================================================
