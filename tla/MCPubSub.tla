------------------------------ MODULE MCPubSub -----------------------------
(* A small instance of PubSub for TLC: two TCP clients and a bridge client, *)
(* a pattern that matches one of the two channels.                          *)
EXTENDS PubSub, TLC

CONSTANTS c1, c2, ch1, p1

MCMatches == {<<p1, ch1>>}

Symmetry == Permutations({c1, c2})
=============================================================================
