---------------------------- MODULE MCKeyRotation ----------------------------
(* A small instance of KeyRotation: three kids, two keys, two lifetimes.   *)
EXTENDS KeyRotation, TLC

CONSTANTS d1, d2, d3, k1, k2

MCKids == {d1, d2, d3}
MCKeys == {k1, k2}
MCTtls == {1, 2}

\* Kids are interchangeable, and keys are.
Interchangeable == Permutations(MCKids) \union Permutations(MCKeys)
=============================================================================
