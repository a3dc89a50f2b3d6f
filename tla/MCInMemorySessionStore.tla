----------------------- MODULE MCInMemorySessionStore -----------------------
(* TLC instance of InMemorySessionStore.                                    *)
EXTENDS InMemorySessionStore, TLC

Symmetry == Permutations(Users) \union Permutations(Families) \union Permutations(Tokens)
=============================================================================
