------------------------- MODULE MCIdentityBackends -------------------------
(* TLC instance of IdentityBackends: one seeded user, and an email that two *)
(* sign-ups may want.                                                        *)
EXTENDS IdentityBackends, TLC

CONSTANTS i1, e1

MCSeedEmail == i1 :> e1
MCSeedId == e1 :> i1
Symmetry == Permutations(Requests) \union Permutations(Ids \ {i1})
=============================================================================
