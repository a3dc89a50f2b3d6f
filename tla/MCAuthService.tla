--------------------------- MODULE MCAuthService ----------------------------
(* TLC instance of AuthService: the one user comes from the seed, or signs  *)
(* up in a database that the seed has not filled.                           *)
EXTENDS AuthService, TLC

Symmetry == Permutations(Families) \union Permutations(Tokens)
            \union Permutations(Requests) \union Permutations(ResetTokens)

\* The latest outcome of a store call plays no part in what happens next.
ViewWithoutReply ==
    <<session, minted, opener, password, active, access, resets, mailed, task, by, raced, unrevoked,
      presented, proven>>
=============================================================================
