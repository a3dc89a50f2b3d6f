------------------------ MODULE MCRedisSessionStore -------------------------
(* TLC instance of RedisSessionStore: users, families and tokens are        *)
(* interchangeable, and every property checked is a safety property.        *)
EXTENDS RedisSessionStore, TLC

Symmetry == Permutations(Users) \union Permutations(Families) \union Permutations(Tokens)
=============================================================================
