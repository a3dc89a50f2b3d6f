-------------------------- MODULE MCRedisSnapshots --------------------------
(* TLC instance of RedisSnapshots: two users, two logins, and tokens enough *)
(* for a rotation that a crash undoes and another in its place.             *)
EXTENDS RedisSnapshots, TLC

Symmetry == Permutations(Users) \union Permutations(Families) \union Permutations(Tokens)
=============================================================================
