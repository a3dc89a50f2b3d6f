------------------------------ MODULE KeyValue ------------------------------
(***************************************************************************)
(* Finite maps, as both session stores use them: Redis's keyspace          *)
(* (HSET / SET on a key, DEL of keys) and JavaScript's Map (set, delete).  *)
(* A map is a function whose domain is the set of keys present.            *)
(***************************************************************************)
EXTENDS Functions

EmptyMap == [k \in {} |-> k]

\* The map m with key k bound to v, whether or not k was present.
Put(m, k, v) == [x \in DOMAIN m \union {k} |-> IF x = k THEN v ELSE m[x]]

\* The map m without the keys of K; keys that were absent are ignored.
Drop(m, K) == Restrict(m, DOMAIN m \ K)

\* m maps some keys of K to values of V.
IsMap(m, K, V) == DOMAIN m \subseteq K /\ m \in [DOMAIN m -> V]
=============================================================================
