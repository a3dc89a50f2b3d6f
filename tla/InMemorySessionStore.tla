------------------------ MODULE InMemorySessionStore ------------------------
(***************************************************************************)
(* The process-local session store (sessions/session.store.ts,             *)
(* InMemorySessionStore), whose rotation rules the Redis store is said to  *)
(* share.  byHash keeps one record per token, retired ones included, until *)
(* their family is revoked; families indexes them.  Each method runs to    *)
(* its end without an await, hence one action each.                        *)
(*                                                                         *)
(* The record's expiresAt is kept as the seconds left until then, which    *)
(* stop counting at -1: the code only asks whether now > expiresAt.        *)
(***************************************************************************)
EXTENDS KeyValue

CONSTANTS Users, Families, Tokens,
          Ttl          \* REFRESH_TTL_SECONDS

ASSUME TtlAssumption == Ttl \in Nat \ {0}

VARIABLES
    byHash,    \* token  -> [familyId, userId, left, used]
    families,  \* family -> the tokens of the family
    minted, opener, reply

vars == <<byHash, families, minted, opener, reply>>

TypeOK ==
    /\ IsMap(byHash, Tokens,
             [familyId : Families, userId : Users, left : -1..Ttl, used : BOOLEAN])
    /\ IsMap(families, Families, SUBSET Tokens)
    /\ minted \in SUBSET Tokens
    /\ IsMap(opener, Families, Tokens)
    /\ reply \in {"none", "issued", "rotated", "invalid", "expired", "reuse_detected",
                 "revoked", "user_revoked"}

Init ==
    /\ byHash = EmptyMap
    /\ families = EmptyMap
    /\ minted = {}
    /\ opener = EmptyMap
    /\ reply = "none"

MembersOf(f) == IF f \in DOMAIN families THEN families[f] ELSE {}

----------------------------------------------------------------------------
(* issue, revokeFamily and remove                                          *)

\* Mutant: a family's index is made anew for every token.
IssueAlone(records, u, f, n) ==
    /\ n \notin minted
    /\ byHash' = Put(records, n, [familyId |-> f, userId |-> u, left |-> Ttl, used |-> FALSE])
    /\ families' = Put(families, f, {n})
    /\ minted' = minted \union {n}

\* Mutant: the expiry is reckoned from the wrong second.
IssueLongLived(records, u, f, n) ==
    /\ n \notin minted
    /\ byHash' = Put(records, n, [familyId |-> f, userId |-> u, left |-> Ttl + 1, used |-> FALSE])
    /\ families' = Put(families, f, MembersOf(f) \union {n})
    /\ minted' = minted \union {n}

Issue(records, u, f, n) ==
    /\ n \notin minted
    /\ byHash' = Put(records, n, [familyId |-> f, userId |-> u, left |-> Ttl, used |-> FALSE])
    /\ families' = Put(families, f, MembersOf(f) \union {n})
    /\ minted' = minted \union {n}

\* Mutant: the family is unlisted and its records stay.
UnlistFamilies(F) ==
    /\ families' = Drop(families, F)
    /\ UNCHANGED byHash

RevokeFamilies(F) ==
    /\ byHash' = Drop(byHash, UNION {MembersOf(f) : f \in F})
    /\ families' = Drop(families, F)

Remove(t) ==
    LET f == byHash[t].familyId
    IN  /\ byHash' = Drop(byHash, {t})
        /\ families' = IF f \in DOMAIN families
                       THEN [families EXCEPT ![f] = @ \ {t}]
                       ELSE families

----------------------------------------------------------------------------
(* The methods                                                             *)

CreateSession(u, f, n) ==
    /\ f \notin DOMAIN opener
    /\ Issue(byHash, u, f, n)
    /\ opener' = Put(opener, f, n)
    /\ reply' = "issued"

RotateUnknown(t) ==
    /\ t \notin DOMAIN byHash
    /\ reply' = "invalid"
    /\ UNCHANGED <<byHash, families, minted, opener>>

\* A retired token is recognised whether or not it has expired.
RotateReplayed(t) ==
    /\ t \in DOMAIN byHash
    /\ byHash[t].used
    /\ RevokeFamilies({byHash[t].familyId})
    /\ reply' = "reuse_detected"
    /\ UNCHANGED <<minted, opener>>

RotateExpired(t) ==
    /\ t \in DOMAIN byHash
    /\ ~byHash[t].used
    /\ byHash[t].left < 0
    /\ Remove(t)
    /\ reply' = "expired"
    /\ UNCHANGED <<minted, opener>>

\* Mutant: the retired token's record is deleted instead of kept.
RotateForgetting(t, n) ==
    /\ t \in DOMAIN byHash
    /\ ~byHash[t].used
    /\ byHash[t].left >= 0
    /\ Issue(Drop(byHash, {t}), byHash[t].userId, byHash[t].familyId, n)
    /\ reply' = "rotated"
    /\ UNCHANGED opener

RotateCurrent(t, n) ==
    /\ t \in DOMAIN byHash
    /\ ~byHash[t].used
    /\ byHash[t].left >= 0
    /\ Issue([byHash EXCEPT ![t].used = TRUE], byHash[t].userId, byHash[t].familyId, n)
    /\ reply' = "rotated"
    /\ UNCHANGED opener

Rotate(t) ==
    \/ RotateUnknown(t)
    \/ RotateReplayed(t)
    \/ RotateExpired(t)
    \/ \E n \in Tokens : RotateCurrent(t, n)

Revoke(t) ==
    /\ IF t \in DOMAIN byHash
       THEN RevokeFamilies({byHash[t].familyId})
       ELSE UNCHANGED <<byHash, families>>
    /\ reply' = "revoked"
    /\ UNCHANGED <<minted, opener>>

\* Every record is scanned for the user's families.
FamiliesOfUser(u) == {byHash[t].familyId : t \in {x \in DOMAIN byHash : byHash[x].userId = u}}

RevokeUser(u) ==
    /\ RevokeFamilies(FamiliesOfUser(u))
    /\ reply' = "user_revoked"
    /\ UNCHANGED <<minted, opener>>

\* A second passes.  Nothing is dropped: expiry is only noticed by rotate.
Tick ==
    /\ byHash' = [t \in DOMAIN byHash |->
                     [byHash[t] EXCEPT !.left = IF @ < 0 THEN @ ELSE @ - 1]]
    /\ UNCHANGED <<families, minted, opener, reply>>

\* The process ends and is started again: the maps were its memory.
Restart ==
    /\ byHash' = EmptyMap
    /\ families' = EmptyMap
    /\ UNCHANGED <<minted, opener, reply>>

Next ==
    \/ \E u \in Users, f \in Families, n \in Tokens : CreateSession(u, f, n)
    \/ \E t \in Tokens : Rotate(t) \/ Revoke(t)
    \/ \E u \in Users : RevokeUser(u)
    \/ Tick
    \/ Restart

Spec == Init /\ [][Next]_vars

----------------------------------------------------------------------------
(* What must hold                                                          *)

\* The two maps agree: revokeFamily, which follows the index, reaches exactly
\* the records of the family, and no record is out of its reach.
IndexMirrorsRecords ==
    /\ \A t \in DOMAIN byHash : t \in MembersOf(byHash[t].familyId)
    /\ \A f \in DOMAIN families : \A t \in families[f] :
           t \in DOMAIN byHash /\ byHash[t].familyId = f

\* session.store.ts:10-11, without the limit the Redis store has: any token of
\* a live family that was rotated out, however long ago, revokes the whole
\* family when it is presented.
ReplayBurnsFamily ==
    [][\A f \in DOMAIN families : \A t \in families[f] :
          /\ t \in DOMAIN byHash => byHash[t].used
          /\ Rotate(t)
          => f \notin DOMAIN families']_vars

\* session.store.ts:48, "Revoke every session for a user", which the Redis
\* store keeps for recent logins only.
RevokeUserRevokesAll ==
    [][\A u \in Users :
          RevokeUser(u) => \A t \in DOMAIN byHash' : byHash'[t].userId # u]_vars

----------------------------------------------------------------------------
(* The interface's full promise                                            *)

Promise == INSTANCE SessionStore WITH
    session <- [t \in DOMAIN byHash |->
                   [family |-> byHash[t].familyId,
                    user |-> byHash[t].userId,
                    used |-> byHash[t].used]]

\* Rotation, replay and both kinds of revocation are those of the interface.
KeepsPromise == Promise!Spec
=============================================================================
