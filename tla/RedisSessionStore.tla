------------------------- MODULE RedisSessionStore --------------------------
(***************************************************************************)
(* The session store the auth-service runs on                              *)
(* (sessions/redis-session.store.ts).  Three kinds of Redis key:           *)
(*   refresh:{hash} -> {familyId, userId, used}                            *)
(*   family:{id}    -> the hashes of the family's tokens                   *)
(*   userfam:{uid}  -> the families opened for the user                    *)
(* each with a time to live in seconds, here the seconds that remain.  A   *)
(* token stands for its own SHA-256 hash.  Every operation is one MULTI or *)
(* one Lua script, hence one action; Tick is a second passing on Redis's   *)
(* clock.                                                                  *)
(***************************************************************************)
EXTENDS KeyValue, FiniteSets

CONSTANTS Users, Families, Tokens,
          Ttl          \* REFRESH_TTL_SECONDS

ASSUME TtlAssumption == Ttl \in Nat \ {0}

VARIABLES
    refresh,  \* token  -> [familyId, userId, used, ttl]
    family,   \* family -> [members, ttl]
    userfam,  \* user   -> [fams, ttl]
    minted,   \* every token handed out: randomBytes(32) never repeats
    opener,   \* every family opened -> the token its login was given
    reply     \* the outcome of the latest call

keys == <<refresh, family, userfam>>
vars == <<refresh, family, userfam, minted, opener, reply>>

Record == [familyId : Families, userId : Users, used : BOOLEAN, ttl : 1..Ttl]

TypeOK ==
    /\ IsMap(refresh, Tokens, Record)
    /\ IsMap(family, Families, [members : SUBSET Tokens, ttl : 1..Ttl])
    /\ IsMap(userfam, Users, [fams : SUBSET Families, ttl : 1..Ttl])
    /\ minted \in SUBSET Tokens
    /\ IsMap(opener, Families, Tokens)
    /\ reply \in {"none", "issued", "rotated", "invalid", "reuse_detected",
                 "revoked", "user_revoked"}

Init ==
    /\ refresh = EmptyMap
    /\ family = EmptyMap
    /\ userfam = EmptyMap
    /\ minted = {}
    /\ opener = EmptyMap
    /\ reply = "none"

\* SMEMBERS, which answers the empty set for a key that is absent.
MembersOf(f) == IF f \in DOMAIN family THEN family[f].members ELSE {}
FamsOf(u) == IF u \in DOMAIN userfam THEN userfam[u].fams ELSE {}

\* SREM of f from u's index; Redis deletes a set that becomes empty.
Unlisted(u, f) ==
    IF FamsOf(u) \subseteq {f}
    THEN Drop(userfam, {u})
    ELSE [userfam EXCEPT ![u].fams = @ \ {f}]

----------------------------------------------------------------------------
(* createSession                                                           *)

\* Mutant: EXPIRE on the user's index only when the index is new.
CreateSessionKeepingIndexTtl(u, f, n) ==
    /\ f \notin DOMAIN opener
    /\ n \notin minted
    /\ refresh' = Put(refresh, n, [familyId |-> f, userId |-> u, used |-> FALSE, ttl |-> Ttl])
    /\ family' = Put(family, f, [members |-> {n}, ttl |-> Ttl])
    /\ userfam' = Put(userfam, u,
                      [fams |-> FamsOf(u) \union {f},
                       ttl |-> IF u \in DOMAIN userfam THEN userfam[u].ttl ELSE Ttl])
    /\ minted' = minted \union {n}
    /\ opener' = Put(opener, f, n)
    /\ reply' = "issued"

\* Mutant: the token is random enough to be new to the store, no more.
CreateSessionWithStoreUniqueToken(u, f, n) ==
    /\ f \notin DOMAIN opener
    /\ n \notin DOMAIN refresh
    /\ refresh' = Put(refresh, n, [familyId |-> f, userId |-> u, used |-> FALSE, ttl |-> Ttl])
    /\ family' = Put(family, f, [members |-> {n}, ttl |-> Ttl])
    /\ userfam' = Put(userfam, u, [fams |-> FamsOf(u) \union {f}, ttl |-> Ttl])
    /\ minted' = minted \union {n}
    /\ opener' = Put(opener, f, n)
    /\ reply' = "issued"

CreateSession(u, f, n) ==
    /\ f \notin DOMAIN opener
    /\ n \notin minted
    /\ refresh' = Put(refresh, n, [familyId |-> f, userId |-> u, used |-> FALSE, ttl |-> Ttl])
    /\ family' = Put(family, f, [members |-> {n}, ttl |-> Ttl])
    /\ userfam' = Put(userfam, u, [fams |-> FamsOf(u) \union {f}, ttl |-> Ttl])
    /\ minted' = minted \union {n}
    /\ opener' = Put(opener, f, n)
    /\ reply' = "issued"

----------------------------------------------------------------------------
(* rotate: the three branches of ROTATE_LUA                                *)

\* Mutant: the family's set is deleted before its members are read.
BurnFamilySetFirst(f, u) ==
    /\ family' = Drop(family, {f})
    /\ refresh' = Drop(refresh, IF f \in DOMAIN family' THEN family'[f].members ELSE {})
    /\ userfam' = Unlisted(u, f)

\* Delete the tokens the family's set names, the set, and its index entry.
BurnFamily(f, u) ==
    /\ refresh' = Drop(refresh, MembersOf(f))
    /\ family' = Drop(family, {f})
    /\ userfam' = Unlisted(u, f)

RotateUnknown(t) ==
    /\ t \notin DOMAIN refresh
    /\ reply' = "invalid"
    /\ UNCHANGED <<keys, minted, opener>>

RotateReplayed(t) ==
    /\ t \in DOMAIN refresh
    /\ refresh[t].used
    /\ BurnFamily(refresh[t].familyId, refresh[t].userId)
    /\ reply' = "reuse_detected"
    /\ UNCHANGED <<minted, opener>>

\* The branch that rotates, with what it writes to the two keys of the family
\* as parameters; the mutants below are its other instances.
Rotated(t, n, retired, fam) ==
    /\ t \in DOMAIN refresh
    /\ ~refresh[t].used
    /\ n \notin minted
    /\ refresh' = Put(retired, n, [familyId |-> refresh[t].familyId,
                                   userId |-> refresh[t].userId,
                                   used |-> FALSE,
                                   ttl |-> Ttl])
    /\ family' = Put(family, refresh[t].familyId, fam)
    /\ minted' = minted \union {n}
    /\ reply' = "rotated"
    /\ UNCHANGED <<userfam, opener>>

Retired(t) == [refresh EXCEPT ![t].used = TRUE]

\* Mutant: the family's TTL is extended by Ttl instead of set to it.
FamilyWithExtendedTtl(t, n) ==
    [members |-> MembersOf(refresh[t].familyId) \union {n},
     ttl |-> family[refresh[t].familyId].ttl + Ttl]

FamilyWith(t, n) == [members |-> MembersOf(refresh[t].familyId) \union {n}, ttl |-> Ttl]

\* Mutants: the presented token stays unused; the successor is not added to
\* the family's set; the family's TTL is not renewed.
RotateWithoutRetiring(t, n) == Rotated(t, n, refresh, FamilyWith(t, n))
RotateWithoutSadd(t, n) ==
    Rotated(t, n, Retired(t), [FamilyWith(t, n) EXCEPT !.members = @ \ {n}])
RotateWithoutExpire(t, n) ==
    Rotated(t, n, Retired(t),
            [FamilyWith(t, n) EXCEPT !.ttl = family[refresh[t].familyId].ttl])

\* HSET keeps the retired token's TTL; EXPIRE renews the family's, and
\* nothing renews that of the user's index.
RotateCurrent(t, n) == Rotated(t, n, Retired(t), FamilyWith(t, n))

Rotate(t) ==
    \/ RotateUnknown(t)
    \/ RotateReplayed(t)
    \/ \E n \in Tokens : RotateCurrent(t, n)

----------------------------------------------------------------------------
(* revoke and revokeUser                                                   *)

\* Mutant: only the presented token is deleted.
RevokeTokenOnly(t) ==
    /\ refresh' = Drop(refresh, {t})
    /\ reply' = "revoked"
    /\ UNCHANGED <<family, userfam, minted, opener>>

Revoke(t) ==
    /\ IF t \in DOMAIN refresh
       THEN BurnFamily(refresh[t].familyId, refresh[t].userId)
       ELSE UNCHANGED keys
    /\ reply' = "revoked"
    /\ UNCHANGED <<minted, opener>>

\* Only the families the user's index names are reached.
RevokeUser(u) ==
    /\ refresh' = Drop(refresh, UNION {MembersOf(f) : f \in FamsOf(u)})
    /\ family' = Drop(family, FamsOf(u))
    /\ userfam' = Drop(userfam, {u})
    /\ reply' = "user_revoked"
    /\ UNCHANGED <<minted, opener>>

----------------------------------------------------------------------------
(* Redis's expiry                                                          *)

\* The keys of m one second later: those in their last second are gone.
Aged(m) == [k \in {x \in DOMAIN m : m[x].ttl > 1} |-> [m[k] EXCEPT !.ttl = @ - 1]]

Tick ==
    /\ refresh' = Aged(refresh)
    /\ family' = Aged(family)
    /\ userfam' = Aged(userfam)
    /\ UNCHANGED <<minted, opener, reply>>

Next ==
    \/ \E u \in Users, f \in Families, n \in Tokens : CreateSession(u, f, n)
    \/ \E t \in Tokens : Rotate(t) \/ Revoke(t)
    \/ \E u \in Users : RevokeUser(u)
    \/ Tick

Spec == Init /\ [][Next]_vars

----------------------------------------------------------------------------
(* What must hold                                                          *)

\* The hazard: revocation works through the family's set, never by scanning
\* the tokens.  Every token that could still be presented is in its family's
\* set, whose key outlives it and is the token's own family's.
FamilySetIsComplete ==
    \A t \in DOMAIN refresh :
        LET f == refresh[t].familyId
        IN  /\ f \in DOMAIN family
            /\ t \in family[f].members
            /\ refresh[t].ttl <= family[f].ttl

\* Rotation never forks or strands a session: a family key exists exactly
\* as long as one unused token of the family does, and there is only one,
\* with the family key's own lifetime.
OneCurrentToken ==
    \A f \in DOMAIN family :
        \E t \in DOMAIN refresh :
            /\ refresh[t].familyId = f
            /\ ~refresh[t].used
            /\ refresh[t].ttl = family[f].ttl
            /\ \A s \in DOMAIN refresh :
                   refresh[s].familyId = f /\ ~refresh[s].used => s = t

\* As long as the token a login received is still held, which is for a full
\* refresh lifetime from the login on, the login's family is in the index of
\* its user, so that revokeUser finds it.
RecentLoginIsListed ==
    \A f \in DOMAIN opener, t \in DOMAIN refresh :
        opener[f] = t =>
            /\ refresh[t].userId \in DOMAIN userfam
            /\ f \in userfam[refresh[t].userId].fams
            /\ refresh[t].ttl <= userfam[refresh[t].userId].ttl

\* A family's tokens all belong to the user whose index names the family:
\* revoking one user never ends another's session.
IndexNamesOwnFamilies ==
    \A u \in DOMAIN userfam, t \in DOMAIN refresh :
        refresh[t].familyId \in userfam[u].fams => refresh[t].userId = u

\* How the keys name each other, beyond the above: a set names its own
\* family's tokens, all of them issued once, and every family named anywhere
\* was opened by a login, whose token stayed in that family.
KeysNameEachOther ==
    /\ \A f \in DOMAIN family : \A t \in family[f].members :
           t \in minted /\ (t \in DOMAIN refresh => refresh[t].familyId = f)
    /\ DOMAIN refresh \subseteq minted
    /\ DOMAIN family \subseteq DOMAIN opener
    /\ \A u \in DOMAIN userfam : userfam[u].fams \subseteq DOMAIN opener
    /\ \A f \in DOMAIN opener :
           /\ opener[f] \in minted
           /\ opener[f] \in DOMAIN refresh => refresh[opener[f]].familyId = f

\* Each part needs the others to survive a step: this is what is inductive.
IndexInv ==
    /\ TypeOK
    /\ FamilySetIsComplete
    /\ OneCurrentToken
    /\ RecentLoginIsListed
    /\ IndexNamesOwnFamilies
    /\ KeysNameEachOther

\* Once a family has no key left (logged out, burned or expired), no later
\* call brings it back, whichever of its tokens is presented.
DeadFamilyStaysDead ==
    [][\A f \in DOMAIN opener : f \notin DOMAIN family => f \notin DOMAIN family']_vars

\* Presenting a token already rotated out, while it is remembered, leaves no
\* token of its family (session.store.ts:10-11).
RememberedReplayBurnsFamily ==
    [][\A t \in DOMAIN refresh :
          refresh[t].used /\ Rotate(t) =>
              \A s \in DOMAIN refresh' : refresh'[s].familyId # refresh[t].familyId]_vars

----------------------------------------------------------------------------
(* The interface's promise that this store keeps                           *)

\* The sessions as the interface sees them: keys without their lifetimes.
Promise == INSTANCE SessionStore WITH
    session <- [t \in DOMAIN refresh |->
                   [family |-> refresh[t].familyId,
                    user |-> refresh[t].userId,
                    used |-> refresh[t].used]]

\* The store implements the interface with fading memory of retired tokens.
KeepsFadingPromise == Promise!FadingSpec

----------------------------------------------------------------------------
(* What the documentation says and the store does not do                   *)

\* session.store.ts:48: "Revoke every session for a user".
RevokeUserRevokesAll ==
    [][\A u \in Users :
          RevokeUser(u) => \A t \in DOMAIN refresh' : refresh'[t].userId # u]_vars
=============================================================================
