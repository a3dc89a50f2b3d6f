--------------------- MODULE InMemorySessionStoreProofs ---------------------
(***************************************************************************)
(* Proofs about InMemorySessionStore, for any sets of users, families and  *)
(* tokens and any positive lifetime.                                       *)
(***************************************************************************)
EXTENDS InMemorySessionStore, TLAPS

\* What the index needs of the records: their tokens were issued, their
\* families opened, and a family has one user.
RecordsAreOwned ==
    /\ DOMAIN byHash \subseteq minted
    /\ DOMAIN families \subseteq DOMAIN opener
    /\ \A s, t \in DOMAIN byHash :
           byHash[s].familyId = byHash[t].familyId => byHash[s].userId = byHash[t].userId

MirrorInv ==
    /\ TypeOK
    /\ IndexMirrorsRecords
    /\ RecordsAreOwned

Record == [familyId : Families, userId : Users, left : -1..Ttl, used : BOOLEAN]

\* A record's family lists it, so nothing that follows the index misses it.
LEMMA ListedTogether ==
    ASSUME MirrorInv
    PROVE  /\ \A t \in DOMAIN byHash : /\ byHash[t] \in Record
                                       /\ byHash[t].familyId \in DOMAIN families
                                       /\ t \in families[byHash[t].familyId]
           /\ \A f : MembersOf(f) = {t \in DOMAIN byHash : byHash[t].familyId = f}
<1>1. \A t \in DOMAIN byHash : /\ byHash[t] \in Record
                               /\ byHash[t].familyId \in DOMAIN families
                               /\ t \in families[byHash[t].familyId]
  BY DEF MirrorInv, TypeOK, IsMap, Record, IndexMirrorsRecords, MembersOf
<1>2. ASSUME NEW f
      PROVE  MembersOf(f) = {t \in DOMAIN byHash : byHash[t].familyId = f}
  BY <1>1 DEF MirrorInv, IndexMirrorsRecords, MembersOf
<1>3. QED
  BY <1>1, <1>2

\* The families F go, and all and only their records with them.
Burnt(F) ==
    /\ DOMAIN byHash' = {t \in DOMAIN byHash : byHash[t].familyId \notin F}
    /\ \A t \in DOMAIN byHash' : byHash'[t] = byHash[t]
    /\ DOMAIN families' = DOMAIN families \ F
    /\ \A f \in DOMAIN families' : families'[f] = families[f]
    /\ IsMap(byHash', Tokens, Record)
    /\ IsMap(families', Families, SUBSET Tokens)

LEMMA BurnEffect ==
    ASSUME MirrorInv, NEW F, RevokeFamilies(F)
    PROVE  Burnt(F)
<1> DEFINE D == UNION {MembersOf(f) : f \in F}
<1>1. \A t \in DOMAIN byHash : t \in D <=> byHash[t].familyId \in F
  BY ListedTogether
<1>2. byHash' = Drop(byHash, D) /\ families' = Drop(families, F)
  BY DEF RevokeFamilies
<1>3. IsMap(byHash, Tokens, Record) /\ IsMap(families, Families, SUBSET Tokens)
  BY DEF MirrorInv, TypeOK, Record
<1>4. /\ IsMap(byHash', Tokens, Record)
      /\ DOMAIN byHash' = DOMAIN byHash \ D
      /\ \A t \in DOMAIN byHash' : byHash'[t] = byHash[t]
  <2> HIDE DEF D
  <2>1. QED
    BY <1>2, <1>3 DEF Drop, Restrict, IsMap
<1>5. /\ IsMap(families', Families, SUBSET Tokens)
      /\ DOMAIN families' = DOMAIN families \ F
      /\ \A f \in DOMAIN families' : families'[f] = families[f]
  BY <1>2, <1>3 DEF Drop, Restrict, IsMap
<1>6. DOMAIN byHash' = {t \in DOMAIN byHash : byHash[t].familyId \notin F}
  <2> HIDE DEF D
  <2>1. QED
    BY <1>1, <1>4
<1>7. QED
  BY <1>4, <1>5, <1>6 DEF Burnt

LEMMA BurnStep ==
    ASSUME MirrorInv, NEW F, RevokeFamilies(F), UNCHANGED <<minted, opener>>,
           reply' \in {"reuse_detected", "revoked", "user_revoked"}
    PROVE  MirrorInv'
<1>1. Burnt(F)
  BY BurnEffect
<1>2. TypeOK'
  BY <1>1 DEF Burnt, MirrorInv, TypeOK, Record
<1>3. IndexMirrorsRecords'
  <2>1. ASSUME NEW t \in DOMAIN byHash'
        PROVE  byHash'[t].familyId \in DOMAIN families' /\ t \in families'[byHash'[t].familyId]
    BY <1>1, ListedTogether DEF Burnt
  <2>2. ASSUME NEW f \in DOMAIN families', NEW t \in families'[f]
        PROVE  t \in DOMAIN byHash' /\ byHash'[t].familyId = f
    BY <1>1 DEF Burnt, MirrorInv, IndexMirrorsRecords
  <2>3. QED
    BY <2>1, <2>2 DEF IndexMirrorsRecords, MembersOf
<1>4. RecordsAreOwned'
  BY <1>1 DEF Burnt, MirrorInv, RecordsAreOwned
<1>5. QED
  BY <1>2, <1>3, <1>4 DEF MirrorInv

\* A token n is issued for the family f of u: a family just opened, or the
\* family of a record of u's.  At most the flag of a record changes besides.
LEMMA IssueStep ==
    ASSUME MirrorInv, NEW u \in Users, NEW f \in Families, NEW n \in Tokens, NEW records,
           Issue(records, u, f, n),
           IsMap(records, Tokens, Record), DOMAIN records = DOMAIN byHash,
           \A t \in DOMAIN byHash : /\ records[t].familyId = byHash[t].familyId
                                    /\ records[t].userId = byHash[t].userId,
           \A t \in DOMAIN byHash : byHash[t].familyId = f => byHash[t].userId = u,
           IsMap(opener', Families, Tokens),
           DOMAIN opener \union {f} \subseteq DOMAIN opener',
           reply' \in {"issued", "rotated"}
    PROVE  MirrorInv'
<1> DEFINE new == [familyId |-> f, userId |-> u, left |-> Ttl, used |-> FALSE]
<1>1. n \notin DOMAIN byHash
  BY DEF Issue, MirrorInv, RecordsAreOwned
<1>2. new \in Record
  BY TtlAssumption DEF Record
<1>3. /\ DOMAIN byHash' = DOMAIN byHash \union {n}
      /\ byHash'[n] = new
      /\ \A t \in DOMAIN byHash : byHash'[t] = records[t]
      /\ IsMap(byHash', Tokens, Record)
  <2>1. byHash' = Put(records, n, new)
    BY DEF Issue
  <2> HIDE DEF new
  <2>2. QED
    BY <1>1, <1>2, <2>1 DEF Put, IsMap
<1>4. /\ DOMAIN families' = DOMAIN families \union {f}
      /\ families'[f] = MembersOf(f) \union {n}
      /\ \A g \in DOMAIN families \ {f} : families'[g] = families[g]
      /\ IsMap(families', Families, SUBSET Tokens)
  <2>1. MembersOf(f) \in SUBSET Tokens
    BY DEF MembersOf, MirrorInv, TypeOK, IsMap
  <2>2. QED
    BY <2>1 DEF Issue, Put, MirrorInv, TypeOK, IsMap
<1>5. minted' = minted \union {n}
  BY DEF Issue
<1>6. TypeOK'
  BY <1>3, <1>4, <1>5 DEF MirrorInv, TypeOK, Record
<1>7. IndexMirrorsRecords'
  <2>1. ASSUME NEW t \in DOMAIN byHash'
        PROVE  byHash'[t].familyId \in DOMAIN families' /\ t \in families'[byHash'[t].familyId]
    <3>1. CASE t = n
      BY <1>3, <1>4, <3>1
    <3>2. CASE t # n
      BY <1>3, <1>4, <2>1, <3>2, ListedTogether
    <3>3. QED
      BY <3>1, <3>2
  <2>2. ASSUME NEW g \in DOMAIN families', NEW t \in families'[g]
        PROVE  t \in DOMAIN byHash' /\ byHash'[t].familyId = g
    <3>1. CASE g = f
      BY <1>1, <1>3, <1>4, <2>2, <3>1, ListedTogether
    <3>2. CASE g # f
      BY <1>1, <1>3, <1>4, <2>2, <3>2 DEF MirrorInv, IndexMirrorsRecords
    <3>3. QED
      BY <3>1, <3>2
  <2>3. QED
    BY <2>1, <2>2 DEF IndexMirrorsRecords, MembersOf
<1>8. RecordsAreOwned'
  BY <1>1, <1>3, <1>4, <1>5 DEF MirrorInv, RecordsAreOwned
<1>9. QED
  BY <1>6, <1>7, <1>8 DEF MirrorInv

LEMMA CreateStep ==
    ASSUME MirrorInv, NEW u \in Users, NEW f \in Families, NEW n \in Tokens,
           CreateSession(u, f, n)
    PROVE  MirrorInv'
<1>1. \A t \in DOMAIN byHash : byHash[t].familyId # f
  BY ListedTogether DEF CreateSession, MirrorInv, RecordsAreOwned
<1>2. IsMap(opener', Families, Tokens) /\ DOMAIN opener' = DOMAIN opener \union {f}
  BY DEF CreateSession, Put, MirrorInv, TypeOK, IsMap
<1>3. IsMap(byHash, Tokens, Record)
  BY DEF MirrorInv, TypeOK, Record
<1>4. QED
  BY <1>1, <1>2, <1>3, IssueStep DEF CreateSession

LEMMA RotateStep ==
    ASSUME MirrorInv, NEW t \in Tokens, NEW n \in Tokens, RotateCurrent(t, n)
    PROVE  MirrorInv'
<1> DEFINE records == [byHash EXCEPT ![t].used = TRUE]
           f == byHash[t].familyId
           u == byHash[t].userId
<1>1. f \in Families /\ u \in Users /\ f \in DOMAIN opener
  BY ListedTogether DEF RotateCurrent, Record, MirrorInv, RecordsAreOwned
<1>2. /\ IsMap(records, Tokens, Record) /\ DOMAIN records = DOMAIN byHash
      /\ \A s \in DOMAIN byHash : /\ records[s].familyId = byHash[s].familyId
                                  /\ records[s].userId = byHash[s].userId
  BY ListedTogether DEF MirrorInv, TypeOK, IsMap, Record
<1>3. \A s \in DOMAIN byHash : byHash[s].familyId = f => byHash[s].userId = u
  BY DEF RotateCurrent, MirrorInv, RecordsAreOwned
<1>4. /\ Issue(records, u, f, n)
      /\ reply' = "rotated" /\ opener' = opener
      /\ IsMap(opener', Families, Tokens)
  BY DEF RotateCurrent, MirrorInv, TypeOK
<1>5. QED
  <2> HIDE DEF records, f, u
  <2>1. QED
    BY <1>1, <1>2, <1>3, <1>4, IssueStep

LEMMA ExpiredStep ==
    ASSUME MirrorInv, NEW t \in Tokens, RotateExpired(t)
    PROVE  MirrorInv'
<1> DEFINE f == byHash[t].familyId
<1>1. t \in DOMAIN byHash /\ f \in DOMAIN families
  BY ListedTogether DEF RotateExpired
<1>2. /\ byHash' = Drop(byHash, {t})
      /\ families' = [families EXCEPT ![f] = @ \ {t}]
      /\ reply' = "expired" /\ UNCHANGED <<minted, opener>>
  BY <1>1 DEF RotateExpired, Remove
<1>3. /\ DOMAIN byHash' = DOMAIN byHash \ {t}
      /\ \A s \in DOMAIN byHash' : byHash'[s] = byHash[s]
      /\ IsMap(byHash', Tokens, Record)
  BY <1>2 DEF Drop, Restrict, MirrorInv, TypeOK, IsMap, Record
<1>4. /\ DOMAIN families' = DOMAIN families
      /\ families'[f] = families[f] \ {t}
      /\ \A g \in DOMAIN families \ {f} : families'[g] = families[g]
      /\ IsMap(families', Families, SUBSET Tokens)
  BY <1>1, <1>2 DEF MirrorInv, TypeOK, IsMap
<1>5. TypeOK'
  BY <1>2, <1>3, <1>4 DEF MirrorInv, TypeOK, Record
<1>6. IndexMirrorsRecords'
  <2>1. ASSUME NEW s \in DOMAIN byHash'
        PROVE  byHash'[s].familyId \in DOMAIN families' /\ s \in families'[byHash'[s].familyId]
    BY <1>3, <1>4, ListedTogether
  <2>2. ASSUME NEW g \in DOMAIN families', NEW s \in families'[g]
        PROVE  s \in DOMAIN byHash' /\ byHash'[s].familyId = g
    <3>1. s \in families[g] /\ (g = f => s # t)
      BY <1>1, <1>4, <2>2
    <3>2. s \in DOMAIN byHash /\ byHash[s].familyId = g
      BY <1>4, <3>1 DEF MirrorInv, IndexMirrorsRecords
    <3>3. QED
      BY <1>3, <3>1, <3>2
  <2>3. QED
    BY <2>1, <2>2 DEF IndexMirrorsRecords, MembersOf
<1>7. RecordsAreOwned'
  <2>1. minted' = minted /\ opener' = opener
    BY <1>2
  <2>2. \A s \in DOMAIN byHash' : s \in DOMAIN byHash /\ byHash'[s] = byHash[s]
    BY <1>3
  <2>3. QED
    BY <1>4, <2>1, <2>2 DEF MirrorInv, RecordsAreOwned
<1>8. QED
  BY <1>5, <1>6, <1>7 DEF MirrorInv

LEMMA TickStep ==
    ASSUME MirrorInv, Tick
    PROVE  MirrorInv'
<1>1. /\ DOMAIN byHash' = DOMAIN byHash
      /\ \A t \in DOMAIN byHash : /\ byHash'[t].familyId = byHash[t].familyId
                                  /\ byHash'[t].userId = byHash[t].userId
                                  /\ byHash'[t].used = byHash[t].used
      /\ IsMap(byHash', Tokens, Record)
  BY TtlAssumption DEF Tick, MirrorInv, TypeOK, IsMap, Record
<1>2. UNCHANGED <<families, minted, opener, reply>>
  BY DEF Tick
<1>3. QED
  BY <1>1, <1>2 DEF MirrorInv, TypeOK, Record, IndexMirrorsRecords, MembersOf, RecordsAreOwned

LEMMA MirrorStep ==
    ASSUME MirrorInv, [Next]_vars
    PROVE  MirrorInv'
<1>1. CASE UNCHANGED vars
  BY <1>1 DEF vars, MirrorInv, TypeOK, IndexMirrorsRecords, MembersOf, RecordsAreOwned
<1>2. ASSUME NEW t \in Tokens, RotateUnknown(t)
      PROVE  MirrorInv'
  BY <1>2 DEF RotateUnknown, MirrorInv, TypeOK, IndexMirrorsRecords, MembersOf, RecordsAreOwned
<1>3. ASSUME NEW t \in Tokens, RotateReplayed(t)
      PROVE  MirrorInv'
  BY <1>3, BurnStep DEF RotateReplayed
<1>4. ASSUME NEW t \in Tokens, Revoke(t)
      PROVE  MirrorInv'
  <2>1. CASE t \in DOMAIN byHash
    BY <1>4, <2>1, BurnStep DEF Revoke
  <2>2. CASE t \notin DOMAIN byHash
    BY <1>4, <2>2 DEF Revoke, MirrorInv, TypeOK, IndexMirrorsRecords, MembersOf, RecordsAreOwned
  <2>3. QED
    BY <2>1, <2>2
<1>5. ASSUME NEW u \in Users, RevokeUser(u)
      PROVE  MirrorInv'
  BY <1>5, BurnStep DEF RevokeUser
<1>6. ASSUME Restart
      PROVE  MirrorInv'
  BY <1>6 DEF Restart, EmptyMap, MirrorInv, TypeOK, IsMap, IndexMirrorsRecords, MembersOf,
              RecordsAreOwned
<1>7. QED
  BY <1>1, <1>2, <1>3, <1>4, <1>5, <1>6, CreateStep, RotateStep, ExpiredStep, TickStep
     DEF Next, Rotate

\* The two maps of the store agree in every reachable state, and a family
\* belongs to one user.
THEOREM MapsAgree == Spec => []MirrorInv
<1>1. Init => MirrorInv
  BY DEF Init, EmptyMap, MirrorInv, TypeOK, IsMap, IndexMirrorsRecords, MembersOf,
         RecordsAreOwned
<1>2. MirrorInv /\ [Next]_vars => MirrorInv'
  BY MirrorStep
<1>3. QED
  BY <1>1, <1>2, PTL DEF Spec

\* Records, index and lifetimes are well formed (InMemorySessionStore).
THEOREM TypeCorrect == Spec => []TypeOK
<1>1. MirrorInv => TypeOK
  BY DEF MirrorInv
<1>2. QED
  BY <1>1, MapsAgree, PTL

\* revokeFamily reaches exactly the family's records, in every reachable state.
THEOREM IndexComplete == Spec => []IndexMirrorsRecords
<1>1. MirrorInv => IndexMirrorsRecords
  BY DEF MirrorInv
<1>2. QED
  BY <1>1, MapsAgree, PTL

\* A retired token of a live family burns it, however late it is presented
\* (session.store.ts:10-11).
THEOREM ReplaysBurn == Spec => ReplayBurnsFamily
<1>1. ASSUME MirrorInv, NEW f \in DOMAIN families, NEW t \in families[f]
      PROVE  (t \in DOMAIN byHash => byHash[t].used) /\ Rotate(t) => f \notin DOMAIN families'
  <2> HAVE (t \in DOMAIN byHash => byHash[t].used) /\ Rotate(t)
  <2>1. t \in DOMAIN byHash /\ byHash[t].familyId = f
    BY <1>1 DEF MirrorInv, IndexMirrorsRecords
  <2>2. RevokeFamilies({f})
    BY <2>1 DEF Rotate, RotateUnknown, RotateReplayed, RotateExpired, RotateCurrent
  <2>3. Burnt({f})
    BY <1>1, <2>2, BurnEffect
  <2>4. QED
    BY <2>3 DEF Burnt
<1>2. MirrorInv /\ [Next]_vars =>
          [\A f \in DOMAIN families : \A t \in families[f] :
              /\ t \in DOMAIN byHash => byHash[t].used
              /\ Rotate(t)
              => f \notin DOMAIN families']_vars
  BY <1>1
<1>3. QED
  BY <1>2, MapsAgree, PTL DEF Spec, ReplayBurnsFamily

\* revokeUser leaves no record of the user (session.store.ts:48).
THEOREM UserRevoked == Spec => RevokeUserRevokesAll
<1>1. ASSUME MirrorInv, NEW u \in Users, RevokeUser(u), NEW t \in DOMAIN byHash'
      PROVE  byHash'[t].userId # u
  <2>1. RevokeFamilies(FamiliesOfUser(u))
    BY <1>1 DEF RevokeUser
  <2>2. Burnt(FamiliesOfUser(u))
    BY <1>1, <2>1, BurnEffect
  <2>3. /\ t \in DOMAIN byHash /\ byHash'[t] = byHash[t]
        /\ byHash[t].familyId \notin FamiliesOfUser(u)
    BY <1>1, <2>2 DEF Burnt
  <2>4. QED
    BY <2>3 DEF FamiliesOfUser
<1>2. MirrorInv /\ [Next]_vars =>
          [\A u \in Users :
              RevokeUser(u) => \A t \in DOMAIN byHash' : byHash'[t].userId # u]_vars
  BY <1>1
<1>3. QED
  BY <1>2, MapsAgree, PTL DEF Spec, RevokeUserRevokesAll

----------------------------------------------------------------------------
(* The store implements SessionStore's Spec                                *)

\* What SessionStore sees of the records.
Held == [t \in DOMAIN byHash |->
            [family |-> byHash[t].familyId, user |-> byHash[t].userId, used |-> byHash[t].used]]

\* Tokens that leave the records leave SessionStore's map, and no other does.
LEMMA HeldDrops ==
    ASSUME NEW T, DOMAIN byHash' = DOMAIN byHash \ T,
           \A x \in DOMAIN byHash' : byHash'[x] = byHash[x]
    PROVE  Held' = Promise!Drop(Held, T)
<1>1. DOMAIN Held = DOMAIN byHash
  BY DEF Held
<1>2. Held' = [x \in DOMAIN Held \ T |-> Held[x]]
  BY <1>1 DEF Held
<1>3. QED
  BY <1>1, <1>2 DEF Promise!Drop, Promise!Restrict

LEMMA CreateHeld ==
    ASSUME NEW u \in Users, NEW f \in Families, NEW n \in Tokens, CreateSession(u, f, n)
    PROVE  Promise!CreateSession(u, f, n)
<1> DEFINE first == [family |-> f, user |-> u, used |-> FALSE]
<1>1. /\ DOMAIN byHash' = DOMAIN byHash \union {n}
      /\ byHash'[n].familyId = f /\ byHash'[n].userId = u /\ byHash'[n].used = FALSE
      /\ \A x \in DOMAIN byHash : x # n => byHash'[x] = byHash[x]
  BY DEF CreateSession, Issue, Put
<1>2. ASSUME NEW x \in DOMAIN byHash'
      PROVE  [family |-> byHash'[x].familyId, user |-> byHash'[x].userId,
              used |-> byHash'[x].used] = IF x = n THEN first ELSE Held[x]
  <2>1. CASE x = n
    BY <1>1, <2>1
  <2>2. CASE x # n
    BY <1>1, <2>2 DEF Held
  <2>3. QED
    BY <2>1, <2>2
<1>3. Held' = [x \in DOMAIN Held \union {n} |-> IF x = n THEN first ELSE Held[x]]
  <2>1. DOMAIN Held = DOMAIN byHash
    BY DEF Held
  <2>2. QED
    BY <1>1, <1>2, <2>1 DEF Held
<1>4. Held' = Promise!Put(Held, n, first)
  BY <1>3 DEF Promise!Put
<1>5. QED
  BY <1>4 DEF CreateSession, Issue, Promise!CreateSession, Held, Put, Promise!Put

LEMMA RotateHeld ==
    ASSUME MirrorInv, NEW t \in Tokens, NEW n \in Tokens, RotateCurrent(t, n)
    PROVE  Promise!RotateCurrent(t, n)
<1> DEFINE records == [byHash EXCEPT ![t].used = TRUE]
           retired == [Held EXCEPT ![t].used = TRUE]
<1>1. t \in DOMAIN byHash /\ byHash[t] \in Record /\ byHash[t].used = FALSE
  BY ListedTogether DEF RotateCurrent, Record
<1>2. /\ DOMAIN records = DOMAIN byHash
      /\ records[t].familyId = byHash[t].familyId
      /\ records[t].userId = byHash[t].userId
      /\ records[t].used = TRUE
      /\ \A x \in DOMAIN byHash : x # t => records[x] = byHash[x]
  BY <1>1 DEF Record
<1>3. /\ n \notin minted /\ minted' = minted \union {n} /\ n \notin DOMAIN byHash
      /\ byHash' = Put(records, n, [familyId |-> byHash[t].familyId,
                                    userId |-> byHash[t].userId, left |-> Ttl, used |-> FALSE])
  BY DEF RotateCurrent, Issue, MirrorInv, RecordsAreOwned
<1>4. /\ DOMAIN byHash' = DOMAIN byHash \union {n}
      /\ byHash'[n].familyId = byHash[t].familyId
      /\ byHash'[n].userId = byHash[t].userId
      /\ byHash'[n].used = FALSE
      /\ byHash'[t] = records[t]
      /\ \A x \in DOMAIN byHash : x # t => byHash'[x] = byHash[x]
  <2> HIDE DEF records
  <2>1. QED
    BY <1>1, <1>2, <1>3 DEF Put
<1>5. /\ DOMAIN Held = DOMAIN byHash
      /\ DOMAIN retired = DOMAIN byHash
      /\ Held[t] = [family |-> byHash[t].familyId, user |-> byHash[t].userId, used |-> FALSE]
      /\ retired[t] = [family |-> byHash[t].familyId, user |-> byHash[t].userId, used |-> TRUE]
      /\ \A x \in DOMAIN byHash : x # t => retired[x] = Held[x]
  BY <1>1 DEF Held
<1>6. ASSUME NEW x \in DOMAIN byHash'
      PROVE  [family |-> byHash'[x].familyId, user |-> byHash'[x].userId,
              used |-> byHash'[x].used] = IF x = n THEN Held[t] ELSE retired[x]
  <2> HIDE DEF records, retired
  <2>1. CASE x = n
    BY <1>4, <1>5, <2>1
  <2>2. CASE x = t
    BY <1>1, <1>2, <1>3, <1>4, <1>5, <2>2
  <2>3. CASE x # n /\ x # t
    BY <1>4, <1>5, <2>3 DEF Held
  <2>4. QED
    BY <2>1, <2>2, <2>3
<1>7. Held' = [x \in DOMAIN retired \union {n} |-> IF x = n THEN Held[t] ELSE retired[x]]
  BY <1>4, <1>5, <1>6 DEF Held
<1>8. Held' = Promise!Put(retired, n, Held[t])
  BY <1>7 DEF Promise!Put
<1>9. t \in DOMAIN Held /\ ~Held[t].used
  BY <1>1, <1>5
<1>10. reply' = "rotated" /\ opener' = opener
  BY DEF RotateCurrent
<1>11. QED
  BY <1>3, <1>8, <1>9, <1>10 DEF Promise!RotateCurrent, Held

\* A family that is revoked through the index loses the tokens SessionStore
\* says it has.
LEMMA BurnHeld ==
    ASSUME MirrorInv, NEW t \in DOMAIN byHash, RevokeFamilies({byHash[t].familyId})
    PROVE  Held' = Promise!Drop(Held, Promise!TokensOfFamily(Held[t].family))
<1> DEFINE T == {s \in DOMAIN byHash : byHash[s].familyId = byHash[t].familyId}
<1>1. Burnt({byHash[t].familyId})
  BY BurnEffect
<1>2. DOMAIN byHash' = DOMAIN byHash \ T /\ \A x \in DOMAIN byHash' : byHash'[x] = byHash[x]
  BY <1>1 DEF Burnt
<1>3. Held' = Promise!Drop(Held, T)
  BY <1>2, HeldDrops
<1>4. T = Promise!TokensOfFamily(Held[t].family)
  BY DEF Promise!TokensOfFamily, Held
<1>5. QED
  BY <1>3, <1>4

\* The families of a user hold his tokens and no one else's.
LEMMA RevokeUserHeld ==
    ASSUME MirrorInv, NEW u \in Users, RevokeUser(u)
    PROVE  Promise!RevokeUser(u)
<1> DEFINE T == {t \in DOMAIN byHash : byHash[t].userId = u}
<1>1. RevokeFamilies(FamiliesOfUser(u))
  BY DEF RevokeUser
<1>2. Burnt(FamiliesOfUser(u))
  BY <1>1, BurnEffect
<1>3. \A t \in DOMAIN byHash : byHash[t].familyId \in FamiliesOfUser(u) <=> t \in T
  BY DEF FamiliesOfUser, MirrorInv, RecordsAreOwned
<1>4. DOMAIN byHash' = DOMAIN byHash \ T /\ \A x \in DOMAIN byHash' : byHash'[x] = byHash[x]
  BY <1>2, <1>3 DEF Burnt
<1>5. Held' = Promise!Drop(Held, T)
  BY <1>4, HeldDrops
<1>6. T = Promise!TokensOfUser(u)
  BY DEF Promise!TokensOfUser
<1>7. QED
  BY <1>5, <1>6 DEF RevokeUser, Promise!RevokeUser, Held

LEMMA ExpiredHeld ==
    ASSUME MirrorInv, NEW t \in Tokens, RotateExpired(t)
    PROVE  Promise!Lapse({t})
<1>1. DOMAIN byHash' = DOMAIN byHash \ {t} /\ \A x \in DOMAIN byHash' : byHash'[x] = byHash[x]
  BY DEF RotateExpired, Remove, Drop, Restrict
<1>2. Held' = Promise!Drop(Held, {t})
  BY <1>1, HeldDrops
<1>3. {t} \subseteq DOMAIN Held /\ ~Held[t].used
  BY DEF RotateExpired, Held
<1>4. QED
  BY <1>2, <1>3 DEF RotateExpired, Promise!Lapse, Held

LEMMA RestartHeld ==
    ASSUME MirrorInv, Restart
    PROVE  \E T \in SUBSET Tokens : Promise!Lapse(T)
<1>1. PICK T \in SUBSET Tokens : T = DOMAIN byHash
  BY DEF MirrorInv, TypeOK, IsMap
<1>2. DOMAIN byHash' = DOMAIN byHash \ T /\ \A x \in DOMAIN byHash' : byHash'[x] = byHash[x]
  BY <1>1 DEF Restart, EmptyMap
<1>3. Held' = Promise!Drop(Held, T)
  BY <1>2, HeldDrops
<1>4. T \subseteq DOMAIN Held
  BY <1>1 DEF Held
<1>5. \A t \in T : Promise!TokensOfFamily(Held[t].family) \subseteq T
  BY <1>1 DEF Promise!TokensOfFamily
<1>6. Promise!Lapse(T)
  BY <1>3, <1>4, <1>5 DEF Restart, Promise!Lapse, Held
<1>7. QED
  BY <1>6

LEMMA TickHeld ==
    ASSUME MirrorInv, Tick
    PROVE  UNCHANGED <<Held, minted, opener, reply>>
<1>1. DOMAIN byHash' = DOMAIN byHash
  BY DEF Tick
<1>2. ASSUME NEW t \in DOMAIN byHash
      PROVE  /\ byHash'[t].familyId = byHash[t].familyId
             /\ byHash'[t].userId = byHash[t].userId
             /\ byHash'[t].used = byHash[t].used
  BY ListedTogether DEF Tick, Record
<1>3. Held' = Held
  BY <1>1, <1>2 DEF Held
<1>4. QED
  BY <1>3 DEF Tick

\* Every step of the store is one that the documented interface allows
\* (session.store.ts:35-49).
THEOREM StoreKeepsPromise == Spec => KeepsPromise
<1>1. Init => Promise!Init
  BY DEF Init, Promise!Init, EmptyMap, Promise!EmptyMap
<1>2. ASSUME MirrorInv, [Next]_vars
      PROVE  [Promise!Next]_(Promise!vars)
  <2>1. ASSUME NEW u \in Users, NEW f \in Families, NEW n \in Tokens, CreateSession(u, f, n)
        PROVE  Promise!Next
    BY <2>1, CreateHeld DEF Promise!Next
  <2>2. ASSUME NEW t \in Tokens, RotateUnknown(t)
        PROVE  Promise!Next
    <3>1. Promise!RotateUnknown(t)
      BY <2>2 DEF RotateUnknown, Promise!RotateUnknown
    <3>2. QED
      BY <3>1 DEF Promise!Next, Promise!Rotate
  <2>3. ASSUME NEW t \in Tokens, RotateReplayed(t)
        PROVE  Promise!Next
    <3>1. Held' = Promise!Drop(Held, Promise!TokensOfFamily(Held[t].family))
      BY <1>2, <2>3, BurnHeld DEF RotateReplayed
    <3>2. Promise!RotateReplayed(t)
      BY <2>3, <3>1 DEF RotateReplayed, Promise!RotateReplayed, Held
    <3>3. QED
      BY <3>2 DEF Promise!Next, Promise!Rotate
  <2>4. ASSUME NEW t \in Tokens, NEW n \in Tokens, RotateCurrent(t, n)
        PROVE  Promise!Next
    BY <1>2, <2>4, RotateHeld DEF Promise!Next, Promise!Rotate
  <2>5. ASSUME NEW t \in Tokens, RotateExpired(t)
        PROVE  Promise!Next
    BY <1>2, <2>5, ExpiredHeld DEF Promise!Next
  <2>6. ASSUME NEW t \in Tokens, Revoke(t)
        PROVE  Promise!Next
    <3>1. CASE t \in DOMAIN byHash
      <4>1. Held' = Promise!Drop(Held, Promise!TokensOfFamily(Held[t].family))
        BY <1>2, <2>6, <3>1, BurnHeld DEF Revoke
      <4>2. Promise!Revoke(t)
        BY <2>6, <3>1, <4>1 DEF Revoke, Promise!Revoke, Held
      <4>3. QED
        BY <4>2 DEF Promise!Next
    <3>2. CASE t \notin DOMAIN byHash
      <4>1. Promise!Revoke(t)
        BY <2>6, <3>2 DEF Revoke, Promise!Revoke
      <4>2. QED
        BY <4>1 DEF Promise!Next
    <3>3. QED
      BY <3>1, <3>2
  <2>7. ASSUME NEW u \in Users, RevokeUser(u)
        PROVE  Promise!Next
    BY <1>2, <2>7, RevokeUserHeld DEF Promise!Next
  <2>8. ASSUME Tick
        PROVE  UNCHANGED Promise!vars
    BY <1>2, <2>8, TickHeld DEF Promise!vars, Held
  <2>9. ASSUME Restart
        PROVE  Promise!Next
    BY <1>2, <2>9, RestartHeld DEF Promise!Next
  <2>10. CASE UNCHANGED vars
    BY <2>10 DEF vars, Promise!vars
  <2>11. QED
    BY <1>2, <2>1, <2>2, <2>3, <2>4, <2>5, <2>6, <2>7, <2>8, <2>9, <2>10 DEF Next, Rotate
<1>3. QED
  BY <1>1, <1>2, MapsAgree, PTL DEF Spec, KeepsPromise, Promise!Spec
=============================================================================
