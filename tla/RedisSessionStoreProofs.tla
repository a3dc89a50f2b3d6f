---------------------- MODULE RedisSessionStoreProofs -----------------------
(***************************************************************************)
(* Proofs about RedisSessionStore, and about RedisSnapshots, which puts it  *)
(* on the Redis that crashes, for any sets of users, families and tokens   *)
(* and any positive time to live.                                          *)
(***************************************************************************)
EXTENDS RedisSnapshots, TLAPS

----------------------------------------------------------------------------
(* Types                                                                   *)

LEMMA PutIsMap ==
    ASSUME NEW K, NEW V, NEW m, IsMap(m, K, V), NEW k \in K, NEW v \in V
    PROVE  /\ IsMap(Put(m, k, v), K, V)
           /\ DOMAIN Put(m, k, v) = DOMAIN m \union {k}
           /\ Put(m, k, v)[k] = v
           /\ \A x \in DOMAIN m : x # k => Put(m, k, v)[x] = m[x]
BY DEF IsMap, Put

LEMMA DropIsMap ==
    ASSUME NEW K, NEW V, NEW m, IsMap(m, K, V), NEW D
    PROVE  /\ IsMap(Drop(m, D), K, V)
           /\ DOMAIN Drop(m, D) = DOMAIN m \ D
           /\ \A x \in DOMAIN m \ D : Drop(m, D)[x] = m[x]
BY DEF IsMap, Drop, Restrict

FamilyRecord == [members : SUBSET Tokens, ttl : 1..Ttl]
IndexRecord == [fams : SUBSET Families, ttl : 1..Ttl]

LEMMA AgedTypes ==
    ASSUME TypeOK
    PROVE  /\ IsMap(Aged(refresh), Tokens, Record)
           /\ IsMap(Aged(family), Families, FamilyRecord)
           /\ IsMap(Aged(userfam), Users, IndexRecord)
BY TtlAssumption DEF TypeOK, IsMap, Aged, Record, FamilyRecord, IndexRecord

LEMMA MembersTypes ==
    ASSUME TypeOK
    PROVE  /\ \A f : MembersOf(f) \in SUBSET Tokens
           /\ \A u : FamsOf(u) \in SUBSET Families
BY DEF TypeOK, IsMap, MembersOf, FamsOf

LEMMA UnlistedType ==
    ASSUME TypeOK, NEW u, NEW f
    PROVE  IsMap(Unlisted(u, f), Users, IndexRecord)
<1>1. CASE FamsOf(u) \subseteq {f}
  BY <1>1, DropIsMap DEF TypeOK, Unlisted, IndexRecord
<1>2. CASE ~(FamsOf(u) \subseteq {f})
  <2>1. u \in DOMAIN userfam
    BY <1>2 DEF FamsOf
  <2>2. QED
    BY <1>2, <2>1 DEF TypeOK, Unlisted, IsMap, IndexRecord
<1>3. QED
  BY <1>1, <1>2

\* Every operation leaves the keys well formed.
LEMMA TypeStep ==
    ASSUME TypeOK, [Next]_vars
    PROVE  TypeOK'
<1> USE TtlAssumption
<1> USE DEF Record, FamilyRecord, IndexRecord
<1>1. ASSUME NEW u \in Users, NEW f \in Families, NEW n \in Tokens, CreateSession(u, f, n)
      PROVE  TypeOK'
  <2>1. IsMap(refresh', Tokens, Record)
    <3>1. [familyId |-> f, userId |-> u, used |-> FALSE, ttl |-> Ttl] \in Record
      OBVIOUS
    <3>2. QED
      BY <1>1, <3>1, PutIsMap DEF CreateSession, TypeOK
  <2>2. IsMap(family', Families, FamilyRecord)
    <3>1. [members |-> {n}, ttl |-> Ttl] \in FamilyRecord
      OBVIOUS
    <3>2. QED
      BY <1>1, <3>1, PutIsMap DEF CreateSession, TypeOK
  <2>3. IsMap(userfam', Users, IndexRecord)
    <3>1. [fams |-> FamsOf(u) \union {f}, ttl |-> Ttl] \in IndexRecord
      BY MembersTypes
    <3>2. QED
      BY <1>1, <3>1, PutIsMap DEF CreateSession, TypeOK
  <2>4. IsMap(opener', Families, Tokens)
    BY <1>1, PutIsMap DEF CreateSession, TypeOK
  <2>5. QED
    BY <1>1, <2>1, <2>2, <2>3, <2>4 DEF CreateSession, TypeOK
<1>2. ASSUME NEW t \in Tokens, RotateUnknown(t)
      PROVE  TypeOK'
  BY <1>2 DEF RotateUnknown, TypeOK, keys
<1>3. ASSUME NEW f, NEW u, BurnFamily(f, u)
      PROVE  /\ IsMap(refresh', Tokens, Record)
             /\ IsMap(family', Families, FamilyRecord)
             /\ IsMap(userfam', Users, IndexRecord)
  BY <1>3, DropIsMap, UnlistedType DEF BurnFamily, TypeOK
<1>4. ASSUME NEW t \in Tokens, RotateReplayed(t)
      PROVE  TypeOK'
  BY <1>3, <1>4 DEF RotateReplayed, TypeOK
<1>5. ASSUME NEW t \in Tokens, NEW n \in Tokens, RotateCurrent(t, n)
      PROVE  TypeOK'
  <2>1. t \in DOMAIN refresh /\ refresh[t] \in Record
    BY <1>5 DEF RotateCurrent, Rotated, TypeOK, IsMap
  <2>2. IsMap(Retired(t), Tokens, Record)
    BY <2>1 DEF TypeOK, IsMap, Retired
  <2>3. [familyId |-> refresh[t].familyId, userId |-> refresh[t].userId,
         used |-> FALSE, ttl |-> Ttl] \in Record
    BY <2>1
  <2>4. IsMap(refresh', Tokens, Record)
    BY <1>5, <2>2, <2>3, PutIsMap DEF RotateCurrent, Rotated
  <2>5. FamilyWith(t, n) \in FamilyRecord
    BY MembersTypes DEF FamilyWith
  <2>6. IsMap(family', Families, FamilyRecord)
    BY <1>5, <2>1, <2>5, PutIsMap DEF RotateCurrent, Rotated, TypeOK
  <2>7. QED
    BY <1>5, <2>4, <2>6 DEF RotateCurrent, Rotated, TypeOK
<1>6. ASSUME NEW t \in Tokens, Revoke(t)
      PROVE  TypeOK'
  BY <1>3, <1>6 DEF Revoke, TypeOK, keys
<1>7. ASSUME NEW u \in Users, RevokeUser(u)
      PROVE  TypeOK'
  BY <1>7, DropIsMap DEF RevokeUser, TypeOK
<1>8. ASSUME Tick
      PROVE  TypeOK'
  BY <1>8, AgedTypes DEF Tick, TypeOK
<1>9. CASE UNCHANGED vars
  BY <1>9 DEF vars, TypeOK
<1>10. QED
  BY <1>1, <1>2, <1>4, <1>5, <1>6, <1>7, <1>8, <1>9 DEF Next, Rotate

\* The type invariant holds in every state of the store.
THEOREM TypeCorrect == Spec => []TypeOK
<1>1. Init => TypeOK
  BY DEF Init, TypeOK, IsMap, EmptyMap
<1>2. TypeOK /\ [Next]_vars => TypeOK'
  BY TypeStep
<1>3. QED
  BY <1>1, <1>2, PTL DEF Spec

----------------------------------------------------------------------------
(* What each operation does to the keys, pointwise                         *)

Created(u, f, n) ==
    /\ f \notin DOMAIN opener
    /\ n \notin minted
    /\ DOMAIN refresh' = DOMAIN refresh \union {n}
    /\ refresh'[n].familyId = f
    /\ refresh'[n].userId = u
    /\ ~refresh'[n].used
    /\ refresh'[n].ttl = Ttl
    /\ \A t \in DOMAIN refresh : t # n => refresh'[t] = refresh[t]
    /\ DOMAIN family' = DOMAIN family \union {f}
    /\ family'[f].members = {n}
    /\ family'[f].ttl = Ttl
    /\ \A g \in DOMAIN family : g # f => family'[g] = family[g]
    /\ DOMAIN userfam' = DOMAIN userfam \union {u}
    /\ userfam'[u].fams = FamsOf(u) \union {f}
    /\ userfam'[u].ttl = Ttl
    /\ \A v \in DOMAIN userfam : v # u => userfam'[v] = userfam[v]
    /\ DOMAIN opener' = DOMAIN opener \union {f}
    /\ opener'[f] = n
    /\ \A g \in DOMAIN opener : g # f => opener'[g] = opener[g]
    /\ minted' = minted \union {n}

LEMMA CreateEffect ==
    ASSUME NEW u \in Users, NEW f \in Families, NEW n \in Tokens, CreateSession(u, f, n)
    PROVE  Created(u, f, n)
BY DEF CreateSession, Put, Created

RotatedTo(t, n) ==
    LET f == refresh[t].familyId
    IN  /\ t \in DOMAIN refresh
        /\ ~refresh[t].used
        /\ n \notin minted
        /\ n \notin DOMAIN refresh
        /\ DOMAIN refresh' = DOMAIN refresh \union {n}
        /\ refresh'[n].familyId = f
        /\ refresh'[n].userId = refresh[t].userId
        /\ ~refresh'[n].used
        /\ refresh'[n].ttl = Ttl
        /\ refresh'[t].familyId = f
        /\ refresh'[t].userId = refresh[t].userId
        /\ refresh'[t].used
        /\ refresh'[t].ttl = refresh[t].ttl
        /\ \A s \in DOMAIN refresh : s # t => refresh'[s] = refresh[s]
        /\ DOMAIN family' = DOMAIN family \union {f}
        /\ family'[f].members = MembersOf(f) \union {n}
        /\ family'[f].ttl = Ttl
        /\ \A g \in DOMAIN family : g # f => family'[g] = family[g]
        /\ userfam' = userfam
        /\ opener' = opener
        /\ minted' = minted \union {n}

LEMMA RotateEffect ==
    ASSUME TypeOK, NEW t \in Tokens, NEW n \in Tokens, RotateCurrent(t, n),
           DOMAIN refresh \subseteq minted
    PROVE  RotatedTo(t, n)
<1>1. t \in DOMAIN refresh /\ refresh[t] \in Record
  BY DEF RotateCurrent, Rotated, TypeOK, IsMap
<1>2. /\ DOMAIN Retired(t) = DOMAIN refresh
      /\ Retired(t)[t].familyId = refresh[t].familyId
      /\ Retired(t)[t].userId = refresh[t].userId
      /\ Retired(t)[t].used
      /\ Retired(t)[t].ttl = refresh[t].ttl
      /\ \A s \in DOMAIN refresh : s # t => Retired(t)[s] = refresh[s]
  BY <1>1 DEF Retired, Record
<1>3. QED
  BY <1>1, <1>2 DEF RotateCurrent, Rotated, Put, FamilyWith, RotatedTo

\* The families F are gone, with every token of theirs and no other token.
Removed(F) ==
    /\ DOMAIN refresh' = {t \in DOMAIN refresh : refresh[t].familyId \notin F}
    /\ \A t \in DOMAIN refresh' : refresh'[t] = refresh[t]
    /\ DOMAIN family' = DOMAIN family \ F
    /\ \A g \in DOMAIN family' : family'[g] = family[g]
    /\ DOMAIN userfam' \subseteq DOMAIN userfam
    /\ \A v \in DOMAIN userfam' :
           /\ userfam'[v].fams \subseteq userfam[v].fams
           /\ userfam'[v].ttl = userfam[v].ttl
    /\ \A v \in DOMAIN userfam : \A g \in userfam[v].fams \ F :
           v \in DOMAIN userfam' /\ g \in userfam'[v].fams

\* A family's set names the family's recorded tokens, all and only.
LEMMA MembersAreTokens ==
    ASSUME IndexInv, NEW f, NEW t \in DOMAIN refresh
    PROVE  t \in MembersOf(f) <=> refresh[t].familyId = f
<1>1. CASE f \in DOMAIN family
  BY <1>1 DEF MembersOf, IndexInv, FamilySetIsComplete, KeysNameEachOther
<1>2. CASE f \notin DOMAIN family
  BY <1>2 DEF MembersOf, IndexInv, FamilySetIsComplete
<1>3. QED
  BY <1>1, <1>2

LEMMA BurnEffect ==
    ASSUME IndexInv, NEW f, NEW u, BurnFamily(f, u)
    PROVE  Removed({f})
<1>1. /\ DOMAIN refresh' = DOMAIN refresh \ MembersOf(f)
      /\ \A t \in DOMAIN refresh' : refresh'[t] = refresh[t]
      /\ DOMAIN family' = DOMAIN family \ {f}
      /\ \A g \in DOMAIN family' : family'[g] = family[g]
  BY DEF BurnFamily, Drop, Restrict
<1>2. DOMAIN refresh' = {t \in DOMAIN refresh : refresh[t].familyId \notin {f}}
  BY <1>1, MembersAreTokens
<1>3. userfam' = Unlisted(u, f)
  BY DEF BurnFamily
<1>4. CASE FamsOf(u) \subseteq {f}
  BY <1>1, <1>2, <1>3, <1>4 DEF Removed, Unlisted, Drop, Restrict, FamsOf
<1>5. CASE ~(FamsOf(u) \subseteq {f})
  <2>1. u \in DOMAIN userfam /\ userfam[u] \in IndexRecord
    BY <1>5 DEF FamsOf, IndexInv, TypeOK, IsMap, IndexRecord
  <2>2. /\ DOMAIN userfam' = DOMAIN userfam
        /\ userfam'[u] = [userfam[u] EXCEPT !.fams = @ \ {f}]
        /\ \A v \in DOMAIN userfam : v # u => userfam'[v] = userfam[v]
    BY <1>3, <1>5, <2>1 DEF Unlisted
  <2>3. userfam'[u].fams = userfam[u].fams \ {f} /\ userfam'[u].ttl = userfam[u].ttl
    BY <2>1, <2>2 DEF IndexRecord
  <2>4. QED
    BY <1>1, <1>2, <2>2, <2>3 DEF Removed
<1>6. QED
  BY <1>4, <1>5

LEMMA RevokeUserEffect ==
    ASSUME IndexInv, NEW u \in Users, RevokeUser(u)
    PROVE  Removed(FamsOf(u))
<1>1. /\ DOMAIN refresh' = DOMAIN refresh \ UNION {MembersOf(f) : f \in FamsOf(u)}
      /\ \A t \in DOMAIN refresh' : refresh'[t] = refresh[t]
      /\ DOMAIN family' = DOMAIN family \ FamsOf(u)
      /\ \A g \in DOMAIN family' : family'[g] = family[g]
      /\ DOMAIN userfam' = DOMAIN userfam \ {u}
      /\ \A v \in DOMAIN userfam' : userfam'[v] = userfam[v]
  BY DEF RevokeUser, Drop, Restrict
<1>2. \A t \in DOMAIN refresh :
          t \in UNION {MembersOf(f) : f \in FamsOf(u)} <=> refresh[t].familyId \in FamsOf(u)
  BY MembersAreTokens
<1>3. DOMAIN refresh' = {t \in DOMAIN refresh : refresh[t].familyId \notin FamsOf(u)}
  BY <1>1, <1>2
<1>4. QED
  BY <1>1, <1>3 DEF Removed, FamsOf

Ticked ==
    /\ DOMAIN refresh' = {t \in DOMAIN refresh : refresh[t].ttl > 1}
    /\ \A t \in DOMAIN refresh' :
           /\ refresh'[t].familyId = refresh[t].familyId
           /\ refresh'[t].userId = refresh[t].userId
           /\ refresh'[t].used = refresh[t].used
           /\ refresh'[t].ttl = refresh[t].ttl - 1
    /\ DOMAIN family' = {f \in DOMAIN family : family[f].ttl > 1}
    /\ \A f \in DOMAIN family' :
           /\ family'[f].members = family[f].members
           /\ family'[f].ttl = family[f].ttl - 1
    /\ DOMAIN userfam' = {u \in DOMAIN userfam : userfam[u].ttl > 1}
    /\ \A u \in DOMAIN userfam' :
           /\ userfam'[u].fams = userfam[u].fams
           /\ userfam'[u].ttl = userfam[u].ttl - 1
    /\ minted' = minted
    /\ opener' = opener

LEMMA TickEffect ==
    ASSUME TypeOK, Tick
    PROVE  Ticked
BY DEF Tick, Aged, TypeOK, IsMap, Record, Ticked

----------------------------------------------------------------------------
(* The index invariant                                                     *)

LEMMA CreateKeepsIndex ==
    ASSUME IndexInv, TypeOK', NEW u \in Users, NEW f \in Families, NEW n \in Tokens,
           CreateSession(u, f, n)
    PROVE  IndexInv'
<1>1. Created(u, f, n) /\ TypeOK
  BY CreateEffect DEF IndexInv
<1>2. n \notin DOMAIN refresh /\ f \notin DOMAIN family
  BY <1>1 DEF Created, IndexInv, KeysNameEachOther
<1>3. \A t \in DOMAIN refresh : refresh[t].familyId # f
  BY <1>2 DEF IndexInv, FamilySetIsComplete
<1>4. FamilySetIsComplete'
  BY <1>1, <1>2, <1>3, TtlAssumption DEF Created, IndexInv, FamilySetIsComplete
<1>5. OneCurrentToken'
  <2>1. SUFFICES ASSUME NEW g \in DOMAIN family'
                 PROVE  \E t \in DOMAIN refresh' :
                            /\ refresh'[t].familyId = g
                            /\ ~refresh'[t].used
                            /\ refresh'[t].ttl = family'[g].ttl
                            /\ \A s \in DOMAIN refresh' :
                                   refresh'[s].familyId = g /\ ~refresh'[s].used => s = t
    BY DEF OneCurrentToken
  <2>2. CASE g = f
    <3>1. /\ n \in DOMAIN refresh'
          /\ refresh'[n].familyId = f
          /\ ~refresh'[n].used
          /\ refresh'[n].ttl = family'[f].ttl
      BY <1>1 DEF Created
    <3>2. \A s \in DOMAIN refresh' : refresh'[s].familyId = f => s = n
      BY <1>1, <1>3 DEF Created
    <3>3. QED
      BY <2>2, <3>1, <3>2
  <2>3. CASE g # f
    <3>1. g \in DOMAIN family /\ family'[g] = family[g]
      BY <1>1, <2>3 DEF Created
    <3>2. PICK t \in DOMAIN refresh :
              /\ refresh[t].familyId = g
              /\ ~refresh[t].used
              /\ refresh[t].ttl = family[g].ttl
              /\ \A s \in DOMAIN refresh :
                     refresh[s].familyId = g /\ ~refresh[s].used => s = t
      BY <3>1 DEF IndexInv, OneCurrentToken
    <3>3. t \in DOMAIN refresh' /\ refresh'[t] = refresh[t]
      BY <1>1, <1>2 DEF Created
    <3>4. \A s \in DOMAIN refresh' :
              refresh'[s].familyId = g /\ ~refresh'[s].used => s = t
      BY <1>1, <2>3, <3>2 DEF Created
    <3>5. QED
      BY <3>1, <3>2, <3>3, <3>4
  <2>4. QED
    BY <2>2, <2>3
<1>6. RecentLoginIsListed'
  <2>1. SUFFICES ASSUME NEW g \in DOMAIN opener', NEW t \in DOMAIN refresh',
                        opener'[g] = t
                 PROVE  /\ refresh'[t].userId \in DOMAIN userfam'
                        /\ g \in userfam'[refresh'[t].userId].fams
                        /\ refresh'[t].ttl <= userfam'[refresh'[t].userId].ttl
    BY DEF RecentLoginIsListed
  <2>2. CASE g = f
    BY <1>1, <2>1, <2>2, TtlAssumption DEF Created
  <2>3. CASE g # f
    <3>1. g \in DOMAIN opener /\ opener[g] = t /\ t # n
      BY <1>1, <2>1, <2>3 DEF Created, IndexInv, KeysNameEachOther
    <3>2. t \in DOMAIN refresh /\ refresh'[t] = refresh[t]
      BY <1>1, <3>1 DEF Created
    <3>3. /\ refresh[t].userId \in DOMAIN userfam
          /\ g \in userfam[refresh[t].userId].fams
          /\ refresh[t].ttl <= userfam[refresh[t].userId].ttl
      BY <3>1, <3>2 DEF IndexInv, RecentLoginIsListed
    <3>4. refresh[t].ttl \in 1..Ttl
      BY <1>1, <3>2 DEF TypeOK, IsMap, Record
    <3>5. CASE refresh[t].userId = u
      BY <1>1, <3>2, <3>3, <3>4, <3>5, TtlAssumption DEF Created, FamsOf
    <3>6. CASE refresh[t].userId # u
      BY <1>1, <3>2, <3>3, <3>6 DEF Created
    <3>7. QED
      BY <3>5, <3>6
  <2>4. QED
    BY <2>2, <2>3
<1>7. IndexNamesOwnFamilies'
  <2>1. SUFFICES ASSUME NEW v \in DOMAIN userfam', NEW t \in DOMAIN refresh',
                        refresh'[t].familyId \in userfam'[v].fams
                 PROVE  refresh'[t].userId = v
    BY DEF IndexNamesOwnFamilies
  <2>2. CASE t = n
    <3>1. CASE v = u
      BY <1>1, <2>2, <3>1 DEF Created
    <3>2. CASE v # u
      BY <1>1, <2>1, <2>2, <3>2 DEF Created, IndexInv, KeysNameEachOther
    <3>3. QED
      BY <3>1, <3>2
  <2>3. CASE t # n
    <3>1. t \in DOMAIN refresh /\ refresh'[t] = refresh[t] /\ refresh[t].familyId # f
      BY <1>1, <1>3, <2>3 DEF Created
    <3>2. v \in DOMAIN userfam /\ refresh[t].familyId \in userfam[v].fams
      BY <1>1, <2>1, <3>1 DEF Created, FamsOf
    <3>3. QED
      BY <3>1, <3>2 DEF IndexInv, IndexNamesOwnFamilies
  <2>4. QED
    BY <2>2, <2>3
<1>8. KeysNameEachOther'
  <2>1. \A g \in DOMAIN family' : \A t \in family'[g].members :
            t \in minted' /\ (t \in DOMAIN refresh' => refresh'[t].familyId = g)
    BY <1>1, <1>2, <1>3 DEF Created, IndexInv, KeysNameEachOther
  <2>2. /\ DOMAIN refresh' \subseteq minted'
        /\ DOMAIN family' \subseteq DOMAIN opener'
    BY <1>1 DEF Created, IndexInv, KeysNameEachOther
  <2>3. \A v \in DOMAIN userfam' : userfam'[v].fams \subseteq DOMAIN opener'
    BY <1>1 DEF Created, IndexInv, KeysNameEachOther, FamsOf
  <2>4. \A g \in DOMAIN opener' :
            /\ opener'[g] \in minted'
            /\ opener'[g] \in DOMAIN refresh' => refresh'[opener'[g]].familyId = g
    BY <1>1 DEF Created, IndexInv, KeysNameEachOther
  <2>5. QED
    BY <2>1, <2>2, <2>3, <2>4 DEF KeysNameEachOther
<1>9. QED
  BY <1>4, <1>5, <1>6, <1>7, <1>8 DEF IndexInv

LEMMA RotateKeepsIndex ==
    ASSUME IndexInv, TypeOK', NEW t \in Tokens, NEW n \in Tokens, RotateCurrent(t, n)
    PROVE  IndexInv'
<1> DEFINE f == refresh[t].familyId
<1>1. RotatedTo(t, n) /\ TypeOK
  BY RotateEffect DEF IndexInv, KeysNameEachOther
<1>2. f \in DOMAIN family /\ MembersOf(f) = family[f].members
  BY <1>1 DEF RotatedTo, IndexInv, FamilySetIsComplete, MembersOf
<1>3. \A s \in DOMAIN refresh : refresh[s].familyId = f /\ ~refresh[s].used => s = t
  BY <1>1, <1>2 DEF RotatedTo, IndexInv, OneCurrentToken
<1>4. \A s \in DOMAIN refresh : refresh[s].ttl \in 1..Ttl
  BY <1>1 DEF TypeOK, IsMap, Record
<1>5. FamilySetIsComplete'
  <2>1. SUFFICES ASSUME NEW s \in DOMAIN refresh'
                 PROVE  /\ refresh'[s].familyId \in DOMAIN family'
                        /\ s \in family'[refresh'[s].familyId].members
                        /\ refresh'[s].ttl <= family'[refresh'[s].familyId].ttl
    BY DEF FamilySetIsComplete
  <2>2. CASE s = n
    BY <1>1, <2>2, TtlAssumption DEF RotatedTo
  <2>3. CASE s # n
    <3>1. /\ s \in DOMAIN refresh
          /\ refresh'[s].familyId = refresh[s].familyId
          /\ refresh'[s].ttl = refresh[s].ttl
      BY <1>1, <2>3 DEF RotatedTo
    <3>2. /\ refresh[s].familyId \in DOMAIN family
          /\ s \in family[refresh[s].familyId].members
          /\ refresh[s].ttl <= family[refresh[s].familyId].ttl
      BY <3>1 DEF IndexInv, FamilySetIsComplete
    <3>3. CASE refresh[s].familyId = f
      BY <1>1, <1>2, <1>4, <3>1, <3>2, <3>3, TtlAssumption DEF RotatedTo
    <3>4. CASE refresh[s].familyId # f
      BY <1>1, <3>1, <3>2, <3>4 DEF RotatedTo
    <3>5. QED
      BY <3>3, <3>4
  <2>4. QED
    BY <2>2, <2>3
<1>6. OneCurrentToken'
  <2>1. SUFFICES ASSUME NEW g \in DOMAIN family'
                 PROVE  \E c \in DOMAIN refresh' :
                            /\ refresh'[c].familyId = g
                            /\ ~refresh'[c].used
                            /\ refresh'[c].ttl = family'[g].ttl
                            /\ \A s \in DOMAIN refresh' :
                                   refresh'[s].familyId = g /\ ~refresh'[s].used => s = c
    BY DEF OneCurrentToken
  <2>2. CASE g = f
    <3>1. /\ n \in DOMAIN refresh'
          /\ refresh'[n].familyId = g
          /\ ~refresh'[n].used
          /\ refresh'[n].ttl = family'[g].ttl
      BY <1>1, <2>2 DEF RotatedTo
    <3>2. \A s \in DOMAIN refresh' : refresh'[s].familyId = g /\ ~refresh'[s].used => s = n
      BY <1>1, <1>3, <2>2 DEF RotatedTo
    <3>3. QED
      BY <3>1, <3>2
  <2>3. CASE g # f
    <3>1. g \in DOMAIN family /\ family'[g] = family[g]
      BY <1>1, <2>3 DEF RotatedTo
    <3>2. PICK c \in DOMAIN refresh :
              /\ refresh[c].familyId = g
              /\ ~refresh[c].used
              /\ refresh[c].ttl = family[g].ttl
              /\ \A s \in DOMAIN refresh :
                     refresh[s].familyId = g /\ ~refresh[s].used => s = c
      BY <3>1 DEF IndexInv, OneCurrentToken
    <3>3. c \in DOMAIN refresh' /\ refresh'[c] = refresh[c]
      BY <1>1, <2>3, <3>2 DEF RotatedTo
    <3>4. \A s \in DOMAIN refresh' :
              refresh'[s].familyId = g /\ ~refresh'[s].used => s = c
      BY <1>1, <2>3, <3>2 DEF RotatedTo
    <3>5. QED
      BY <3>1, <3>2, <3>3, <3>4
  <2>4. QED
    BY <2>2, <2>3
<1>7. RecentLoginIsListed'
  <2>1. SUFFICES ASSUME NEW g \in DOMAIN opener, NEW s \in DOMAIN refresh', opener[g] = s
                 PROVE  /\ refresh'[s].userId \in DOMAIN userfam
                        /\ g \in userfam[refresh'[s].userId].fams
                        /\ refresh'[s].ttl <= userfam[refresh'[s].userId].ttl
    BY <1>1 DEF RecentLoginIsListed, RotatedTo
  <2>2. s # n
    BY <1>1, <2>1 DEF RotatedTo, IndexInv, KeysNameEachOther
  <2>3. /\ s \in DOMAIN refresh
        /\ refresh'[s].userId = refresh[s].userId
        /\ refresh'[s].ttl = refresh[s].ttl
    BY <1>1, <2>2 DEF RotatedTo
  <2>4. QED
    BY <2>1, <2>3 DEF IndexInv, RecentLoginIsListed
<1>8. IndexNamesOwnFamilies'
  <2>1. \A s \in DOMAIN refresh' :
            \E q \in DOMAIN refresh : /\ refresh'[s].familyId = refresh[q].familyId
                                     /\ refresh'[s].userId = refresh[q].userId
    BY <1>1 DEF RotatedTo
  <2>2. QED
    BY <1>1, <2>1 DEF RotatedTo, IndexInv, IndexNamesOwnFamilies
<1>9. KeysNameEachOther'
  <2>1. \A g \in DOMAIN family' : \A s \in family'[g].members :
            s \in minted' /\ (s \in DOMAIN refresh' => refresh'[s].familyId = g)
    BY <1>1, <1>2 DEF RotatedTo, IndexInv, KeysNameEachOther
  <2>2. /\ DOMAIN refresh' \subseteq minted'
        /\ DOMAIN family' \subseteq DOMAIN opener'
        /\ \A u \in DOMAIN userfam' : userfam'[u].fams \subseteq DOMAIN opener'
    BY <1>1, <1>2 DEF RotatedTo, IndexInv, KeysNameEachOther
  <2>3. \A g \in DOMAIN opener' :
            /\ opener'[g] \in minted'
            /\ opener'[g] \in DOMAIN refresh' => refresh'[opener'[g]].familyId = g
    BY <1>1 DEF RotatedTo, IndexInv, KeysNameEachOther
  <2>4. QED
    BY <2>1, <2>2, <2>3 DEF KeysNameEachOther
<1>10. QED
  BY <1>5, <1>6, <1>7, <1>8, <1>9 DEF IndexInv

LEMMA RemovalKeepsIndex ==
    ASSUME IndexInv, TypeOK', NEW F, Removed(F), minted' = minted, opener' = opener
    PROVE  IndexInv'
<1>1. FamilySetIsComplete'
  BY DEF Removed, IndexInv, FamilySetIsComplete
<1>2. OneCurrentToken'
  <2>1. SUFFICES ASSUME NEW g \in DOMAIN family'
                 PROVE  \E c \in DOMAIN refresh' :
                            /\ refresh'[c].familyId = g
                            /\ ~refresh'[c].used
                            /\ refresh'[c].ttl = family'[g].ttl
                            /\ \A s \in DOMAIN refresh' :
                                   refresh'[s].familyId = g /\ ~refresh'[s].used => s = c
    BY DEF OneCurrentToken
  <2>2. g \in DOMAIN family /\ g \notin F /\ family'[g] = family[g]
    BY <2>1 DEF Removed
  <2>3. PICK c \in DOMAIN refresh :
            /\ refresh[c].familyId = g
            /\ ~refresh[c].used
            /\ refresh[c].ttl = family[g].ttl
            /\ \A s \in DOMAIN refresh : refresh[s].familyId = g /\ ~refresh[s].used => s = c
    BY <2>2 DEF IndexInv, OneCurrentToken
  <2>4. c \in DOMAIN refresh' /\ refresh'[c] = refresh[c]
    BY <2>2, <2>3 DEF Removed
  <2>5. \A s \in DOMAIN refresh' : refresh'[s].familyId = g /\ ~refresh'[s].used => s = c
    BY <2>3 DEF Removed
  <2>6. QED
    BY <2>2, <2>3, <2>4, <2>5
<1>3. RecentLoginIsListed'
  <2>1. SUFFICES ASSUME NEW g \in DOMAIN opener, NEW t \in DOMAIN refresh', opener[g] = t
                 PROVE  /\ refresh'[t].userId \in DOMAIN userfam'
                        /\ g \in userfam'[refresh'[t].userId].fams
                        /\ refresh'[t].ttl <= userfam'[refresh'[t].userId].ttl
    BY DEF RecentLoginIsListed
  <2>2. t \in DOMAIN refresh /\ refresh'[t] = refresh[t] /\ refresh[t].familyId \notin F
    BY DEF Removed
  <2>3. refresh[t].familyId = g
    BY <2>1, <2>2 DEF IndexInv, KeysNameEachOther
  <2>4. /\ refresh[t].userId \in DOMAIN userfam
        /\ g \in userfam[refresh[t].userId].fams
        /\ refresh[t].ttl <= userfam[refresh[t].userId].ttl
    BY <2>1, <2>2 DEF IndexInv, RecentLoginIsListed
  <2>5. QED
    BY <2>2, <2>3, <2>4 DEF Removed
<1>4. IndexNamesOwnFamilies'
  BY DEF Removed, IndexInv, IndexNamesOwnFamilies
<1>5. KeysNameEachOther'
  <2>1. \A g \in DOMAIN family' : \A t \in family'[g].members :
            t \in minted' /\ (t \in DOMAIN refresh' => refresh'[t].familyId = g)
    BY DEF Removed, IndexInv, KeysNameEachOther
  <2>2. /\ DOMAIN refresh' \subseteq minted'
        /\ DOMAIN family' \subseteq DOMAIN opener'
        /\ \A v \in DOMAIN userfam' : userfam'[v].fams \subseteq DOMAIN opener'
    BY DEF Removed, IndexInv, KeysNameEachOther
  <2>3. \A g \in DOMAIN opener' :
            /\ opener'[g] \in minted'
            /\ opener'[g] \in DOMAIN refresh' => refresh'[opener'[g]].familyId = g
    BY DEF Removed, IndexInv, KeysNameEachOther
  <2>4. QED
    BY <2>1, <2>2, <2>3 DEF KeysNameEachOther
<1>6. QED
  BY <1>1, <1>2, <1>3, <1>4, <1>5 DEF IndexInv

LEMMA TickKeepsIndex ==
    ASSUME IndexInv, TypeOK', Tick
    PROVE  IndexInv'
<1>1. Ticked /\ TypeOK
  BY TickEffect DEF IndexInv
<1>2. /\ \A t \in DOMAIN refresh : refresh[t].ttl \in Int
      /\ \A f \in DOMAIN family : family[f].ttl \in Int
      /\ \A u \in DOMAIN userfam : userfam[u].ttl \in Int
  BY <1>1, TtlAssumption DEF TypeOK, IsMap, Record
<1>3. FamilySetIsComplete'
  BY <1>1, <1>2 DEF Ticked, IndexInv, FamilySetIsComplete
<1>4. OneCurrentToken'
  <2>1. SUFFICES ASSUME NEW g \in DOMAIN family'
                 PROVE  \E c \in DOMAIN refresh' :
                            /\ refresh'[c].familyId = g
                            /\ ~refresh'[c].used
                            /\ refresh'[c].ttl = family'[g].ttl
                            /\ \A s \in DOMAIN refresh' :
                                   refresh'[s].familyId = g /\ ~refresh'[s].used => s = c
    BY DEF OneCurrentToken
  <2>2. g \in DOMAIN family /\ family[g].ttl > 1 /\ family'[g].ttl = family[g].ttl - 1
    BY <1>1, <2>1 DEF Ticked
  <2>3. PICK c \in DOMAIN refresh :
            /\ refresh[c].familyId = g
            /\ ~refresh[c].used
            /\ refresh[c].ttl = family[g].ttl
            /\ \A s \in DOMAIN refresh : refresh[s].familyId = g /\ ~refresh[s].used => s = c
    BY <2>2 DEF IndexInv, OneCurrentToken
  <2>4. /\ c \in DOMAIN refresh'
        /\ refresh'[c].familyId = g
        /\ ~refresh'[c].used
        /\ refresh'[c].ttl = family'[g].ttl
    BY <1>1, <2>2, <2>3 DEF Ticked
  <2>5. \A s \in DOMAIN refresh' : refresh'[s].familyId = g /\ ~refresh'[s].used => s = c
    BY <1>1, <2>3 DEF Ticked
  <2>6. QED
    BY <2>4, <2>5
<1>5. RecentLoginIsListed'
  BY <1>1, <1>2 DEF Ticked, IndexInv, RecentLoginIsListed
<1>6. IndexNamesOwnFamilies'
  BY <1>1 DEF Ticked, IndexInv, IndexNamesOwnFamilies
<1>7. KeysNameEachOther'
  BY <1>1 DEF Ticked, IndexInv, KeysNameEachOther
<1>8. QED
  BY <1>3, <1>4, <1>5, <1>6, <1>7 DEF IndexInv

LEMMA IndexStep ==
    ASSUME IndexInv, [Next]_vars
    PROVE  IndexInv'
<1>1. TypeOK'
  BY TypeStep DEF IndexInv
<1>2. ASSUME NEW u \in Users, NEW f \in Families, NEW n \in Tokens, CreateSession(u, f, n)
      PROVE  IndexInv'
  BY <1>1, <1>2, CreateKeepsIndex
<1>3. ASSUME UNCHANGED <<refresh, family, userfam, minted, opener>>
      PROVE  IndexInv'
  BY <1>1, <1>3 DEF IndexInv, FamilySetIsComplete, OneCurrentToken, RecentLoginIsListed,
                    IndexNamesOwnFamilies, KeysNameEachOther
<1>4. ASSUME NEW t \in Tokens, RotateUnknown(t)
      PROVE  IndexInv'
  BY <1>3, <1>4 DEF RotateUnknown, keys
<1>5. ASSUME NEW t \in Tokens, RotateReplayed(t)
      PROVE  IndexInv'
  BY <1>1, <1>5, BurnEffect, RemovalKeepsIndex DEF RotateReplayed
<1>6. ASSUME NEW t \in Tokens, NEW n \in Tokens, RotateCurrent(t, n)
      PROVE  IndexInv'
  BY <1>1, <1>6, RotateKeepsIndex
<1>7. ASSUME NEW t \in Tokens, Revoke(t)
      PROVE  IndexInv'
  <2>1. CASE t \in DOMAIN refresh
    BY <1>1, <1>7, <2>1, BurnEffect, RemovalKeepsIndex DEF Revoke
  <2>2. CASE t \notin DOMAIN refresh
    BY <1>3, <1>7, <2>2 DEF Revoke, keys
  <2>3. QED
    BY <2>1, <2>2
<1>8. ASSUME NEW u \in Users, RevokeUser(u)
      PROVE  IndexInv'
  BY <1>1, <1>8, RevokeUserEffect, RemovalKeepsIndex DEF RevokeUser
<1>9. CASE Tick
  BY <1>1, <1>9, TickKeepsIndex
<1>10. CASE UNCHANGED vars
  BY <1>3, <1>10 DEF vars
<1>11. QED
  BY <1>2, <1>4, <1>5, <1>6, <1>7, <1>8, <1>9, <1>10 DEF Next, Rotate

\* The index invariant holds in every state of the store.
THEOREM IndexCorrect == Spec => []IndexInv
<1>1. Init => IndexInv
  BY DEF Init, IndexInv, TypeOK, IsMap, EmptyMap, FamilySetIsComplete, OneCurrentToken,
         RecentLoginIsListed, IndexNamesOwnFamilies, KeysNameEachOther
<1>2. IndexInv /\ [Next]_vars => IndexInv'
  BY IndexStep
<1>3. QED
  BY <1>1, <1>2, PTL DEF Spec

\* Revocation by family can reach every token: each is in the set its record
\* leads to.
THEOREM FamilySetsComplete == Spec => []FamilySetIsComplete
<1>1. IndexInv => FamilySetIsComplete
  BY DEF IndexInv
<1>2. QED
  BY <1>1, IndexCorrect, PTL

\* Rotation never leaves a family with two tokens that could be rotated, or
\* with none.
THEOREM OneCurrentTokenPerFamily == Spec => []OneCurrentToken
<1>1. IndexInv => OneCurrentToken
  BY DEF IndexInv
<1>2. QED
  BY <1>1, IndexCorrect, PTL

\* revokeUser finds every session whose login is at most Ttl ago.
THEOREM RecentLoginsListed == Spec => []RecentLoginIsListed
<1>1. IndexInv => RecentLoginIsListed
  BY DEF IndexInv
<1>2. QED
  BY <1>1, IndexCorrect, PTL

\* A family without keys never gets one again.
THEOREM DeadFamiliesStayDead == Spec => DeadFamilyStaysDead
<1>1. ASSUME IndexInv, [Next]_vars, NEW f \in DOMAIN opener, f \notin DOMAIN family
      PROVE  f \notin DOMAIN family'
  <2>1. ASSUME NEW u \in Users, NEW g \in Families, NEW n \in Tokens, CreateSession(u, g, n)
        PROVE  f \notin DOMAIN family'
    <3>1. Created(u, g, n)
      BY <2>1, CreateEffect
    <3>2. QED
      BY <1>1, <3>1 DEF Created
  <2>2. ASSUME NEW t \in Tokens, NEW n \in Tokens, RotateCurrent(t, n)
        PROVE  f \notin DOMAIN family'
    <3>1. RotatedTo(t, n)
      BY <1>1, <2>2, RotateEffect DEF IndexInv, KeysNameEachOther
    <3>2. QED
      BY <1>1, <3>1 DEF RotatedTo, IndexInv, FamilySetIsComplete
  <2>3. ASSUME NEW t \in Tokens, RotateUnknown(t) \/ RotateReplayed(t) \/ Revoke(t)
        PROVE  f \notin DOMAIN family'
    <3>1. \A g, u : BurnFamily(g, u) => f \notin DOMAIN family'
      BY <1>1 DEF BurnFamily, Drop, Restrict
    <3>2. QED
      BY <1>1, <2>3, <3>1 DEF RotateUnknown, RotateReplayed, Revoke, keys
  <2>4. ASSUME NEW u \in Users, RevokeUser(u)
        PROVE  f \notin DOMAIN family'
    BY <1>1, <2>4 DEF RevokeUser, Drop, Restrict
  <2>5. CASE Tick
    BY <1>1, <2>5 DEF Tick, Aged
  <2>6. CASE UNCHANGED vars
    BY <1>1, <2>6 DEF vars
  <2>7. QED
    BY <1>1, <2>1, <2>2, <2>3, <2>4, <2>5, <2>6 DEF Next, Rotate
<1>2. IndexInv /\ [Next]_vars =>
          [\A f \in DOMAIN opener : f \notin DOMAIN family => f \notin DOMAIN family']_vars
  BY <1>1
<1>3. QED
  BY <1>2, IndexCorrect, PTL DEF Spec, DeadFamilyStaysDead

\* A replay that the store recognises leaves nothing of the family.
THEOREM RememberedReplaysBurn == Spec => RememberedReplayBurnsFamily
<1>1. ASSUME IndexInv, NEW t \in DOMAIN refresh, refresh[t].used, Rotate(t),
             NEW s \in DOMAIN refresh'
      PROVE  refresh'[s].familyId # refresh[t].familyId
  <2>1. BurnFamily(refresh[t].familyId, refresh[t].userId)
    BY <1>1 DEF Rotate, RotateUnknown, RotateReplayed, RotateCurrent, Rotated
  <2>2. Removed({refresh[t].familyId})
    BY <1>1, <2>1, BurnEffect
  <2>3. QED
    BY <1>1, <2>2 DEF Removed
<1>2. IndexInv /\ [Next]_vars =>
          [\A t \in DOMAIN refresh :
              refresh[t].used /\ Rotate(t) =>
                  \A s \in DOMAIN refresh' : refresh'[s].familyId # refresh[t].familyId]_vars
  BY <1>1
<1>3. QED
  BY <1>2, IndexCorrect, PTL DEF Spec, RememberedReplayBurnsFamily

----------------------------------------------------------------------------
(* The store implements SessionStore's FadingSpec                          *)

\* What SessionStore sees of the keys.
Seen == [t \in DOMAIN refresh |->
            [family |-> refresh[t].familyId, user |-> refresh[t].userId,
             used |-> refresh[t].used]]

LEMMA CreateRefines ==
    ASSUME NEW u \in Users, NEW f \in Families, NEW n \in Tokens, CreateSession(u, f, n)
    PROVE  Promise!CreateSession(u, f, n)
<1> DEFINE first == [family |-> f, user |-> u, used |-> FALSE]
<1>1. /\ DOMAIN refresh' = DOMAIN refresh \union {n}
      /\ refresh'[n].familyId = f /\ refresh'[n].userId = u /\ refresh'[n].used = FALSE
      /\ \A x \in DOMAIN refresh : x # n => refresh'[x] = refresh[x]
  BY DEF CreateSession, Put
<1>2. ASSUME NEW x \in DOMAIN refresh'
      PROVE  [family |-> refresh'[x].familyId, user |-> refresh'[x].userId,
              used |-> refresh'[x].used] = IF x = n THEN first ELSE Seen[x]
  <2>1. CASE x = n
    BY <1>1, <2>1
  <2>2. CASE x # n
    BY <1>1, <2>2 DEF Seen
  <2>3. QED
    BY <2>1, <2>2
<1>3. Seen' = [x \in DOMAIN Seen \union {n} |-> IF x = n THEN first ELSE Seen[x]]
  <2>1. DOMAIN Seen = DOMAIN refresh
    BY DEF Seen
  <2>2. QED
    BY <1>1, <1>2, <2>1 DEF Seen
<1>4. Seen' = Promise!Put(Seen, n, first)
  BY <1>3 DEF Promise!Put
<1>5. QED
  BY <1>4 DEF CreateSession, Promise!CreateSession, Seen, Put, Promise!Put

LEMMA RotateRefines ==
    ASSUME IndexInv, NEW t \in Tokens, NEW n \in Tokens, RotateCurrent(t, n)
    PROVE  Promise!RotateCurrent(t, n)
<1>1. t \in DOMAIN refresh /\ refresh[t] \in Record
  BY DEF RotateCurrent, Rotated, IndexInv, TypeOK, IsMap
<1>2. /\ DOMAIN Retired(t) = DOMAIN refresh
      /\ Retired(t)[t].familyId = refresh[t].familyId
      /\ Retired(t)[t].userId = refresh[t].userId
      /\ Retired(t)[t].used = TRUE
      /\ \A x \in DOMAIN refresh : x # t => Retired(t)[x] = refresh[x]
  BY <1>1 DEF Retired, Record
<1>3. /\ ~refresh[t].used /\ n \notin minted /\ n \notin DOMAIN refresh
      /\ DOMAIN refresh' = DOMAIN refresh \union {n}
      /\ refresh'[n].familyId = refresh[t].familyId
      /\ refresh'[n].userId = refresh[t].userId
      /\ refresh'[n].used = FALSE
      /\ refresh'[t] = Retired(t)[t]
      /\ \A x \in DOMAIN refresh : x # t => refresh'[x] = refresh[x]
  BY <1>1, <1>2 DEF RotateCurrent, Rotated, Put, IndexInv, KeysNameEachOther
<1>4. refresh[t].used = FALSE
  BY <1>1, <1>3 DEF Record
<1> DEFINE retired == [Seen EXCEPT ![t].used = TRUE]
<1>5. /\ DOMAIN Seen = DOMAIN refresh
      /\ DOMAIN retired = DOMAIN refresh
      /\ Seen[t] = [family |-> refresh[t].familyId, user |-> refresh[t].userId, used |-> FALSE]
      /\ retired[t] = [family |-> refresh[t].familyId, user |-> refresh[t].userId, used |-> TRUE]
      /\ \A x \in DOMAIN refresh : x # t => retired[x] = Seen[x]
  BY <1>1, <1>4 DEF Seen
<1>6. ASSUME NEW x \in DOMAIN refresh'
      PROVE  [family |-> refresh'[x].familyId, user |-> refresh'[x].userId,
              used |-> refresh'[x].used] = IF x = n THEN Seen[t] ELSE retired[x]
  <2>1. CASE x = n
    BY <1>3, <1>5, <2>1
  <2>2. CASE x = t
    BY <1>1, <1>2, <1>3, <1>5, <2>2
  <2>3. CASE x # n /\ x # t
    BY <1>3, <1>5, <2>3 DEF Seen
  <2>4. QED
    BY <2>1, <2>2, <2>3
<1>7. Seen' = [x \in DOMAIN retired \union {n} |-> IF x = n THEN Seen[t] ELSE retired[x]]
  BY <1>3, <1>5, <1>6 DEF Seen
<1>8. Seen' = Promise!Put(retired, n, Seen[t])
  BY <1>7 DEF Promise!Put
<1>9. t \in DOMAIN Seen /\ ~Seen[t].used
  BY <1>1, <1>5
<1>10. QED
  BY <1>3, <1>8, <1>9 DEF RotateCurrent, Rotated, Promise!RotateCurrent, Seen

\* Tokens that leave the keys leave SessionStore's map, and no other does.
LEMMA SeenDrops ==
    ASSUME NEW T, DOMAIN refresh' = DOMAIN refresh \ T,
           \A x \in DOMAIN refresh' : /\ refresh'[x].familyId = refresh[x].familyId
                                      /\ refresh'[x].userId = refresh[x].userId
                                      /\ refresh'[x].used = refresh[x].used
    PROVE  Seen' = Promise!Drop(Seen, T)
<1>1. DOMAIN Seen = DOMAIN refresh
  BY DEF Seen
<1>2. \A x \in DOMAIN refresh' :
          [family |-> refresh'[x].familyId, user |-> refresh'[x].userId,
           used |-> refresh'[x].used] = Seen[x]
  BY DEF Seen
<1>3. Seen' = [x \in DOMAIN Seen \ T |-> Seen[x]]
  BY <1>1, <1>2 DEF Seen
<1>4. QED
  BY <1>1, <1>3 DEF Promise!Drop, Promise!Restrict

LEMMA BurnRefines ==
    ASSUME IndexInv, NEW t \in DOMAIN refresh, BurnFamily(refresh[t].familyId, refresh[t].userId)
    PROVE  Seen' = Promise!Drop(Seen, Promise!TokensOfFamily(Seen[t].family))
<1> DEFINE T == {s \in DOMAIN refresh : refresh[s].familyId = refresh[t].familyId}
<1>1. Removed({refresh[t].familyId})
  BY BurnEffect
<1>2. /\ DOMAIN refresh' = DOMAIN refresh \ T
      /\ \A x \in DOMAIN refresh' : refresh'[x] = refresh[x]
  BY <1>1 DEF Removed
<1>3. Seen' = Promise!Drop(Seen, T)
  BY <1>2, SeenDrops
<1>4. T = Promise!TokensOfFamily(Seen[t].family)
  BY DEF Promise!TokensOfFamily, Seen
<1>5. QED
  BY <1>3, <1>4

LEMMA RevokeUserRefines ==
    ASSUME IndexInv, NEW u \in Users, RevokeUser(u)
    PROVE  \E F \in SUBSET Families : Promise!RevokeListed(u, F)
<1>1. PICK F \in SUBSET Families :
               F = {refresh[t].familyId : t \in {s \in DOMAIN refresh :
                                                     refresh[s].familyId \in FamsOf(u)}}
  BY MembersTypes DEF IndexInv
<1>2. /\ DOMAIN refresh' = DOMAIN refresh \ {t \in DOMAIN refresh : refresh[t].familyId \in F}
      /\ \A x \in DOMAIN refresh' : refresh'[x] = refresh[x]
  BY <1>1, RevokeUserEffect DEF Removed
<1>3. Seen' = Promise!Drop(Seen, {t \in DOMAIN Seen : Seen[t].family \in F})
  <2>1. Seen' = Promise!Drop(Seen, {t \in DOMAIN refresh : refresh[t].familyId \in F})
    BY <1>2, SeenDrops
  <2>2. {t \in DOMAIN refresh : refresh[t].familyId \in F}
            = {t \in DOMAIN Seen : Seen[t].family \in F}
    BY DEF Seen
  <2>3. QED
    BY <2>1, <2>2
<1>4. ASSUME NEW s \in DOMAIN refresh, refresh[s].familyId \in FamsOf(u)
      PROVE  refresh[s].userId = u
  BY <1>4 DEF IndexInv, IndexNamesOwnFamilies, FamsOf
<1>5. F \subseteq {refresh[t].familyId : t \in {s \in DOMAIN refresh : refresh[s].userId = u}}
  BY <1>1, <1>4
<1>6. ASSUME NEW s \in DOMAIN refresh, refresh[s].userId = u,
             refresh[s].familyId \in DOMAIN opener, opener[refresh[s].familyId] \in DOMAIN refresh
      PROVE  refresh[s].familyId \in F
  <2> DEFINE f == refresh[s].familyId
             v == refresh[opener[f]].userId
  <2>1. v \in DOMAIN userfam /\ f \in userfam[v].fams
    BY <1>6 DEF IndexInv, RecentLoginIsListed
  <2>2. refresh[s].userId = v
    BY <2>1 DEF IndexInv, IndexNamesOwnFamilies
  <2>3. f \in FamsOf(u)
    BY <1>6, <2>1, <2>2 DEF FamsOf
  <2>4. QED
    BY <1>1, <2>3
<1>7. Promise!FamiliesOfUser(u)
          = {refresh[t].familyId : t \in {s \in DOMAIN refresh : refresh[s].userId = u}}
  BY DEF Promise!FamiliesOfUser, Promise!TokensOfUser
<1>8. \A f \in Promise!FamiliesOfUser(u) : Promise!Remembered(f) => f \in F
  BY <1>6, <1>7 DEF Promise!Remembered
<1>9. Promise!RevokeListed(u, F)
  BY <1>3, <1>5, <1>7, <1>8 DEF RevokeUser, Promise!RevokeListed, Seen
<1>10. QED
  BY <1>9

\* Keys in their last second: a current token never expires before the
\* retired tokens of its family.
LEMMA TickRefines ==
    ASSUME IndexInv, Tick
    PROVE  \E T \in SUBSET Tokens : Promise!Fade(T)
<1>1. PICK T \in SUBSET Tokens : T = {t \in DOMAIN refresh : ~(refresh[t].ttl > 1)}
  BY DEF IndexInv, TypeOK, IsMap
<1>2. /\ DOMAIN refresh' = DOMAIN refresh \ T
      /\ \A x \in DOMAIN refresh' : /\ refresh'[x].familyId = refresh[x].familyId
                                    /\ refresh'[x].userId = refresh[x].userId
                                    /\ refresh'[x].used = refresh[x].used
  <2>1. DOMAIN refresh' = DOMAIN refresh \ T
    BY <1>1 DEF Tick, Aged
  <2>2. ASSUME NEW x \in DOMAIN refresh'
        PROVE  /\ refresh'[x].familyId = refresh[x].familyId
               /\ refresh'[x].userId = refresh[x].userId
               /\ refresh'[x].used = refresh[x].used
    <3>1. refresh[x] \in Record
      BY <2>1 DEF IndexInv, TypeOK, IsMap
    <3>2. refresh'[x] = [refresh[x] EXCEPT !.ttl = @ - 1]
      BY <2>1 DEF Tick, Aged
    <3>3. QED
      BY <3>1, <3>2 DEF Record
  <2>3. QED
    BY <2>1, <2>2
<1>3. Seen' = Promise!Drop(Seen, T)
  BY <1>2, SeenDrops
<1>4. ASSUME NEW t \in T, ~refresh[t].used,
             NEW s \in DOMAIN refresh, refresh[s].familyId = refresh[t].familyId
      PROVE  s \in T
  <2> DEFINE f == refresh[t].familyId
  <2>1. f \in DOMAIN family /\ refresh[s].ttl <= family[f].ttl
    BY <1>1, <1>4 DEF IndexInv, FamilySetIsComplete
  <2>2. refresh[t].ttl = family[f].ttl
    BY <1>1, <1>4, <2>1 DEF IndexInv, OneCurrentToken
  <2>3. refresh[t].ttl \in 1..Ttl /\ refresh[s].ttl \in 1..Ttl
    BY <1>1 DEF IndexInv, TypeOK, IsMap, Record
  <2>4. QED
    BY <1>1, <2>1, <2>2, <2>3, TtlAssumption
<1>5. \A t \in T : Seen[t].used \/ Promise!TokensOfFamily(Seen[t].family) \subseteq T
  BY <1>1, <1>4 DEF Seen, Promise!TokensOfFamily
<1>6. T \subseteq DOMAIN Seen
  BY <1>1 DEF Seen
<1>7. Promise!Fade(T)
  BY <1>3, <1>5, <1>6 DEF Promise!Fade, Tick, Seen
<1>8. QED
  BY <1>7

\* Every step of the store is one that SessionStore's FadingSpec allows.
THEOREM StoreKeepsFadingPromise == Spec => KeepsFadingPromise
<1>1. Init => Promise!Init
  BY DEF Init, Promise!Init, EmptyMap, Promise!EmptyMap
<1>2. ASSUME IndexInv, [Next]_vars
      PROVE  [Promise!FadingNext]_(Promise!vars)
  <2>1. ASSUME NEW u \in Users, NEW f \in Families, NEW n \in Tokens, CreateSession(u, f, n)
        PROVE  Promise!FadingNext
    BY <2>1, CreateRefines DEF Promise!FadingNext
  <2>2. ASSUME NEW t \in Tokens, RotateUnknown(t)
        PROVE  Promise!FadingNext
    <3>1. Promise!RotateUnknown(t)
      BY <2>2 DEF RotateUnknown, Promise!RotateUnknown, keys
    <3>2. QED
      BY <3>1 DEF Promise!FadingNext, Promise!Rotate
  <2>3. ASSUME NEW t \in Tokens, RotateReplayed(t)
        PROVE  Promise!FadingNext
    <3>1. Seen' = Promise!Drop(Seen, Promise!TokensOfFamily(Seen[t].family))
      BY <1>2, <2>3, BurnRefines DEF RotateReplayed
    <3>2. Promise!RotateReplayed(t)
      BY <2>3, <3>1 DEF RotateReplayed, Promise!RotateReplayed, Seen
    <3>3. QED
      BY <3>2 DEF Promise!FadingNext, Promise!Rotate
  <2>4. ASSUME NEW t \in Tokens, NEW n \in Tokens, RotateCurrent(t, n)
        PROVE  Promise!FadingNext
    BY <1>2, <2>4, RotateRefines DEF Promise!FadingNext, Promise!Rotate
  <2>5. ASSUME NEW t \in Tokens, Revoke(t)
        PROVE  Promise!FadingNext
    <3>1. CASE t \in DOMAIN refresh
      <4>1. Seen' = Promise!Drop(Seen, Promise!TokensOfFamily(Seen[t].family))
        BY <1>2, <2>5, <3>1, BurnRefines DEF Revoke
      <4>2. Promise!Revoke(t)
        BY <2>5, <3>1, <4>1 DEF Revoke, Promise!Revoke, Seen
      <4>3. QED
        BY <4>2 DEF Promise!FadingNext
    <3>2. CASE t \notin DOMAIN refresh
      <4>1. Promise!Revoke(t)
        BY <2>5, <3>2 DEF Revoke, Promise!Revoke, keys
      <4>2. QED
        BY <4>1 DEF Promise!FadingNext
    <3>3. QED
      BY <3>1, <3>2
  <2>6. ASSUME NEW u \in Users, RevokeUser(u)
        PROVE  Promise!FadingNext
    BY <1>2, <2>6, RevokeUserRefines DEF Promise!FadingNext
  <2>7. CASE Tick
    BY <1>2, <2>7, TickRefines DEF Promise!FadingNext
  <2>8. CASE UNCHANGED vars
    BY <2>8 DEF vars, Promise!vars
  <2>9. QED
    BY <1>2, <2>1, <2>2, <2>3, <2>4, <2>5, <2>6, <2>7, <2>8 DEF Next, Rotate
<1>3. QED
  BY <1>1, <1>2, IndexCorrect, PTL DEF Spec, KeepsFadingPromise, Promise!FadingSpec

----------------------------------------------------------------------------
(* RedisSnapshots: the keyspace in the file satisfies the index invariant   *)
(* of RedisSessionStore as the one in memory does                          *)

Saved == INSTANCE RedisSessionStore WITH
    refresh <- saved.refresh, family <- saved.family, userfam <- saved.userfam

\* The token handed out last for a family is unused and the family's own,
\* wherever a record of it is held.
NewestInv ==
    \A f \in DOMAIN newest :
        /\ newest[f] \in minted
        /\ newest[f] \in DOMAIN refresh =>
               ~refresh[newest[f]].used /\ refresh[newest[f]].familyId = f
        /\ newest[f] \in DOMAIN saved.refresh =>
               ~saved.refresh[newest[f]].used /\ saved.refresh[newest[f]].familyId = f

\* What was of no use when the file was begun is of no use in the file either.
EndedInv ==
    /\ ended \subseteq minted
    /\ \A t \in ended : ~Usable(t) /\ (t \in DOMAIN saved.refresh => saved.refresh[t].used)

SnapshotInv ==
    /\ IndexInv
    /\ Saved!IndexInv
    /\ NewestInv
    /\ EndedInv

----------------------------------------------------------------------------
(* The two keyspaces                                                       *)

\* A keyspace is copied from memory to the file, or back.
LEMMA CopyOut ==
    ASSUME IndexInv, Save
    PROVE  Saved!IndexInv'
<1>1. /\ saved'.refresh = refresh /\ saved'.family = family /\ saved'.userfam = userfam
      /\ minted' = minted /\ opener' = opener /\ reply' = reply
  BY DEF Save, vars
<1>2. Saved!TypeOK'
  BY <1>1 DEF IndexInv, TypeOK, Saved!TypeOK, Record, Saved!Record, IsMap, Saved!IsMap
<1>3. Saved!FamilySetIsComplete' /\ Saved!OneCurrentToken'
  BY <1>1 DEF IndexInv, FamilySetIsComplete, Saved!FamilySetIsComplete,
              OneCurrentToken, Saved!OneCurrentToken
<1>4. Saved!RecentLoginIsListed' /\ Saved!IndexNamesOwnFamilies' /\ Saved!KeysNameEachOther'
  BY <1>1 DEF IndexInv, RecentLoginIsListed, Saved!RecentLoginIsListed, IndexNamesOwnFamilies,
              Saved!IndexNamesOwnFamilies, KeysNameEachOther, Saved!KeysNameEachOther
<1>5. QED
  BY <1>2, <1>3, <1>4 DEF Saved!IndexInv

LEMMA CopyBack ==
    ASSUME Saved!IndexInv, Crash
    PROVE  IndexInv'
<1>1. /\ refresh' = saved.refresh /\ family' = saved.family /\ userfam' = saved.userfam
      /\ minted' = minted /\ opener' = opener /\ reply' = reply
  BY DEF Crash
<1>2. TypeOK'
  BY <1>1 DEF Saved!IndexInv, TypeOK, Saved!TypeOK, Record, Saved!Record, IsMap, Saved!IsMap
<1>3. FamilySetIsComplete' /\ OneCurrentToken'
  BY <1>1 DEF Saved!IndexInv, FamilySetIsComplete, Saved!FamilySetIsComplete,
              OneCurrentToken, Saved!OneCurrentToken
<1>4. RecentLoginIsListed' /\ IndexNamesOwnFamilies' /\ KeysNameEachOther'
  BY <1>1 DEF Saved!IndexInv, RecentLoginIsListed, Saved!RecentLoginIsListed,
              IndexNamesOwnFamilies, Saved!IndexNamesOwnFamilies, KeysNameEachOther,
              Saved!KeysNameEachOther
<1>5. QED
  BY <1>2, <1>3, <1>4 DEF IndexInv

\* The keys of the file grow a second older, as TickEffect says of those in
\* memory.
SavedTicked ==
    /\ DOMAIN saved'.refresh = {t \in DOMAIN saved.refresh : saved.refresh[t].ttl > 1}
    /\ \A t \in DOMAIN saved'.refresh :
           /\ saved'.refresh[t].familyId = saved.refresh[t].familyId
           /\ saved'.refresh[t].userId = saved.refresh[t].userId
           /\ saved'.refresh[t].used = saved.refresh[t].used
           /\ saved'.refresh[t].ttl = saved.refresh[t].ttl - 1
    /\ DOMAIN saved'.family = {f \in DOMAIN saved.family : saved.family[f].ttl > 1}
    /\ \A f \in DOMAIN saved'.family :
           /\ saved'.family[f].members = saved.family[f].members
           /\ saved'.family[f].ttl = saved.family[f].ttl - 1
    /\ DOMAIN saved'.userfam = {u \in DOMAIN saved.userfam : saved.userfam[u].ttl > 1}
    /\ \A u \in DOMAIN saved'.userfam :
           /\ saved'.userfam[u].fams = saved.userfam[u].fams
           /\ saved'.userfam[u].ttl = saved.userfam[u].ttl - 1
    /\ minted' = minted
    /\ opener' = opener

LEMMA SavedTickEffect ==
    ASSUME Saved!TypeOK, Second
    PROVE  SavedTicked /\ Saved!TypeOK'
<1>1. /\ saved'.refresh = Aged(saved.refresh)
      /\ saved'.family = Aged(saved.family)
      /\ saved'.userfam = Aged(saved.userfam)
      /\ minted' = minted /\ opener' = opener /\ reply' = reply
  BY DEF Second, Tick
<1>2. /\ IsMap(saved.refresh, Tokens, Record)
      /\ IsMap(saved.family, Families, FamilyRecord)
      /\ IsMap(saved.userfam, Users, IndexRecord)
  BY DEF Saved!TypeOK, Saved!IsMap, IsMap, Saved!Record, Record, FamilyRecord, IndexRecord
<1>3. SavedTicked
  BY <1>1, <1>2 DEF SavedTicked, Aged, IsMap, Record, FamilyRecord, IndexRecord
<1>4. /\ IsMap(Aged(saved.refresh), Tokens, Record)
      /\ IsMap(Aged(saved.family), Families, FamilyRecord)
      /\ IsMap(Aged(saved.userfam), Users, IndexRecord)
  BY <1>2, TtlAssumption DEF IsMap, Aged, Record, FamilyRecord, IndexRecord
<1>5. Saved!TypeOK'
  BY <1>1, <1>4 DEF Saved!TypeOK, Saved!IsMap, IsMap, Saved!Record, Record, FamilyRecord, IndexRecord
<1>6. QED
  BY <1>3, <1>5

LEMMA SecondKeepsSaved ==
    ASSUME Saved!IndexInv, Second
    PROVE  Saved!IndexInv'
<1>1. SavedTicked /\ Saved!TypeOK /\ Saved!TypeOK'
  BY SavedTickEffect DEF Saved!IndexInv
<1>2. /\ \A t \in DOMAIN saved.refresh : saved.refresh[t].ttl \in Int
      /\ \A f \in DOMAIN saved.family : saved.family[f].ttl \in Int
      /\ \A u \in DOMAIN saved.userfam : saved.userfam[u].ttl \in Int
  BY <1>1, TtlAssumption DEF Saved!TypeOK, Saved!IsMap, Saved!Record
<1>3. Saved!FamilySetIsComplete'
  BY <1>1, <1>2 DEF SavedTicked, Saved!IndexInv, Saved!FamilySetIsComplete
<1>4. Saved!OneCurrentToken'
  <2>1. SUFFICES ASSUME NEW g \in DOMAIN saved'.family
                 PROVE  \E c \in DOMAIN saved'.refresh :
                            /\ saved'.refresh[c].familyId = g
                            /\ ~saved'.refresh[c].used
                            /\ saved'.refresh[c].ttl = saved'.family[g].ttl
                            /\ \A s \in DOMAIN saved'.refresh :
                                   saved'.refresh[s].familyId = g /\ ~saved'.refresh[s].used
                                       => s = c
    BY DEF Saved!OneCurrentToken
  <2>2. /\ g \in DOMAIN saved.family /\ saved.family[g].ttl > 1
        /\ saved'.family[g].ttl = saved.family[g].ttl - 1
    BY <1>1, <2>1 DEF SavedTicked
  <2>3. PICK c \in DOMAIN saved.refresh :
            /\ saved.refresh[c].familyId = g
            /\ ~saved.refresh[c].used
            /\ saved.refresh[c].ttl = saved.family[g].ttl
            /\ \A s \in DOMAIN saved.refresh :
                   saved.refresh[s].familyId = g /\ ~saved.refresh[s].used => s = c
    BY <2>2 DEF Saved!IndexInv, Saved!OneCurrentToken
  <2>4. /\ c \in DOMAIN saved'.refresh
        /\ saved'.refresh[c].familyId = g
        /\ ~saved'.refresh[c].used
        /\ saved'.refresh[c].ttl = saved'.family[g].ttl
    BY <1>1, <2>2, <2>3 DEF SavedTicked
  <2>5. \A s \in DOMAIN saved'.refresh :
            saved'.refresh[s].familyId = g /\ ~saved'.refresh[s].used => s = c
    BY <1>1, <2>3 DEF SavedTicked
  <2>6. QED
    BY <2>4, <2>5
<1>5. Saved!RecentLoginIsListed'
  BY <1>1, <1>2 DEF SavedTicked, Saved!IndexInv, Saved!RecentLoginIsListed
<1>6. Saved!IndexNamesOwnFamilies' /\ Saved!KeysNameEachOther'
  BY <1>1 DEF SavedTicked, Saved!IndexInv, Saved!IndexNamesOwnFamilies, Saved!KeysNameEachOther
<1>7. QED
  BY <1>1, <1>3, <1>4, <1>5, <1>6 DEF Saved!IndexInv

\* The file while the store works on: the history grows around it.
LEMMA SavedKept ==
    ASSUME Saved!IndexInv, TypeOK', saved' = saved, minted \subseteq minted',
           DOMAIN opener \subseteq DOMAIN opener',
           \A f \in DOMAIN opener : opener'[f] = opener[f],
           \A f \in DOMAIN opener' \ DOMAIN opener : opener'[f] \in minted' \ minted
    PROVE  Saved!IndexInv'
<1>1. DOMAIN saved.refresh \subseteq minted
  BY DEF Saved!IndexInv, Saved!KeysNameEachOther
<1>2. Saved!TypeOK'
  BY DEF Saved!IndexInv, TypeOK, Saved!TypeOK, Record, Saved!Record, IsMap, Saved!IsMap
<1>3. Saved!FamilySetIsComplete' /\ Saved!OneCurrentToken' /\ Saved!IndexNamesOwnFamilies'
  BY DEF Saved!IndexInv, Saved!FamilySetIsComplete, Saved!OneCurrentToken,
         Saved!IndexNamesOwnFamilies
<1>4. Saved!RecentLoginIsListed'
  BY <1>1 DEF Saved!IndexInv, Saved!RecentLoginIsListed
<1>5. Saved!KeysNameEachOther'
  BY <1>1 DEF Saved!IndexInv, Saved!KeysNameEachOther
<1>6. QED
  BY <1>2, <1>3, <1>4, <1>5 DEF Saved!IndexInv

----------------------------------------------------------------------------
(* The steps                                                               *)

\* The calls that hand out no token only take records away.
Shrinks ==
    /\ DOMAIN refresh' \subseteq DOMAIN refresh
    /\ \A t \in DOMAIN refresh' :
           refresh'[t].used = refresh[t].used /\ refresh'[t].familyId = refresh[t].familyId
    /\ minted' = minted
    /\ opener' = opener
    /\ newest' = newest

LEMMA OtherCallShrinks ==
    ASSUME UNCHANGED newest,
           \/ \E t \in Tokens : RotateUnknown(t) \/ RotateReplayed(t) \/ Revoke(t)
           \/ \E u \in Users : RevokeUser(u)
    PROVE  Shrinks
<1>1. ASSUME NEW D, refresh' = Drop(refresh, D)
      PROVE  DOMAIN refresh' \subseteq DOMAIN refresh /\ \A t \in DOMAIN refresh' : refresh'[t] = refresh[t]
  BY <1>1 DEF Drop, Restrict
<1>2. ASSUME NEW t \in Tokens, RotateUnknown(t)
      PROVE  Shrinks
  BY <1>2 DEF RotateUnknown, keys, Shrinks
<1>3. ASSUME NEW t \in Tokens, RotateReplayed(t) \/ Revoke(t)
      PROVE  Shrinks
  BY <1>1, <1>3 DEF RotateReplayed, Revoke, BurnFamily, keys, Shrinks
<1>4. ASSUME NEW u \in Users, RevokeUser(u)
      PROVE  Shrinks
  BY <1>1, <1>4 DEF RevokeUser, Shrinks
<1>5. QED
  BY <1>2, <1>3, <1>4

\* The last token handed out, and the tokens of no use, through what takes
\* records away, in memory or in both places.
LEMMA ShrinkingKeeps ==
    ASSUME NewestInv, EndedInv, Shrinks, ended' = ended,
           DOMAIN saved'.refresh \subseteq DOMAIN saved.refresh,
           \A t \in DOMAIN saved'.refresh :
               /\ saved'.refresh[t].used = saved.refresh[t].used
               /\ saved'.refresh[t].familyId = saved.refresh[t].familyId
    PROVE  NewestInv' /\ EndedInv'
BY DEF NewestInv, EndedInv, Shrinks, Usable

LEMMA OpenStep ==
    ASSUME SnapshotInv, NEW u \in Users, NEW f \in Families, NEW n \in Tokens,
           Open(u, f, n), UNCHANGED <<saved, ended>>
    PROVE  SnapshotInv'
<1>1. Created(u, f, n)
  BY CreateEffect DEF Open
<1>2. IndexInv'
  BY IndexStep DEF Open, Next, SnapshotInv
<1>3. Saved!IndexInv'
  BY <1>1, <1>2, SavedKept DEF SnapshotInv, Created, IndexInv
<1>4. /\ DOMAIN newest' = DOMAIN newest \union {f}
      /\ newest'[f] = n
      /\ \A g \in DOMAIN newest : g # f => newest'[g] = newest[g]
  BY DEF Open, Put
<1>5. n \notin DOMAIN saved.refresh /\ n \notin DOMAIN refresh
  BY <1>1 DEF Created, SnapshotInv, IndexInv, KeysNameEachOther, Saved!IndexInv,
              Saved!KeysNameEachOther
<1>6. NewestInv'
  BY <1>1, <1>4, <1>5 DEF Created, SnapshotInv, NewestInv
<1>7. EndedInv'
  BY <1>1, <1>5 DEF Created, SnapshotInv, EndedInv, Usable
<1>8. QED
  BY <1>2, <1>3, <1>6, <1>7 DEF SnapshotInv

LEMMA RenewStep ==
    ASSUME SnapshotInv, NEW t \in Tokens, NEW n \in Tokens, Renew(t, n), UNCHANGED <<saved, ended>>
    PROVE  SnapshotInv'
<1> DEFINE f == refresh[t].familyId
<1>1. RotatedTo(t, n)
  BY RotateEffect DEF Renew, SnapshotInv, IndexInv, KeysNameEachOther
<1>2. IndexInv'
  BY IndexStep DEF Renew, Next, Rotate, SnapshotInv
<1>3. Saved!IndexInv'
  BY <1>1, <1>2, SavedKept DEF SnapshotInv, RotatedTo, IndexInv
<1>4. /\ DOMAIN newest' = DOMAIN newest \union {f}
      /\ newest'[f] = n
      /\ \A g \in DOMAIN newest : g # f => newest'[g] = newest[g]
  BY DEF Renew, Put
<1>5. n \notin DOMAIN saved.refresh
  BY <1>1 DEF RotatedTo, SnapshotInv, Saved!IndexInv, Saved!KeysNameEachOther
<1>6. ASSUME NEW g \in DOMAIN newest, g # f
      PROVE  newest[g] # t /\ newest[g] # n
  BY <1>1, <1>6 DEF RotatedTo, SnapshotInv, NewestInv
<1>7. NewestInv'
  BY <1>1, <1>4, <1>5, <1>6 DEF RotatedTo, SnapshotInv, NewestInv
<1>8. EndedInv'
  BY <1>1, <1>5 DEF RotatedTo, SnapshotInv, EndedInv, Usable
<1>9. QED
  BY <1>2, <1>3, <1>7, <1>8 DEF SnapshotInv

LEMMA SnapshotStep ==
    ASSUME SnapshotInv, [SnapshotNext]_snapshotVars
    PROVE  SnapshotInv'
<1>1. ASSUME NEW u \in Users, NEW f \in Families, NEW n \in Tokens, Open(u, f, n),
             UNCHANGED <<saved, ended>>
      PROVE  SnapshotInv'
  BY <1>1, OpenStep
<1>2. ASSUME NEW t \in Tokens, NEW n \in Tokens, Renew(t, n), UNCHANGED <<saved, ended>>
      PROVE  SnapshotInv'
  BY <1>2, RenewStep
<1>3. ASSUME UNCHANGED <<newest, saved, ended>>,
             \/ \E t \in Tokens : RotateUnknown(t) \/ RotateReplayed(t) \/ Revoke(t)
             \/ \E u \in Users : RevokeUser(u)
      PROVE  SnapshotInv'
  <2>1. Shrinks
    BY <1>3, OtherCallShrinks
  <2>2. IndexInv'
    BY <1>3, IndexStep DEF Next, Rotate, SnapshotInv
  <2>3. Saved!IndexInv'
    BY <1>3, <2>1, <2>2, SavedKept DEF SnapshotInv, Shrinks, IndexInv
  <2>4. QED
    BY <1>3, <2>1, <2>2, <2>3, ShrinkingKeeps DEF SnapshotInv
<1>4. CASE Save
  <2>1. IndexInv'
    BY <1>4, IndexStep DEF Save, SnapshotInv
  <2>2. Saved!IndexInv'
    BY <1>4, CopyOut DEF SnapshotInv
  <2>3. NewestInv' /\ EndedInv'
    BY <1>4 DEF Save, vars, SnapshotInv, NewestInv, EndedInv, Usable
  <2>4. QED
    BY <2>1, <2>2, <2>3 DEF SnapshotInv
<1>5. CASE Crash
  <2>1. IndexInv'
    BY <1>5, CopyBack DEF SnapshotInv
  <2>2. Saved!IndexInv'
    BY <1>5, <2>1, SavedKept DEF Crash, SnapshotInv, IndexInv
  <2>3. NewestInv' /\ EndedInv'
    BY <1>5 DEF Crash, SnapshotInv, NewestInv, EndedInv, Usable
  <2>4. QED
    BY <2>1, <2>2, <2>3 DEF SnapshotInv
<1>6. CASE Second
  <2>1. Ticked /\ newest' = newest /\ ended' = ended
    BY <1>6, TickEffect DEF Second, SnapshotInv, IndexInv
  <2>2. Shrinks
    BY <2>1 DEF Ticked, Shrinks
  <2>3. IndexInv'
    BY <1>6, IndexStep DEF Second, Next, SnapshotInv
  <2>4. Saved!IndexInv'
    BY <1>6, SecondKeepsSaved DEF SnapshotInv
  <2>5. /\ DOMAIN saved'.refresh \subseteq DOMAIN saved.refresh
        /\ \A t \in DOMAIN saved'.refresh :
               /\ saved'.refresh[t].used = saved.refresh[t].used
               /\ saved'.refresh[t].familyId = saved.refresh[t].familyId
    BY <1>6, SavedTickEffect DEF SavedTicked, SnapshotInv, Saved!IndexInv
  <2>6. QED
    BY <2>1, <2>2, <2>3, <2>4, <2>5, ShrinkingKeeps DEF SnapshotInv
<1>7. CASE UNCHANGED snapshotVars
  <2>1. IndexInv'
    BY <1>7, IndexStep DEF snapshotVars, vars, SnapshotInv
  <2>2. Saved!IndexInv'
    BY <1>7, <2>1, SavedKept DEF snapshotVars, SnapshotInv, IndexInv
  <2>3. QED
    BY <1>7, <2>1, <2>2 DEF snapshotVars, SnapshotInv, NewestInv, EndedInv, Usable
<1>8. QED
  BY <1>1, <1>2, <1>3, <1>4, <1>5, <1>6, <1>7 DEF SnapshotNext, Call

\* The inductive invariant holds in every reachable state, crashes included.
THEOREM SnapshotsSound == SnapshotSpec => []SnapshotInv
<1>1. SnapshotInit => SnapshotInv
  <2> SUFFICES ASSUME SnapshotInit
               PROVE  SnapshotInv
    OBVIOUS
  <2> USE DEF SnapshotInit, Init, EmptyMap
  <2>1. IndexInv
    BY DEF IndexInv, TypeOK, IsMap, FamilySetIsComplete, OneCurrentToken, RecentLoginIsListed,
           IndexNamesOwnFamilies, KeysNameEachOther
  <2>2. Saved!IndexInv
    BY DEF Saved!IndexInv, Saved!TypeOK, Saved!IsMap, Saved!FamilySetIsComplete,
           Saved!OneCurrentToken, Saved!RecentLoginIsListed, Saved!IndexNamesOwnFamilies,
           Saved!KeysNameEachOther
  <2>3. NewestInv /\ EndedInv
    BY DEF NewestInv, EndedInv
  <2>4. QED
    BY <2>1, <2>2, <2>3 DEF SnapshotInv
<1>2. SnapshotInv /\ [SnapshotNext]_snapshotVars => SnapshotInv'
  BY SnapshotStep
<1>3. QED
  BY <1>1, <1>2, PTL DEF SnapshotSpec

\* Whatever keyspace a crash brings back, its indexes are consistent: a
\* revocation reaches every session in it that it would have reached before.
THEOREM CrashesKeepIndexes == SnapshotSpec => []IndexesSurviveCrashes
<1>1. SnapshotInv => IndexesSurviveCrashes
  BY DEF SnapshotInv, IndexesSurviveCrashes
<1>2. QED
  BY <1>1, SnapshotsSound, PTL

\* No crash turns the token a client received last into a replayed one.
THEOREM CrashesRaiseNoAlarm == SnapshotSpec => []NewestTokenIsNoReplay
<1>1. SnapshotInv => NewestTokenIsNoReplay
  BY DEF SnapshotInv, NewestInv, NewestTokenIsNoReplay
<1>2. QED
  BY <1>1, SnapshotsSound, PTL

\* What was over when the latest file was begun stays over.
THEOREM SavedEndsAreFinal == SnapshotSpec => []SavedEndIsFinal
<1>1. SnapshotInv => SavedEndIsFinal
  BY DEF SnapshotInv, EndedInv, SavedEndIsFinal
<1>2. QED
  BY <1>1, SnapshotsSound, PTL
=============================================================================
