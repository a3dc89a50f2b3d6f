-------------------------- MODULE KeyRotationProofs --------------------------
(***************************************************************************)
(* Proofs about KeyRotation, for any kids, keys, lifetimes and bound on    *)
(* the tokens.                                                             *)
(*                                                                         *)
(* What a token needs is that the plan lists its key under its kid, and    *)
(* under no other (PlanSound, Covered).  A rotation keeps both because it  *)
(* moves the active pair to the list, a drop because the time a kid has    *)
(* been idle bounds what is left of its tokens' lives.                     *)
(***************************************************************************)
EXTENDS KeyRotation, TLAPS

\* The active pair of the plan.
Signer == [kid |-> plan.kid, publicKey |-> plan.privateKey]

PlanSound ==
    /\ Signer \in Entries /\ plan.form = "pkcs8"
    /\ plan.publicKey \in {None, plan.privateKey}
    /\ plan.ttl \in Ttls
    /\ plan.extra \subseteq Entries
    /\ plan.kid \notin KidsOf(plan.extra)
    /\ \A x, y \in plan.extra : x.kid = y.kid => x = y

Covered ==
    /\ idle[plan.kid] = 0
    /\ \A t \in tokens : t.asPlanned =>
        /\ [kid |-> t.kid, publicKey |-> t.key] \in plan.extra \union {Signer}
        /\ t.life + idle[t.kid] <= Longest

KeyInv ==
    /\ TypeOK
    /\ config # Down => ~Refused(env)
    /\ PlanSound
    /\ Covered

----------------------------------------------------------------------------
(* The operator's steps                                                    *)

\* A plan the operator can move to is sound and keeps the key of every
\* unexpired token.
LEMMA NextPlanSound ==
    ASSUME KeyInv, NEW p \in {plan} \union Rotated \union Dropped \union Retuned,
           plan' = p, tokens' = tokens,
           idle' = [k \in Kids |-> IF k \in {plan.kid, p.kid} THEN 0 ELSE idle[k]]
    PROVE  p \in Environments /\ PlanSound' /\ Covered'
<1> USE KeyAssumption
<1>1. /\ plan \in Environments /\ PlanSound /\ Covered
      /\ tokens \subseteq Tokens /\ idle \in [Kids -> 0 .. Longest]
  BY DEF KeyInv, TypeOK
<1>2. CASE p = plan
  BY <1>1, <1>2 DEF PlanSound, Covered, Signer, Entries, KidsOf, Tokens
<1>3. CASE p \in Rotated
  <2>1. PICK x \in NextSigners, q \in {None} \union Keys : p = Rotate(x, q) /\ q \in {None, x.publicKey}
    BY <1>1, <1>3 DEF Rotated, NextSigners, PlanSound, Entries
  <2>2. x \in Entries
    BY <1>1 DEF NextSigners, PlanSound
  <2>3. /\ p.kid = x.kid /\ p.privateKey = x.publicKey /\ p.publicKey = q
        /\ p.form = plan.form /\ p.ttl = plan.ttl
        /\ p.extra = (plan.extra \ {x}) \union {Signer}
    BY <1>1, <2>1 DEF Rotate, Signer, Environments
  <2>4. x.kid # plan.kid /\ x.kid \notin KidsOf(plan.extra \ {x})
    BY <1>1 DEF NextSigners, PlanSound, KidsOf
  <2>5. p.extra \subseteq Entries /\ p.kid \notin KidsOf(p.extra)
    BY <1>1, <2>3, <2>4 DEF PlanSound, KidsOf, Signer
  <2>6. \A y, z \in p.extra : y.kid = z.kid => y = z
    BY <1>1, <2>3 DEF PlanSound, KidsOf, Signer
  <2>7. p \in Environments
    BY <1>1, <2>1, <2>2, <2>3, <2>5 DEF Rotate, Environments, Entries
  <2>8. PlanSound'
    BY <1>1, <2>1, <2>2, <2>3, <2>5, <2>6 DEF PlanSound, Signer, Entries
  <2>9. Signer' = x
    BY <2>2, <2>3 DEF Signer, Entries
  <2>10. Covered'
    <3>1. idle'[p.kid] = 0
      BY <2>2, <2>3 DEF Entries
    <3>2. ASSUME NEW t \in tokens, t.asPlanned
          PROVE  /\ [kid |-> t.kid, publicKey |-> t.key] \in p.extra \union {x}
                 /\ t.life + idle'[t.kid] <= Longest
      BY <1>1, <3>2, <2>3 DEF Covered, Tokens
    <3> QED BY <2>9, <3>1, <3>2 DEF Covered
  <2> QED BY <2>7, <2>8, <2>10
<1>4. CASE p \in Dropped
  <2>1. PICK x \in plan.extra : idle[x.kid] = Longest /\ p = [plan EXCEPT !.extra = plan.extra \ {x}]
    BY <1>4 DEF Dropped
  <2>2. p \in Environments
    BY <1>1, <2>1 DEF PlanSound, Environments, Entries
  <2>3. p.kid = plan.kid /\ p.privateKey = plan.privateKey /\ p.extra = plan.extra \ {x}
        /\ p.form = plan.form /\ p.ttl = plan.ttl /\ p.publicKey = plan.publicKey
    BY <1>1, <2>1 DEF Environments
  <2>4. PlanSound'
    BY <1>1, <2>3 DEF PlanSound, Signer, Entries, KidsOf
  <2>5. idle' = idle
    BY <1>1, <2>3 DEF Covered, PlanSound, Signer, Entries
  <2>6. ASSUME NEW t \in tokens, t.asPlanned
        PROVE  [kid |-> t.kid, publicKey |-> t.key] # x
    BY <1>1, <2>1, <2>6 DEF Covered, Tokens
  <2>7. Signer' = Signer
    BY <2>3 DEF Signer
  <2>8. Covered'
    BY <1>1, <2>3, <2>5, <2>6, <2>7 DEF Covered
  <2> QED BY <2>2, <2>4, <2>8
<1>5. CASE p \in Retuned
  <2>1. PICK n \in Ttls : p = [plan EXCEPT !.ttl = n]
    BY <1>5 DEF Retuned
  <2>2. /\ p \in Environments /\ p.ttl = n
        /\ p.kid = plan.kid /\ p.privateKey = plan.privateKey /\ p.extra = plan.extra
        /\ p.form = plan.form /\ p.publicKey = plan.publicKey
    BY <1>1, <2>1 DEF Environments
  <2>3. PlanSound'
    BY <1>1, <2>2 DEF PlanSound, Signer
  <2>4. idle' = idle
    BY <1>1, <2>2 DEF Covered, PlanSound, Signer, Entries
  <2>5. Covered'
    BY <1>1, <2>2, <2>4 DEF Covered, Signer
  <2> QED BY <2>2, <2>3, <2>5
<1> QED BY <1>2, <1>3, <1>4, <1>5

\* A wrong file is still an environment.
LEMMA SlipTypes ==
    ASSUME KeyInv, NEW e \in Slips(plan)
    PROVE  e \in Environments
<1>1. plan \in Environments /\ PlanSound
  BY DEF KeyInv, TypeOK
<1>2. WrongLists(plan) \subseteq {NotJson} \union SUBSET [kid : Kids, publicKey : Keys \union {None, Corrupt}]
  BY <1>1 DEF WrongLists, PlanSound, Signer, Entries
<1> QED BY <1>1, <1>2 DEF Slips, Environments

----------------------------------------------------------------------------
(* The service's steps                                                     *)

\* A token is typed by the configuration that signed it.
LEMMA SignStep ==
    ASSUME KeyInv, SignAccessToken
    PROVE  TypeOK' /\ Covered'
<1> USE KeyAssumption
<1>1. /\ env \in Environments /\ config = Load(env) /\ ~Refused(env) /\ PlanSound /\ Covered
      /\ tokens \subseteq Tokens /\ idle \in [Kids -> 0 .. Longest]
  BY DEF KeyInv, TypeOK, SignAccessToken
<1> DEFINE t == [kid |-> config.kid, key |-> config.privateKey,
                 life |-> config.accessTtlSeconds, asPlanned |-> config = Load(plan)]
<1>2. tokens' = tokens \union {t} /\ UNCHANGED <<plan, env, config, idle>>
  BY DEF SignAccessToken
<1>3. /\ config.kid \in Kids /\ config.privateKey \in Keys
      /\ config.accessTtlSeconds \in 1 .. Longest
  BY <1>1 DEF Refused, Load, Environments, CanSign, SignAccessToken
<1>4. t \in Tokens
  BY <1>3 DEF Tokens
<1>5. TypeOK'
  BY <1>1, <1>2, <1>4 DEF TypeOK, KeyInv
<1>6. ASSUME config = Load(plan)
      PROVE  /\ [kid |-> t.kid, publicKey |-> t.key] = Signer
             /\ t.life + idle[t.kid] <= Longest
  <2>1. /\ config.kid = plan.kid /\ config.privateKey = plan.privateKey
    BY <1>6 DEF Load
  <2>2. idle[t.kid] = 0
    BY <1>1, <2>1 DEF Covered
  <2> QED BY <1>3, <2>1, <2>2 DEF Signer
<1>7. t.asPlanned => config = Load(plan)
  OBVIOUS
<1>8. ASSUME NEW u \in tokens', u.asPlanned
      PROVE  /\ [kid |-> u.kid, publicKey |-> u.key] \in plan.extra \union {Signer}
             /\ u.life + idle[u.kid] <= Longest
  <2>1. CASE u = t
    BY <1>6, <1>7, <1>8, <2>1
  <2>2. CASE u \in tokens
    BY <1>1, <1>8, <2>2 DEF Covered
  <2> QED BY <1>2, <2>1, <2>2
<1>9. Signer' = Signer
  BY <1>2 DEF Signer
<1>10. Covered'
  BY <1>1, <1>2, <1>8, <1>9 DEF Covered
<1> QED BY <1>5, <1>10

\* A tick takes one from a token's life for what it adds to its kid's idle time.
LEMMA TickStep ==
    ASSUME KeyInv, Tick
    PROVE  TypeOK' /\ Covered'
<1> USE KeyAssumption
<1>1. /\ PlanSound /\ Covered /\ TypeOK
      /\ tokens \subseteq Tokens /\ idle \in [Kids -> 0 .. Longest] /\ plan.kid \in Kids
  BY DEF KeyInv, TypeOK, PlanSound, Signer, Entries
<1>2. UNCHANGED <<plan, env, config>>
  BY DEF Tick
<1>3. \A k \in Kids : idle'[k] \in 0 .. Longest /\ idle'[k] <= idle[k] + 1
  BY <1>1 DEF Tick
<1>4. idle' \in [Kids -> 0 .. Longest]
  BY <1>1 DEF Tick
<1>5. idle'[plan.kid] = 0
  BY <1>1 DEF Tick, Covered
<1>6. ASSUME NEW u \in tokens'
      PROVE  u \in Tokens /\ (u.asPlanned =>
                /\ [kid |-> u.kid, publicKey |-> u.key] \in plan.extra \union {Signer}
                /\ u.life + idle'[u.kid] <= Longest)
  <2>1. PICK t \in tokens : t.life > 1 /\ u = [t EXCEPT !.life = t.life - 1]
    BY DEF Tick
  <2>2. t \in Tokens /\ t.kid \in Kids /\ t.life \in 2 .. Longest
    BY <1>1, <2>1 DEF Tokens
  <2>3. u.kid = t.kid /\ u.key = t.key /\ u.life = t.life - 1 /\ u.asPlanned = t.asPlanned
    BY <2>1, <2>2 DEF Tokens
  <2>4. u \in Tokens
    BY <2>1, <2>2 DEF Tokens
  <2>5. idle'[t.kid] \in 0 .. Longest /\ idle[t.kid] \in 0 .. Longest /\ idle'[t.kid] <= idle[t.kid] + 1
    BY <1>1, <1>3, <2>2
  <2> QED BY <1>1, <2>1, <2>2, <2>3, <2>4, <2>5 DEF Covered
<1>7. TypeOK'
  BY <1>1, <1>2, <1>4, <1>6 DEF TypeOK, Load
<1>8. Covered'
  BY <1>2, <1>5, <1>6 DEF Covered, Signer
<1> QED BY <1>7, <1>8

----------------------------------------------------------------------------
(* The inductive invariant                                                 *)

LEMMA KeyInvInit == Init => KeyInv
<1> SUFFICES ASSUME Init PROVE KeyInv
  OBVIOUS
<1> USE KeyAssumption
<1>1. PICK x \in Entries, n \in Ttls :
        plan = [kid |-> x.kid, privateKey |-> x.publicKey, form |-> "pkcs8", publicKey |-> None,
                ttl |-> n, extra |-> {}]
  BY DEF Init
<1>2. plan \in Environments
  BY <1>1 DEF Environments, Entries
<1>3. PlanSound
  BY <1>1 DEF PlanSound, Signer, Entries, KidsOf
<1>4. TypeOK
  BY <1>2 DEF Init, TypeOK
<1>5. Covered
  BY <1>1 DEF Init, Covered, Entries
<1> QED BY <1>3, <1>4, <1>5 DEF Init, KeyInv

LEMMA KeyInvStep == KeyInv /\ [Next]_vars => KeyInv'
<1> SUFFICES ASSUME KeyInv, [Next]_vars PROVE KeyInv'
  OBVIOUS
<1>1. /\ TypeOK /\ PlanSound /\ Covered /\ plan \in Environments /\ idle \in [Kids -> 0 .. Longest]
  BY DEF KeyInv, TypeOK
<1>2. CASE Deploy
  <2>1. PICK p \in {plan} \union Rotated \union Dropped \union Retuned : Recreate(p, p)
    BY <1>2 DEF Deploy
  <2>2. p \in Environments /\ PlanSound' /\ Covered'
    BY <2>1, NextPlanSound DEF Recreate
  <2>3. idle' \in [Kids -> 0 .. Longest]
    BY <1>1, <2>1, KeyAssumption DEF Recreate
  <2> QED BY <1>1, <2>1, <2>2, <2>3 DEF Recreate, KeyInv, TypeOK
<1>3. CASE Misdeploy
  <2>1. PICK e \in Slips(plan) : Recreate(plan, e)
    BY <1>3 DEF Misdeploy
  <2>2. e \in Environments
    BY SlipTypes
  <2>3. PlanSound' /\ Covered'
    BY <2>1, NextPlanSound DEF Recreate
  <2>4. idle' \in [Kids -> 0 .. Longest]
    BY <1>1, <2>1, KeyAssumption DEF Recreate
  <2> QED BY <1>1, <2>1, <2>2, <2>3, <2>4 DEF Recreate, KeyInv, TypeOK
<1>4. CASE Start
  <2>1. config' = Load(env)' /\ ~Refused(env)' /\ UNCHANGED <<plan, env, tokens, idle>>
    BY <1>4 DEF Start, Load, PublicKey, AdditionalVerifyKeys, Refused
  <2>2. TypeOK'
    BY <1>1, <2>1 DEF TypeOK
  <2>3. PlanSound' /\ Covered'
    BY <1>1, <2>1 DEF PlanSound, Covered, Signer, KidsOf
  <2> QED BY <2>1, <2>2, <2>3 DEF KeyInv, Refused
<1>5. CASE Stop
  BY <1>1, <1>5 DEF Stop, KeyInv, TypeOK, PlanSound, Covered, Signer, KidsOf
<1>6. CASE SignAccessToken
  BY <1>1, <1>6, SignStep DEF SignAccessToken, KeyInv, PlanSound, Signer, KidsOf, Refused
<1>7. CASE Tick
  BY <1>1, <1>7, TickStep DEF Tick, KeyInv, PlanSound, Signer, KidsOf, Refused
<1>8. CASE UNCHANGED vars
  BY <1>1, <1>8 DEF vars, KeyInv, TypeOK, PlanSound, Covered, Signer, KidsOf, Refused,
                    Load, PublicKey, AdditionalVerifyKeys
<1> QED BY <1>2, <1>3, <1>4, <1>5, <1>6, <1>7, <1>8 DEF Next

----------------------------------------------------------------------------
(* The theorems                                                            *)

\* The plan stays sound and keeps the key of every token signed as planned.
THEOREM RotationSound == Spec => []KeyInv
  BY KeyInvInit, KeyInvStep, PTL DEF Spec

\* Type correctness of environments, configuration, tokens and idle times.
THEOREM TypeCorrect == Spec => []TypeOK
<1>1. KeyInv => TypeOK
  BY DEF KeyInv
<1> QED BY <1>1, RotationSound, PTL

\* A running service whose list lost entries, and that is otherwise as planned,
\* verifies the tokens of the entries it still has.
LEMMA ListedTokensVerify ==
    ASSUME KeyInv, NEW c, NEW t \in tokens, t.asPlanned,
           c.kid = plan.kid, c.publicKey = plan.privateKey,
           c.additionalVerifyKeys \subseteq plan.extra,
           [kid |-> t.kid, publicKey |-> t.key] \in c.additionalVerifyKeys \union {Signer}
    PROVE  Verifies(c, t)
<1> DEFINE own == [kid |-> t.kid, publicKey |-> t.key]
           listed == {x \in c.additionalVerifyKeys : x.kid = t.kid}
<1>1. PlanSound
  BY DEF KeyInv
<1>2. Active(c) = Signer
  BY DEF Active, Signer
<1>3. KeySetWorks(c)
  BY <1>1, <1>2 DEF KeySetWorks, PlanSound, Entries
<1>4. CASE t.kid = plan.kid
  <2>1. listed = {}
    BY <1>1, <1>4 DEF PlanSound, KidsOf
  <2>2. own = Signer
    BY <2>1
  <2> QED BY <1>2, <1>3, <1>4, <2>1, <2>2 DEF Verifies
<1>5. CASE t.kid # plan.kid
  <2>1. own # Signer
    BY <1>5 DEF Signer
  <2>2. own \in c.additionalVerifyKeys /\ own \in listed
    BY <2>1
  <2>3. \A x \in listed : x = own
    BY <1>1, <2>2 DEF PlanSound
  <2>4. listed = {own}
    BY <2>2, <2>3
  <2> QED BY <1>3, <1>5, <2>4 DEF Verifies
<1> QED BY <1>4, <1>5

\* Whatever rotations, drops and restarts came before, a service that runs as
\* planned verifies every unexpired token it signed as planned.
THEOREM RotationKeepsTokens == Spec => []TokensVerify
<1>1. KeyInv => TokensVerify
  <2> SUFFICES ASSUME KeyInv, config = Load(plan), NEW t \in tokens, t.asPlanned
               PROVE  Verifies(config, t)
    BY DEF TokensVerify
  <2>1. PlanSound /\ Covered
    BY DEF KeyInv
  <2>2. config.kid = plan.kid /\ config.publicKey = plan.privateKey
    BY <2>1 DEF Load, PublicKey, PlanSound
  <2>3. config.additionalVerifyKeys = plan.extra
    BY <2>1, KeyAssumption DEF Load, AdditionalVerifyKeys, PlanSound, Entries
  <2> QED BY <2>1, <2>2, <2>3, ListedTokensVerify DEF Covered
<1> QED BY <1>1, RotationSound, PTL

\* Entries that lost their key cost the tokens of that key and no others.
THEOREM LossIsContained == Spec => []LostEntriesLoseOnlyTheirTokens
<1>1. KeyInv => LostEntriesLoseOnlyTheirTokens
  <2> SUFFICES ASSUME KeyInv, config # Down, env = [plan EXCEPT !.extra = env.extra],
                      \A x \in env.extra : x \in plan.extra \/ x.publicKey = None,
                      NEW t \in tokens, t.asPlanned,
                      [kid |-> t.kid, publicKey |-> t.key] \in {Active(Load(plan))} \union env.extra
               PROVE  Verifies(config, t)
    BY DEF LostEntriesLoseOnlyTheirTokens
  <2>1. PlanSound /\ config = Load(env) /\ plan \in Environments /\ t \in Tokens
    BY DEF KeyInv, TypeOK
  <2>2. env.kid = plan.kid /\ env.publicKey = plan.publicKey /\ env.privateKey = plan.privateKey
    BY <2>1 DEF Environments
  <2>3. config.kid = plan.kid /\ config.publicKey = plan.privateKey
    BY <2>1, <2>2 DEF Load, PublicKey, PlanSound
  <2>4. Active(Load(plan)) = Signer
    BY <2>1 DEF Active, Load, PublicKey, PlanSound, Signer
  <2>5. config.additionalVerifyKeys = {x \in env.extra : x.publicKey # None}
    BY <2>1 DEF Load, AdditionalVerifyKeys
  <2>6. [kid |-> t.kid, publicKey |-> t.key].publicKey # None
    BY <2>1, KeyAssumption DEF Tokens
  <2> QED BY <2>3, <2>4, <2>5, <2>6, ListedTokensVerify
<1> QED BY <1>1, RotationSound, PTL
=============================================================================
