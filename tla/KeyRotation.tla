----------------------------- MODULE KeyRotation -----------------------------
(***************************************************************************)
(* The keys that sign and verify access tokens: configuration.ts reads     *)
(* them from the container's environment when the process starts and       *)
(* refuses to serve without them, token.service.ts signs with one of them  *)
(* and verifies with all it publishes.                                     *)
(*                                                                         *)
(* The operator has a plan, the environment she means the service to run   *)
(* with, and changes it as configuration.ts and .env.example document:     *)
(* rotate to another key under another kid and keep the old one for        *)
(* verification, drop it once its tokens have expired.  The file she       *)
(* deploys is the plan, or the plan with one variable wrong.               *)
(*                                                                         *)
(* A key stands for both its halves.  A PEM is what normalizePem makes of  *)
(* a variable: a key, None ("" in the code), or Corrupt, text with a PEM   *)
(* header and no key behind it.  Issuer and audience never change.         *)
(***************************************************************************)
EXTENDS Naturals, FiniteSets

CONSTANTS
    Kids, Keys,      \* key ids and key pairs
    Ttls, Longest,   \* the access lifetimes an operator sets, and a bound on them, in ticks
    MaxTokens,       \* bound: tokens not yet expired at a time
    None, Corrupt, NotJson, Down

ASSUME KeyAssumption ==
    /\ Longest \in Nat \ {0} /\ Ttls \subseteq 1 .. Longest
    /\ None \notin Kids \union Keys /\ Corrupt \notin Keys /\ Corrupt # None

VARIABLES
    plan,     \* the environment the operator means
    env,      \* the environment the container was created with
    config,   \* what load() made of it, or Down
    tokens,   \* the unexpired tokens handed out
    idle      \* ticks since each kid last signed by the plan, up to Longest

vars == <<plan, env, config, tokens, idle>>

Entries == [kid : Kids, publicKey : Keys]
Environments ==
    [kid : Kids \union {None}, privateKey : Keys \union {None, Corrupt}, form : {"pkcs8", "pkcs1"},
     publicKey : Keys \union {None, Corrupt}, ttl : Ttls \union {0},
     extra : {NotJson} \union SUBSET [kid : Kids, publicKey : Keys \union {None, Corrupt}]]
Tokens == [kid : Kids, key : Keys, life : 1 .. Longest, asPlanned : BOOLEAN]

KidsOf(X) == {x.kid : x \in X}

----------------------------------------------------------------------------
(* load() and the key set                                                  *)

\* Mutant: no public key is derived.
UnderivedPublicKey(e) == e.publicKey

\* loadKeys: an explicit public key is taken as it is, an absent one is derived.
PublicKey(e) == IF e.publicKey # None THEN e.publicKey ELSE e.privateKey

\* Mutant: any lifetime is taken.
RefusedBlanksOnly(e) ==
    \/ e.kid = None \/ e.privateKey = None \/ e.extra = NotJson
    \/ e.publicKey = None /\ e.privateKey = Corrupt

\* The environments load() throws on.
Refused(e) ==
    \/ e.kid = None
    \/ e.privateKey = None
    \/ e.publicKey = None /\ e.privateKey = Corrupt
    \/ e.extra = NotJson
    \/ e.ttl = 0

\* Mutant: entries without a PEM are kept.
UnfilteredVerifyKeys(e) == e.extra

\* parseAdditionalVerifyKeys: entries without a PEM are left out.  The list is a
\* set: the same entry twice is not told from once.
AdditionalVerifyKeys(e) == {x \in e.extra : x.publicKey # None}

Load(e) ==
    [kid |-> e.kid, privateKey |-> e.privateKey, form |-> e.form, publicKey |-> PublicKey(e),
     additionalVerifyKeys |-> AdditionalVerifyKeys(e), accessTtlSeconds |-> e.ttl]

Active(c) == [kid |-> c.kid, publicKey |-> c.publicKey]

\* getJwks imports every key or fails for good: the promise is kept.
KeySetWorks(c) == \A x \in {Active(c)} \union c.additionalVerifyKeys : x.publicKey \in Keys

\* createLocalJWKSet selects by kid and refuses when two keys carry it; an
\* active key that is listed again is published twice.
Verifies(c, t) ==
    /\ KeySetWorks(c)
    /\ LET listed == {x \in c.additionalVerifyKeys : x.kid = t.kid}
           own == [kid |-> t.kid, publicKey |-> t.key]
       IN  IF c.kid = t.kid THEN Active(c) = own /\ listed = {} ELSE listed = {own}

\* importPKCS8 takes PKCS#8 only.
CanSign(c) == c.privateKey \in Keys /\ c.form = "pkcs8"

----------------------------------------------------------------------------
(* The operator                                                            *)

\* The pairs a rotation may move to: one kept for verification, or any key
\* under a kid that is not in use.
NextSigners == plan.extra \union {x \in Entries : x.kid \notin KidsOf(plan.extra) \union {plan.kid}}

Rotate(x, p) ==
    [plan EXCEPT !.kid = x.kid, !.privateKey = x.publicKey, !.publicKey = p,
                 !.extra = (@ \ {x}) \union {[kid |-> plan.kid, publicKey |-> plan.privateKey]}]

\* The public key is left to be derived or is given with the private one.
Rotated == {Rotate(x, None) : x \in NextSigners} \union {Rotate(x, x.publicKey) : x \in NextSigners}

\* A key is dropped once every token it signed has expired.
Dropped == {[plan EXCEPT !.extra = @ \ {x}] : x \in {y \in plan.extra : idle[y.kid] = Longest}}

Retuned == {[plan EXCEPT !.ttl = n] : n \in Ttls}

\* An additional key missing, unreadable or another one, or the active key listed too.
WrongLists(p) ==
    {NotJson, p.extra \union {[kid |-> p.kid, publicKey |-> p.privateKey]}}
    \union {p.extra \ {x} : x \in p.extra}
    \union {(p.extra \ {x}) \union {[kid |-> x.kid, publicKey |-> k]} :
                x \in p.extra, k \in Keys \union {None, Corrupt}}

\* The plan with one variable wrong.
Slips(p) ==
    {[p EXCEPT !.kid = k] : k \in Kids \union {None}}
    \union {[p EXCEPT !.privateKey = k] : k \in Keys \union {None, Corrupt}}
    \union {[p EXCEPT !.form = "pkcs1"], [p EXCEPT !.ttl = 0]}
    \union {[p EXCEPT !.publicKey = k] : k \in Keys \union {None, Corrupt}}
    \union {[p EXCEPT !.extra = l] : l \in WrongLists(p)}

\* The container is created again with the environment e of the plan p.
Recreate(p, e) ==
    /\ plan' = p /\ env' = e
    /\ config' = Down
    /\ idle' = [k \in Kids |-> IF k \in {plan.kid, p.kid} THEN 0 ELSE idle[k]]
    /\ UNCHANGED tokens

\* The file is as planned.
Deploy == \E p \in {plan} \union Rotated \union Dropped \union Retuned : Recreate(p, p)

\* The file is wrong (no time has passed since the plan, if it is a new one).
Misdeploy == \E e \in Slips(plan) : Recreate(plan, e)

----------------------------------------------------------------------------
(* The service                                                             *)

\* Bootstrap: load() or an exit, after which the container restarts.
Start ==
    /\ config = Down /\ ~Refused(env)
    /\ config' = Load(env)
    /\ UNCHANGED <<plan, env, tokens, idle>>

Stop ==
    /\ config # Down
    /\ config' = Down
    /\ UNCHANGED <<plan, env, tokens, idle>>

\* signAccessToken stamps the kid and signs with the private key.
SignAccessToken ==
    /\ config # Down /\ CanSign(config)
    /\ Cardinality(tokens) < MaxTokens
    /\ tokens' = tokens \union {[kid |-> config.kid, key |-> config.privateKey,
                                 life |-> config.accessTtlSeconds, asPlanned |-> config = Load(plan)]}
    /\ UNCHANGED <<plan, env, config, idle>>

\* Time passes: tokens come closer to their exp and are gone when it is reached.
Tick ==
    /\ tokens' = {[t EXCEPT !.life = @ - 1] : t \in {u \in tokens : u.life > 1}}
    /\ idle' = [k \in Kids |-> IF k = plan.kid \/ idle[k] = Longest THEN idle[k] ELSE idle[k] + 1]
    /\ UNCHANGED <<plan, env, config>>

Init ==
    /\ plan \in {[kid |-> x.kid, privateKey |-> x.publicKey, form |-> "pkcs8", publicKey |-> None,
                  ttl |-> n, extra |-> {}] : x \in Entries, n \in Ttls}
    /\ env = plan
    /\ config = Down
    /\ tokens = {}
    /\ idle = [k \in Kids |-> IF k = plan.kid THEN 0 ELSE Longest]

Next == Deploy \/ Misdeploy \/ Start \/ Stop \/ SignAccessToken \/ Tick

Spec == Init /\ [][Next]_vars

----------------------------------------------------------------------------
(* Properties                                                              *)

\* Every variable has its type; a configuration is always that of an environment.
TypeOK ==
    /\ plan \in Environments /\ env \in Environments
    /\ config = Down \/ config = Load(env)
    /\ tokens \subseteq Tokens
    /\ idle \in [Kids -> 0 .. Longest]

\* Through any number of rotations, roll-backs, drops and changes of the
\* lifetime, and stops at any moment, a service that runs as planned verifies
\* every unexpired token it signed as planned (configuration.ts, the rotation
\* overlap; token.service.ts, getKeySet).
TokensVerify ==
    config # Down /\ config = Load(plan) => \A t \in tokens : t.asPlanned => Verifies(config, t)

\* When the list of additional keys lost some keys, and nothing else is
\* wrong, only the tokens of the lost keys stop verifying
\* (parseAdditionalVerifyKeys leaves the entry out, and the set still builds).
LostEntriesLoseOnlyTheirTokens ==
    config # Down /\ env = [plan EXCEPT !.extra = env.extra]
        /\ (\A x \in env.extra : x \in plan.extra \/ x.publicKey = None) =>
        \A t \in tokens :
            /\ t.asPlanned
            /\ [kid |-> t.kid, publicKey |-> t.key] \in {Active(Load(plan))} \union env.extra
            => Verifies(config, t)
=============================================================================
