------------------------ MODULE BrowserSessionProofs ------------------------
(***************************************************************************)
(* What holds of BrowserSession for any families, tokens and requests, and *)
(* any None that is no token.                                              *)
(***************************************************************************)
EXTENDS BrowserSession, TLAPS

----------------------------------------------------------------------------
(* The session store                                                       *)

\* No token of t's family is held any more; t has not been retired.
Gone(t) == \A s \in DOMAIN session : session[s].family # home[t]
Sound(t) == Gone(t) \/ Live(t)

StoreInv ==
    /\ Store!TypeOK
    /\ home \in [minted -> Families]
    /\ DOMAIN session \subseteq minted
    /\ \A t \in DOMAIN session : session[t].family = home[t]
    /\ \A t \in minted : home[t] \in DOMAIN opener

\* A step of the store that retires x at most.
Retires(x) ==
    /\ StoreInv'
    /\ minted \subseteq minted'
    /\ \A t \in minted :
           /\ home'[t] = home[t]
           /\ t # x /\ Sound(t) => Sound(t)'
           /\ Gone(t) => Gone(t)'
           /\ t \notin DOMAIN session => t \notin DOMAIN session'

LEMMA StoreRests ==
    ASSUME StoreInv, UNCHANGED <<session, minted, opener, home>>, reply' \in Store!Replies
    PROVE  Retires(None)
BY DEF Retires, StoreInv, Sound, Gone, Live, Store!TypeOK, Store!IsMap

\* Tokens are dropped: with its family, if one was not retired.
LEMMA DropStep ==
    ASSUME StoreInv, NEW D, session' = Store!Drop(session, D),
           \A t \in D \intersect DOMAIN session :
               \/ session[t].used
               \/ \A s \in DOMAIN session : session[s].family = session[t].family => s \in D,
           UNCHANGED <<minted, opener, home>>, reply' \in Store!Replies
    PROVE  Retires(None)
<1>1. /\ DOMAIN session' = DOMAIN session \ D
      /\ \A t \in DOMAIN session' : session'[t] = session[t]
      /\ session' = [t \in DOMAIN session' |-> session'[t]]
  BY DEF Store!Drop, Store!Restrict
<1>2. StoreInv'
  BY <1>1 DEF StoreInv, Store!TypeOK, Store!IsMap
<1>3. ASSUME NEW t \in minted
      PROVE  /\ Sound(t) => Sound(t)'
             /\ Gone(t) => Gone(t)'
  <2>1. Gone(t) => Gone(t)'
    BY <1>1 DEF Gone
  <2>2. ASSUME Live(t)
        PROVE  Live(t)' \/ Gone(t)'
    <3>1. CASE t \in D
      <4>1. \A s \in DOMAIN session : session[s].family = home[t] => s \in D
        BY <2>2, <3>1 DEF Live, StoreInv
      <4> QED
        BY <1>1, <4>1 DEF Gone
    <3>2. CASE t \notin D
      BY <1>1, <2>2, <3>2 DEF Live
    <3> QED
      BY <3>1, <3>2
  <2> QED
    BY <2>1, <2>2 DEF Sound
<1> QED
  BY <1>1, <1>2, <1>3 DEF Retires

\* A rotation retires the token presented, and its successor is not retired.
LEMMA RotateStep ==
    ASSUME StoreInv, NEW t \in minted, NEW n \in Tokens, Store!RotateCurrent(t, n),
           home' = Put(home, n, home[t])
    PROVE  Retires(t) /\ n \notin minted /\ n \in minted' /\ Sound(n)'
<1>1. /\ t \in DOMAIN session /\ ~session[t].used /\ n \notin minted /\ t # n
      /\ minted' = minted \union {n} /\ opener' = opener /\ reply' \in Store!Replies
      /\ home' = Put(home, n, home[t])
      /\ session' = Store!Put([session EXCEPT ![t].used = TRUE], n, session[t])
  BY DEF Store!RotateCurrent, Store!Replies
<1>2. session \in [DOMAIN session -> [family : Families, user : {User}, used : BOOLEAN]]
      /\ DOMAIN session \subseteq Tokens
  BY DEF StoreInv, Store!TypeOK, Store!IsMap
<1>3. /\ DOMAIN session' = DOMAIN session \union {n}
      /\ session'[n] = session[t]
      /\ \A s \in DOMAIN session : session'[s].family = session[s].family
      /\ \A s \in DOMAIN session : s # t => session'[s] = session[s]
      /\ session' \in [DOMAIN session' -> [family : Families, user : {User}, used : BOOLEAN]]
  BY <1>1, <1>2 DEF StoreInv, Store!Put
<1>4. home' \in [minted' -> Families] /\ home'[n] = home[t] /\ \A s \in minted : home'[s] = home[s]
  BY <1>1 DEF StoreInv, Put
<1>5. StoreInv'
  <2>1. Store!TypeOK'
    BY <1>1, <1>2, <1>3 DEF StoreInv, Store!TypeOK, Store!IsMap
  <2>2. ASSUME NEW s \in DOMAIN session'
        PROVE  s \in minted' /\ session'[s].family = home'[s]
    <3>1. CASE s = n
      <4>1. session'[n].family = home'[n]
        BY <1>1, <1>3, <1>4 DEF StoreInv
      <4> QED
        BY <1>1, <3>1, <4>1
    <3>2. CASE s # n
      <4>1. s \in DOMAIN session
        BY <1>3, <3>2
      <4>2. s \in minted /\ session[s].family = home[s]
        BY <4>1 DEF StoreInv
      <4>3. session'[s].family = session[s].family
        BY <1>3, <4>1
      <4> QED
        BY <1>1, <1>4, <4>2, <4>3
    <3> QED
      BY <3>1, <3>2
  <2>3. \A s \in minted' : home'[s] \in DOMAIN opener'
    BY <1>1, <1>4 DEF StoreInv
  <2> QED
    BY <1>4, <2>1, <2>2, <2>3 DEF StoreInv
<1>6. ASSUME NEW s \in minted
      PROVE  /\ s # t /\ Sound(s) => Sound(s)'
             /\ Gone(s) => Gone(s)'
  <2>1. Gone(s) => Gone(s)'
    BY <1>1, <1>3, <1>4 DEF Gone, StoreInv
  <2>2. s # t /\ Live(s) => Live(s)'
    BY <1>3 DEF Live
  <2> QED
    BY <2>1, <2>2 DEF Sound
<1>7. Sound(n)'
  BY <1>1, <1>3 DEF Sound, Live
<1>8. \A s \in minted : s \notin DOMAIN session => s \notin DOMAIN session'
  BY <1>1, <1>3
<1> QED
  BY <1>1, <1>4, <1>5, <1>6, <1>7, <1>8 DEF Retires

\* A new family.
LEMMA CreateStep ==
    ASSUME StoreInv, NEW f \in Families, NEW n \in Tokens, Store!CreateSession(User, f, n),
           home' = Put(home, n, f)
    PROVE  Retires(None) /\ n \notin minted /\ n \in minted' /\ Sound(n)'
<1>1. /\ f \notin DOMAIN opener /\ n \notin minted
      /\ minted' = minted \union {n} /\ opener' = Store!Put(opener, f, n) /\ reply' \in Store!Replies
      /\ session' = Store!Put(session, n, [family |-> f, user |-> User, used |-> FALSE])
  BY DEF Store!CreateSession, Store!Replies
<1>2. session \in [DOMAIN session -> [family : Families, user : {User}, used : BOOLEAN]]
      /\ DOMAIN session \subseteq Tokens
  BY DEF StoreInv, Store!TypeOK, Store!IsMap
<1>3. /\ DOMAIN session' = DOMAIN session \union {n}
      /\ session'[n] = [family |-> f, user |-> User, used |-> FALSE]
      /\ \A s \in DOMAIN session : session'[s] = session[s]
      /\ session' \in [DOMAIN session' -> [family : Families, user : {User}, used : BOOLEAN]]
  BY <1>1, <1>2 DEF StoreInv, Store!Put
<1>4. home' \in [minted' -> Families] /\ home'[n] = f /\ \A s \in minted : home'[s] = home[s]
  BY <1>1 DEF StoreInv, Put
<1>5. DOMAIN opener' = DOMAIN opener \union {f} /\ Store!IsMap(opener', Families, Tokens)
  BY <1>1 DEF StoreInv, Store!TypeOK, Store!IsMap, Store!Put
<1>6. StoreInv'
  <2>1. Store!TypeOK'
    BY <1>1, <1>2, <1>3, <1>5 DEF StoreInv, Store!TypeOK, Store!IsMap
  <2>2. ASSUME NEW s \in DOMAIN session'
        PROVE  s \in minted' /\ session'[s].family = home'[s]
    <3>1. CASE s = n
      <4>1. session'[n].family = home'[n]
        BY <1>3, <1>4
      <4> QED
        BY <1>1, <3>1, <4>1
    <3>2. CASE s # n
      <4>1. s \in DOMAIN session
        BY <1>3, <3>2
      <4>2. s \in minted /\ session[s].family = home[s]
        BY <4>1 DEF StoreInv
      <4>3. session'[s].family = session[s].family
        BY <1>3, <4>1
      <4> QED
        BY <1>1, <1>4, <4>2, <4>3
    <3> QED
      BY <3>1, <3>2
  <2>3. \A s \in minted' : home'[s] \in DOMAIN opener'
    BY <1>1, <1>4, <1>5 DEF StoreInv
  <2> QED
    BY <1>4, <2>1, <2>2, <2>3 DEF StoreInv
<1>7. ASSUME NEW s \in minted
      PROVE  /\ Sound(s) => Sound(s)'
             /\ Gone(s) => Gone(s)'
  <2>1. home[s] # f
    BY <1>1 DEF StoreInv
  <2>2. Gone(s) => Gone(s)'
    BY <1>3, <1>4, <2>1 DEF Gone
  <2>3. Live(s) => Live(s)'
    BY <1>3 DEF Live
  <2> QED
    BY <2>2, <2>3 DEF Sound
<1>8. Sound(n)'
  BY <1>3 DEF Sound, Live
<1>9. \A s \in minted : s \notin DOMAIN session => s \notin DOMAIN session'
  BY <1>1, <1>3
<1> QED
  BY <1>1, <1>4, <1>6, <1>7, <1>8, <1>9 DEF Retires
----------------------------------------------------------------------------
(* The invariant                                                           *)

Early == {"gate", "rotate", "serve", "reissue"}

\* What a request in flight is, by itself: m in the state its handler is in.
Shape(m) ==
    /\ m \in Asked \union Answered
    /\ m.token \in minted \union {None}
    /\ m.new \in minted \union {None}
    /\ m.at = "answer" =>
           /\ m.effect = "set" <=> m.new # None
           /\ m.ended \in minted \union {None}
    /\ m.at # "answer" =>
           /\ m.at = "sign" <=> m.new # None
           /\ m.at = "gate" => m.kind \in PageKinds
           /\ m.kind \in PageKinds => m.token = None
           /\ m.at \in {"rotate", "sign"} => m.kind = "refresh" /\ m.token # None
           /\ m.at = "serve" /\ m.kind = "logout" => m.ends = m.token

\* A token that was minted for an answer is nobody's before it arrives.
Undelivered(r) ==
    req[r].new # None =>
        /\ Sound(req[r].new)
        /\ jar.refresh # req[r].new
        /\ \A q \in InFlight : req[q].token # req[r].new /\ (q # r => req[q].new # req[r].new)

\* A token that a handler is still to look up, and that was retired, was
\* retired by an overlapping request, or its successor was lost.
Carried(r) ==
    req[r].at \in Early /\ req[r].token # None =>
        Sound(req[r].token) \/ req[r].token \in lost \union overlapped

\* The answer to m will replace the refresh cookie, or clear it.
Replaces(m) == m.at = "sign" \/ (m.at = "answer" /\ m.effect \in {"set", "clear"})

JarInv ==
    jar.refresh # None =>
        \/ Sound(jar.refresh)
        \/ jar.refresh \in lost
        \/ \E r \in InFlight : req[r].token = jar.refresh /\ Replaces(req[r])

\* A sign-out has ended its session.
Ended(m) ==
    m.at = "answer" /\ m.ended # None =>
        Gone(m.ended) \/ (m.ended \notin DOMAIN session /\ m.ended \in lost \union overlapped)

BrowserInv ==
    /\ StoreInv
    /\ jar \in [access : BOOLEAN, refresh : minted \union {None}]
    /\ lost \subseteq minted /\ overlapped \subseteq minted
    /\ DOMAIN req = Requests /\ req = [r \in Requests |-> req[r]]
    /\ \A r \in InFlight : Shape(req[r]) /\ Undelivered(r) /\ Carried(r) /\ Ended(req[r])
    /\ \A r, q \in InFlight :
           r # q /\ req[r].token = req[q].token /\ req[r].token # None => req[r].token \in overlapped
    /\ JarInv

\* A handler goes on: from req[r] to m, with what the store did for it.
Advances(r, m) ==
    /\ r \in InFlight
    /\ req' = [req EXCEPT ![r] = m]
    /\ jar' = jar /\ overlapped' = overlapped
    /\ lost \subseteq lost' /\ lost' \subseteq minted'
    /\ m # Idle /\ m.token = req[r].token
    /\ Shape(m)'
    /\ Retires(m.token)
    /\ m.token \in minted /\ Sound(m.token) => Sound(m.token)' \/ m.at = "sign" \/ m.token \in lost'
    /\ m.new = None \/ m.new = req[r].new \/ (m.new \notin minted /\ Sound(m.new)')
    /\ m.at \in Early => req[r].at \in Early
    /\ Replaces(req[r]) => Replaces(m)
    /\ Ended(m)'

LEMMA AdvanceStep ==
    ASSUME BrowserInv, NEW r \in Requests, NEW m, Advances(r, m)
    PROVE  BrowserInv'
<1>1. /\ req' = [req EXCEPT ![r] = m] /\ DOMAIN req' = Requests /\ InFlight' = InFlight
      /\ req'[r] = m /\ \A q \in Requests : q # r => req'[q] = req[q]
      /\ req' = [q \in Requests |-> req'[q]]
      /\ r \in InFlight /\ InFlight \subseteq Requests
  BY DEF BrowserInv, Advances, InFlight
<1>2. /\ jar' = jar /\ overlapped' = overlapped /\ lost \subseteq lost'
      /\ m.token = req[r].token /\ Shape(m)' /\ minted \subseteq minted'
      /\ \A t \in minted : t # m.token /\ Sound(t) => Sound(t)'
      /\ \A t \in minted : Gone(t) => Gone(t)'
      /\ \A t \in minted : t \notin DOMAIN session => t \notin DOMAIN session'
      /\ StoreInv'
  BY DEF Advances, Retires
<1>3. \A q \in Requests : q \in InFlight' => req'[q].token = req[q].token
  BY <1>1, <1>2
<1>4. \A q \in InFlight : req[q].token \in minted \union {None} /\ req[q].new \in minted \union {None}
  BY DEF BrowserInv, Shape
<1>5. m.token \in minted \union {None} /\ None \notin minted /\ None \notin minted'
  BY <1>1, <1>2, <1>4, BrowserAssumption DEF StoreInv, Store!TypeOK
<1>6. ASSUME NEW q \in InFlight', q # r
      PROVE  Shape(req[q])' /\ Ended(req[q])'
  <2>1. PICK n : n = req[q]
    OBVIOUS
  <2>2. Shape(n) /\ Ended(n) /\ req'[q] = n
    BY <1>1, <1>6, <2>1 DEF BrowserInv
  <2>3. Shape(n)'
    BY <1>2, <2>2 DEF Shape, Asked, Answered, Kinds, PageKinds, ApiKinds, Effects
  <2>4. Ended(n)'
    BY <1>2, <2>2 DEF Ended, Shape
  <2> QED
    BY <2>2, <2>3, <2>4 DEF Shape, Ended, Asked, Answered, Kinds, PageKinds, ApiKinds, Effects, Gone
<1>7. Shape(req[r])' /\ Ended(req[r])'
  BY <1>1 DEF Advances, Shape, Ended, Asked, Answered, Kinds, PageKinds, ApiKinds, Effects, Gone
<1>8. ASSUME NEW q \in InFlight', req'[q].new # None
      PROVE  /\ Sound(req[q].new)'
             /\ jar'.refresh # req'[q].new
             /\ \A p \in InFlight' : req'[p].token # req'[q].new /\ (p # q => req'[p].new # req'[q].new)
  <2>1. PICK n : n = req'[q].new
    OBVIOUS
  <2>2. CASE n \notin minted
    <3>1. q = r /\ n = m.new
      BY <1>1, <1>4, <1>8, <2>1, <2>2
    <3>2. Sound(n)'
      BY <1>1, <1>4, <1>8, <2>1, <2>2, <3>1 DEF Advances
    <3>3. jar.refresh # n
      BY <1>8, <2>1, <2>2 DEF BrowserInv
    <3>4. \A p \in InFlight' : req'[p].token # n /\ (p # q => req'[p].new # n)
      BY <1>1, <1>3, <1>4, <1>8, <2>1, <2>2, <3>1
    <3> QED
      BY <1>2, <2>1, <3>2, <3>3, <3>4 DEF Sound, Gone, Live
  <2>3. CASE n \in minted
    <3>1. n = req[q].new
      BY <1>1, <1>4, <1>8, <2>1, <2>3 DEF Advances
    <3>2. /\ Sound(n) /\ jar.refresh # n
          /\ \A p \in InFlight : req[p].token # n /\ (p # q => req[p].new # n)
      BY <1>1, <1>8, <2>1, <3>1 DEF BrowserInv, Undelivered
    <3>3. n # m.token
      BY <1>1, <1>2, <3>2
    <3>4. Sound(n)'
      BY <1>2, <2>3, <3>2, <3>3
    <3>5. \A p \in InFlight' : p # q => req'[p].new # n
      <4>1. CASE q = r
        BY <1>1, <3>2, <4>1
      <4>2. CASE q # r
        <5>1. m.new # n
          BY <1>1, <1>8, <2>1, <2>3, <3>2, <4>2 DEF Advances
        <5> QED
          BY <1>1, <3>2, <5>1
      <4> QED
        BY <4>1, <4>2
    <3> QED
      BY <1>1, <1>2, <1>3, <2>1, <3>2, <3>4, <3>5 DEF Sound, Gone, Live
  <2> QED
    BY <2>2, <2>3
<1>9. ASSUME NEW q \in InFlight', req'[q].at \in Early, req'[q].token # None
      PROVE  Sound(req[q].token)' \/ req'[q].token \in lost' \union overlapped'
  <2>1. PICK t : t = req[q].token
    OBVIOUS
  <2>2. t = req'[q].token /\ t \in minted
    BY <1>1, <1>3, <1>4, <1>9, <2>1
  <2>3. req[q].at \in Early
    BY <1>1, <1>9 DEF Advances
  <2>4. Sound(t) \/ t \in lost \union overlapped
    BY <1>1, <1>9, <2>1, <2>2, <2>3 DEF BrowserInv, Carried
  <2>5. CASE Sound(t) /\ t # m.token
    <3>1. Sound(t)'
      BY <1>2, <2>2, <2>5
    <3> QED
      BY <2>2, <3>1 DEF Sound, Gone, Live
  <2>6. CASE Sound(t) /\ t = m.token /\ q # r
    <3>1. t \in overlapped
      BY <1>1, <1>2, <1>9, <2>1, <2>2, <2>6 DEF BrowserInv
    <3> QED
      BY <1>2, <2>2, <3>1
  <2>7. CASE Sound(t) /\ t = m.token /\ q = r
    <3>1. m.at # "sign"
      BY <1>1, <1>9, <2>7 DEF Early
    <3>2. Sound(t)' \/ t \in lost'
      BY <2>2, <2>7, <3>1 DEF Advances
    <3> QED
      BY <2>2, <3>2 DEF Sound, Gone, Live
  <2>8. CASE t \in lost \union overlapped
    BY <1>2, <2>2, <2>8
  <2> QED
    BY <2>4, <2>5, <2>6, <2>7, <2>8
<1>10. ASSUME NEW p \in InFlight', NEW q \in InFlight', p # q, req'[p].token = req'[q].token,
              req'[p].token # None
       PROVE  req'[p].token \in overlapped'
  BY <1>1, <1>2, <1>3, <1>10 DEF BrowserInv
<1>11. ASSUME jar'.refresh # None
       PROVE  \/ Sound(jar.refresh)'
              \/ jar'.refresh \in lost'
              \/ \E q \in InFlight' : req'[q].token = jar'.refresh /\ Replaces(req[q])'
  <2>1. PICK t : t = jar.refresh
    OBVIOUS
  <2>2. t \in minted /\ t = jar'.refresh
    BY <1>2, <1>11, <2>1 DEF BrowserInv
  <2>3. CASE Sound(t)
    <3>1. CASE t # m.token
      <4>1. Sound(t)'
        BY <1>2, <2>2, <2>3, <3>1
      <4> QED
        BY <2>2, <4>1 DEF Sound, Gone, Live
    <3>2. CASE t = m.token
      <4>1. Sound(t)' \/ m.at = "sign" \/ t \in lost'
        BY <2>2, <2>3, <3>2 DEF Advances
      <4>2. m.at = "sign" => Replaces(req[r])'
        BY <1>1 DEF Replaces
      <4>3. req'[r].token = t
        BY <1>1, <3>2
      <4> QED
        BY <1>1, <2>2, <4>1, <4>2, <4>3 DEF Sound, Gone, Live
    <3> QED
      BY <3>1, <3>2
  <2>4. CASE t \in lost
    BY <1>2, <2>2, <2>4
  <2>5. ASSUME NEW q \in InFlight, req[q].token = t, Replaces(req[q])
        PROVE  req'[q].token = t /\ Replaces(req[q])'
    <3>1. req'[q].token = t
      BY <1>1, <1>3, <2>5
    <3>2. CASE q = r
      BY <1>1, <2>5, <3>1, <3>2 DEF Advances, Replaces
    <3>3. CASE q # r
      BY <1>1, <2>5, <3>1, <3>3 DEF Replaces
    <3> QED
      BY <3>1, <3>2, <3>3
  <2>6. Sound(t) \/ t \in lost \/ \E q \in InFlight : req[q].token = t /\ Replaces(req[q])
    BY <1>2, <1>11, <2>1, <2>2 DEF BrowserInv, JarInv
  <2> QED
    BY <1>1, <2>2, <2>3, <2>4, <2>5, <2>6
<1>12. /\ jar' \in [access : BOOLEAN, refresh : minted' \union {None}]
       /\ lost' \subseteq minted' /\ overlapped' \subseteq minted'
  BY <1>2 DEF BrowserInv, Advances
<1> QED
  BY <1>1, <1>2, <1>6, <1>7, <1>8, <1>9, <1>10, <1>11, <1>12 DEF BrowserInv, Undelivered, Carried, JarInv
----------------------------------------------------------------------------
(* The steps of a handler                                                  *)

LEMMA InvFacts ==
    ASSUME BrowserInv
    PROVE  /\ None \notin minted /\ minted \subseteq Tokens
           /\ StoreInv
           /\ \A r \in Requests : req[r].at # "idle" =>
                  r \in InFlight /\ Shape(req[r]) /\ req[r] # Idle
BY BrowserAssumption DEF BrowserInv, StoreInv, Store!TypeOK, InFlight, Idle

LEMMA RetiresNone ==
    ASSUME BrowserInv, Retires(None), NEW x
    PROVE  /\ Retires(x) /\ (x \in minted /\ Sound(x) => Sound(x)')
           /\ minted \subseteq minted' /\ minted' \subseteq Tokens
BY InvFacts DEF Retires, StoreInv, Store!TypeOK

\* A handler answers.
LEMMA AnswerStep ==
    ASSUME BrowserInv, NEW r \in Requests, req[r].at # "idle", NEW effect \in Effects, NEW new, NEW ended,
           Respond(r, effect, new, ended), effect = "set" <=> new # None,
           \/ new = None
           \/ new = req[r].new
           \/ new \notin minted /\ new \in minted' /\ Sound(new)',
           \/ ended = None
           \/ ended \in minted /\ (Gone(ended)' \/ (ended \notin DOMAIN session' /\ ended \in lost \union overlapped)),
           Retires(None), UNCHANGED <<jar, lost, overlapped>>,
           Replaces(req[r]) => effect \in {"set", "clear"}
    PROVE  BrowserInv'
<1>1. PICK m : m = [at |-> "answer", effect |-> effect, token |-> req[r].token, new |-> new, ended |-> ended]
  OBVIOUS
<1>2. r \in InFlight /\ Shape(req[r])
  BY InvFacts
<1>3. req' = [req EXCEPT ![r] = m] /\ m # Idle /\ m.token = req[r].token
  BY <1>1 DEF Respond, Idle
<1>4. new \in minted' \union {None} /\ minted \subseteq minted' /\ minted' \subseteq Tokens
  BY <1>2, RetiresNone DEF Shape
<1>5. Shape(m)'
  BY <1>1, <1>2, <1>4 DEF Shape, Asked, Answered
<1>6. Ended(m)'
  BY <1>1 DEF Ended
<1>7. /\ m.at = "answer" /\ m.at \notin Early
      /\ Replaces(req[r]) => Replaces(m)
      /\ m.new = new
  BY <1>1 DEF Early, Replaces
<1>8. Retires(m.token) /\ (m.token \in minted /\ Sound(m.token) => Sound(m.token)')
  BY RetiresNone
<1>9. lost' \subseteq minted'
  BY <1>4 DEF BrowserInv
<1>10. Advances(r, m)
  BY <1>2, <1>3, <1>5, <1>6, <1>7, <1>8, <1>9 DEF Advances
<1> QED
  BY <1>10, AdvanceStep

\* A handler goes on to a call it makes next, with all it knows.
LEMMA MoveStep ==
    ASSUME BrowserInv, NEW r \in Requests, req[r].at \in {"gate", "serve"},
           NEW at \in {"serve", "reissue"}, Goto(r, at),
           at = "serve" => req[r].kind \in PageKinds,
           Retires(None), UNCHANGED <<jar, lost, overlapped>>
    PROVE  BrowserInv'
<1>1. r \in InFlight /\ Shape(req[r])
  BY InvFacts
<1>2. PICK a : a = req[r]
  OBVIOUS
<1>3. PICK m : m = [a EXCEPT !.at = at]
  OBVIOUS
<1>4. a \in Asked
  BY <1>1, <1>2 DEF Shape, Asked, Answered
<1>5. /\ m \in Asked /\ m.at = at /\ m.kind = a.kind /\ m.token = a.token /\ m.new = a.new
      /\ m.ends = a.ends
  BY <1>3, <1>4 DEF Asked
<1>6. req' = [req EXCEPT ![r] = m] /\ m # Idle
  BY <1>2, <1>3, <1>5 DEF Goto, Idle
<1>7. minted \subseteq minted' /\ minted' \subseteq Tokens
  BY RetiresNone
<1>8. Shape(m)'
  <2>1. m.token \in minted' \union {None} /\ m.new = None
    BY <1>1, <1>2, <1>5, <1>7 DEF Shape
  <2>2. m.at = "serve" => m.kind \in PageKinds /\ m.kind # "logout"
    BY <1>2, <1>5 DEF PageKinds
  <2>3. m.kind \in PageKinds => m.token = None
    BY <1>1, <1>2, <1>5 DEF Shape
  <2> QED
    BY <1>5, <2>1, <2>2, <2>3 DEF Shape
<1>9. Ended(m)' /\ ~Replaces(req[r]) /\ req[r].at \in Early
  BY <1>5 DEF Ended, Replaces, Early
<1>10. Retires(m.token) /\ (m.token \in minted /\ Sound(m.token) => Sound(m.token)')
  BY RetiresNone
<1>11. lost' \subseteq minted'
  BY <1>7 DEF BrowserInv
<1>12. Advances(r, m)
  BY <1>1, <1>2, <1>5, <1>6, <1>8, <1>9, <1>10, <1>11 DEF Advances
<1> QED
  BY <1>12, AdvanceStep

LEMMA Rests ==
    ASSUME BrowserInv, UNCHANGED store, UNCHANGED home
    PROVE  Retires(None)
BY StoreRests DEF BrowserInv, StoreInv, Store!TypeOK, store

LEMMA GateStep ==
    ASSUME BrowserInv, NEW r \in Requests, Gate(r)
    PROVE  BrowserInv'
<1>1. req[r].at = "gate" /\ Shape(req[r]) /\ req[r].kind \in PageKinds /\ req[r].token = None
  BY InvFacts DEF Gate, Shape
<1>2. Retires(None) /\ UNCHANGED <<jar, lost, overlapped>>
  BY Rests DEF Gate, history
<1>3. Goto(r, "serve") \/ Respond(r, "redirect", None, None)
  BY <1>1 DEF Gate, Answer
<1>4. ~Replaces(req[r])
  BY <1>1 DEF Replaces
<1>5. CASE Goto(r, "serve")
  BY <1>1, <1>2, <1>5, MoveStep
<1>6. CASE Respond(r, "redirect", None, None)
  BY <1>1, <1>2, <1>4, <1>6, AnswerStep DEF Effects
<1> QED
  BY <1>3, <1>5, <1>6

\* A refused refresh clears the cookies.
LEMMA RefusedStep ==
    ASSUME BrowserInv, NEW r \in Requests, req[r].at \in {"rotate", "sign"}, Refused(r),
           Retires(None), UNCHANGED <<jar, lost, overlapped>>
    PROVE  BrowserInv'
<1>1. req[r].kind = "refresh"
  BY InvFacts DEF Shape, Asked, Answered
<1>2. Respond(r, "clear", None, None)
  BY <1>1 DEF Refused, Answer, PageKinds
<1> QED
  BY <1>2, AnswerStep DEF Effects

LEMMA RotatesStep ==
    ASSUME BrowserInv, NEW r \in Requests, Rotate(r)
    PROVE  BrowserInv'
<1>1. /\ req[r].at = "rotate" /\ r \in InFlight /\ Shape(req[r])
      /\ req[r].kind = "refresh" /\ req[r].token \in minted
  BY InvFacts DEF Rotate, Shape
<1>2. PICK a : a = req[r]
  OBVIOUS
<1>3. a \in Asked
  BY <1>1, <1>2 DEF Shape, Asked, Answered
<1>4. CASE RotateToken(r)
  <2>1. PICK n \in Tokens :
            /\ Store!RotateCurrent(a.token, n)
            /\ home' = Put(home, n, home[a.token])
            /\ req' = [req EXCEPT ![r].at = "sign", ![r].new = n]
            /\ UNCHANGED <<jar, lost, overlapped>>
    BY <1>2, <1>4 DEF RotateToken
  <2>2. Retires(a.token) /\ n \notin minted /\ n \in minted' /\ Sound(n)'
    BY <1>1, <1>2, <2>1, RotateStep, InvFacts
  <2>3. PICK m : m = [a EXCEPT !.at = "sign", !.new = n]
    OBVIOUS
  <2>4. /\ m \in Asked /\ m.at = "sign" /\ m.kind = a.kind /\ m.token = a.token /\ m.new = n
        /\ m.ends = a.ends
    BY <1>3, <2>3 DEF Asked
  <2>5. req' = [req EXCEPT ![r] = m] /\ m # Idle
    BY <1>2, <2>1, <2>3, <2>4 DEF Idle
  <2>6. minted \subseteq minted' /\ None \notin minted'
    BY <2>2, BrowserAssumption DEF Retires, StoreInv, Store!TypeOK
  <2>7. Shape(m)'
    BY <1>1, <1>2, <2>2, <2>4, <2>6 DEF Shape, PageKinds
  <2>8. Ended(m)' /\ Replaces(m) /\ m.at \notin Early
    BY <2>4 DEF Ended, Replaces, Early
  <2>9. lost' \subseteq minted' /\ lost \subseteq lost'
    BY <2>1, <2>6 DEF BrowserInv
  <2>10. Advances(r, m)
    BY <1>1, <1>2, <2>1, <2>2, <2>4, <2>5, <2>7, <2>8, <2>9 DEF Advances
  <2> QED
    BY <2>10, AdvanceStep
<1>5. CASE ResendRotation(r)
  <2>1. PICK n \in Tokens :
            /\ Store!RotateCurrent(a.token, n)
            /\ home' = Put(home, n, home[a.token])
            /\ lost' = lost \union {a.token}
            /\ UNCHANGED <<req, jar, overlapped>>
    BY <1>2, <1>5 DEF ResendRotation
  <2>2. Retires(a.token)
    BY <1>1, <1>2, <2>1, RotateStep, InvFacts
  <2>3. req' = [req EXCEPT ![r] = a] /\ a # Idle
    BY <1>1, <1>2, <2>1 DEF BrowserInv, Idle
  <2>4. minted \subseteq minted'
    BY <2>2 DEF Retires
  <2>5. Shape(a)'
    BY <1>1, <1>2, <2>4 DEF Shape
  <2>6. Ended(a)'
    BY <1>1, <1>2 DEF Ended
  <2>7. lost' \subseteq minted' /\ lost \subseteq lost' /\ a.token \in lost'
    BY <1>1, <1>2, <2>1, <2>4 DEF BrowserInv
  <2>8. Advances(r, a)
    BY <1>1, <1>2, <2>1, <2>2, <2>3, <2>5, <2>6, <2>7 DEF Advances
  <2> QED
    BY <2>8, AdvanceStep
<1>6. CASE RotateRefused(r)
  <2>1. Retires(None) /\ UNCHANGED <<jar, lost, overlapped>>
    <3>1. CASE Store!RotateUnknown(a.token)
      BY <1>2, <1>6, <3>1, StoreRests, InvFacts DEF RotateRefused, Store!RotateUnknown, history, Store!Replies
    <3>2. CASE Store!RotateReplayed(a.token)
      <4>1. PICK D : D = Store!TokensOfFamily(session[a.token].family)
        OBVIOUS
      <4>2. \A t \in D \intersect DOMAIN session :
                \A s \in DOMAIN session : session[s].family = session[t].family => s \in D
        BY <4>1 DEF Store!TokensOfFamily
      <4> QED
        BY <1>6, <3>2, <4>1, <4>2, DropStep, InvFacts
        DEF RotateRefused, Store!RotateReplayed, history, Store!Replies
    <3> QED
      BY <1>2, <1>6, <3>1, <3>2 DEF RotateRefused
  <2>2. Refused(r)
    BY <1>6 DEF RotateRefused
  <2> QED
    BY <1>1, <2>1, <2>2, RefusedStep
<1> QED
  BY <1>4, <1>5, <1>6 DEF Rotate

LEMMA SignStep ==
    ASSUME BrowserInv, NEW r \in Requests, Sign(r)
    PROVE  BrowserInv'
<1>1. req[r].at = "sign" /\ req[r].new # None
  BY InvFacts DEF Sign, Shape
<1>2. PICK n : n = req[r].new
  OBVIOUS
<1>3. Respond(r, "set", n, None) /\ UNCHANGED <<jar, lost, overlapped>> /\ Retires(None)
  BY <1>2, Rests DEF Sign, Answer, history
<1> QED
  BY <1>1, <1>2, <1>3, AnswerStep DEF Effects

LEMMA FailRefreshStep ==
    ASSUME BrowserInv, NEW r \in Requests, FailRefresh(r)
    PROVE  BrowserInv'
BY RefusedStep, Rests DEF FailRefresh, history

LEMMA ServeUnchangedStep ==
    ASSUME BrowserInv, NEW r \in Requests, ServeUnchanged(r)
    PROVE  BrowserInv'
<1>1. req[r].at = "serve" /\ Respond(r, "keep", None, None)
  BY DEF ServeUnchanged, Serving, Answer
<1>2. Retires(None) /\ UNCHANGED <<jar, lost, overlapped>> /\ ~Replaces(req[r])
  BY <1>1, Rests DEF ServeUnchanged, history, Replaces
<1> QED
  BY <1>1, <1>2, AnswerStep DEF Effects

LEMMA IssueStep ==
    ASSUME BrowserInv, NEW r \in Requests, Issue(r)
    PROVE  BrowserInv'
<1>1. req[r].at \in {"serve", "reissue"} /\ UNCHANGED <<jar, lost, overlapped>>
  BY DEF Issue, Serving
<1>2. PICK f \in Families, n \in Tokens :
          /\ Store!CreateSession(User, f, n)
          /\ home' = Put(home, n, f)
          /\ Answer(r, "set", n)
  BY DEF Issue
<1>3. Retires(None) /\ n \notin minted /\ n \in minted' /\ Sound(n)'
  BY <1>2, CreateStep, InvFacts
<1>4. n # None /\ ~Replaces(req[r])
  BY <1>1, BrowserAssumption DEF Replaces
<1> QED
  BY <1>1, <1>2, <1>3, <1>4, AnswerStep DEF Effects, Answer

LEMMA ListedDrop ==
    ASSUME BrowserInv, NEW F, Store!RevokeListed(User, F), UNCHANGED home
    PROVE  Retires(None)
<1>1. PICK D : D = {t \in DOMAIN session : session[t].family \in F}
  OBVIOUS
<1> QED
  BY <1>1, DropStep, InvFacts DEF Store!RevokeListed, Store!Replies

LEMMA RevokeAllStep ==
    ASSUME BrowserInv, NEW r \in Requests, RevokeAll(r)
    PROVE  BrowserInv'
<1>1. req[r].at = "serve" /\ UNCHANGED <<jar, lost, overlapped, home>> /\ ~Replaces(req[r])
  BY DEF RevokeAll, Serving, history, Replaces
<1>2. Retires(None)
  BY <1>1, ListedDrop DEF RevokeAll
<1>3. Goto(r, "reissue") \/ Respond(r, "clear", None, None)
  BY DEF RevokeAll, Answer
<1>4. CASE Goto(r, "reissue")
  BY <1>1, <1>2, <1>4, MoveStep
<1>5. CASE Respond(r, "clear", None, None)
  BY <1>1, <1>2, <1>5, AnswerStep DEF Effects
<1> QED
  BY <1>3, <1>4, <1>5

LEMMA ResetPasswordStep ==
    ASSUME BrowserInv, NEW r \in Requests, ResetPassword(r)
    PROVE  BrowserInv'
<1>1. req[r].at = "serve" /\ UNCHANGED <<jar, lost, overlapped, home>> /\ ~Replaces(req[r])
  BY DEF ResetPassword, Serving, history, Replaces
<1>2. Retires(None)
  BY <1>1, ListedDrop DEF ResetPassword
<1>3. Respond(r, "redirect", None, None)
  BY DEF ResetPassword, Answer
<1> QED
  BY <1>1, <1>2, <1>3, AnswerStep DEF Effects

\* The sign-out finds the session's family by the token it carries, and if
\* the token is forgotten the family is too, or the token was retired.
LEMMA LogoutStep ==
    ASSUME BrowserInv, NEW r \in Requests, Logout(r)
    PROVE  BrowserInv'
<1>1. /\ req[r].at = "serve" /\ req[r].kind = "logout" /\ r \in InFlight /\ Shape(req[r])
      /\ UNCHANGED <<jar, lost, overlapped, home>> /\ ~Replaces(req[r])
  BY InvFacts DEF Logout, Serving, history, Replaces
<1>2. PICK t : t = req[r].token
  OBVIOUS
<1>3. t \in minted \union {None} /\ req[r].ends = t
  BY <1>1, <1>2 DEF Shape
<1>4. Respond(r, "clear", None, t)
  BY <1>3 DEF Logout
<1>5. CASE t = None
  <2>1. Retires(None)
    BY <1>1, <1>2, <1>5, Rests DEF Logout
  <2> QED
    BY <1>1, <1>4, <1>5, <2>1, AnswerStep DEF Effects
<1>6. CASE t # None /\ t \in DOMAIN session
  <2>1. session' = Store!Drop(session, Store!TokensOfFamily(session[t].family)) /\ reply' = "revoked"
        /\ UNCHANGED <<minted, opener>>
    BY <1>2, <1>6 DEF Logout, Store!Revoke
  <2>2. PICK D : D = Store!TokensOfFamily(session[t].family)
    OBVIOUS
  <2>3. \A s \in DOMAIN session : s \in D <=> session[s].family = session[t].family
    BY <2>2 DEF Store!TokensOfFamily
  <2>4. Retires(None)
    BY <1>1, <2>1, <2>2, <2>3, DropStep, InvFacts DEF Store!Replies
  <2>5. session[t].family = home[t]
    BY <1>6, InvFacts DEF StoreInv
  <2>6. Gone(t)'
    BY <1>1, <2>1, <2>2, <2>3, <2>5 DEF Gone, Store!Drop, Store!Restrict
  <2> QED
    BY <1>1, <1>3, <1>4, <1>6, <2>4, <2>6, AnswerStep DEF Effects
<1>7. CASE t # None /\ t \notin DOMAIN session
  <2>1. session' = session /\ reply' = "revoked" /\ UNCHANGED <<minted, opener>>
    BY <1>2, <1>7 DEF Logout, Store!Revoke
  <2>2. Retires(None)
    BY <1>1, <2>1, StoreRests, InvFacts DEF Store!Replies
  <2>3. Sound(t) \/ t \in lost \union overlapped
    BY <1>1, <1>2, <1>7 DEF BrowserInv, Carried, Early
  <2>4. Gone(t)' \/ (t \notin DOMAIN session' /\ t \in lost \union overlapped)
    BY <1>1, <1>7, <2>1, <2>3 DEF Sound, Live, Gone
  <2> QED
    BY <1>1, <1>3, <1>4, <1>7, <2>2, <2>4, AnswerStep DEF Effects
<1> QED
  BY <1>5, <1>6, <1>7

LEMMA FailStep ==
    ASSUME BrowserInv, NEW r \in Requests, Fail(r)
    PROVE  BrowserInv'
<1>1. /\ req[r].at \in {"serve", "reissue"}
      /\ Respond(r, "clear", None, None) \/ Respond(r, "keep", None, None)
  BY DEF Fail, Answer
<1>2. Retires(None) /\ UNCHANGED <<jar, lost, overlapped>> /\ ~Replaces(req[r])
  BY <1>1, Rests DEF Fail, history, Replaces
<1> QED
  BY <1>1, <1>2, AnswerStep DEF Effects
----------------------------------------------------------------------------
(* The browser's steps                                                     *)

\* The store or the jar changes and no request does.
LEMMA QuietStep ==
    ASSUME BrowserInv, Retires(None), UNCHANGED <<req, lost, overlapped>>,
           jar' \in [access : BOOLEAN, refresh : {None, jar.refresh}]
    PROVE  BrowserInv'
<1>1. /\ minted \subseteq minted' /\ InFlight' = InFlight /\ None \notin minted
      /\ \A t \in minted : /\ Sound(t) => Sound(t)'
                           /\ Gone(t) => Gone(t)'
                           /\ t \notin DOMAIN session => t \notin DOMAIN session'
  BY InvFacts DEF Retires, InFlight
<1>2. ASSUME NEW r \in InFlight
      PROVE  Shape(req[r])' /\ Ended(req[r])' /\ Carried(r)' /\ Undelivered(r)'
  <2>1. PICK m : m = req[r] /\ m = req'[r]
    OBVIOUS
  <2>2. Shape(m) /\ Ended(m) /\ Carried(r) /\ Undelivered(r)
    BY <2>1 DEF BrowserInv
  <2>3. Shape(m)'
    BY <1>1, <2>2 DEF Shape
  <2>4. Ended(m)'
    BY <1>1, <2>2 DEF Ended, Shape
  <2>5. Carried(r)'
    <3>1. PICK t : t = m.token
      OBVIOUS
    <3>2. t # None => (Sound(t) => Sound(t)')
      BY <1>1, <2>2, <3>1 DEF Shape
    <3> QED
      BY <2>1, <2>2, <3>1, <3>2 DEF Carried, Sound, Gone, Live
  <2>6. Undelivered(r)'
    <3>1. PICK n : n = m.new
      OBVIOUS
    <3>2. n # None => (Sound(n) => Sound(n)')
      BY <1>1, <2>2, <3>1 DEF Shape
    <3>3. n # None => jar'.refresh # n
      BY <2>1, <2>2, <3>1 DEF Undelivered
    <3> QED
      BY <1>1, <2>1, <2>2, <3>1, <3>2, <3>3 DEF Undelivered, Sound, Gone, Live
  <2> QED
    BY <2>1, <2>3, <2>4, <2>5, <2>6 DEF Shape, Ended, Asked, Answered, Gone
<1>3. JarInv'
  <2>1. PICK t : t = jar'.refresh
    OBVIOUS
  <2>2. SUFFICES ASSUME t # None
                 PROVE  \/ Sound(t)' \/ t \in lost
                        \/ \E r \in InFlight : req[r].token = t /\ Replaces(req[r])
    BY <1>1, <2>1 DEF JarInv, Sound, Gone, Live, Replaces
  <2>3. t = jar.refresh /\ t \in minted
    BY <2>1, <2>2 DEF BrowserInv
  <2> QED
    BY <1>1, <2>2, <2>3 DEF BrowserInv, JarInv
<1>4. jar' \in [access : BOOLEAN, refresh : minted' \union {None}] /\ lost' \subseteq minted'
      /\ overlapped' \subseteq minted'
  BY <1>1 DEF BrowserInv
<1> QED
  BY <1>1, <1>2, <1>3, <1>4 DEF BrowserInv, Retires

\* A request ends.  The jar keeps its refresh token, loses it, or gets the
\* one that was minted for it.
LEMMA EndStep ==
    ASSUME BrowserInv, NEW r \in InFlight, req' = [req EXCEPT ![r] = Idle],
           UNCHANGED <<store, home, overlapped>>, lost \subseteq lost', lost' \subseteq minted,
           jar' \in [access : BOOLEAN, refresh : minted \union {None}],
           \/ jar'.refresh \in {None, req[r].new}
           \/ /\ jar'.refresh = jar.refresh
              /\ Replaces(req[r]) /\ req[r].token # None => req[r].token \in lost'
    PROVE  BrowserInv'
<1>1. /\ DOMAIN req' = Requests /\ req' = [q \in Requests |-> req'[q]]
      /\ InFlight' = InFlight \ {r} /\ \A q \in InFlight' : req'[q] = req[q]
      /\ InFlight \subseteq Requests
  BY DEF BrowserInv, InFlight
<1>2. session' = session /\ minted' = minted /\ StoreInv'
  BY DEF BrowserInv, store, StoreInv, Store!TypeOK
<1>3. \A t : (Sound(t)' <=> Sound(t)) /\ (Gone(t)' <=> Gone(t))
  BY <1>2 DEF Sound, Gone, Live
<1>4. ASSUME NEW q \in InFlight'
      PROVE  Shape(req[q])' /\ Ended(req[q])' /\ Carried(q)' /\ Undelivered(q)'
  <2>1. PICK m : m = req[q] /\ m = req'[q]
    BY <1>1
  <2>2. Shape(m) /\ Ended(m) /\ Carried(q) /\ Undelivered(q) /\ q \in InFlight /\ q # r
    BY <1>1, <2>1 DEF BrowserInv
  <2>3. Shape(m)'
    BY <1>2, <2>2 DEF Shape
  <2>4. Ended(m)'
    BY <1>2, <1>3, <2>2 DEF Ended
  <2>5. Carried(q)'
    <3>1. PICK t : t = m.token
      OBVIOUS
    <3>2. Sound(t)' <=> Sound(t)
      BY <1>3
    <3> QED
      BY <2>1, <2>2, <3>1, <3>2 DEF Carried, Sound, Gone, Live
  <2>6. Undelivered(q)'
    <3>1. PICK n : n = m.new
      OBVIOUS
    <3>2. Sound(n)' <=> Sound(n)
      BY <1>3
    <3>3. n # None => /\ jar.refresh # n
                      /\ \A p \in InFlight : req[p].token # n /\ (p # q => req[p].new # n)
      BY <2>1, <2>2, <3>1 DEF Undelivered
    <3>4. n # None => jar'.refresh # n
      BY <2>2, <3>3
    <3> QED
      BY <1>1, <2>1, <2>2, <3>1, <3>2, <3>3, <3>4 DEF Undelivered, Sound, Gone, Live
  <2> QED
    BY <2>1, <2>3, <2>4, <2>5, <2>6 DEF Shape, Ended, Asked, Answered, Gone
<1>5. JarInv'
  <2>1. PICK t : t = jar'.refresh
    OBVIOUS
  <2>2. SUFFICES ASSUME t # None
                 PROVE  \/ Sound(t) \/ t \in lost'
                        \/ \E q \in InFlight' : req'[q].token = t /\ Replaces(req'[q])
    BY <1>2, <2>1 DEF JarInv, Sound, Gone, Live, Replaces
  <2>3. CASE t = req[r].new
    BY <2>2, <2>3 DEF BrowserInv, Undelivered
  <2>4. CASE t = jar.refresh /\ (Replaces(req[r]) /\ req[r].token # None => req[r].token \in lost')
    <3>1. \/ Sound(t) \/ t \in lost
          \/ \E q \in InFlight : req[q].token = t /\ Replaces(req[q])
      BY <2>2, <2>4 DEF BrowserInv, JarInv
    <3>2. ASSUME NEW q \in InFlight, req[q].token = t, Replaces(req[q])
          PROVE  t \in lost' \/ (q \in InFlight' /\ req'[q].token = t /\ Replaces(req'[q]))
      <4>1. CASE q = r
        BY <2>2, <2>4, <3>2, <4>1
      <4>2. CASE q # r
        <5>1. q \in InFlight' /\ req'[q] = req[q]
          BY <1>1, <4>2
        <5> QED
          BY <3>2, <5>1
      <4> QED
        BY <4>1, <4>2
    <3> QED
      BY <3>1, <3>2
  <2> QED
    BY <2>1, <2>2, <2>3, <2>4
<1>6. ASSUME NEW p \in InFlight', NEW q \in InFlight', p # q, req'[p].token = req'[q].token,
             req'[p].token # None
      PROVE  req'[p].token \in overlapped'
  BY <1>1, <1>6 DEF BrowserInv
<1>7. jar' \in [access : BOOLEAN, refresh : minted' \union {None}] /\ lost' \subseteq minted'
      /\ overlapped' \subseteq minted'
  BY <1>2 DEF BrowserInv
<1> QED
  BY <1>1, <1>2, <1>4, <1>5, <1>6, <1>7 DEF BrowserInv

LEMMA ApplyStep ==
    ASSUME BrowserInv, NEW r \in Requests, Apply(r)
    PROVE  BrowserInv'
<1>1. r \in InFlight /\ Shape(req[r]) /\ req[r].at = "answer" /\ req[r].effect \in Effects
  BY InvFacts DEF Apply, Shape, Asked, Answered
<1>2. /\ req' = [req EXCEPT ![r] = Idle]
      /\ UNCHANGED <<store, home, overlapped, lost>>
      /\ jar' = JarAfter(req[r])
  BY DEF Apply, history
<1>3. CASE req[r].effect = "set"
  <2>1. jar' = [access |-> TRUE, refresh |-> req[r].new] /\ req[r].new \in minted
    BY <1>1, <1>2, <1>3 DEF JarAfter, Shape
  <2>2. jar' \in [access : BOOLEAN, refresh : minted \union {None}] /\ jar'.refresh = req[r].new
    BY <2>1
  <2> QED
    BY <1>1, <1>2, <2>2, EndStep DEF BrowserInv
<1>4. CASE req[r].effect = "clear"
  <2>1. jar' = [access |-> FALSE, refresh |-> None]
    BY <1>2, <1>4 DEF JarAfter
  <2>2. jar' \in [access : BOOLEAN, refresh : minted \union {None}] /\ jar'.refresh = None
    BY <2>1
  <2> QED
    BY <1>1, <1>2, <2>2, EndStep DEF BrowserInv
<1>5. CASE req[r].effect \in {"keep", "redirect"}
  <2>1. jar' = jar
    BY <1>2, <1>5 DEF JarAfter
  <2>2. ~Replaces(req[r])
    BY <1>1, <1>5 DEF Replaces
  <2> QED
    BY <1>1, <1>2, <2>1, <2>2, EndStep DEF BrowserInv
<1> QED
  BY <1>1, <1>3, <1>4, <1>5 DEF Effects

LEMMA LoseStep ==
    ASSUME BrowserInv, NEW r \in Requests, Lose(r)
    PROVE  BrowserInv'
<1>1. r \in InFlight /\ Shape(req[r])
  BY InvFacts DEF Lose
<1>2. /\ req' = [req EXCEPT ![r] = Idle]
      /\ UNCHANGED <<store, home, overlapped, jar>>
      /\ lost' = lost \union ({req[r].token} \ {None})
  BY DEF Lose
<1>3. lost \subseteq lost' /\ lost' \subseteq minted /\ (req[r].token # None => req[r].token \in lost')
  BY <1>1, <1>2 DEF BrowserInv, Shape
<1> QED
  BY <1>1, <1>2, <1>3, EndStep DEF BrowserInv

LEMMA SendStep ==
    ASSUME BrowserInv, NEW r \in Requests, NEW kind \in Kinds, Send(r, kind)
    PROVE  BrowserInv'
<1>1. PICK t : t = IF CarriesRefresh(kind) THEN jar.refresh ELSE None
  OBVIOUS
<1>2. PICK m : m = [at |-> IF kind \in PageKinds THEN "gate"
                           ELSE IF kind = "refresh" /\ t # None THEN "rotate"
                           ELSE "serve",
                    kind |-> kind, token |-> t,
                    access |-> jar.access /\ kind \in AccessKinds,
                    ends |-> IF kind = "logout" THEN jar.refresh ELSE None, new |-> None]
  OBVIOUS
<1>3. /\ req[r] = Idle /\ req' = [req EXCEPT ![r] = m]
      /\ overlapped' = overlapped \union (({t} \ {None}) \intersect {req[q].token : q \in InFlight})
      /\ UNCHANGED <<store, jar, home, lost>>
  BY <1>1, <1>2 DEF Send
<1>4. session' = session /\ minted' = minted /\ StoreInv'
  BY <1>3 DEF BrowserInv, store, StoreInv, Store!TypeOK
<1>5. \A x : (Sound(x)' <=> Sound(x)) /\ (Gone(x)' <=> Gone(x))
  BY <1>3, <1>4 DEF Sound, Gone, Live
<1>6. /\ t \in minted \union {None} /\ t \in {None, jar.refresh} /\ jar.refresh \in minted \union {None}
      /\ minted \subseteq Tokens /\ None \notin minted
  BY <1>1, InvFacts DEF BrowserInv
<1>7. /\ m.kind = kind /\ m.token = t /\ m.new = None /\ m.at \in {"gate", "rotate", "serve"}
      /\ m.at = "gate" <=> kind \in PageKinds
      /\ m.at = "rotate" => kind = "refresh" /\ t # None
      /\ kind = "logout" => m.ends = jar.refresh /\ t = jar.refresh
      /\ kind \in PageKinds => t = None
      /\ m \in Asked
  <2>1. kind \in PageKinds => ~CarriesRefresh(kind)
    BY DEF CarriesRefresh, PageKinds, ApiKinds
  <2>2. kind = "logout" => CarriesRefresh(kind)
    BY DEF CarriesRefresh, ApiKinds
  <2>3. jar.access \in BOOLEAN
    BY DEF BrowserInv
  <2>4. (jar.access /\ kind \in AccessKinds) \in BOOLEAN
    OBVIOUS
  <2>5. m \in Asked
    BY <1>2, <1>6, <2>4 DEF Asked
  <2> QED
    BY <1>1, <1>2, <2>1, <2>2, <2>5
<1>8. m # Idle
  BY <1>7 DEF Idle
<1>9. /\ DOMAIN req' = Requests /\ req' = [q \in Requests |-> req'[q]]
      /\ InFlight' = InFlight \union {r} /\ r \notin InFlight
      /\ req'[r] = m /\ \A q \in InFlight : req'[q] = req[q]
      /\ InFlight \subseteq Requests
  BY <1>3, <1>8 DEF BrowserInv, InFlight
<1>10. Shape(m)' /\ Ended(m)'
  BY <1>4, <1>6, <1>7 DEF Shape, Ended, PageKinds
<1>11. Carried(r)'
  <2>1. t # None => \/ Sound(t) \/ t \in lost
                    \/ \E q \in InFlight : req[q].token = t
    BY <1>6 DEF BrowserInv, JarInv
  <2>2. t # None => Sound(t)' \/ t \in lost' \union overlapped'
    BY <1>3, <1>5, <2>1
  <2> QED
    BY <1>7, <1>9, <2>2 DEF Carried, Sound, Gone, Live
<1>12. Undelivered(r)'
  BY <1>7, <1>9 DEF Undelivered
<1>13. ASSUME NEW q \in InFlight
       PROVE  Shape(req[q])' /\ Ended(req[q])' /\ Carried(q)' /\ Undelivered(q)'
  <2>1. PICK n : n = req[q] /\ n = req'[q]
    BY <1>9
  <2>2. Shape(n) /\ Ended(n) /\ Carried(q) /\ Undelivered(q)
    BY <2>1 DEF BrowserInv
  <2>3. Shape(n)'
    BY <1>4, <2>2 DEF Shape
  <2>4. Ended(n)'
    BY <1>3, <1>4, <1>5, <2>2 DEF Ended
  <2>5. Carried(q)'
    <3>1. PICK x : x = n.token
      OBVIOUS
    <3>2. Sound(x)' <=> Sound(x)
      BY <1>5
    <3> QED
      BY <1>3, <2>1, <2>2, <3>1, <3>2 DEF Carried, Sound, Gone, Live
  <2>6. Undelivered(q)'
    <3>1. PICK x : x = n.new
      OBVIOUS
    <3>2. Sound(x)' <=> Sound(x)
      BY <1>5
    <3>3. x # None => /\ Sound(x) /\ jar.refresh # x
                      /\ \A p \in InFlight : req[p].token # x /\ (p # q => req[p].new # x)
      BY <2>1, <2>2, <3>1 DEF Undelivered
    <3>4. x # None => m.token # x /\ m.new # x
      BY <1>6, <1>7, <3>3
    <3>5. x # None => \A p \in InFlight' : req'[p].token # x /\ (p # q => req'[p].new # x)
      BY <1>9, <3>3, <3>4
    <3> QED
      BY <1>3, <2>1, <3>1, <3>2, <3>3, <3>5 DEF Undelivered, Sound, Gone, Live
  <2> QED
    BY <2>1, <2>3, <2>4, <2>5, <2>6 DEF Shape, Ended, Asked, Answered, Gone
<1>14. JarInv'
  <2>1. PICK x : x = jar.refresh /\ x = jar'.refresh
    BY <1>3
  <2>2. Sound(x)' <=> Sound(x)
    BY <1>5
  <2>3. x # None => \/ Sound(x) \/ x \in lost
                    \/ \E q \in InFlight : req[q].token = x /\ Replaces(req[q])
    BY <2>1 DEF BrowserInv, JarInv
  <2>4. x # None => \/ Sound(x)' \/ x \in lost'
                    \/ \E q \in InFlight' : req'[q].token = x /\ Replaces(req'[q])
    BY <1>3, <1>9, <2>2, <2>3
  <2> QED
    BY <2>1, <2>4 DEF JarInv, Sound, Gone, Live, Replaces
<1>15. ASSUME NEW p \in InFlight', NEW q \in InFlight', p # q, req'[p].token = req'[q].token,
              req'[p].token # None
       PROVE  req'[p].token \in overlapped'
  <2>1. CASE p # r /\ q # r
    BY <1>3, <1>9, <1>15, <2>1 DEF BrowserInv
  <2>2. CASE p = r
    BY <1>3, <1>7, <1>9, <1>15, <2>2
  <2>3. CASE q = r
    BY <1>3, <1>7, <1>9, <1>15, <2>3
  <2> QED
    BY <2>1, <2>2, <2>3
<1>16. jar' \in [access : BOOLEAN, refresh : minted' \union {None}] /\ lost' \subseteq minted'
       /\ overlapped' \subseteq minted'
  BY <1>3, <1>4, <1>6 DEF BrowserInv
<1>17. Shape(req[r])' /\ Ended(req[r])'
  BY <1>9, <1>10 DEF Shape, Ended, Asked, Answered, Gone
<1> QED
  BY <1>4, <1>9, <1>11, <1>12, <1>13, <1>14, <1>15, <1>16, <1>17 DEF BrowserInv
----------------------------------------------------------------------------
(* The specification                                                       *)

LEMMA InitSound == Init => BrowserInv
<1> SUFFICES ASSUME Init
             PROVE  BrowserInv
  OBVIOUS
<1>1. StoreInv
  BY DEF Init, Store!Init, StoreInv, Store!TypeOK, Store!IsMap, Store!EmptyMap, Store!Replies, EmptyMap
<1>2. InFlight = {}
  BY DEF Init, InFlight
<1>3. /\ jar \in [access : BOOLEAN, refresh : minted \union {None}] /\ jar.refresh = None
      /\ lost = {} /\ overlapped = {} /\ DOMAIN req = Requests /\ req = [r \in Requests |-> req[r]]
  BY DEF Init
<1> QED
  BY <1>1, <1>2, <1>3 DEF BrowserInv, JarInv

LEMMA FadeStep ==
    ASSUME BrowserInv, Fade
    PROVE  BrowserInv'
<1>1. PICK T \in SUBSET Tokens : Store!Fade(T)
  BY DEF Fade
<1>2. UNCHANGED <<jar, req, home, lost, overlapped>>
  BY DEF Fade, history
<1>3. \A t \in T \intersect DOMAIN session :
          \/ session[t].used
          \/ \A s \in DOMAIN session : session[s].family = session[t].family => s \in T
  BY <1>1 DEF Store!Fade, Store!TokensOfFamily
<1>4. Retires(None)
  BY <1>1, <1>2, <1>3, DropStep, InvFacts DEF Store!Fade, StoreInv, Store!TypeOK
<1>5. jar' \in [access : BOOLEAN, refresh : {None, jar.refresh}]
  BY <1>2 DEF BrowserInv
<1> QED
  BY <1>2, <1>4, <1>5, QuietStep

LEMMA ExpiryStep ==
    ASSUME BrowserInv, ExpireAccess \/ ExpireRefreshCookie \/ UNCHANGED vars
    PROVE  BrowserInv'
<1>1. UNCHANGED <<store, req, home, lost, overlapped>>
  BY DEF ExpireAccess, ExpireRefreshCookie, vars, store, history
<1>2. jar' \in [access : BOOLEAN, refresh : {None, jar.refresh}]
  BY DEF BrowserInv, ExpireAccess, ExpireRefreshCookie, vars
<1> QED
  BY <1>1, <1>2, Rests, QuietStep

LEMMA BrowserStep == BrowserInv /\ [Next]_vars => BrowserInv'
<1> SUFFICES ASSUME BrowserInv, [Next]_vars
             PROVE  BrowserInv'
  OBVIOUS
<1>1. ASSUME NEW r \in Requests, NEW kind \in Kinds, Send(r, kind)
      PROVE  BrowserInv'
  BY <1>1, SendStep
<1>2. ASSUME NEW r \in Requests, Gate(r) \/ Rotate(r) \/ Sign(r) \/ FailRefresh(r)
      PROVE  BrowserInv'
  BY <1>2, GateStep, RotatesStep, SignStep, FailRefreshStep
<1>3. ASSUME NEW r \in Requests,
             ServeUnchanged(r) \/ Issue(r) \/ RevokeAll(r) \/ ResetPassword(r) \/ Logout(r) \/ Fail(r)
      PROVE  BrowserInv'
  BY <1>3, ServeUnchangedStep, IssueStep, RevokeAllStep, ResetPasswordStep, LogoutStep, FailStep
<1>4. ASSUME NEW r \in Requests, Apply(r) \/ Lose(r)
      PROVE  BrowserInv'
  BY <1>4, ApplyStep, LoseStep
<1>5. CASE ExpireAccess \/ ExpireRefreshCookie \/ UNCHANGED vars
  BY <1>5, ExpiryStep
<1>6. CASE Fade
  BY <1>6, FadeStep
<1> QED
  BY <1>1, <1>2, <1>3, <1>4, <1>5, <1>6 DEF Next

\* The inductive invariant: where the tokens of the session are, in the jar
\* and in the requests, and for which of them the store knows a successor.
THEOREM BrowserSound == Spec => []BrowserInv
<1>1. Init => BrowserInv
  BY InitSound
<1>2. BrowserInv /\ [Next]_vars => BrowserInv'
  BY BrowserStep
<1> QED
  BY <1>1, <1>2, PTL DEF Spec

\* Cookies and requests carry tokens that were issued, and an answer that sets
\* cookies sets one.
THEOREM TypeCorrect == Spec => []TypeOK
<1>1. BrowserInv => TypeOK
  <2> SUFFICES ASSUME BrowserInv
               PROVE  TypeOK
    OBVIOUS
  <2>1. \A r \in Requests : req[r] \in {Idle} \union Asked \union Answered
    BY DEF BrowserInv, InFlight, Shape
  <2>2. req \in [Requests -> {Idle} \union Asked \union Answered]
    BY <2>1 DEF BrowserInv
  <2>3. \A r \in InFlight : req[r].at = "answer" => (req[r].effect = "set" <=> req[r].new \in minted)
    BY InvFacts DEF BrowserInv, Shape
  <2> QED
    BY <2>2, <2>3 DEF TypeOK, BrowserInv, StoreInv
<1> QED
  BY <1>1, BrowserSound, PTL

\* A retired token stays in the jar only while the answer that replaces it is
\* under way, or because it was lost.
THEOREM JarsAreCurrent == Spec => []JarIsCurrent
<1>1. BrowserInv => JarIsCurrent
  <2> SUFFICES ASSUME BrowserInv, jar.refresh \in DOMAIN session, session[jar.refresh].used
               PROVE  \/ jar.refresh \in lost
                      \/ \E r \in InFlight : req[r].token = jar.refresh /\ req[r].at \in {"sign", "answer"}
    BY DEF JarIsCurrent
  <2>1. jar.refresh # None
    BY InvFacts DEF StoreInv
  <2>2. ~Sound(jar.refresh)
    BY InvFacts DEF Sound, Gone, Live, StoreInv
  <2> QED
    BY <2>1, <2>2 DEF BrowserInv, JarInv, Replaces
<1> QED
  BY <1>1, BrowserSound, PTL

\* A sign-out that was served has ended the session, or its token was retired
\* by an overlapping request or a lost answer, and forgotten.
THEOREM SignOutsEndSessions == Spec => []SignOutEndsSession
<1>1. BrowserInv => SignOutEndsSession
  <2> SUFFICES ASSUME BrowserInv, NEW r \in InFlight, req[r].at = "answer", req[r].ended # None
               PROVE  \/ Store!TokensOfFamily(home[req[r].ended]) = {}
                      \/ req[r].ended \notin DOMAIN session /\ req[r].ended \in lost \union overlapped
    BY DEF SignOutEndsSession
  <2>1. \/ Gone(req[r].ended)
        \/ req[r].ended \notin DOMAIN session /\ req[r].ended \in lost \union overlapped
    BY DEF BrowserInv, Ended
  <2> QED
    BY <2>1 DEF Gone, Store!TokensOfFamily
<1> QED
  BY <1>1, BrowserSound, PTL

\* Only the handler of r changes req[r], and only a replay that it finds
\* changes the sessions in the step that answers r.
LEMMA AlarmStep ==
    ASSUME BrowserInv, [Next]_vars, NEW r \in InFlight, req[r].at = "rotate", req'[r].at = "answer",
           session' # session
    PROVE  Store!RotateReplayed(req[r].token)
<1>1. DOMAIN req = Requests /\ r \in Requests
  BY DEF BrowserInv, InFlight
<1>2. \A q \in Requests : \A m : req' = [req EXCEPT ![q] = m] => q = r
  BY <1>1
<1>3. ASSUME NEW q \in Requests, NEW kind \in Kinds
      PROVE  ~Send(q, kind)
  BY DEF Send, store
<1>4. ASSUME NEW q \in Requests
      PROVE  ~Gate(q) /\ ~Sign(q) /\ ~FailRefresh(q) /\ ~ServeUnchanged(q) /\ ~Fail(q) /\ ~Apply(q) /\ ~Lose(q)
  BY DEF Gate, Sign, FailRefresh, ServeUnchanged, Fail, Apply, Lose, store
<1>5. ASSUME NEW q \in Requests
      PROVE  ~Issue(q) /\ ~RevokeAll(q) /\ ~ResetPassword(q) /\ ~Logout(q)
  <2>1. Issue(q) => q = r
    BY <1>2 DEF Issue, Answer, Respond
  <2>2. ResetPassword(q) => q = r
    BY <1>2 DEF ResetPassword, Answer, Respond
  <2>3. Logout(q) => q = r
    BY <1>2 DEF Logout, Respond
  <2>4. RevokeAll(q) => q = r
    BY <1>1, <1>2 DEF RevokeAll, Answer, Respond, Goto
  <2> QED
    BY <2>1, <2>2, <2>3, <2>4 DEF Issue, RevokeAll, ResetPassword, Logout, Serving
<1>6. ~ExpireAccess /\ ~ExpireRefreshCookie /\ ~Fade /\ ~UNCHANGED vars
  BY DEF ExpireAccess, ExpireRefreshCookie, Fade, vars, store
<1>7. PICK q \in Requests : Rotate(q)
  BY <1>3, <1>4, <1>5, <1>6 DEF Next
<1>8. CASE RotateToken(q)
  <2>1. req' = [req EXCEPT ![q].at = "sign", ![q].new = req'[q].new]
    BY <1>8 DEF RotateToken
  <2>2. q # r => req'[r] = req[r]
    BY <1>1, <2>1
  <2>3. q = r => req'[r].at = "sign"
    <3> SUFFICES ASSUME q = r
                 PROVE  req'[r].at = "sign"
      OBVIOUS
    <3>1. req[r] \in Asked
      BY DEF BrowserInv, Shape, Asked, Answered
    <3>2. PICK n : req' = [req EXCEPT ![r].at = "sign", ![r].new = n]
      BY <2>1
    <3>3. req'[r] = [req[r] EXCEPT !.at = "sign", !.new = n]
      BY <1>1, <3>2
    <3> QED
      BY <3>1, <3>3 DEF Asked
  <2> QED
    BY <2>2, <2>3
<1>9. CASE RotateRefused(q)
  <2>1. q = r
    BY <1>2, <1>9 DEF RotateRefused, Refused, Answer, Respond
  <2> QED
    BY <1>9, <2>1 DEF RotateRefused, Store!RotateUnknown
<1>10. CASE ResendRotation(q)
  BY <1>10 DEF ResendRotation
<1> QED
  BY <1>7, <1>8, <1>9, <1>10 DEF Rotate

\* The reuse alarm meets the user himself only after overlap or loss.
THEOREM AlarmsAreExplained == Spec => ReplaysAreExplained
<1>1. ASSUME BrowserInv, [Next]_vars, NEW r \in InFlight, req[r].at = "rotate", req'[r].at = "answer",
             session' # session
      PROVE  req[r].token \in lost \union overlapped
  <2>1. req[r].token \in DOMAIN session /\ session[req[r].token].used
    BY <1>1, AlarmStep DEF Store!RotateReplayed
  <2>2. ~Sound(req[r].token) /\ req[r].token # None
    BY <1>1, <2>1, InvFacts DEF Sound, Gone, Live, StoreInv
  <2> QED
    BY <1>1, <2>2 DEF BrowserInv, Carried, Early
<1>2. BrowserInv /\ [Next]_vars =>
          [\A r \in InFlight :
              req[r].at = "rotate" /\ req'[r].at = "answer" /\ session' # session =>
                  req[r].token \in lost \union overlapped]_vars
  BY <1>1
<1> QED
  BY <1>2, BrowserSound, PTL DEF Spec, ReplaysAreExplained

\* The browser's requests use the store through its interface alone, and
\* present it tokens that were issued: what a store promises under FadingSpec
\* holds however the requests overlap.
THEOREM RequestsUseStore == Spec => Store!FadingSpec
<1>1. Init => Store!Init
  BY DEF Init
<1>2. BrowserInv /\ [Next]_vars => [Store!FadingNext]_(Store!vars)
  <2> SUFFICES ASSUME BrowserInv, [Next]_vars
               PROVE  Store!FadingNext \/ UNCHANGED Store!vars
    OBVIOUS
  <2>1. ASSUME UNCHANGED store
        PROVE  UNCHANGED Store!vars
    BY <2>1 DEF store, Store!vars
  <2>2. \A r \in Requests : req[r].at # "idle" =>
            /\ req[r].token # None => req[r].token \in Tokens
            /\ req[r].at = "rotate" => req[r].token # None
    BY InvFacts DEF Shape
  <2>3. ASSUME NEW r \in Requests, Rotate(r)
        PROVE  Store!FadingNext
    BY <2>2, <2>3 DEF Rotate, RotateToken, RotateRefused, ResendRotation, Store!Rotate,
                      Store!FadingNext
  <2>4. ASSUME NEW r \in Requests, Issue(r) \/ RevokeAll(r) \/ ResetPassword(r)
        PROVE  Store!FadingNext
    BY <2>4 DEF Issue, RevokeAll, ResetPassword, Store!FadingNext
  <2>5. ASSUME NEW r \in Requests, Logout(r)
        PROVE  Store!FadingNext \/ UNCHANGED Store!vars
    BY <2>1, <2>2, <2>5 DEF Logout, Serving, Store!FadingNext
  <2>6. CASE Fade
    BY <2>6 DEF Fade, Store!FadingNext
  <2>7. ASSUME NEW r \in Requests,
               \/ \E kind \in Kinds : Send(r, kind)
               \/ Gate(r) \/ Sign(r) \/ FailRefresh(r) \/ ServeUnchanged(r) \/ Fail(r)
               \/ Apply(r) \/ Lose(r)
        PROVE  UNCHANGED Store!vars
    BY <2>1, <2>7 DEF Send, Gate, Sign, FailRefresh, ServeUnchanged, Fail, Apply, Lose
  <2>8. CASE ExpireAccess \/ ExpireRefreshCookie \/ UNCHANGED vars
    BY <2>1, <2>8 DEF ExpireAccess, ExpireRefreshCookie, vars, store
  <2> QED
    BY <2>3, <2>4, <2>5, <2>6, <2>7, <2>8 DEF Next
<1> QED
  BY <1>1, <1>2, BrowserSound, PTL DEF Spec, Store!FadingSpec
=============================================================================
