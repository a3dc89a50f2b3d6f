----------------------- MODULE IdentityBackendsProofs -----------------------
(***************************************************************************)
(* Proofs about IdentityBackends, for any sets of emails, ids, passwords,  *)
(* calls and seeded users.                                                 *)
(***************************************************************************)
EXTENDS IdentityBackends, TLAPS

\* A creation that has looked up a free email: the call began when the email
\* was free, and whoever has it now was created in between.
CheckedInv ==
    \A r \in Requests :
        /\ Asked(r, "create") /\ ~call[r].free => call[r].email \in DOMAIN index
        /\ call[r].at = "checked" =>
               /\ ~database
               /\ call[r].free
               /\ \A i \in DOMAIN accounts : accounts[i].email = call[r].email => i \in overlapped

\* The ids of the seed are never given out again, and in the table its users
\* keep their rows and their emails.
SeedInv ==
    /\ DOMAIN SeedEmail \subseteq used
    /\ database => \A i \in DOMAIN SeedEmail :
                       i \in DOMAIN accounts /\ accounts[i].email = SeedEmail[i]

BackendInv ==
    /\ TypeOK
    /\ SeedInv
    /\ CheckedInv
    /\ AccountsAreReachable

LEMMA SeedTypes ==
    /\ IsMap(Provider!SeedAccounts, Ids, [email : Emails, password : Passwords, active : BOOLEAN])
    /\ DOMAIN Provider!SeedAccounts = DOMAIN SeedEmail
    /\ \A i \in DOMAIN SeedEmail : Provider!SeedAccounts[i].email = SeedEmail[i]
BY IdentityAssumption DEF Provider!SeedAccounts, IsMap

LEMMA InitTypes ==
    ASSUME Init
    PROVE  BackendInv
<1>1. TypeOK
  BY SeedTypes, IdentityAssumption DEF Init, TypeOK, IsMap, Calls, Idle
<1>2. CheckedInv
  BY DEF Init, CheckedInv, Idle, Asked
<1>3. AccountsAreReachable
  BY SeedTypes, IdentityAssumption DEF Init, AccountsAreReachable, IsMap
<1>4. SeedInv
  BY SeedTypes DEF Init, SeedInv
<1>5. QED
  BY <1>1, <1>2, <1>3, <1>4 DEF BackendInv

\* Only the state of one call changes, to c.
LEMMA CallStep ==
    ASSUME BackendInv, NEW r \in Requests, NEW c \in Calls, Goto(r, c),
           UNCHANGED <<database, accounts, index, used, overlapped>>,
           c.at = "asked" /\ c.op = "create" /\ ~c.free => c.email \in DOMAIN index,
           c.at = "checked" => c.free /\ ~database /\ c.email \notin DOMAIN index
    PROVE  BackendInv'
<1>1. /\ call' \in [Requests -> Calls]
      /\ call'[r] = c
      /\ \A q \in Requests \ {r} : call'[q] = call[q]
  BY DEF BackendInv, TypeOK, Goto
<1>2. TypeOK'
  BY <1>1 DEF BackendInv, TypeOK
<1>3. CheckedInv'
  <2>1. SUFFICES ASSUME NEW q \in Requests
                 PROVE  /\ Asked(q, "create")' /\ ~call'[q].free => call'[q].email \in DOMAIN index
                        /\ call'[q].at = "checked" =>
                               /\ ~database
                               /\ call'[q].free
                               /\ \A i \in DOMAIN accounts :
                                      accounts[i].email = call'[q].email => i \in overlapped
    BY DEF CheckedInv
  <2>2. CASE q = r
    BY <1>1, <2>2 DEF BackendInv, TypeOK, IsMap, Asked
  <2>3. CASE q # r
    BY <1>1, <2>3 DEF BackendInv, CheckedInv, Asked
  <2>4. QED
    BY <2>2, <2>3
<1>4. AccountsAreReachable'
  BY DEF BackendInv, AccountsAreReachable
<1>5. SeedInv'
  BY DEF BackendInv, SeedInv
<1>6. QED
  BY <1>2, <1>3, <1>4, <1>5 DEF BackendInv

\* The steps that leave the accounts alone.
LEMMA QuietStep ==
    ASSUME BackendInv, NEW r \in Requests,
           \/ \E op \in {"verify", "create"}, e \in Emails, p \in Passwords : Ask(r, op, e, p, None)
           \/ \E i \in Ids : Ask(r, "find", None, None, i)
           \/ \E i \in Ids, p \in Passwords : Ask(r, "change", None, p, i)
           \/ FindById(r) \/ ReadUser(r) \/ CompareHash(r) \/ CheckEmail(r) \/ RefuseInsert(r)
           \/ Return(r)
    PROVE  BackendInv'
<1> USE IdentityAssumption
<1>1. call[r] \in Calls
  BY DEF BackendInv, TypeOK
<1>2. ASSUME NEW op \in {"verify", "create"}, NEW e \in Emails, NEW p \in Passwords,
             Ask(r, op, e, p, None)
      PROVE  BackendInv'
  <2> DEFINE c == [at |-> "asked", op |-> op, email |-> e, password |-> p, id |-> None,
                   free |-> e \notin DOMAIN index]
  <2>1. c \in Calls
    BY DEF Calls
  <2>2. /\ c.at = "asked" /\ (~c.free => c.email \in DOMAIN index)
        /\ Goto(r, c) /\ UNCHANGED <<database, accounts, index, used, overlapped>>
    BY <1>2 DEF Ask
  <2>3. QED
    BY <2>1, <2>2, CallStep
<1>3. ASSUME NEW i \in Ids, Ask(r, "find", None, None, i)
      PROVE  BackendInv'
  <2> DEFINE c == [at |-> "asked", op |-> "find", email |-> None, password |-> None, id |-> i,
                   free |-> None \notin DOMAIN index]
  <2>1. c \in Calls
    BY DEF Calls
  <2>2. QED
    BY <1>3, <2>1, CallStep DEF Ask
<1>4. ASSUME NEW i \in Ids, NEW p \in Passwords, Ask(r, "change", None, p, i)
      PROVE  BackendInv'
  <2> DEFINE c == [at |-> "asked", op |-> "change", email |-> None, password |-> p, id |-> i,
                   free |-> None \notin DOMAIN index]
  <2>1. c \in Calls
    BY DEF Calls
  <2>2. QED
    BY <1>4, <2>1, CallStep DEF Ask
<1>5. ASSUME NEW i \in Ids \union {None}, Answer(r, i),
             UNCHANGED <<database, accounts, index, used, overlapped>>
      PROVE  BackendInv'
  <2>1. [at |-> "answered", id |-> i] \in Calls
    BY DEF Calls
  <2>2. QED
    BY <1>5, <2>1, CallStep DEF Answer
<1>6. ASSUME FindById(r)
      PROVE  BackendInv'
  BY <1>5, <1>6 DEF FindById, BackendInv, TypeOK, IsMap
<1>7. ASSUME ReadUser(r)
      PROVE  BackendInv'
  <2> DEFINE e == call[r].email
             c == [at |-> "read", password |-> call[r].password,
                   id |-> IF Found(e) THEN index[e] ELSE None,
                   hash |-> IF Found(e) THEN accounts[index[e]].password ELSE Decoy]
  <2>1. call[r].password \in Passwords
    BY <1>1, <1>7 DEF ReadUser, Asked, Calls, Idle
  <2>2. c.id \in Ids \union {None} /\ c.hash \in Passwords
    BY DEF Found, BackendInv, TypeOK, IsMap
  <2>3. c \in Calls
    BY <2>1, <2>2 DEF Calls
  <2>4. QED
    BY <1>7, <2>3, CallStep DEF ReadUser
<1>8. ASSUME CompareHash(r)
      PROVE  BackendInv'
  BY <1>1, <1>5, <1>8 DEF CompareHash, Calls, Idle
<1>9. ASSUME CheckEmail(r)
      PROVE  BackendInv'
  <2>1. CASE call[r].email \in DOMAIN index
    BY <1>5, <1>9, <2>1 DEF CheckEmail
  <2>2. CASE call[r].email \notin DOMAIN index
    <3> DEFINE c == [call[r] EXCEPT !.at = "checked"]
    <3>1. call[r] \in [at : {"asked"}, op : {"verify", "create"}, email : Emails,
                       password : Passwords, id : {None}, free : BOOLEAN]
      BY <1>1, <1>9 DEF CheckEmail, Asked, Calls, Idle
    <3>2. /\ c \in [at : {"checked"}, op : {"create"}, email : Emails, password : Passwords,
                    id : {None}, free : BOOLEAN]
          /\ c.at = "checked" /\ c.email = call[r].email /\ c.free = call[r].free
      BY <1>9, <3>1 DEF CheckEmail, Asked
    <3>3. c \in Calls
      BY <3>2 DEF Calls
    <3>4. c.free
      BY <1>9, <2>2, <3>1, <3>2 DEF CheckEmail, BackendInv, CheckedInv
    <3>5. QED
      BY <1>9, <2>2, <3>2, <3>3, <3>4, CallStep DEF CheckEmail
  <2>3. QED
    BY <2>1, <2>2
<1>10. ASSUME RefuseInsert(r)
       PROVE  BackendInv'
  BY <1>5, <1>10 DEF RefuseInsert
<1>11. ASSUME Return(r)
       PROVE  BackendInv'
  <2>1. Idle \in Calls /\ Idle.at = "idle"
    BY DEF Calls, Idle
  <2>2. QED
    BY <1>11, <2>1, CallStep DEF Return
<1>12. QED
  BY <1>2, <1>3, <1>4, <1>6, <1>7, <1>8, <1>9, <1>10, <1>11

----------------------------------------------------------------------------
(* The steps that change accounts                                          *)

\* The call that may insert, and its email: free in the table; in memory free
\* when it was looked up.
LEMMA InsertingCall ==
    ASSUME BackendInv, NEW r \in Requests, MayInsert(r)
    PROVE  /\ call[r].email \in Emails /\ call[r].password \in Passwords
           /\ call[r].op = "create" /\ call[r].id = None
           /\ call[r].at \in {"asked", "checked"}
           /\ database => call[r].email \notin DOMAIN index
           /\ ~database => /\ call[r].free
                           /\ \A i \in DOMAIN accounts :
                                  accounts[i].email = call[r].email => i \in overlapped
<1>1. call[r] \in Calls
  BY DEF BackendInv, TypeOK
<1>2. QED
  BY <1>1 DEF MayInsert, Asked, Calls, Idle, BackendInv, CheckedInv

LEMMA CreateStep ==
    ASSUME BackendInv, NEW r \in Requests, CreateUser(r)
    PROVE  BackendInv'
<1> DEFINE e == call[r].email
           new == [email |-> e, password |-> call[r].password, active |-> TRUE]
<1>1. PICK i \in Ids \ used :
          /\ accounts' = Put(accounts, i, new)
          /\ index' = Put(index, e, i)
          /\ used' = used \union {i}
          /\ Answer(r, i)
          /\ overlapped' =
                 IF \E q \in Requests \ {r} : /\ call[q].at \in {"asked", "checked"}
                                              /\ call[q].op = "create"
                                              /\ call[q].email = e
                 THEN overlapped \union {i} ELSE overlapped
          /\ database' = database
  BY DEF CreateUser, Indexed
<1>2. /\ e \in Emails
      /\ new \in [email : Emails, password : Passwords, active : BOOLEAN]
      /\ database => e \notin DOMAIN index
      /\ ~database => \A j \in DOMAIN accounts : accounts[j].email = e => j \in overlapped
  BY InsertingCall DEF CreateUser
<1>3. i \notin DOMAIN accounts
  BY DEF BackendInv, TypeOK
<1>4. /\ DOMAIN accounts' = DOMAIN accounts \union {i}
      /\ accounts'[i] = new
      /\ \A j \in DOMAIN accounts : accounts'[j] = accounts[j]
      /\ DOMAIN index' = DOMAIN index \union {e}
      /\ index'[e] = i
      /\ \A d \in DOMAIN index : d # e => index'[d] = index[d]
  BY <1>1, <1>3 DEF Put
<1>5. /\ call' \in [Requests -> Calls]
      /\ call'[r] = [at |-> "answered", id |-> i]
      /\ \A q \in Requests \ {r} : call'[q] = call[q]
  <2>1. [at |-> "answered", id |-> i] \in Calls
    BY DEF Calls
  <2>2. QED
    BY <1>1, <2>1 DEF Answer, Goto, BackendInv, TypeOK
<1>6. TypeOK'
  <2>1. IsMap(accounts', Ids, [email : Emails, password : Passwords, active : BOOLEAN])
    BY <1>1, <1>2, <1>3, <1>4 DEF BackendInv, TypeOK, IsMap, Put
  <2>2. IsMap(index', Emails, DOMAIN accounts')
    BY <1>1, <1>2, <1>4 DEF BackendInv, TypeOK, IsMap, Put
  <2>3. /\ \A d \in DOMAIN index' : accounts'[index'[d]].email = d
        /\ \A j \in DOMAIN accounts' : accounts'[j].email \in DOMAIN index'
    BY <1>3, <1>4 DEF BackendInv, TypeOK, IsMap
  <2>4. QED
    BY <1>1, <1>4, <1>5, <2>1, <2>2, <2>3 DEF BackendInv, TypeOK
<1>7. CheckedInv'
  <2>1. SUFFICES ASSUME NEW q \in Requests, q # r
                 PROVE  /\ Asked(q, "create")' /\ ~call'[q].free => call'[q].email \in DOMAIN index'
                        /\ call'[q].at = "checked" =>
                               /\ ~database'
                               /\ call'[q].free
                               /\ \A j \in DOMAIN accounts' :
                                      accounts'[j].email = call'[q].email => j \in overlapped'
    BY <1>5 DEF CheckedInv, Asked
  <2>2. Asked(q, "create")' /\ ~call'[q].free => call'[q].email \in DOMAIN index'
    BY <1>4, <1>5, <2>1 DEF BackendInv, CheckedInv, Asked
  <2>3. ASSUME call[q].at = "checked"
        PROVE  /\ ~database /\ call[q].free
               /\ \A j \in DOMAIN accounts' :
                      accounts'[j].email = call[q].email => j \in overlapped'
    <3>1. /\ ~database /\ call[q].free
          /\ \A j \in DOMAIN accounts : accounts[j].email = call[q].email => j \in overlapped
      BY <2>3 DEF BackendInv, CheckedInv
    <3>2. call[q].op = "create"
      BY <2>3 DEF BackendInv, TypeOK, Calls, Idle
    <3>3. call[q].email = e => i \in overlapped'
      BY <1>1, <2>1, <2>3, <3>2
    <3>4. overlapped \subseteq overlapped'
      BY <1>1
    <3>5. ASSUME NEW j \in DOMAIN accounts', accounts'[j].email = call[q].email
          PROVE  j \in overlapped'
      <4>1. CASE j = i
        BY <1>4, <3>3, <3>5, <4>1
      <4>2. CASE j \in DOMAIN accounts
        BY <1>4, <3>1, <3>4, <3>5, <4>2
      <4>3. QED
        BY <1>4, <4>1, <4>2
    <3>6. QED
      BY <3>1, <3>5
  <2>4. QED
    BY <1>1, <1>5, <2>1, <2>2, <2>3
<1>8. AccountsAreReachable'
  <2>1. SUFFICES ASSUME NEW j \in DOMAIN accounts', index'[accounts'[j].email] # j
                 PROVE  ~database' /\ j \in overlapped'
    BY DEF AccountsAreReachable
  <2>2. j \in DOMAIN accounts /\ accounts'[j] = accounts[j]
    BY <1>4, <2>1
  <2>3. CASE accounts[j].email = e
    BY <1>1, <1>2, <2>2, <2>3 DEF BackendInv, TypeOK
  <2>4. CASE accounts[j].email # e
    BY <1>1, <1>4, <2>1, <2>2, <2>4 DEF BackendInv, TypeOK, AccountsAreReachable
  <2>5. QED
    BY <2>3, <2>4
<1>9. SeedInv'
  BY <1>1, <1>4 DEF BackendInv, SeedInv
<1>10. QED
  BY <1>6, <1>7, <1>8, <1>9 DEF BackendInv

\* An account is changed, but for its email.
LEMMA ChangeStep ==
    ASSUME BackendInv, NEW r \in Requests, ChangePassword(r)
    PROVE  BackendInv'
<1> DEFINE i == call[r].id
           c == [at |-> "answered", id |-> None]
<1>1. call[r].password \in Passwords
  BY DEF ChangePassword, Asked, BackendInv, TypeOK, Calls, Idle
<1>2. c \in Calls /\ c.at = "answered"
  BY DEF Calls
<1>3. CASE i \in DOMAIN accounts
  <2>1. accounts' = [accounts EXCEPT ![i].password = call[r].password]
    BY <1>3 DEF ChangePassword
  <2>2. /\ IsMap(accounts', Ids, [email : Emails, password : Passwords, active : BOOLEAN])
        /\ DOMAIN accounts' = DOMAIN accounts
        /\ \A j \in DOMAIN accounts : accounts'[j].email = accounts[j].email
    BY <1>1, <1>3, <2>1 DEF BackendInv, TypeOK, IsMap
  <2>3. /\ UNCHANGED <<database, index, used, overlapped>>
        /\ call' \in [Requests -> Calls]
        /\ call'[r] = c
        /\ \A q \in Requests \ {r} : call'[q] = call[q]
    BY <1>2 DEF ChangePassword, Answer, Goto, BackendInv, TypeOK
  <2>4. TypeOK'
    BY <2>2, <2>3 DEF BackendInv, TypeOK, IsMap
  <2>5. CheckedInv'
    <3>1. \A q \in Requests : call'[q] = call[q] \/ call'[q].at = "answered"
      BY <1>2, <2>3
    <3>2. QED
      BY <2>2, <2>3, <3>1 DEF BackendInv, CheckedInv, Asked
  <2>6. AccountsAreReachable'
    BY <2>2, <2>3 DEF BackendInv, AccountsAreReachable
  <2>7. SeedInv'
    BY <2>2, <2>3 DEF BackendInv, SeedInv
  <2>8. QED
    BY <2>4, <2>5, <2>6, <2>7 DEF BackendInv
<1>4. CASE i \notin DOMAIN accounts
  BY <1>2, <1>4, CallStep DEF ChangePassword, Answer
<1>5. QED
  BY <1>3, <1>4

LEMMA DisableStep ==
    ASSUME BackendInv, NEW i \in Ids, Disable(i)
    PROVE  BackendInv'
<1>1. /\ IsMap(accounts', Ids, [email : Emails, password : Passwords, active : BOOLEAN])
      /\ DOMAIN accounts' = DOMAIN accounts
      /\ \A j \in DOMAIN accounts : accounts'[j].email = accounts[j].email
  BY DEF Disable, BackendInv, TypeOK, IsMap
<1>2. UNCHANGED <<database, index, used, call, overlapped>>
  BY DEF Disable
<1>3. QED
  BY <1>1, <1>2 DEF BackendInv, TypeOK, IsMap, SeedInv, CheckedInv, Asked,
                       AccountsAreReachable

LEMMA RestartStep ==
    ASSUME BackendInv, Restart
    PROVE  BackendInv'
<1>1. /\ call' = [r \in Requests |-> Idle]
      /\ UNCHANGED <<database, used, overlapped>>
  BY DEF Restart
<1>2. CheckedInv'
  BY <1>1 DEF CheckedInv, Asked, Idle
<1>3. call' \in [Requests -> Calls]
  BY <1>1 DEF Calls
<1>4. CASE database
  <2>1. index' = index
    BY <1>4 DEF Restart
  <2>2. /\ DOMAIN accounts' = DOMAIN accounts
        /\ \A i \in DOMAIN accounts :
               accounts'[i] = IF i \in DOMAIN SeedEmail THEN Provider!SeedAccounts[i]
                              ELSE accounts[i]
    BY <1>4 DEF Restart
  <2>3. \A i \in DOMAIN accounts : accounts'[i].email = accounts[i].email
    BY <1>4, <2>2, SeedTypes DEF BackendInv, SeedInv
  <2>4. IsMap(accounts', Ids, [email : Emails, password : Passwords, active : BOOLEAN])
    <3>1. accounts' = [i \in DOMAIN accounts |->
                          IF i \in DOMAIN SeedEmail THEN Provider!SeedAccounts[i]
                          ELSE accounts[i]]
      BY <1>4 DEF Restart
    <3>2. QED
      BY <3>1, SeedTypes DEF BackendInv, TypeOK, IsMap
  <2>5. TypeOK'
    BY <1>1, <1>3, <2>1, <2>2, <2>3, <2>4 DEF BackendInv, TypeOK, IsMap
  <2>6. SeedInv' /\ AccountsAreReachable'
    BY <1>1, <2>1, <2>2, <2>3 DEF BackendInv, SeedInv, AccountsAreReachable
  <2>7. QED
    BY <1>2, <2>5, <2>6 DEF BackendInv
<1>5. CASE ~database
  <2>1. accounts' = Provider!SeedAccounts /\ index' = SeedId
    BY <1>5 DEF Restart
  <2>2. TypeOK'
    BY <1>1, <1>3, <2>1, SeedTypes, IdentityAssumption DEF BackendInv, TypeOK, SeedInv, IsMap
  <2>3. SeedInv'
    BY <1>1, <1>5 DEF BackendInv, SeedInv
  <2>4. AccountsAreReachable'
    BY <2>1, SeedTypes, IdentityAssumption DEF AccountsAreReachable
  <2>5. QED
    BY <1>2, <2>2, <2>3, <2>4 DEF BackendInv
<1>6. QED
  BY <1>4, <1>5

----------------------------------------------------------------------------
(* The invariants                                                          *)

LEMMA BackendStep ==
    ASSUME BackendInv, [Next]_vars
    PROVE  BackendInv'
<1>1. CASE UNCHANGED vars
  BY <1>1 DEF vars, BackendInv, TypeOK, SeedInv, CheckedInv, Asked, AccountsAreReachable
<1>2. CASE Next
  BY <1>2, QuietStep, CreateStep, ChangeStep, DisableStep, RestartStep DEF Next
<1>3. QED
  BY <1>1, <1>2

\* Every reachable state of either provider is typed, and every account in it
\* can be logged in to, but for one in memory whose creation overlapped
\* another for its email.
THEOREM BackendsSound == Spec => []BackendInv
<1>1. Init => BackendInv
  BY InitTypes
<1>2. BackendInv /\ [Next]_vars => BackendInv'
  BY BackendStep
<1>3. QED
  BY <1>1, <1>2, PTL DEF Spec

\* The accounts, their index and the calls in flight keep their types.
THEOREM TypeCorrect == Spec => []TypeOK
<1>1. BackendInv => TypeOK
  BY DEF BackendInv
<1>2. QED
  BY <1>1, BackendsSound, PTL

\* Only creations that overlap can hide an account, and only in memory
\* (UserStore.createUser).
THEOREM AccountsReachable == Spec => []AccountsAreReachable
<1>1. BackendInv => AccountsAreReachable
  BY DEF BackendInv
<1>2. QED
  BY <1>1, BackendsSound, PTL

----------------------------------------------------------------------------
(* The interface's promise                                                 *)

\* The calls as the interface sees them.
Shown == [r \in Requests |-> Seen(call[r])]

LEMMA ShownSteps ==
    ASSUME BackendInv, NEW r \in Requests, NEW c, Goto(r, c)
    PROVE  Shown' = [Shown EXCEPT ![r] = Seen(c)]
BY DEF Goto, Shown, BackendInv, TypeOK

LEMMA SeenAsItIs ==
    ASSUME NEW c, c.at \notin {"checked", "read"}
    PROVE  Seen(c) = c
BY DEF Seen

\* A call that is seen as asked has its fields.
LEMMA SeenAsked ==
    ASSUME BackendInv, NEW r \in Requests, NEW op, Asked(r, op)
    PROVE  Shown[r] = call[r]
BY SeenAsItIs DEF Asked, Shown

LEMMA TakenIsIndexed ==
    ASSUME BackendInv, NEW e
    PROVE  Provider!Taken(e) <=> e \in DOMAIN index
BY DEF Provider!Taken, BackendInv, TypeOK, IsMap

LEMMA AnswerShown ==
    ASSUME BackendInv, NEW r \in Requests, NEW i, Answer(r, i)
    PROVE  Provider!Answer(r, i)
<1>1. Seen([at |-> "answered", id |-> i]) = [at |-> "answered", id |-> i]
  BY SeenAsItIs
<1>2. QED
  BY <1>1, ShownSteps DEF Answer, Provider!Answer, Shown

LEMMA AskShown ==
    ASSUME BackendInv, NEW r \in Requests, NEW op, NEW e, NEW p, NEW i, Ask(r, op, e, p, i)
    PROVE  Provider!Ask(r, op, e, p, i)
<1> DEFINE c == [at |-> "asked", op |-> op, email |-> e, password |-> p, id |-> i,
                 free |-> e \notin DOMAIN index]
<1>1. Seen(c) = c
  BY SeenAsItIs
<1>2. Shown[r] = Idle
  BY SeenAsItIs DEF Ask, Shown, Idle
<1>3. Shown' = [Shown EXCEPT ![r] = c]
  BY <1>1, ShownSteps DEF Ask
<1>4. (e \notin DOMAIN index) = ~Provider!Taken(e)
  BY TakenIsIndexed
<1>5. QED
  BY <1>2, <1>3, <1>4 DEF Ask, Idle, Provider!Ask, Provider!Idle, Shown

LEMMA FindShown ==
    ASSUME BackendInv, NEW r \in Requests, FindById(r)
    PROVE  Provider!FindById(r)
<1>1. Shown[r] = call[r]
  BY SeenAsked DEF FindById
<1>2. QED
  BY <1>1, AnswerShown DEF FindById, Asked, Provider!FindById, Provider!Asked, Shown

\* The verification takes effect when the user is read.
LEMMA VerifyShown ==
    ASSUME BackendInv, NEW r \in Requests, ReadUser(r)
    PROVE  Provider!VerifyCredentials(r)
<1> DEFINE e == call[r].email
           i == IF Found(e) THEN index[e] ELSE None
           h == IF Found(e) THEN accounts[index[e]].password ELSE Decoy
           c == [at |-> "read", password |-> call[r].password, id |-> i, hash |-> h]
           answer == IF h = call[r].password THEN i ELSE None
           Fits(j) == accounts[j] = [email |-> e, password |-> call[r].password, active |-> TRUE]
           Others(j) == \E k \in DOMAIN accounts \ {j} : accounts[k].email = e
<1>1. /\ Shown[r] = call[r] /\ Asked(r, "verify")
      /\ UNCHANGED <<database, accounts, used>>
  BY SeenAsked DEF ReadUser
<1>2. Seen(c) = [at |-> "answered", id |-> answer]
  BY DEF Seen
<1>3. Provider!Answer(r, answer)
  <2>1. Shown' = [Shown EXCEPT ![r] = Seen(c)]
    BY ShownSteps DEF ReadUser
  <2>2. QED
    BY <1>2, <2>1 DEF Provider!Answer, Shown
<1>4. \A j \in DOMAIN accounts :
          accounts[j] \in [email : Emails, password : Passwords, active : BOOLEAN]
  BY DEF BackendInv, TypeOK, IsMap
<1>5. e \in DOMAIN index => index[e] \in DOMAIN accounts /\ accounts[index[e]].email = e
  BY DEF BackendInv, TypeOK, IsMap
<1>6. \/ \E j \in DOMAIN accounts : Fits(j) /\ Provider!Answer(r, j)
      \/ /\ \A j \in DOMAIN accounts : Fits(j) => Others(j)
         /\ Provider!Answer(r, None)
  <2>1. CASE Found(e) /\ accounts[index[e]].password = call[r].password
    <3>1. Fits(index[e])
      BY <1>4, <1>5, <2>1 DEF Found
    <3>2. answer = index[e] /\ index[e] \in DOMAIN accounts
      BY <1>5, <2>1 DEF Found
    <3>3. QED
      BY <1>3, <3>1, <3>2
  <2>2. CASE ~(Found(e) /\ accounts[index[e]].password = call[r].password)
    <3>1. answer = None
      BY <2>2
    <3>2. ASSUME NEW j \in DOMAIN accounts, Fits(j)
          PROVE  Others(j)
      <4>1. e \in DOMAIN index /\ accounts[j].email = e
        BY <3>2 DEF BackendInv, TypeOK
      <4>2. index[e] # j
        BY <2>2, <3>2, <4>1 DEF Found
      <4>3. QED
        BY <1>5, <4>1, <4>2
    <3>3. QED
      BY <1>3, <3>1, <3>2
  <2>3. QED
    BY <2>1, <2>2
<1>7. QED
  BY <1>1, <1>6 DEF Asked, Provider!VerifyCredentials, Provider!Asked, Shown

\* The comparison and the lookup of a free email are not seen.
LEMMA CompareShown ==
    ASSUME BackendInv, NEW r \in Requests, CompareHash(r)
    PROVE  UNCHANGED <<database, accounts, used, Shown>>
<1> DEFINE answer == [at |-> "answered",
                      id |-> IF call[r].hash = call[r].password THEN call[r].id ELSE None]
<1>1. Seen(answer) = answer /\ Seen(call[r]) = answer
  BY DEF CompareHash, Seen
<1>2. Shown' = [Shown EXCEPT ![r] = answer]
  BY <1>1, ShownSteps DEF CompareHash, Answer
<1>3. QED
  BY <1>1, <1>2 DEF CompareHash, Shown

LEMMA CheckShown ==
    ASSUME BackendInv, NEW r \in Requests, CheckEmail(r)
    PROVE  Provider!CreateUser(r) \/ UNCHANGED <<database, accounts, used, Shown>>
<1>1. /\ Shown[r] = call[r] /\ Asked(r, "create")
      /\ UNCHANGED <<database, accounts, used>>
  BY SeenAsked DEF CheckEmail
<1>2. CASE call[r].email \in DOMAIN index
  <2>1. Provider!Answer(r, None)
    BY <1>2, AnswerShown DEF CheckEmail
  <2>2. Provider!Taken(call[r].email)
    BY <1>2, TakenIsIndexed
  <2>3. QED
    BY <1>1, <2>1, <2>2 DEF Asked, Provider!CreateUser, Provider!Asked, Shown
<1>3. CASE call[r].email \notin DOMAIN index
  <2> DEFINE c == [call[r] EXCEPT !.at = "checked"]
  <2>1. Goto(r, c)
    BY <1>3 DEF CheckEmail
  <2>2. call[r] \in [at : {"asked"}, op : {"verify", "create"}, email : Emails,
                     password : Passwords, id : {None}, free : BOOLEAN]
    BY <1>1 DEF Asked, BackendInv, TypeOK, Calls, Idle
  <2>3. c.at = "checked" /\ [c EXCEPT !.at = "asked"] = call[r]
    BY <2>2
  <2>4. Seen(c) = call[r]
    BY <2>3 DEF Seen
  <2>5. Shown' = Shown
    BY <1>1, <2>1, <2>4, ShownSteps DEF Shown
  <2>6. QED
    BY <1>1, <2>5
<1>4. QED
  BY <1>2, <1>3

LEMMA CreateShown ==
    ASSUME BackendInv, NEW r \in Requests, CreateUser(r)
    PROVE  Provider!CreateUser(r)
<1>1. PICK i \in Ids \ used :
          /\ accounts' = Put(accounts, i, [email |-> call[r].email, password |-> call[r].password,
                                           active |-> TRUE])
          /\ used' = used \union {i}
          /\ Answer(r, i)
          /\ database' = database
  BY DEF CreateUser
<1>2. Provider!Answer(r, i)
  BY <1>1, AnswerShown
<1>3. /\ Shown[r].at = "asked" /\ Shown[r].op = "create"
      /\ Shown[r].email = call[r].email /\ Shown[r].password = call[r].password
      /\ Shown[r].free = call[r].free
  <2>1. call[r] \in Calls
    BY DEF BackendInv, TypeOK
  <2>2. CASE call[r].at = "asked"
    BY <2>2, SeenAsItIs, InsertingCall DEF CreateUser, Shown
  <2>3. CASE call[r].at = "checked"
    BY <2>1, <2>3 DEF Calls, Idle, Seen, Shown
  <2>4. QED
    BY <2>2, <2>3, InsertingCall DEF CreateUser
<1>4. IF database THEN ~Provider!Taken(call[r].email) ELSE call[r].free
  BY InsertingCall, TakenIsIndexed DEF CreateUser
<1>5. QED
  BY <1>1, <1>2, <1>3, <1>4 DEF Put, Provider!CreateUser, Provider!Asked, Provider!Put, Shown

LEMMA RefuseShown ==
    ASSUME BackendInv, NEW r \in Requests, RefuseInsert(r)
    PROVE  Provider!CreateUser(r)
<1>1. Shown[r] = call[r] /\ Asked(r, "create")
  BY SeenAsked DEF RefuseInsert
<1>2. Provider!Answer(r, None) /\ Provider!Taken(call[r].email)
  BY AnswerShown, TakenIsIndexed DEF RefuseInsert
<1>3. QED
  BY <1>1, <1>2 DEF RefuseInsert, Asked, Provider!CreateUser, Provider!Asked, Shown

LEMMA ChangeShown ==
    ASSUME BackendInv, NEW r \in Requests, ChangePassword(r)
    PROVE  Provider!ChangePassword(r)
<1>1. Shown[r] = call[r] /\ Asked(r, "change")
  BY SeenAsked DEF ChangePassword
<1>2. Provider!Answer(r, None)
  BY AnswerShown DEF ChangePassword
<1>3. accounts' = IF call[r].id \in DOMAIN accounts
                  THEN [accounts EXCEPT ![call[r].id].password = call[r].password]
                  ELSE accounts
  BY DEF ChangePassword
<1>4. UNCHANGED <<database, used>>
  BY DEF ChangePassword
<1>5. QED
  BY <1>1, <1>2, <1>3, <1>4 DEF Asked, Provider!ChangePassword, Provider!Asked, Shown

LEMMA ReturnShown ==
    ASSUME BackendInv, NEW r \in Requests, Return(r)
    PROVE  Provider!Return(r)
<1>1. call[r] \in Calls
  BY DEF BackendInv, TypeOK
<1>2. Shown[r].at # "idle"
  BY <1>1 DEF Return, Shown, Seen, Calls, Idle
<1>3. Shown' = [Shown EXCEPT ![r] = Idle]
  BY ShownSteps, SeenAsItIs DEF Return, Idle
<1>4. QED
  BY <1>2, <1>3 DEF Return, Idle, Provider!Return, Provider!Idle, Shown

LEMMA RestartShown ==
    ASSUME Restart
    PROVE  Provider!Restart
<1>1. Shown' = [r \in Requests |-> Idle]
  BY SeenAsItIs DEF Restart, Shown, Idle
<1>2. accounts' = IF database
                  THEN [i \in DOMAIN accounts |->
                           IF i \in DOMAIN Provider!SeedAccounts THEN Provider!SeedAccounts[i]
                           ELSE accounts[i]]
                  ELSE Provider!SeedAccounts
  BY SeedTypes DEF Restart
<1>3. QED
  BY <1>1, <1>2 DEF Restart, Idle, Provider!Restart, Provider!Idle, Shown

LEMMA StepShown ==
    ASSUME BackendInv, [Next]_vars
    PROVE  [Provider!Next]_(Provider!vars)
<1>1. CASE UNCHANGED vars
  BY <1>1 DEF vars, Provider!vars
<1>2. ASSUME NEW r \in Requests,
             CompareHash(r) \/ CheckEmail(r)
      PROVE  [Provider!Next]_(Provider!vars)
  BY <1>2, CompareShown, CheckShown DEF Provider!Next, Provider!vars, Shown
<1>3. ASSUME NEW r \in Requests, NEW op \in {"verify", "create"}, NEW e \in Emails,
             NEW p \in Passwords, Ask(r, op, e, p, None)
      PROVE  Provider!Next
  BY <1>3, AskShown DEF Provider!Next
<1>4. ASSUME NEW r \in Requests, NEW i \in Ids, Ask(r, "find", None, None, i)
      PROVE  Provider!Next
  BY <1>4, AskShown DEF Provider!Next
<1>5. ASSUME NEW r \in Requests, NEW i \in Ids, NEW p \in Passwords,
             Ask(r, "change", None, p, i)
      PROVE  Provider!Next
  BY <1>5, AskShown DEF Provider!Next
<1>6. ASSUME NEW r \in Requests,
             \/ FindById(r) \/ ReadUser(r) \/ CreateUser(r) \/ RefuseInsert(r)
             \/ ChangePassword(r) \/ Return(r)
      PROVE  Provider!Next
  BY <1>6, FindShown, VerifyShown, CreateShown, RefuseShown, ChangeShown, ReturnShown
     DEF Provider!Next
<1>7. ASSUME NEW i \in Ids, Disable(i)
      PROVE  Provider!Next
  <2>1. Provider!Disable(i)
    BY <1>7 DEF Disable, Provider!Disable
  <2>2. QED
    BY <2>1 DEF Provider!Next
<1>8. ASSUME Restart
      PROVE  Provider!Next
  BY <1>8, RestartShown DEF Provider!Next
<1>9. QED
  BY <1>1, <1>2, <1>3, <1>4, <1>5, <1>6, <1>7, <1>8 DEF Next

\* Both providers implement the interface: a call takes effect at one moment,
\* whatever else is awaited meanwhile (PrismaIdentityProvider, UserStore).
THEOREM BackendsKeepPromise == Spec => KeepsPromise
<1>1. Init => Provider!Init
  BY SeenAsItIs DEF Init, Provider!Init, Idle, Provider!Idle
<1>2. BackendInv /\ [Next]_vars => [Provider!Next]_(Provider!vars)
  BY StepShown
<1>3. QED
  BY <1>1, <1>2, BackendsSound, PTL DEF Spec, KeepsPromise, Provider!Spec
=============================================================================
