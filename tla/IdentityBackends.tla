-------------------------- MODULE IdentityBackends --------------------------
(***************************************************************************)
(* The two implementations of IdentityProvider: the one on Postgres that   *)
(* the service runs on (users/prisma-identity.provider.ts) and the one in  *)
(* the process's memory that it replaced (users/user.store.ts).            *)
(*                                                                         *)
(* Hashing a password and comparing with a hash (argon2) are awaited: what *)
(* a call has read before is what it goes on with after.  "index" finds an *)
(* account by its email: the unique index of the table User, or byEmail.   *)
(***************************************************************************)
EXTENDS KeyValue

CONSTANTS Emails, Ids, Passwords, Requests, SeedEmail, SeedPassword, None,
          SeedId,  \* the seeded emails -> the ids of their users
          Decoy    \* the password behind decoyHash

ASSUME IdentityAssumption ==
    /\ IsMap(SeedEmail, Ids, Emails)
    /\ IsMap(SeedId, Emails, DOMAIN SeedEmail)
    /\ \A i \in DOMAIN SeedEmail : SeedEmail[i] \in DOMAIN SeedId /\ SeedId[SeedEmail[i]] = i
    /\ \A e \in DOMAIN SeedId : SeedEmail[SeedId[e]] = e
    /\ SeedPassword \in Passwords
    /\ Decoy \in Passwords
    /\ None \notin Emails \union Ids \union Passwords

VARIABLES
    database,   \* whether the provider is the Prisma one
    accounts,   \* the rows of table User; byId
    index,      \* email -> id
    used,       \* every id given out, by cuid() or randomUUID()
    call,       \* the calls in flight
    overlapped  \* history: accounts created while another creation for the email was asked

vars == <<database, accounts, index, used, call, overlapped>>

\* What the interface sees of a call: a creation that has looked up the email
\* has yet to take effect, a verification that has read the user has its answer.
Seen(c) ==
    CASE c.at = "checked" -> [c EXCEPT !.at = "asked"]
      [] c.at = "read" -> [at |-> "answered", id |-> IF c.hash = c.password THEN c.id ELSE None]
      [] OTHER -> c

Provider == INSTANCE IdentityProvider WITH call <- [r \in Requests |-> Seen(call[r])]

Idle == [at |-> "idle"]
Calls ==
    {Idle}
    \union [at : {"asked"}, op : {"verify", "create"}, email : Emails, password : Passwords,
            id : {None}, free : BOOLEAN]
    \union [at : {"asked"}, op : {"find"}, email : {None}, password : {None}, id : Ids,
            free : BOOLEAN]
    \union [at : {"asked"}, op : {"change"}, email : {None}, password : Passwords, id : Ids,
            free : BOOLEAN]
    \union [at : {"checked"}, op : {"create"}, email : Emails, password : Passwords,
            id : {None}, free : BOOLEAN]
    \union [at : {"read"}, id : Ids \union {None}, hash : Passwords, password : Passwords]
    \union [at : {"answered"}, id : Ids \union {None}]

Goto(r, next) == call' = [call EXCEPT ![r] = next]
Answer(r, i) == Goto(r, [at |-> "answered", id |-> i])
Asked(r, op) == call[r].at = "asked" /\ call[r].op = op

\* Types, and the index: it names an account of the email, and every account's
\* email is in it.
TypeOK ==
    /\ database \in BOOLEAN
    /\ IsMap(accounts, Ids, [email : Emails, password : Passwords, active : BOOLEAN])
    /\ IsMap(index, Emails, DOMAIN accounts)
    /\ \A e \in DOMAIN index : accounts[index[e]].email = e
    /\ \A i \in DOMAIN accounts : accounts[i].email \in DOMAIN index
    /\ DOMAIN accounts \subseteq used
    /\ used \in SUBSET Ids
    /\ call \in [Requests -> Calls]
    /\ overlapped \in SUBSET Ids

\* After seed.ts, or onModuleInit.
Init ==
    /\ database \in BOOLEAN
    /\ accounts = Provider!SeedAccounts
    /\ index = SeedId
    /\ used = DOMAIN SeedEmail
    /\ call = [r \in Requests |-> Idle]
    /\ overlapped = {}

Ask(r, op, e, p, i) ==
    /\ call[r] = Idle
    /\ Goto(r, [at |-> "asked", op |-> op, email |-> e, password |-> p, id |-> i,
                free |-> e \notin DOMAIN index])
    /\ UNCHANGED <<database, accounts, index, used, overlapped>>

----------------------------------------------------------------------------
(* The calls                                                               *)

\* In memory no account is ever inactive.
FindById(r) ==
    LET i == call[r].id
    IN  /\ Asked(r, "find")
        /\ Answer(r, IF i \in DOMAIN accounts /\ accounts[i].active THEN i ELSE None)
        /\ UNCHANGED <<database, accounts, index, used, overlapped>>

\* Mutant: the status of the row is not asked for.
FoundWhateverStatus(e) == e \in DOMAIN index

Found(e) == e \in DOMAIN index /\ accounts[index[e]].active

\* The user the email names, if any, is read, and verify begins with its hash
\* or with the decoy's.
ReadUser(r) ==
    LET e == call[r].email
    IN  /\ Asked(r, "verify")
        /\ Goto(r, [at |-> "read", password |-> call[r].password,
                    id |-> IF Found(e) THEN index[e] ELSE None,
                    hash |-> IF Found(e) THEN accounts[index[e]].password ELSE Decoy])
        /\ UNCHANGED <<database, accounts, index, used, overlapped>>

\* "ok && user": whoever gives the decoy's password gets nobody.
CompareHash(r) ==
    /\ call[r].at = "read"
    /\ Answer(r, IF call[r].hash = call[r].password THEN call[r].id ELSE None)
    /\ UNCHANGED <<database, accounts, index, used, overlapped>>

\* In memory the email is looked up first, and the password hashed after.
CheckEmail(r) ==
    /\ Asked(r, "create")
    /\ ~database
    /\ IF call[r].email \in DOMAIN index THEN Answer(r, None)
       ELSE Goto(r, [call[r] EXCEPT !.at = "checked"])
    /\ UNCHANGED <<database, accounts, index, used, overlapped>>

\* Mutant: the insert does not wait for the lookup.
MayInsertUnchecked(r) ==
    IF database THEN Asked(r, "create") /\ call[r].email \notin DOMAIN index
    ELSE Asked(r, "create") \/ call[r].at = "checked"

\* INSERT under the unique index once the password is hashed; byId.set and
\* byEmail.set whatever happened to the email since it was looked up.
MayInsert(r) ==
    IF database THEN Asked(r, "create") /\ call[r].email \notin DOMAIN index
    ELSE call[r].at = "checked"

\* Mutant: the new user is kept by id alone.
NotIndexed(e, i) == index

Indexed(e, i) == Put(index, e, i)

CreateUser(r) ==
    LET e == call[r].email
    IN  /\ MayInsert(r)
        /\ \E i \in Ids \ used :
               /\ accounts' = Put(accounts, i, [email |-> e, password |-> call[r].password,
                                                active |-> TRUE])
               /\ index' = Indexed(e, i)
               /\ used' = used \union {i}
               /\ Answer(r, i)
               /\ overlapped' =
                      IF \E q \in Requests \ {r} : /\ call[q].at \in {"asked", "checked"}
                                                   /\ call[q].op = "create"
                                                   /\ call[q].email = e
                      THEN overlapped \union {i} ELSE overlapped
        /\ UNCHANGED database

\* P2002, the unique index.
RefuseInsert(r) ==
    /\ Asked(r, "create")
    /\ database
    /\ call[r].email \in DOMAIN index
    /\ Answer(r, None)
    /\ UNCHANGED <<database, accounts, index, used, overlapped>>

\* The new password is hashed first, in memory after the record was looked up;
\* a record is never replaced, so that is one step.  An id that names nobody is
\* an error of the update, or ignored.
ChangePassword(r) ==
    LET i == call[r].id
    IN  /\ Asked(r, "change")
        /\ IF i \in DOMAIN accounts
           THEN accounts' = [accounts EXCEPT ![i].password = call[r].password]
           ELSE ~database /\ UNCHANGED accounts
        /\ Answer(r, None)
        /\ UNCHANGED <<database, index, used, overlapped>>

----------------------------------------------------------------------------
(* Around the calls                                                        *)

\* The answer is used, or the call throws.
Return(r) ==
    /\ call[r] # Idle
    /\ Goto(r, Idle)
    /\ UNCHANGED <<database, accounts, index, used, overlapped>>

Disable(i) ==
    /\ database
    /\ i \in DOMAIN accounts
    /\ accounts' = [accounts EXCEPT ![i].active = FALSE]
    /\ UNCHANGED <<database, index, used, call, overlapped>>

\* The seed upserts its users into the table; onModuleInit fills empty maps.
Restart ==
    /\ IF database
       THEN /\ accounts' = [i \in DOMAIN accounts |->
                               IF i \in DOMAIN SeedEmail THEN Provider!SeedAccounts[i] ELSE accounts[i]]
            /\ UNCHANGED index
       ELSE accounts' = Provider!SeedAccounts /\ index' = SeedId
    /\ call' = [r \in Requests |-> Idle]
    /\ UNCHANGED <<database, used, overlapped>>

Next ==
    \/ \E r \in Requests :
          \/ \E op \in {"verify", "create"}, e \in Emails, p \in Passwords : Ask(r, op, e, p, None)
          \/ \E i \in Ids : Ask(r, "find", None, None, i)
          \/ \E i \in Ids, p \in Passwords : Ask(r, "change", None, p, i)
          \/ FindById(r) \/ ReadUser(r) \/ CompareHash(r)
          \/ CheckEmail(r) \/ CreateUser(r) \/ RefuseInsert(r) \/ ChangePassword(r)
          \/ Return(r)
    \/ \E i \in Ids : Disable(i)
    \/ Restart

Spec == Init /\ [][Next]_vars

----------------------------------------------------------------------------
(* What must hold                                                          *)

\* Both implementations are what the interface promises of them: every call
\* takes effect at one moment while it is in flight, however the awaited
\* hashing of several calls interleaves, and the one on the database never
\* gives an email away twice.
KeepsPromise == Provider!Spec

\* An account can be logged in to: its email finds it.  Only an account in
\* memory, created while another creation for its email was under way, can be
\* hidden behind the other.
AccountsAreReachable ==
    \A i \in DOMAIN accounts :
        index[accounts[i].email] # i => ~database /\ i \in overlapped
=============================================================================
