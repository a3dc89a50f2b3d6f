-------------------------- MODULE IdentityProvider --------------------------
(***************************************************************************)
(* What the IdentityProvider interface promises (users/user.store.ts):     *)
(* accounts that are created, found, verified and given new passwords,     *)
(* each call taking effect at one moment between being asked and being     *)
(* answered.                                                               *)
(*                                                                         *)
(* A provider on a database keeps its accounts when the process ends, and  *)
(* no two of them share an email.  One that keeps them in the process      *)
(* starts again with the seed, and promises a free email only to calls     *)
(* that do not overlap another for the same email.                         *)
(***************************************************************************)
EXTENDS KeyValue

CONSTANTS Emails, Ids, Passwords, Requests,
          SeedEmail,     \* the ids of the seeded users -> their emails
          SeedPassword,  \* the password the seed gives them
          None

VARIABLES
    database,  \* whether the provider is the one on a database
    accounts,  \* id -> [email, password, active]
    used,      \* every id given out: random ids never repeat
    call       \* the calls in flight

vars == <<database, accounts, used, call>>

Account == [email : Emails, password : Passwords, active : BOOLEAN]
SeedAccounts ==
    [i \in DOMAIN SeedEmail |->
        [email |-> SeedEmail[i], password |-> SeedPassword, active |-> TRUE]]

Taken(e) == \E i \in DOMAIN accounts : accounts[i].email = e

\* Nothing asked, or answered with an account's id, with None or with nothing.
Idle == [at |-> "idle"]
Answer(r, i) == call' = [call EXCEPT ![r] = [at |-> "answered", id |-> i]]
Asked(r, op) == call[r].at = "asked" /\ call[r].op = op

Init ==
    /\ database \in BOOLEAN
    /\ accounts = SeedAccounts
    /\ used = DOMAIN SeedEmail
    /\ call = [r \in Requests |-> Idle]

----------------------------------------------------------------------------

\* Whether the email was free when the call began is remembered with it.
Ask(r, op, e, p, i) ==
    /\ call[r] = Idle
    /\ call' = [call EXCEPT ![r] = [at |-> "asked", op |-> op, email |-> e, password |-> p,
                                    id |-> i, free |-> ~Taken(e)]]
    /\ UNCHANGED <<database, accounts, used>>

FindById(r) ==
    LET i == call[r].id
    IN  /\ Asked(r, "find")
        /\ Answer(r, IF i \in DOMAIN accounts /\ accounts[i].active THEN i ELSE None)
        /\ UNCHANGED <<database, accounts, used>>

\* "Returns the user on success, null on any failure": an account that the
\* credentials fit, and None unless they fit the only account of the email.
VerifyCredentials(r) ==
    LET Fits(i) == accounts[i] = [email |-> call[r].email, password |-> call[r].password,
                                  active |-> TRUE]
        Others(i) == \E j \in DOMAIN accounts \ {i} : accounts[j].email = call[r].email
    IN  /\ Asked(r, "verify")
        /\ \/ \E i \in DOMAIN accounts : Fits(i) /\ Answer(r, i)
           \/ /\ \A i \in DOMAIN accounts : Fits(i) => Others(i)
              /\ Answer(r, None)
        /\ UNCHANGED <<database, accounts, used>>

\* "Returns the new user, or null if the email is already taken."
CreateUser(r) ==
    LET e == call[r].email
        new == [email |-> e, password |-> call[r].password, active |-> TRUE]
    IN  /\ Asked(r, "create")
        /\ \/ /\ IF database THEN ~Taken(e) ELSE call[r].free
              /\ \E i \in Ids \ used :
                     /\ accounts' = Put(accounts, i, new)
                     /\ used' = used \union {i}
                     /\ Answer(r, i)
           \/ Taken(e) /\ Answer(r, None) /\ UNCHANGED <<accounts, used>>
        /\ UNCHANGED database

\* The password alone is replaced, of the account the id names, if any.
ChangePassword(r) ==
    LET i == call[r].id
    IN  /\ Asked(r, "change")
        /\ accounts' = IF i \in DOMAIN accounts
                       THEN [accounts EXCEPT ![i].password = call[r].password]
                       ELSE accounts
        /\ Answer(r, None)
        /\ UNCHANGED <<database, used>>

\* The caller goes on with the answer, or the call fails before or after it
\* took effect.
Return(r) ==
    /\ call[r] # Idle
    /\ call' = [call EXCEPT ![r] = Idle]
    /\ UNCHANGED <<database, accounts, used>>

\* An operator disables a row.
Disable(i) ==
    /\ database
    /\ i \in DOMAIN accounts
    /\ accounts' = [accounts EXCEPT ![i].active = FALSE]
    /\ UNCHANGED <<database, used, call>>

\* The process starts again, and so do its calls.  The seed resets the
\* password and the status of its users where the accounts were kept.
Restart ==
    /\ accounts' = IF database
                   THEN [i \in DOMAIN accounts |->
                            IF i \in DOMAIN SeedAccounts THEN SeedAccounts[i] ELSE accounts[i]]
                   ELSE SeedAccounts
    /\ call' = [r \in Requests |-> Idle]
    /\ UNCHANGED <<database, used>>

Next ==
    \/ \E r \in Requests :
          \/ \E op \in {"verify", "create"}, e \in Emails, p \in Passwords : Ask(r, op, e, p, None)
          \/ \E i \in Ids : Ask(r, "find", None, None, i)
          \/ \E i \in Ids, p \in Passwords : Ask(r, "change", None, p, i)
          \/ FindById(r) \/ VerifyCredentials(r) \/ CreateUser(r) \/ ChangePassword(r)
          \/ Return(r)
    \/ \E i \in Ids : Disable(i)
    \/ Restart

Spec == Init /\ [][Next]_vars
=============================================================================
