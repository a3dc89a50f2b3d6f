---------------------------- MODULE AuthService -----------------------------
(***************************************************************************)
(* The auth-service's flows over its stores: login, signup, password       *)
(* change, refresh, logout and logout-all (auth/auth.service.ts), the      *)
(* forgotten-password flow (auth/password-reset.service.ts), the user rows *)
(* behind them (users/prisma-identity.provider.ts) and the seed that runs  *)
(* at every start (prisma/seed.ts).                                        *)
(*                                                                         *)
(* A handler is a chain of awaited calls, each of which one store executes *)
(* atomically while other handlers run in between.  task[r] is what the    *)
(* handler of request r has learnt so far and the call it makes next.      *)
(* Sessions are those of SessionStore, with the promise the deployed Redis *)
(* store keeps: FadingSpec.                                                *)
(***************************************************************************)
EXTENDS KeyValue, FiniteSets

CONSTANTS Users, Families, Tokens, Requests, Passwords, ResetTokens,
          SeedUsers,     \* the users prisma/seed.ts upserts
          SeedPassword,  \* the password the seed gives them
          None           \* the password of a user without a row; no reset token

ASSUME AuthAssumption ==
    /\ SeedUsers \subseteq Users
    /\ SeedPassword \in Passwords
    /\ None \notin Passwords \union ResetTokens

VARIABLES
    session, minted, opener, reply,  \* the session store
    password,   \* the user rows' password hashes
    active,     \* the users whose row has status ACTIVE
    access,     \* the users some client holds an unexpired access token of
    resets,     \* Redis pwreset:{hash}: reset token -> user
    mailed,     \* the reset tokens made so far, never repeated -> whom they were mailed to
    task,       \* the handlers in flight
    by,         \* history: family -> the password its login was checked against
    raced,      \* history: families opened with a password already overwritten
    unrevoked,  \* history: users whose password was overwritten and not revoked
    presented,  \* history: the reset tokens a request has presented
    proven      \* history: requests whose caller has shown what a change takes

store == <<session, minted, opener, reply>>
rows == <<password, active>>
redis == <<resets, mailed>>
history == <<by, raced, unrevoked, presented, proven>>
vars == <<session, minted, opener, reply, password, active, access, resets, mailed, task,
          by, raced, unrevoked, presented, proven>>

Store == INSTANCE SessionStore

\* A handler between two awaited calls; "at" names the call to come.
Idle == [at |-> "idle"]
Tasks ==
    [at : {"idle"}]
    \union [at : {"issue"}, user : Users, pw : Passwords]
    \union [at : {"check"}, user : Users, current : Passwords, new : Passwords]
    \union [at : {"write", "revoke"}, user : Users, new : Passwords,
            key : ResetTokens \union {None}]
    \union [at : {"find", "purge", "mail"}, user : Users]

\* Types, and no handler works for a user without an account.
TypeOK ==
    /\ Store!TypeOK
    /\ password \in [Users -> Passwords \union {None}]
    /\ active \in SUBSET Users
    /\ access \in SUBSET Users
    /\ IsMap(resets, ResetTokens, Users)
    /\ IsMap(mailed, ResetTokens, Users)
    /\ task \in [Requests -> Tasks]
    /\ \A r \in Requests : task[r] # Idle => password[task[r].user] # None
    /\ by \in [DOMAIN opener -> Passwords]
    /\ raced \subseteq DOMAIN opener
    /\ unrevoked \in SUBSET Users
    /\ presented \in SUBSET ResetTokens
    /\ proven \in SUBSET Requests

\* An empty session store, and a database that the seed has already filled or,
\* as under start:dev, not yet.
Init ==
    /\ Store!Init
    /\ active \in {{}, SeedUsers}
    /\ password = [u \in Users |-> IF u \in active THEN SeedPassword ELSE None]
    /\ access = {}
    /\ resets = EmptyMap
    /\ mailed = EmptyMap
    /\ task = [r \in Requests |-> Idle]
    /\ by = EmptyMap
    /\ raced = {}
    /\ unrevoked = {}
    /\ presented = {}
    /\ proven = {}

Goto(r, next) == task' = [task EXCEPT ![r] = next]
Start(r, next) == task[r] = Idle /\ Goto(r, next)

\* verifyCredentials: the row is active and the password matches.
Verified(u, p) == u \in active /\ password[u] = p

----------------------------------------------------------------------------
(* Calls on the stores that several handlers make                          *)

\* sessions.createSession(user.id): the last step of issueFor.
IssueFor(r) ==
    LET u == task[r].user
        pw == task[r].pw
    IN  /\ task[r].at = "issue"
        /\ \E f \in Families, n \in Tokens :
               /\ Store!CreateSession(u, f, n)
               /\ by' = Put(by, f, pw)
               /\ raced' = IF password[u] = pw THEN raced ELSE raced \union {f}
        /\ access' = access \union {u}
        /\ Goto(r, Idle)
        /\ UNCHANGED <<rows, redis, unrevoked, presented, proven>>

\* identity.changePassword(user.id, new).
WritePassword(r) ==
    /\ task[r].at = "write"
    /\ password' = [password EXCEPT ![task[r].user] = task[r].new]
    /\ Goto(r, [task[r] EXCEPT !.at = "revoke"])
    /\ proven' = proven \ {r}
    /\ UNCHANGED <<store, active, redis, by, raced, unrevoked, presented, access>>

\* Mutant: the result of revokeUser is not awaited and the call is lost.
LoseRevocation(u) ==
    /\ UNCHANGED store
    /\ unrevoked' = unrevoked \ {u}

\* sessions.revokeUser(u) reaches the families the store still indexes.
RevokeSessions(u) ==
    /\ \E F \in SUBSET Families : Store!RevokeListed(u, F)
    /\ unrevoked' = unrevoked \ {u}

\* After a password write: revoke all sessions, then changePassword re-issues
\* for the current device while reset is done.
RevokeAfterWrite(r) ==
    /\ task[r].at = "revoke"
    /\ RevokeSessions(task[r].user)
    /\ Goto(r, IF task[r].key = None
               THEN [at |-> "issue", user |-> task[r].user, pw |-> task[r].new]
               ELSE Idle)
    /\ UNCHANGED <<rows, redis, by, raced, presented, proven, access>>

----------------------------------------------------------------------------
(* login, signup and changePassword                                        *)

\* A failed check answers 401 and changes nothing, so only success is a step.
Login(r, u, p) ==
    /\ Verified(u, p)
    /\ Start(r, [at |-> "issue", user |-> u, pw |-> p])
    /\ UNCHANGED <<store, rows, redis, history, access>>

\* createUser inserts, and the unique email makes a second insert fail.
Signup(r, u, p) ==
    /\ password[u] = None
    /\ password' = [password EXCEPT ![u] = p]
    /\ active' = active \union {u}
    /\ Start(r, [at |-> "issue", user |-> u, pw |-> p])
    /\ UNCHANGED <<store, redis, history, access>>

\* A valid access token of u was presented, and findById found u active.
ChangePassword(r, u, current, new) ==
    /\ u \in access \intersect active
    /\ Start(r, [at |-> "check", user |-> u, current |-> current, new |-> new])
    /\ UNCHANGED <<store, rows, redis, history, access>>

\* What the caller of r has shown counts when it is the password of an active
\* account at that moment, whatever the handler makes of it.
RecordCheck(r) ==
    /\ proven' = IF task[r].user \in active /\ password[task[r].user] = task[r].current
                 THEN proven \union {r} ELSE proven
    /\ UNCHANGED <<by, raced, unrevoked, presented>>

\* Mutant: the answer of verifyCredentials is not looked at.
CheckNothing(r) ==
    /\ task[r].at = "check"
    /\ Goto(r, [at |-> "write", user |-> task[r].user, new |-> task[r].new, key |-> None])
    /\ RecordCheck(r)
    /\ UNCHANGED <<store, rows, redis, access>>

CheckCurrent(r) ==
    LET u == task[r].user
    IN  /\ task[r].at = "check"
        /\ Goto(r, IF Verified(u, task[r].current)
                   THEN [at |-> "write", user |-> u, new |-> task[r].new, key |-> None]
                   ELSE Idle)
        /\ RecordCheck(r)
        /\ UNCHANGED <<store, rows, redis, access>>

----------------------------------------------------------------------------
(* refresh, logout and logoutAll                                           *)

\* rotate answers at once; only a rotated token takes the handler further.
Refresh(r, t) ==
    /\ Store!Rotate(t)
    /\ IF reply' = "rotated"
       THEN Start(r, [at |-> "find", user |-> session[t].user])
       ELSE task[r] = Idle /\ UNCHANGED task
    /\ UNCHANGED <<rows, redis, history, access>>

\* findById: an active user is answered a fresh access token.
FindUser(r) ==
    /\ task[r].at = "find"
    /\ IF task[r].user \in active
       THEN Goto(r, Idle) /\ access' = access \union {task[r].user}
       ELSE Goto(r, [task[r] EXCEPT !.at = "purge"]) /\ UNCHANGED access
    /\ UNCHANGED <<store, rows, redis, history>>

\* The user vanished or was disabled: every session goes.
Purge(r) ==
    /\ task[r].at = "purge"
    /\ RevokeSessions(task[r].user)
    /\ Goto(r, Idle)
    /\ UNCHANGED <<rows, redis, by, raced, presented, proven, access>>

Logout(t) ==
    /\ Store!Revoke(t)
    /\ UNCHANGED <<rows, redis, task, history, access>>

\* The access token alone authorises: neither row nor status is read.
LogoutAll(u) ==
    /\ u \in access
    /\ RevokeSessions(u)
    /\ UNCHANGED <<rows, redis, task, by, raced, presented, proven, access>>

----------------------------------------------------------------------------
(* Forgotten passwords                                                     *)

\* Mutant: a token is stored for an unknown or disabled account too.
RequestResetForAnyone(r, u) ==
    /\ Start(r, [at |-> "mail", user |-> u])
    /\ UNCHANGED <<store, rows, redis, history, access>>

\* The row was found, and ACTIVE.
RequestReset(r, u) ==
    /\ u \in active
    /\ Start(r, [at |-> "mail", user |-> u])
    /\ UNCHANGED <<store, rows, redis, history, access>>

\* SET pwreset:{hash} EX, then the mail with the token.
StoreResetToken(r) ==
    /\ task[r].at = "mail"
    /\ \E k \in ResetTokens \ DOMAIN mailed :
           /\ resets' = Put(resets, k, task[r].user)
           /\ mailed' = Put(mailed, k, task[r].user)
    /\ Goto(r, Idle)
    /\ UNCHANGED <<store, rows, history, access>>

\* A reset token counts as long as nobody has presented it, for the user it
\* was mailed to, whatever the store makes of it.
RecordReset(r, k) ==
    /\ proven' = IF k \notin presented /\ mailed[k] = resets[k] THEN proven \union {r} ELSE proven
    /\ presented' = presented \union {k}
    /\ UNCHANGED <<by, raced, unrevoked>>

\* Mutant: GET leaves the token in place.
ResetKeepingToken(r, k, new) ==
    /\ k \in DOMAIN resets
    /\ Start(r, [at |-> "write", user |-> resets[k], new |-> new, key |-> k])
    /\ RecordReset(r, k)
    /\ UNCHANGED <<store, rows, redis, access>>

\* GETDEL: the token is consumed before the password is written.
Reset(r, k, new) ==
    /\ k \in DOMAIN resets
    /\ Start(r, [at |-> "write", user |-> resets[k], new |-> new, key |-> k])
    /\ resets' = Drop(resets, {k})
    /\ RecordReset(r, k)
    /\ UNCHANGED <<store, rows, mailed, access>>

ExpireReset(k) ==
    /\ k \in DOMAIN resets
    /\ resets' = Drop(resets, {k})
    /\ UNCHANGED <<store, rows, mailed, task, history, access>>

----------------------------------------------------------------------------
(* Around the handlers                                                     *)

ExpireSessions(T) ==
    /\ Store!Fade(T)
    /\ UNCHANGED <<rows, redis, task, history, access>>

ExpireAccess(u) ==
    /\ access' = access \ {u}
    /\ UNCHANGED <<store, rows, redis, task, history>>

\* An operator disables the row; no code of the service does.
Disable(u) ==
    /\ active' = active \ {u}
    /\ UNCHANGED <<store, password, redis, task, history, access>>

\* The users whose password is written while their revocation is still to come.
Owing(R) == {task[r].user : r \in {x \in R : task[x].at = "revoke"}}

\* The next call throws (Redis or Postgres unreachable): the handler ends
\* there and what it did stays done.
Fail(r) ==
    /\ task[r] # Idle
    /\ Goto(r, Idle)
    /\ unrevoked' = unrevoked \union Owing({r})
    /\ proven' = proven \ {r}
    /\ UNCHANGED <<store, rows, redis, by, raced, presented, access>>

\* The process ends with its handlers, and its container starts again: the
\* seed upserts its users, password and status included, then serves.
Restart ==
    /\ task' = [r \in Requests |-> Idle]
    /\ password' = [u \in Users |-> IF u \in SeedUsers THEN SeedPassword ELSE password[u]]
    /\ active' = active \union SeedUsers
    /\ unrevoked' = unrevoked \union Owing(Requests)
                    \union {u \in SeedUsers : password[u] \notin {None, SeedPassword}}
    /\ proven' = {}
    /\ UNCHANGED <<store, redis, by, raced, presented, access>>

Handle(r) ==
    \/ \E u \in Users, p \in Passwords : Login(r, u, p) \/ Signup(r, u, p)
    \/ \E u \in Users, p, q \in Passwords : ChangePassword(r, u, p, q)
    \/ \E t \in Tokens : Refresh(r, t)
    \/ \E u \in Users : RequestReset(r, u)
    \/ \E k \in ResetTokens, q \in Passwords : Reset(r, k, q)
    \/ IssueFor(r) \/ CheckCurrent(r) \/ WritePassword(r) \/ RevokeAfterWrite(r)
    \/ FindUser(r) \/ Purge(r) \/ StoreResetToken(r)

Serve ==
    \/ \E r \in Requests : Handle(r)
    \/ \E t \in Tokens : Logout(t)
    \/ \E u \in Users : LogoutAll(u) \/ ExpireAccess(u) \/ Disable(u)
    \/ \E k \in ResetTokens : ExpireReset(k)
    \/ \E T \in SUBSET Tokens : ExpireSessions(T)

Next == Serve \/ Restart \/ \E r \in Requests : Fail(r)

Spec == Init /\ [][Next]_vars

\* The service while nothing fails and nothing restarts.
FaultFreeSpec == Init /\ [][Serve]_vars

----------------------------------------------------------------------------
(* What must hold                                                          *)

Revoking(u) == u \in Owing(Requests)

\* "revokes EVERY session for the user so any stolen refresh token dies"
\* (auth.service.ts:79-81, password-reset.service.ts:15), as far as the code
\* keeps it: a live session opened under a password that is no longer the
\* user's is one of these: its login verified the password before the change
\* and opened the session after it; the revocation is still to come, or its
\* handler failed first; the store has forgotten the session's first token.
StaleSessionsAreExplained ==
    \A t \in DOMAIN session :
        LET f == session[t].family
            u == session[t].user
        IN  by[f] # password[u] =>
                \/ f \in raced
                \/ Revoking(u) \/ u \in unrevoked
                \/ ~Store!Remembered(f)

\* A reset token is worth one password change, however the requests that
\* present it interleave (password-reset.service.ts:14, single-use): while a
\* handler spends it, neither the store nor another handler has it.
ResetTokenSpentOnce ==
    \A r \in Requests : task[r].at \in {"write", "revoke"} /\ task[r].key # None =>
        /\ task[r].key \notin DOMAIN resets
        /\ \A q \in Requests \ {r} :
               task[q].at \in {"write", "revoke"} => task[q].key # task[r].key

\* An account's password changes only by a request that was given the current
\* password (auth.service.ts:79-81) or the reset token mailed to its owner, once
\* (password-reset.service.ts:14), and becomes the one that request brought,
\* whatever other requests do between its check and its write; or by the seed.
\* The request that takes the step is the one whose task changes.
PasswordChangesAreAuthorised ==
    [][\A u \in Users : password[u] \notin {None, password'[u]} =>
          \/ \E r \in proven : /\ task[r].at = "write" /\ task'[r] # task[r]
                             /\ task[r].user = u /\ task[r].new = password'[u]
          \/ Restart]_vars

----------------------------------------------------------------------------
(* What the documentation says and the service does not do                 *)

\* The same promise as documented: once a change has revoked, no session
\* authenticated by an earlier password is left.
NoStaleSession ==
    \A t \in DOMAIN session :
        LET u == session[t].user
        IN  ~Revoking(u) => by[session[t].family] = password[u]
=============================================================================
