------------------------- MODULE AuthServiceProofs --------------------------
(***************************************************************************)
(* What holds of AuthService for any users, families, tokens, requests,    *)
(* passwords and reset tokens: a reset token is spent once, passwords are  *)
(* changed by those who may, and a session that outlives its password does *)
(* so for one of the known reasons.                                        *)
(***************************************************************************)
EXTENDS AuthService, TLAPS

----------------------------------------------------------------------------
(* The inductive invariant                                                 *)

\* A handler that writes a password on the strength of a reset token.
Spending(r) == task[r].at \in {"write", "revoke"} /\ task[r].key # None

\* What the store names was handed out: a fresh token is no family's opener.
StoreInv ==
    /\ DOMAIN session \subseteq minted
    /\ \A f \in DOMAIN opener : opener[f] \in minted
    /\ \A t \in DOMAIN session : session[t].family \in DOMAIN opener

\* Sessions, reset tokens and activations name users that have a row.
RowInv ==
    /\ \A u \in active : password[u] # None
    /\ \A t \in DOMAIN session : password[session[t].user] # None
    /\ \A k \in DOMAIN resets : password[resets[k]] # None

\* A reset token, stored or being spent, was mailed: a fresh one differs.
KeyInv ==
    /\ DOMAIN resets \subseteq DOMAIN mailed
    /\ \A r \in Requests : Spending(r) => task[r].key \in DOMAIN mailed

\* Part of TypeOK: the record of what callers have shown.
EvidenceTyped ==
    /\ presented \in SUBSET ResetTokens
    /\ proven \in SUBSET Requests

AuthInv ==
    /\ TypeOK
    /\ StoreInv
    /\ RowInv
    /\ KeyInv
    /\ ResetTokenSpentOnce
    /\ StaleSessionsAreExplained

----------------------------------------------------------------------------
(* Tasks                                                                   *)

\* The records a handler's task can be, one kind at a time.
LEMMA TaskKinds ==
    /\ Idle \in Tasks
    /\ \A u \in Users, p \in Passwords : [at |-> "issue", user |-> u, pw |-> p] \in Tasks
    /\ \A u \in Users : \A p, q \in Passwords :
           [at |-> "check", user |-> u, current |-> p, new |-> q] \in Tasks
    /\ \A a \in {"write", "revoke"}, u \in Users, q \in Passwords :
           \A k \in ResetTokens \union {None} :
               [at |-> a, user |-> u, new |-> q, key |-> k] \in Tasks
    /\ \A a \in {"find", "purge", "mail"}, u \in Users : [at |-> a, user |-> u] \in Tasks
BY DEF Idle, Tasks

LEMMA TaskFields ==
    ASSUME NEW m \in Tasks
    PROVE  /\ m = Idle <=> m.at = "idle"
           /\ m # Idle => m.user \in Users
           /\ m.at = "issue" => m.pw \in Passwords
           /\ m.at = "check" => m.current \in Passwords /\ m.new \in Passwords
           /\ m.at \in {"write", "revoke"} =>
                  /\ m.new \in Passwords /\ m.key \in ResetTokens \union {None}
                  /\ m = [at |-> m.at, user |-> m.user, new |-> m.new, key |-> m.key]
           /\ m.at \in {"find", "purge", "mail"} => m = [at |-> m.at, user |-> m.user]
BY DEF Idle, Tasks

\* Handler r goes on to m, and every other handler stays where it is.
Moved(r, m) ==
    /\ task' \in [Requests -> Tasks]
    /\ task'[r] = m
    /\ \A q \in Requests : q # r => task'[q] = task[q]

LEMMA GotoMoves ==
    ASSUME TypeOK, NEW r \in Requests, NEW m \in Tasks, Goto(r, m)
    PROVE  Moved(r, m)
BY DEF TypeOK, Goto, Moved

\* No step takes a row away, and every handler keeps to users with a row.
RowsStay == \A u \in Users : password[u] # None => password'[u] # None
TasksHaveRows == \A r \in Requests : task[r] # Idle => password[task[r].user] # None

LEMMA MovedHasRow ==
    ASSUME TypeOK, RowsStay, NEW r \in Requests, NEW m \in Tasks, Moved(r, m),
           m # Idle => password'[m.user] # None
    PROVE  TasksHaveRows'
<1>1. SUFFICES ASSUME NEW q \in Requests, task'[q] # Idle
               PROVE  password'[task'[q].user] # None
  BY DEF TasksHaveRows
<1>2. CASE q = r
  BY <1>1, <1>2 DEF Moved
<1>3. CASE q # r
  BY <1>1, <1>3, TaskFields DEF Moved, TypeOK, RowsStay
<1>4. QED
  BY <1>2, <1>3

----------------------------------------------------------------------------
(* Calls on the session store                                              *)

\* The sessions of the new state stem from those of the old one, and nothing
\* forgotten is remembered again.
Carried ==
    /\ Store!TypeOK'
    /\ StoreInv'
    /\ opener' = opener
    /\ \A t \in DOMAIN session' :
           \E s \in DOMAIN session :
               session'[t].family = session[s].family /\ session'[t].user = session[s].user
    /\ \A f \in DOMAIN opener : Store!Remembered(f)' => Store!Remembered(f)

LEMMA StoreRests ==
    ASSUME TypeOK, StoreInv, UNCHANGED store
    PROVE  Carried
BY DEF TypeOK, StoreInv, store, Carried, Store!TypeOK, Store!IsMap, Store!Remembered

LEMMA DropCarries ==
    ASSUME TypeOK, StoreInv, NEW D, session' = Store!Drop(session, D),
           UNCHANGED <<minted, opener>>, reply' \in Store!Replies
    PROVE  Carried /\ DOMAIN session' = DOMAIN session \ D
           /\ \A t \in DOMAIN session' : session'[t] = session[t]
<1>1. /\ DOMAIN session' = DOMAIN session \ D
      /\ \A t \in DOMAIN session' : session'[t] = session[t]
      /\ session' = [t \in DOMAIN session' |-> session'[t]]
  BY DEF Store!Drop, Store!Restrict
<1>2. Store!TypeOK'
  BY <1>1 DEF TypeOK, Store!TypeOK, Store!IsMap
<1>3. StoreInv'
  BY <1>1 DEF StoreInv
<1>4. \A f \in DOMAIN opener : Store!Remembered(f)' => Store!Remembered(f)
  BY <1>1 DEF Store!Remembered
<1>5. QED
  BY <1>1, <1>2, <1>3, <1>4 DEF Carried

LEMMA RotationCarries ==
    ASSUME TypeOK, StoreInv, NEW t \in Tokens, NEW n \in Tokens, Store!RotateCurrent(t, n)
    PROVE  Carried
<1>1. /\ t \in DOMAIN session /\ n \notin minted /\ t # n /\ reply' \in Store!Replies
      /\ minted' = minted \union {n} /\ opener' = opener
      /\ session' = Store!Put([session EXCEPT ![t].used = TRUE], n, session[t])
  BY DEF Store!RotateCurrent, Store!Replies, StoreInv
<1>2. session \in [DOMAIN session -> [family : Families, user : Users, used : BOOLEAN]]
      /\ DOMAIN session \subseteq Tokens
  BY DEF TypeOK, Store!TypeOK, Store!IsMap
<1>3. /\ DOMAIN session' = DOMAIN session \union {n}
      /\ session'[n] = session[t]
      /\ \A s \in DOMAIN session :
             session'[s].family = session[s].family /\ session'[s].user = session[s].user
      /\ session' \in [DOMAIN session' -> [family : Families, user : Users, used : BOOLEAN]]
  BY <1>1, <1>2 DEF StoreInv, Store!Put
<1>4. Store!TypeOK'
  BY <1>1, <1>2, <1>3 DEF TypeOK, Store!TypeOK, Store!IsMap
<1>5. StoreInv'
  BY <1>1, <1>3 DEF StoreInv
<1>6. \A f \in DOMAIN opener : Store!Remembered(f)' => Store!Remembered(f)
  BY <1>1, <1>3 DEF Store!Remembered, StoreInv
<1>7. \A s \in DOMAIN session' : \E o \in DOMAIN session :
          session'[s].family = session[o].family /\ session'[s].user = session[o].user
  BY <1>1, <1>3
<1>8. QED
  BY <1>1, <1>4, <1>5, <1>6, <1>7 DEF Carried

LEMMA RotateCarries ==
    ASSUME TypeOK, StoreInv, NEW t \in Tokens, Store!Rotate(t)
    PROVE  /\ Carried
           /\ reply' = "rotated" => t \in DOMAIN session
<1>1. CASE Store!RotateUnknown(t)
  <2>1. UNCHANGED <<session, minted, opener>> /\ reply' = "invalid"
    BY <1>1 DEF Store!RotateUnknown
  <2>2. QED
    BY <2>1 DEF TypeOK, StoreInv, Carried, Store!TypeOK, Store!IsMap, Store!Remembered,
                Store!Replies
<1>2. CASE Store!RotateReplayed(t)
  BY <1>2, DropCarries DEF Store!RotateReplayed, Store!Replies
<1>3. ASSUME NEW n \in Tokens, Store!RotateCurrent(t, n)
      PROVE  Carried /\ t \in DOMAIN session
  BY <1>3, RotationCarries DEF Store!RotateCurrent
<1>4. QED
  BY <1>1, <1>2, <1>3 DEF Store!Rotate

LEMMA RevokeCarries ==
    ASSUME TypeOK, StoreInv, NEW t \in Tokens, Store!Revoke(t)
    PROVE  Carried
<1>1. CASE t \in DOMAIN session
  BY <1>1, DropCarries DEF Store!Revoke, Store!Replies
<1>2. CASE t \notin DOMAIN session
  <2>1. UNCHANGED <<session, minted, opener>> /\ reply' = "revoked"
    BY <1>2 DEF Store!Revoke
  <2>2. QED
    BY <2>1 DEF TypeOK, StoreInv, Carried, Store!TypeOK, Store!IsMap, Store!Remembered,
                Store!Replies
<1>3. QED
  BY <1>1, <1>2

LEMMA FadeCarries ==
    ASSUME TypeOK, StoreInv, NEW T, Store!Fade(T)
    PROVE  Carried
BY DropCarries DEF Store!Fade, TypeOK, Store!TypeOK

\* No session of u is left that the store could have revoked.
Revoked(u) == \A t \in DOMAIN session :
                  session[t].user = u => ~Store!Remembered(session[t].family)

LEMMA RevokeListedCarries ==
    ASSUME TypeOK, StoreInv, NEW u \in Users, NEW F, Store!RevokeListed(u, F)
    PROVE  Carried /\ Revoked(u)'
<1> DEFINE D == {t \in DOMAIN session : session[t].family \in F}
<1>1. /\ session' = Store!Drop(session, D)
      /\ UNCHANGED <<minted, opener>>
      /\ reply' \in Store!Replies
      /\ \A f \in Store!FamiliesOfUser(u) : Store!Remembered(f) => f \in F
  BY DEF Store!RevokeListed, Store!Replies
<1>2. /\ Carried
      /\ DOMAIN session' = DOMAIN session \ D
      /\ \A t \in DOMAIN session' : session'[t] = session[t]
  BY <1>1, DropCarries
<1>3. \A t \in DOMAIN session' :
          session'[t].user = u => ~Store!Remembered(session[t].family)
  BY <1>1, <1>2 DEF Store!FamiliesOfUser, Store!TokensOfUser
<1>4. QED
  BY <1>2, <1>3 DEF Revoked, Store!Remembered, Carried

----------------------------------------------------------------------------
(* What keeps each part of the invariant                                   *)

\* A revocation of u is to come, or was lost.
Pending(u) == Revoking(u) \/ u \in unrevoked

\* What accounts for u's sessions after a step that opens none.
Accounted(u) ==
    \/ password'[u] = password[u] /\ (Pending(u) => Pending(u)')
    \/ Pending(u)'
    \/ password[u] = None
    \/ Revoked(u)'

LEMMA StaleKept ==
    ASSUME TypeOK, StoreInv, RowInv, StaleSessionsAreExplained, Carried,
           UNCHANGED <<by, raced>>, \A u \in Users : Accounted(u)
    PROVE  StaleSessionsAreExplained'
<1>1. SUFFICES ASSUME NEW t \in DOMAIN session', NEW f, NEW u,
                      f = session'[t].family, u = session'[t].user,
                      by[f] # password'[u], f \notin raced
               PROVE  Pending(u)' \/ opener[f] \notin DOMAIN session'
  <2>1. SUFFICES ASSUME NEW t \in DOMAIN session'
                 PROVE  by[session'[t].family] # password'[session'[t].user] =>
                            \/ session'[t].family \in raced
                            \/ session'[t].user \in (Owing(Requests))' \union unrevoked'
                            \/ opener[session'[t].family] \notin DOMAIN session'
    BY DEF StaleSessionsAreExplained, Revoking, Carried, Store!Remembered
  <2>2. PICK f, u : f = session'[t].family /\ u = session'[t].user
    OBVIOUS
  <2>3. QED
    BY <1>1, <2>2 DEF Pending, Revoking
<1>2. PICK s \in DOMAIN session : f = session[s].family /\ u = session[s].user
  BY <1>1 DEF Carried
<1>3. u \in Users /\ f \in DOMAIN opener /\ password[u] # None
  BY <1>2 DEF TypeOK, Store!TypeOK, Store!IsMap, StoreInv, RowInv
<1>4. opener[f] \in DOMAIN session' => opener[f] \in DOMAIN session
  BY <1>3 DEF Carried, Store!Remembered
<1>5. by[f] # password[u] => Pending(u) \/ opener[f] \notin DOMAIN session
  BY <1>1, <1>2, <1>3 DEF StaleSessionsAreExplained, Pending, Store!Remembered
<1>6. Revoked(u)' => opener[f] \notin DOMAIN session'
  BY <1>1, <1>3 DEF Revoked, Store!Remembered, Carried
<1>7. QED
  BY <1>1, <1>3, <1>4, <1>5, <1>6 DEF Accounted

\* Nobody comes by a reset token in the step.
KeysKept ==
    /\ DOMAIN resets' \subseteq DOMAIN resets
    /\ mailed' = mailed
    /\ \A q \in Requests : Spending(q)' => Spending(q) /\ task'[q].key = task[q].key

LEMMA KeyKept ==
    ASSUME KeyInv, ResetTokenSpentOnce, KeysKept
    PROVE  KeyInv' /\ ResetTokenSpentOnce'
<1>1. KeyInv'
  BY DEF KeyInv, KeysKept
<1>2. ResetTokenSpentOnce'
  <2>1. SUFFICES ASSUME NEW r \in Requests, Spending(r)'
                 PROVE  /\ task'[r].key \notin DOMAIN resets'
                        /\ \A q \in Requests \ {r} :
                               task'[q].at \in {"write", "revoke"} => task'[q].key # task'[r].key
    BY DEF ResetTokenSpentOnce, Spending
  <2>2. Spending(r) /\ task'[r].key = task[r].key /\ task[r].key # None
    BY <2>1 DEF KeysKept, Spending
  <2>3. /\ task[r].key \notin DOMAIN resets
        /\ \A q \in Requests \ {r} : Spending(q) => task[q].key # task[r].key
    BY <2>2 DEF ResetTokenSpentOnce, Spending
  <2>4. \A q \in Requests \ {r} : Spending(q)' => task'[q].key # task'[r].key
    BY <2>2, <2>3 DEF KeysKept
  <2>5. QED
    BY <2>2, <2>3, <2>4 DEF KeysKept, Spending
<1>3. QED
  BY <1>1, <1>2

\* The rows that sessions, reset tokens and activations name are still there.
LEMMA RowKept ==
    ASSUME TypeOK, RowInv, RowsStay, Carried, \A u \in active' : password'[u] # None,
           \A k \in DOMAIN resets' : k \in DOMAIN resets /\ resets'[k] = resets[k]
    PROVE  RowInv'
<1>1. \A s \in DOMAIN session : session[s].user \in Users
  BY DEF TypeOK, Store!TypeOK, Store!IsMap
<1>2. \A k \in DOMAIN resets : resets[k] \in Users
  BY DEF TypeOK, IsMap
<1>3. QED
  BY <1>1, <1>2 DEF RowInv, RowsStay, Carried

\* A step that opens no session and hands out no reset token.
Plain ==
    /\ Carried
    /\ UNCHANGED <<by, raced>>
    /\ RowsStay
    /\ \A u \in active' : password'[u] # None
    /\ resets' = resets \/ \E K \in SUBSET ResetTokens : resets' = Drop(resets, K)
    /\ password' \in [Users -> Passwords \union {None}]
    /\ active' \in SUBSET Users
    /\ access' \in SUBSET Users
    /\ unrevoked' \in SUBSET Users
    /\ mailed' = mailed
    /\ EvidenceTyped'
    /\ task' \in [Requests -> Tasks]
    /\ TasksHaveRows'
    /\ \A u \in Users : Accounted(u)

LEMMA PlainStep ==
    ASSUME AuthInv, Plain
    PROVE  TypeOK' /\ StoreInv' /\ RowInv' /\ StaleSessionsAreExplained'
           /\ DOMAIN resets' \subseteq DOMAIN resets
<1>1. /\ \A k \in DOMAIN resets' : k \in DOMAIN resets /\ resets'[k] = resets[k]
      /\ IsMap(resets', ResetTokens, Users)
  BY DEF Plain, Drop, Restrict, AuthInv, TypeOK, IsMap
<1>2. TypeOK'
  BY <1>1 DEF Plain, Carried, AuthInv, TypeOK, TasksHaveRows, EvidenceTyped
<1>3. RowInv'
  BY <1>1, RowKept DEF Plain, AuthInv
<1>4. StaleSessionsAreExplained'
  BY StaleKept DEF Plain, AuthInv
<1>5. QED
  BY <1>1, <1>2, <1>3, <1>4 DEF Plain, Carried

LEMMA PlainQuietStep ==
    ASSUME AuthInv, Plain, \A q \in Requests : Spending(q)' => Spending(q) /\ task'[q].key = task[q].key
    PROVE  AuthInv'
<1>1. KeysKept
  BY PlainStep DEF Plain, KeysKept
<1>2. QED
  BY <1>1, PlainStep, KeyKept DEF AuthInv

----------------------------------------------------------------------------
(* The handlers' steps                                                     *)

\* Handler r goes on to m, which no revocation is lost by, and rows, reset
\* tokens and what is known of the sessions rest.
LEMMA TaskStep ==
    ASSUME AuthInv, NEW r \in Requests, NEW m \in Tasks, Goto(r, m), Carried,
           task[r].at # "revoke",
           m # Idle => password[m.user] # None,
           m.at \in {"write", "revoke"} => m.key = None,
           access' \in SUBSET Users, EvidenceTyped',
           UNCHANGED <<rows, redis, by, raced, unrevoked>>
    PROVE  AuthInv'
<1>1. Moved(r, m)
  BY GotoMoves DEF AuthInv
<1>2. RowsStay /\ TasksHaveRows'
  BY <1>1, MovedHasRow DEF RowsStay, rows, AuthInv
<1>3. \A u \in Users : Pending(u) => Pending(u)'
  BY <1>1 DEF Moved, Pending, Revoking, Owing
<1>4. Plain
  BY <1>1, <1>2, <1>3 DEF Plain, Moved, Accounted, rows, redis, AuthInv, TypeOK, RowInv
<1>5. \A q \in Requests : Spending(q)' => Spending(q) /\ task'[q].key = task[q].key
  BY <1>1 DEF Moved, Spending
<1>6. QED
  BY <1>4, <1>5, PlainQuietStep

\* No handler moves.
LEMMA IdleStep ==
    ASSUME AuthInv, Carried, task' = task, active' \subseteq active,
           access' \in SUBSET Users, unrevoked' \in SUBSET Users, EvidenceTyped',
           resets' = resets \/ \E K \in SUBSET ResetTokens : resets' = Drop(resets, K),
           UNCHANGED <<password, mailed, by, raced>>,
           \A u \in Users : u \in unrevoked => u \in unrevoked' \/ Revoked(u)'
    PROVE  AuthInv'
<1>1. RowsStay /\ TasksHaveRows'
  BY DEF RowsStay, TasksHaveRows, AuthInv, TypeOK
<1>2. \A u \in Users : Accounted(u)
  BY DEF Accounted, Pending, Revoking, Owing
<1>3. Plain
  BY <1>1, <1>2 DEF Plain, AuthInv, TypeOK, RowInv
<1>4. QED
  BY <1>3, PlainQuietStep DEF Spending

LEMMA LoginStep ==
    ASSUME AuthInv, NEW r \in Requests, NEW u \in Users, NEW p \in Passwords, Login(r, u, p)
    PROVE  AuthInv'
<1>1. PICK m \in Tasks : m = [at |-> "issue", user |-> u, pw |-> p]
  BY TaskKinds
<1>2. Goto(r, m) /\ task[r] = Idle /\ password[u] # None /\ m.at = "issue" /\ m.user = u
  BY <1>1 DEF Login, Start, Verified, AuthInv, RowInv
<1>3. QED
  BY <1>2, TaskStep, StoreRests DEF Login, Idle, AuthInv, TypeOK, history, EvidenceTyped

LEMMA ChangePasswordStep ==
    ASSUME AuthInv, NEW r \in Requests, NEW u \in Users, NEW p \in Passwords, NEW q \in Passwords,
           ChangePassword(r, u, p, q)
    PROVE  AuthInv'
<1>1. PICK m \in Tasks : m = [at |-> "check", user |-> u, current |-> p, new |-> q]
  BY TaskKinds
<1>2. Goto(r, m) /\ task[r] = Idle /\ password[u] # None /\ m.at = "check" /\ m.user = u
  BY <1>1 DEF ChangePassword, Start, AuthInv, RowInv
<1>3. QED
  BY <1>2, TaskStep, StoreRests DEF ChangePassword, Idle, AuthInv, TypeOK, history, EvidenceTyped

LEMMA RequestResetStep ==
    ASSUME AuthInv, NEW r \in Requests, NEW u \in Users, RequestReset(r, u)
    PROVE  AuthInv'
<1>1. PICK m \in Tasks : m = [at |-> "mail", user |-> u]
  BY TaskKinds
<1>2. Goto(r, m) /\ task[r] = Idle /\ password[u] # None /\ m.at = "mail" /\ m.user = u
  BY <1>1 DEF RequestReset, Start, AuthInv, RowInv
<1>3. QED
  BY <1>2, TaskStep, StoreRests DEF RequestReset, Idle, AuthInv, TypeOK, history, EvidenceTyped

LEMMA CheckCurrentStep ==
    ASSUME AuthInv, NEW r \in Requests, CheckCurrent(r)
    PROVE  AuthInv'
<1>1. /\ task[r] \in Tasks /\ task[r].at = "check" /\ task[r].user \in Users
      /\ task[r].new \in Passwords /\ password[task[r].user] # None
  BY TaskFields DEF CheckCurrent, AuthInv, TypeOK, Idle
<1>2. CASE Verified(task[r].user, task[r].current)
  <2>1. PICK m \in Tasks :
            m = [at |-> "write", user |-> task[r].user, new |-> task[r].new, key |-> None]
    BY <1>1, TaskKinds
  <2>2. Goto(r, m) /\ m.key = None /\ m.user = task[r].user
    BY <1>2, <2>1 DEF CheckCurrent
  <2>3. QED
    BY <1>1, <2>2, TaskStep, StoreRests
       DEF CheckCurrent, RecordCheck, AuthInv, TypeOK, EvidenceTyped
<1>3. CASE ~Verified(task[r].user, task[r].current)
  <2>1. Goto(r, Idle) /\ Idle \in Tasks /\ Idle.at = "idle"
    BY <1>3, TaskKinds DEF CheckCurrent, Idle
  <2>2. QED
    BY <1>1, <2>1, TaskStep, StoreRests
       DEF CheckCurrent, RecordCheck, AuthInv, TypeOK, EvidenceTyped
<1>4. QED
  BY <1>2, <1>3

LEMMA FindUserStep ==
    ASSUME AuthInv, NEW r \in Requests, FindUser(r)
    PROVE  AuthInv'
<1>1. /\ task[r] \in Tasks /\ task[r].at = "find" /\ task[r].user \in Users
      /\ task[r] = [at |-> "find", user |-> task[r].user] /\ password[task[r].user] # None
  BY TaskFields DEF FindUser, AuthInv, TypeOK, Idle
<1>2. access' \in SUBSET Users
  BY <1>1 DEF FindUser, AuthInv, TypeOK
<1>3. CASE task[r].user \in active
  <2>1. Goto(r, Idle) /\ Idle \in Tasks /\ Idle.at = "idle"
    BY <1>3, TaskKinds DEF FindUser, Idle
  <2>2. QED
    BY <1>1, <1>2, <2>1, TaskStep, StoreRests DEF FindUser, AuthInv, TypeOK, history, EvidenceTyped
<1>4. CASE task[r].user \notin active
  <2>1. PICK m \in Tasks : m = [at |-> "purge", user |-> task[r].user]
    BY <1>1, TaskKinds
  <2>2. Goto(r, m) /\ m.at = "purge" /\ m.user = task[r].user
    BY <1>1, <1>4, <2>1 DEF FindUser
  <2>3. QED
    BY <1>1, <1>2, <2>2, TaskStep, StoreRests DEF FindUser, AuthInv, TypeOK, history, EvidenceTyped
<1>5. QED
  BY <1>3, <1>4

LEMMA RefreshStep ==
    ASSUME AuthInv, NEW r \in Requests, NEW t \in Tokens, Refresh(r, t)
    PROVE  AuthInv'
<1>1. Carried /\ (reply' = "rotated" => t \in DOMAIN session)
  BY RotateCarries DEF Refresh, AuthInv
<1>2. CASE reply' = "rotated"
  <2>1. session[t].user \in Users /\ password[session[t].user] # None
    BY <1>1, <1>2 DEF AuthInv, TypeOK, RowInv, Store!TypeOK, Store!IsMap
  <2>2. PICK m \in Tasks : m = [at |-> "find", user |-> session[t].user]
    BY <2>1, TaskKinds
  <2>3. Goto(r, m) /\ task[r] = Idle /\ m.at = "find" /\ m.user = session[t].user
    BY <1>2, <2>2 DEF Refresh, Start
  <2>4. QED
    BY <1>1, <2>1, <2>3, TaskStep DEF Refresh, Idle, AuthInv, TypeOK, history, EvidenceTyped
<1>3. CASE reply' # "rotated"
  BY <1>1, <1>3, IdleStep DEF Refresh, AuthInv, TypeOK, rows, redis, history, EvidenceTyped
<1>4. QED
  BY <1>2, <1>3

LEMMA SignupStep ==
    ASSUME AuthInv, NEW r \in Requests, NEW u \in Users, NEW p \in Passwords, Signup(r, u, p)
    PROVE  AuthInv'
<1>1. PICK m \in Tasks : m = [at |-> "issue", user |-> u, pw |-> p]
  BY TaskKinds
<1>2. /\ Goto(r, m) /\ task[r] = Idle /\ m.at = "issue" /\ m.user = u
      /\ password[u] = None /\ p # None
      /\ password' = [password EXCEPT ![u] = p] /\ active' = active \union {u}
      /\ UNCHANGED <<store, redis, history, access>>
  BY <1>1, AuthAssumption DEF Signup, Start
<1>3. password \in [Users -> Passwords \union {None}]
  BY DEF AuthInv, TypeOK
<1>4. /\ password' \in [Users -> Passwords \union {None}]
      /\ password'[u] = p
      /\ \A v \in Users : v # u => password'[v] = password[v]
  BY <1>2, <1>3
<1>5. Moved(r, m)
  BY <1>2, GotoMoves DEF AuthInv
<1>6. RowsStay /\ TasksHaveRows'
  BY <1>2, <1>4, <1>5, MovedHasRow DEF RowsStay, AuthInv
<1>7. \A v \in Users : Pending(v) => Pending(v)'
  BY <1>2, <1>5 DEF Moved, Pending, Revoking, Owing, history, Idle
<1>8. \A v \in Users : Accounted(v)
  BY <1>2, <1>4, <1>7 DEF Accounted
<1>9. \A v \in active' : v \in Users /\ password'[v] # None
  BY <1>2, <1>4 DEF AuthInv, TypeOK, RowInv
<1>10. Carried
  BY <1>2, StoreRests DEF AuthInv
<1>11. Plain
  BY <1>2, <1>4, <1>5, <1>6, <1>8, <1>9, <1>10
     DEF Plain, Moved, redis, history, EvidenceTyped, AuthInv, TypeOK
<1>12. \A q \in Requests : Spending(q)' => Spending(q) /\ task'[q].key = task[q].key
  BY <1>2, <1>5 DEF Moved, Spending
<1>13. QED
  BY <1>11, <1>12, PlainQuietStep

\* The user's revocation is pending from the write on.
LEMMA WritePasswordStep ==
    ASSUME AuthInv, NEW r \in Requests, WritePassword(r)
    PROVE  AuthInv'
<1>1. /\ task[r] \in Tasks /\ task[r].at = "write" /\ task[r] # Idle
      /\ task[r].user \in Users /\ task[r].new \in Passwords
      /\ task[r].key \in ResetTokens \union {None}
      /\ task[r] = [at |-> "write", user |-> task[r].user, new |-> task[r].new,
                    key |-> task[r].key]
  BY TaskFields DEF WritePassword, AuthInv, TypeOK, Idle
<1>2. PICK u \in Users : u = task[r].user
  BY <1>1
<1>3. PICK m \in Tasks :
          m = [at |-> "revoke", user |-> u, new |-> task[r].new, key |-> task[r].key]
  BY <1>1, TaskKinds
<1>4. [task[r] EXCEPT !.at = "revoke"] = m
  BY <1>1, <1>2, <1>3
<1>5. /\ Goto(r, m) /\ m.at = "revoke" /\ m.user = u /\ m.key = task[r].key
      /\ UNCHANGED <<store, active, redis, by, raced, unrevoked, presented, access>>
      /\ proven' = proven \ {r}
  BY <1>3, <1>4 DEF WritePassword
<1>6. /\ password' \in [Users -> Passwords \union {None}]
      /\ password'[u] # None
      /\ \A v \in Users : v # u => password'[v] = password[v]
  BY <1>1, <1>2, AuthAssumption DEF WritePassword, AuthInv, TypeOK
<1>7. Moved(r, m)
  BY <1>5, GotoMoves DEF AuthInv
<1>8. RowsStay /\ TasksHaveRows'
  BY <1>5, <1>6, <1>7, MovedHasRow DEF RowsStay, AuthInv
<1>9. Pending(u)'
  BY <1>5, <1>7 DEF Moved, Pending, Revoking, Owing
<1>10. \A v \in Users : Pending(v) => Pending(v)'
  BY <1>1, <1>5, <1>7 DEF Moved, Pending, Revoking, Owing
<1>11. \A v \in Users : Accounted(v)
  BY <1>6, <1>9, <1>10 DEF Accounted
<1>12. \A v \in active' : password'[v] # None
  BY <1>5, <1>8 DEF RowsStay, AuthInv, TypeOK, RowInv
<1>13. Carried
  BY <1>5, StoreRests DEF AuthInv
<1>14. Plain
  BY <1>5, <1>6, <1>7, <1>8, <1>11, <1>12, <1>13
     DEF Plain, Moved, redis, EvidenceTyped, AuthInv, TypeOK
<1>15. \A q \in Requests : Spending(q)' => Spending(q) /\ task'[q].key = task[q].key
  BY <1>1, <1>5, <1>7 DEF Moved, Spending
<1>16. QED
  BY <1>14, <1>15, PlainQuietStep

LEMMA RevocationEffect ==
    ASSUME AuthInv, NEW u \in Users, RevokeSessions(u)
    PROVE  Carried /\ Revoked(u)' /\ unrevoked' = unrevoked \ {u}
BY RevokeListedCarries DEF RevokeSessions, AuthInv

\* A handler revokes its user's sessions and goes on without a reset token.
LEMMA RevokingStep ==
    ASSUME AuthInv, NEW r \in Requests, NEW m \in Tasks, Goto(r, m), task[r] # Idle,
           RevokeSessions(task[r].user),
           m # Idle => m.user = task[r].user,
           m.at \notin {"write", "revoke"},
           UNCHANGED <<rows, redis, by, raced, presented, proven, access>>
    PROVE  AuthInv'
<1>1. PICK u \in Users : u = task[r].user
  BY TaskFields DEF AuthInv, TypeOK
<1>2. Carried /\ Revoked(u)' /\ unrevoked' = unrevoked \ {u}
  BY <1>1, RevocationEffect
<1>3. Moved(r, m)
  BY GotoMoves DEF AuthInv
<1>4. RowsStay /\ TasksHaveRows'
  BY <1>3, MovedHasRow DEF RowsStay, rows, AuthInv, TypeOK
<1>5. \A v \in Users : v # u => (Pending(v) => Pending(v)')
  BY <1>1, <1>2, <1>3 DEF Moved, Pending, Revoking, Owing
<1>6. \A v \in Users : Accounted(v)
  BY <1>2, <1>5 DEF Accounted, rows
<1>7. Plain
  BY <1>2, <1>3, <1>4, <1>6 DEF Plain, Moved, rows, redis, EvidenceTyped, AuthInv, TypeOK, RowInv
<1>8. \A q \in Requests : Spending(q)' => Spending(q) /\ task'[q].key = task[q].key
  BY <1>3 DEF Moved, Spending
<1>9. QED
  BY <1>7, <1>8, PlainQuietStep

LEMMA RevokeAfterWriteStep ==
    ASSUME AuthInv, NEW r \in Requests, RevokeAfterWrite(r)
    PROVE  AuthInv'
<1>1. /\ task[r] \in Tasks /\ task[r].at = "revoke" /\ task[r] # Idle
      /\ task[r].user \in Users /\ task[r].new \in Passwords
  BY TaskFields DEF RevokeAfterWrite, AuthInv, TypeOK, Idle
<1>2. CASE task[r].key = None
  <2>1. PICK m \in Tasks : m = [at |-> "issue", user |-> task[r].user, pw |-> task[r].new]
    BY <1>1, TaskKinds
  <2>2. Goto(r, m) /\ m.at = "issue" /\ m.user = task[r].user
    BY <1>2, <2>1 DEF RevokeAfterWrite
  <2>3. QED
    BY <1>1, <2>2, RevokingStep DEF RevokeAfterWrite
<1>3. CASE task[r].key # None
  <2>1. Goto(r, Idle) /\ Idle \in Tasks /\ Idle.at = "idle"
    BY <1>3, TaskKinds DEF RevokeAfterWrite, Idle
  <2>2. QED
    BY <1>1, <2>1, RevokingStep DEF RevokeAfterWrite
<1>4. QED
  BY <1>2, <1>3

LEMMA PurgeStep ==
    ASSUME AuthInv, NEW r \in Requests, Purge(r)
    PROVE  AuthInv'
<1>1. Goto(r, Idle) /\ Idle \in Tasks /\ Idle.at = "idle" /\ task[r] # Idle
  BY TaskKinds DEF Purge, Idle
<1>2. QED
  BY <1>1, RevokingStep DEF Purge

\* The token leaves the store for the handler that spends it.
LEMMA ResetStep ==
    ASSUME AuthInv, NEW r \in Requests, NEW k \in ResetTokens, NEW q \in Passwords, Reset(r, k, q)
    PROVE  AuthInv'
<1>1. /\ k \in DOMAIN resets /\ k \in DOMAIN mailed /\ k # None
      /\ resets[k] \in Users /\ password[resets[k]] # None
  BY AuthAssumption DEF Reset, AuthInv, TypeOK, IsMap, KeyInv, RowInv
<1>2. PICK u \in Users : u = resets[k]
  BY <1>1
<1>3. PICK m \in Tasks : m = [at |-> "write", user |-> u, new |-> q, key |-> k]
  BY TaskKinds
<1>4. /\ Goto(r, m) /\ task[r] = Idle /\ m.at = "write" /\ m.user = u /\ m.key = k
      /\ resets' = Drop(resets, {k})
      /\ presented' = presented \union {k} /\ proven' \in {proven, proven \union {r}}
      /\ UNCHANGED <<store, rows, mailed, by, raced, unrevoked, access>>
  BY <1>2, <1>3 DEF Reset, Start, RecordReset
<1>5. Moved(r, m)
  BY <1>4, GotoMoves DEF AuthInv
<1>6. RowsStay /\ TasksHaveRows'
  BY <1>1, <1>2, <1>4, <1>5, MovedHasRow DEF RowsStay, rows, AuthInv
<1>7. \A v \in Users : Accounted(v)
  BY <1>4, <1>5 DEF Moved, Accounted, Pending, Revoking, Owing, rows, Idle
<1>8. Carried
  BY <1>4, StoreRests DEF AuthInv
<1>9. Plain
  BY <1>4, <1>5, <1>6, <1>7, <1>8 DEF Plain, Moved, rows, EvidenceTyped, AuthInv, TypeOK, RowInv
<1>10. TypeOK' /\ StoreInv' /\ RowInv' /\ StaleSessionsAreExplained'
  BY <1>9, PlainStep
<1>11. DOMAIN resets' = DOMAIN resets \ {k}
  BY <1>4 DEF Drop, Restrict
<1>12. \A x \in Requests : x # r => task'[x] = task[x]
  BY <1>5 DEF Moved
<1>13. /\ \A x \in Requests : Spending(x) => x # r /\ task[x].key # k
       /\ task'[r] = m
  BY <1>1, <1>4, <1>5 DEF AuthInv, ResetTokenSpentOnce, Spending, Idle, Moved
<1>14. KeyInv'
  BY <1>1, <1>4, <1>11, <1>12, <1>13 DEF AuthInv, KeyInv, Spending
<1>15. ResetTokenSpentOnce'
  <2>1. SUFFICES ASSUME NEW x \in Requests, task'[x].at \in {"write", "revoke"},
                        task'[x].key # None
                 PROVE  /\ task'[x].key \notin DOMAIN resets'
                        /\ \A y \in Requests \ {x} :
                               task'[y].at \in {"write", "revoke"} => task'[y].key # task'[x].key
    BY DEF ResetTokenSpentOnce
  <2>2. CASE x = r
    <3>1. task'[x].key = k
      BY <1>4, <1>13, <2>2
    <3>2. \A y \in Requests \ {x} : task'[y].at \in {"write", "revoke"} => task'[y].key # k
      BY <1>1, <1>12, <1>13, <2>2 DEF Spending
    <3>3. QED
      BY <1>11, <3>1, <3>2
  <2>3. CASE x # r
    <3>1. Spending(x) /\ task'[x] = task[x] /\ task[x].key # k
      BY <1>12, <1>13, <2>1, <2>3 DEF Spending
    <3>2. /\ task[x].key \notin DOMAIN resets
          /\ \A y \in Requests \ {x} :
                 task[y].at \in {"write", "revoke"} => task[y].key # task[x].key
      BY <3>1 DEF AuthInv, ResetTokenSpentOnce, Spending
    <3>3. \A y \in Requests \ {x} :
              task'[y].at \in {"write", "revoke"} => task'[y].key # task[x].key
      BY <1>4, <1>12, <1>13, <3>1, <3>2
    <3>4. QED
      BY <1>11, <3>1, <3>2, <3>3
  <2>4. QED
    BY <2>2, <2>3
<1>16. QED
  BY <1>10, <1>14, <1>15 DEF AuthInv

\* A token that was never mailed is stored.
LEMMA StoreResetTokenStep ==
    ASSUME AuthInv, NEW r \in Requests, StoreResetToken(r)
    PROVE  AuthInv'
<1>1. /\ task[r] \in Tasks /\ task[r].at = "mail" /\ task[r].user \in Users
      /\ password[task[r].user] # None
  BY TaskFields DEF StoreResetToken, AuthInv, TypeOK, Idle
<1>2. PICK k \in ResetTokens \ DOMAIN mailed :
          resets' = Put(resets, k, task[r].user) /\ mailed' = Put(mailed, k, task[r].user)
  BY DEF StoreResetToken
<1>3. Goto(r, Idle) /\ Idle \in Tasks /\ Idle.at = "idle" /\ UNCHANGED <<store, rows, history, access>>
  BY TaskKinds DEF StoreResetToken, Idle
<1>4. Moved(r, Idle)
  BY <1>3, GotoMoves DEF AuthInv
<1>5. RowsStay /\ TasksHaveRows'
  BY <1>3, <1>4, MovedHasRow DEF RowsStay, rows, AuthInv
<1>6. \A v \in Users : Accounted(v)
  BY <1>1, <1>3, <1>4 DEF Moved, Accounted, Pending, Revoking, Owing, rows, history
<1>7. Carried
  BY <1>3, StoreRests DEF AuthInv
<1>8. StaleSessionsAreExplained'
  BY <1>3, <1>6, <1>7, StaleKept DEF AuthInv, history
<1>9. /\ DOMAIN resets' = DOMAIN resets \union {k}
      /\ resets'[k] = task[r].user
      /\ \A x \in DOMAIN resets : resets'[x] = resets[x]
      /\ IsMap(resets', ResetTokens, Users)
      /\ DOMAIN mailed' = DOMAIN mailed \union {k} /\ IsMap(mailed', ResetTokens, Users)
  BY <1>1, <1>2 DEF Put, AuthInv, TypeOK, KeyInv, IsMap
<1>10. TypeOK'
  BY <1>2, <1>3, <1>4, <1>5, <1>7, <1>9
     DEF AuthInv, TypeOK, Carried, Moved, TasksHaveRows, rows, history
<1>11. RowInv'
  BY <1>1, <1>3, <1>9 DEF AuthInv, RowInv, rows, store
<1>12. \A q \in Requests : Spending(q)' => Spending(q) /\ task'[q] = task[q]
  BY <1>3, <1>4 DEF Moved, Spending
<1>13. KeyInv'
  BY <1>2, <1>9, <1>12 DEF AuthInv, KeyInv
<1>14. ResetTokenSpentOnce'
  <2>1. SUFFICES ASSUME NEW x \in Requests, Spending(x)'
                 PROVE  /\ task'[x].key \notin DOMAIN resets'
                        /\ \A y \in Requests \ {x} :
                               task'[y].at \in {"write", "revoke"} => task'[y].key # task'[x].key
    BY DEF ResetTokenSpentOnce, Spending
  <2>2. Spending(x) /\ task'[x] = task[x] /\ task[x].key \in DOMAIN mailed
    BY <1>12, <2>1 DEF AuthInv, KeyInv
  <2>3. /\ task[x].key \notin DOMAIN resets
        /\ \A y \in Requests \ {x} :
               task[y].at \in {"write", "revoke"} => task[y].key # task[x].key
    BY <2>2 DEF AuthInv, ResetTokenSpentOnce, Spending
  <2>4. \A y \in Requests \ {x} :
            task'[y].at \in {"write", "revoke"} => task'[y].key # task[x].key
    BY <1>3, <1>4, <2>3 DEF Moved
  <2>5. QED
    BY <1>9, <2>2, <2>3, <2>4
<1>15. QED
  BY <1>7, <1>8, <1>10, <1>11, <1>13, <1>14 DEF AuthInv, Carried

\* The new family is explained by its own login: either it was opened with the
\* password the user has, or it raced.
LEMMA IssueForStep ==
    ASSUME AuthInv, NEW r \in Requests, IssueFor(r)
    PROVE  AuthInv'
<1>1. /\ task[r] \in Tasks /\ task[r].at = "issue" /\ task[r].user \in Users
      /\ task[r].pw \in Passwords /\ password[task[r].user] # None
  BY TaskFields DEF IssueFor, AuthInv, TypeOK, Idle
<1>2. PICK u \in Users, pw \in Passwords : u = task[r].user /\ pw = task[r].pw
  BY <1>1
<1>3. PICK f \in Families, n \in Tokens :
          /\ Store!CreateSession(u, f, n)
          /\ by' = Put(by, f, pw)
          /\ raced' = IF password[u] = pw THEN raced ELSE raced \union {f}
  BY <1>2 DEF IssueFor
<1>4. /\ Goto(r, Idle) /\ Idle \in Tasks /\ Idle.at = "idle"
      /\ UNCHANGED <<rows, redis, unrevoked, presented, proven>> /\ access' = access \union {u}
  BY <1>2, TaskKinds DEF IssueFor, Idle
<1>5. Moved(r, Idle)
  BY <1>4, GotoMoves DEF AuthInv
<1>6. RowsStay /\ TasksHaveRows'
  BY <1>4, <1>5, MovedHasRow DEF RowsStay, rows, AuthInv
<1>7. /\ f \notin DOMAIN opener /\ n \notin minted /\ minted' = minted \union {n}
      /\ opener' = Store!Put(opener, f, n) /\ reply' \in Store!Replies
      /\ session' = Store!Put(session, n, [family |-> f, user |-> u, used |-> FALSE])
  BY <1>3 DEF Store!CreateSession, Store!Replies
<1>8. /\ session \in [DOMAIN session -> [family : Families, user : Users, used : BOOLEAN]]
      /\ DOMAIN session \subseteq Tokens /\ DOMAIN session \subseteq minted
      /\ opener \in [DOMAIN opener -> Tokens] /\ DOMAIN opener \subseteq Families
      /\ minted \subseteq Tokens
      /\ by \in [DOMAIN opener -> Passwords] /\ raced \subseteq DOMAIN opener
  BY DEF AuthInv, TypeOK, StoreInv, Store!TypeOK, Store!IsMap
<1>9. /\ DOMAIN session' = DOMAIN session \union {n}
      /\ session'[n] = [family |-> f, user |-> u, used |-> FALSE]
      /\ \A s \in DOMAIN session : session'[s] = session[s]
      /\ session' \in [DOMAIN session' -> [family : Families, user : Users, used : BOOLEAN]]
  BY <1>7, <1>8 DEF Store!Put
<1>10. /\ DOMAIN opener' = DOMAIN opener \union {f}
       /\ opener'[f] = n
       /\ \A g \in DOMAIN opener : opener'[g] = opener[g]
       /\ opener' \in [DOMAIN opener' -> Tokens]
  BY <1>7, <1>8 DEF Store!Put
<1>11. /\ by' \in [DOMAIN opener' -> Passwords]
       /\ by'[f] = pw
       /\ \A g \in DOMAIN opener : by'[g] = by[g]
  BY <1>3, <1>7, <1>8, <1>10 DEF Put
<1>12. /\ raced \subseteq raced' /\ raced' \subseteq DOMAIN opener'
       /\ password[u] # pw => f \in raced'
  BY <1>3, <1>8, <1>10
<1>13. Store!TypeOK'
  <2>1. Store!IsMap(session', Tokens, [family : Families, user : Users, used : BOOLEAN])
    BY <1>8, <1>9 DEF Store!IsMap
  <2>2. Store!IsMap(opener', Families, Tokens)
    BY <1>8, <1>10 DEF Store!IsMap
  <2>3. minted' \in SUBSET Tokens /\ reply' \in Store!Replies
    BY <1>7, <1>8
  <2>4. QED
    BY <2>1, <2>2, <2>3 DEF Store!TypeOK
<1>14. StoreInv'
  <2>1. DOMAIN session' \subseteq minted' /\ minted' = minted \union {n}
    BY <1>7, <1>8, <1>9
  <2>2. \A g \in DOMAIN opener' : opener'[g] \in minted'
    BY <1>10, <2>1 DEF AuthInv, StoreInv
  <2>3. \A t \in DOMAIN session' : session'[t].family \in DOMAIN opener'
    <3>1. session'[n].family = f
      BY <1>9
    <3>2. QED
      BY <1>9, <1>10, <3>1 DEF AuthInv, StoreInv
  <2>4. QED
    BY <2>1, <2>2, <2>3 DEF StoreInv
<1>15. TypeOK'
  BY <1>4, <1>5, <1>6, <1>11, <1>12, <1>13
     DEF AuthInv, TypeOK, Moved, TasksHaveRows, rows, redis
<1>16. RowInv'
  BY <1>1, <1>2, <1>4, <1>9 DEF AuthInv, RowInv, rows, redis
<1>17. KeysKept
  BY <1>4, <1>5 DEF KeysKept, Moved, Spending, redis
<1>18. KeyInv' /\ ResetTokenSpentOnce'
  BY <1>17, KeyKept DEF AuthInv
<1>19. \A v \in Users : Pending(v) => Pending(v)'
  BY <1>1, <1>4, <1>5 DEF Moved, Pending, Revoking, Owing
<1>20. StaleSessionsAreExplained'
  <2>1. SUFFICES ASSUME NEW t \in DOMAIN session', NEW g, NEW v,
                        g = session'[t].family, v = session'[t].user,
                        by'[g] # password'[v], g \notin raced'
                 PROVE  Pending(v)' \/ ~Store!Remembered(g)'
    <3>1. SUFFICES ASSUME NEW t \in DOMAIN session'
                   PROVE  by'[session'[t].family] # password'[session'[t].user] =>
                              \/ session'[t].family \in raced'
                              \/ session'[t].user \in (Owing(Requests))' \union unrevoked'
                              \/ ~(/\ session'[t].family \in DOMAIN opener'
                                   /\ opener'[session'[t].family] \in DOMAIN session')
      BY DEF StaleSessionsAreExplained, Revoking, Store!Remembered
    <3>2. PICK g, v : g = session'[t].family /\ v = session'[t].user
      OBVIOUS
    <3>3. QED
      BY <2>1, <3>2 DEF Pending, Revoking, Store!Remembered
  <2>2. t \in DOMAIN session
    BY <1>4, <1>9, <1>11, <1>12, <2>1 DEF rows
  <2>3. /\ g = session[t].family /\ v = session[t].user
        /\ g \in DOMAIN opener /\ v \in Users /\ opener[g] \in minted
    BY <1>8, <1>9, <2>1, <2>2 DEF AuthInv, StoreInv
  <2>4. by[g] # password[v] /\ g \notin raced
    BY <1>4, <1>11, <1>12, <2>1, <2>3 DEF rows
  <2>5. Pending(v) \/ ~Store!Remembered(g)
    BY <2>2, <2>3, <2>4 DEF AuthInv, StaleSessionsAreExplained, Pending
  <2>6. Store!Remembered(g)' => Store!Remembered(g)
    BY <1>7, <1>9, <1>10, <2>3 DEF Store!Remembered
  <2>7. QED
    BY <1>19, <2>3, <2>5, <2>6
<1>21. QED
  BY <1>14, <1>15, <1>16, <1>18, <1>20 DEF AuthInv

----------------------------------------------------------------------------
(* Around the handlers                                                     *)

LEMMA OuterStep ==
    ASSUME AuthInv,
           \/ \E t \in Tokens : Logout(t)
           \/ \E u \in Users : LogoutAll(u) \/ ExpireAccess(u) \/ Disable(u)
           \/ \E k \in ResetTokens : ExpireReset(k)
           \/ \E T \in SUBSET Tokens : ExpireSessions(T)
    PROVE  AuthInv'
<1> USE DEF rows, redis, history, EvidenceTyped
<1>1. ASSUME NEW t \in Tokens, Logout(t)
      PROVE  AuthInv'
  BY <1>1, RevokeCarries, IdleStep DEF Logout, AuthInv, TypeOK
<1>2. ASSUME NEW u \in Users, LogoutAll(u)
      PROVE  AuthInv'
  <2>1. Carried /\ Revoked(u)' /\ unrevoked' = unrevoked \ {u}
    BY <1>2, RevocationEffect DEF LogoutAll
  <2>2. \A v \in Users : v \in unrevoked => v \in unrevoked' \/ Revoked(v)'
    BY <2>1
  <2>3. QED
    BY <1>2, <2>1, <2>2, IdleStep DEF LogoutAll, AuthInv, TypeOK
<1>3. ASSUME NEW u \in Users, ExpireAccess(u) \/ Disable(u)
      PROVE  AuthInv'
  BY <1>3, StoreRests, IdleStep DEF ExpireAccess, Disable, AuthInv, TypeOK
<1>4. ASSUME NEW k \in ResetTokens, ExpireReset(k)
      PROVE  AuthInv'
  <2>1. \E K \in SUBSET ResetTokens : resets' = Drop(resets, K)
    BY <1>4 DEF ExpireReset
  <2>2. QED
    BY <1>4, <2>1, StoreRests, IdleStep DEF ExpireReset, AuthInv, TypeOK
<1>5. ASSUME NEW T \in SUBSET Tokens, ExpireSessions(T)
      PROVE  AuthInv'
  BY <1>5, FadeCarries, IdleStep DEF ExpireSessions, AuthInv, TypeOK
<1>6. QED
  BY <1>1, <1>2, <1>3, <1>4, <1>5

\* A handler that ends early leaves its revocation undone.
LEMMA FailStep ==
    ASSUME AuthInv, NEW r \in Requests, Fail(r)
    PROVE  AuthInv'
<1>1. Goto(r, Idle) /\ Idle \in Tasks /\ Idle.at = "idle"
  BY TaskKinds DEF Fail, Idle
<1>2. Moved(r, Idle)
  BY <1>1, GotoMoves DEF AuthInv
<1>3. RowsStay /\ TasksHaveRows'
  BY <1>1, <1>2, MovedHasRow DEF Fail, RowsStay, rows, AuthInv
<1>4. unrevoked' \in SUBSET Users
  BY TaskFields DEF Fail, Owing, AuthInv, TypeOK, Idle
<1>5. \A v \in Users : Pending(v) => Pending(v)'
  BY <1>2 DEF Fail, Moved, Pending, Revoking, Owing
<1>6. Carried
  BY StoreRests DEF Fail, AuthInv
<1>7. Plain
  BY <1>2, <1>3, <1>4, <1>5, <1>6
     DEF Fail, Plain, Moved, Accounted, rows, redis, EvidenceTyped, AuthInv, TypeOK, RowInv
<1>8. \A q \in Requests : Spending(q)' => Spending(q) /\ task'[q].key = task[q].key
  BY <1>1, <1>2 DEF Moved, Spending
<1>9. QED
  BY <1>7, <1>8, PlainQuietStep

\* The seed overwrites passwords without a revocation.
LEMMA RestartStep ==
    ASSUME AuthInv, Restart
    PROVE  AuthInv'
<1>1. /\ task' = [r \in Requests |-> Idle] /\ Idle \in Tasks /\ Idle.at = "idle"
      /\ unrevoked' = unrevoked \union Owing(Requests)
                      \union {u \in SeedUsers : password[u] \notin {None, SeedPassword}}
      /\ UNCHANGED <<store, redis, by, raced, presented, access>> /\ proven' = {}
  BY TaskKinds DEF Restart, Idle
<1>2. /\ password' \in [Users -> Passwords \union {None}]
      /\ \A u \in SeedUsers : u \in Users /\ password'[u] = SeedPassword
      /\ \A u \in Users \ SeedUsers : password'[u] = password[u]
      /\ active' = active \union SeedUsers
  BY AuthAssumption DEF Restart, AuthInv, TypeOK
<1>3. RowsStay /\ TasksHaveRows' /\ \A u \in active' : password'[u] # None
  BY <1>1, <1>2, AuthAssumption DEF RowsStay, TasksHaveRows, AuthInv, TypeOK, RowInv
<1>4. unrevoked' \in SUBSET Users
  BY <1>1, <1>2, TaskFields DEF Owing, AuthInv, TypeOK, Idle
<1>5. \A v \in Users : Pending(v) => Pending(v)'
  BY <1>1 DEF Pending, Revoking
<1>6. \A v \in Users : Accounted(v)
  BY <1>1, <1>2, <1>5 DEF Accounted, Pending
<1>7. Carried
  BY <1>1, StoreRests DEF AuthInv
<1>8. Plain
  BY <1>1, <1>2, <1>3, <1>4, <1>6, <1>7, AuthAssumption
     DEF Plain, redis, EvidenceTyped, AuthInv, TypeOK
<1>9. QED
  BY <1>1, <1>8, PlainQuietStep DEF Spending

----------------------------------------------------------------------------
(* The theorems                                                            *)

LEMMA AuthStep ==
    ASSUME AuthInv, [Next]_vars
    PROVE  AuthInv'
<1>1. ASSUME NEW r \in Requests, Handle(r)
      PROVE  AuthInv'
  BY <1>1, LoginStep, SignupStep, ChangePasswordStep, RefreshStep, RequestResetStep, ResetStep,
     IssueForStep, CheckCurrentStep, WritePasswordStep, RevokeAfterWriteStep, FindUserStep,
     PurgeStep, StoreResetTokenStep
     DEF Handle
<1>2. CASE Serve
  BY <1>1, <1>2, OuterStep DEF Serve
<1>3. CASE Restart
  BY <1>3, RestartStep
<1>4. ASSUME NEW r \in Requests, Fail(r)
      PROVE  AuthInv'
  BY <1>4, FailStep
<1>5. CASE UNCHANGED vars
  BY <1>5, StoreRests, IdleStep DEF vars, store, AuthInv, TypeOK, EvidenceTyped
<1>6. QED
  BY <1>2, <1>3, <1>4, <1>5 DEF Next

LEMMA InitSound == Init => AuthInv
<1> SUFFICES ASSUME Init
             PROVE  AuthInv
  OBVIOUS
<1> USE DEF Init, EmptyMap, Store!Init, Store!EmptyMap
<1>1. \A r \in Requests : task[r] = Idle /\ task[r].at = "idle" /\ task[r] \in Tasks
  BY TaskKinds DEF Idle
<1>2. /\ password \in [Users -> Passwords \union {None}]
      /\ \A u \in active : u \in Users /\ password[u] # None
  BY AuthAssumption
<1>3. TypeOK
  BY <1>1, <1>2, AuthAssumption DEF TypeOK, IsMap, Store!TypeOK, Store!IsMap, Store!Replies
<1>4. StoreInv /\ RowInv /\ KeyInv
  BY <1>1, <1>2 DEF StoreInv, RowInv, KeyInv, Spending
<1>5. ResetTokenSpentOnce /\ StaleSessionsAreExplained
  BY <1>1 DEF ResetTokenSpentOnce, StaleSessionsAreExplained
<1>6. QED
  BY <1>3, <1>4, <1>5 DEF AuthInv

\* The inductive invariant of the authentication flows.
THEOREM AuthSound == Spec => []AuthInv
<1>1. Init => AuthInv
  BY InitSound
<1>2. AuthInv /\ [Next]_vars => AuthInv'
  BY AuthStep
<1>3. QED
  BY <1>1, <1>2, PTL DEF Spec

\* Every handler works for a user with a row, on values of its kind.
THEOREM TypeCorrect == Spec => []TypeOK
<1>1. AuthInv => TypeOK
  BY DEF AuthInv
<1>2. QED
  BY <1>1, AuthSound, PTL

\* However the requests that present a reset token interleave, one handler at
\* most has it, and then the store has not.
THEOREM ResetTokensSpentOnce == Spec => []ResetTokenSpentOnce
<1>1. AuthInv => ResetTokenSpentOnce
  BY DEF AuthInv
<1>2. QED
  BY <1>1, AuthSound, PTL

\* A live session opened under a password that is no longer the user's raced
\* with the change, or its revocation is to come or was lost, or the store has
\* forgotten the token its login received.
THEOREM StaleSessionsExplained == Spec => []StaleSessionsAreExplained
<1>1. AuthInv => StaleSessionsAreExplained
  BY DEF AuthInv
<1>2. QED
  BY <1>1, AuthSound, PTL

\* While nothing fails and nothing restarts no revocation is lost, and a stale
\* session raced with the change, is about to be revoked, or was forgotten by
\* the store: the two ways left to outlive a finished password change.
FaultFreeExplained ==
    /\ unrevoked = {}
    /\ \A t \in DOMAIN session :
           LET f == session[t].family
               u == session[t].user
           IN  by[f] # password[u] => f \in raced \/ Revoking(u) \/ ~Store!Remembered(f)

THEOREM FaultFreeStaleness == FaultFreeSpec => []FaultFreeExplained
<1> DEFINE NoneLost == unrevoked = {}
<1>1. Init => AuthInv /\ NoneLost
  BY InitSound DEF Init
<1>2. AuthInv /\ NoneLost /\ [Serve]_vars => (AuthInv /\ NoneLost)'
  <2> SUFFICES ASSUME AuthInv, NoneLost, [Serve]_vars
               PROVE  AuthInv' /\ NoneLost'
    OBVIOUS
  <2>1. AuthInv'
    BY AuthStep DEF Next
  <2>2. ASSUME NEW u \in Users, RevokeSessions(u)
        PROVE  NoneLost'
    BY <2>2 DEF RevokeSessions
  <2>3. ASSUME NEW r \in Requests, RevokeAfterWrite(r) \/ Purge(r)
        PROVE  NoneLost'
    BY <2>3 DEF RevokeAfterWrite, Purge, RevokeSessions
  <2>4. ASSUME NEW r \in Requests, Handle(r)
        PROVE  NoneLost'
    BY <2>3, <2>4
       DEF Handle, history, Login, Signup, ChangePassword, Refresh, RequestReset, Reset, IssueFor,
           CheckCurrent, RecordCheck, RecordReset, WritePassword, FindUser, StoreResetToken
  <2>5. ASSUME Serve
        PROVE  NoneLost'
    BY <2>2, <2>4, <2>5
       DEF Serve, history, Logout, LogoutAll, ExpireAccess, Disable, ExpireReset, ExpireSessions
  <2>6. ASSUME UNCHANGED vars
        PROVE  NoneLost'
    BY <2>6 DEF vars
  <2>7. QED
    BY <2>1, <2>5, <2>6
<1>3. AuthInv /\ NoneLost => FaultFreeExplained
  BY DEF AuthInv, StaleSessionsAreExplained, FaultFreeExplained
<1>4. QED
  BY <1>1, <1>2, <1>3, PTL DEF FaultFreeSpec

----------------------------------------------------------------------------
(* Who changes a password                                                  *)

\* The handlers at their write are those whose caller has shown the current
\* password or a reset token: a token in the store is the one mailed to its
\* user, and nobody has presented it.
EvidenceInv ==
    /\ \A k \in DOMAIN resets : mailed[k] = resets[k] /\ k \notin presented
    /\ presented \subseteq DOMAIN mailed
    /\ \A r \in Requests : task[r].at = "write" <=> r \in proven

LEMMA GotoOne ==
    ASSUME AuthInv, NEW r \in Requests, NEW m, Goto(r, m)
    PROVE  task'[r] = m /\ \A q \in Requests : q # r => task'[q] = task[q]
BY DEF AuthInv, TypeOK, Goto

\* No handler comes to its write or leaves it, and at most reset tokens expire.
LEMMA EvidenceRests ==
    ASSUME EvidenceInv, UNCHANGED <<mailed, presented, proven>>,
           resets' = resets \/ \E K \in SUBSET ResetTokens : resets' = Drop(resets, K),
           \A q \in Requests : task'[q].at = "write" <=> task[q].at = "write"
    PROVE  EvidenceInv'
<1>1. \A k \in DOMAIN resets' : k \in DOMAIN resets /\ resets'[k] = resets[k]
  BY DEF Drop, Restrict
<1>2. QED
  BY <1>1 DEF EvidenceInv

LEMMA EvidenceAside ==
    ASSUME AuthInv, EvidenceInv, NEW r \in Requests, NEW m, Goto(r, m),
           task[r].at # "write", m.at # "write", UNCHANGED <<redis, presented, proven>>
    PROVE  EvidenceInv'
<1>1. \A q \in Requests : task'[q].at = "write" <=> task[q].at = "write"
  BY GotoOne
<1>2. QED
  BY <1>1, EvidenceRests DEF redis

LEMMA CheckEvidence ==
    ASSUME AuthInv, EvidenceInv, NEW r \in Requests, CheckCurrent(r)
    PROVE  EvidenceInv'
<1>1. r \notin proven /\ UNCHANGED <<redis, presented>>
  BY DEF CheckCurrent, RecordCheck, EvidenceInv
<1>2. CASE Verified(task[r].user, task[r].current)
  <2>1. PICK m : /\ Goto(r, m) /\ m.at = "write"
    BY <1>2 DEF CheckCurrent
  <2>2. proven' = proven \union {r}
    BY <1>2 DEF CheckCurrent, RecordCheck, Verified
  <2>3. \A q \in Requests : task'[q].at = "write" <=> q \in proven'
    BY <2>1, <2>2, GotoOne DEF EvidenceInv
  <2>4. QED
    BY <1>1, <2>3 DEF EvidenceInv, redis
<1>3. CASE ~Verified(task[r].user, task[r].current)
  <2>1. Goto(r, Idle) /\ Idle.at # "write" /\ proven' = proven /\ task[r].at # "write"
    BY <1>3 DEF CheckCurrent, RecordCheck, Verified, Idle
  <2>2. QED
    BY <1>1, <2>1, EvidenceAside
<1>4. QED
  BY <1>2, <1>3

LEMMA ResetEvidence ==
    ASSUME AuthInv, EvidenceInv, NEW r \in Requests, NEW k \in ResetTokens, NEW q \in Passwords,
           Reset(r, k, q)
    PROVE  EvidenceInv'
<1>1. k \in DOMAIN resets /\ k \in DOMAIN mailed /\ k \notin presented /\ mailed[k] = resets[k]
  BY DEF Reset, AuthInv, KeyInv, EvidenceInv
<1>2. /\ proven' = proven \union {r} /\ presented' = presented \union {k} /\ mailed' = mailed
  BY <1>1 DEF Reset, RecordReset
<1>3. PICK m : Goto(r, m) /\ m.at = "write"
  BY DEF Reset, Start
<1>4. DOMAIN resets' = DOMAIN resets \ {k} /\ \A x \in DOMAIN resets' : resets'[x] = resets[x]
  BY DEF Reset, Drop, Restrict
<1>5. \A x \in Requests : task'[x].at = "write" <=> x \in proven'
  BY <1>2, <1>3, GotoOne DEF EvidenceInv
<1>6. QED
  BY <1>1, <1>2, <1>4, <1>5 DEF EvidenceInv

LEMMA MailEvidence ==
    ASSUME AuthInv, EvidenceInv, NEW r \in Requests, StoreResetToken(r)
    PROVE  EvidenceInv'
<1>1. PICK k \in ResetTokens \ DOMAIN mailed :
          resets' = Put(resets, k, task[r].user) /\ mailed' = Put(mailed, k, task[r].user)
  BY DEF StoreResetToken
<1>2. \A q \in Requests : task'[q].at = "write" <=> task[q].at = "write"
  BY GotoOne DEF StoreResetToken, Idle
<1>3. UNCHANGED <<presented, proven>>
  BY DEF StoreResetToken, history
<1>4. \A x \in DOMAIN resets' :
          \/ x = k /\ mailed'[x] = resets'[x]
          \/ x # k /\ x \in DOMAIN resets /\ resets'[x] = resets[x] /\ mailed'[x] = mailed[x]
  BY <1>1 DEF Put, AuthInv, KeyInv
<1>5. presented' \subseteq DOMAIN mailed' /\ k \notin presented
  BY <1>1, <1>3 DEF Put, EvidenceInv
<1>6. QED
  BY <1>2, <1>3, <1>4, <1>5 DEF EvidenceInv

LEMMA WriteEvidence ==
    ASSUME AuthInv, EvidenceInv, NEW r \in Requests, WritePassword(r)
    PROVE  EvidenceInv' /\ task'[r] # task[r]
<1>1. task[r] \in Tasks /\ task[r].at = "write"
  BY DEF WritePassword, AuthInv, TypeOK
<1>2. task'[r].at = "revoke" /\ \A q \in Requests : q # r => task'[q] = task[q]
  BY <1>1, TaskFields, GotoOne DEF WritePassword
<1>3. \A q \in Requests : task'[q].at = "write" <=> q \in proven'
  BY <1>1, <1>2 DEF WritePassword, EvidenceInv
<1>4. QED
  BY <1>1, <1>2, <1>3 DEF WritePassword, EvidenceInv, redis

\* The steps on which a handler neither comes to its write nor leaves it.
LEMMA OtherEvidence ==
    ASSUME AuthInv, EvidenceInv, NEW r \in Requests,
           \/ \E u \in Users, p \in Passwords : Login(r, u, p) \/ Signup(r, u, p)
           \/ \E u \in Users, p, q \in Passwords : ChangePassword(r, u, p, q)
           \/ \E t \in Tokens : Refresh(r, t)
           \/ \E u \in Users : RequestReset(r, u)
           \/ IssueFor(r) \/ RevokeAfterWrite(r) \/ FindUser(r) \/ Purge(r)
    PROVE  EvidenceInv'
<1>1. UNCHANGED <<redis, presented, proven>>
  BY DEF Login, Signup, ChangePassword, Refresh, RequestReset, IssueFor, RevokeAfterWrite,
         FindUser, Purge, history
<1>2. CASE task' = task
  BY <1>1, <1>2, EvidenceRests DEF redis
<1>3. ASSUME NEW m, Start(r, m), m.at # "write"
      PROVE  EvidenceInv'
  BY <1>1, <1>3, EvidenceAside DEF Start, Idle
<1>4. ASSUME NEW m, task[r].at # "write", Goto(r, m), m.at # "write"
      PROVE  EvidenceInv'
  BY <1>1, <1>4, EvidenceAside
<1>5. Idle.at # "write"
  BY DEF Idle
<1>6. ASSUME NEW u \in Users, NEW p \in Passwords,
             \/ Login(r, u, p) \/ Signup(r, u, p) \/ RequestReset(r, u)
             \/ \E q \in Passwords : ChangePassword(r, u, p, q)
      PROVE  EvidenceInv'
  BY <1>3, <1>6 DEF Login, Signup, RequestReset, ChangePassword
<1>7. ASSUME NEW t \in Tokens, Refresh(r, t)
      PROVE  EvidenceInv'
  BY <1>2, <1>3, <1>7 DEF Refresh
<1>8. CASE FindUser(r)
  <2>1. task[r] \in Tasks /\ task[r].at = "find"
    BY <1>8 DEF FindUser, AuthInv, TypeOK
  <2>2. [task[r] EXCEPT !.at = "purge"].at = "purge"
    BY <2>1, TaskFields
  <2>3. QED
    BY <1>4, <1>5, <1>8, <2>1, <2>2 DEF FindUser
<1>9. CASE RevokeAfterWrite(r)
  BY <1>4, <1>5, <1>9 DEF RevokeAfterWrite
<1>10. CASE IssueFor(r) \/ Purge(r)
  BY <1>4, <1>5, <1>10 DEF IssueFor, Purge
<1>11. CASE \E u \in Users : RequestReset(r, u)
  BY <1>3, <1>11 DEF RequestReset
<1>12. QED
  BY <1>6, <1>7, <1>8, <1>9, <1>10, <1>11

LEMMA EvidenceStep ==
    ASSUME AuthInv, EvidenceInv, [Next]_vars
    PROVE  EvidenceInv'
<1>1. ASSUME NEW r \in Requests, Handle(r)
      PROVE  EvidenceInv'
  BY <1>1, CheckEvidence, ResetEvidence, MailEvidence, WriteEvidence, OtherEvidence DEF Handle
<1>2. ASSUME \/ \E t \in Tokens : Logout(t)
             \/ \E u \in Users : LogoutAll(u) \/ ExpireAccess(u) \/ Disable(u)
             \/ \E T \in SUBSET Tokens : ExpireSessions(T)
             \/ UNCHANGED vars
      PROVE  EvidenceInv'
  BY <1>2, EvidenceRests
     DEF Logout, LogoutAll, ExpireAccess, Disable, ExpireSessions, redis, history, vars
<1>3. ASSUME NEW k \in ResetTokens, ExpireReset(k)
      PROVE  EvidenceInv'
  BY <1>3, EvidenceRests DEF ExpireReset, history
<1>4. ASSUME NEW r \in Requests, Fail(r)
      PROVE  EvidenceInv'
  <2>1. \A q \in Requests : task'[q].at = "write" <=> q \in proven'
    BY <1>4, GotoOne DEF Fail, Idle, EvidenceInv
  <2>2. QED
    BY <1>4, <2>1 DEF Fail, EvidenceInv, redis
<1>5. CASE Restart
  BY <1>5 DEF Restart, Idle, EvidenceInv, redis
<1>6. QED
  BY <1>1, <1>2, <1>3, <1>4, <1>5 DEF Next, Serve

\* A password that exists is overwritten by the handler of a request that has
\* shown the current password of the account, or the unused reset token mailed
\* to its owner, and becomes the one that request brought; or by the seed.
THEOREM PasswordChangesAuthorised == Spec => PasswordChangesAreAuthorised
<1> DEFINE Authorised(u) ==
        \/ \E r \in proven : /\ task[r].at = "write" /\ task'[r] # task[r]
                             /\ task[r].user = u /\ task[r].new = password'[u]
        \/ Restart
<1>1. ASSUME AuthInv, EvidenceInv, [Next]_vars, NEW u \in Users,
             password[u] # None, password'[u] # password[u]
      PROVE  Authorised(u)
  <2> USE DEF AuthInv, TypeOK
  <2>1. ASSUME NEW r \in Requests, NEW v \in Users, NEW p \in Passwords, Signup(r, v, p)
        PROVE  FALSE
    BY <1>1, <2>1 DEF Signup
  <2>2. ASSUME NEW r \in Requests, WritePassword(r)
        PROVE  Authorised(u)
    <3>1. r \in proven /\ task[r].at = "write" /\ task'[r] # task[r]
      BY <1>1, <2>2, WriteEvidence DEF WritePassword, EvidenceInv
    <3>2. task[r].user = u /\ task[r].new = password'[u]
      BY <1>1, <2>2 DEF WritePassword
    <3>3. QED
      BY <3>1, <3>2
  <2>3. ASSUME password' = password
        PROVE  FALSE
    BY <1>1, <2>3
  <2>4. ASSUME NEW r \in Requests, Handle(r)
        PROVE  Authorised(u)
    BY <2>1, <2>2, <2>3, <2>4
       DEF Handle, rows, Login, ChangePassword, Refresh, RequestReset, Reset, IssueFor,
           CheckCurrent, RevokeAfterWrite, FindUser, Purge, StoreResetToken
  <2>5. CASE Serve
    BY <2>3, <2>4, <2>5
       DEF Serve, rows, Logout, LogoutAll, ExpireAccess, Disable, ExpireReset, ExpireSessions
  <2>6. ASSUME NEW r \in Requests, Fail(r)
        PROVE  FALSE
    BY <2>3, <2>6 DEF Fail, rows
  <2>7. CASE UNCHANGED vars
    BY <2>3, <2>7 DEF vars
  <2>8. QED
    BY <1>1, <2>5, <2>6, <2>7 DEF Next
<1>2. AuthInv /\ EvidenceInv /\ [Next]_vars =>
          [\A u \in Users : password[u] \notin {None, password'[u]} =>
              \/ \E r \in proven : /\ task[r].at = "write" /\ task'[r] # task[r]
                                 /\ task[r].user = u /\ task[r].new = password'[u]
              \/ Restart]_vars
  BY <1>1
<1>3. Init => EvidenceInv
  BY DEF Init, EvidenceInv, Idle, EmptyMap
<1>4. AuthInv /\ EvidenceInv /\ [Next]_vars => EvidenceInv'
  BY EvidenceStep
<1>5. QED
  BY <1>2, <1>3, <1>4, AuthSound, PTL DEF Spec, PasswordChangesAreAuthorised

----------------------------------------------------------------------------
(* What the flows ask of the session store                                 *)

\* The flows are clients of the store: every step is one operation of its
\* interface on a user and a token of its kinds, or leaves it alone, so what a
\* store promises under FadingSpec holds under every interleaving of them.
THEOREM FlowsUseStore == Spec => Store!FadingSpec
<1>1. Init => Store!Init
  BY DEF Init
<1>2. AuthInv /\ [Next]_vars => [Store!FadingNext]_(Store!vars)
  <2> SUFFICES ASSUME AuthInv, [Next]_vars
               PROVE  Store!FadingNext \/ UNCHANGED Store!vars
    OBVIOUS
  <2>1. ASSUME UNCHANGED store
        PROVE  UNCHANGED Store!vars
    BY <2>1 DEF store, Store!vars
  <2>2. \A r \in Requests : task[r].at # "idle" => task[r].user \in Users
    BY TaskFields DEF AuthInv, TypeOK, Idle
  <2>3. ASSUME NEW u \in Users, RevokeSessions(u)
        PROVE  Store!FadingNext
    BY <2>3 DEF RevokeSessions, Store!FadingNext
  <2>4. ASSUME NEW r \in Requests, IssueFor(r)
        PROVE  Store!FadingNext
    BY <2>2, <2>4 DEF IssueFor, Store!FadingNext
  <2>5. ASSUME NEW r \in Requests, RevokeAfterWrite(r) \/ Purge(r)
        PROVE  Store!FadingNext
    BY <2>2, <2>3, <2>5 DEF RevokeAfterWrite, Purge
  <2>6. ASSUME NEW r \in Requests, NEW t \in Tokens, Refresh(r, t)
        PROVE  Store!FadingNext
    BY <2>6 DEF Refresh, Store!FadingNext
  <2>7. ASSUME NEW r \in Requests, Handle(r)
        PROVE  Store!FadingNext \/ UNCHANGED Store!vars
    BY <2>1, <2>4, <2>5, <2>6, <2>7
       DEF Handle, Login, Signup, ChangePassword, RequestReset, Reset, CheckCurrent,
           WritePassword, FindUser, StoreResetToken
  <2>8. CASE Serve
    BY <2>1, <2>3, <2>7, <2>8
       DEF Serve, Logout, LogoutAll, ExpireAccess, Disable, ExpireReset, ExpireSessions,
           Store!FadingNext
  <2>9. ASSUME Restart \/ \E r \in Requests : Fail(r)
        PROVE  UNCHANGED Store!vars
    BY <2>1, <2>9 DEF Restart, Fail
  <2>10. CASE UNCHANGED vars
    BY <2>10 DEF vars, Store!vars
  <2>11. QED
    BY <2>8, <2>9, <2>10 DEF Next
<1>3. QED
  BY <1>1, <1>2, AuthSound, PTL DEF Spec, Store!FadingSpec
=============================================================================
