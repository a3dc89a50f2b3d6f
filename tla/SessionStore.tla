---------------------------- MODULE SessionStore ----------------------------
(***************************************************************************)
(* What the SessionStore interface of the auth-service promises            *)
(* (sessions/session.store.ts): refresh-token sessions with rotation and   *)
(* reuse detection, without hashes, indexes or clocks.                     *)
(*                                                                         *)
(* A login opens a family and issues its first token; rotation retires the *)
(* presented token and mints its successor; presenting a retired token     *)
(* revokes the whole family.  Expiry happens at some unspecified moment.   *)
(*                                                                         *)
(* Two promises are stated over the same state.  Spec is the documented    *)
(* one: a retired token is remembered for as long as its family lives, and *)
(* revokeUser ends every session of the user.  FadingSpec is what a store  *)
(* that lets retired tokens expire can keep: it may forget a retired       *)
(* token, and its revokeUser is only sure to reach the families whose      *)
(* first token it still remembers.                                         *)
(***************************************************************************)
EXTENDS KeyValue

CONSTANTS Users, Families, Tokens

VARIABLES
    session,  \* the tokens the store holds: token -> [family, user, used]
    minted,   \* every token ever issued: 256-bit random values never repeat
    opener,   \* every family ever opened -> the token its login received
    reply     \* the outcome of the latest call

vars == <<session, minted, opener, reply>>

Replies == {"none", "issued", "rotated", "invalid", "expired",
            "reuse_detected", "revoked", "user_revoked"}

TypeOK ==
    /\ IsMap(session, Tokens, [family : Families, user : Users, used : BOOLEAN])
    /\ minted \in SUBSET Tokens
    /\ IsMap(opener, Families, Tokens)
    /\ reply \in Replies

TokensOfFamily(f) == {t \in DOMAIN session : session[t].family = f}
TokensOfUser(u) == {t \in DOMAIN session : session[t].user = u}
FamiliesOfUser(u) == {session[t].family : t \in TokensOfUser(u)}

Init ==
    /\ session = EmptyMap
    /\ minted = {}
    /\ opener = EmptyMap
    /\ reply = "none"

----------------------------------------------------------------------------
(* The operations of the interface.                                        *)

CreateSession(u, f, n) ==
    /\ f \notin DOMAIN opener
    /\ n \notin minted
    /\ session' = Put(session, n, [family |-> f, user |-> u, used |-> FALSE])
    /\ minted' = minted \union {n}
    /\ opener' = Put(opener, f, n)
    /\ reply' = "issued"

RotateUnknown(t) ==
    /\ t \notin DOMAIN session
    /\ reply' = "invalid"
    /\ UNCHANGED <<session, minted, opener>>

RotateReplayed(t) ==
    /\ t \in DOMAIN session
    /\ session[t].used
    /\ session' = Drop(session, TokensOfFamily(session[t].family))
    /\ reply' = "reuse_detected"
    /\ UNCHANGED <<minted, opener>>

RotateCurrent(t, n) ==
    /\ t \in DOMAIN session
    /\ ~session[t].used
    /\ n \notin minted
    /\ session' = Put([session EXCEPT ![t].used = TRUE], n, session[t])
    /\ minted' = minted \union {n}
    /\ reply' = "rotated"
    /\ UNCHANGED opener

Rotate(t) ==
    \/ RotateUnknown(t)
    \/ RotateReplayed(t)
    \/ \E n \in Tokens : RotateCurrent(t, n)

Revoke(t) ==
    /\ session' = IF t \in DOMAIN session
                  THEN Drop(session, TokensOfFamily(session[t].family))
                  ELSE session
    /\ reply' = "revoked"
    /\ UNCHANGED <<minted, opener>>

RevokeUser(u) ==
    /\ session' = Drop(session, TokensOfUser(u))
    /\ reply' = "user_revoked"
    /\ UNCHANGED <<minted, opener>>

\* Tokens T are dropped because they expired, on their own or on being
\* presented, or because the store lost whole families.
Lapse(T) ==
    /\ T \subseteq DOMAIN session
    /\ \A t \in T : ~session[t].used \/ TokensOfFamily(session[t].family) \subseteq T
    /\ session' = Drop(session, T)
    /\ reply' \in {reply, "expired"}
    /\ UNCHANGED <<minted, opener>>

Next ==
    \/ \E u \in Users, f \in Families, n \in Tokens : CreateSession(u, f, n)
    \/ \E t \in Tokens : Rotate(t) \/ Revoke(t)
    \/ \E u \in Users : RevokeUser(u)
    \/ \E T \in SUBSET Tokens : Lapse(T)

Spec == Init /\ [][Next]_vars

----------------------------------------------------------------------------
(* The weaker promise: retired tokens fade.                                *)

\* A family remembered from its login on: its first token is still held.
Remembered(f) == f \in DOMAIN opener /\ opener[f] \in DOMAIN session

\* Any tokens may expire, but a family's current token only together with
\* every retired token of the family.
Fade(T) ==
    /\ T \subseteq DOMAIN session
    /\ \A t \in T : session[t].used \/ TokensOfFamily(session[t].family) \subseteq T
    /\ session' = Drop(session, T)
    /\ UNCHANGED <<minted, opener, reply>>

\* The families F of u are revoked: at least the remembered ones.
RevokeListed(u, F) ==
    /\ F \subseteq FamiliesOfUser(u)
    /\ \A f \in FamiliesOfUser(u) : Remembered(f) => f \in F
    /\ session' = Drop(session, {t \in DOMAIN session : session[t].family \in F})
    /\ reply' = "user_revoked"
    /\ UNCHANGED <<minted, opener>>

FadingNext ==
    \/ \E u \in Users, f \in Families, n \in Tokens : CreateSession(u, f, n)
    \/ \E t \in Tokens : Rotate(t) \/ Revoke(t)
    \/ \E u \in Users, F \in SUBSET Families : RevokeListed(u, F)
    \/ \E T \in SUBSET Tokens : Fade(T)

FadingSpec == Init /\ [][FadingNext]_vars
=============================================================================
