--------------------------- MODULE RedisSnapshots ---------------------------
(***************************************************************************)
(* The session store on the Redis that compose deploys: redis:7-alpine     *)
(* with a volume, restarted whenever it stops, and no configuration of its *)
(* own.  That Redis writes its keyspace to a file now and then and logs    *)
(* no commands in between: when it dies it comes back with the keyspace of *)
(* its latest file.  The file holds each key with the moment it expires,   *)
(* so keys age in the file as they do in memory.                           *)
(*                                                                         *)
(* Save stands for the moment a file that is going to be completed was     *)
(* begun (Redis forks: the file is that moment's keyspace); a file that a  *)
(* crash cut short was never saved.                                        *)
(***************************************************************************)
EXTENDS RedisSessionStore

VARIABLES
    saved,   \* the keyspace of the latest file
    newest,  \* history: every family opened -> the last token handed out for it
    ended    \* history: the tokens that were of no use when that file was begun

snapshotVars == <<refresh, family, userfam, minted, opener, reply, saved, newest, ended>>

SnapshotInit ==
    /\ Init
    /\ saved = [refresh |-> EmptyMap, family |-> EmptyMap, userfam |-> EmptyMap]
    /\ newest = EmptyMap
    /\ ended = {}

\* A token that would be exchanged for a new one.
Usable(t) == t \in DOMAIN refresh /\ ~refresh[t].used

----------------------------------------------------------------------------
(* The operations of the store                                             *)

Open(u, f, n) == CreateSession(u, f, n) /\ newest' = Put(newest, f, n)
Renew(t, n) == RotateCurrent(t, n) /\ newest' = Put(newest, refresh[t].familyId, n)
Call ==
    \/ \E u \in Users, f \in Families, n \in Tokens : Open(u, f, n)
    \/ \E t, n \in Tokens : Renew(t, n)
    \/ /\ \/ \E t \in Tokens : RotateUnknown(t) \/ RotateReplayed(t) \/ Revoke(t)
          \/ \E u \in Users : RevokeUser(u)
       /\ UNCHANGED newest

----------------------------------------------------------------------------
(* Files, crashes and time                                                 *)

\* Mutant: the file is updated in place, and keys that are gone stay in it.
SaveInPlace ==
    LET Over(m, old) == [k \in DOMAIN m \union DOMAIN old |->
                            IF k \in DOMAIN m THEN m[k] ELSE old[k]]
    IN  /\ saved' = [refresh |-> Over(refresh, saved.refresh),
                     family |-> Over(family, saved.family),
                     userfam |-> Over(userfam, saved.userfam)]
        /\ ended' = {t \in minted : ~Usable(t)}
        /\ UNCHANGED <<vars, newest>>

Save ==
    /\ saved' = [refresh |-> refresh, family |-> family, userfam |-> userfam]
    /\ ended' = {t \in minted : ~Usable(t)}
    /\ UNCHANGED <<vars, newest>>

\* Mutant: the users' index is kept in a database that is not saved.
CrashForgettingIndex ==
    /\ refresh' = saved.refresh
    /\ family' = saved.family
    /\ userfam' = EmptyMap
    /\ UNCHANGED <<minted, opener, reply, saved, newest, ended>>

Crash ==
    /\ refresh' = saved.refresh
    /\ family' = saved.family
    /\ userfam' = saved.userfam
    /\ UNCHANGED <<minted, opener, reply, saved, newest, ended>>

Second ==
    /\ Tick
    /\ saved' = [refresh |-> Aged(saved.refresh), family |-> Aged(saved.family),
                 userfam |-> Aged(saved.userfam)]
    /\ UNCHANGED <<newest, ended>>

SnapshotNext ==
    \/ Call /\ UNCHANGED <<saved, ended>>
    \/ Save \/ Crash \/ Second

SnapshotSpec == SnapshotInit /\ [][SnapshotNext]_snapshotVars

----------------------------------------------------------------------------
(* What must hold                                                          *)

\* Redis comes back with sessions that were revoked and tokens that were
\* spent.  Whatever it brings back, a revocation reaches again: the indexes of
\* RedisSessionStore stay consistent.
IndexesSurviveCrashes == IndexInv

\* A client that presents the token it received last is never taken for a
\* thief, also when a crash has undone rotations: at worst Redis does not know
\* the token and the client signs in again.
NewestTokenIsNoReplay ==
    \A f \in DOMAIN newest :
        newest[f] \in DOMAIN refresh => ~refresh[newest[f]].used

\* What a crash can undo is bounded by the latest file: a token that was
\* rotated out, logged out or revoked before that file was begun is never
\* exchanged again.
SavedEndIsFinal == \A t \in ended : ~Usable(t)
=============================================================================
