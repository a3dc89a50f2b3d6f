---------------------------- MODULE Organisation ----------------------------
(***************************************************************************)
(* The organisation behind the ABAC claims (org/org.service.ts): a forest  *)
(* of departments, a catalogue of compartments, each user's memberships    *)
(* and compartments, and the claims a token mint derives from them.        *)
(*                                                                         *)
(* A handler is a chain of awaited queries; task[r] is what the handler of *)
(* request r has learnt and the query it makes next.  The statements of    *)
(* its transaction run under Postgres's default isolation, READ COMMITTED: *)
(* a DELETE removes the rows that were committed when it began, whatever   *)
(* is committed after it, and an INSERT fails on a key that is taken.      *)
(* That the caller is permitted (require) is taken for granted here.       *)
(***************************************************************************)
EXTENDS KeyValue, Naturals, Sequences, FiniteSets

CONSTANTS Users, Departments, Compartments, Requests,
          Bodies,            \* Bodies[kind]: the sets of rows that requests give
          SeedParent,        \* the seeded departments -> their parents, or None
          SeedCompartments,  \* the seeded compartments
          SeedMembership,    \* the seeded users -> the row <<department, rank>> of each
          None               \* no parent; the rank of a compartment row

RankOrder == <<"IC", "LEAD", "MANAGER", "SENIOR_MANAGER", "DIRECTOR", "VP">>
LadderRanks == {RankOrder[i] : i \in 1..6}

IsForest(p) == \A D \in SUBSET DOMAIN p : D # {} => \E d \in D : p[d] \notin D

Kinds == {"memberships", "compartments"}

ASSUME OrgAssumption ==
    /\ Bodies["memberships"] \subseteq SUBSET (Departments \X LadderRanks)
    /\ Bodies["compartments"] \subseteq SUBSET (Compartments \X {None})
    /\ None \notin Departments
    /\ IsMap(SeedParent, Departments, DOMAIN SeedParent \union {None})
    /\ IsForest(SeedParent) /\ IsFiniteSet(DOMAIN SeedParent)
    /\ SeedCompartments \subseteq Compartments
    /\ IsMap(SeedMembership, Users, (DOMAIN SeedParent) \X LadderRanks)

VARIABLES
    parent,      \* the departments -> their parents, or None
    catalogue,   \* the compartments
    rows,        \* rows[kind][u]: the rows <<key, rank>> of user u
    task,        \* the handlers in flight
    last,        \* history: the set the latest replacement was asked to leave
    beside,      \* history: what others gave during that replacement, or the seed since
    pending      \* history: users changed by a handler that has yet to revoke

history == <<last, beside, pending>>
vars == <<parent, catalogue, rows, task, last, beside, pending>>

Keys(R) == {row[1] : row \in R}
HasKey(R) == \A x, y \in R : x[1] = y[1] => x = y

\* The queries of effectiveClaims, one per table.
Tables == Kinds \union {"departments"}

Idle == [at |-> "idle"]
Goto(r, next) == task' = [task EXCEPT ![r] = next]
Start(r, next) == task[r] = Idle /\ Goto(r, next)

\* A department or a compartment that a row of this kind may name.
Exists(kind) == IF kind = "memberships" THEN DOMAIN parent ELSE catalogue

RowSpace == (Departments \X LadderRanks) \union (Compartments \X {None})
Forests == UNION {[D -> D \union {None}] : D \in SUBSET Departments}
Creations == [at : {"create"}, slug : Departments, parent : Departments \union {None}]
Replacements ==
    [at : {"delete", "insert"}, kind : Kinds, user : Users, given : SUBSET RowSpace,
     deleted : SUBSET RowSpace, beside : SUBSET RowSpace]
Revocations == [at : {"revoke"}, user : Users]
Mints ==
    [at : {"claims"}, user : Users, read : SUBSET Tables, torn : SUBSET Kinds,
     memberships : SUBSET RowSpace, compartments : SUBSET RowSpace, departments : Forests]
Tasks == {Idle} \union Creations \union Replacements \union Revocations \union Mints

\* Types, and the keys of the two join tables: a user has one row for a
\* department or a compartment, and only for those that exist.
TypeOK ==
    /\ parent \in Forests
    /\ catalogue \in SUBSET Compartments
    /\ rows \in [Kinds -> [Users -> SUBSET RowSpace]]
    /\ last \in [Kinds -> [Users -> SUBSET RowSpace]]
    /\ task \in [Requests -> Tasks]
    /\ beside \in [Kinds -> [Users -> SUBSET RowSpace]]
    /\ pending \in SUBSET Users
    /\ \A kind \in Kinds, u \in Users :
           HasKey(rows[kind][u]) /\ Keys(rows[kind][u]) \subseteq Exists(kind)

SeedRows(kind, u) ==
    IF kind = "memberships" /\ u \in DOMAIN SeedMembership THEN {SeedMembership[u]} ELSE {}

\* The service starts after its seed.
Init ==
    /\ parent = SeedParent
    /\ catalogue = SeedCompartments
    /\ rows = [kind \in Kinds |-> [u \in Users |-> SeedRows(kind, u)]]
    /\ task = [r \in Requests |-> Idle]
    /\ last = rows
    /\ beside = [kind \in Kinds |-> [u \in Users |-> {}]]
    /\ pending = {}

\* A handler once the rows of u have changed: a mint that has read them goes
\* on with what it read.
Disturbed(t, kind, u) ==
    IF t.at = "claims" /\ t.user = u /\ kind \in t.read
    THEN [t EXCEPT !.torn = @ \union {kind}] ELSE t

----------------------------------------------------------------------------
(* createDepartment and createCompartment                                  *)

\* The parent was found, or none was named.
FindParent(r, d, p) ==
    /\ p \in DOMAIN parent \union {None}
    /\ Start(r, [at |-> "create", slug |-> d, parent |-> p])
    /\ UNCHANGED <<parent, catalogue, rows, history>>

\* Mutant: an existing department is moved instead of reported.
MoveDepartment(r) ==
    /\ task[r].at = "create"
    /\ parent' = Put(parent, task[r].slug, task[r].parent)
    /\ Goto(r, Idle)
    /\ UNCHANGED <<catalogue, rows, history>>

\* The unique index on the slug refuses a second department of that name.
CreateDepartment(r) ==
    /\ task[r].at = "create"
    /\ parent' = IF task[r].slug \in DOMAIN parent THEN parent
                 ELSE Put(parent, task[r].slug, task[r].parent)
    /\ Goto(r, Idle)
    /\ UNCHANGED <<catalogue, rows, history>>

\* A second compartment of that key is refused, and nothing changes.
CreateCompartment(c) ==
    /\ c \notin catalogue
    /\ catalogue' = catalogue \union {c}
    /\ UNCHANGED <<parent, rows, task, history>>

----------------------------------------------------------------------------
(* setUserMemberships and setUserCompartments                              *)

\* Every key was found.  A body may name a department twice, with two ranks
\* (twice with one rank, which the primary key refuses as well, is no set of
\* rows and left out); compartments are inserted as found, each once.
Validate(r, kind, u, given) ==
    /\ given \in Bodies[kind]
    /\ Keys(given) \subseteq Exists(kind)
    /\ Start(r, [at |-> "delete", kind |-> kind, user |-> u, given |-> given,
                 deleted |-> {}, beside |-> {}])
    /\ UNCHANGED <<parent, catalogue, rows, history>>

\* Mutant: only the rows about to be inserted again are deleted.
DeleteGiven(r) ==
    /\ task[r].at = "delete"
    /\ Goto(r, [task[r] EXCEPT
                   !.at = "insert",
                   !.deleted = {row \in rows[task[r].kind][task[r].user] :
                                    row[1] \in Keys(task[r].given)}])
    /\ UNCHANGED <<parent, catalogue, rows, history>>

\* deleteMany, the first statement of the transaction: its effect shows when
\* the transaction commits.
Delete(r) ==
    /\ task[r].at = "delete"
    /\ Goto(r, [task[r] EXCEPT !.at = "insert",
                               !.deleted = rows[task[r].kind][task[r].user]])
    /\ UNCHANGED <<parent, catalogue, rows, history>>

\* The rows that the transaction of task t leaves alone.
Kept(t) == rows[t.kind][t.user] \ t.deleted

\* Mutant: the table has no primary key.
InsertAnyway(t) == TRUE

\* The primary key: no key is inserted twice, nor next to a row that was kept.
Insertable(t) == HasKey(t.given) /\ Keys(t.given) \intersect Keys(Kept(t)) = {}

\* The other handlers once the transaction of task t has committed.  Rows it
\* deleted are no longer there to be deleted by a transaction under way, and
\* those it inserted were not committed when that transaction's DELETE began.
Overtaken(other, t) ==
    IF other.at = "insert" /\ other.kind = t.kind /\ other.user = t.user
    THEN [other EXCEPT !.deleted = @ \ t.deleted, !.beside = @ \union t.given]
    ELSE Disturbed(other, t.kind, t.user)

\* createMany and COMMIT, with the call that follows as a parameter.
Committed(r, next) ==
    LET t == task[r]
    IN  /\ t.at = "insert"
        /\ Insertable(t)
        /\ rows' = [rows EXCEPT ![t.kind][t.user] = Kept(t) \union t.given]
        /\ task' = [q \in Requests |-> IF q = r THEN next ELSE Overtaken(task[q], t)]
        /\ last' = [last EXCEPT ![t.kind][t.user] = t.given]
        /\ beside' = [beside EXCEPT ![t.kind][t.user] = t.beside]
        /\ pending' = pending \union {t.user}
        /\ UNCHANGED <<parent, catalogue>>

\* Mutant: the sessions are not revoked after the change.
CommitWithoutRevoking(r) == Committed(r, Idle)

Commit(r) == Committed(r, [at |-> "revoke", user |-> task[r].user])

\* createMany violates the primary key: the transaction rolls back.
Abort(r) ==
    /\ task[r].at = "insert"
    /\ ~Insertable(task[r])
    /\ Goto(r, Idle)
    /\ UNCHANGED <<parent, catalogue, rows, history>>

\* sessions.revokeUser(userId).
Revoke(r) ==
    /\ task[r].at = "revoke"
    /\ pending' = pending \ {task[r].user}
    /\ Goto(r, Idle)
    /\ UNCHANGED <<parent, catalogue, rows, last, beside>>

----------------------------------------------------------------------------
(* effectiveClaims: three queries at once, then a walk over their results  *)

\* Mutant: an off-by-one in the ladder.
InheritsAboveManager(rank) ==
    \E i \in 1..6 : RankOrder[i] = rank /\ i > 3

\* rankOrdinal(rank) >= rankOrdinal(MANAGER)
InheritsDescendants(rank) ==
    \E i, m \in 1..6 : RankOrder[i] = rank /\ RankOrder[m] = "MANAGER" /\ i >= m

\* addDescendants: every department below d, walking down from parent to child.
Descendants(tree) ==
    LET below[d \in Departments] ==
            LET kids == {k \in DOMAIN tree : tree[k] = d}
            IN  kids \union UNION {below[k] : k \in kids}
    IN  below

ClaimsFrom(t) ==
    LET managed == {m \in t.memberships : InheritsDescendants(m[2])}
    IN  [departments |-> Keys(t.memberships)
                         \union UNION {Descendants(t.departments)[m[1]] : m \in managed},
         compartments |-> Keys(t.compartments)]

StartClaims(r, u) ==
    /\ Start(r, [at |-> "claims", user |-> u, read |-> {}, torn |-> {},
                 memberships |-> {}, compartments |-> {}, departments |-> EmptyMap])
    /\ UNCHANGED <<parent, catalogue, rows, history>>

\* One of the queries answers; they run on connections of their own.
Query(r, table) ==
    /\ task[r].at = "claims"
    /\ table \notin task[r].read
    /\ Goto(r, [task[r] EXCEPT
                   !.read = @ \union {table},
                   ![table] = IF table = "departments" THEN parent
                              ELSE rows[table][task[r].user]])
    /\ UNCHANGED <<parent, catalogue, rows, history>>

Read(t) == t.at = "claims" /\ t.read = Tables

\* All answered: the claims go to the token that is being signed.
Claim(r) ==
    /\ Read(task[r])
    /\ Goto(r, Idle)
    /\ UNCHANGED <<parent, catalogue, rows, history>>

----------------------------------------------------------------------------
(* Around the handlers                                                     *)

\* The next query throws, and the handler ends there.
Fail(r) ==
    /\ task[r] # Idle
    /\ pending' = IF task[r].at = "revoke" THEN pending \ {task[r].user} ELSE pending
    /\ Goto(r, Idle)
    /\ UNCHANGED <<parent, catalogue, rows, last, beside>>

\* The seed's upsert of a user's membership in the seeded department.
Reseeded(u) ==
    {row \in rows["memberships"][u] : row[1] \notin Keys(SeedRows("memberships", u))}
    \union SeedRows("memberships", u)

\* The process ends, open transactions roll back, and its container starts
\* again: the seed wires the parents of its departments, restores its
\* compartments and upserts its users' memberships.
Restart ==
    /\ task' = [r \in Requests |-> Idle]
    /\ parent' = [d \in DOMAIN parent \union DOMAIN SeedParent |->
                     IF d \in DOMAIN SeedParent /\ (SeedParent[d] # None \/ d \notin DOMAIN parent)
                     THEN SeedParent[d] ELSE parent[d]]
    /\ catalogue' = catalogue \union SeedCompartments
    /\ rows' = [rows EXCEPT !["memberships"] = [u \in Users |-> Reseeded(u)]]
    /\ beside' = [kind \in Kinds |-> [u \in Users |-> beside[kind][u] \union SeedRows(kind, u)]]
    /\ pending' = {}
    /\ UNCHANGED last

Proceed(r) ==
    \/ CreateDepartment(r)
    \/ Delete(r) \/ Commit(r) \/ Abort(r) \/ Revoke(r)
    \/ \E table \in Tables : Query(r, table)
    \/ Claim(r)

Serve ==
    \/ \E r \in Requests : Proceed(r)
    \/ \E r \in Requests, d \in Departments : \E p \in Departments \union {None} : FindParent(r, d, p)
    \/ \E c \in Compartments : CreateCompartment(c)
    \/ \E r \in Requests, u \in Users, kind \in Kinds :
           \E given \in Bodies[kind] : Validate(r, kind, u, given)
    \/ \E r \in Requests, u \in Users : StartClaims(r, u)

Next == Serve \/ Restart \/ \E r \in Requests : Fail(r)

\* A handler that has begun goes on: its queries answer or throw.
Fairness == \A r \in Requests : WF_vars(Proceed(r))

Spec == Init /\ [][Next]_vars /\ Fairness

----------------------------------------------------------------------------
(* What must hold                                                          *)

\* No department is its own ancestor, so addDescendants terminates: every
\* department names an existing parent when it is created and never moves, and
\* the seed's rewiring of its own departments changes nothing.
DepartmentsFormForest == IsForest(parent)

\* "Replace a user's department memberships with the given set"
\* (org.service.ts:124, and :160 for compartments), as far as READ COMMITTED
\* and the seed keep it: nothing of the latest replacement is missing, and the
\* only rows next to it were given by replacements that committed while its
\* transaction was open, or by the seed since.  No older row survives.
ReplacementsAreWhole ==
    \A kind \in Kinds, u \in Users :
        /\ Keys(last[kind][u]) \subseteq Keys(rows[kind][u])
        /\ rows[kind][u] \subseteq last[kind][u] \union beside[kind][u]

\* What a user may see, read off the forest from below: a department one
\* belongs to, or any in a department one is MANAGER of "or above"
\* (schema.prisma:73-75).
Within(d, e) ==
    \A D \in SUBSET DOMAIN parent :
        d \in D /\ (\A x \in D : parent[x] = None \/ parent[x] \in D) => e \in D
Senior == {"MANAGER", "SENIOR_MANAGER", "DIRECTOR", "VP"}
Scope(u) ==
    [departments |-> {d \in DOMAIN parent : \E m \in rows["memberships"][u] :
                          d = m[1] \/ (m[2] \in Senior /\ Within(d, m[1]))},
     compartments |-> Keys(rows["compartments"][u])]

\* The three queries of a mint are no snapshot, and yet its claims give no more
\* departments than the user's scope and miss none but those created since it
\* read the departments, unless his memberships changed after it had read
\* them; and his compartments exactly, unless those did.
ClaimsAreExact ==
    \A r \in Requests : Read(task[r]) =>
        LET t == task[r]
            claims == ClaimsFrom(t)
            scope == Scope(t.user)
        IN  /\ "memberships" \notin t.torn =>
                   /\ claims.departments \subseteq scope.departments
                   /\ scope.departments \ claims.departments
                          \subseteq DOMAIN parent \ DOMAIN t.departments
            /\ "compartments" \notin t.torn => claims.compartments = scope.compartments

\* "Membership/compartment changes revoke the target's sessions"
\* (org.service.ts:19-21): once a change has committed the revocation follows,
\* unless its handler fails or the process ends first.
ChangesAreRevoked == \A u \in Users : u \in pending ~> u \notin pending
=============================================================================
