--------------------------- MODULE Administration ---------------------------
(***************************************************************************)
(* Administration of users under scoped role-based access control          *)
(* (admin/admin.service.ts over rbac/rbac.service.ts, roles and admin      *)
(* account as prisma/seed.ts wires them).                                  *)
(*                                                                         *)
(* A handler checks the caller's authority by queries of their own and     *)
(* then writes; task[r] is what the handler of request r has learnt and    *)
(* what it does next.  None is a scope's null: it covers everything.       *)
(***************************************************************************)
EXTENDS KeyValue, Naturals, Sequences, FiniteSets

CONSTANTS Users, Tenants, Departments, Levels, Requests,
          SeedAttrs,    \* the seeded users -> their attributes
          SignupAttrs,  \* the attributes of everyone else when they sign up
          Admin,        \* the seeded administrator
          Grants,       \* the grant requests: a user, and what some fields are set to
          Assignments,  \* the rows of UserRole that role requests are about
          None

Roles == {"user", "dept-admin", "user-admin", "super-admin"}
Permissions == {"users:read", "users:grant", "users:assign-role", "roles:manage", "org:manage"}

RoleParent ==
    [role \in Roles |-> CASE role = "user" -> None
                          [] role = "dept-admin" -> "user"
                          [] role = "user-admin" -> "dept-admin"
                          [] role = "super-admin" -> "user-admin"]

DirectPermissions ==
    [role \in Roles |-> CASE role = "user" -> {}
                          [] role = "dept-admin" -> {"users:read", "users:grant"}
                          [] role = "user-admin" -> {"users:assign-role"}
                          [] role = "super-admin" -> {"roles:manage", "org:manage"}]

MinLevel ==
    [p \in Permissions |-> CASE p = "users:read" -> 3
                             [] p = "users:grant" -> 4
                             [] p = "users:assign-role" -> 5
                             [] p \in {"roles:manage", "org:manage"} -> 6]

Scopes == [tenant : Tenants \union {None}, department : Departments \union {None}]
Attributes == [tenant : Tenants, department : Departments, level : Levels]
UserRoles == [user : Users, role : Roles, scope : Scopes]
Global == [tenant |-> None, department |-> None]

ASSUME AdminAssumption ==
    /\ None \notin Tenants \union Departments \union Roles
    /\ Levels \subseteq Nat
    /\ IsMap(SeedAttrs, Users, Attributes)
    /\ SignupAttrs \in Attributes
    /\ Admin \in DOMAIN SeedAttrs
    /\ \A p \in Permissions : SeedAttrs[Admin].level >= MinLevel[p]
    /\ \A g \in Grants :
           /\ g.user \in Users
           /\ DOMAIN g.input \subseteq DOMAIN SignupAttrs
           /\ \E a \in Attributes : \A f \in DOMAIN g.input : a[f] = g.input[f]
    /\ Assignments \subseteq UserRoles
    /\ IsFiniteSet(Requests) /\ Requests # {}

VARIABLES
    attrs,    \* the users' attributes
    copies,   \* the rows of UserRole -> how many copies of each there are
    task      \* the handlers in flight

vars == <<attrs, copies, task>>

Idle == [at |-> "idle"]
Revoking == [at |-> "revoke"]
Ops == {"update", "create", "delete"}
Fields == {"tenant", "department", "level"}
Checked ==
    [at : {"grants", "level", "find"} \union Ops, op : Ops,
     caller : Users, user : Users,
     ask : Seq(Scopes),        \* the scopes the caller must still be checked for
     next : {None} \union Attributes,      \* the attributes a grant writes
     omits : SUBSET Fields,
     row : {None} \union UserRoles,        \* the row a role request is about
     stale : SUBSET (Fields \union {"caller"})]
                               \* history: the fields of the target that others have
                               \* changed since, and whether the caller has lost
                               \* something it was checked for

\* Types, and copies of a row only where the unique index allows them: it
\* tells rows apart by their scope, and no null equals another.
TypeOK ==
    /\ attrs \in [Users -> Attributes]
    /\ IsMap(copies, UserRoles, Nat \ {0})
    /\ task \in [Requests -> {Idle, Revoking} \union Checked]
    /\ \A row \in DOMAIN copies :
           copies[row] > 1 => row.scope.tenant = None \/ row.scope.department = None

AdminRow == [user |-> Admin, role |-> "super-admin", scope |-> Global]
Seeded(a) == [u \in Users |-> IF u \in DOMAIN SeedAttrs THEN SeedAttrs[u] ELSE a[u]]

Init ==
    /\ attrs = Seeded([u \in Users |-> SignupAttrs])
    /\ copies = Put(EmptyMap, AdminRow, 1)
    /\ task = [r \in Requests |-> Idle]

Goto(r, next) == task' = [task EXCEPT ![r] = next]

----------------------------------------------------------------------------
(* RbacService                                                             *)

\* permsForRole: the role's own permissions and those of its ancestors.
PermsForRole ==
    LET perms[role \in Roles] ==
            DirectPermissions[role]
            \union IF RoleParent[role] = None THEN {} ELSE perms[RoleParent[role]]
    IN  perms

EffectiveGrants(u) ==
    UNION {{[permission |-> p, scope |-> row.scope] : p \in PermsForRole[row.role]} :
           row \in {x \in DOMAIN copies : x.user = u}}

Covers(grant, target) ==
    /\ grant.tenant \in {None, target.tenant}
    /\ grant.department \in {None, target.department}

\* can(), its first query and its second.
HasGrant(u, p, target) ==
    \E g \in EffectiveGrants(u) : g.permission = p /\ Covers(g.scope, target)
ClearsFloor(u, p) == attrs[u].level >= MinLevel[p]

Can(u, p, target) == HasGrant(u, p, target) /\ ClearsFloor(u, p)

ScopesFor(u, p) == {g.scope : g \in {x \in EffectiveGrants(u) : x.permission = p}}

\* Mutant: a null is put into the filter like any value.
WhereAsGiven(s, a) == a.tenant = s.tenant /\ a.department = s.department

\* One alternative of the filter: each field that is not null must match.
Where(s, a) ==
    /\ s.tenant # None => a.tenant = s.tenant
    /\ s.department # None => a.department = s.department

\* listUsers: the users matched by scopeWhere of the caller's read scopes.
Listed(caller) ==
    LET scopes == ScopesFor(caller, "users:read")
    IN  {u \in Users : Global \in scopes \/ \E s \in scopes : Where(s, attrs[u])}

----------------------------------------------------------------------------
(* The handlers' checks                                                    *)

ScopeOf(a) == [tenant |-> a.tenant, department |-> a.department]

Begin(r, t) == task[r] = Idle /\ Goto(r, t) /\ UNCHANGED <<attrs, copies>>

\* Mutant: only the new scope is asked for.
AskNewScope(old, next) == <<ScopeOf(next)>>

AskScopes(old, next) == <<ScopeOf(old), ScopeOf(next)>>

\* Mutant: an omitted field is reset.
FilledWithDefaults(old, input) ==
    [f \in DOMAIN old |-> IF f \in DOMAIN input THEN input[f] ELSE SignupAttrs[f]]

\* An omitted field keeps the value that was read.
Filled(old, input) == [f \in DOMAIN old |-> IF f \in DOMAIN input THEN input[f] ELSE old[f]]

\* grantAttributes reads the target first.
StartGrant(r, caller, g) ==
    LET next == Filled(attrs[g.user], g.input)
    IN  Begin(r, [at |-> "grants", op |-> "update", caller |-> caller, user |-> g.user,
                  ask |-> AskScopes(attrs[g.user], next), next |-> next,
                  omits |-> DOMAIN next \ DOMAIN g.input, row |-> None, stale |-> {}])

\* assignRole and removeRole ask for the scope that is assigned.
StartRole(r, op, caller, row) ==
    Begin(r, [at |-> "grants", op |-> op, caller |-> caller, user |-> row.user,
              ask |-> <<row.scope>>, next |-> None, omits |-> {}, row |-> row, stale |-> {}])

Permission(t) == IF t.op = "update" THEN "users:grant" ELSE "users:assign-role"

\* The caller's assignments: without a grant that covers the scope, 403.
CheckGrants(r) ==
    LET t == task[r]
    IN  /\ t.at = "grants"
        /\ IF HasGrant(t.caller, Permission(t), Head(t.ask))
           THEN Goto(r, [t EXCEPT !.at = "level"])
           ELSE Goto(r, Idle)
        /\ UNCHANGED <<attrs, copies>>

\* The caller's level: below the permission's floor, 403.
CheckLevel(r) ==
    LET t == task[r]
    IN  /\ t.at = "level"
        /\ IF ~ClearsFloor(t.caller, Permission(t)) THEN Goto(r, Idle)
           ELSE Goto(r, [t EXCEPT
                           !.ask = Tail(@),
                           !.at = IF Tail(t.ask) # <<>> THEN "grants"
                                  ELSE IF t.op = "create" THEN "find" ELSE t.op])
        /\ UNCHANGED <<attrs, copies>>

----------------------------------------------------------------------------
(* The handlers' writes                                                    *)

\* A handler t once the attributes of u have changed to next, or a row of
\* UserRole is gone: it goes on with what it has read and checked.
Outdated(t, parts) ==
    IF t \in {Idle, Revoking} THEN t ELSE [t EXCEPT !.stale = @ \union parts]
ByGrant(t, u, next) ==
    {f \in Fields : t.op = "update" /\ t.user = u /\ next[f] # attrs[u][f]}
    \union {x \in {"caller"} : /\ t.caller = u
                              /\ ClearsFloor(u, Permission(t))
                              /\ next.level < MinLevel[Permission(t)]}
ByRemoval(t, row) == {x \in {"caller"} : t.caller = row.user /\ row \in DOMAIN copies}

Update(r) ==
    /\ task[r].at = "update"
    /\ attrs' = [attrs EXCEPT ![task[r].user] = task[r].next]
    /\ task' = [q \in Requests |-> IF q = r THEN Revoking
                                   ELSE Outdated(task[q], ByGrant(task[q], task[r].user, task[r].next))]
    /\ UNCHANGED copies

\* Mutant: the answer of findFirst is not looked at.
FindNothing(r) ==
    /\ task[r].at = "find"
    /\ Goto(r, [task[r] EXCEPT !.at = "create"])
    /\ UNCHANGED <<attrs, copies>>

\* findFirst: an assignment that exists is not created again.
Find(r) ==
    /\ task[r].at = "find"
    /\ Goto(r, IF task[r].row \in DOMAIN copies THEN Revoking
               ELSE [task[r] EXCEPT !.at = "create"])
    /\ UNCHANGED <<attrs, copies>>

\* Mutant: the table has no unique index.
NeverRefused(row) == FALSE

Refused(row) ==
    row \in DOMAIN copies /\ row.scope.tenant # None /\ row.scope.department # None

\* The unique index refuses a second copy, but only if no field is null.
Create(r) ==
    LET row == task[r].row
        count == IF row \in DOMAIN copies THEN copies[row] ELSE 0
    IN  /\ task[r].at = "create"
        /\ IF Refused(row) THEN Goto(r, Idle) /\ UNCHANGED <<attrs, copies>>
           ELSE Goto(r, Revoking) /\ copies' = Put(copies, row, count + 1) /\ UNCHANGED attrs

\* deleteMany removes every copy.
Delete(r) ==
    /\ task[r].at = "delete"
    /\ copies' = Drop(copies, {task[r].row})
    /\ task' = [q \in Requests |-> IF q = r THEN Revoking
                                   ELSE Outdated(task[q], ByRemoval(task[q], task[r].row))]
    /\ UNCHANGED attrs

\* sessions.revokeUser(targetId), the handler's last step; what it does to
\* the sessions is RevokeUser of SessionStore.
Revoke(r) ==
    /\ task[r] = Revoking
    /\ Goto(r, Idle)
    /\ UNCHANGED <<attrs, copies>>

----------------------------------------------------------------------------
(* Failures and restarts                                                   *)

\* The next query throws, and the handler ends there.
Fail(r) ==
    /\ task[r] # Idle
    /\ Goto(r, Idle)
    /\ UNCHANGED <<attrs, copies>>

WithAdmin == IF AdminRow \in DOMAIN copies THEN copies ELSE Put(copies, AdminRow, 1)

\* Mutant: the upsert leaves the attributes of an existing user alone.
RestartKeepingAttributes ==
    /\ task' = [r \in Requests |-> Idle]
    /\ copies' = WithAdmin
    /\ UNCHANGED attrs

\* The container starts again: the seed upserts its users and makes the
\* administrator a global super-admin unless he is one.
Restart ==
    /\ task' = [r \in Requests |-> Idle]
    /\ attrs' = Seeded(attrs)
    /\ copies' = WithAdmin

Serve ==
    \/ \E r \in Requests, caller \in Users :
          \/ \E g \in Grants : StartGrant(r, caller, g)
          \/ \E op \in {"create", "delete"}, row \in Assignments : StartRole(r, op, caller, row)
    \/ \E r \in Requests :
          \/ CheckGrants(r) \/ CheckLevel(r)
          \/ Update(r) \/ Find(r) \/ Create(r) \/ Delete(r) \/ Revoke(r)

Next == Serve \/ Restart \/ \E r \in Requests : Fail(r)

Spec == Init /\ [][Next]_vars

----------------------------------------------------------------------------
(* Properties                                                              *)

\* Whoever may change a user's attributes can also list that user: the filter
\* of listUsers and the check of grantAttributes agree on what a scope covers,
\* and every role that grants also reads.
GrantableIsVisible ==
    \A caller, u \in Users :
        Can(caller, "users:grant", ScopeOf(attrs[u])) => u \in Listed(caller)

\* The permissions of a role, by definition: those of all roles that cannot be
\* told from it by a set closed under parents.
Inherits(role) ==
    {a \in Roles : \A D \in SUBSET Roles :
        role \in D /\ (\A d \in D : RoleParent[d] # None => RoleParent[d] \in D) => a \in D}

\* u holds permission p over scope s, by definition.
Holds(u, p, s) ==
    /\ attrs[u].level >= MinLevel[p]
    /\ \E row \in DOMAIN copies :
           /\ row.user = u
           /\ \E a \in Inherits(row.role) : p \in DirectPermissions[a]
           /\ row.scope.tenant # None => row.scope.tenant = s.tenant
           /\ row.scope.department # None => row.scope.department = s.department

\* "requires users:grant over both old and new scope" (admin.service.ts:119),
\* "users:assign-role over that scope" (:149): when a handler writes, its
\* caller holds the permission over every scope the write takes.  The code
\* keeps that over the new scope and the assigned one unless the caller lost a
\* role or the level in between; over the old scope, unless the target was
\* moved in between as well.
WritesAreAuthorised ==
    [][\A r \in Requests :
          LET t == task[r]
          IN  /\ t.at \in Ops
              /\ task'[r] = Revoking
              /\ "caller" \notin t.stale
              => IF t.op = "update"
                 THEN /\ Holds(t.caller, "users:grant", ScopeOf(attrs'[t.user]))
                      /\ t.stale \intersect {"tenant", "department"} = {} =>
                             Holds(t.caller, "users:grant", ScopeOf(attrs[t.user]))
                 ELSE Holds(t.caller, "users:assign-role", t.row.scope)]_vars

\* "omitted fields are left unchanged" (grant.dto.ts:4), as far as the code
\* keeps it: a grant writes back every field it read, which undoes a change of
\* that very field in between, and of no other.
OmittedFieldsKept ==
    [][\A r \in Requests :
          LET t == task[r]
          IN  t.at = "update" /\ task'[r] = Revoking =>
                  \A f \in t.omits \ t.stale : attrs'[t.user][f] = attrs[t.user][f]]_vars

Creators(row) == {r \in Requests : task[r].at = "create" /\ task[r].row = row}

\* assignRole looks for the row before it creates it, so however often a role
\* is asked for, one after the other or at once, the table never holds more
\* copies of it than requests were in flight at one time, those still to be
\* created included: without a race one copy, although the unique index
\* admits any number when the scope has a null.
CopiesAreBounded ==
    \A row \in DOMAIN copies : copies[row] + Cardinality(Creators(row)) <= Cardinality(Requests)

\* Whatever administrators did to each other, a restart gives the seeded one
\* every permission everywhere: role, hierarchy and level floor.
RestartRestoresAdmin ==
    [][Restart => \A p \in Permissions, s \in Scopes : Can(Admin, p, s)']_vars
=============================================================================
