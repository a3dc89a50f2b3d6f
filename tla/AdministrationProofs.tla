------------------------ MODULE AdministrationProofs ------------------------
(***************************************************************************)
(* What holds of Administration for any users, scopes, levels and requests *)
(* that AdminAssumption allows.                                            *)
(***************************************************************************)
EXTENDS Administration, FiniteSetTheorems, TLAPS

----------------------------------------------------------------------------
(* The hierarchy of roles                                                  *)

LEMMA RoleTypes ==
    /\ RoleParent \in [Roles -> Roles \union {None}]
    /\ DirectPermissions \in [Roles -> SUBSET Permissions]
    /\ MinLevel \in [Permissions -> Nat]
<1>1. RoleParent \in [Roles -> Roles \union {None}]
  BY DEF RoleParent, Roles
<1>2. DirectPermissions \in [Roles -> SUBSET Permissions]
  BY DEF DirectPermissions, Roles, Permissions
<1>3. MinLevel \in [Permissions -> Nat]
  BY DEF MinLevel, Permissions
<1> QED
  BY <1>1, <1>2, <1>3

\* permsForRole's recursion ends: it defines a function.
LEMMA PermsUnfold ==
    \A role \in Roles :
        PermsForRole[role] =
            DirectPermissions[role]
            \union IF RoleParent[role] = None THEN {} ELSE PermsForRole[RoleParent[role]]
<1> DEFINE G(p) == [role \in Roles |->
                       DirectPermissions[role]
                       \union IF RoleParent[role] = None THEN {} ELSE p[RoleParent[role]]]
           D(role) == DirectPermissions[role]
           W == [role \in Roles |->
                    CASE role = "user" -> D("user")
                      [] role = "dept-admin" -> D("dept-admin") \union D("user")
                      [] role = "user-admin" -> D("user-admin") \union (D("dept-admin") \union D("user"))
                      [] role = "super-admin" ->
                             D("super-admin")
                             \union (D("user-admin") \union (D("dept-admin") \union D("user")))]
<1>1. /\ RoleParent["user"] = None
      /\ RoleParent["dept-admin"] = "user"
      /\ RoleParent["user-admin"] = "dept-admin"
      /\ RoleParent["super-admin"] = "user-admin"
  BY DEF RoleParent, Roles
<1>2. None \notin Roles
  BY AdminAssumption
<1> HIDE DEF D
<1>3. /\ W["user"] = D("user")
      /\ W["dept-admin"] = D("dept-admin") \union W["user"]
      /\ W["user-admin"] = D("user-admin") \union W["dept-admin"]
      /\ W["super-admin"] = D("super-admin") \union W["user-admin"]
  BY DEF Roles
<1>8. W \in [Roles -> SUBSET Permissions]
  BY RoleTypes DEF D, Roles
<1> HIDE DEF W
<1>4. ASSUME NEW role \in Roles
      PROVE  W[role] = DirectPermissions[role]
                       \union IF RoleParent[role] = None THEN {} ELSE W[RoleParent[role]]
  <2>1. role \in {"user", "dept-admin", "user-admin", "super-admin"}
    BY DEF Roles
  <2>2. CASE role = "user"
    BY <1>1, <1>3, <2>2 DEF D
  <2>3. CASE role # "user"
    BY <1>1, <1>2, <1>3, <2>1, <2>3 DEF D, Roles
  <2> QED
    BY <2>2, <2>3
<1>5. W = G(W)
  <2>1. \A role \in Roles : RoleParent[role] = None \/ RoleParent[role] \in Roles
    BY RoleTypes
  <2>2. G(W) \in [Roles -> SUBSET Permissions]
    BY <1>8, <2>1, RoleTypes
  <2>3. \A role \in Roles : W[role] = G(W)[role]
    BY <1>4
  <2> HIDE DEF G
  <2> QED
    BY <1>8, <2>2, <2>3
<1>6. PermsForRole = CHOOSE p : p = G(p)
  BY DEF PermsForRole
<1> HIDE DEF G
<1>7. PermsForRole = G(PermsForRole)
  BY <1>5, <1>6
<1> QED
  BY <1>7 DEF G


\* What permsForRole finds is what the role inherits.
LEMMA PermsInherited ==
    ASSUME NEW role \in Roles, NEW p \in PermsForRole[role]
    PROVE  \E a \in Inherits(role) : p \in DirectPermissions[a]
<1> DEFINE Sound(x) == \A q \in PermsForRole[x] : \E a \in Inherits(x) : q \in DirectPermissions[a]
<1>1. ASSUME NEW x \in Roles
      PROVE  x \in Inherits(x)
  BY DEF Inherits
<1>2. ASSUME NEW x \in Roles, RoleParent[x] \in Roles
      PROVE  Inherits(RoleParent[x]) \subseteq Inherits(x)
  <2>1. RoleParent[x] # None
    BY <1>2, AdminAssumption
  <2> QED
    BY <2>1 DEF Inherits
<1>3. ASSUME NEW x \in Roles,
             RoleParent[x] = None \/ (RoleParent[x] \in Roles /\ Sound(RoleParent[x]))
      PROVE  Sound(x)
  <2> SUFFICES ASSUME NEW q \in PermsForRole[x]
               PROVE  \E a \in Inherits(x) : q \in DirectPermissions[a]
    OBVIOUS
  <2>1. CASE q \in DirectPermissions[x]
    BY <1>1, <2>1
  <2>2. CASE q \notin DirectPermissions[x]
    <3>1. RoleParent[x] # None /\ q \in PermsForRole[RoleParent[x]]
      BY <2>2, PermsUnfold
    <3>2. PICK a \in Inherits(RoleParent[x]) : q \in DirectPermissions[a]
      BY <1>3, <3>1
    <3> QED
      BY <1>2, <1>3, <3>1, <3>2
  <2> QED
    BY <2>1, <2>2
<1>4. /\ RoleParent["user"] = None
      /\ RoleParent["dept-admin"] = "user"
      /\ RoleParent["user-admin"] = "dept-admin"
      /\ RoleParent["super-admin"] = "user-admin"
      /\ Roles = {"user", "dept-admin", "user-admin", "super-admin"}
  BY DEF RoleParent, Roles
<1> HIDE DEF Sound
<1>5. Sound("user")
  BY <1>3, <1>4
<1>6. Sound("dept-admin")
  BY <1>3, <1>4, <1>5
<1>7. Sound("user-admin")
  BY <1>3, <1>4, <1>6
<1>8. Sound("super-admin")
  BY <1>3, <1>4, <1>7
<1>9. Sound(role)
  BY <1>4, <1>5, <1>6, <1>7, <1>8
<1> QED
  BY <1>9 DEF Sound

\* The seeded administrator's role has every permission, and a role that
\* grants attributes also reads users.
LEMMA RolePermissions ==
    /\ PermsForRole["super-admin"] = Permissions
    /\ \A role \in Roles : PermsForRole[role] \subseteq Permissions
    /\ \A role \in Roles : "users:grant" \in PermsForRole[role] => "users:read" \in PermsForRole[role]
<1>1. /\ RoleParent["user"] = None
      /\ RoleParent["dept-admin"] = "user"
      /\ RoleParent["user-admin"] = "dept-admin"
      /\ RoleParent["super-admin"] = "user-admin"
      /\ Roles = {"user", "dept-admin", "user-admin", "super-admin"}
  BY DEF RoleParent, Roles
<1>2. /\ DirectPermissions["user"] = {}
      /\ DirectPermissions["dept-admin"] = {"users:read", "users:grant"}
      /\ DirectPermissions["user-admin"] = {"users:assign-role"}
      /\ DirectPermissions["super-admin"] = {"roles:manage", "org:manage"}
  BY DEF DirectPermissions, Roles
<1>3. None \notin Roles
  BY AdminAssumption
<1>4. PermsForRole["user"] = {}
  BY <1>1, <1>2, <1>3, PermsUnfold
<1>5. PermsForRole["dept-admin"] = {"users:read", "users:grant"}
  BY <1>1, <1>2, <1>3, <1>4, PermsUnfold
<1>6. PermsForRole["user-admin"] = {"users:assign-role", "users:read", "users:grant"}
  <2>1. PermsForRole["user-admin"] =
            DirectPermissions["user-admin"] \union PermsForRole["dept-admin"]
    BY <1>1, <1>3, PermsUnfold
  <2> QED
    BY <1>2, <1>5, <2>1
<1>7. PermsForRole["super-admin"] = Permissions
  <2>1. PermsForRole["super-admin"] =
            DirectPermissions["super-admin"] \union PermsForRole["user-admin"]
    BY <1>1, <1>3, PermsUnfold
  <2> QED
    BY <1>2, <1>6, <2>1 DEF Permissions
<1>8. PermsForRole["user-admin"] \subseteq Permissions /\ PermsForRole["dept-admin"] \subseteq Permissions
  BY <1>5, <1>6 DEF Permissions
<1> QED
  BY <1>1, <1>4, <1>5, <1>6, <1>7, <1>8
----------------------------------------------------------------------------
(* The invariant                                                           *)

\* The scopes the caller of handler t must have been checked for when t
\* writes, the target's old one only while that is still the target's.
ScopesTaken(t) ==
    IF t.op = "update"
    THEN {ScopeOf(t.next)}
         \union {s \in {ScopeOf(attrs[t.user])} : t.stale \intersect {"tenant", "department"} = {}}
    ELSE {t.row.scope}
\* Those it is still to be checked for.
Pending(t) == {t.ask[i] : i \in 1..Len(t.ask)}

\* What handler t has of its request, whatever the others do.
Coherent(t) ==
    /\ IF t.op = "update" THEN t.next \in Attributes ELSE t.row \in UserRoles
    /\ t.at \in Ops => t.at = t.op
    /\ t.at = "find" => t.op = "create"
    /\ t.ask = <<>> <=> t.at \in Ops \union {"find"}

\* What handler t has checked is so unless its caller lost something since,
\* and a field it read is so unless that field was changed since.
Fresh(t) ==
    /\ "caller" \notin t.stale =>
           /\ \A s \in ScopesTaken(t) : s \in Pending(t) \/ Can(t.caller, Permission(t), s)
           /\ t.at = "level" => HasGrant(t.caller, Permission(t), Head(t.ask))
    /\ t.op = "update" => \A f \in t.omits \ t.stale : t.next[f] = attrs[t.user][f]

AdminInv ==
    /\ TypeOK
    /\ \A r \in Requests : task[r] \in Checked => Coherent(task[r]) /\ Fresh(task[r])

LEMMA CheckedIsBusy ==
    ASSUME NEW t \in Checked
    PROVE  t # Idle /\ t # Revoking /\ t.at # "idle" /\ t.at # "revoke"
BY DEF Checked, Ops, Idle, Revoking

LEMMA BusyIsChecked ==
    ASSUME NEW t \in {Idle, Revoking} \union Checked, t.at \notin {"idle", "revoke"}
    PROVE  t \in Checked
BY DEF Idle, Revoking

LEMMA ScopeTypes ==
    ASSUME NEW a \in Attributes
    PROVE  ScopeOf(a) \in Scopes
BY DEF Attributes, ScopeOf, Scopes

\* Handler m is t, of which others may have outdated more.
Onward(t, m) ==
    /\ m.at = t.at /\ m.op = t.op /\ m.caller = t.caller /\ m.user = t.user /\ m.ask = t.ask
    /\ m.next = t.next /\ m.omits = t.omits /\ m.row = t.row
    /\ t.stale \subseteq m.stale

LEMMA OnwardCoherent ==
    ASSUME NEW t, NEW m, Onward(t, m), Coherent(t)
    PROVE  Coherent(m)
BY DEF Onward, Coherent

\* What a handler has checked and read stays so as long as its caller loses
\* nothing and the fields keep their values.
LEMMA Undisturbed ==
    ASSUME AdminInv, attrs' \in [Users -> Attributes],
           NEW t \in Checked, NEW m \in Checked, Onward(t, m), Fresh(t),
           "caller" \notin m.stale =>
               /\ \A row \in DOMAIN copies : row.user = t.caller => row \in DOMAIN copies'
               /\ ClearsFloor(t.caller, Permission(t)) => ClearsFloor(t.caller, Permission(t))',
           t.op = "update" => \A f \in Fields \ m.stale : attrs'[t.user][f] = attrs[t.user][f]
    PROVE  Fresh(m)'
<1>1. /\ m.at = t.at /\ m.op = t.op /\ m.caller = t.caller /\ m.user = t.user /\ m.ask = t.ask
      /\ m.next = t.next /\ m.omits = t.omits /\ m.row = t.row
      /\ t.stale \subseteq m.stale
  BY DEF Onward
<1>2. Permission(m)' = Permission(t) /\ Pending(m)' = Pending(t)
  BY <1>1 DEF Permission, Pending
<1>3. m.op = "update" => \A f \in m.omits \ m.stale : m.next[f] = attrs'[m.user][f]
  BY <1>1 DEF Fresh, Checked
<1>4. ASSUME "caller" \notin m.stale
      PROVE  /\ \A s \in ScopesTaken(m)' : s \in Pending(t) \/ Can(t.caller, Permission(t), s)'
             /\ t.at = "level" => HasGrant(t.caller, Permission(t), Head(t.ask))'
  <2>1. "caller" \notin t.stale
    BY <1>1, <1>4
  <2>2. EffectiveGrants(t.caller) \subseteq EffectiveGrants(t.caller)'
    BY <1>4 DEF EffectiveGrants
  <2>3. \A s : HasGrant(t.caller, Permission(t), s) => HasGrant(t.caller, Permission(t), s)'
    BY <2>2 DEF HasGrant, Permission
  <2>4. \A s : Can(t.caller, Permission(t), s) => Can(t.caller, Permission(t), s)'
    BY <1>4, <2>3 DEF Can
  <2>5. ScopesTaken(m)' \subseteq ScopesTaken(t)
    <3>1. CASE m.op = "update" /\ m.stale \intersect {"tenant", "department"} = {}
      <4>1. /\ "tenant" \in Fields \ m.stale /\ "department" \in Fields \ m.stale
            /\ t.stale \intersect {"tenant", "department"} = {}
        BY <1>1, <3>1 DEF Fields
      <4>2. ScopeOf(attrs[t.user])' = ScopeOf(attrs[t.user])
        BY <1>1, <3>1, <4>1 DEF ScopeOf
      <4>3. ScopeOf(m.next)' = ScopeOf(t.next) /\ ScopeOf(attrs[m.user])' = ScopeOf(attrs[t.user])'
        BY <1>1 DEF ScopeOf
      <4> QED
        BY <1>1, <3>1, <4>1, <4>2, <4>3 DEF ScopesTaken
    <3>2. CASE m.op = "update" /\ m.stale \intersect {"tenant", "department"} # {}
      <4>1. ScopeOf(m.next)' = ScopeOf(t.next)
        BY <1>1 DEF ScopeOf
      <4> QED
        BY <1>1, <3>2, <4>1 DEF ScopesTaken
    <3>3. CASE m.op # "update"
      BY <1>1, <3>3 DEF ScopesTaken
    <3> QED
      BY <3>1, <3>2, <3>3
  <2> QED
    BY <2>1, <2>3, <2>4, <2>5 DEF Fresh
<1> QED
  BY <1>1, <1>2, <1>3, <1>4 DEF Fresh

\* A step that moves one handler on and writes nothing.
LEMMA GotoStep ==
    ASSUME AdminInv, NEW r \in Requests, NEW next \in {Idle, Revoking} \union Checked,
           next \in Checked => Coherent(next) /\ Fresh(next),
           Goto(r, next), UNCHANGED <<attrs, copies>>
    PROVE  AdminInv'
<1>1. task' = [task EXCEPT ![r] = next] /\ task' \in [Requests -> {Idle, Revoking} \union Checked]
  BY DEF AdminInv, TypeOK, Goto
<1>2. TypeOK'
  BY <1>1 DEF AdminInv, TypeOK, IsMap
<1>3. ASSUME NEW q \in Requests, NEW t \in Checked, task'[q] = t
      PROVE  Coherent(t) /\ Fresh(t)'
  <2>1. Coherent(t) /\ Fresh(t)
    BY <1>1, <1>3 DEF AdminInv, TypeOK
  <2>2. Onward(t, t) /\ attrs' \in [Users -> Attributes]
    BY DEF Onward, AdminInv, TypeOK
  <2>3. ClearsFloor(t.caller, Permission(t)) => ClearsFloor(t.caller, Permission(t))'
    BY DEF ClearsFloor, Permission
  <2> QED
    BY <2>1, <2>2, <2>3, Undisturbed
<1>4. ASSUME NEW q \in Requests, task'[q] \in Checked
      PROVE  Coherent(task'[q]) /\ Fresh(task[q])'
  <2>1. PICK t \in Checked : t = task'[q]
    BY <1>4
  <2>2. Coherent(t) /\ Fresh(t)'
    BY <1>3, <2>1
  <2> QED
    BY <2>1, <2>2 DEF Fresh, ScopesTaken, Pending, Permission
<1> QED
  BY <1>2, <1>4 DEF AdminInv, Coherent
LEMMA FilledTypes ==
    ASSUME NEW old \in Attributes, NEW g \in Grants
    PROVE  /\ Filled(old, g.input) \in Attributes
           /\ \A f \in DOMAIN Filled(old, g.input) \ DOMAIN g.input :
                  /\ f \in Fields
                  /\ Filled(old, g.input)[f] = old[f]
<1>1. PICK b \in Attributes : \A f \in DOMAIN g.input : b[f] = g.input[f]
  BY AdminAssumption
<1>2. Filled(old, g.input) \in Attributes
  BY <1>1 DEF Attributes, Filled
<1>3. DOMAIN Filled(old, g.input) = {"tenant", "department", "level"} /\ DOMAIN old = {"tenant", "department", "level"}
  BY <1>2 DEF Attributes
<1>4. \A f \in DOMAIN old \ DOMAIN g.input : Filled(old, g.input)[f] = old[f]
  BY DEF Filled
<1> QED
  BY <1>2, <1>3, <1>4 DEF Fields

LEMMA StartGrantStep ==
    ASSUME AdminInv, NEW r \in Requests, NEW caller \in Users, NEW g \in Grants,
           StartGrant(r, caller, g)
    PROVE  AdminInv'
<1> DEFINE old == attrs[g.user]
           new == Filled(old, g.input)
           t == [at |-> "grants", op |-> "update", caller |-> caller, user |-> g.user,
                 ask |-> AskScopes(old, new), next |-> new,
                 omits |-> DOMAIN new \ DOMAIN g.input, row |-> None, stale |-> {}]
<1>1. g.user \in Users /\ old \in Attributes
  BY AdminAssumption DEF AdminInv, TypeOK
<1>2. /\ new \in Attributes
      /\ DOMAIN new \ DOMAIN g.input \subseteq Fields
      /\ \A f \in DOMAIN new \ DOMAIN g.input : new[f] = old[f]
  BY <1>1, FilledTypes
<1> HIDE DEF new
<1>3. AskScopes(old, new) = <<ScopeOf(old), ScopeOf(new)>> /\ AskScopes(old, new) \in Seq(Scopes)
  BY <1>1, <1>2, ScopeTypes DEF AskScopes
<1>4. t \in Checked
  BY <1>1, <1>2, <1>3 DEF Checked, Ops
<1>5. Pending(t) = {ScopeOf(old), ScopeOf(new)}
  BY <1>3 DEF Pending
<1>6. ScopesTaken(t) = {ScopeOf(old), ScopeOf(new)}
  BY DEF ScopesTaken
<1>7. Coherent(t)
  BY <1>2, <1>3 DEF Coherent, Ops
<1>8. Fresh(t)
  <2>1. \A s \in ScopesTaken(t) : s \in Pending(t)
    BY <1>5, <1>6
  <2>2. t.at = "grants" /\ t.next = new /\ t.user = g.user /\ t.omits = DOMAIN new \ DOMAIN g.input
    OBVIOUS
  <2> HIDE DEF t
  <2> QED
    BY <1>2, <2>1, <2>2 DEF Fresh
<1>9. Goto(r, t) /\ UNCHANGED <<attrs, copies>>
  BY DEF StartGrant, Begin, new
<1> QED
  BY <1>4, <1>7, <1>8, <1>9, GotoStep

LEMMA StartRoleStep ==
    ASSUME AdminInv, NEW r \in Requests, NEW op \in {"create", "delete"}, NEW caller \in Users,
           NEW row \in Assignments, StartRole(r, op, caller, row)
    PROVE  AdminInv'
<1> DEFINE t == [at |-> "grants", op |-> op, caller |-> caller, user |-> row.user,
                 ask |-> <<row.scope>>, next |-> None, omits |-> {}, row |-> row, stale |-> {}]
<1>1. row \in UserRoles /\ row.user \in Users /\ row.scope \in Scopes
  BY AdminAssumption DEF UserRoles
<1>2. t \in Checked
  BY <1>1 DEF Checked, Ops
<1>3. Pending(t) = {row.scope}
  BY DEF Pending
<1>4. ScopesTaken(t) = {row.scope}
  BY DEF ScopesTaken
<1>5. Coherent(t)
  BY <1>1 DEF Coherent, Ops
<1>6. Fresh(t)
  BY <1>3, <1>4 DEF Fresh
<1>7. Goto(r, t) /\ UNCHANGED <<attrs, copies>>
  BY DEF StartRole, Begin
<1> QED
  BY <1>2, <1>5, <1>6, <1>7, GotoStep

LEMMA NoneIsFresh ==
    Idle \notin Checked /\ Revoking \notin Checked
BY CheckedIsBusy

LEMMA CheckGrantsStep ==
    ASSUME AdminInv, NEW r \in Requests, CheckGrants(r)
    PROVE  AdminInv'
<1>1. CASE HasGrant(task[r].caller, Permission(task[r]), Head(task[r].ask))
  <2> DEFINE t == task[r]
             next == [t EXCEPT !.at = "level"]
  <2>1. t \in Checked /\ t.at = "grants"
    BY BusyIsChecked DEF CheckGrants, AdminInv, TypeOK
  <2>2. Coherent(t) /\ Fresh(t)
    BY <2>1 DEF AdminInv
  <2> HIDE DEF t
  <2>3. /\ next \in Checked
        /\ next.op = t.op /\ next.caller = t.caller /\ next.user = t.user /\ next.ask = t.ask
        /\ next.next = t.next /\ next.omits = t.omits /\ next.row = t.row /\ next.stale = t.stale
        /\ next.at = "level"
    BY <2>1 DEF Checked, Ops
  <2> HIDE DEF next
  <2>4. Coherent(next)
    BY <2>1, <2>2, <2>3 DEF Coherent, Ops
  <2>5. ScopesTaken(next) = ScopesTaken(t) /\ Pending(next) = Pending(t) /\ Permission(next) = Permission(t)
    BY <2>3 DEF ScopesTaken, Pending, Permission
  <2>6. HasGrant(t.caller, Permission(t), Head(t.ask))
    BY <1>1 DEF t
  <2>7. Fresh(next)
    BY <2>2, <2>3, <2>5, <2>6 DEF Fresh
  <2>8. Goto(r, next) /\ UNCHANGED <<attrs, copies>>
    BY <1>1 DEF CheckGrants, next, t
  <2> QED
    BY <2>3, <2>4, <2>7, <2>8, GotoStep
<1>2. CASE ~HasGrant(task[r].caller, Permission(task[r]), Head(task[r].ask))
  <2>1. Goto(r, Idle) /\ UNCHANGED <<attrs, copies>>
    BY <1>2 DEF CheckGrants
  <2> QED
    BY <2>1, GotoStep, NoneIsFresh
<1> QED
  BY <1>1, <1>2

LEMMA HeadOrTail ==
    ASSUME NEW q \in Seq(Scopes), q # <<>>, NEW i \in 1..Len(q), q[i] # Head(q)
    PROVE  \E j \in 1..Len(Tail(q)) : Tail(q)[j] = q[i]
OBVIOUS

LEMMA CheckLevelStep ==
    ASSUME AdminInv, NEW r \in Requests, CheckLevel(r)
    PROVE  AdminInv'
<1>1. CASE ClearsFloor(task[r].caller, Permission(task[r]))
  <2> DEFINE t == task[r]
             at == IF Tail(t.ask) # <<>> THEN "grants" ELSE IF t.op = "create" THEN "find" ELSE t.op
             next == [t EXCEPT !.ask = Tail(@), !.at = at]
  <2>1. t \in Checked /\ t.at = "level"
    BY BusyIsChecked DEF CheckLevel, AdminInv, TypeOK
  <2>2. Coherent(t) /\ Fresh(t)
    BY <2>1 DEF AdminInv
  <2>3. Goto(r, next) /\ UNCHANGED <<attrs, copies>>
    BY <1>1 DEF CheckLevel
  <2> HIDE DEF t
  <2>4. t.op \in Ops /\ t.ask \in Seq(Scopes) /\ t.ask # <<>>
    BY <2>1, <2>2 DEF Checked, Coherent, Ops
  <2>5. at \in {"grants", "find"} \union Ops
    BY <2>4
  <2>6. Tail(t.ask) \in Seq(Scopes)
    BY <2>4
  <2>7. \A s \in Pending(t) : s = Head(t.ask) \/ \E i \in 1..Len(Tail(t.ask)) : Tail(t.ask)[i] = s
    BY <2>4, HeadOrTail DEF Pending
  <2>8. /\ at = "grants" => Tail(t.ask) # <<>>
        /\ at \in Ops \union {"find"} => Tail(t.ask) = <<>>
        /\ at \in Ops => at = t.op /\ t.op # "create"
        /\ at = "find" => t.op = "create"
    BY <2>4 DEF Ops
  <2> HIDE DEF at
  <2>9. /\ next \in Checked
        /\ next.op = t.op /\ next.caller = t.caller /\ next.user = t.user /\ next.ask = Tail(t.ask)
        /\ next.next = t.next /\ next.omits = t.omits /\ next.row = t.row /\ next.stale = t.stale
        /\ next.at = at
    BY <2>1, <2>5, <2>6 DEF Checked
  <2> HIDE DEF next
  <2>10. Coherent(next)
    BY <2>2, <2>5, <2>8, <2>9 DEF Coherent, Ops
  <2>11. ScopesTaken(next) = ScopesTaken(t) /\ Permission(next) = Permission(t)
    BY <2>9 DEF ScopesTaken, Permission
  <2>12. \A s \in Pending(t) : s = Head(t.ask) \/ s \in Pending(next)
    BY <2>7, <2>9 DEF Pending
  <2>13. "caller" \notin t.stale => Can(t.caller, Permission(t), Head(t.ask))
    BY <1>1, <2>1, <2>2 DEF Fresh, Can, t
  <2>14. "caller" \notin t.stale => \A s \in ScopesTaken(next) : s \in Pending(next) \/ Can(next.caller, Permission(next), s)
    BY <2>2, <2>9, <2>11, <2>12, <2>13 DEF Fresh
  <2>15. next.at # "level" /\ next.at # "create"
    BY <2>5, <2>8, <2>9 DEF Ops
  <2>16. Fresh(next)
    BY <2>2, <2>9, <2>14, <2>15 DEF Fresh
  <2> QED
    BY <2>3, <2>9, <2>10, <2>16, GotoStep
<1>2. CASE ~ClearsFloor(task[r].caller, Permission(task[r]))
  <2>1. Goto(r, Idle) /\ UNCHANGED <<attrs, copies>>
    BY <1>2 DEF CheckLevel
  <2> QED
    BY <2>1, GotoStep, NoneIsFresh
<1> QED
  BY <1>1, <1>2

LEMMA FindStep ==
    ASSUME AdminInv, NEW r \in Requests, Find(r)
    PROVE  AdminInv'
<1>1. CASE task[r].row \notin DOMAIN copies
  <2> DEFINE t == task[r]
             next == [t EXCEPT !.at = "create"]
  <2>1. t \in Checked /\ t.at = "find"
    BY BusyIsChecked DEF Find, AdminInv, TypeOK
  <2>2. Coherent(t) /\ Fresh(t)
    BY <2>1 DEF AdminInv
  <2>3. Goto(r, next) /\ UNCHANGED <<attrs, copies>>
    BY <1>1 DEF Find
  <2>4. t.row \notin DOMAIN copies
    BY <1>1
  <2> HIDE DEF t
  <2>5. /\ next \in Checked
        /\ next.op = t.op /\ next.caller = t.caller /\ next.user = t.user /\ next.ask = t.ask
        /\ next.next = t.next /\ next.omits = t.omits /\ next.row = t.row /\ next.stale = t.stale
        /\ next.at = "create"
    BY <2>1 DEF Checked, Ops
  <2> HIDE DEF next
  <2>6. Coherent(next)
    BY <2>1, <2>2, <2>5 DEF Coherent, Ops
  <2>7. ScopesTaken(next) = ScopesTaken(t) /\ Pending(next) = Pending(t) /\ Permission(next) = Permission(t)
    BY <2>5 DEF ScopesTaken, Pending, Permission
  <2>8. Fresh(next)
    BY <2>2, <2>4, <2>5, <2>7 DEF Fresh
  <2> QED
    BY <2>3, <2>5, <2>6, <2>8, GotoStep
<1>2. CASE task[r].row \in DOMAIN copies
  <2>1. Goto(r, Revoking) /\ UNCHANGED <<attrs, copies>>
    BY <1>2 DEF Find
  <2> QED
    BY <2>1, GotoStep, NoneIsFresh
<1> QED
  BY <1>1, <1>2
----------------------------------------------------------------------------
(* The writes                                                              *)

\* A write leaves the others' handlers at their next steps, and marks what it
\* has outdated.
LEMMA OutdatedTypes ==
    ASSUME NEW t \in {Idle, Revoking} \union Checked, NEW parts \in SUBSET (Fields \union {"caller"}),
           NEW m, m = Outdated(t, parts)
    PROVE  /\ m \in {Idle, Revoking} \union Checked
           /\ m \in Checked => t \in Checked /\ Onward(t, m) /\ m.stale = t.stale \union parts
<1>1. CASE t \in {Idle, Revoking}
  BY <1>1, NoneIsFresh DEF Outdated
<1>2. CASE t \in Checked
  <2>1. m = [t EXCEPT !.stale = @ \union parts]
    BY <1>2, NoneIsFresh DEF Outdated
  <2>2. m \in Checked
    BY <1>2, <2>1 DEF Checked
  <2>3. Onward(t, m) /\ m.stale = t.stale \union parts
    BY <1>2, <2>1 DEF Checked, Onward
  <2> QED
    BY <1>2, <2>2, <2>3
<1> QED
  BY <1>1, <1>2

\* A write of r, after which the handlers of the others are outdated by what
\* they depend on.
LEMMA WriteStep ==
    ASSUME AdminInv, NEW r \in Requests, NEW parts,
           task' = [q \in Requests |-> IF q = r THEN Revoking ELSE Outdated(task[q], parts[q])],
           \A q \in Requests : parts[q] \in SUBSET (Fields \union {"caller"}),
           attrs' \in [Users -> Attributes],
           IsMap(copies', UserRoles, Nat \ {0}),
           \A x \in DOMAIN copies' : copies'[x] > 1 => x.scope.tenant = None \/ x.scope.department = None,
           \A q \in Requests : q # r /\ task[q] \in Checked =>
               /\ "caller" \notin parts[q] =>
                      /\ \A row \in DOMAIN copies : row.user = task[q].caller => row \in DOMAIN copies'
                      /\ ClearsFloor(task[q].caller, Permission(task[q])) =>
                             attrs'[task[q].caller].level >= MinLevel[Permission(task[q])]
               /\ task[q].op = "update" =>
                      \A f \in Fields \ parts[q] : attrs'[task[q].user][f] = attrs[task[q].user][f]
    PROVE  AdminInv'
<1>1. ASSUME NEW q \in Requests, NEW m, m = task'[q]
      PROVE  /\ m \in {Idle, Revoking} \union Checked
             /\ m \in Checked => Coherent(m) /\ Fresh(m)'
  <2>1. CASE q = r
    BY <1>1, <2>1, NoneIsFresh
  <2>2. CASE q # r
    <3>1. PICK t \in {Idle, Revoking} \union Checked : t = task[q]
      BY DEF AdminInv, TypeOK
    <3>2. t \in Checked => Coherent(t) /\ Fresh(t)
      BY <3>1 DEF AdminInv
    <3>3. m = Outdated(t, parts[q])
      BY <1>1, <2>2, <3>1
    <3>4. /\ m \in {Idle, Revoking} \union Checked
          /\ m \in Checked => t \in Checked /\ Onward(t, m) /\ m.stale = t.stale \union parts[q]
      BY <3>3, OutdatedTypes
    <3>5. CASE m \in Checked
      <4>1. /\ "caller" \notin m.stale =>
                   /\ \A row \in DOMAIN copies : row.user = t.caller => row \in DOMAIN copies'
                   /\ ClearsFloor(t.caller, Permission(t)) =>
                          attrs'[t.caller].level >= MinLevel[Permission(t)]
            /\ t.op = "update" => \A f \in Fields \ m.stale : attrs'[t.user][f] = attrs[t.user][f]
        BY <2>2, <3>1, <3>4, <3>5
      <4>2. ClearsFloor(t.caller, Permission(t))' <=> attrs'[t.caller].level >= MinLevel[Permission(t)]
        BY DEF ClearsFloor, Permission
      <4>3. Fresh(m)'
        BY <3>2, <3>4, <3>5, <4>1, <4>2, Undisturbed
      <4> QED
        BY <3>2, <3>4, <3>5, <4>3, OnwardCoherent
    <3> QED
      BY <3>4, <3>5
  <2> QED
    BY <2>1, <2>2
<1>2. task' \in [Requests -> {Idle, Revoking} \union Checked]
  BY <1>1
<1>3. TypeOK'
  BY <1>2 DEF TypeOK
<1>4. ASSUME NEW q \in Requests, task'[q] \in Checked
      PROVE  Coherent(task'[q]) /\ Fresh(task[q])'
  <2>1. PICK m \in Checked : m = task'[q]
    BY <1>4
  <2>2. Coherent(m) /\ Fresh(m)'
    BY <1>1, <2>1
  <2> QED
    BY <2>1, <2>2 DEF Fresh, ScopesTaken, Pending, Permission
<1> QED
  BY <1>3, <1>4 DEF AdminInv, Coherent

LEMMA UpdateStep ==
    ASSUME AdminInv, NEW r \in Requests, Update(r)
    PROVE  AdminInv'
<1> DEFINE t == task[r]
           u == t.user
           next == t.next
           parts == [q \in Requests |-> ByGrant(task[q], u, next)]
<1>1. t \in Checked /\ t.at = "update"
  BY BusyIsChecked DEF Update, AdminInv, TypeOK
<1>2. u \in Users /\ next \in Attributes
  BY <1>1 DEF AdminInv, Coherent, Ops, Checked
<1>3. attrs' = [attrs EXCEPT ![u] = next] /\ attrs' \in [Users -> Attributes] /\ copies' = copies
  BY <1>2 DEF Update, AdminInv, TypeOK
<1>4. task' = [q \in Requests |-> IF q = r THEN Revoking ELSE Outdated(task[q], ByGrant(task[q], u, next))]
  BY DEF Update
<1> HIDE DEF u, next, t
<1>5. \A q \in Requests : parts[q] = ByGrant(task[q], u, next)
  OBVIOUS
<1>6. \A q \in Requests : parts[q] \in SUBSET (Fields \union {"caller"})
  BY <1>5 DEF ByGrant
<1>7. task' = [q \in Requests |-> IF q = r THEN Revoking ELSE Outdated(task[q], parts[q])]
  BY <1>4
<1> HIDE DEF parts
<1>8. ASSUME NEW q \in Requests, task[q] \in Checked
      PROVE  /\ "caller" \notin parts[q] =>
                    /\ \A row \in DOMAIN copies : row.user = task[q].caller => row \in DOMAIN copies'
                    /\ ClearsFloor(task[q].caller, Permission(task[q])) =>
                           attrs'[task[q].caller].level >= MinLevel[Permission(task[q])]
             /\ task[q].op = "update" =>
                    \A f \in Fields \ parts[q] : attrs'[task[q].user][f] = attrs[task[q].user][f]
  <2>1. PICK s \in Checked : s = task[q]
    BY <1>8
  <2>2. s.caller \in Users /\ s.user \in Users /\ Permission(s) \in Permissions
    BY DEF Checked, Permission, Permissions
  <2>3. attrs'[s.caller].level \in Nat /\ MinLevel[Permission(s)] \in Nat
    BY <1>3, <2>2, RoleTypes, AdminAssumption DEF Attributes
  <2>4. ASSUME "caller" \notin parts[q], ClearsFloor(s.caller, Permission(s))
        PROVE  attrs'[s.caller].level >= MinLevel[Permission(s)]
    <3>1. CASE s.caller = u
      <4>1. attrs'[s.caller] = next
        BY <1>2, <1>3, <3>1 DEF AdminInv, TypeOK
      <4>2. ~(next.level < MinLevel[Permission(s)])
        BY <1>5, <2>1, <2>4, <3>1 DEF ByGrant
      <4> QED
        BY <2>3, <4>1, <4>2
    <3>2. CASE s.caller # u
      <4>1. attrs'[s.caller] = attrs[s.caller]
        BY <1>3, <2>2, <3>2 DEF AdminInv, TypeOK
      <4> QED
        BY <2>4, <4>1 DEF ClearsFloor
    <3> QED
      BY <3>1, <3>2
  <2>5. ASSUME s.op = "update", NEW f \in Fields \ parts[q]
        PROVE  attrs'[s.user][f] = attrs[s.user][f]
    <3>1. CASE s.user = u
      <4>1. attrs'[s.user] = next
        BY <1>2, <1>3, <3>1 DEF AdminInv, TypeOK
      <4>2. next[f] = attrs[u][f]
        BY <1>5, <2>1, <2>5, <3>1 DEF ByGrant
      <4> QED
        BY <3>1, <4>1, <4>2
    <3>2. CASE s.user # u
      BY <1>3, <2>2, <3>2 DEF AdminInv, TypeOK
    <3> QED
      BY <3>1, <3>2
  <2> QED
    BY <1>3, <2>1, <2>4, <2>5
<1>9. /\ IsMap(copies', UserRoles, Nat \ {0})
      /\ \A x \in DOMAIN copies' : copies'[x] > 1 => x.scope.tenant = None \/ x.scope.department = None
  BY <1>3 DEF AdminInv, TypeOK
<1> QED
  BY <1>3, <1>6, <1>7, <1>8, <1>9, WriteStep

LEMMA CreateStep ==
    ASSUME AdminInv, NEW r \in Requests, Create(r)
    PROVE  AdminInv'
<1> DEFINE row == task[r].row
           count == IF row \in DOMAIN copies THEN copies[row] ELSE 0
           parts == [q \in Requests |-> {}]
<1>1. row \in UserRoles
  <2>1. task[r] \in Checked /\ task[r].at = "create"
    BY BusyIsChecked DEF Create, AdminInv, TypeOK
  <2> QED
    BY <2>1 DEF AdminInv, Coherent, Ops
<1>2. CASE Refused(row)
  <2>1. Goto(r, Idle) /\ UNCHANGED <<attrs, copies>>
    BY <1>2 DEF Create
  <2> QED
    BY <2>1, GotoStep, NoneIsFresh
<1>3. CASE ~Refused(row)
  <2>1. Goto(r, Revoking) /\ copies' = Put(copies, row, count + 1) /\ attrs' = attrs
    BY <1>3 DEF Create
  <2>2. count \in Nat /\ (count > 0 => row \in DOMAIN copies)
    BY DEF AdminInv, TypeOK, IsMap
  <2> HIDE DEF count
  <2>3. count > 0 => row.scope.tenant = None \/ row.scope.department = None
    BY <1>3, <2>2 DEF Refused
  <2>4. /\ IsMap(copies', UserRoles, Nat \ {0})
        /\ \A x \in DOMAIN copies' : copies'[x] > 1 => x.scope.tenant = None \/ x.scope.department = None
        /\ DOMAIN copies \subseteq DOMAIN copies'
    BY <1>1, <2>1, <2>2, <2>3 DEF AdminInv, TypeOK, IsMap, Put
  <2>5. ASSUME NEW q \in Requests
        PROVE  Outdated(task[q], {}) = task[q]
    <3>1. CASE task[q] \in Checked
      <4>1. task[q].stale \union {} = task[q].stale
        OBVIOUS
      <4>2. [task[q] EXCEPT !.stale = task[q].stale] = task[q]
        BY <3>1 DEF Checked
      <4> QED
        BY <4>1, <4>2 DEF Outdated
    <3>2. CASE task[q] \in {Idle, Revoking}
      BY <3>2 DEF Outdated
    <3> QED
      BY <3>1, <3>2 DEF AdminInv, TypeOK
  <2>6. task' = [q \in Requests |-> IF q = r THEN Revoking ELSE Outdated(task[q], parts[q])]
    BY <2>1, <2>5 DEF Goto, AdminInv, TypeOK
  <2>7. attrs' \in [Users -> Attributes] /\ \A q \in Requests : parts[q] \in SUBSET (Fields \union {"caller"})
    BY <2>1 DEF AdminInv, TypeOK
  <2>8. \A q \in Requests : ClearsFloor(task[q].caller, Permission(task[q])) =>
                                attrs'[task[q].caller].level >= MinLevel[Permission(task[q])]
    BY <2>1 DEF ClearsFloor
  <2> HIDE DEF parts
  <2> QED
    BY <2>1, <2>4, <2>6, <2>7, <2>8, WriteStep
<1> QED
  BY <1>2, <1>3

LEMMA DeleteStep ==
    ASSUME AdminInv, NEW r \in Requests, Delete(r)
    PROVE  AdminInv'
<1> DEFINE row == task[r].row
           parts == [q \in Requests |-> ByRemoval(task[q], row)]
<1>1. copies' = Drop(copies, {row}) /\ attrs' = attrs
  BY DEF Delete
<1>2. task' = [q \in Requests |-> IF q = r THEN Revoking ELSE Outdated(task[q], ByRemoval(task[q], row))]
  BY DEF Delete
<1> HIDE DEF row
<1>3. \A q \in Requests : parts[q] = ByRemoval(task[q], row)
  OBVIOUS
<1>4. \A q \in Requests : parts[q] \in SUBSET (Fields \union {"caller"})
  BY <1>3 DEF ByRemoval
<1>5. task' = [q \in Requests |-> IF q = r THEN Revoking ELSE Outdated(task[q], parts[q])]
  BY <1>2
<1> HIDE DEF parts
<1>6. /\ IsMap(copies', UserRoles, Nat \ {0})
      /\ \A x \in DOMAIN copies' : copies'[x] > 1 => x.scope.tenant = None \/ x.scope.department = None
      /\ DOMAIN copies' = DOMAIN copies \ {row}
  BY <1>1 DEF AdminInv, TypeOK, IsMap, Drop, Restrict
<1>7. ASSUME NEW q \in Requests, "caller" \notin parts[q], NEW x \in DOMAIN copies, x.user = task[q].caller
      PROVE  x \in DOMAIN copies'
  BY <1>3, <1>6, <1>7 DEF ByRemoval
<1>8. \A q \in Requests : ClearsFloor(task[q].caller, Permission(task[q])) =>
                              attrs'[task[q].caller].level >= MinLevel[Permission(task[q])]
  BY <1>1 DEF ClearsFloor
<1>9. attrs' \in [Users -> Attributes]
  BY <1>1 DEF AdminInv, TypeOK
<1> QED
  BY <1>1, <1>4, <1>5, <1>6, <1>7, <1>8, <1>9, WriteStep

LEMMA RestartStep ==
    ASSUME AdminInv, Restart
    PROVE  AdminInv'
<1>1. attrs' \in [Users -> Attributes]
  BY AdminAssumption DEF AdminInv, TypeOK, Restart, Seeded, IsMap
<1>2. AdminRow \in UserRoles /\ AdminRow.scope.tenant = None
  BY AdminAssumption DEF AdminRow, UserRoles, Roles, Scopes, Global, IsMap
<1>3. /\ IsMap(copies', UserRoles, Nat \ {0})
      /\ \A x \in DOMAIN copies' :
             copies'[x] > 1 => x.scope.tenant = None \/ x.scope.department = None
  BY <1>2 DEF AdminInv, TypeOK, Restart, WithAdmin, Put, IsMap
<1>4. task' \in [Requests -> {Idle, Revoking} \union Checked] /\ \A q \in Requests : task'[q] \notin Checked
  BY NoneIsFresh DEF Restart
<1> QED
  BY <1>1, <1>3, <1>4 DEF AdminInv, TypeOK
----------------------------------------------------------------------------
(* The specification                                                       *)

LEMMA InitSound == Init => AdminInv
<1> SUFFICES ASSUME Init
             PROVE  AdminInv
  OBVIOUS
<1>1. attrs \in [Users -> Attributes]
  BY AdminAssumption DEF Init, Seeded, IsMap
<1>2. AdminRow \in UserRoles
  BY AdminAssumption DEF AdminRow, UserRoles, Roles, Scopes, Global, IsMap
<1>3. /\ IsMap(copies, UserRoles, Nat \ {0})
      /\ \A x \in DOMAIN copies : copies[x] = 1
  BY <1>2 DEF Init, Put, EmptyMap, IsMap
<1>4. task \in [Requests -> {Idle, Revoking} \union Checked] /\ \A q \in Requests : task[q] \notin Checked
  BY NoneIsFresh DEF Init
<1> QED
  BY <1>1, <1>3, <1>4 DEF AdminInv, TypeOK

LEMMA AdminStep == AdminInv /\ [Next]_vars => AdminInv'
<1> SUFFICES ASSUME AdminInv, [Next]_vars
             PROVE  AdminInv'
  OBVIOUS
<1>1. ASSUME NEW r \in Requests, NEW caller \in Users, NEW g \in Grants, StartGrant(r, caller, g)
      PROVE  AdminInv'
  BY <1>1, StartGrantStep
<1>2. ASSUME NEW r \in Requests, NEW op \in {"create", "delete"}, NEW caller \in Users,
             NEW row \in Assignments, StartRole(r, op, caller, row)
      PROVE  AdminInv'
  BY <1>2, StartRoleStep
<1>3. ASSUME NEW r \in Requests,
             CheckGrants(r) \/ CheckLevel(r) \/ Find(r)
      PROVE  AdminInv'
  BY <1>3, CheckGrantsStep, CheckLevelStep, FindStep
<1>4. ASSUME NEW r \in Requests,
             Update(r) \/ Create(r) \/ Delete(r)
      PROVE  AdminInv'
  BY <1>4, UpdateStep, CreateStep, DeleteStep
<1>5. ASSUME NEW r \in Requests, Revoke(r) \/ Fail(r)
      PROVE  AdminInv'
  BY <1>5, GotoStep, NoneIsFresh DEF Revoke, Fail
<1>6. CASE Restart
  BY <1>6, RestartStep
<1>7. CASE UNCHANGED vars
  <2>1. TypeOK'
    BY <1>7 DEF vars, AdminInv, TypeOK
  <2>2. ASSUME NEW q \in Requests, task'[q] \in Checked
        PROVE  Coherent(task'[q]) /\ Fresh(task[q])'
    <3>1. PICK m \in Checked : m = task[q] /\ m = task'[q]
      BY <1>7, <2>2 DEF vars
    <3>2. Coherent(m) /\ Fresh(m)
      BY <3>1 DEF AdminInv
    <3>3. Fresh(m)'
      <4>1. Onward(m, m) /\ attrs' \in [Users -> Attributes]
        BY <1>7 DEF Onward, vars, AdminInv, TypeOK
      <4>2. ClearsFloor(m.caller, Permission(m)) => ClearsFloor(m.caller, Permission(m))'
        BY <1>7 DEF ClearsFloor, Permission, vars
      <4> QED
        BY <1>7, <3>2, <4>1, <4>2, Undisturbed DEF vars
    <3> QED
      BY <3>1, <3>2, <3>3 DEF Fresh, ScopesTaken, Pending, Permission
  <2> QED
    BY <2>1, <2>2 DEF AdminInv, Coherent
<1> QED
  BY <1>1, <1>2, <1>3, <1>4, <1>5, <1>6, <1>7 DEF Next, Serve

\* The inductive invariant: what a handler has read and checked is still so at
\* every step of its chain of queries, except for what others have outdated.
THEOREM AdministrationSound == Spec => []AdminInv
<1>1. Init => AdminInv
  BY InitSound
<1>2. AdminInv /\ [Next]_vars => AdminInv'
  BY AdminStep
<1> QED
  BY <1>1, <1>2, PTL DEF Spec

\* Attributes and rows stay what the tables hold, and only a row with a null
\* in its scope is ever there twice.
THEOREM TypeCorrect == Spec => []TypeOK
<1>1. AdminInv => TypeOK
  BY DEF AdminInv
<1> QED
  BY <1>1, AdministrationSound, PTL

\* A grant of u: the assignment it comes from.
LEMMA GrantRow ==
    ASSUME NEW u, NEW g \in EffectiveGrants(u)
    PROVE  \E row \in DOMAIN copies :
               row.user = u /\ g.permission \in PermsForRole[row.role] /\ g.scope = row.scope
BY DEF EffectiveGrants

\* Whoever may change a user's attributes can list that user.
THEOREM GrantableUsersAreVisible == Spec => []GrantableIsVisible
<1>1. ASSUME TypeOK, NEW caller \in Users, NEW u \in Users,
             Can(caller, "users:grant", ScopeOf(attrs[u]))
      PROVE  u \in Listed(caller)
  <2>1. PICK g \in EffectiveGrants(caller) :
            g.permission = "users:grant" /\ Covers(g.scope, ScopeOf(attrs[u]))
    BY <1>1 DEF Can, HasGrant
  <2>2. PICK row \in DOMAIN copies :
            row.user = caller /\ "users:grant" \in PermsForRole[row.role] /\ g.scope = row.scope
    BY <2>1, GrantRow
  <2>3. row.role \in Roles
    BY <1>1, <2>2 DEF TypeOK, IsMap, UserRoles
  <2>4. "users:read" \in PermsForRole[row.role]
    BY <2>2, <2>3, RolePermissions
  <2>5. [permission |-> "users:read", scope |-> row.scope] \in EffectiveGrants(caller)
    BY <2>2, <2>4 DEF EffectiveGrants
  <2>6. row.scope \in ScopesFor(caller, "users:read")
    BY <2>5 DEF ScopesFor
  <2>7. Where(row.scope, attrs[u])
    BY <2>1, <2>2 DEF Covers, ScopeOf, Where
  <2> QED
    BY <2>6, <2>7 DEF Listed
<1>2. TypeOK => GrantableIsVisible
  BY <1>1 DEF GrantableIsVisible
<1> QED
  BY <1>2, TypeCorrect, PTL

\* can() is right: who passes its two queries holds the permission by
\* definition.
LEMMA CanHolds ==
    ASSUME TypeOK, NEW u, NEW p, NEW s, Can(u, p, s)
    PROVE  Holds(u, p, s)
<1>1. PICK g \in EffectiveGrants(u) : g.permission = p /\ Covers(g.scope, s)
  BY DEF Can, HasGrant
<1>2. PICK row \in DOMAIN copies :
          row.user = u /\ p \in PermsForRole[row.role] /\ g.scope = row.scope
  BY <1>1, GrantRow
<1>3. row.role \in Roles
  BY <1>2 DEF TypeOK, IsMap, UserRoles
<1>4. \E a \in Inherits(row.role) : p \in DirectPermissions[a]
  BY <1>2, <1>3, PermsInherited
<1>5. /\ row.scope.tenant # None => row.scope.tenant = s.tenant
      /\ row.scope.department # None => row.scope.department = s.department
  BY <1>1, <1>2 DEF Covers
<1>6. attrs[u].level >= MinLevel[p]
  BY DEF Can, ClearsFloor
<1> QED
  BY <1>2, <1>4, <1>5, <1>6 DEF Holds

\* Only its write makes a handler that is about to write revoke sessions.
LEMMA WriterStep ==
    ASSUME AdminInv, [Next]_vars, NEW r \in Requests, task[r].at \in Ops, task'[r] = Revoking
    PROVE  /\ task[r] \in Checked /\ task[r].at = task[r].op
           /\ \/ task[r].at = "update" /\ Update(r)
              \/ task[r].at = "create" /\ Create(r) /\ ~Refused(task[r].row)
              \/ task[r].at = "delete" /\ Delete(r)
<1>1. task[r] \in Checked
  BY BusyIsChecked DEF AdminInv, TypeOK, Ops
<1>2. task[r].at = task[r].op
  BY <1>1 DEF AdminInv, Coherent
<1>3. task[r] # Revoking /\ Idle # Revoking
  BY <1>1, CheckedIsBusy DEF Idle, Revoking
<1>4. \A q \in Requests : \A n : Goto(q, n) => q = r /\ n = Revoking
  BY <1>3 DEF Goto, AdminInv, TypeOK
<1>5. ASSUME NEW q \in Requests, NEW parts, q # r
      PROVE  task'[r] # Outdated(task[r], parts)
  <2>1. [task[r] EXCEPT !.stale = @ \union parts].at = task[r].at
    BY <1>1 DEF Checked
  <2>2. [task[r] EXCEPT !.stale = @ \union parts] # Revoking
    BY <2>1 DEF Ops, Revoking
  <2> QED
    BY <1>3, <2>2 DEF Outdated
<1>6. ASSUME NEW q \in Requests, Update(q) \/ Create(q) \/ Delete(q)
      PROVE  q = r
  <2>1. CASE Update(q)
    BY <1>5, <2>1 DEF Update
  <2>2. CASE Create(q)
    BY <1>3, <1>4, <2>2 DEF Create
  <2>3. CASE Delete(q)
    BY <1>5, <2>3 DEF Delete
  <2> QED
    BY <1>6, <2>1, <2>2, <2>3
<1>7. Update(r) \/ Create(r) \/ Delete(r)
  <2>1. ASSUME NEW q \in Requests, NEW caller \in Users, NEW g \in Grants
        PROVE  ~StartGrant(q, caller, g)
    BY <1>3, <1>4, NoneIsFresh, <1>1 DEF StartGrant, Begin
  <2>2. ASSUME NEW q \in Requests, NEW op, NEW caller \in Users, NEW row \in Assignments
        PROVE  ~StartRole(q, op, caller, row)
    BY <1>3, <1>4, NoneIsFresh, <1>1 DEF StartRole, Begin
  <2>3. ASSUME NEW q \in Requests
        PROVE  ~CheckGrants(q)
    BY <1>3, <1>4, <1>1 DEF CheckGrants, Ops
  <2>4. ASSUME NEW q \in Requests
        PROVE  ~CheckLevel(q)
    BY <1>3, <1>4, <1>1 DEF CheckLevel, Ops
  <2>5. ASSUME NEW q \in Requests
        PROVE  ~Find(q)
    BY <1>3, <1>4, <1>1 DEF Find, Ops
  <2>6. ASSUME NEW q \in Requests
        PROVE  ~Revoke(q) /\ ~Fail(q)
    BY <1>3, <1>4 DEF Revoke, Fail
  <2>7. ~Restart /\ ~UNCHANGED vars
    BY <1>3 DEF Restart, vars
  <2> QED
    BY <1>6, <2>1, <2>2, <2>3, <2>4, <2>5, <2>6, <2>7 DEF Next, Serve
<1>8. Create(r) => ~Refused(task[r].row)
  BY <1>3, <1>4 DEF Create
<1> QED
  BY <1>1, <1>2, <1>7, <1>8 DEF Update, Create, Delete

\* What the caller of a handler that writes has been checked for, and still
\* holds unless it lost something since.
LEMMA WriterIsChecked ==
    ASSUME AdminInv, NEW r \in Requests, task[r] \in Checked, task[r].at \in Ops,
           "caller" \notin task[r].stale
    PROVE  \A s \in ScopesTaken(task[r]) : Can(task[r].caller, Permission(task[r]), s)
<1>1. task[r].ask = <<>>
  BY DEF AdminInv, Coherent
<1>2. Pending(task[r]) = {}
  BY <1>1 DEF Pending
<1> QED
  BY <1>2 DEF AdminInv, Fresh

\* A handler writes only what its caller, if it has lost nothing since the
\* check, holds the permission for.
THEOREM WritesAuthorised == Spec => WritesAreAuthorised
<1> DEFINE Authorised(r) ==
               LET t == task[r]
               IN  /\ t.at \in Ops
                   /\ task'[r] = Revoking
                   /\ "caller" \notin t.stale
                   => IF t.op = "update"
                      THEN /\ Holds(t.caller, "users:grant", ScopeOf(attrs'[t.user]))
                           /\ t.stale \intersect {"tenant", "department"} = {} =>
                                  Holds(t.caller, "users:grant", ScopeOf(attrs[t.user]))
                      ELSE Holds(t.caller, "users:assign-role", t.row.scope)
<1>1. ASSUME AdminInv, [Next]_vars, NEW r \in Requests
      PROVE  Authorised(r)
  <2> SUFFICES ASSUME task[r].at \in Ops, task'[r] = Revoking, "caller" \notin task[r].stale
               PROVE  IF task[r].op = "update"
                      THEN /\ Holds(task[r].caller, "users:grant", ScopeOf(attrs'[task[r].user]))
                           /\ task[r].stale \intersect {"tenant", "department"} = {} =>
                                  Holds(task[r].caller, "users:grant", ScopeOf(attrs[task[r].user]))
                      ELSE Holds(task[r].caller, "users:assign-role", task[r].row.scope)
    OBVIOUS
  <2>1. task[r] \in Checked /\ task[r].at = task[r].op /\ (task[r].at = "update" => Update(r))
    BY <1>1, WriterStep
  <2>2. \A s \in ScopesTaken(task[r]) : Holds(task[r].caller, Permission(task[r]), s)
    BY <1>1, <2>1, WriterIsChecked, CanHolds DEF AdminInv
  <2>3. CASE task[r].op = "update"
    <3>1. task[r].user \in Users /\ attrs' = [attrs EXCEPT ![task[r].user] = task[r].next]
      BY <2>1, <2>3 DEF Update, Checked
    <3>2. attrs'[task[r].user] = task[r].next
      BY <1>1, <3>1 DEF AdminInv, TypeOK
    <3>3. /\ ScopeOf(task[r].next) \in ScopesTaken(task[r])
          /\ task[r].stale \intersect {"tenant", "department"} = {} =>
                 ScopeOf(attrs[task[r].user]) \in ScopesTaken(task[r])
      BY <2>3 DEF ScopesTaken
    <3> QED
      BY <2>2, <2>3, <3>2, <3>3 DEF Permission
  <2>4. CASE task[r].op # "update"
    BY <2>2, <2>4 DEF ScopesTaken, Permission
  <2> QED
    BY <2>3, <2>4
<1>2. AdminInv /\ [Next]_vars => [\A r \in Requests : Authorised(r)]_vars
  BY <1>1
<1> QED
  BY <1>2, AdministrationSound, PTL DEF Spec, WritesAreAuthorised

\* A grant leaves the fields it omits as they are, except for one that was
\* changed after it was read.
THEOREM OmittedFieldsAreKept == Spec => OmittedFieldsKept
<1>1. ASSUME AdminInv, [Next]_vars, NEW r \in Requests, task[r].at = "update", task'[r] = Revoking,
             NEW f \in task[r].omits \ task[r].stale
      PROVE  attrs'[task[r].user][f] = attrs[task[r].user][f]
  <2>1. task[r] \in Checked /\ task[r].op = "update" /\ Update(r)
    BY <1>1, WriterStep DEF Ops
  <2>2. task[r].next[f] = attrs[task[r].user][f]
    BY <1>1, <2>1 DEF AdminInv, Fresh
  <2>3. task[r].user \in Users /\ attrs' = [attrs EXCEPT ![task[r].user] = task[r].next]
    BY <2>1 DEF Update, Checked
  <2>4. attrs'[task[r].user] = task[r].next
    BY <1>1, <2>3 DEF AdminInv, TypeOK
  <2> QED
    BY <2>2, <2>4
<1>2. AdminInv /\ [Next]_vars =>
          [\A r \in Requests :
              LET t == task[r]
              IN  t.at = "update" /\ task'[r] = Revoking =>
                      \A f \in t.omits \ t.stale : attrs'[t.user][f] = attrs[t.user][f]]_vars
  BY <1>1
<1> QED
  BY <1>2, AdministrationSound, PTL DEF Spec, OmittedFieldsKept

----------------------------------------------------------------------------
(* Copies of a row                                                         *)

LEMMA CreatorsFinite ==
    ASSUME NEW x
    PROVE  /\ IsFiniteSet(Creators(x)) /\ Cardinality(Creators(x)) \in Nat
           /\ Cardinality(Creators(x)) <= Cardinality(Requests) /\ Cardinality(Requests) \in Nat
<1>1. IsFiniteSet(Requests) /\ Creators(x) \subseteq Requests
  BY AdminAssumption DEF Creators
<1> QED
  BY <1>1, FS_Subset, FS_CardinalityType

\* A row that has no more copies and no more creators than before is bounded.
LEMMA NoMoreCopies ==
    ASSUME AdminInv, AdminInv', CopiesAreBounded, NEW x \in DOMAIN copies', x \in DOMAIN copies,
           copies'[x] = copies[x], Creators(x)' \subseteq Creators(x)
    PROVE  copies'[x] + Cardinality(Creators(x)') <= Cardinality(Requests)
<1>1. Cardinality(Creators(x)') \in Nat /\ Cardinality(Creators(x)') <= Cardinality(Creators(x))
  BY CreatorsFinite, FS_Subset, FS_CardinalityType
<1>2. copies[x] \in Nat /\ copies[x] + Cardinality(Creators(x)) <= Cardinality(Requests)
  BY DEF AdminInv, TypeOK, IsMap, CopiesAreBounded
<1> QED
  BY <1>1, <1>2, CreatorsFinite

\* A handler that does not go on to create makes no creator.
LEMMA NoNewCreator ==
    ASSUME AdminInv, NEW r \in Requests, NEW next, Goto(r, next), next.at # "create", NEW x
    PROVE  Creators(x)' \subseteq Creators(x)
BY DEF Goto, Creators, AdminInv, TypeOK

\* Others that write make no creator either.
LEMMA NoNewCreatorByWrite ==
    ASSUME AdminInv, NEW r \in Requests, NEW parts, NEW x,
           task' = [q \in Requests |-> IF q = r THEN Revoking ELSE Outdated(task[q], parts[q])]
    PROVE  Creators(x)' \subseteq Creators(x)
<1>1. ASSUME NEW q \in Requests, task'[q].at = "create", task'[q].row = x
      PROVE  task[q].at = "create" /\ task[q].row = x
  <2>1. CASE q = r
    BY <1>1, <2>1 DEF Revoking
  <2>2. CASE q # r /\ task[q] \in {Idle, Revoking}
    BY <1>1, <2>2 DEF Outdated
  <2>3. CASE q # r /\ task[q] \in Checked
    <3>1. task'[q] = [task[q] EXCEPT !.stale = @ \union parts[q]]
      BY <2>3, NoneIsFresh DEF Outdated
    <3>2. task'[q].at = task[q].at /\ task'[q].row = task[q].row
      BY <2>3, <3>1 DEF Checked
    <3> QED
      BY <1>1, <3>2
  <2> QED
    BY <2>1, <2>2, <2>3 DEF AdminInv, TypeOK
<1> QED
  BY <1>1 DEF Creators

LEMMA CreateBounded ==
    ASSUME AdminInv, AdminInv', CopiesAreBounded, NEW r \in Requests, Create(r)
    PROVE  CopiesAreBounded'
<1>0. PICK row : row = task[r].row
  OBVIOUS
<1> DEFINE count == IF row \in DOMAIN copies THEN copies[row] ELSE 0
           after == IF Refused(row) THEN Idle ELSE Revoking
<1>1. Goto(r, after) /\ after.at # "create" /\ task[r].at = "create"
  BY <1>0 DEF Create, Idle, Revoking
<1>2. \A x : Creators(x)' \subseteq Creators(x)
  BY <1>1, NoNewCreator
<1>3. CASE Refused(row)
  <2>1. copies' = copies
    BY <1>0, <1>3 DEF Create
  <2> QED
    BY <1>2, <2>1, NoMoreCopies DEF CopiesAreBounded
<1>4. CASE ~Refused(row)
  <2>1. copies' = Put(copies, row, count + 1) /\ Goto(r, Revoking)
    BY <1>0, <1>4 DEF Create
  <2>2. count \in Nat /\ count + Cardinality(Creators(row)) <= Cardinality(Requests)
    BY CreatorsFinite DEF AdminInv, TypeOK, IsMap, CopiesAreBounded
  <2>3. r \in Creators(row) /\ Creators(row)' = Creators(row) \ {r}
    <3>1. task'[r] = Revoking /\ \A q \in Requests : q # r => task'[q] = task[q]
      BY <2>1 DEF Goto, AdminInv, TypeOK
    <3> QED
      BY <1>0, <1>1, <3>1 DEF Creators, Revoking
  <2>4. Cardinality(Creators(row)') = Cardinality(Creators(row)) - 1
    BY <2>3, CreatorsFinite, FS_RemoveElement
  <2> HIDE DEF count
  <2>5. ASSUME NEW x \in DOMAIN copies'
        PROVE  copies'[x] + Cardinality(Creators(x)') <= Cardinality(Requests)
    <3>1. CASE x = row
      <4>1. copies'[x] = count + 1
        BY <2>1, <3>1 DEF Put
      <4> QED
        BY <2>2, <2>4, <3>1, <4>1, CreatorsFinite
    <3>2. CASE x # row
      <4>1. x \in DOMAIN copies /\ copies'[x] = copies[x]
        BY <2>1, <2>5, <3>2 DEF Put
      <4> QED
        BY <1>2, <4>1, NoMoreCopies
    <3> QED
      BY <3>1, <3>2
  <2> QED
    BY <2>5 DEF CopiesAreBounded
<1> QED
  BY <1>3, <1>4

\* A row the handlers find absent has no copies to bound; the one that was
\* found stays.
LEMMA FindBounded ==
    ASSUME AdminInv, AdminInv', CopiesAreBounded, NEW r \in Requests, Find(r)
    PROVE  CopiesAreBounded'
<1>1. copies' = copies
  BY DEF Find
<1>2. ASSUME NEW x \in DOMAIN copies
      PROVE  Creators(x)' \subseteq Creators(x)
  <2>1. CASE x = task[r].row
    <3>1. Goto(r, Revoking) /\ Revoking.at # "create"
      BY <2>1 DEF Find, Revoking
    <3> QED
      BY <3>1, NoNewCreator
  <2>2. CASE x # task[r].row
    <3>1. \A q \in Requests : q # r => task'[q] = task[q]
      BY DEF Find, Goto, AdminInv, TypeOK
    <3>2. task[r] \in Checked
      BY BusyIsChecked DEF Find, AdminInv, TypeOK
    <3>3. task'[r] = Revoking \/ task'[r].row = task[r].row
      BY <3>2 DEF Find, Goto, AdminInv, TypeOK, Checked
    <3> QED
      BY <2>2, <3>1, <3>3 DEF Creators, Revoking
  <2> QED
    BY <2>1, <2>2
<1> QED
  BY <1>1, <1>2, NoMoreCopies DEF CopiesAreBounded

LEMMA RestartBounded ==
    ASSUME AdminInv, AdminInv', CopiesAreBounded, Restart
    PROVE  CopiesAreBounded'
<1>1. \A x : Creators(x)' = {}
  BY DEF Creators, Restart, Idle
<1>2. ASSUME NEW x \in DOMAIN copies'
      PROVE  copies'[x] + Cardinality(Creators(x)') <= Cardinality(Requests)
  <2>1. CASE x \in DOMAIN copies
    <3>1. copies'[x] = copies[x]
      BY <2>1 DEF Restart, WithAdmin, Put
    <3> QED
      BY <1>1, <1>2, <2>1, <3>1, NoMoreCopies
  <2>2. CASE x \notin DOMAIN copies
    <3>1. copies'[x] = 1
      BY <1>2, <2>2 DEF Restart, WithAdmin, Put
    <3>2. Cardinality({}) = 0 /\ Cardinality(Requests) \in Nat /\ Cardinality(Requests) # 0
      BY AdminAssumption, FS_EmptySet, FS_CardinalityType
    <3> QED
      BY <1>1, <3>1, <3>2
  <2> QED
    BY <2>1, <2>2
<1> QED
  BY <1>2 DEF CopiesAreBounded

LEMMA BoundedStep ==
    ASSUME AdminInv, AdminInv', CopiesAreBounded, [Next]_vars
    PROVE  CopiesAreBounded'
<1>1. ASSUME copies' = copies, \A x : Creators(x)' \subseteq Creators(x)
      PROVE  CopiesAreBounded'
  BY <1>1, NoMoreCopies DEF CopiesAreBounded
<1>2. ASSUME NEW r \in Requests, NEW next, Goto(r, next), next.at # "create", copies' = copies
      PROVE  CopiesAreBounded'
  BY <1>1, <1>2, NoNewCreator
<1>3. ASSUME NEW r \in Requests, NEW caller \in Users, NEW g \in Grants, StartGrant(r, caller, g)
      PROVE  CopiesAreBounded'
  BY <1>2, <1>3 DEF StartGrant, Begin
<1>4. ASSUME NEW r \in Requests, NEW op \in {"create", "delete"}, NEW caller \in Users,
             NEW row \in Assignments, StartRole(r, op, caller, row)
      PROVE  CopiesAreBounded'
  BY <1>2, <1>4 DEF StartRole, Begin
<1>5. ASSUME NEW r \in Requests, CheckGrants(r)
      PROVE  CopiesAreBounded'
  <2>1. task[r] \in Checked
    BY <1>5, BusyIsChecked DEF CheckGrants, AdminInv, TypeOK
  <2>2. [task[r] EXCEPT !.at = "level"].at = "level" /\ Idle.at = "idle"
    BY <2>1 DEF Checked, Idle
  <2> QED
    BY <1>2, <1>5, <2>2 DEF CheckGrants
<1>6. ASSUME NEW r \in Requests, CheckLevel(r)
      PROVE  CopiesAreBounded'
  <2> DEFINE t == task[r]
             at == IF Tail(t.ask) # <<>> THEN "grants" ELSE IF t.op = "create" THEN "find" ELSE t.op
  <2>1. t \in Checked
    BY <1>6, BusyIsChecked DEF CheckLevel, AdminInv, TypeOK
  <2>2. [t EXCEPT !.ask = Tail(@), !.at = at].at = at /\ Idle.at = "idle" /\ at # "create"
    BY <2>1 DEF Checked, Idle
  <2>3. \/ Goto(r, Idle) /\ copies' = copies
        \/ Goto(r, [t EXCEPT !.ask = Tail(@), !.at = at]) /\ copies' = copies
    BY <1>6 DEF CheckLevel
  <2> HIDE DEF at, t
  <2> QED
    BY <1>2, <2>2, <2>3
<1>7. ASSUME NEW r \in Requests, Update(r)
      PROVE  CopiesAreBounded'
  <2> DEFINE parts == [q \in Requests |-> ByGrant(task[q], task[r].user, task[r].next)]
  <2>1. /\ task' = [q \in Requests |-> IF q = r THEN Revoking ELSE Outdated(task[q], parts[q])]
        /\ copies' = copies
    BY <1>7 DEF Update
  <2> HIDE DEF parts
  <2>2. \A x : Creators(x)' \subseteq Creators(x)
    BY <2>1, NoNewCreatorByWrite
  <2> QED
    BY <1>1, <2>1, <2>2
<1>8. ASSUME NEW r \in Requests, Delete(r)
      PROVE  CopiesAreBounded'
  <2> DEFINE parts == [q \in Requests |-> ByRemoval(task[q], task[r].row)]
  <2>1. /\ task' = [q \in Requests |-> IF q = r THEN Revoking ELSE Outdated(task[q], parts[q])]
        /\ copies' = Drop(copies, {task[r].row})
    BY <1>8 DEF Delete
  <2> HIDE DEF parts
  <2>2. \A x : Creators(x)' \subseteq Creators(x)
    BY <2>1, NoNewCreatorByWrite
  <2>3. \A x \in DOMAIN copies' : x \in DOMAIN copies /\ copies'[x] = copies[x]
    BY <2>1 DEF Drop, Restrict
  <2> QED
    BY <2>2, <2>3, NoMoreCopies DEF CopiesAreBounded
<1>9. ASSUME NEW r \in Requests, Revoke(r) \/ Fail(r)
      PROVE  CopiesAreBounded'
  BY <1>2, <1>9 DEF Revoke, Fail, Idle
<1>10. CASE UNCHANGED vars
  BY <1>1, <1>10 DEF vars, Creators
<1> QED
  BY <1>3, <1>4, <1>5, <1>6, <1>7, <1>8, <1>9, <1>10, CreateBounded, FindBounded, RestartBounded
     DEF Next, Serve

\* The table never holds more copies of a role than requests are in flight.
THEOREM RolesAreBounded == Spec => []CopiesAreBounded
<1>1. Init => CopiesAreBounded
  <2> SUFFICES ASSUME Init, NEW x \in DOMAIN copies
               PROVE  copies[x] + Cardinality(Creators(x)) <= Cardinality(Requests)
    BY DEF CopiesAreBounded
  <2>1. copies[x] = 1
    BY DEF Init, Put, EmptyMap
  <2>2. Creators(x) = {}
    BY DEF Init, Creators, Idle
  <2>3. Cardinality({}) = 0 /\ Cardinality(Requests) \in Nat /\ Cardinality(Requests) # 0
    BY AdminAssumption, FS_EmptySet, FS_CardinalityType
  <2> QED
    BY <2>1, <2>2, <2>3
<1>2. AdminInv /\ AdminInv' /\ CopiesAreBounded /\ [Next]_vars => CopiesAreBounded'
  BY BoundedStep
<1> QED
  BY <1>1, <1>2, AdministrationSound, PTL DEF Spec

\* The seed leaves its administrator every permission everywhere.
THEOREM RestartsRestoreAdmin == Spec => RestartRestoresAdmin
<1>1. ASSUME AdminInv, Restart, NEW p \in Permissions, NEW s \in Scopes
      PROVE  Can(Admin, p, s)'
  <2>1. AdminRow \in DOMAIN copies'
    BY <1>1 DEF Restart, WithAdmin, Put
  <2>2. p \in PermsForRole[AdminRow.role] /\ AdminRow.user = Admin /\ AdminRow.scope = Global
    BY RolePermissions DEF AdminRow
  <2>3. [permission |-> p, scope |-> Global] \in EffectiveGrants(Admin)'
    BY <2>1, <2>2 DEF EffectiveGrants
  <2>4. Covers(Global, s)
    BY DEF Covers, Global
  <2>5. HasGrant(Admin, p, s)'
    BY <2>3, <2>4 DEF HasGrant, Covers
  <2>6. Admin \in Users /\ attrs'[Admin] = SeedAttrs[Admin]
    BY <1>1, AdminAssumption DEF Restart, Seeded, IsMap
  <2>7. ClearsFloor(Admin, p)'
    BY <2>6, AdminAssumption DEF ClearsFloor
  <2> QED
    BY <2>5, <2>7 DEF Can
<1>2. AdminInv =>
          [Restart => \A p \in Permissions, s \in Scopes : Can(Admin, p, s)']_vars
  BY <1>1
<1> QED
  BY <1>2, AdministrationSound, PTL DEF Spec, RestartRestoresAdmin
=============================================================================
