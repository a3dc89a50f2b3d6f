------------------------- MODULE OrganisationProofs -------------------------
(***************************************************************************)
(* Proofs about Organisation, for any departments, users, requests, bodies *)
(* and seed.                                                               *)
(*                                                                         *)
(* That the departments stay a forest rests on two facts about the steps   *)
(* that write parents: a handler creates a department below one that       *)
(* existed when it looked and departments are never removed (Referenced),  *)
(* and what the seed wires is wired already (SeedWired).  What a           *)
(* replacement leaves next to the set it was given rests on Snapshot: the  *)
(* rows an open transaction has not deleted were given by others since.    *)
(*                                                                         *)
(* That the claims in a token are exact rests on three more: the walk of   *)
(* addDescendants, a recursion on the forest, finds what is below a        *)
(* department by a definition without recursion (WalkIsExact), since a     *)
(* descent in a finite forest ends; a forest that has grown has the old    *)
(* one's descents and no others between its departments (GrownBelow); and  *)
(* what a mint has read is what the tables hold, unless the user's rows    *)
(* changed meanwhile, or a forest that has grown since (ReadsAreCurrent).  *)
(***************************************************************************)
EXTENDS Organisation, FiniteSetTheorems, TLAPS

Referenced ==
    \A r \in Requests :
        /\ task[r].at = "create" => task[r].parent \in DOMAIN parent \union {None}
        /\ task[r].at \in {"delete", "insert"} => Keys(task[r].given) \subseteq Exists(task[r].kind)

SeedWired ==
    /\ DOMAIN SeedParent \subseteq DOMAIN parent
    /\ \A d \in DOMAIN SeedParent : SeedParent[d] # None => parent[d] = SeedParent[d]

Snapshot ==
    \A r \in Requests :
        task[r].at = "insert" => Kept(task[r]) \subseteq task[r].beside

OrgInv ==
    TypeOK /\ Referenced /\ SeedWired /\ DepartmentsFormForest /\ Snapshot /\ ReplacementsAreWhole

----------------------------------------------------------------------------
(* Facts about the values                                                  *)

\* A forest's parents are departments of the forest, or none.
LEMMA ForestMap ==
    ASSUME NEW p
    PROVE  p \in Forests <=> /\ DOMAIN p \subseteq Departments
                             /\ p \in [DOMAIN p -> DOMAIN p \union {None}]
  BY DEF Forests

\* The field "at" tells the tasks apart.
LEMMA TaskShapes ==
    ASSUME NEW t \in Tasks
    PROVE  /\ t.at = "create" => t \in Creations
           /\ t.at \in {"delete", "insert"} => t \in Replacements
           /\ t.at = "revoke" => t \in Revocations
           /\ t.at = "claims" => t \in Mints
  BY DEF Tasks, Idle, Creations, Replacements, Revocations, Mints

\* A new department below an existing one, or below none, keeps the forest.
LEMMA NewLeaf ==
    ASSUME NEW p \in Forests, IsForest(p),
           NEW d \in Departments, d \notin DOMAIN p,
           NEW e \in DOMAIN p \union {None}
    PROVE  Put(p, d, e) \in Forests /\ IsForest(Put(p, d, e))
<1>1. /\ DOMAIN p \subseteq Departments
      /\ p \in [DOMAIN p -> DOMAIN p \union {None}]
      /\ None # d
  BY ForestMap, OrgAssumption
<1> DEFINE q == Put(p, d, e)
<1>2. /\ DOMAIN q = DOMAIN p \union {d}
      /\ q[d] = e
      /\ \A x \in DOMAIN p : q[x] = p[x]
      /\ q = [x \in DOMAIN q |-> q[x]]
  BY <1>1 DEF Put
<1>3. q \in Forests
  BY <1>1, <1>2, ForestMap
<1>4. ASSUME NEW D \in SUBSET DOMAIN q, D # {}
      PROVE  \E x \in D : q[x] \notin D
  <2>1. CASE D = {d}
    <3>1. e # d
      BY <1>1
    <3> QED
      BY <2>1, <3>1, <1>2
  <2>2. CASE D # {d}
    <3> DEFINE E == D \ {d}
    <3>1. E \in SUBSET DOMAIN p /\ E # {}
      BY <2>2, <1>2, <1>4
    <3>2. PICK x \in E : p[x] \notin E
      BY <3>1 DEF IsForest
    <3>3. p[x] # d
      BY <3>1, <1>1
    <3> QED
      BY <3>2, <3>3, <3>1, <1>2
  <2> QED
    BY <2>1, <2>2
<1> QED
  BY <1>3, <1>4 DEF IsForest

----------------------------------------------------------------------------
(* The invariant                                                           *)

LEMMA InitInv == Init => OrgInv
<1> SUFFICES ASSUME Init PROVE OrgInv
  OBVIOUS
<1> USE DEF Init
<1>1. parent \in Forests
  BY ForestMap, OrgAssumption DEF IsMap
<1>2. ASSUME NEW kind \in Kinds, NEW u \in Users
      PROVE  /\ SeedRows(kind, u) \in SUBSET RowSpace
             /\ HasKey(SeedRows(kind, u))
             /\ Keys(SeedRows(kind, u)) \subseteq Exists(kind)
  BY <1>1, ForestMap, OrgAssumption DEF IsMap, SeedRows, RowSpace, HasKey, Keys, Exists
<1>3. rows \in [Kinds -> [Users -> SUBSET RowSpace]]
  BY <1>2
<1>4. TypeOK
  BY <1>1, <1>2, <1>3, OrgAssumption DEF TypeOK, Tasks
<1>5. Referenced /\ Snapshot
  BY DEF Referenced, Snapshot, Idle
<1>6. SeedWired /\ DepartmentsFormForest
  BY OrgAssumption DEF SeedWired, DepartmentsFormForest
<1>7. ReplacementsAreWhole
  BY DEF ReplacementsAreWhole, Kinds
<1> QED
  BY <1>4, <1>5, <1>6, <1>7 DEF OrgInv

\* A task that may stand in task[r] with the tables as they are.
Sound(t) ==
    /\ t \in Tasks
    /\ t.at = "create" => t.parent \in DOMAIN parent \union {None}
    /\ t.at \in {"delete", "insert"} => Keys(t.given) \subseteq Exists(t.kind)
    /\ t.at = "insert" => Kept(t) \subseteq t.beside

LEMMA TasksAreSound ==
    ASSUME OrgInv, NEW r \in Requests
    PROVE  Sound(task[r])
  BY DEF OrgInv, TypeOK, Referenced, Snapshot, Sound

\* Every step that moves one handler and leaves the tables alone.
LEMMA OneTaskMoves ==
    ASSUME OrgInv, NEW r \in Requests, NEW next, Sound(next),
           Goto(r, next), UNCHANGED <<parent, catalogue, rows, last, beside>>,
           pending' \in SUBSET Users
    PROVE  OrgInv'
<1>1. /\ task' \in [Requests -> Tasks]
      /\ \A q \in Requests : task'[q] = task[q] \/ task'[q] = next
  BY DEF Goto, OrgInv, TypeOK, Sound
<1>2. TypeOK'
  BY <1>1 DEF OrgInv, TypeOK, Exists
<1>3. Referenced' /\ Snapshot'
  BY <1>1 DEF OrgInv, Referenced, Snapshot, Sound, Exists, Kept
<1>4. SeedWired' /\ DepartmentsFormForest' /\ ReplacementsAreWhole'
  BY DEF OrgInv, SeedWired, DepartmentsFormForest, ReplacementsAreWhole
<1> QED
  BY <1>2, <1>3, <1>4 DEF OrgInv

LEMMA IdleIsSound == Sound(Idle)
  BY DEF Sound, Idle, Tasks

----------------------------------------------------------------------------
(* Departments and compartments                                            *)

LEMMA FindParentInv ==
    ASSUME OrgInv, NEW r \in Requests, NEW d \in Departments, NEW p \in Departments \union {None},
           FindParent(r, d, p)
    PROVE  OrgInv'
<1>1. Sound([at |-> "create", slug |-> d, parent |-> p])
  BY DEF FindParent, Sound, Tasks, Creations
<1> QED
  BY <1>1, OneTaskMoves DEF FindParent, Start, history, OrgInv, TypeOK

LEMMA CreateDepartmentInv ==
    ASSUME OrgInv, NEW r \in Requests, CreateDepartment(r)
    PROVE  OrgInv'
<1>1. /\ task[r] \in Creations
      /\ task[r].parent \in DOMAIN parent \union {None}
  BY TasksAreSound, TaskShapes DEF Sound, CreateDepartment
<1>2. CASE task[r].slug \in DOMAIN parent
  BY <1>2, OneTaskMoves, IdleIsSound DEF CreateDepartment, history, OrgInv, TypeOK
<1>3. CASE task[r].slug \notin DOMAIN parent
  <2>1. /\ parent' = Put(parent, task[r].slug, task[r].parent)
        /\ Goto(r, Idle)
        /\ UNCHANGED <<catalogue, rows, last, beside, pending>>
    BY <1>3 DEF CreateDepartment, history
  <2>2. parent' \in Forests /\ IsForest(parent')
    BY <1>1, <1>3, <2>1, NewLeaf DEF OrgInv, TypeOK, DepartmentsFormForest, Creations
  <2>3. DOMAIN parent \subseteq DOMAIN parent' /\ \A d \in DOMAIN parent : parent'[d] = parent[d]
    BY <1>3, <2>1 DEF Put
  <2>4. task' \in [Requests -> Tasks] /\ \A q \in Requests : task'[q] \in {task[q], Idle}
    BY <2>1, IdleIsSound DEF Goto, OrgInv, TypeOK, Sound
  <2>5. TypeOK'
    <3>1. \A kind \in Kinds : Exists(kind) \subseteq Exists(kind)'
      BY <2>1, <2>3 DEF Exists
    <3> QED
      BY <2>1, <2>2, <2>4, <3>1 DEF OrgInv, TypeOK
  <2>6. Referenced'
    BY <2>1, <2>3, <2>4 DEF OrgInv, Referenced, Exists, Idle
  <2>7. Snapshot'
    BY <2>1, <2>4 DEF OrgInv, Snapshot, Idle, Kept
  <2>8. SeedWired'
    BY <2>3 DEF OrgInv, SeedWired
  <2>9. DepartmentsFormForest' /\ ReplacementsAreWhole'
    BY <2>1, <2>2 DEF OrgInv, DepartmentsFormForest, ReplacementsAreWhole
  <2> QED
    BY <2>5, <2>6, <2>7, <2>8, <2>9 DEF OrgInv
<1> QED
  BY <1>2, <1>3

LEMMA CreateCompartmentInv ==
    ASSUME OrgInv, NEW c \in Compartments, CreateCompartment(c)
    PROVE  OrgInv'
<1> USE DEF CreateCompartment, history
<1>1. \A kind \in Kinds : Exists(kind) \subseteq Exists(kind)'
  BY DEF Exists
<1>2. TypeOK'
  BY <1>1 DEF OrgInv, TypeOK
<1>3. Referenced'
  BY <1>1 DEF OrgInv, TypeOK, Referenced, Exists
<1> QED
  BY <1>2, <1>3 DEF OrgInv, Snapshot, Kept, SeedWired, DepartmentsFormForest, ReplacementsAreWhole

----------------------------------------------------------------------------
(* Replacements                                                            *)

LEMMA ValidateInv ==
    ASSUME OrgInv, NEW r \in Requests, NEW u \in Users, NEW kind \in Kinds,
           NEW given \in Bodies[kind], Validate(r, kind, u, given)
    PROVE  OrgInv'
<1> DEFINE next == [at |-> "delete", kind |-> kind, user |-> u, given |-> given,
                    deleted |-> {}, beside |-> {}]
<1>1. given \in SUBSET RowSpace
  BY OrgAssumption DEF RowSpace, Kinds
<1>2. next \in Replacements
  BY <1>1 DEF Replacements
<1>3. Sound(next)
  BY <1>2 DEF Validate, Sound, Tasks
<1> QED
  BY <1>3, OneTaskMoves DEF Validate, Start, history, OrgInv, TypeOK

LEMMA DeleteInv ==
    ASSUME OrgInv, NEW r \in Requests, Delete(r)
    PROVE  OrgInv'
<1> DEFINE t == task[r]
           next == [t EXCEPT !.at = "insert", !.deleted = rows[t.kind][t.user]]
<1>1. t \in Replacements /\ Keys(t.given) \subseteq Exists(t.kind)
  BY TasksAreSound, TaskShapes DEF Delete, Sound
<1>2. rows[t.kind][t.user] \in SUBSET RowSpace
  BY <1>1 DEF Replacements, OrgInv, TypeOK
<1>3. /\ next \in Replacements
      /\ next.kind = t.kind /\ next.user = t.user /\ next.given = t.given
      /\ next.at = "insert" /\ next.deleted = rows[t.kind][t.user]
      /\ Kept(next) = {}
  BY <1>1, <1>2 DEF Replacements, Kept
<1>4. Sound(next)
  BY <1>1, <1>3 DEF Sound, Tasks
<1> QED
  BY <1>4, OneTaskMoves DEF Delete, history, OrgInv, TypeOK

\* What a commit does to the other handlers: a replacement of the same rows
\* has what was given beside it, and one of other rows is as it was.
LEMMA OvertakenTask ==
    ASSUME NEW other \in Tasks, NEW t \in Replacements
    PROVE  /\ Overtaken(other, t) \in Tasks
           /\ Overtaken(other, t).at = other.at
           /\ other.at = "create" => Overtaken(other, t) = other
           /\ other.at \in {"delete", "insert"} =>
                  /\ Overtaken(other, t).kind = other.kind
                  /\ Overtaken(other, t).user = other.user
                  /\ Overtaken(other, t).given = other.given
           /\ other.at = "insert" =>
                  IF other.kind = t.kind /\ other.user = t.user
                  THEN /\ Overtaken(other, t).deleted = other.deleted \ t.deleted
                       /\ Overtaken(other, t).beside = other.beside \union t.given
                  ELSE Overtaken(other, t) = other
<1>1. CASE other.at = "insert" /\ other.kind = t.kind /\ other.user = t.user
  <2>1. other \in Replacements
    BY <1>1, TaskShapes
  <2>2. /\ Overtaken(other, t) = [other EXCEPT !.deleted = @ \ t.deleted,
                                               !.beside = @ \union t.given]
        /\ Overtaken(other, t) \in Replacements
    BY <1>1, <2>1 DEF Overtaken, Replacements
  <2> QED
    BY <1>1, <2>1, <2>2 DEF Replacements, Tasks
<1>2. CASE ~(other.at = "insert" /\ other.kind = t.kind /\ other.user = t.user)
  <2>1. Overtaken(other, t) = Disturbed(other, t.kind, t.user)
    BY <1>2 DEF Overtaken
  <2>2. CASE other.at = "claims" /\ other.user = t.user /\ t.kind \in other.read
    <3>1. other \in Mints /\ t.kind \in Kinds
      BY <2>2, TaskShapes DEF Replacements
    <3>2. Disturbed(other, t.kind, t.user) \in Mints
      BY <2>2, <3>1 DEF Disturbed, Mints
    <3> QED
      BY <2>1, <2>2, <3>2 DEF Mints, Tasks
  <2>3. CASE ~(other.at = "claims" /\ other.user = t.user /\ t.kind \in other.read)
    BY <1>2, <2>1, <2>3 DEF Disturbed
  <2> QED
    BY <2>2, <2>3
<1> QED
  BY <1>1, <1>2

LEMMA CommitInv ==
    ASSUME OrgInv, NEW r \in Requests, Commit(r)
    PROVE  OrgInv'
<1> DEFINE t == task[r]
           next == [at |-> "revoke", user |-> t.user]
           left == Kept(t) \union t.given
<1>1. /\ t \in Replacements
      /\ Keys(t.given) \subseteq Exists(t.kind)
      /\ Kept(t) \subseteq t.beside
  BY TasksAreSound, TaskShapes DEF Commit, Committed, Sound
<1>2. /\ Insertable(t)
      /\ rows' = [rows EXCEPT ![t.kind][t.user] = left]
      /\ task' = [q \in Requests |-> IF q = r THEN next ELSE Overtaken(task[q], t)]
      /\ last' = [last EXCEPT ![t.kind][t.user] = t.given]
      /\ beside' = [beside EXCEPT ![t.kind][t.user] = t.beside]
      /\ pending' = pending \union {t.user}
      /\ UNCHANGED <<parent, catalogue>>
  BY DEF Commit, Committed
<1>3. /\ left \in SUBSET RowSpace
      /\ Keys(left) \subseteq Exists(t.kind)
      /\ HasKey(left)
  <2>1. /\ rows[t.kind][t.user] \in SUBSET RowSpace
        /\ HasKey(rows[t.kind][t.user])
        /\ Keys(rows[t.kind][t.user]) \subseteq Exists(t.kind)
    BY <1>1 DEF Replacements, OrgInv, TypeOK
  <2>2. t.given \in SUBSET RowSpace
    BY <1>1 DEF Replacements
  <2>3. HasKey(left)
    BY <1>2, <2>1 DEF Insertable, HasKey, Keys, Kept
  <2> QED
    BY <1>1, <2>1, <2>2, <2>3 DEF Kept, Keys
<1>4. /\ next \in Tasks
      /\ \A q \in Requests \ {r} : task'[q] = Overtaken(task[q], t) /\ task[q] \in Tasks
      /\ task'[r] = next
  BY <1>1, <1>2 DEF OrgInv, TypeOK, Tasks, Revocations, Replacements
<1>5. \A kind \in Kinds, u \in Users :
          /\ rows'[kind][u] = IF kind = t.kind /\ u = t.user THEN left ELSE rows[kind][u]
          /\ last'[kind][u] = IF kind = t.kind /\ u = t.user THEN t.given ELSE last[kind][u]
          /\ beside'[kind][u] = IF kind = t.kind /\ u = t.user THEN t.beside ELSE beside[kind][u]
  BY <1>1, <1>2 DEF OrgInv, TypeOK, Replacements
<1>6. TypeOK'
  <2>1. rows' \in [Kinds -> [Users -> SUBSET RowSpace]]
    BY <1>1, <1>2, <1>3 DEF OrgInv, TypeOK, Replacements
  <2>2. last' \in [Kinds -> [Users -> SUBSET RowSpace]]
    BY <1>1, <1>2 DEF OrgInv, TypeOK, Replacements
  <2>3. task' \in [Requests -> Tasks]
    BY <1>1, <1>2, <1>4, OvertakenTask
  <2>4. beside' \in [Kinds -> [Users -> SUBSET RowSpace]] /\ pending' \in SUBSET Users
    BY <1>1, <1>2 DEF OrgInv, TypeOK, Replacements
  <2>5. \A kind \in Kinds, u \in Users :
            HasKey(rows'[kind][u]) /\ Keys(rows'[kind][u]) \subseteq Exists(kind)
    <3> SUFFICES ASSUME NEW kind \in Kinds, NEW u \in Users
                 PROVE  HasKey(rows'[kind][u]) /\ Keys(rows'[kind][u]) \subseteq Exists(kind)
      OBVIOUS
    <3> HIDE DEF left
    <3>1. CASE kind = t.kind /\ u = t.user
      <4>1. rows'[kind][u] = left
        BY <1>5, <3>1
      <4> QED
        BY <1>3, <3>1, <4>1
    <3>2. CASE ~(kind = t.kind /\ u = t.user)
      BY <1>5, <3>2 DEF OrgInv, TypeOK
    <3> QED
      BY <3>1, <3>2
  <2> QED
    BY <1>2, <2>1, <2>2, <2>3, <2>4, <2>5 DEF OrgInv, TypeOK, Exists
<1>7. Referenced'
  BY <1>1, <1>2, <1>4, OvertakenTask DEF OrgInv, Referenced, Exists
<1>8. Snapshot'
  <2> SUFFICES ASSUME NEW q \in Requests, task'[q].at = "insert"
               PROVE  rows'[task'[q].kind][task'[q].user] \ task'[q].deleted
                          \subseteq task'[q].beside
    BY DEF Snapshot, Kept
  <2> HIDE DEF left
  <2>1. q # r
    BY <1>4
  <2>2. task'[q] = Overtaken(task[q], t) /\ task[q].at = "insert"
    BY <1>1, <1>4, <2>1, OvertakenTask
  <2>3. task[q].kind \in Kinds /\ task[q].user \in Users
    BY <2>2, <1>4, <2>1, TaskShapes DEF Replacements
  <2>4. rows[task[q].kind][task[q].user] \ task[q].deleted \subseteq task[q].beside
    BY <2>2 DEF OrgInv, Snapshot, Kept
  <2>5. task'[q].kind = task[q].kind /\ task'[q].user = task[q].user
    BY <1>1, <1>4, <2>1, <2>2, OvertakenTask
  <2>6. CASE task[q].kind = t.kind /\ task[q].user = t.user
    <3>1. /\ task'[q].deleted = task[q].deleted \ t.deleted
          /\ task'[q].beside = task[q].beside \union t.given
      BY <1>1, <1>4, <2>1, <2>2, <2>6, OvertakenTask
    <3>2. rows'[task[q].kind][task[q].user] = (rows[t.kind][t.user] \ t.deleted) \union t.given
      BY <1>5, <2>3, <2>6 DEF left, Kept
    <3> QED
      BY <2>4, <2>5, <2>6, <3>1, <3>2
  <2>7. CASE ~(task[q].kind = t.kind /\ task[q].user = t.user)
    <3>1. task'[q] = task[q]
      BY <1>1, <1>4, <2>1, <2>2, <2>7, OvertakenTask
    <3>2. rows'[task[q].kind][task[q].user] = rows[task[q].kind][task[q].user]
      BY <1>5, <2>3, <2>7
    <3> QED
      BY <2>4, <3>1, <3>2
  <2> QED
    BY <2>6, <2>7
<1>9. ReplacementsAreWhole'
  <2> SUFFICES ASSUME NEW kind \in Kinds, NEW u \in Users
               PROVE  /\ Keys(last'[kind][u]) \subseteq Keys(rows'[kind][u])
                      /\ rows'[kind][u] \subseteq last'[kind][u] \union beside'[kind][u]
    BY DEF ReplacementsAreWhole
  <2>1. CASE kind = t.kind /\ u = t.user
    <3>1. /\ rows'[kind][u] = Kept(t) \union t.given
          /\ last'[kind][u] = t.given /\ beside'[kind][u] = t.beside
      BY <1>5, <2>1
    <3> QED
      BY <1>1, <3>1 DEF Keys
  <2>2. CASE ~(kind = t.kind /\ u = t.user)
    BY <1>5, <2>2 DEF OrgInv, ReplacementsAreWhole
  <2> QED
    BY <2>1, <2>2
<1>10. SeedWired' /\ DepartmentsFormForest'
  BY <1>2 DEF OrgInv, SeedWired, DepartmentsFormForest
<1> QED
  BY <1>6, <1>7, <1>8, <1>9, <1>10 DEF OrgInv

----------------------------------------------------------------------------
(* Claims, failures and restarts                                           *)

\* Steps after which the handler is done.
LEMMA DoneInv ==
    ASSUME OrgInv, NEW r \in Requests,
           Abort(r) \/ Revoke(r) \/ Claim(r) \/ Fail(r)
    PROVE  OrgInv'
<1>1. /\ Goto(r, Idle)
      /\ UNCHANGED <<parent, catalogue, rows, last, beside>>
      /\ pending' \in SUBSET Users
  BY DEF Abort, Revoke, Claim, Fail, history, OrgInv, TypeOK
<1> QED
  BY <1>1, IdleIsSound, OneTaskMoves

LEMMA StartClaimsInv ==
    ASSUME OrgInv, NEW r \in Requests, NEW u \in Users, StartClaims(r, u)
    PROVE  OrgInv'
<1> DEFINE next == [at |-> "claims", user |-> u, read |-> {}, torn |-> {},
                    memberships |-> {}, compartments |-> {}, departments |-> EmptyMap]
<1>1. EmptyMap \in Forests
  BY ForestMap DEF EmptyMap
<1>2. Sound(next)
  BY <1>1 DEF Sound, Tasks, Mints
<1> QED
  BY <1>2, OneTaskMoves DEF StartClaims, Start, history, OrgInv, TypeOK

LEMMA QueryInv ==
    ASSUME OrgInv, NEW r \in Requests, NEW table \in Tables, Query(r, table)
    PROVE  OrgInv'
<1> DEFINE t == task[r]
           answer == IF table = "departments" THEN parent ELSE rows[table][t.user]
           next == [t EXCEPT !.read = @ \union {table}, ![table] = answer]
<1>1. t \in Mints
  BY TasksAreSound, TaskShapes DEF Query, Sound
<1>2. /\ table = "departments" => answer \in Forests
      /\ table # "departments" => answer \in SUBSET RowSpace
  BY <1>1 DEF Mints, Tables, OrgInv, TypeOK
<1>3. next \in Mints
  <2>1. CASE table = "departments"
    BY <1>1, <1>2, <2>1 DEF Mints, Tables
  <2>2. CASE table = "memberships"
    BY <1>1, <1>2, <2>2 DEF Mints, Tables, Kinds
  <2>3. CASE table = "compartments"
    BY <1>1, <1>2, <2>3 DEF Mints, Tables, Kinds
  <2> QED
    BY <2>1, <2>2, <2>3 DEF Tables, Kinds
<1>4. Sound(next)
  BY <1>3 DEF Sound, Tasks, Mints
<1> QED
  BY <1>4, OneTaskMoves DEF Query, history, OrgInv, TypeOK

\* What the seed writes to the departments is there already.
LEMMA SeedChangesNoParent ==
    ASSUME OrgInv, Restart
    PROVE  parent' = parent
<1>1. DOMAIN parent' = DOMAIN parent
  BY DEF Restart, OrgInv, SeedWired
<1>2. \A d \in DOMAIN parent : parent'[d] = parent[d]
  BY DEF Restart, OrgInv, SeedWired
<1>3. parent \in [DOMAIN parent -> DOMAIN parent \union {None}]
  BY ForestMap DEF OrgInv, TypeOK
<1>4. parent' = [d \in DOMAIN parent |-> parent'[d]]
  BY <1>1 DEF Restart
<1> QED
  BY <1>1, <1>2, <1>3, <1>4

LEMMA RestartInv ==
    ASSUME OrgInv, Restart
    PROVE  OrgInv'
<1>1. /\ parent' = parent
      /\ catalogue' = catalogue \union SeedCompartments
      /\ task' = [r \in Requests |-> Idle]
      /\ pending' = {} /\ last' = last
      /\ rows' = [rows EXCEPT !["memberships"] = [u \in Users |-> Reseeded(u)]]
      /\ beside' = [kind \in Kinds |-> [u \in Users |-> beside[kind][u] \union SeedRows(kind, u)]]
  BY SeedChangesNoParent DEF Restart
<1>2. ASSUME NEW u \in Users
      PROVE  /\ Reseeded(u) \in SUBSET RowSpace
             /\ HasKey(Reseeded(u))
             /\ Keys(Reseeded(u)) \subseteq DOMAIN parent
             /\ SeedRows("memberships", u) \in SUBSET RowSpace
             /\ Keys(rows["memberships"][u]) \subseteq Keys(Reseeded(u))
             /\ Reseeded(u) \subseteq rows["memberships"][u] \union SeedRows("memberships", u)
  <2> DEFINE old == rows["memberships"][u]
             seed == SeedRows("memberships", u)
  <2>1. /\ old \in SUBSET RowSpace /\ HasKey(old) /\ Keys(old) \subseteq DOMAIN parent
    BY DEF OrgInv, TypeOK, Kinds, Exists
  <2>2. u \in DOMAIN SeedMembership =>
            SeedMembership[u] \in (DOMAIN SeedParent) \X LadderRanks
    BY OrgAssumption DEF IsMap
  <2>3. /\ DOMAIN SeedParent \subseteq Departments
        /\ DOMAIN SeedParent \subseteq DOMAIN parent
    BY OrgAssumption DEF IsMap, OrgInv, SeedWired
  <2>4. /\ seed \in SUBSET RowSpace /\ HasKey(seed) /\ Keys(seed) \subseteq DOMAIN parent
    BY <2>2, <2>3 DEF SeedRows, RowSpace, HasKey, Keys
  <2>5. HasKey(Reseeded(u))
    BY <2>1, <2>4 DEF Reseeded, HasKey, Keys
  <2> QED
    BY <2>1, <2>4, <2>5 DEF Reseeded, Keys
<1>3. \A u \in Users : /\ rows'["memberships"][u] = Reseeded(u)
                       /\ rows'["compartments"][u] = rows["compartments"][u]
  BY <1>1 DEF OrgInv, TypeOK, Kinds
<1>4. TypeOK'
  <2>1. rows' \in [Kinds -> [Users -> SUBSET RowSpace]]
    BY <1>1, <1>2 DEF OrgInv, TypeOK, Kinds
  <2>2. catalogue' \in SUBSET Compartments
    BY <1>1, OrgAssumption DEF OrgInv, TypeOK
  <2>3. task' \in [Requests -> Tasks]
    BY <1>1 DEF Tasks
  <2>4. beside' \in [Kinds -> [Users -> SUBSET RowSpace]]
    <3>1. \A kind \in Kinds, u \in Users : beside[kind][u] \union SeedRows(kind, u) \in SUBSET RowSpace
      BY <1>2 DEF OrgInv, TypeOK, Kinds, SeedRows
    <3> QED
      BY <1>1, <3>1
  <2>5. \A kind \in Kinds, u \in Users :
            HasKey(rows'[kind][u]) /\ Keys(rows'[kind][u]) \subseteq Exists(kind)'
    BY <1>1, <1>2, <1>3 DEF OrgInv, TypeOK, Exists, Kinds
  <2> QED
    BY <1>1, <2>1, <2>2, <2>3, <2>4, <2>5 DEF OrgInv, TypeOK
<1>5. Referenced' /\ Snapshot'
  BY <1>1 DEF Referenced, Snapshot, Idle
<1>6. ReplacementsAreWhole'
  <2> SUFFICES ASSUME NEW kind \in Kinds, NEW u \in Users
               PROVE  /\ Keys(last'[kind][u]) \subseteq Keys(rows'[kind][u])
                      /\ rows'[kind][u] \subseteq last'[kind][u] \union beside'[kind][u]
    BY DEF ReplacementsAreWhole
  <2>1. /\ Keys(last[kind][u]) \subseteq Keys(rows[kind][u])
        /\ rows[kind][u] \subseteq last[kind][u] \union beside[kind][u]
        /\ last' = last /\ beside'[kind][u] = beside[kind][u] \union SeedRows(kind, u)
    BY <1>1 DEF OrgInv, ReplacementsAreWhole
  <2>2. CASE kind = "memberships"
    BY <1>2, <1>3, <2>1, <2>2
  <2>3. CASE kind = "compartments"
    BY <1>3, <2>1, <2>3
  <2> QED
    BY <2>2, <2>3 DEF Kinds
<1>7. SeedWired' /\ DepartmentsFormForest'
  BY <1>1 DEF OrgInv, SeedWired, DepartmentsFormForest
<1> QED
  BY <1>4, <1>5, <1>6, <1>7 DEF OrgInv

LEMMA StepInv == OrgInv /\ [Next]_vars => OrgInv'
<1> SUFFICES ASSUME OrgInv, [Next]_vars PROVE OrgInv'
  OBVIOUS
<1>1. CASE Next
  <2>1. ASSUME NEW r \in Requests, Proceed(r) PROVE OrgInv'
    BY <2>1, CreateDepartmentInv, DeleteInv, CommitInv, DoneInv, QueryInv DEF Proceed
  <2>2. CASE Serve
    BY <2>1, <2>2, FindParentInv, CreateCompartmentInv, ValidateInv, StartClaimsInv DEF Serve
  <2> QED
    BY <1>1, <2>2, RestartInv, DoneInv DEF Next
<1>2. CASE UNCHANGED vars
  BY <1>2 DEF vars, OrgInv, TypeOK, Exists, Referenced, Snapshot, Kept, SeedWired,
              DepartmentsFormForest, ReplacementsAreWhole
<1> QED
  BY <1>1, <1>2

----------------------------------------------------------------------------
(* The theorems                                                            *)

\* The invariant holds throughout.
THEOREM OrganisationSound == Spec => []OrgInv
<1>1. Init => OrgInv
  BY InitInv
<1>2. OrgInv /\ [Next]_vars => OrgInv'
  BY StepInv
<1> QED
  BY <1>1, <1>2, PTL DEF Spec

\* The tables are well formed and their rows name what exists, one row for
\* each key.
THEOREM TypeCorrect == Spec => []TypeOK
<1>1. OrgInv => TypeOK
  BY DEF OrgInv
<1> QED
  BY <1>1, OrganisationSound, PTL

\* No department ever becomes its own ancestor, whatever requests and
\* restarts interleave: the walk of effectiveClaims ends.
THEOREM ForestKept == Spec => []DepartmentsFormForest
<1>1. OrgInv => DepartmentsFormForest
  BY DEF OrgInv
<1> QED
  BY <1>1, OrganisationSound, PTL

\* setUserMemberships and setUserCompartments leave the given set, and next to
\* it only what others gave while their transaction was open or the seed since.
THEOREM WholeReplacements == Spec => []ReplacementsAreWhole
<1>1. OrgInv => ReplacementsAreWhole
  BY DEF OrgInv
<1> QED
  BY <1>1, OrganisationSound, PTL

----------------------------------------------------------------------------
(* The walk                                                                *)

\* The departments whose parent is e, and those anywhere below it: their
\* parent is e, or below it, whichever way one climbs.
Kids(p, e) == {k \in DOMAIN p : p[k] = e}
Under(p, d, e) ==
    \A D \in SUBSET DOMAIN p :
        d \in D /\ (\A x \in D : p[x] = None \/ p[x] \in D) => e \in D
Below(p, e) == {d \in DOMAIN p : p[d] # None /\ Under(p, p[d], e)}

\* Everything below e is a child of e or below one.
LEMMA BelowUnfolds ==
    ASSUME NEW p \in Forests, NEW e \in Departments
    PROVE  Below(p, e) = Kids(p, e) \union UNION {Below(p, k) : k \in Kids(p, e)}
<1>1. /\ DOMAIN p \subseteq Departments
      /\ \A x \in DOMAIN p : p[x] = None \/ p[x] \in DOMAIN p
      /\ e # None
  BY ForestMap, OrgAssumption
<1>2. Kids(p, e) \subseteq Below(p, e)
  BY <1>1 DEF Kids, Below, Under
<1>3. ASSUME NEW k \in Kids(p, e), NEW d \in Below(p, k)
      PROVE  d \in Below(p, e)
  <2>1. ASSUME NEW D \in SUBSET DOMAIN p, p[d] \in D, \A x \in D : p[x] = None \/ p[x] \in D
        PROVE  e \in D
    <3>1. k \in D
      BY <2>1 DEF Below, Under
    <3>2. QED
      BY <1>1, <2>1, <3>1 DEF Kids
  <2>2. QED
    BY <2>1 DEF Below, Under
<1>4. ASSUME NEW d \in Below(p, e), d \notin Kids(p, e)
      PROVE  \E k \in Kids(p, e) : d \in Below(p, k)
  <2> DEFINE D == {x \in DOMAIN p : Under(p, p[d], x)} \ {e}
  <2>1. p[d] \in DOMAIN p /\ p[d] # e /\ Under(p, p[d], e)
    BY <1>1, <1>4 DEF Below, Kids
  <2>2. SUFFICES ASSUME \A k \in Kids(p, e) : ~Under(p, p[d], k)
                 PROVE  FALSE
    BY <1>1, <2>1 DEF Below
  <2>3. p[d] \in D
    BY <2>1 DEF Under
  <2>4. ASSUME NEW x \in D, p[x] # None
        PROVE  p[x] \in D
    <3>1. x \in DOMAIN p /\ p[x] \in DOMAIN p /\ Under(p, p[d], x)
      BY <1>1, <2>4
    <3>2. Under(p, p[d], p[x])
      BY <2>4, <3>1 DEF Under
    <3>3. p[x] # e
      BY <2>2, <3>1 DEF Kids
    <3>4. QED
      BY <3>1, <3>2, <3>3
  <2>5. D \in SUBSET DOMAIN p /\ e \notin D
    OBVIOUS
  <2> HIDE DEF D
  <2>6. QED
    BY <2>1, <2>3, <2>4, <2>5 DEF Under
<1>5. QED
  BY <1>2, <1>3, <1>4

\* addDescendants's recursion ends: it defines a function.
LEMMA DescendantsUnfold ==
    ASSUME NEW p \in Forests
    PROVE  \A e \in Departments :
               Descendants(p)[e] =
                   Kids(p, e) \union UNION {Descendants(p)[k] : k \in Kids(p, e)}
<1> DEFINE G(b) == [e \in Departments |->
                       LET kids == {k \in DOMAIN p : p[k] = e}
                       IN  kids \union UNION {b[k] : k \in kids}]
           W == [e \in Departments |-> Below(p, e)]
<1>1. DOMAIN p \subseteq Departments
  BY ForestMap
<1>2. ASSUME NEW e \in Departments
      PROVE  W[e] = G(W)[e]
  <2>1. \A k \in Kids(p, e) : W[k] = Below(p, k)
    BY <1>1 DEF Kids
  <2>2. UNION {W[k] : k \in Kids(p, e)} = UNION {Below(p, k) : k \in Kids(p, e)}
    BY <2>1
  <2>3. W[e] = Kids(p, e) \union UNION {W[k] : k \in Kids(p, e)}
    BY <2>2, BelowUnfolds
  <2>4. G(W)[e] = Kids(p, e) \union UNION {W[k] : k \in Kids(p, e)}
    BY DEF Kids
  <2>5. QED
    BY <2>3, <2>4
<1>3. W = G(W)
  BY <1>2
<1>4. Descendants(p) = CHOOSE b : b = G(b)
  BY DEF Descendants
<1> HIDE DEF G, W
<1>5. Descendants(p) = G(Descendants(p))
  BY <1>3, <1>4
<1>6. QED
  BY <1>5 DEF G, Kids

\* In a finite forest nobody climbs down forever: some department of any set
\* has no child in the set.  Otherwise choosing a child would map the set into
\* itself one to one, hence onto itself, and no parent would lie outside.
LEMMA DescentEnds ==
    ASSUME NEW p, IsForest(p), NEW C \in SUBSET DOMAIN p, C # {}, IsFiniteSet(C)
    PROVE  \E c \in C : Kids(p, c) \intersect C = {}
<1>1. SUFFICES ASSUME \A c \in C : \E k \in C : p[k] = c
               PROVE  FALSE
  BY DEF Kids
<1> DEFINE kid == [c \in C |-> CHOOSE k \in C : p[k] = c]
<1>2. \A c \in C : kid[c] \in C /\ p[kid[c]] = c
  BY <1>1
<1>3. kid \in [C -> C]
  BY <1>2
<1> HIDE DEF kid
<1>4. kid \in Injection(C, C)
  BY <1>2, <1>3 DEF Injection, IsInjective
<1>5. kid \in Surjection(C, C)
  BY <1>4, FS_Injection
<1>6. \A k \in C : p[k] \in C
  BY <1>2, <1>3, <1>5 DEF Surjection
<1>7. QED
  BY <1>6 DEF IsForest

\* addDescendants finds what is below, neither less nor more, and nothing below
\* a department the forest has not got.
LEMMA WalkIsExact ==
    ASSUME NEW p \in Forests, IsForest(p), IsFiniteSet(DOMAIN p)
    PROVE  \A e \in Departments : Descendants(p)[e] = Below(p, e)
<1>1. /\ DOMAIN p \subseteq Departments
      /\ \A x \in DOMAIN p : p[x] = None \/ p[x] \in DOMAIN p
      /\ None \notin Departments
  BY ForestMap, OrgAssumption
<1>2. ASSUME NEW e \in Departments, \A k \in Kids(p, e) : Descendants(p)[k] = Below(p, k)
      PROVE  Descendants(p)[e] = Below(p, e)
  <2>1. UNION {Descendants(p)[k] : k \in Kids(p, e)} = UNION {Below(p, k) : k \in Kids(p, e)}
    BY <1>2
  <2>2. QED
    BY <2>1, BelowUnfolds, DescendantsUnfold
<1> DEFINE C == {c \in DOMAIN p : Descendants(p)[c] # Below(p, c)}
<1>3. C = {}
  <2>1. SUFFICES ASSUME C # {}
                 PROVE  FALSE
    OBVIOUS
  <2>2. C \in SUBSET DOMAIN p /\ IsFiniteSet(C)
    BY FS_Subset
  <2>3. PICK c \in C : Kids(p, c) \intersect C = {}
    BY <2>1, <2>2, DescentEnds
  <2>4. \A k \in Kids(p, c) : Descendants(p)[k] = Below(p, k)
    BY <2>3 DEF Kids
  <2>5. QED
    BY <1>1, <1>2, <2>3, <2>4
<1>4. ASSUME NEW e \in Departments, e \notin DOMAIN p
      PROVE  Kids(p, e) = {}
  BY <1>1, <1>4 DEF Kids
<1>5. QED
  BY <1>2, <1>3, <1>4

\* p is q before some departments were created.
GrownInto(p, q) == DOMAIN p \subseteq DOMAIN q /\ \A d \in DOMAIN p : q[d] = p[d]

LEMMA GrownBelow ==
    ASSUME NEW p \in Forests, NEW q \in Forests, GrownInto(p, q), NEW e
    PROVE  /\ Below(p, e) \subseteq Below(q, e)
           /\ Below(q, e) \intersect DOMAIN p \subseteq Below(p, e)
<1>1. \A x \in DOMAIN p : p[x] = None \/ p[x] \in DOMAIN p
  BY ForestMap
<1>2. ASSUME NEW d \in Below(p, e)
      PROVE  d \in Below(q, e)
  <2>1. /\ d \in DOMAIN p /\ d \in DOMAIN q /\ q[d] = p[d] /\ p[d] # None
        /\ p[d] \in DOMAIN p /\ Under(p, p[d], e)
    BY <1>1 DEF Below, GrownInto
  <2>2. ASSUME NEW D \in SUBSET DOMAIN q, q[d] \in D, \A x \in D : q[x] = None \/ q[x] \in D
        PROVE  e \in D
    <3> DEFINE E == D \intersect DOMAIN p
    <3>1. E \in SUBSET DOMAIN p /\ p[d] \in E /\ \A x \in E : p[x] = None \/ p[x] \in E
      BY <1>1, <2>1, <2>2 DEF GrownInto
    <3>2. e \in E
      BY <2>1, <3>1 DEF Under
    <3>3. QED
      BY <3>2
  <2>3. QED
    BY <2>1, <2>2 DEF Below, Under
<1>3. ASSUME NEW d \in Below(q, e), d \in DOMAIN p
      PROVE  d \in Below(p, e)
  <2>1. q[d] = p[d] /\ p[d] # None /\ Under(q, q[d], e)
    BY <1>3 DEF Below, GrownInto
  <2>2. ASSUME NEW D \in SUBSET DOMAIN p, p[d] \in D, \A x \in D : p[x] = None \/ p[x] \in D
        PROVE  e \in D
    <3>1. D \in SUBSET DOMAIN q /\ q[d] \in D /\ \A x \in D : q[x] = None \/ q[x] \in D
      BY <2>1, <2>2 DEF GrownInto
    <3>2. QED
      BY <2>1, <3>1 DEF Under
  <2>3. QED
    BY <1>3, <2>1, <2>2 DEF Below, Under
<1>4. QED
  BY <1>2, <1>3

\* To be within e is to be e or below it.
LEMMA UnderIsBelow ==
    ASSUME NEW p \in Forests, NEW d \in DOMAIN p, NEW e \in DOMAIN p
    PROVE  Under(p, d, e) <=> d = e \/ d \in Below(p, e)
<1>1. \A x \in DOMAIN p : p[x] = None \/ p[x] \in DOMAIN p
  BY ForestMap
<1>2. d = e \/ d \in Below(p, e) => Under(p, d, e)
  BY DEF Below, Under
<1>3. ASSUME Under(p, d, e), d # e
      PROVE  d \in Below(p, e)
  <2>1. p[d] # None
    <3>1. SUFFICES ASSUME p[d] = None PROVE FALSE
      OBVIOUS
    <3>2. {d} \in SUBSET DOMAIN p /\ \A x \in {d} : p[x] = None
      BY <3>1
    <3>3. e \in {d}
      BY <1>3, <3>2 DEF Under
    <3>4. QED
      BY <1>3, <3>3
  <2>2. ASSUME NEW D \in SUBSET DOMAIN p, p[d] \in D, \A x \in D : p[x] = None \/ p[x] \in D
        PROVE  e \in D
    <3> DEFINE E == D \union {d}
    <3>1. E \in SUBSET DOMAIN p /\ d \in E /\ \A x \in E : p[x] = None \/ p[x] \in E
      BY <2>2
    <3>2. e \in E
      BY <1>3, <3>1 DEF Under
    <3>3. QED
      BY <1>3, <3>2
  <2>3. QED
    BY <2>1, <2>2 DEF Below, Under
<1>4. QED
  BY <1>2, <1>3

\* The ladder: MANAGER is the third of its six ranks.
LEMMA SeniorRanks ==
    ASSUME NEW rank
    PROVE  InheritsDescendants(rank) <=> rank \in Senior
<1>1. \A i \in 1..6 : i = 1 \/ i = 2 \/ i = 3 \/ i = 4 \/ i = 5 \/ i = 6
  OBVIOUS
<1>2. /\ RankOrder[1] = "IC" /\ RankOrder[2] = "LEAD" /\ RankOrder[3] = "MANAGER"
      /\ RankOrder[4] = "SENIOR_MANAGER" /\ RankOrder[5] = "DIRECTOR" /\ RankOrder[6] = "VP"
  BY DEF RankOrder
<1>3. \A m \in 1..6 : RankOrder[m] = "MANAGER" <=> m = 3
  BY <1>1, <1>2
<1>4. InheritsDescendants(rank) <=> \E i \in 1..6 : RankOrder[i] = rank /\ i >= 3
  BY <1>3 DEF InheritsDescendants
<1>5. (\E i \in 1..6 : RankOrder[i] = rank /\ i >= 3) <=> rank \in Senior
  BY <1>1, <1>2 DEF Senior
<1>6. QED
  BY <1>4, <1>5

----------------------------------------------------------------------------
(* What a mint has read                                                    *)

\* What a mint has read of its user's rows is what the tables hold, unless
\* they changed since; what it has read of the departments has at most grown.
Current(t) ==
    t.at = "claims" =>
        /\ "memberships" \in t.read \ t.torn => t.memberships = rows["memberships"][t.user]
        /\ "compartments" \in t.read \ t.torn => t.compartments = rows["compartments"][t.user]
        /\ "departments" \in t.read => GrownInto(t.departments, parent)

ReadsAreCurrent == \A r \in Requests : Current(task[r])

\* The walk needs a forest that is finite, too.
ClaimsInv == OrgInv /\ IsFiniteSet(DOMAIN parent) /\ ReadsAreCurrent

\* One handler moves and the tables rest.
LEMMA OneTaskReads ==
    ASSUME ClaimsInv, NEW r \in Requests, NEW next, Current(next), Goto(r, next),
           UNCHANGED <<parent, rows>>
    PROVE  ReadsAreCurrent' /\ IsFiniteSet(DOMAIN parent')
<1>1. \A q \in Requests : task'[q] = task[q] \/ task'[q] = next
  BY DEF Goto, ClaimsInv, OrgInv, TypeOK
<1>2. ReadsAreCurrent'
  BY <1>1 DEF ClaimsInv, ReadsAreCurrent, Current
<1>3. QED
  BY <1>2 DEF ClaimsInv

LEMMA OthersAreCurrent ==
    ASSUME NEW t, t.at # "claims"
    PROVE  Current(t)
BY DEF Current

LEMMA CreateDepartmentReads ==
    ASSUME ClaimsInv, NEW r \in Requests, CreateDepartment(r)
    PROVE  ReadsAreCurrent' /\ IsFiniteSet(DOMAIN parent')
<1>1. Current(Idle)
  BY OthersAreCurrent DEF Idle
<1>2. CASE task[r].slug \in DOMAIN parent
  BY <1>1, <1>2, OneTaskReads DEF CreateDepartment
<1>3. CASE task[r].slug \notin DOMAIN parent
  <2>1. parent' = Put(parent, task[r].slug, task[r].parent) /\ Goto(r, Idle) /\ rows' = rows
    BY <1>3 DEF CreateDepartment
  <2>2. IsFiniteSet(DOMAIN parent')
    <3>1. DOMAIN parent' = DOMAIN parent \union {task[r].slug}
      BY <2>1 DEF Put
    <3>2. QED
      BY <3>1, FS_AddElement DEF ClaimsInv
  <2>3. \A p : GrownInto(p, parent) => GrownInto(p, parent')
    BY <1>3, <2>1 DEF GrownInto, Put
  <2>4. \A q \in Requests : task'[q] = task[q] \/ task'[q] = Idle
    BY <2>1 DEF Goto, ClaimsInv, OrgInv, TypeOK
  <2>5. \A q \in Requests : Current(task[q])' \/ task'[q] = Idle
    BY <2>1, <2>3, <2>4 DEF ClaimsInv, ReadsAreCurrent, Current
  <2>6. QED
    BY <2>2, <2>5 DEF ReadsAreCurrent, Current, Idle
<1>4. QED
  BY <1>2, <1>3

LEMMA CommitReads ==
    ASSUME ClaimsInv, NEW r \in Requests, Commit(r)
    PROVE  ReadsAreCurrent' /\ IsFiniteSet(DOMAIN parent')
<1> DEFINE t == task[r]
<1>1. t \in Replacements
  BY TasksAreSound, TaskShapes DEF Commit, Committed, Sound, ClaimsInv
<1>2. /\ \A q \in Requests : task'[q] = IF q = r THEN [at |-> "revoke", user |-> t.user]
                                        ELSE Overtaken(task[q], t)
      /\ rows' = [rows EXCEPT ![t.kind][t.user] = Kept(t) \union t.given]
      /\ parent' = parent
  BY DEF Commit, Committed
<1>3. \A kind \in Kinds, u \in Users :
          kind # t.kind \/ u # t.user => rows'[kind][u] = rows[kind][u]
  BY <1>1, <1>2 DEF ClaimsInv, OrgInv, TypeOK, Replacements
<1>4. ASSUME NEW q \in Requests, task'[q].at = "claims"
      PROVE  Current(task[q])'
  <2>1. task'[q] = Overtaken(task[q], t) /\ task[q] \in Tasks
    BY <1>2, <1>4 DEF ClaimsInv, OrgInv, TypeOK
  <2>2. task[q] \in Mints /\ task[q].at = "claims" /\ task[q].user \in Users
    BY <1>1, <1>4, <2>1, OvertakenTask, TaskShapes DEF Mints
  <2>3. task'[q] = Disturbed(task[q], t.kind, t.user) /\ Current(task[q])
    BY <2>1, <2>2 DEF Overtaken, ClaimsInv, ReadsAreCurrent
  <2>4. CASE task[q].user = t.user /\ t.kind \in task[q].read
    <3>1. task'[q] = [task[q] EXCEPT !.torn = @ \union {t.kind}]
      BY <2>2, <2>3, <2>4 DEF Disturbed
    <3>2. /\ task'[q].torn = task[q].torn \union {t.kind}
          /\ task'[q].read = task[q].read /\ task'[q].user = task[q].user
          /\ task'[q].memberships = task[q].memberships
          /\ task'[q].compartments = task[q].compartments
          /\ task'[q].departments = task[q].departments
      BY <2>2, <3>1 DEF Mints
    <3>3. QED
      BY <1>2, <1>3, <2>2, <2>3, <3>2 DEF Current, Kinds
  <2>5. CASE ~(task[q].user = t.user /\ t.kind \in task[q].read)
    <3>1. task'[q] = task[q]
      BY <2>3, <2>5 DEF Disturbed
    <3>2. \A kind \in Kinds :
              kind \in task[q].read => rows'[kind][task[q].user] = rows[kind][task[q].user]
      BY <1>3, <2>2, <2>5
    <3>3. QED
      BY <1>2, <2>3, <3>1, <3>2 DEF Current, Kinds
  <2>6. QED
    BY <2>4, <2>5
<1>5. QED
  BY <1>2, <1>4 DEF ReadsAreCurrent, Current, ClaimsInv

LEMMA QueryReads ==
    ASSUME ClaimsInv, NEW r \in Requests, NEW table \in Tables, Query(r, table)
    PROVE  ReadsAreCurrent' /\ IsFiniteSet(DOMAIN parent')
<1> DEFINE t == task[r]
           answer == IF table = "departments" THEN parent ELSE rows[table][t.user]
           next == [t EXCEPT !.read = @ \union {table}, ![table] = answer]
<1>1. t \in Mints /\ t.at = "claims"
  BY TasksAreSound, TaskShapes DEF Query, Sound, ClaimsInv
<1>2. Current(t)
  BY DEF ClaimsInv, ReadsAreCurrent
<1>3. Current(next)
  <2>1. CASE table = "departments"
    BY <1>1, <1>2, <2>1 DEF Mints, Current, GrownInto
  <2>2. CASE table = "memberships"
    BY <1>1, <1>2, <2>2 DEF Mints, Current
  <2>3. CASE table = "compartments"
    BY <1>1, <1>2, <2>3 DEF Mints, Current
  <2>4. QED
    BY <2>1, <2>2, <2>3 DEF Tables, Kinds
<1>4. QED
  BY <1>3, OneTaskReads DEF Query

LEMMA ReadsStep ==
    ASSUME ClaimsInv, [Next]_vars
    PROVE  ClaimsInv'
<1> USE DEF ClaimsInv
<1>1. OrgInv'
  BY StepInv
<1>2. ASSUME UNCHANGED <<parent, rows, task>>
      PROVE  ReadsAreCurrent' /\ IsFiniteSet(DOMAIN parent')
  BY <1>2 DEF ReadsAreCurrent, Current
<1>3. Current(Idle)
  BY OthersAreCurrent DEF Idle
<1>4. ASSUME NEW r \in Requests, Proceed(r)
      PROVE  ReadsAreCurrent' /\ IsFiniteSet(DOMAIN parent')
  <2>1. ASSUME Delete(r)
        PROVE  ReadsAreCurrent' /\ IsFiniteSet(DOMAIN parent')
    <3> DEFINE next == [task[r] EXCEPT !.at = "insert",
                                       !.deleted = rows[task[r].kind][task[r].user]]
    <3>1. task[r] \in Replacements
      BY <2>1, TasksAreSound, TaskShapes DEF Delete, Sound
    <3>2. next.at = "insert"
      BY <3>1 DEF Replacements
    <3>3. QED
      BY <2>1, <3>2, OthersAreCurrent, OneTaskReads DEF Delete
  <2>2. ASSUME Abort(r) \/ Revoke(r) \/ Claim(r)
        PROVE  ReadsAreCurrent' /\ IsFiniteSet(DOMAIN parent')
    BY <1>3, <2>2, OneTaskReads DEF Abort, Revoke, Claim
  <2>3. QED
    BY <1>4, <2>1, <2>2, CreateDepartmentReads, CommitReads, QueryReads DEF Proceed
<1>5. ASSUME NEW r \in Requests, NEW d \in Departments, NEW p \in Departments \union {None},
             FindParent(r, d, p)
      PROVE  ReadsAreCurrent' /\ IsFiniteSet(DOMAIN parent')
  BY <1>5, OthersAreCurrent, OneTaskReads DEF FindParent, Start
<1>6. ASSUME NEW r \in Requests, NEW u \in Users, NEW kind \in Kinds, NEW given \in Bodies[kind],
             Validate(r, kind, u, given)
      PROVE  ReadsAreCurrent' /\ IsFiniteSet(DOMAIN parent')
  BY <1>6, OthersAreCurrent, OneTaskReads DEF Validate, Start
<1>7. ASSUME NEW r \in Requests, NEW u \in Users, StartClaims(r, u)
      PROVE  ReadsAreCurrent' /\ IsFiniteSet(DOMAIN parent')
  <2> DEFINE next == [at |-> "claims", user |-> u, read |-> {}, torn |-> {},
                      memberships |-> {}, compartments |-> {}, departments |-> EmptyMap]
  <2>1. Current(next)
    BY DEF Current
  <2>2. QED
    BY <1>7, <2>1, OneTaskReads DEF StartClaims, Start
<1>8. CASE Restart
  <2>1. parent' = parent
    BY <1>8, SeedChangesNoParent
  <2>2. \A r \in Requests : task'[r] = Idle
    BY <1>8 DEF Restart
  <2>3. QED
    BY <1>1, <2>1, <2>2 DEF ReadsAreCurrent, Current, Idle
<1>9. ASSUME NEW r \in Requests, Fail(r)
      PROVE  ReadsAreCurrent' /\ IsFiniteSet(DOMAIN parent')
  BY <1>3, <1>9, OneTaskReads DEF Fail
<1>10. CASE Serve
  BY <1>1, <1>2, <1>4, <1>5, <1>6, <1>7, <1>10 DEF Serve, CreateCompartment
<1>11. CASE UNCHANGED vars
  BY <1>1, <1>2, <1>11 DEF vars
<1>12. QED
  BY <1>1, <1>8, <1>9, <1>10, <1>11 DEF Next

\* What a mint has read is what the tables hold, or what has grown or changed
\* in a way its history tells.
THEOREM ReadsCurrent == Spec => []ClaimsInv
<1>1. Init => ClaimsInv
  <2>1. Init => ReadsAreCurrent
    BY OthersAreCurrent DEF Init, ReadsAreCurrent, Idle
  <2>2. QED
    BY <2>1, InitInv, OrgAssumption DEF Init, ClaimsInv
<1>2. ClaimsInv /\ [Next]_vars => ClaimsInv'
  BY ReadsStep
<1>3. QED
  BY <1>1, <1>2, PTL DEF Spec

\* The claims derived from what a mint has read by walking down are the user's
\* scope, read off the tables by climbing, but for departments created since.
THEOREM ClaimsExact == Spec => []ClaimsAreExact
<1>1. ASSUME ClaimsInv, NEW r \in Requests, Read(task[r]), "memberships" \notin task[r].torn
      PROVE  /\ ClaimsFrom(task[r]).departments \subseteq Scope(task[r].user).departments
             /\ Scope(task[r].user).departments \ ClaimsFrom(task[r]).departments
                    \subseteq DOMAIN parent \ DOMAIN task[r].departments
  <2> DEFINE t == task[r]
             p == t.departments
             M == rows["memberships"][t.user]
             managed == {m \in M : InheritsDescendants(m[2])}
             found == Keys(M) \union UNION {Descendants(p)[m[1]] : m \in managed}
             held == {d \in DOMAIN parent : \E m \in M :
                          d = m[1] \/ (m[2] \in Senior /\ Within(d, m[1]))}
  <2>1. t \in Mints /\ t.user \in Users
    BY <1>1, TasksAreSound, TaskShapes DEF Read, Sound, ClaimsInv, Mints
  <2>2. t.memberships = M /\ GrownInto(p, parent) /\ p \in Forests
    BY <1>1, <2>1 DEF ClaimsInv, ReadsAreCurrent, Current, Read, Tables, Kinds, Mints
  <2>3. /\ parent \in Forests /\ IsForest(parent) /\ IsFiniteSet(DOMAIN parent)
        /\ DOMAIN parent \subseteq Departments
        /\ \A m \in M : m[1] \in DOMAIN parent
    BY <1>1, <2>1, ForestMap
       DEF ClaimsInv, OrgInv, TypeOK, DepartmentsFormForest, Keys, Exists, Kinds
  <2>4. IsForest(p) /\ IsFiniteSet(DOMAIN p)
    <3>1. DOMAIN p \subseteq DOMAIN parent /\ \A d \in DOMAIN p : parent[d] = p[d]
      BY <2>2 DEF GrownInto
    <3>2. QED
      BY <2>3, <3>1, FS_Subset DEF IsForest
  <2>5. \A m \in M : Descendants(p)[m[1]] = Below(p, m[1])
    BY <2>2, <2>3, <2>4, WalkIsExact
  <2>6. \A m \in M : /\ Below(p, m[1]) \subseteq Below(parent, m[1])
                     /\ Below(parent, m[1]) \intersect DOMAIN p \subseteq Below(p, m[1])
    BY <2>2, <2>3, GrownBelow
  <2>7. \A m \in M : \A d \in DOMAIN parent :
            Within(d, m[1]) <=> d = m[1] \/ d \in Below(parent, m[1])
    <3>1. ASSUME NEW m \in M, NEW d \in DOMAIN parent
          PROVE  Within(d, m[1]) <=> Under(parent, d, m[1])
      BY DEF Within, Under
    <3>2. QED
      BY <2>3, <3>1, UnderIsBelow
  <2>8. found = Keys(M) \union {d \in DOMAIN p : \E m \in M :
                                   m[2] \in Senior /\ d \in Below(p, m[1])}
    BY <2>5, SeniorRanks DEF Below
  <2>9. held = {d \in DOMAIN parent : \E m \in M :
                    d = m[1] \/ (m[2] \in Senior /\ d \in Below(parent, m[1]))}
    BY <2>7
  <2>10. found \subseteq held /\ held \ found \subseteq DOMAIN parent \ DOMAIN p
    <3> HIDE DEF found, held
    <3>1. ASSUME NEW d \in found
          PROVE  d \in held
      <4>1. CASE d \in Keys(M)
        BY <2>3, <2>9, <4>1 DEF Keys
      <4>2. CASE d \in DOMAIN p /\ \E m \in M : m[2] \in Senior /\ d \in Below(p, m[1])
        <5>1. PICK m \in M : m[2] \in Senior /\ d \in Below(p, m[1])
          BY <4>2
        <5>2. d \in Below(parent, m[1])
          BY <2>6, <5>1
        <5>3. d \in DOMAIN parent
          BY <2>2, <4>2 DEF GrownInto
        <5>4. QED
          BY <2>9, <5>1, <5>2, <5>3
      <4>3. QED
        BY <2>8, <4>1, <4>2
    <3>2. ASSUME NEW d \in held, d \notin found
          PROVE  d \notin DOMAIN p
      BY <2>6, <2>8, <2>9, <3>2 DEF Keys
    <3>3. QED
      BY <2>9, <3>1, <3>2
  <2>11. ClaimsFrom(t).departments = found /\ Scope(t.user).departments = held
    BY <2>2 DEF ClaimsFrom, Scope
  <2>12. QED
    BY <2>10, <2>11
<1>2. ASSUME ClaimsInv, NEW r \in Requests, Read(task[r]), "compartments" \notin task[r].torn
      PROVE  ClaimsFrom(task[r]).compartments = Scope(task[r].user).compartments
  <2>1. task[r].compartments = rows["compartments"][task[r].user]
    BY <1>2 DEF ClaimsInv, ReadsAreCurrent, Current, Read, Tables, Kinds
  <2>2. QED
    BY <2>1 DEF ClaimsFrom, Scope
<1>3. ClaimsInv => ClaimsAreExact
  BY <1>1, <1>2 DEF ClaimsAreExact
<1>4. QED
  BY <1>3, ReadsCurrent, PTL
=============================================================================
