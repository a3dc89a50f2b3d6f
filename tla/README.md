# A verification project for the Event-Driven ABAC RAG platform

TLA+ models of the parts of this repository that hold state and can be got
wrong by an unlucky order of events, the TLC configurations that check them on
small instances, and TLAPS proofs of what matters most for every instance.
Paths are relative to `src/`; `AS/` stands for
`apps/services/auth-service/src/`.

## 1. The system

The repository is a monorepo around one service with real logic, the
auth-service (NestJS). Everything downstream trusts the claims it signs.

| Component | State it keeps | Operations | Talks to |
|---|---|---|---|
| Session store, Redis (`AS/sessions/redis-session.store.ts`) | `refresh:{hash}`, `family:{id}`, `userfam:{uid}`, each with a TTL | createSession, rotate, revoke, revokeUser | called by the flows, administration, organisation |
| Session store, in memory (`AS/sessions/session.store.ts`) | two maps | the same interface | used by the tests and the proof of concept |
| Authentication flows (`AS/auth/*.ts`, `AS/auth.controller.ts`) | none of their own; `pwreset:{hash}` in Redis | login, signup, refresh, logout, logout-all, change / forgot / reset password, me | identity provider, session store, RBAC, organisation, token service, mailer |
| Identity provider (`AS/users/*.ts`) | user rows in Postgres | findById, verifyCredentials, createUser, changePassword | Postgres |
| RBAC (`AS/rbac/rbac.service.ts`) | roles, permissions, scoped assignments | effectiveGrants, can, rolesFor, scopesFor | Postgres; read by administration and organisation |
| Administration (`AS/admin/*.ts`) | attribute columns, role assignments | listUsers, listRoles, grantAttributes, assignRole, removeRole | RBAC, Postgres, session store |
| Organisation (`AS/org/*.ts`) | department forest, compartments, memberships | create department / compartment, set memberships / compartments, effectiveClaims | RBAC, Postgres, session store; read at every token mint |
| Token service and JWKS (`AS/jwt/*.ts`, `AS/config/configuration.ts`) | the signing key, additional verification keys | load, sign, verify, publish keys | the gateway fetches the keys |
| Seed and container start (`apps/services/auth-service/prisma/seed.ts`, `Dockerfile`) | upserts users, roles, organisation at each start | main | Postgres |
| Browser-facing web app (`apps/web/mainapp`) | cookies in the browser | middleware's silent refresh, server actions, API proxy | auth-service over HTTP |
| Gateway (`infra/gateway/krakend.json`) | none | JWT validation in front of the RAG route | JWKS endpoint |
| RAG gateway (`apps/services/rag-gateway-service`, Go) | none | scaffold: one fixed answer | - |
| Ingestion worker (`apps/services/ingestion-retrieval-service`, Python) | a Redis list | scaffold: pops and logs | its own Redis |
| Contracts, shared types, UI packages, CSS, mailer, health | none | - | - |

**What is hard here.** Handlers are chains of awaited store calls, so any two
requests interleave between calls (check-then-act on passwords, scopes and
memberships; a token minted from rows read before a change). The session store
keeps three kinds of keys that must agree and expire on three clocks.
Revocation works through indexes, never by scanning. A failed call ends a
handler halfway. Redis commands may be sent twice. A restart loses handlers and
reruns the seed. Keys are rotated by hand, in an environment file, under tokens
that are still out. Two administrators, or two tabs, act at once.

**What makes each part correct.** *Session store:* every live token can be
found by the revocation that should find it; rotation leaves exactly one
current token per family; a recognised replay leaves nothing; a dead family
stays dead, also when Redis comes back from an old file, as far as the file
allows. *Identity provider:* an account can be logged in to, one account per
email, whichever implementation is wired in. *Flows:* a session outlives a password change only for a reason the
code knows; a reset token is worth one change; only the owner or the seed
changes a password. *Administration and organisation:* writes stay in the
administrator's scope, omitted fields are unchanged, a role is not handed out
twice, replaced memberships are the given ones, the forest has no cycles and claims follow it. *Web app:* an
honest client is never taken for a thief and a session is refreshed as long as
its refresh token lives. *Keys:* every unexpired token verifies, across rotations.

## 2. The modules

| Module | What it is |
|---|---|
| `KeyValue` | finite maps: Redis's keyspace and JavaScript's `Map` |
| `SessionStore` | what the `SessionStore` interface promises, without hashes, indexes or clocks; twice: `Spec` as documented, `FadingSpec` for a store that forgets retired tokens |
| `RedisSessionStore` | the deployed store, key by key and second by second; implements `SessionStore!FadingSpec` |
| `RedisSnapshots` | the same store on a Redis that crashes and comes back with the keyspace of its latest file |
| `InMemorySessionStore` | the process-local store; implements `SessionStore!Spec` |
| `IdentityProvider` | what the `IdentityProvider` interface promises: each call takes effect at one moment |
| `IdentityBackends` | its two implementations, on Postgres and in memory, with the awaited hashing between their steps; implements `IdentityProvider!Spec` |
| `AuthService` | the flows over `SessionStore` (instantiated with its `FadingSpec` operations), the user rows, reset tokens and the seed |
| `Organisation` | the department forest, the replacement of memberships and compartments by overlapping transactions, and the claims a token mint reads |
| `Administration` | attributes and scoped role assignments, RBAC's decisions, and the handlers that check and then write |
| `BrowserSession` | one browser's cookie jar and requests, the middleware, the proxy and the refresh and sign-out handlers, over `SessionStore` |
| `KeyRotation` | the signing and verification keys, from the environment file through `load()` to the tokens that verify |
| `...Proofs` | the proofs about the module of that name; `RedisSessionStoreProofs` has those about `RedisSnapshots` too |
| `MC...` | TLC instances: symmetry and views |

**RedisSessionStore.** A token stands for its own SHA-256 hash. `refresh`,
`family` and `userfam` are the three kinds of keys; `ttl` in each value is the
number of seconds Redis will still keep the key, and `Tick` is one second of
Redis's clock. Each MULTI or Lua script is one action because Redis runs it
without interruption; `ROTATE_LUA`'s three branches are `RotateUnknown`,
`RotateReplayed` and `RotateCurrent`, and any token, ever issued or not, may be
presented. `minted` and `opener` are history: `randomBytes(32)` and
`randomUUID()` never repeat, and `opener[f]` is the token the login of family f
answered. A loop over `DEL` of set members is one set-valued `Drop`.

**RedisSnapshots.** Compose runs `redis:7-alpine` with a volume, `restart:
unless-stopped` and no configuration, so Redis saves its keyspace to a file now
and then and logs no commands in between. `saved` is the latest file, written
as of `Save`; `Crash` puts it in the keyspace's place. The file holds moments of
expiry, so `Second` ages it with the keyspace. The operations are those of
`RedisSessionStore`, the clients keep the tokens they were handed (`newest`).
`Save` at any moment covers whatever save points Redis has by default.

**IdentityBackends.** `database` tells the two implementations apart. argon2's
hash and verify are awaited: a verification reads the user (`ReadUser`) and
compares later (`CompareHash`), with the decoy's hash when there is no such
user; a creation in memory looks the email up (`CheckEmail`) and inserts after
the hashing, one in Postgres inserts under the unique index and is refused with
P2002. The refinement mapping lets a verification take effect when it reads and
a creation when it inserts. The promise in `IdentityProvider` separates the
two where they differ: in memory two overlapping sign-ups for one email both
succeed, and the earlier account is hidden behind the later one
(`user.store.ts:160`); the deployed provider has the index. Email spelling
(trim, lower case) and ABAC attributes are abstracted.

**InMemorySessionStore.** Each method runs to its end without an await.
`expiresAt` is kept as the seconds left, `-1` meaning past; `Restart` empties
the maps.

**AuthService.** `task[r]` is the handler of request r between two awaited
calls: what it has learnt and the call to come. A 4xx answer that changed
nothing is not a step. `by`, `raced`, `unrevoked`, `mailed`, `presented` and
`proven` are history, written next to the assignments they describe and never
read by an action's guard: `mailed` has each reset token with the user whose
address it went to, `presented` the tokens that were handed in, and `proven` the
requests that have shown the current password of their user, or a token that
was mailed to that user and not presented before. They are recorded when the
request shows it, apart from what the handler does with the answer, so a
handler that forgot to look would write without being in `proven`; that is what
`PasswordChangesAreAuthorised` asks of every write. `access`
is the set of users somebody holds an unexpired access token of. `Fail(r)` is
an exception out of the next call; `Restart` ends all handlers and reruns the
seed. `Init` has both a seeded database and an empty one (`start:dev` runs no
seed). me() only reads and has no action. JWT claims are `Organisation`'s.

**Organisation.** `task[r]` is again the handler of request r between two
queries. A replacement is a transaction of a DELETE and an INSERT at Postgres's
default isolation, READ COMMITTED, which is external to this code and modelled
as follows: the DELETE removes the rows committed when it began, whatever
commits later; the INSERT fails on a key that is taken when it commits; rows of
a transaction become visible together when it commits. A statement that waits
for a row lock is a statement that runs later, so blocking shows up only as
an order of commits. The revocation is a call of its own after the commit, and
a failure or restart in between loses it. `effectiveClaims` is three queries,
one per table, in any order, since they are issued together, and then a pure
walk down the forest: `Descendants` is a
recursive function with no visited set, as in the code. Which memberships a
request body may give is the constant `Bodies`. That the caller may make the
request (`require`, RBAC's `can` without a target) is taken for granted. A body
is a set of rows: a department given twice with one rank, which the table's key
refuses, is not told from once. `last`, `beside` and `pending` are history:
the latest replacement of each user's rows, the rows that may stand beside it
(given by replacements that committed while its transaction was open, or put
there by the seed since), and the revocations that are due. So is `torn` in the
task of a mint: the tables it has read in which that user's rows were replaced
since.

**Administration.** `attrs` and `copies` are the User columns and the UserRole
rows, the latter with a count, because the unique index does not apply to rows
with a null. The roles, permissions, hierarchy and floors are the seed's, written out
as functions; nothing but the seed writes them. `can()` is two queries, the caller's assignments
(`CheckGrants`) and the caller's level (`CheckLevel`), and grantAttributes asks
twice, for the old scope and the new (`ask`). The code takes the maximum of the
matching grants' floors, which are all the permission's own. `stale` in a task
is history: the fields of the target that others have changed since the handler
read them, and `"caller"` if the caller has since been deprived of a role or of
the level the permission asks for. Any other change of the two users leaves the
handler under the full obligation.
Clearance is an attribute like level without a floor and is left out; the
caller's access token is valid, since any signed-in user may call. `Restart`
is the seed.

**BrowserSession.** `jar` is the browser's two cookies; `req[r]` a request in
flight, with the cookies it took from the jar when it was sent, and `at` what
happens to it next: the middleware (`gate`), the refresh handler (`rotate`,
then `sign`), another handler (`serve`, `reissue`), or its answer on the way
back. `Apply` is the answer reaching the browser, `Lose` the answer not
reaching it. `CarriesRefresh` is the cookie's path: `/api/auth`, so a page never
carries the refresh token. `Gate` has the middleware's refresh branch all the same, in
its place; with that path it is never taken (finding 3), and what follows a
refusal there is not carried further. `ResendRotation` is
the Redis client sending the script again after its reply was lost
(`maxRetriesPerRequest`). Login and signup open a session in the same way and
are one kind of request. A reset password carries no access token and revokes
every session of the user, but leaves the browser's cookies alone; a user disabled between rotation and mint is
in `AuthService`. `home`, `lost` and `overlapped` are history.

**KeyRotation.** `plan` is the environment the operator means the service to
have, `env` the one the container was created with, `config` what `load()` made of
it. `Deploy` creates the container with a plan changed as
`configuration.ts:30-35` and `.env.example` document it: `Rotated` (to a new pair, or
back to one still listed), `Dropped` (once the tokens of a kid have expired,
counted by `idle`), `Retuned` (another lifetime). `Misdeploy` is a file with one
variable wrong: blank, unreadable, left from another plan, a list that is not JSON
or names the active key again, a private key in PKCS#1. `Load` derives the public key when
none is given and leaves out list entries without a PEM; `Refused` is what makes it throw, and
then the container goes on restarting in vain. A key stands for both its
halves; a PEM is a key, nothing, or text with a header and no key behind it
(`normalizePem` looks at the header alone). `Verifies` is jose's local key
set, which is external: it selects by kid and refuses when several keys or none
carry it. `additionalVerifyKeys` is a set, so an entry listed twice is not
represented. The imports are made once and kept; since the configuration never
changes in a process, neither does their outcome. The gateway has no
key cache configured and sees the same set. `asPlanned` in a token is history.

## 3. The runs

| Run | Module and bounds | Shows |
|---|---|---|
| `redis_store` | 2 users, 3 families, 5 tokens, TTL 3 | the index invariants, the two action properties, and the refinement of `FadingSpec` |
| `redis_crash` | 2 users, 2 families, 5 tokens, TTL 3 | revocation indexes stay consistent across crashes, a client that presents its newest token is never taken for a thief, and what had ended when the latest file was begun stays ended |
| `memory_store` | 2 users, 3 families, 4 tokens, TTL 2 | the store keeps the documented promise, including the two properties that the Redis store does not have |
| `identity` | 2 emails, 3 ids (1 seeded), 2 passwords, 2 calls in flight | both implementations keep the interface's promise, and an account is hidden only by overlapping sign-ups in memory |
| `auth_flows` | 1 user, 2 requests in flight, 2 families, 3 tokens, 2 passwords, 1 reset token | stale sessions are explained, reset tokens are single-use, whoever changes a password has shown the old one or the mailed token, under failures and restarts |
| `revoke_user_misses` | 1 user, 2 families, 4 tokens, TTL 2 | **finding 1** |
| `stale_session` | as `auth_flows`, without faults | **finding 2** |
| `organisation` | 1 user, 2 requests in flight, 3 departments (2 of them seeded), 1 compartment, 4 membership and 2 compartment bodies | the forest has no cycles; a replacement leaves every row it was given and beside them only rows of overlapping replacements or the seed; claims are what the forest gives the memberships, but for departments created meanwhile and for a table torn under the mint; a committed change is revoked unless its handler fails |
| `administration` | 2 users, 2 requests in flight, 1 tenant, 2 departments, 2 levels, 4 grants and 3 role assignments that may be asked for | writes are authorised unless the caller lost something or the target was moved since the check; a grant undoes changes of the fields it omits only if they came after its read; a role has no more copies than requests in flight; what may be changed may be listed; a restart restores the administrator |
| `browser_session` | 1 user, 2 requests in flight, 2 families, 3 tokens | a retired token leaves the jar, the reuse alarm meets the user himself only after overlap or loss, a sign-out ends the session |
| `bounced_at_expiry` | the same with 1 request | **finding 3** |
| `key_rotation` | 3 kids, 2 keys, lifetimes of 1 and 2 ticks, 2 unexpired tokens | a service that runs as planned verifies every token it signed as planned; lost list entries cost only their own tokens |

*Why the bounds are enough.* In the Redis store the interesting case is a
family whose current token is renewed while its first token and the user's
index run out: TTL 3 lets one rotation happen in each second with the others
at different ages, three families of two users let one user have two families
and another user's be untouched, and five tokens give a login, two rotations
and another family's pair. All properties are preserved by the theorems of
section 4 for every size anyway. The in-memory store needs no more: its clock
only matters at zero. A crash needs a file, a rotation it undoes and another
rotation in its place, of a second family beside the first: two families and five tokens. For
the accounts, a race is between two calls for one email; one account is seeded,
and the other two ids let both sign-ups of a race succeed, or one follow
another. In the flows every race is between two handlers; one
user is enough for them because handlers of different users share no row, and
the stores' behaviour towards several users is checked in their own modules.
In the organisation a race is again between two handlers of one user's
rows. Three departments give a parent, a child and one to create below either;
the bodies cover the empty set, a rank that inherits, a rank that does not, two
departments at once, and one department named twice, which the INSERT's key
refuses. In the administration the two users can each
act on the other and on themselves, one scope has a null tenant and one has none,
the levels lie on both sides of the floor for assigning roles, and the seeded
administrator can lose his role or his level. In the browser two requests overlap in every way a token can be
presented twice, and three tokens give two logins and a rotation, or one login
and two rotations.
For the keys, three kids give an active one, a retired one and one to rotate to,
two keys let a kid name another key than before, and the longer lifetime spans
two ticks, so a token outlives a rotation and the wait for it is not trivially over;
plans and waits are finite, so there is no bound on deployments.
Families, tokens, requests, reset tokens, kids and keys are symmetric sets; symmetry is
used only where every property is a safety property, so it is sound.
`ViewWithoutReply` leaves out the store's latest answer, which no guard reads
and no property mentions.

*Fairness.* `Organisation` alone assumes any, for `ChangesAreRevoked`: a handler
that has a next step takes it (weak fairness of `Proceed(r)`). The event loop
runs every continuation whose query has settled, and every query and Redis
command settles: the Redis client gives up after three retries, Postgres
answers or drops the connection, and a rejected promise is the action `Fail`.
Nothing is assumed of clients, failures or restarts. Every other property is a
safety property or a step refinement; the violations are finite behaviours.

*Findings.*

1. `ROTATE_LUA` renews the family's lifetime but not the user's index
   (`redis-session.store.ts:57`). A session kept alive by refreshing for longer
   than the TTL since the user's last login drops out of `userfam:{uid}`, and
   `revokeUser` (logout-all, password change, attribute change) leaves it
   alive, against `session.store.ts:48`. `RecentLoginIsListed` states exactly
   what does hold.
2. A login that has verified the old password opens its session after a
   password change has revoked (`auth.service.ts:171`), against
   `auth.service.ts:79-81` and `password-reset.service.ts:15`.
   `StaleSessionsAreExplained` lists the only reasons for which an old
   session survives.
3. Once the access token has expired the middleware redirects a browser with a
   live session to the login page: its silent refresh (`middleware.ts:65`)
   waits for a cookie whose path (`auth.controller.ts:35`) no page matches,
   against `middleware.ts:6-8`.

Two more statements of the code hold in a weaker form, and the runs check that
form. *Replays:* the Redis store recognises a replay only as long as it
remembers the retired token, which keeps the lifetime it had when it was
retired (`redis-session.store.ts:52`); a later replay is answered `invalid` and
the family lives on, where `session.store.ts:10-11` says that a replay revokes
it. `RememberedReplayBurnsFamily` states what does hold; the in-memory store
has no such limit (`ReplayBurnsFamily`). *Memberships:* two replacements of one
user's rows that overlap leave the union of both (`org.service.ts:144`), since
the later DELETE does not see what the earlier transaction has yet to commit,
where `org.service.ts:124` speaks of the given set, and the seed puts its rows
back. `ReplacementsAreWhole` states what does hold, overlaps and restarts
included: nothing of the latest replacement is missing, and no row survives that
was there before it began. *Claims:* the three queries of a mint see no common
moment. `ClaimsAreExact` bounds what that can do: a department created between
the queries may be missing, none that is out of scope is ever claimed, and only a
replacement of the very rows read makes a difference beyond that.

Three weaker guarantees of administration are stated as they are, not as
findings. A grant undoes what another did to a field between its read and its
write (`OmittedFieldsKept` excepts that field alone; `grant.dto.ts:4` says
omitted fields are left unchanged). A write is authorised by what the checks
saw: `WritesAreAuthorised` lets it pass if the caller was deprived in between,
and lets the old scope pass if the target was moved out of it in between, against
`admin.service.ts:119`; the new scope and an assigned one it never lets pass for
the latter. And a role with a null in its scope can be assigned as often at
once as requests are in flight, and no more often than that
(`CopiesAreBounded`).

Three ways in which a wrong file gets past `load()` are in the model as slips and under
the hazards, without a run of their own: an explicit public key that is not the
private key's, a PKCS#1 private key (`configuration.ts:26` allows it,
`importPKCS8` does not), and an additional key with a header and nothing behind
it, which spoils the whole key set.

## 4. The proofs

`RedisSessionStoreProofs`, for any sets of users, families and tokens and any
TTL in `Nat \ {0}`; that is the only assumption (`TtlAssumption`).

* `TypeCorrect`: `Spec => []TypeOK`.
* `IndexCorrect`: `Spec => []IndexInv`. None of the index invariants is
  inductive alone. That a token is in its family's set survives a revocation
  only if sets name no other family's tokens (`KeysNameEachOther`); that a
  family has a current token as long as its key survives expiry only if both
  have the same lifetime and every member's is no longer
  (`FamilySetIsComplete`, `OneCurrentToken`); that a login's family is listed
  survives a revocation of another user only if indexes name their own user's
  families (`IndexNamesOwnFamilies`). `IndexInv` is their conjunction with the
  type invariant.
* `FamilySetsComplete`, `OneCurrentTokenPerFamily`, `RecentLoginsListed`:
  its parts, as properties of the specification.
* `DeadFamiliesStayDead`, `RememberedReplaysBurn`: the two action properties.
* `StoreKeepsFadingPromise`: `Spec => SessionStore!FadingSpec` under the
  refinement mapping that forgets lifetimes and indexes.

The argument: each operation is first reduced to its pointwise effect on the
keys (`CreateEffect`, `RotateEffect`, `BurnEffect`, `RevokeUserEffect`,
`TickEffect`); a revocation of any kind is the same effect, `Removed(F)` for the
families F; one lemma per effect shows that it keeps `IndexInv`; the
refinement uses `IndexInv` to show that a burn removes all and only the
family's tokens, that revokeUser reaches every remembered family of the user,
and that a current token expires no earlier than its family's retired ones.

The same module proves `RedisSnapshots`, again from `TtlAssumption` alone:
`SnapshotsSound`, the inductive invariant; `CrashesKeepIndexes`,
`CrashesRaiseNoAlarm` and `SavedEndsAreFinal`. What a crash brings back must
itself be consistent, so the invariant is `IndexInv` twice, of the keyspace and of
the file (`Saved`, the store over the file's keys); that the newest token of a family is
unused wherever a record of it is held; and that what was of no use when the
file was begun is of none in the file either. The lemmas about the operations
serve the keyspace; the file only ages, which `SecondKeepsSaved` proves for it.

`OrganisationProofs`, for any users, departments, compartments, requests,
request bodies and seed that `OrgAssumption` allows (bodies are sets of rows,
the seeded departments form a finite forest: the seed is a list in the source):

* `OrganisationSound`: `Spec => []OrgInv`, the inductive invariant.
* `TypeCorrect`: `Spec => []TypeOK`, and with it one row per key and that every
  row names a department or compartment that exists.
* `ForestKept`: `Spec => []DepartmentsFormForest`.
* `WholeReplacements`: `Spec => []ReplacementsAreWhole`.

The invariant `OrgInv` adds what the tables need of the handlers in flight: the
parent a create handler has looked up, and the rows a replacement is about to
insert, name departments and compartments that exist (`Referenced`; nothing
deletes one); what is seeded is in the tables (`SeedWired`); and what a replacement has not deleted of the
user's rows was given by those that committed since it began (`Snapshot`). A department is
only ever added as a leaf, below a parent that was there before it, which is why
the forest cannot close a cycle; a non-empty set of departments has a member
whose parent is outside it, and the new leaf is one or is not in the set.

* `ReadsCurrent`: `Spec => []ClaimsInv`, which adds to `OrgInv` that there are
  finitely many departments and that what a token mint has read of a table is
  what the table holds, unless that user's rows were replaced since, and of the
  departments the forest as it was, which has only grown (`ReadsAreCurrent`,
  `GrownInto`).
* `ClaimsExact`: `Spec => []ClaimsAreExact`.

The claims come from the recursive walk `addDescendants`, and what is below a
department is defined by the sets of departments that are closed under parents,
without recursion. That the two agree is proved without induction over the forest,
which is out of the prover's reach. The function `Below` solves the walk's
equation (`BelowUnfolds`), so the walk is a solution (`DescendantsUnfold`); if
there were departments where it is not `Below`, each would have a child where it is
not either. Mapping each to that child is one-to-one, since a child has one parent,
hence onto in a finite set: every one of them would have its parent among them,
which no forest allows (`DescentEnds`). A forest that has grown has the same
descendants among the departments that were there (`GrownBelow`), and those are
all a mint can have walked. That rows with a rank of `InheritsDescendants` are
those of the senior ranks is `SeniorRanks`.

`AuthServiceProofs`, for any users, families, tokens, requests, passwords, reset
tokens and seed that `AuthAssumption` allows (the seeded users are users, the
seed's password is one, None is neither a password nor a reset token):

* `AuthSound`: `Spec => []AuthInv`, the inductive invariant.
* `TypeCorrect`, `ResetTokensSpentOnce` and `StaleSessionsExplained`.
* `FaultFreeStaleness`: `FaultFreeSpec => []FaultFreeExplained`. While nothing
  fails and nothing restarts no revocation is lost, so the two ways left to
  outlive a finished password change are a login that raced with it, which the run
  of `NoStaleSession` shows, and a family whose first token the store has forgotten.
* `PasswordChangesAuthorised`, the action property, from `EvidenceInv`.
* `FlowsUseStore`: `Spec => SessionStore!FadingSpec`. Every step of a flow is one
  operation of the store or none, so what is proved of a store that implements
  `FadingSpec` holds of the sessions under the flows.

A reset token is spent once because the store and the handlers never hold it
together and a new one differs from every one that was mailed (`KeyInv`). A stale session
is explained because a store call never brings back what was forgotten: every session
after it stems from one before it, of the same family and user (`Carried`).
The steps that overwrite a password leave its revocation pending (`Accounted`),
and one that ends the pending state has reached every remembered family
(`Revoked`), or failed and is recorded. That a new session's family is not an old
one's rests on tokens and families being fresh (`StoreInv`), and that a handler's user has a
row on rows never going away (`RowInv`). A password is overwritten only on evidence
because a handler comes to its write only by showing it and leaves with the write
(`EvidenceInv`): a handler that passes `Verified` has shown the current
password, and a token found in the store is the one mailed to the user it is
stored for, and nobody has presented it, since GETDEL takes it away.

`KeyRotationProofs`, for any kids, keys, lifetimes and number of tokens
(`KeyAssumption`: lifetimes are positive and bounded by `Longest`, the special
values are not kids or keys):

* `RotationSound`: `Spec => []KeyInv`, the inductive invariant.
* `TypeCorrect`, `RotationKeepsTokens` (`TokensVerify`) and `LossIsContained`
  (`LostEntriesLoseOnlyTheirTokens`).

`TokensVerify` speaks of the running configuration and is not inductive: while the
service is down or runs with a wrong file, nothing in it says that the tokens
will verify afterwards. `KeyInv` adds that the plan gives each kid one key
(`PlanSound`) and lists the key of every unexpired token signed as planned
(`Covered`). A rotation keeps this because it moves the active pair to the list
and takes the new one out of it; a drop because the remaining life of a token
and the idle time of its kid never exceed the longest lifetime together.

`InMemorySessionStoreProofs`, for any users, families, tokens and lifetime:
`MapsAgree`, the inductive invariant (types, the index is the inverse of the
records, and a family's records are of one user); `TypeCorrect`,
`IndexComplete`; the action properties `ReplaysBurn` and `UserRevoked`; and
`StoreKeepsPromise`, the refinement of `SessionStore!Spec`, step by step. A
revocation goes through the index to the tokens it lists, and the invariant is
what makes that the same as all the tokens of the family.

`IdentityBackendsProofs`, from `IdentityAssumption` (the seed names each user by
one email; None is none of the values): `BackendsSound`, the inductive
invariant; `TypeCorrect`; `AccountsReachable`; and `BackendsKeepPromise`, the
refinement of `IdentityProvider!Spec`. The invariant adds to the types that the
seed's accounts are where the seed put them, and that a creation which has seen
its email free either still has it free or overlaps the creation that took it.

`AdministrationProofs`, for any users, scopes, levels, requests, grants and
role assignments that `AdminAssumption` allows (request bodies are of the right
types; the seeded administrator's level clears every floor; there are finitely many
requests and at least one):

* `AdministrationSound`: `Spec => []AdminInv`, the inductive invariant.
* `TypeCorrect`, `GrantableUsersAreVisible`.
* `WritesAuthorised`, `OmittedFieldsAreKept` and `RestartsRestoreAdmin`, the
  action properties.
* `RolesAreBounded`: `Spec => []CopiesAreBounded`.

A handler checks one scope after the other and then writes; `AdminInv` says of
each handler that every scope its write takes is still to be checked or is
granted now, unless its `stale` says the caller or that scope has changed, and
that a field it read is as it was unless `stale` has it (`Fresh`). A write
keeps this of the other handlers because permissions only grow with rows and
levels, and what shrinks or changes is what `stale` records (`Undisturbed`,
`WriteStep`). `CopiesAreBounded` counts the handlers about to create a row
together with the row's copies: a creation moves one from the first to the
second, and a handler joins them only while there is no copy. That permsForRole's recursion ends and finds only what a
role inherits is proved for the seeded hierarchy (`PermsUnfold`,
`PermsInherited`).

`BrowserSessionProofs`, for any families, tokens and requests in flight, from
`BrowserAssumption` (None is no token): `BrowserSound`, the inductive
invariant; `TypeCorrect`, `JarsAreCurrent`, `SignOutsEndSessions` and
`AlarmsAreExplained`. The invariant follows every token from the rotation that
mints it: until its answer arrives nobody else has it and it is not retired
(`Undelivered`); in the jar it is not retired unless the answer that replaces it
is under way or was lost (`JarInv`); and a handler that is still to look a
token up finds it retired only after an overlap or a loss (`Carried`). Every
handler's step is an instance of one lemma (`AdvanceStep`), with what the
store did for it (`Retires`). `RequestsUseStore` is `Spec =>
SessionStore!FadingSpec`, as for the flows.

Only model-checked: `ChangesAreRevoked`, a liveness property, which this prover
cannot reach; the three runs that show a documented claim violated need no
proof. Every safety invariant and action property of the other runs is stated by a theorem.

## 5. What is not modelled, and the plan

In order:

1. Composition: claims and attributes of `Organisation` and `Administration`
   in the tokens `AuthService` mints, and the permission checks that
   `Organisation` takes for granted.
2. A Redis crash under the flows: a consumed reset token comes back with the
   file, as revoked sessions do in `RedisSnapshots`.

Not planned: the logout server action, which no page uses; `setUserOrg` of the
admin pages as one step (its two calls are two requests of `Organisation`, each of
which may fail); generated protobuf stubs, UI components and styles, the Go and
Python scaffolds (no state machine yet), mail wording, the parsing of settings
that are not keys.
