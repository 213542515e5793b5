# nestjs-sql: a TLA+ model of the server

This directory holds TLA+ modules that model the server in `src/`, TLC
configurations that check them on small instances, and TLAPS proofs. File
names below are relative to `src/src/` unless they start with `src/`.

The server is a NestJS application with a PostgreSQL database behind TypeORM.
One Node process serves all requests. Code between two `await`s is atomic;
everything else interleaves. No code opens a transaction or takes a lock of its
own, so what two requests do to one row depends on the order of their
statements. This is where the program is hard to test, and what the model is
about.

## 1. The system

| Component | State | Operations | Used by |
|---|---|---|---|
| Refresh token sessions, `modules/entities/refreshToken` | table `token`: one row per user (`userId` is unique) with the encrypted refresh JWT, its IV, the expiry time | `createToken`, `refresh`, `revoke` | Authentication, its own controller |
| Base service, `modules/base` | none; a TypeORM repository | `find*`, `count`, `save*`, `update*`, `delete*` | every entity service |
| Encryption and hashing, `modules/encryptionAndHash` | a key from the environment | `encrypt`, `decrypt` (AES-256-CTR), `hash`, `compare` (bcrypt) | sessions, authentication, users, seed |
| JWT signing, `modules/jwt` | two secrets and lifetimes | `signAsync`, `verifyAsync` | sessions, the guard |
| Authentication, `modules/auth` | none | `register`, `validateUser`, `login`; guards for JWT, local login and roles | controllers |
| Users, `modules/entities/user` | table `user`; user name and email are not unique columns | profile read and update, `changePassword` | authentication |
| Crud entity, `modules/entities/crud` | table `crud` | create, find, update, delete | its controller |
| Filter query parsing, `modules/filter` | none; the parsed query goes on the request | `parseFilterRequestQuery` | middleware, crud |
| Request pipeline, `app.module.ts`, `common/` | the log id of the shared logger, the shared table of error messages, the request context | middlewares, guards, pipe, interceptors, error filter | every request |
| Field hiding, `utils/hideOrOmitFields.ts` | none | recursive copy without some fields | services, logging |
| Configuration, start, seeding; health; logging | environment; none; output | | |

How they interact: a request passes the middlewares (correlation id, request
context, parsed filter), `JwtAuthGuard` and `RoleGuard`, the validation pipe, a
controller, a service that extends `BaseService`, and on its way back the
response and logging interceptors; `ErrorFilter` turns exceptions into answers.
Services share nothing but the database tables. The session service is entered
from `AuthController.login` (after `LocalStrategy` has validated the user) and
from `RefreshTokenController`.

What makes each component correct:

- *Sessions*: a row can be decrypted, with its own IV, to a JWT that one login of
  that user signed; a login that succeeds has stored what it returns; a revoked
  or expired session gives no new access token; an expiry time is never further
  away than one window; every request is answered.
- *Users and authentication*: one account per user name and email; a changed
  password stays changed, and only by one who knew it.
- *Crud*: a deleted row stays deleted; an update changes the columns it names;
  a user's query returns that user's rows.
- *Filter parsing*: the parsed query finds the rows that the request asks for.
- *Pipeline*: a handler runs only for callers its route admits; the answer tells
  the cause of a failure, and tells every client its own; log lines carry the id
  of their request; what a handler returns does not break the answer.
- *Field hiding*: no listed field at any depth, every other field unchanged.

`PROJECT.json` lists, under "hazards", where this code is exposed and which
properties look there.

## 2. Modules

| Module | What it is |
|---|---|
| `BaseService` | the data operations of `base.service.ts`: the spread of a partial update over an entity, and the column difference that `repository.save` sends |
| `Session` | the state machine of the session service, its properties, and the invariants behind them |
| `SessionHistory` | `Session` with history variables, for promises about answered requests |
| `AtomicSession` | the abstract specification: requests that take effect at once on a user's session |
| `SerialSession` | `Session` without overlapping requests of one user, and the refinement mapping to `AtomicSession` |
| `SessionProofs`, `SessionHistoryProofs`, `SerialProofs` | TLAPS proofs about these: invariants, promises, the refinement |
| `Repository` | requests that save entities to one table, a step per round trip; extended by the next two |
| `Accounts` | table `user`: registration, seed, the check of a login, changes of profile and password |
| `AccountsHistory` | `Accounts` with history variables, for promises across requests |
| `Crud` | table `crud`: creates, updates and deletes, single and batch |
| `CrudHistory` | `Crud` with history variables, for what a deletion promises |
| `Pipeline` | an HTTP request from the first middleware to its answer, and what requests share on the way |
| `Filter` | the algorithms of `FilterService`, and the rows a parsed query finds |
| `HideOrOmit` | `hideOrOmitDeep` |
| `AccountsProofs`, `CrudProofs`, `PipelineProofs`, `FilterProofs`, `HideOrOmitProofs` | TLAPS proofs about these components, with their history |
| `MCSession`, `MCSessionHistory`, `MCSerialSession`, `MCAccounts`, `MCCrud`, `MCPipeline`, `MCData` | the modules for TLC: symmetry sets, the inputs of `Filter` |

### Session

| Variable | In the code |
|---|---|
| `token` | table `token`, as a function from the users that have a row to its columns |
| `now` | `DateTime.now()`, in milliseconds; `MsPerSecond` of them make the second in which JWTs count |
| `pc[r]` | the `await` that request `r` waits for, or its answer |
| `call[r]` | what `r` is about: kind, user, the bearer of the access JWT presented, the refresh JWT, and the `iat` of the access JWT signed for it |
| `frame[r]` | the object that `r` carries to its next step: the row found, the partial update, the merged entity, the difference to send |

One action is what happens from one `await` to the next, with the statement
that the request waits for taking effect at its start. `updateById` and
`updateOne` are three of them: `FindForUpdate` (the SELECT of `findById` or
`findOne`, then the spread), `Load` (the SELECT inside `repository.save`, then
the difference) and `Update` (the UPDATE of the columns that differ). A row
may change between any two, and the model lets it.

| Action | Lines of `refreshToken.service.ts` |
|---|---|
| `StartLogin`, `LoginSign`, `LoginFind`, `LoginInsert`, `LoginConflict` | `createToken`, 111-150; the conflict comes from the unique `userId` |
| `StartRefresh`, `RefreshUnverified`, `RefreshFind`, `RefreshMismatch`, `RefreshExpired`, `RefreshSign`, `RefreshExtend` | `refresh`, 41-98, and `verify` |
| `StartRevoke` | `revoke`, 100-109 |
| `FindForUpdate`, `UpdateMissing`, `Load`, `Update` | `base.service.ts` 73-110 |
| `Abort` | any statement or signature that fails, or the process that stops, at any `await` |
| `Tick` | the clock |

`LoginInsert` and `Update` may also end "aborted": the statement is committed and
the answer is lost. A restart of the process is an `Abort` of every request in
flight, since the server keeps nothing in memory that a session depends on.

Abstractions. A JWT is its claims `sub` and `iat`; two with the same claims are
the same string, as HS256 is deterministic. A ciphertext is the JWT with the IV
that opens it; the random IV of a login is the login itself, hence unique. A row
is identified by its user: `userId` is unique and no code deletes a row of
`token`. The columns `id`, `createdAt`, `updatedAt` are left out, so a difference
in `updatedAt` alone, which `save` would send, is an `Update` that changes
nothing. Requests present JWTs that a successful login has delivered, of the
right user or another, or a string that does not verify; the administrator who
revokes is not a request of the model. What TypeORM's `save` does (load, compare,
update what differs, insert when there is no id) is modelled from how
`base.service.ts` calls it.

### SessionHistory

`alone[r]` is true while no other request of the same user was in flight
together with `r`. `settled[u]` is the last login of `u` that ran alone and
succeeded, `closedAt[u]` the time of the last revoke that did; a login that
begins ends both. The condition is needed: section 4 shows what happens to
requests that overlap. These variables only observe, and restrict no step.

### AtomicSession and SerialSession

`AtomicSession` states the contract of `createToken`, `refresh` and `revoke`
without rows, ciphertexts or round trips: a user has no session, or one with a
JWT and an expiry time, and each request changes or refuses it in one step. A
time that a request writes or compares with may be any moment since it began.
A request that fails has its whole effect or none.

The service does not implement this contract in general (section 4). It does
when requests of one user do not overlap: `SerialSession` adds that restriction
to the start of a request, and nothing else, so that requests of different users
still interleave and failures still strike between any two round trips. Its
mapping decrypts each row, and takes arguments and answers from `call` and `pc`.

### Repository, Accounts, Crud

`Repository` has the same three round trips of an update as `Session`
(`UpdateFind`, `Load`, `Write`), and the parts that sessions never meet: a save of
several entities, of one without an id, and of one whose row has gone. `save`
inserts such an entity again, with its id, when the row was missing at its load,
and changes nothing when it went later; either is a success. Each entity service
has a table of its own and shares no state with the others, so that `Accounts` and
`Crud` extend the module instead of composing instances of it.

The `ValidationPipe` of `app.module.ts` has no whitelist: properties of a body that
its DTO does not declare stay, and the services spread them over the entity that they
save. So a body may give any column: a user name or a password to a profile update, an
owner to an update of a `crud` row, and an `id` to anything. With an id, the `save` of
`register` or of a create becomes an UPDATE when there is such a row, and an INSERT
under that id when there is none; and the entity that `updateById` found is saved as
another row. `target` in `call[r]` is the row that the save is about: what the body
names, or else the row that was found, or `r` for a new one. `Given` leaves out the columns that a body does not have, `Bodies`
are those of a profile update, `owner` is what a `crud` body says in `userId` or `user`.

| Variable | In the code |
|---|---|
| `table` | the table, as a function from the ids of its rows to their columns |
| `pc[r]`, `call[r]` | what request `r` waits for, or its answer; its arguments |
| `frame[r]` | the entities, or differences, that it takes to its next step, and the ids that `save` is going to insert |

| Action | Lines |
|---|---|
| `UpdateFind`, `UpdateMissing` | `updateOne`, `updateById`, `base.service.ts` 81-110 |
| `UpdateManyFind` | `updateMany`, `base.service.ts` 112-126 |
| `Save`, `Load`, `Write`, `WriteConflict` | `save`, `saveMany`, `base.service.ts` 73-79, and the repository's `save` |
| `RegisterFind`, `HashAndSave` | `register` of `auth.service.ts`; the second also `seeds/rootUser.ts` |
| `LoginFind`, `LoginCompare` | `validateUser` of `auth.service.ts` |
| `ChangeFind`, `ChangeCompare`, `ChangeHash` | `changePassword` of `user.service.ts` |
| `StartProfile` | `updateUserById` of `user.service.ts` |
| `StartCreate`, `StartUpdate` | `create`, `updateById` of `crud.controller.ts` |
| `StartDelete`, `DeleteFind`, `Delete` | `deleteById`; `StartDeleteMany`, `deleteMany` |
| `Abort` | any statement or hash that fails, or the process that stops |

Abstractions. A hash is its plain text with a salt that names the request that made
it: two hashes of one password differ, and `compare` looks at the plain text. A
password that a profile body gives is stored as it is, a `Text`, which `compare` finds
equal to nothing; that the text of a body is itself a hash is left out. A value that a body gives is new (a name and a text are their
request's), or one that rows may share (user names and emails are small sets).
`findOne` has no order, so a login finds any row of the name. A row's id is the
request that inserted it, or one of `Early`: the ids of the rows that are there at the
start, and ids that only a body or a JWT will name, without a row (`Dropped`, `Unused`).
An id may be without a row because somebody made it up, because its row was deleted,
or because it went with an earlier schema (the program can drop its schema at a start),
and then a JWT may still bear it. Clients also name the rows of creates that were
answered or whose answer was lost. A body with a null for a column that is not nullable
is refused by the database and is an `Abort`; so is one with a null id. `createdAt`,
`updatedAt`, `phone` and `role` are left out: a body may give the last two as it may
give a name, and no property is about them.

### Pipeline

A request is at a `stage`; one action takes it from one `await` to the next. The
decorators of the controllers are the table `Routes`. `Middlewares` sets the log id
of the one `LoggerService` and refuses a filter that does not parse; `JwtGuard`,
`RoleGuard`, `LocalGuard` and `Credentials` are the guards, in their order;
`Intercept`, `Pipe` and `Handle` the way in, `Transform` (both interceptors) and
`Catch` (`ErrorFilter`) the ways out. What a handler does is the matter of the other
modules: here it returns, returns null where the code can, or throws one of the
exceptions its service throws, or any other. What requests share is modelled:
`logId`, and `contents`, the message object that every `ValidationException` writes
its errors to. A body that is no JSON never gets to the middlewares
(`ArriveUnreadable`): the body parser throws before them, so that the request has no log
id, and `ErrorFilter` does not know its exception. `Credentials` may fail: the SELECT and
the comparison of `validateUser` run inside `LocalAuthGuard`, before any handler.
`arrived` and `lines` are history. A health check (`ArriveCheck`, `SendPing`,
`PingRefused`, `Pinged`) waits for a second request, its own ping, which goes through
the same stages; `port` is what the environment says, `ListenPort` what the process
listens at.

### Filter and HideOrOmit

Both are algorithms: their operators are the functions of the source, and their
machines (`Spec` of `Filter`, `GrowSpec` of `HideOrOmit`) only build inputs, a
parameter or a nesting at a time. A nested object that `createObject` built is a
sequence of leaves (dotted path, value); `Assign` is the shallow `Object.assign`,
by the first name of the path, and `AssignAll` what a `reduce` makes of it.
TypeORM's operators are the sets of column values that they accept, over six
ordered texts: two dates as a client writes them, the same two as `getDateOrValue`
makes them, and two texts, one of which contains the other. `ConditionsAssumption`
says what the database would otherwise refuse: a condition is about a column that
there is, and compares it with values of its type. `SelectsAssumption` says the same of
selects: they name columns of the row or of its user. No column of `Rows` is NULL, which
`email` of a user can be: what `ne` and `nin` make of it is not modelled.

`Number` is `+limit` and `+skip`: every number goes through, negative, fractional or
infinite, and `take` and `skip` carry its text to the search as it was understood.
`FindByUserId` sets the clause and the relation that `crud.service.ts` sets; `Read` is
what `find` has the repository read (`Fields`): the columns that the select names, of a
relation only when that is joined, and a joined relation as a whole when the select names
none of its columns.

`HideOrOmitDeep` works on texts, null, Dates, objects and arrays. `built` is the
data with the values that it was built from, innermost first; the recursion is a
function over them, `copy`, which `Copied`, the body, applies to what is in a
value. Field names are no array indexes (`KeysAssumption`).

## 3. Runs

| Run | Instance | Question |
|---|---|---|
| `session` | 2 users, 3 requests, window 2, clock to 3 | safety of rows and answers under every interleaving |
| `session_live` | 1 user, 3 requests, clock to 2 | is every accepted request answered |
| `session_history` | 1 user, 4 requests, window 1, clock to 2 | do promises to answered requests last |
| `serial_session` | 2 users, 3 requests, window 1, clock to 2 | is the service correct when requests of one user do not overlap |
| `refresh_touches`, `refresh_revives` | 1 user, 3 requests, window 4, clock to 2 | two statements of the tests, refuted |
| `accounts` | no early user, 1 id without a row, 3 requests, at most one body with undeclared properties, 2 names, 1 email, 2 passwords | what registrations and changes keep under every interleaving and body |
| `crud` | 1 early row, 1 unused id, 3 requests, 2 users, 1 text | what a deletion promises, who can own a row |
| `pipeline` | 2 requests, 9 endpoints, 2 ports | who gets to a handler, and what a client is answered |
| `data` | query strings of up to 3 parameters out of 14 conditions, 4 selects, 3 sorts and 6 texts for a number; data up to depth 3 | the two algorithms against reference definitions |
| `stale_password`, `null_answer` | 1 early user, 2 requests and the rest as `accounts`; as `pipeline` | two more statements of the tests, refuted |

- `TypeOK` (one per state machine): types, whole rows, and the object each step needs.
- `RowDecrypts`: a row's ciphertext and IV come from one login of its user.
- `WholePairs`, `PairUntilWritten`, `ObjectsBounded`: the same for what requests
  carry between two steps: why the difference that `save` computes can never
  contain half of a pair, nor miss the pair of a login.
- `ExpiryBounded`: extensions do not accumulate.
- `LoginStored`: a successful login has stored its own JWT at that moment.
- `OnlyRevokeMisses`: `updateById` never answers 404 to a login or a refresh.
- `Answered`: no path of the handlers forgets to answer, and no loop is endless.
- `SettledLogin`: a login that ran alone keeps its row through all later
  refreshes and revokes, until the user logs in again.
- `RevocationFinal`: a revoke that ran alone keeps the session expired and stops
  every later refresh, even in the same millisecond.
- `ImplementsAtomicSession`: the refinement of `AtomicSession` by `SerialSession`.
- `RevokedAccessFades`: access JWTs outlive such a revoke by at most their
  lifetime.

- `DuplicatesOverlap`: a registration shares a user name or an email with another user
  only when it looked before the other was stored (an overlap, or a seed), or when a body
  gave one of the two that name or email, or named the row of one.
- `PasswordsEarned`: the password in a row is the one it was stored with, or that of a
  change of this row by one who knew a password that the row had held, or a body gave
  it, by itself or with the columns of another row; although updates write back
  entities they read earlier.
- `SettledPassword`: a change that ran alone lasts until the next one, or until a body
  gives the row another password, whatever other profile updates come after it.
- `ChangeStored`: whoever is told that the change succeeded can log in with it.
- `OwnerGiven`: a row's owner was given to this row by its create, by a body, or with the
  columns of a row whose update named this one; an update that names neither makes
  nobody an owner, also when it inserts again what a delete has removed.
- `DeletedStays`: a deletion is final unless an update held the entity meanwhile, or a
  body names its id.
- `DeletionsCounted`: the `affected` of concurrent deletes adds up.
- `Guarded`: no handler without the token, role, password and body its route asks for.
- `StatusTellsCause`: 401, 403, 500 and 503 have the causes their names say: a 500 tells
  of a handler or of a login whose guard was at work, save the two exceptions of section
  4; who is not known is told so.
- `EffectReported`: what a handler has done is not answered with an error.
- `OwnValidationErrors`: a client is told the errors of its own body, although all
  are written to one object.
- `LabelsLatest`: a log line has its own request's id or a later one's, unless the
  request's body was no JSON.
- `HealthServed`, `AllAnswered`: a health check is not answered well before its ping
  is; everything is answered.
- `ParsedOK`, `NeverNarrower`, `Faithful`: a parsed filter names a column or relation
  once in every object, finds every row that is asked for, and, when no two keys
  collide, no other.
- `OwnRows`: `findByUserId` finds the user's rows only, whatever the filter names.
- `SelectKeepsIdentity`: what `find` reads has the row's identity and nothing that was not
  selected; what `findByUserId` reads has the user of the row besides, all of it when
  the select names none of its columns.
- `SortKeepsPriority`: rows are ordered by the keys in the order they were asked for.
- `ListedHidden`, `OthersKept`: `hideOrOmitDeep` against a definition by paths:
  what is at every path of keys of the copy, given what is there in the data.

Bounds. A request runs once, so the number of requests bounds the behaviours.
Three suffice for each race of two (a login to create the session, then two that
overlap) and the run with two users also mixes up whose JWTs are presented. Four
are needed to follow a settled login or a revoke with two more that overlap.
`MaxTime` is larger than the window where natural expiry should happen and
smaller where only a revoke may expire a session (`refresh_touches` and
`refresh_revives`). Two clock
units to a second make logins with equal and with different `iat`. Requests are
interchangeable, so the safety runs use them as a symmetry set; the liveness run
does not. In `accounts` and `crud` three requests are one row (early, or created
by the first of them) and a race of two about it, with a third that reads or
changes what the race has left; an early row and a created one, or two created ones, are
enough for a body of one to name the other, and an unused id for a body to name
nothing. The rows of `accounts` are created by its requests, and one
body of three may have properties that no DTO declares (`OneUndeclared` in `MCAccounts`),
for the size of the run: an early user differs from a registered one only in being there
before, and the theorems have no such bound. In `pipeline` the shared variables are written
and read by pairs, and a check with its ping is such a pair; its endpoints have
one of each kind: skipped guards, a role of administrators only, a body or none,
a null result, a local guard, no controller, a body that cannot be read. In `data`
three parameters are enough for two conditions to collide beside a third, and for two branches beside
a condition; depth three for an array in an object in an array, two keys for a listed one
and one that is not. Queries and data
are enumerated in one run, each with the first value of the other, as neither
depends on the other. Deadlock is not checked: when every request has been
answered, the clock is at its bound or the input has its largest size, the model
rests.

Fairness. `FairSpec` assumes weak fairness of `Continue(r)` for each request: Node
runs every callback that is ready, and PostgreSQL answers each statement, if only
with an error. `Spec` of `Pipeline` assumes the same of its stages; a health check
that waits for its ping is not enabled, and gets on because fairness of the ping
has it answered. Nothing is assumed of clients, of `Abort` or of the clock.

Mutation tests. A definition named `X_Something` is a faulty variant of `X`. For
every property of a passing run, `PROJECT.json` names one that, put in the place
of `X`, TLC finds to violate the property.

## 4. Findings

- *A refresh undoes a login* (`refresh_touches`). `updateById` saves the whole
  entity that it read. When a login replaces `refreshToken` and `iv` between the
  two SELECTs of a concurrent refresh, the refresh writes the old pair back. The
  login was answered with success; its refresh token is then refused as invalid.
- *A refresh undoes a revoke* (`refresh_revives`). The expiry time is compared on
  a copy; a revoke that is answered after the comparison and before the UPDATE of
  the refresh is overwritten, and the session is open for another window.

- *A change of a password that was not given* (`stale_password`). `changePassword`
  compares the old password with the row that it read, hashes, and lets
  `updateById` replace whatever is there by then. Of two changes from one old
  password both succeed, and the later replaces the earlier one's.
- *A null result is an internal error* (`null_answer`). The logging interceptor
  takes the keys of the data of every response; `getProfile` and `findById` return
  null for an id without a row, which is then answered 500.

The first three need two requests about one user at the same time. `SettledLogin`,
`RevocationFinal` and `SettledPassword` show that without such an overlap they
cannot happen.

The properties are worded around some more behaviour of the code that no document
contradicts, and that a maintainer should know of:

- Bodies may have columns that their DTO does not declare, as the `ValidationPipe` has no
  whitelist: a profile body can give a user name, a password as plain text (that
  nobody can log in with), or the id of another row, over which the caller's is then
  saved; the body of a create or an update of `crud` an id or an owner; and a
  registration with the id of a user updates that user (`PasswordsEarned`,
  `DuplicatesOverlap`, `OwnerGiven`, `DeletedStays` are worded around it).
- Concurrent registrations, a second seed and a profile update can give two users
  one name or email (`DuplicatesOverlap` says when). A login then checks the
  password of either.
- An update that found a row before it was deleted inserts it again, or changes
  nothing, and is answered with success (`DeletedStays`).
- Conditions below one relation overwrite each other, as `Object.assign` is shallow:
  of `user.email` and `user.username` the last one is left, and the search finds
  more than was asked for. The same goes for a condition beside `or` and one in a
  branch (`HeadsApart` in `Faithful`).
- A text that reads as an ISO date becomes a Date, also for a text column
  (`DatesForDates`).
- `findByUserId` joins the user and reads all its columns, the password hash among them,
  when a select names none of them (`SelectKeepsIdentity`).
- `limit` and `skip` go to the database as any number: with -1, 1.5 or Infinity it refuses
  the statement.
- A path without a controller is answered 500, and so is a body that is no JSON:
  `ErrorFilter` does not know their exceptions (`StatusTellsCause`).
- Log lines of overlapping requests carry the id of the latest (`LabelsLatest`).
- The health check pings the port of the configuration while `main.ts` listens at
  4000 (`HealthServed`).
- A Date that is an item of an array becomes an empty object in the copy of
  `hideOrOmitDeep` (`OthersKept`).

## 5. Proofs

Every safety property of the passing runs, and the refinement, is a theorem: it
holds for every set of users, requests, names, passwords, keys and so on, every
window, lifetime and clock, query strings and data of every size. TLC checked each
property first, and the inductive invariants of the state machines (those that
TLC can evaluate) were checked as invariants of the runs before they were proved.

| Module | Theorem | Statement |
|---|---|---|
| `SessionProofs` | `TypeCorrect` | `Spec => []TypeOK` |
| | `RowsDecrypt` | `Spec => []RowDecrypts` |
| | `PairsStayWhole`, `PairsStayUntilWritten` | `Spec => []WholePairs`, `Spec => []PairUntilWritten` |
| | `ExpiryIsBounded`, `ObjectsAreBounded` | `Spec => []ExpiryBounded`, `Spec => []ObjectsBounded` |
| | `LoginsAreStored` | `Spec => LoginStored`, an action property |
| | `LoginsAndRefreshesNeverMiss` | `Spec => []OnlyRevokeMisses` |
| `SessionHistoryProofs` | `LoginsSettle` | `HSpec => []SettledLogin` |
| | `RevocationsAreFinal` | `HSpec => []RevocationFinal` |
| | `RevokedAccessRunsOut` | `HSpec => []RevokedAccessFades` |
| `SerialProofs` | `RequestsAreAtomic` | `SerialSpec => ImplementsAtomicSession` |
| `AccountsProofs` | `AccountsTypeCorrect` | `Spec => []TypeOK` |
| | `ChangesAreStored` | `Spec => ChangeStored`, an action property |
| | `DuplicatesNeedOverlap` | `HSpec => []DuplicatesOverlap` |
| | `PasswordsAreEarned` | `HSpec => []PasswordsEarned` |
| | `SettledPasswordsStay` | `HSpec => []SettledPassword` |
| `CrudProofs` | `CrudTypeCorrect` | `Spec => []TypeOK` |
| | `OwnersAreGiven` | `HSpec => []OwnerGiven` |
| | `DeletionsAreFinal` | `HSpec => []DeletedStays` |
| | `DeletionsAddUp` | `HSpec => []DeletionsCounted` |
| `PipelineProofs` | `PipelineTypeCorrect` | `Spec => []TypeOK` |
| | `HandlersAreGuarded` | `Spec => []Guarded` |
| | `StatusesTellTheCause` | `Spec => []StatusTellsCause` |
| | `EffectsAreReported` | `Spec => []EffectReported` |
| | `ErrorsAreTheClientsOwn` | `Spec => []OwnValidationErrors` |
| | `LabelsAreLatest` | `Spec => []LabelsLatest` |
| | `HealthIsServed` | `Spec => []HealthServed` |
| `FilterProofs` | `ParsedIsWellFormed` | `Spec => []ParsedOK` |
| | `FindsWhatIsAsked`, `FindsNothingElse` | `Spec => []NeverNarrower`, `Spec => []Faithful` |
| | `OwnRowsOnly` | `Spec => []OwnRows` |
| | `SelectsIdentity`, `SortsByPriority` | `Spec => []SelectKeepsIdentity`, `Spec => []SortKeepsPriority` |
| `HideOrOmitProofs` | `ListedIsHidden`, `OthersAreKept` | `GrowSpec => []ListedHidden`, `GrowSpec => []OthersKept` |

Assumptions. They are those that the modules state of their constants, and no
others. Bounds and times are numbers, windows and seconds positive
(`RefreshTtlAssumption`, `SecondAssumption`, `MaxTimeAssumption`,
`AccessTtlAssumption`, `DepthAssumption`). `None` is none of the values it stands
beside (`NoneAssumption`, `NoneIsNoRecord`, `NoneIsNoValue`). Rows that are there from
the beginning, and ids without a row, are not named after requests (`EarlyAssumption`,
`DroppedAssumption`, `UnusedAssumption`); those rows have a name and an owner that the
program knows (`NamesAssumption`, `FirstOwnerAssumption`). Endpoints are in the table of routes, ports are numbers
(`EndpointsAssumption`, `PortsAssumption`). The rest is about inputs, and explained
in section 2 (`ConditionsAssumption`, `SelectsAssumption`, `ListedAssumption`,
`KeysAssumption`).

### Session

`RowDecrypts` alone is not inductive: what a request writes is an object that it
read earlier. `WholePairs` extends it to all objects in flight. A login referred to
by an IV has signed its JWT, and no step changes that (`SignedIsStable`); spreading
a pair over a pair gives a pair (`SpreadFromOneLogin`); two pairs differ in both
columns or in none, as the IV determines the login and the login the ciphertext
(`PatchFromOneLogin`). Hence every difference has both columns or neither, and may
be applied to any later row. `LoginStored` needs in addition that, until a login
writes, no row and no other request has its pair (`PairUntilWritten`), so that the
difference is never empty of it. `ExpiryBounded` is inductive together with
`ObjectsBounded`, since the clock only advances. `OnlyRevokeMisses` rests on
`FoundStays`: no step removes a row.

`SettledLogin` and `RevocationFinal` rest on one invariant, `HistoryInv`. A request
that is still alone is the only one of its user in flight (`AloneIsOnly`). When a
login has settled, whatever later requests of the user carry has its pair or no
pair (`SettledInv`): they read the row after the login, and none of them is a
login, which would have ended the promise. When a revoke has closed the session,
whatever they carry has expired, and no refresh among them is past its comparison
(`ClosedInv`). The delicate case is a revoke whose difference leaves the expiry
time out because the row has the same: it may, as the row then has expired as well
(`RevokeWritesPast`). `IssuedBefore` dates the access JWTs for
`RevokedAccessFades`.

### The refinement

`SerialInv` says what a request that overlaps no other of its user still has ahead.
`Orderly(r)` relates what `r` carries to the row as it is: the row that its write is
going to leave, `Final(r)`, has the pair of a login, or for a refresh and a revoke
the pair that is there, and an expiry time taken from a moment since `r` began.
No other request changes that, as the row is of another user (`RowOfOthers`,
`OrderlyStays`). A step that answers, or that aborts after its statement was
committed, is then the one abstract step of its request (`StartRefines`,
`ContinueRefines`), and every other step leaves the abstract variables unchanged
(`RequestKept`, `SessionMapped`).

### Accounts and Crud

`AccountsInv` says what a request is about at each step (`Asks`) and what columns it
carries (`Carries`): whole rows to a comparison and a load, to a write a difference, or a
whole row for an id that had none; and until a request ends, the secret that it makes is
nowhere but with itself (`SaltedBefore`). So the difference that `save` computes for
a change of password always contains the new hash, which is `ChangeStored`. Whatever the
kind of a request and the id that its body names, its save goes one way (`Saved`), and
one lemma for each round trip (`SavesCarry`, `FoundCarries`, `Writes`) serves them all.

The three promises are invariants beside it, with what requests carry (`HistoryInv`).
`OriginInv`: while no body has given a row of a registration a user name or an email
(`Kept`), that column is the one that the row was stored with (`First`), in the table
and in every entity that will be saved as this row (`Brings`). `SeenInv`: such a
row that was there when a registration looked has another name and email than the
registration's. `EarnedInv`
follows a password back to who made it (`Earned`), through rows, entities that carry
it on, and rows again; what a row has held, and what a change has compared with, only
grows (`EarnedStays`). `SettledInv` says that once a change has settled, every entity
that will be saved as this row has its hash or no password (`Settles`): who reads the
row after it reads that hash (`NewlySettled`), and who gives another ends the promise
(`StillSettled`).

`CrudInv` is types, with what requests carry. `OwnersInv` has `OwnerGiven` together with
the entities in flight (`CarriesGiven`): what will be saved as a row has an owner that
was given to this row, or none. What has been given stays given (`GivenStays`).
`GoneInv`: of a row in `gone` no request holds the entity, unless it found it again after
it had returned by an insertion of a request whose body named it (`Returned`, `Names`).
`CountInv` relates the
number of requests that were told they deleted a row to the number of those that
inserted it again: equal while the row is there, one more when it is not. The
number of requests need not be finite, but those sets are.

### Pipeline

`PipelineInv` says what is known of a request at each stage (`Passed`): past a
guard, that the guard's condition holds. An exception that has been thrown, and an
answer, have their cause in the request (`Right`, `Caused`); what `ErrorFilter`
makes of each exception is a lemma per exception. `OwnValidationErrors` holds
because an exception takes its content in the step that writes to the shared
object, and `thrown` keeps it until it is caught. `Pinging` says that a request
waiting for its ping is the only one with this ping, and `Labelled` that the log
id is of the request that arrived last.

### Filter and HideOrOmit

Here a step is an algorithm, and the argument an induction over its input. The
provers cannot instantiate the library's induction theorems, which take an
operator; they can use an induction whose property is a set (`ByInduction`, from the
library's well-foundedness of the numbers). It gives the existence of each
recursive function, and then what it computes.

`AssignAllBy` is a fold invariant of `Object.assign`. `Folded` is the one that the
theorems use: every leaf of the object is one of those assigned, every first name
that was assigned is there once, and the last leaf of a name is the one that
stays. `BranchRepresents` follows from it: a branch has only leaves of conditions
that were asked for (`NeverNarrower`), and all of them when their first names
differ (`Faithful`). `OperatorMeaning` and `ConditionMeaning` compare the operators,
as sets of column values, with what a caller means by them.

For `hideOrOmitDeep`, `CopiesExist` shows that its recursion ends, by induction on
how the data was built. `HiddenAlong` and `RelatedStep` are inductions on a path of
keys: what is found in the copy is what `hideOrOmitDeep` makes of what is in the
data at the same path, until a listed key hides it.

### Only model-checked

- Liveness: `Answered` and `AllAnswered`. Fairness and ENABLED are out of reach of the
  installed provers.
- The four statements that are refuted (section 4): a counterexample is TLC's.

## 6. Plan

Modelled and checked: `Session`, `SessionHistory`, `AtomicSession`, `SerialSession`,
`Repository`, `Accounts`, `Crud`, `Pipeline`, `Filter`, `HideOrOmit`. Start, seeding and
configuration became parts of `Accounts` (the seed, a dropped schema) and `Pipeline`
(the port). Proved: all safety properties and the refinement. Left:

1. The safety half of `AllAnswered`: an invariant that some ready step is there for
   every request that has not been answered.
2. A refinement for `Accounts` like that of sessions: registrations, logins and
   changes that overlap with no other of the same user take effect at once.

## 7. Not modelled

- Request context (`common/middlewares/context/requestContext.ts`): a context is
  stored for every request, and no code calls its accessors.
- `promiseWhile`: it has no caller.
- The environment is read once and handed on unchanged; only `PORT` and the
  dropped schema matter to a property. The key derivation of `EncryptionAndHashService`
  and the module files that configure libraries are constants of the deployment.
- Logging: formats and levels are output only. The ids of `generateCode` are random
  and taken to differ.
- `count` and `findAll` of `BaseService` change nothing and have no caller.
- The foreign keys to `user`: no code deletes a user. The seed and the server are
  modelled as running on one schema; dropping it while requests run is not.
- Swagger set-up, the mocks, the e2e placeholder.
