# A TLA+ verification of nestjs-app

The program is a NestJS API: accounts with e-mail and password, sessions with
rotating refresh tokens, roles and permissions, a Socket.IO namespace for
notifications, and e-mails for password resets. Several instances run behind
one PostgreSQL and one Redis. Nothing in it is deep as an algorithm; what is
hard is that almost every operation is a sequence of statements to a database
or to Redis, that other requests and other instances run between any two of
them, and that an instance can die there.

The modules model those sequences, statement by statement. Paths below are
relative to `src/src/`. `PROJECT.json` maps each definition to the lines it
stands for.

## 1. Inventory

### Components, their state and operations

| component | state | operations that change it |
|---|---|---|
| Sessions: `modules/auth/auth.service.ts`, `users.service.ts` (softDelete, update) | tables `users`, `refresh_tokens`, `password_reset_tokens`, row locks | register, login, refresh, logout, forgotPassword, resetPassword, softDelete, update |
| Permission cache: `modules/permissions/permissions.service.ts`, `common/guards/permissions.guard.ts`, `roles.service.ts`, `users.service.ts` | tables `roles`, `permissions`, `user_roles`, `role_permissions`; Redis keys with the rules of a user | check (read through), setRoles, setPermissions, remove role, remove permission, softDelete |
| Join rows: `common/utils/replace-join-rows.ts` | the rows of one owner in a join table, row locks | replaceJoinRows, removal of a referenced row |
| Mail: `modules/auth/mail/` | BullMQ queue in Redis, worker of each instance, `MailQueueStatus` | sendPasswordReset, process, retry, handleFailure, shutdown |
| Realtime adapter: `modules/realtime/redis-io.adapter.ts`, `shared/redis/redis.module.ts` | shared ioredis client, pub/sub clients, timers and listeners, `RealtimeAdapterStatus` | attachRedisAdapter, degrade, dispose, reconnect |
| Handshake limit: `redis-io.adapter.ts` (checkConnectRateLimit) | Redis counter per address with an expiry | INCR, EXPIRE, decide |
| Gateway: `modules/realtime/gateways/notifications.gateway.ts`, `common/guards/ws-*.guard.ts` | sockets, `socket.data`, rooms | handleConnection, notifications:broadcast |
| Metrics and alerts: `shared/metrics/`, `shared/alerting/`, `modules/health/metrics.controller.ts` | route table with counters, ring of samples, `lastAlertAt` | record, check (timer, GET /metrics), alert |
| Seed: `database/seeds/seed-roles-permissions.ts` | baseline rows | the run of every container at start |
| Accounts: `users.service.ts`, `auth.service.ts` (register), migration `UserEmailPartialUnique` | `users` with a partial unique index on the e-mail, `user_roles` | register, create, update, softDelete, setRoles, removal of a role |
| CRUD of roles and permissions: `roles.service.ts`, `permissions.service.ts` | `roles`, `permissions` with their unique constraints | create, update, remove |
| HTTP guards and throttling: `app.module.ts`, `shared/throttler/`, `common/guards/`, `common/filters/`, `common/interceptors/` | counters in Redis or in the memory of an instance, `request.user` | the four global guards, the interceptor, the filter |
| Health: `modules/health/health.controller.ts` | none of its own: reads the adapter, the mail status, the database, Redis | GET /health |
| DTOs, logger, correlation, configuration, migrations, clean-up script | none of their own, or DDL | |

### How they interact

* A request passes the guards (throttler, token, user throttler, permissions) in
  one instance; the permission guard decides by the **cache**, which it fills when
  there is no entry, everything else goes to the database. What a guard throws is answered by the filter and
  never reaches the interceptor that feeds the **metrics**.
* `softDelete` and `setRoles` commit first and delete cache entries afterwards.
  The cache and the tables are never changed together. The **seed** of a container
  that starts beside serving ones grants permissions and deletes no entry at all.
* `forgotPassword` writes the link and then gives it to the **mail queue**; any
  instance's worker sends it.
* The **adapter** listens to the shared Redis client, which the cache and the
  throttler use too; its state decides how the adapter waits.
* Gateway guards authenticate each message again through
  `AccessTokenIdentityService` and take the rules from the same cache.
* All state that instances share is in PostgreSQL and Redis. Instances share no
  memory and never talk to each other directly.

### What is hard

1. *READ COMMITTED.* `UPDATE ... WHERE` fixes the rows it will change when it
   starts and waits for their locks afterwards; rows inserted meanwhile are
   missed. Every "revoke all" of the code is such a statement.
2. *Locks taken in several orders.* Two handlers can wait for each other; the
   database aborts one.
3. *Read, then act.* A user, a password, a set of users or the rules are read,
   and used after other requests have changed them.
4. *Two commands where one is meant:* INCR and EXPIRE, commit and DEL, invalidate
   and insert.
5. *Lost answers and crashes*, in the e-mail worker above all.
6. *Callbacks in any order:* the `ready` event of a client, pings, timers.
7. *Limits and windows:* ring buffers, fixed windows, debounces, counters that
   move to another store while Redis fails.
8. *Entities written back.* `save()` writes the columns in which an object read
   earlier differs from the row, or inserts the row again when it is gone.
9. *Constraints that decide races* which a look-up before them cannot, and whose
   error has to become the right answer.

`PROJECT.json` lists them under `hazards`, each at the line where it bites and
with the properties that cover it.

### What makes each component correct

* **Sessions.** A refresh token is spent once and a session never forks
  (`AtMostOneLive`); a used token has one successor, and every token but the first
  is the successor of one (`RotationChain`); a reset link
  changes one password once (`PasswordChangedByFreshLink`); closed sessions stay
  closed (`ImplementsFamilies`); every request is answered (`EveryRequestEnds`).
* **Permission cache.** An entry that disagrees with the tables has one of the
  known causes (`StaleHasCause`), none lasts (`EventuallyFresh`), and every entry was
  loaded for the user it is stored for (`ImplementsRulesCache`).
* **Join rows.** No old row survives a replacement, and without overlap the
  result is the set asked for.
* **Mail.** Retries alone never send a link twice; an exhausted job is reported;
  no queued mail is lost.
* **Adapter.** Exactly one retry is pending until the adapter is attached; no
  client leaks; Redis' return is noticed.
* **Handshake limit.** At most the limit is admitted in a window; every window ends.
* **Gateway.** Nobody who is out of order broadcasts; rooms hold their owners' sockets.
* **Alerts.** The rate is that of the newest requests, the table is exact, and a
  breach is never hidden.
* **Accounts.** One live account per address; a conflict is told to whom it
  concerns; a refused creation leaves nothing; an update overwrites nothing
  unless it was overtaken.
* **Roles and permissions.** Who loses the race for a name is told so, and nobody
  else is; a removed row comes back only through an update that was overtaken.
* **HTTP guards.** Floods do not reach the token checks; handlers run for those
  entitled, or for whom an entry written while they were has outlived it.
* **Health.** An alarm is real, a recovery and a client that gave up are reported.
* **Seed.** Who serves has its baseline; an owner's password survives.

## 2. The modules

| module | models | extends |
|---|---|---|
| `PgLocks` | row locks, statements that wait for a set of rows, wait-for rings | |
| `AuthSessions` | sessions, resets, deletion and update of users | `PgLocks` |
| `SessionFamilies` | abstract: what refresh tokens promise | |
| `AuthRefinement` | the mapping from `AuthSessions` to `SessionFamilies` | `AuthSessions` |
| `SessionOverlaps` | the same with a record of which requests overlapped | `AuthRefinement` |
| `MCAuthSessions` | instances for TLC, symmetry | `AuthRefinement` |
| `MCAuthOverlaps` | the instance of `SessionOverlaps` for TLC | `SessionOverlaps`, `MCAuthSessions` |
| `AuthSessionsProofs` | theorems about all of these | `SessionOverlaps` |
| `RulesCache` | abstract: the cached rules as guards see them | |
| `PermissionCache`, `PermissionCacheProofs` | cache and RBAC tables; implements `RulesCache` | |
| `JoinRows` | replaceJoinRows | `PgLocks` |
| `MailQueue`, `MailQueueProofs` | producer, BullMQ, workers | |
| `RealtimeAdapter` | adapter and shared client | |
| `ConnectRateLimit` | the handshake counter | |
| `NotificationsGateway` | sockets, guards, broadcasts | `RulesCache` |
| `ErrorRate`, `ErrorRateProofs` | route table, samples, monitor | |
| `Seed`, `MCSeed`, `SeedProofs` | seed of several containers | |
| `Accounts` | accounts, addresses and their index | |
| `Catalogue` | roles and permissions as named rows | |
| `HttpPipeline` | the global guards, throttling, recording | `RulesCache` |
| `HealthProbe` | GET /health | `RealtimeAdapter` |
| `MCTables` | `Accounts`, `Catalogue`, `JoinRows` side by side for TLC | `Accounts` |
| `MCRealtime` | `HealthProbe` and `ConnectRateLimit` side by side for TLC | `HealthProbe` |
| `MCGuards` | `HttpPipeline` and `NotificationsGateway` side by side for TLC | `HttpPipeline` |
| `TablesProofs`, `RealtimeProofs`, `GuardsProofs` | theorems about the components of each | `MCTables`, `MCRealtime`, `MCGuards` |

### Sessions (`AuthSessions`, `PgLocks`)

`registered, deleted, active, password` are the columns of `users`; `issued,
owner, family, used, revoked, replacedBy` those of `refresh_tokens`; `resets,
resetOwner, resetUsed` those of `password_reset_tokens`; `expired` says for both
tables which `expires_at` is over. A token is its row, a password is the reset
link that set it, a family bears the name of its first token. `openedWith` (the
password a session was opened with) and `condemned` (tokens that the answers to
replays found usable and revoked) are history: no guard reads them.

A request has a step `pc` and a row `arg` it is about. `Ask(r, S)` starts a
statement that will lock the rows `S`, which is fixed there: that is the
snapshot. `AcquireRow` gets them one at a time, in any order, and `Granted` lets
the next step happen. What a transaction writes is invisible until it commits,
so it appears in the commit's action; `Release` ends the locks. One operation is
a chain of actions:

| code | actions |
|---|---|
| `register`, `login` | `Register`/`Login`, `CreateSession` |
| `refresh` | `Refresh` (FOR UPDATE), then `RefreshReplayed`+`RefreshTheft`, `RefreshExpired`, `RefreshInactive`, or `RefreshAccepted`+`RefreshRotate` |
| `logout` | `Logout`, `LogoutRevoke` |
| `forgotPassword` | `ForgotPassword`, `ForgotScan`, `ForgotInvalidate`, `ForgotInsert` |
| `resetPassword` | `ResetPassword` (FOR UPDATE), `ResetRefused` or `ResetAccepted`, `ResetScanTokens`, `ResetCommit` |
| `softDelete` | `SoftDelete`, `DeleteScanTokens`, `DeleteScanResets`, `DeleteCommit` |
| `update` | `UpdateUser`, `UpdateNothing` or `UpdateSave`+`UpdateWrite` |

`update` follows TypeORM's `save`: it reads the row again, soft-deleted or not,
and writes each column in which the entity it was given differs; so it can write
back what the entity still has from before another request.
`Crash` rolls the open transaction back and keeps what was committed;
`DeadlockAbort` does what PostgreSQL's detector does to one member of a ring.

`SessionOverlaps` adds two variables to `AuthSessions`. `beside` is the
requests about to insert a session or a link that ran at the same time as a reset
or a deletion (or, for links, as another `forgotPassword`); `missed` is the usable
families and links they inserted. Its invariants say that whatever a revocation
fails to revoke is among those: a revocation that nothing overlaps is complete.

`SessionFamilies` is the contract of refresh tokens: `current[f]`, the one
usable token of each session, and `spent`, with `Open`, `Rotate` and `Close`.
The mapping takes the unrevoked row of a family for `current` and the revoked
rows for `spent`.

### The permission cache (`PermissionCache`, `RulesCache`)

A guard goes through `Check`, `Hit` or `MissOrError`, `Load`, `Store` or
`StoreFails`. An administrator's request changes the tables in its first step
(`SetRoles`, `SetPermissions`) or in `Delete`, looks the affected users up before
(removals) or after (`FindAffected`), and deletes their entries one by one
(`Invalidate`, `InvalidateFails`). Redis' errors are logged and ignored in the
code, so each call may fail when `MayFail` is set, and an instance may die
between two steps. `Insert` is what comes into the tables beside the requests: the
rows of the seed, which runs at the start of every container while others serve
(`SeedGrant`, `SeedAdmin`, `InsertPermission`), and rows that a creation or the
`save()` of an update inserts (`InsertRole`); none of these deletes an entry. The
tables start as an earlier version of the seed left them. `overlapped` and
`excused` are history: which guards loaded before a delete, and whose entry a known
cause left stale; `outrun` and `seeded` are the same for what the seed inserts.

`RulesCache` is the contract of the cache towards a guard that asks for one set of
rules: `permitted`, the users who have them, `cached` and `says`, whose entry has
them, and what each guard has loaded and will store. The tables change at any
time, entries are dropped at any time, or never; what binds them is that an entry is
written only by the guard that loaded it, for the user it loaded it for.
`PermissionCache` implements it (`ImplementsRulesCache`), for the rules `Needed`;
`HttpPipeline` and `NotificationsGateway` use it in the place of the services. For
these the module defines `StillTrusted`: a user is trusted while entitled, and after
that as long as an entry or a guard about to store one has had the rules without a
break. That is as much as the program promises of a revocation.

### Join rows (`JoinRows`)

A row stands for one key of one owner; `lock` is held by whoever deleted or
inserted it. `DeleteRows` fixes the rows it saw, `SaveRows` looks for the asked
rows as `save()` does and inserts those it does not find, `InsertRefused` is the
primary key's or the foreign key's error, `Remove` the cascade of a removed role
or permission.

### Mail (`MailQueue`)

`SendPasswordReset`, `Add`, `Resend`, `Answer` are the call of the producer, with
a reply that can be lost. `Take`, the three outcomes of a sending
(`SendAccepted`, `SendRejected`, `SendTimesOut`), `Complete`, `Fail` and
`HandleFailure` are the worker. `Promote` and `Stall` are BullMQ's. `Shutdown`,
`Exit` and `Start` are a redeployment, `Crash` an instance that dies. BullMQ is
modelled from how `mail.module.ts` and `mail.processor.ts` configure it:
attempts and backoff, completed jobs removed at once, failed ones kept, one
return of a stalled job.

### The adapter and the handshake limit (`RealtimeAdapter`, `ConnectRateLimit`)

`attempts`, `timers` and `listeners` count what may still call
`attachRedisAdapter`. `PingsAnswered` and `PingsFail` are what follows its await;
`Degrade` chooses between the timer and `once('ready')` by the client's state at
that moment. `ClientReady` and `ReadyEmitted` are apart, as ioredis emits the
event on the next tick. `ConnectRateLimit` has the commands of the middleware as
actions; a lost reply may or may not have been executed; the `catch` admits.

### The gateway (`NotificationsGateway`)

Sockets are `opening` while `handleConnection` awaits `authenticate`; messages
arrive meanwhile. A message passes the throttle at once (the guard is
synchronous and runs first), then `Verify` (the token's signature and time),
`LookUp` (the row of its user) or `VerifyFails`, then `RulesCached`, or `RulesMissed`,
`LoadRules` and `StoreRules`, then `Broadcast`, each after an await; `Proven`,
`Authenticated` and `Refused` are the same two awaits of the connection. `Elsewhere`
is what other guards and deletes do to the entries. `late`, `outlawed` and `barred`
are history: the messages whose token was out of date when they came, and those
whose sender has not been active, or not trusted by `RulesCache`, for a moment since.

### Alerts (`ErrorRate`)

`Record` counts the request in the route table (`Track`) and pushes it into the
ring. `Check` is the poll of the timer, `Metrics` the check of GET /metrics, which
comes whenever somebody reads it; both are `Evaluate`, whose `Alert` is the
debounce. Rates are pairs of numbers compared by multiplication, so there is no
rounding.

### The seed (`Seed`)

A run is `Find` then `Insert` for each missing row, in the order of `Earlier`.
`Insert` may be refused by a constraint, which ends the run; Docker restarts the
container. Users of a serving instance remove permissions, delete the
administrator, or change its password at any time. A row inserted again has
another id, so a reference the run already holds is dead (`gone`, `Orphan`).

### Accounts (`Accounts`)

A row is an account with an address; the account a request creates bears the
request's name. `register` and `create` are `LookUp` (findByEmail), then, after the
password is hashed, `InsertUser`, `AssignRoles`, `LinkRoles` and `CommitUser` inside
one transaction, and `Reply`. An insert needs its key to be free: `KeyIsFree` waits
for open transactions with that address, as the unique index does, and `InIndex`
decides then; `InsertRefused` ends in what `OnUniqueViolation` makes of the error.
`SoftDelete`, `DeleteRow`, `DeleteCommit` are the deletion, whose row lock others
wait for. `Update` reads the entity, `Save` is the SELECT with which `save()` finds
the columns that differ (`Differing`), `Write` the UPDATE of those, which can bring
an account back and then needs the index too. `RemoveRole` removes a role with its
links, unless an uncommitted link holds it. `taken` and `stale` are history.

### Roles and permissions (`Catalogue`)

`Create`, `Update`, `Remove` are the look-ups of the services, `CheckName` the
look-up of a role's new name, a query after the one that read the role, `Save` the
SELECT of `save()`, `Write` and `WriteRefused` its INSERT or UPDATE under the unique
constraint, `Delete` what follows the look-up of the affected users. Roles and
permissions are both items with a name, as the two services have the same
structure; where they differ (system roles, status codes) the actions say so.
`stale` and `rivalled` are history: updates whose row was renamed or removed since
they read it, and requests whose name another item had at some moment.

### The HTTP guards (`HttpPipeline`)

A request is `Wall` (or `WallSkipped`), `Verify` or `NoToken`, `LookUp`, `Quota` (or
`QuotaSkipped`), `RulesSkipped` or `RulesCached` or `RulesMissed` with `LoadRules` and
`StoreRules`, `Handle`, each an await apart; `GuardFails` is a database error in a
guard. The rules are those of `RulesCache`: an entry decides, however old it is. `Hit` is one call of `ResilientThrottlerStorage`: in Redis or,
when that call fails, in the instance, and a command whose reply was lost can have
been counted in Redis too. `WindowEnds` empties a bucket at any time, so the model
has every alignment of windows. `Toggle` changes accounts meanwhile, `ChangeRights`
roles and grants, `Elsewhere` the entries.

### Health (`HealthProbe`)

`Poll`, `AskDb`, `AskRedis` are one GET /health with its two awaits, beside every
step of `RealtimeAdapter` and a database that comes and goes. `fault` is history:
whether something was wrong at some moment of the request.

## 3. The runs

Nine runs pass and three show a disagreement between the program and its text.

| run | module | bounds | shows |
|---|---|---|---|
| `auth_rotation` | `MCAuthOverlaps` | 2 requests, 1 user, 3 tokens, 2 links, four rows of these at a time (three with a second session); all operations but update | revocations miss only what overlaps them, no fork, one successor and one predecessor each, what a theft sweep can miss and that it is not undone, what can deadlock, and the refinement of `SessionFamilies` |
| `auth_tables` | `MCAuthSessions` | 2 requests, 1 user, 2 tokens, 2 links, two rows of these in all; all operations | a link changes one password once, every request ends |
| `auth_rotate_vs_reset` | `MCAuthSessions` | 2 requests, 1 user, 3 tokens, 1 link; register, refresh, forgot, reset; sessions are opened alone (`SessionsFirst`) | **violated**: a rotation held against the reset's UPDATE outlives it |
| `cache_entries` | `PermissionCache` | 2 requests, 2 users, a system role and another, 1 permission, 2 changes, any rows of the seed missing at first, failures | causes of stale entries, that none lasts, and the refinement of `RulesCache` |
| `mail_settles` | `MailQueue` | 1 mail, 2 instances, 3 attempts, 2 crashes, 1 stall, 1 lost reply | duplicates, stalls, reports, settling |
| `rate_alerts` | `ErrorRate` | 2 routes, table of 1, ring of 2, 4 requests, time 5, 2 alerts by readers | rate and debounce |
| `seed_rows` | `MCSeed` | 2 containers, 2 permissions, 2 roles, 1 crash, 2 changes | baseline, password, serving |
| `tables` | `MCTables` | 3 requests about 1 address and 2 roles, or 3 about 3 names of roles and 2 of permissions, or 2 replacements of 2 rows | addresses stay unique, conflicts of addresses and names are real and told, refusals leave nothing, only overtaken updates overwrite or revive, replacements leave nothing old |
| `accounts_undeleted` | `Accounts` | 2 requests, 1 address, 1 role | **violated**: a deleted account comes back |
| `realtime` | `MCRealtime` | 3 reconnections, outages at any time; or 3 sockets, limit 2, count to 5, 2 failures | one chain of retries, no leaked client, alarms with a cause, recoveries and a dead client reported; the limit, and windows that end until a failure |
| `limit_blocked` | `ConnectRateLimit` | the same sockets with 1 failure | **violated**: a window that never ends |
| `guards` | `MCGuards` | 2 requests, 2 instances, 1 address, 1 user, 4 kinds of routes, limit 1, failures of Redis, 1 guard elsewhere; or 1 socket (reused), 1 user, 3 messages (2 while rights change), limit 1, window 2, time 3 | token checks are capped, handlers and broadcasts are authorised whatever the cache holds, rooms are their owners', bursts are bounded |

**Runs of several components.** `tables`, `realtime` and `guards` each hold
components that share no variable: each models by itself what others do to its
rows (a role that is removed, an account that is suspended). In such a run
the variable `moves` is chosen at the start and says which of them takes steps
while the others rest in an initial state. Every behaviour of each component is
thus in `tables` and `realtime`, and since nothing one writes is read by another, no
interleaving of them could show more; the states add up instead of multiplying.

In `guards` what moves is cut once more, by what the properties are about: requests
of routes that ask for no rules, with the rights at rest; requests of restricted
routes without a throttle, with rights and entries that change; three messages and the
clock, with the accounts and rights at rest; two messages (`Few`) with everything. What
this leaves out, throttled requests among changing rights and a third message there,
the theorems of section 4 cover.

**Why these bounds are enough for the question.** Two requests are the least
that overlap, and every bad case of section 5 needs two; requests are reused, so
a trace has any number of them one after the other and in overlap. Three tokens
allow a session, its rotation, and either a second rotation or a second session
beside it. Two links allow the second `forgotPassword` and the deadlocks over
links. Four rows are the chain of three with a link beside it, or a rotation
with two links; a second session takes part with one further row: its rotation,
or a link that resets the password. `auth_tables` is about single answers and
waits and has every pair of rows. In the mail run two instances with two crashes
allow a job to stall, be given back and stall again. The ring of two wraps twice
with four requests. In the gateway three messages exceed twice the limit, and
the window of 2 in a time of 3 lets two windows touch. Three reconnections of
the shared client stand for the twenty of the code: each is the same, and only
that they end matters. In `Accounts` and `Catalogue` each request is answered
once; three of them are two that race and one that deletes, revives or removes,
and a fourth could only repeat one of these. In the pipeline the limit of 1
makes the second request the one too many, and two instances are the least whose
counters can differ; what a third request or a larger limit would add is covered
by the theorems. Where a theorem exists the bound does not matter.
Data that grows for ever in the program is cut by guards that name the bound:
`SpareToken`, `SpareReset`, `RowsBounded`, `TwoRows`, `SessionsFirst`, `MaxTries` (reconnections,
a number of the code), `MaxWrites`, `MaxResends`, `MaxCrashes`,
`MaxFailures`, `MaxCount`, `MaxRequests`, `MaxAlerts` (alerts that reads of /metrics
may add), `Duration`, `MaxChanges`; `Capped` takes counts past the limit for one.

**Symmetry** is used in four runs, all of safety properties: `auth_rotation` and
`auth_rotate_vs_reset` (requests, tokens, links and users are interchangeable
there; the choice in `CurrentOf` is unique because of `AtMostOneLive`), `tables`
(the requests of `Accounts` and `Catalogue`) and `guards` (requests, instances,
messages). `auth_tables` has liveness and no symmetry; it inserts the rows of a
table in a fixed order instead, which renames rows and no more. Its bound
`TwoRows` is an action constraint, which is sound with liveness here because it
only stops calls from being made: of the steps that fairness is about it leaves
each request at least one.

**Deadlock** is checked by TLC in `cache_entries`, `mail_settles` and
`limit_blocked`. Elsewhere the system really may stop: `AuthSessions` when tokens
and links are used up and nothing else is called, `RealtimeAdapter` after its
shutdown, `NotificationsGateway` and `ErrorRate` at the end of time, `Seed` once
all containers serve and the changes are used up, `Accounts`, `Catalogue` and
`HttpPipeline` when every request is answered.

**Fairness.** Weak fairness says that what has begun goes on: the event loop
resumes a handler, a timer fires, the database answers, BullMQ moves its jobs,
Docker restarts a container (`restart: unless-stopped`). Strong fairness is used
in three places. `Acquire` (row locks): a lock that is free again and again is
obtained, since PostgreSQL queues waiters first-in first-out. `Take`: an
instance that is redeployed again and again still takes a waiting job now and
then. `PingsAnswered`: Redis, while up, answers within two seconds now and then.
Nothing is assumed of clients, users, failures or crashes, except that
failures and crashes are bounded in number where the run says so.
`EveryRequestEnds` needs the deadlock detector (`DeadlockAbort` is fair).
`HealthFairness` adds that a monitor polls again and again; what it promises of
a recovery is under the condition that Redis and the database stay up in the
end. In `realtime` the fairness is that of the component that moves.

## 4. What is proved

For every value of the constants, with TLAPS (SMT, Zenon, LS4):

| theorem | says |
|---|---|
| `TypeCorrect`, `LocksHeld` | tables and requests refer to existing rows; the row checked stays locked until the commit |
| `OneLiveToken` | a family never has two usable tokens |
| `ChainHolds` | a used token has one successor and every token but the first is one, so none was rotated twice |
| `DeadlocksAreOverLinks` | every member of a deadlock is about the reset links of one user |
| `TheftsMissRotations` | what the answer to a replay leaves usable was rotated while it waited |
| `SweepsMissOverlapsOnly`, `LinksMissOverlapsOnly` | what a reset, a deletion or a `forgotPassword` fails to revoke was inserted beside it |
| `ResetLinkSpentOnce` | only the spending of a link changes a password (the write of an administrator's update apart) |
| `RefinesFamilies` | the tables implement `SessionFamilies` |
| `CacheTypeCorrect`, `StaleEntriesHaveCause` | a stale entry has a cause from the list, and the seed leaves none that is richer than the tables |
| `CacheImplementsRules` | the cache is `RulesCache` to its guards |
| `MailTypeCorrect`, `FailuresReported` | a job that is not finished has an attempt left; exactly those that used theirs up are reported |
| `DuplicatesCaused`, `StallsAreCrashes` | a second delivery has a lost answer, a time-out or a crash behind it; a redeployment strands no job |
| `AdapterTypeCorrect`, `OneRetryChain`, `NoClientLeaks` | the adapter's bookkeeping |
| `HealthTypeCorrect`, `NoFalseAlarms` | /health never answers ok before the adapter is attached, and degraded only when something was wrong while it ran |
| `HandshakesLimited` | a window admits no more handshakes than the limit |
| `RingIsBounded`, `RateIsOfTheNewest` | the ring holds the newest requests, however often it went round, and the rate is theirs |
| `BreachesAreAnnounced`, `TableExactAlways` | the debounce hides no breach; a route in the table has all of its requests |
| `OneAccountPerAddress`, `ConflictsReal`, `LosersTold`, `NothingLeft`, `RolesFromTheStart`, `UpdatesOverwriteOnlyWhenStale` | accounts: the index, the answers, the transaction, `save()` |
| `NameConflictsReal`, `StaleUpdatesRevive` | a conflict of names is answered to who met one or was overtaken, and to nobody else; only an update that was overtaken brings a row back |
| `OldRowsReplaced` | what is left of a set of join rows was asked for by the last replacement or one beside it; exactly its set, if it ran alone |
| `HandlersAuthorized`, `FloodsAreCapped` | the four guards of a request, with cached rules |
| `RoomsOwned`, `BroadcastersAuthorized`, `BurstsBounded` | rooms, the guards of a message, the throttle of a socket |
| `SeedTypeCorrect`, `ServesWithBaseline`, `OwnersPasswordSurvives` | the seed |

**Assumptions.** `NoneAssumption`, `RowAssumption` (the rows are those of three
disjoint tables), `CacheAssumption`, `MailAssumption`, `TriesAssumption`,
`ErrorRateAssumption`, `SeedAssumption`, `AccountsAssumption`, `PipelineAssumption`,
`RulesAssumption`, and those of the components that are instances, `TablesAssumption` (`Catalogue`,
`JoinRows`), `RealtimeAssumption` (`ConnectRateLimit`) and `GuardsAssumption`
(`NotificationsGateway`). They say that a limit is a number, that the value `None`
is none of the others, and what the rows given at the start look like; TLC
evaluates each in the runs. Finiteness is assumed only where cardinalities are used.
Each component with theorems has a type invariant of its own on which the others
rest. One theorem has a hypothesis: `SweepsMissOverlapsOnly` is about the
operations without the administrator's update, as is the run that checks it,
because `save()` can write back the password of before a reset.

**The arguments.**

*Sessions.* `TypeOK` is inductive alone. `LockInv` is inductive with it: at every
step after the FOR UPDATE the request holds its row, so the row a rotation is
about to spend is still usable and a reset's link is still unused; the last
conjunct states exactly that, because the writes of others are kept off by the
lock. `AtMostOneLive` is inductive with both: the only action that adds a token
to an existing family is `RefreshRotate`, which spends the one the lock kept
usable. Without `LockInv` it is not inductive, since a rotation of a token that
is already spent would add a second one. `RotationChain` says that the tokens of a
family are in one line: every one but the first has exactly one predecessor, whose
successor it is. Its hard half is the converse of what a rotation writes: a second
rotation of a token would overwrite the first successor's only link. That does not
happen for the same reason: the lock keeps the token without a replacement. `RefinesFamilies` uses
`TypeOK`, `LockInv` and `AtMostOneLive`: the mapping's choice is then unique; a
commit that only revokes rows is `Close` of their families (`RevokingCloses`),
the insert of a session is `Open`, a rotation is `Rotate`, everything else
stutters.

*Waiting.* `ClaimsInv` says what each step holds or still waits for: rows of its own
user; only the row it was called for until that row is checked; of sessions at most
one usable token per family. A smallest ring is of one user, and at most one member
holds the user's row. Who wants a session's token waits for somebody who claims
tokens; so if nobody in the ring spends links after having swept the sessions, those
that want tokens would be a ring by themselves, and if somebody does, that member is
the only one that sweeps and those about links are a ring by themselves. A ring over
tokens would contain one of requests that answer replays, as a sweeper finds one token
per family; `NoTheftRing`, an invariant of its own, says there is none: whoever
obtains its token has nothing left to wait for. `DeadlocksAreOverLinks` follows.
`TheftsMissRotations` rests on the snapshot, `OnePerFamily`: the sweep of a replay has
found at most one usable token, and if a usable one is there at its commit, the one
found was rotated while the sweep waited for it.

*Overlaps.* `SweepInv` and `LinkInv` extend the two claims to the middle of the
operations: a sweep under way has found every usable token of the user except
those that requests beside it inserted, and a request about to open a session has read
the current password, or is recorded in `beside`. `BesideInv` closes the argument:
an open request that may insert and has a rival is always recorded, whichever of the
two came first.

*Mail.* Three invariants: `AttemptsLeft`, that a job not yet finished has an attempt left,
is the type invariant's companion; `ExhaustedStay` says that a job without
attempts is failed and stays, so its mail is not queued again and not reported
twice; `DeliveryInv` says where an e-mail without a lost answer is: not delivered
as long as its job may be tried again, delivered at most once when it is gone. A
worker that has delivered but not completed holds the job, and only a crash takes
it away, which puts the mail among the doubtful.

*Cache.* `StaleHasCause` speaks about entries; it is not inductive because a guard
may hold rules that are already outdated and cache them later. `CacheInv` adds:
such a guard is marked `overlapped`, or a delete of the entry is still to come.
The delicate step is `Delete`, whose look-up happened earlier (`DeleteStep`):
each user whose rules it changes has a delete to come or is among the missed. For the
inserts of the seed `GainStep` shows that nobody loses a right by them, so that what
was loaded or cached before is poorer than the tables and no more; a later change with
a delete to come takes over the blame, and without one the claim of the seed stays.
`CacheImplementsRules` maps each step to one of `RulesCache`: `Load`, `Put` and
`PutFails` to those of the guard, a delete or an expiry to `Drop`, every step on the
tables to `Change`. It needs of `TypeOK` that a guard about to store has a user.

*Adapter.* The number of open clients is a natural number only because
each disconnection is that of an attempt under way, and clients are `kept` only
when attached, which makes type, chain and clients one invariant. For
`DegradedIsReal`, `FaultSeen` carries what a poll saw across its two awaits: while
something is wrong an open poll has noted it, and so has one that found the database
down. That the answer is never ok without the adapter needs that what is
attached stays attached.

*Handshakes.* The count alone is not enough, since a middleware that has
incremented decides later: what was admitted plus what is `Pending` (a count
within the limit, not yet decided) is at most the count and at most the limit.
A handshake of an earlier window that decides late counts in neither.

*Alerts.* `NoSilentBreach` needs that `lastAlertAt` is the time of an alert that
was really appended (`LastAlertIsOne`), and that the initial zero is further
than a cooldown in the past.

`RateIsOfTheNewest` compares the ring with `requests`, the history of all
requests. `RingHolds` says which of them the slot `k` has: the `Place(k)`-th, which
is `k` until the ring is full, and after that counts back from the slot that is
overwritten next. `HoldsStep` shows that a push keeps this at either side of the
wrap; `PlaceIsNewest` that `Place` is a bijection onto the newest `Capacity`
requests, so that the counts of the ring and of the history are equal.
`TableInv` ties the counters to the cardinality of the requests of a route, and
holds because a route is counted from its first request or not at all.

*Accounts.* `OneLiveAccountPerAddress` is about committed rows and is not inductive:
two transactions could have inserted the same address and commit one after the
other. `KeyHeld` excludes this: while an insert is not committed its address is
that of no live account and of no other insert, as every insert, and every update
that brings an account back, waits in `KeyIsFree`. `HistoryInv` relates the
answers to the history `taken`: whoever is past the look-up has recorded each
account that had its address meanwhile, so a conflict is real; whoever was
refused has no row and no link. `Current` does the same for `OnlyStaleUpdatesOverwrite`:
an entity that no other request overtook agrees with its row in every column it
was not asked to change.

*Roles and permissions.* `ItemAt` says, of a request on its way, that another item
with its name has been noted in `rivalled`, and that an update nobody overtook still
has its row, with another name than the one it looks for and, for a permission, with
the name it had. So whatever a look-up or a constraint finds is a rival or the
work of who overtook the update: `ToldAt`, of which `NameConflictsAreReal` is made.
`Born` says which items there can be at all, so that a creation that was refused has
none and no row is inserted twice under one id unless it was put back by an update;
`OnlyStaleUpdatesRevive` follows from the same. `SetNameStep` is the step that can
disturb the others: a row gets a name or goes.

*Join rows.* `ReplacementAt`: the rows a DELETE found or waits for are there until its
transaction ends, as their locks keep them, and each other row of the owner was asked
for by a request beside it; the same after the DELETE, of the rows it did not
doom. `Overlapping` makes this symmetric: of two that overlap each knows what the
other was asked for, whichever began first.

*HTTP guards.* `Placed` says what the earlier guards left for a request at each
step, `Seen` that whoever is active or trusted now has been so during the request, and
`Trusting` that entitlement, an entry with the rules and a guard that holds them each
imply trust, which a step of the cache takes away only with the last of them
(`EntriesStep`); with the three `HandlersAreAuthorized` is inductive. For `VerificationIsCapped`, `CapInv` is
stronger twice: it counts the requests that got through the wall and not only
those that were checked, and it bounds their number by the count of the backend
as well as by the limit, since only the count decides who is next. A window that
ends empties both at once.

*Gateway.* `MessageAt` says what a message has shown at each step; `GateTrusting` is
`Trusting` of the gateway's guards. The claims about suspensions and rights need that a socket is not used again while a message of it is under way,
so that the token read after an await is still the one the message came with.
`BurstsAreBounded` compares any two passed messages; `PacedAt` bounds them by the present
window: what passed before it was over when it opened, and what passed two windows
back was a whole `Window` earlier. More than twice the limit of
messages reach back that far.

*Seed.* `PendingIsReady`: a row about to be inserted refers only to rows the run
has passed; with `PassedIsThere` the foreign keys hold whatever users remove.

**Only model-checked.** The liveness properties, as fairness and ENABLED are out of
the prover's reach: `EventuallyFresh`, `EveryMailSettles`, `EveryRequestEnds`,
`EveryContainerServes`, `RecoveryShows`, `GivenUpShows`, and the half of
`WindowsLimitAndEnd` that says a window ends (the other half, that it keeps the
limit, is `HandshakesLimited`). Every other property of a passing run has a theorem.
That a violation exists is shown by TLC's trace and needs no proof. No module uses
a RECURSIVE operator; an induction over data (a theorem about a recursive definition
for every input) is out of the prover's reach and none is needed here.

## 5. Where the program and its text disagree

Three disagreements have a run. The modules state the others as definitions with
the same names, so that a reader who adds the name to a configuration of the
module (as INVARIANT, or as PROPERTY when the definition starts with a box; those
of `Catalogue` and `JoinRows` by a definition `X == C!X` in `MCTables`) gets the
trace; they have no run of their own because a run of a passing property,
named in brackets, already tells what bounds them.

With a run:

* **A rotation outlives a password reset** (`auth_rotate_vs_reset`,
  `NoRotationOutlivesReset`). `auth.service.ts:294` "Force re-login everywhere:
  revoke every active refresh token the user has". A refresh holds its row when
  the reset's UPDATE starts; the UPDATE waits for it, finds it revoked, and never
  sees the new row that the refresh committed. The bound `SessionsFirst` lets a
  session be opened only while nothing else runs, so that the trace is this and not
  the shorter one of a session inserted beside the reset and rotated afterwards, which
  is `NoSessionOutlivesReset` below.
* **A deleted account comes back** (`accounts_undeleted`, `DeletedStaysDeleted`).
  `users.controller.ts:132` "Soft-delete a user (admin). Revokes their sessions;
  the email can be reused." `update` saves the entity it read earlier; `save()`
  compares `deletedAt` too and writes NULL back, so a PATCH that overlaps the DELETE
  undoes a deletion that was answered with 204.
* **An address is refused for ever** (`limit_blocked`, `EveryWindowEnds`).
  `.env.example:65` "Max socket connections per IP per 60s window". EXPIRE follows
  INCR only for the first count. When it fails, or the instance dies in between,
  the key has no expiry and the count passes the limit in time. `WindowsLimitAndEnd`
  shows that nothing else does it.

Sessions (module `AuthSessions`; what bounds them: `TheftMissesOnlyRotations`,
`SweepsMissOnlyOverlaps`, `LinksMissOnlyOverlaps`):

* `NoSessionOutlivesReset` (`auth.controller.ts:159`): a login that verified the old
  password before the reset commits inserts its session afterwards.
* `TheftKillsFamily` (`auth.service.ts:139` "whole session family"): the sweep
  has the same snapshot as the reset's.
* `DeletedUserHasNoSession` (`users.controller.ts:132`): a login that passed its
  check before `softDelete` inserts afterwards. The refresh of that token is
  refused later, as the user is looked up (`RefreshInactive`).
* `AtMostOneResetLink` (`auth.service.ts:239`): two `forgotPassword`s both
  invalidate first and both insert afterwards.

Cache, join rows, mail, alerts (`StaleHasCause`, `ReplacementsLeaveTheirOwn`,
`DuplicatesHaveCause`, `NoSilentBreach`):

* `NoRemovedPermissionReCached` (`permissions.service.ts:142`): a guard that
  loaded before the removal caches after the delete of the entry. It lasts as
  long as the entry does. A user who got the role between the look-up and the
  removal is not invalidated.
* `ReplacesAtomically` (`replace-join-rows.ts:16`): two overlapping replacements
  can leave the union of their sets; one of them may get a unique violation, which is
  answered by a 500.
* `OneJobPerToken` (`mail.service.ts:65`): the id collapses a repeated add only
  while the first job exists, and completed jobs are removed at once. A command
  the client repeats after the job was done makes a second.
* `QuietUnlessClimbing` (`error-rate.monitor.ts:20`): the re-arm compares the rate
  with the threshold and not with the rate alerted before, so a rate above
  threshold + 0.2 alerts at each poll, climbing or not.
* `NewestRouteIsTracked` (`metrics.service.ts:18` "evicts on overflow"): nothing is
  ever evicted; when the table is full a new route is dropped for as long as the
  instance runs.

Accounts, roles and permissions (`LosersGetConflict`, `OnlyStaleUpdatesRevive`):

* `TakenIsBadRequest` (`auth.controller.ts:59` documents a 400): a taken address is
  a 409, before and after the insert.
* `UnknownUserIsNotFound` (`users.controller.ts:154` documents a 404): `setRoles`
  looks for the user after the transaction, whose insert meets the foreign key
  first; the answer is a 500.
* `RemovedStaysRemoved` (`roles.controller.ts:92`, `permissions.controller.ts:99`):
  `save()` of an entity whose row is gone inserts it again under its old id, so a
  PATCH that overlaps the DELETE brings the role or permission back.
* `MissingPermissionIsNotFound` (`permissions.controller.ts:80` and `:101` document a
  404): `updatePermission` and `removePermission` answer 400.

HTTP guards (`VerificationIsCapped`, `HandlersAreAuthorized`):

* `LimitIsPerAddress` (`auth.controller.ts:42` "5 requests per minute per IP"): when
  a call of Redis fails the hit is counted in the memory of the instance, where
  those counted elsewhere are unknown.
* `ServerErrorsAreRecorded` (`metrics.service.ts:63`): only the interceptor records,
  and interceptors run after the guards and not at all for an unmatched route; a
  500 out of a guard is not in the rate, so an outage of the database is seen
  through the requests that get past the guards.

Further facts the models show and no text denies: `resetPassword` (holds a link,
wants the user) and `softDelete` (holds the user, wants the links) can deadlock,
and two `forgotPassword`s with two unused links; one gets a 500. An update that
changes only the name writes back the status, or the password, of before a
concurrent suspension or reset, and an update of a role's description writes back
its old name, or is answered with a conflict when that name is another's by then. A
renaming overtaken by another to the same name is answered with a conflict although
the name is the role's own. The update of a permission that was removed and put back
in the meantime can meet its own primary key and be answered 500. A revoked right
outlives its revocation in an entry, or with a guard that loaded before and caches
afterwards, and such an entry lives as long as an access token. What a new version of
the seed grants reaches those who have an entry when that expires. `register` can answer 500 after its account was committed, when
the session's insert fails. A job that fails because it stalled too often is
logged as going to be retried. `dispose` during an attempt leaves that attempt's
clients open until the process ends. After 20 failed reconnections the shared
client ends, `ready` is never emitted, and the adapter stays in memory until a
restart; `/health` reports it (`GivenUpShows`) through its own ping, while the
adapter's status stays "attached" once it was. A socket whose token is refused is
in the namespace, and gets its broadcasts, until the refusal. The throttle of a
socket starts anew when it reconnects. A seed after the administrator was
deleted creates a new account with the configured password.

## 6. What is not modelled, and why

DTOs, pipes, serialisers and decorators are stateless functions of one request.
Configuration is read once; its values are CONSTANTS, and `main.ts` runs before
there is anything to interleave with. Logging and correlation carry an id for the
log; nothing decides by it. Migrations run once; what their keys, indexes and
cascades do is in the modules that use the tables. The e-mail templates format one
text. The clean-up script is run by hand on an idle database. Hashes, token
strings and signatures are identities: that they cannot be guessed or forged is
not a subject of these models. Lists and look-ups of users, roles and permissions
are reads of one statement. Of the gateway, the delivery of a broadcast to sockets
of other instances is Socket.IO's, and `sendToUser` is called by nothing. Of the
metrics, latencies are sums nobody decides by, and the webhook is best-effort
I/O whose result is logged.

## 7. What is left

1. An abstract specification of the mail queue (each link sent, perhaps twice, or
   reported), refined by the module here.
2. Two sockets and the delivery of broadcasts across instances, composing
   `NotificationsGateway` with `RealtimeAdapter`.
3. `Accounts` composed with `Seed` (the administrator's address) and with
   `AuthSessions` (the session after a registration).
4. Proofs: that the mail queue implements the abstract specification of 1, and
   what the compositions of 2 and 3 add to the invariants of their parts.

## 8. Running

`tlc -workers 2 -config <run>.cfg <module>` and `tlapm <module>.tla`, in this
directory; the table of section 3 names the module of each run. All runs together
take about ten minutes on two cores (`auth_tables`, `guards`, `realtime` and
`auth_rotation` one to two minutes each), all proofs about six.
