# A formal model of the NestJS GraphQL backend

TLA+ specifications of the backend in `src/apps/backend/src` (paths below are
relative to it), model-checked with TLC on small instances and, where it says
so, proved with TLAPS for every value of the constants.

The program keeps its state in Postgres, Redis, S3 and a mail queue, and every
operation is a handler that reads, decides and writes with awaits in between. Only
the file repository and the seeds open transactions, so what matters is what
happens *between* two awaits: another request, a late insert, a stale cached
answer, a crash. The models therefore have one action per await, and their
properties relate what a request saw to what it did.

## Inventory

| Component | State | Operations | Works with |
|---|---|---|---|
| Auth sessions (`modules/users`: login, refresh, logout) | `refresh` table, JWTs in clients' hands, `user` rows | `login`, `refreshTokens`, `logout`, `userUpdate`, `userDelete` | user directory (read), clients |
| Magic links (`modules/users`) | `magic_link_token` table | `requestMagicLink`, `authenticateWithMagicLink` | mail queue (job), user directory (read), sessions (tokens) |
| OAuth identities (`modules/oauth`, identity repository) | `identity` table, `user` rows, TypeORM's query cache | `oauthAuthenticate`, `oauthLinkProvider`, `oauthUnlinkProvider` | providers (HTTP), mail queue, user directory, sessions |
| Mail queue (`modules/mail`) | `mail` and `mail_template` tables, BullMQ queue, query cache | create and queue a mail, process a job, retry failed mails, template create/update/delete | SMTP, all producers |
| User directory (`modules/users`) | `user` table | create, update, theme, delete (soft), find | events to the mail queue |
| Roles, permissions, policies | `user_role`, `role_permission`, abilities cached per role in memory | CRUD, `fillAbilities`, `hasPermission` | guards |
| Guards, CSRF, cookies, throttling | cookies, throttler storage | `canActivate` | every resolver |
| File store (`modules/file`) | `file`, `file_version` tables, S3 objects | upload (several in one transaction), new version, rename, download, soft delete | S3 |
| Notifications (`modules/notification`) | `notification` table, Redis pub/sub | create, mark read, mark all read, subscribe | pub/sub |
| Migration and seeding (`modules/migration`) | all of the above at start-up | seed roles, permissions, admin, templates | policies |
| Search queries (`common/graphql-search-query`) | none | filters to query builder | every list query |
| Health, i18n, logging, scalars, mappers, options, bootstrap | none | - | - |

How they interact: resolvers call handlers through the command bus; handlers call
repositories (Drizzle for users and tokens, TypeORM for identities, mails, files
and notifications) and each other's services; `UserCreatedEvent` reaches the mail
module through the event bus; mails reach the worker through BullMQ. With
`redis.host` configured TypeORM answers *every* read from Redis for
`redis.duration` (1000 ms) and no write invalidates an answer
(`options/typeorm.module.options.ts:38-51`); Drizzle reads are never cached.

Behaviours that are hard, and where they bite, are listed line by line under
`hazards` in `PROJECT.json`. In short:

* **check, await, act** without a lock or a conditional write: token rotation,
  marking a link, linking and unlinking an account, retrying a mail;
* **writes nobody waits for**: the INSERT of a refresh token;
* **stale answers** of the query cache, claims of an old token, cached abilities;
* **half-done operations**: a link used up before its tokens exist, a user
  without an identity, a mail row without a job, an upload without a row;
* **redelivery and retry** of mail jobs.

What makes each component correct:

* *Auth sessions*: a refresh token is exchanged once and is dead afterwards; a
  user who is blocked, unverified or deleted gets no new token; a refused refresh
  costs nothing; a changed role reaches the tokens.
* *Magic links*: a mailed link works once, for who asked for it, and only a
  successful visit uses it up.
* *OAuth identities*: an account has one owner; a user keeps a way to log in; a
  newcomer is welcomed once; an unlink removes what it was asked to remove.
* *Mail queue*: a PENDING mail is on its way; no job sends twice; the attempts stop at
  five unless the mail was given a job it was not due; what was sent is over; every mail
  with a job gets an outcome.
* *User directory*: one row per address, registration races included.
* *Policies and seeding*: whatever the start-up order and whichever call is rejected, a
  role ends up with the abilities the table gives it; a restart changes nothing.
* *File store*: a row's last version is an object in S3, and the one a download
  serves; a failed upload takes no older file with it and blocks nobody but itself, and
  what leaves an object that nobody will delete is known.
* *Notifications*: every account gets its welcome; who lists once the subscription is
  in effect misses nothing.
* *Guards and cookies*: a logout that answers success ends the session; the cookie
  left in the browser is good for a refresh.
* *Search queries*: a search finds the rows its filter asks for.

## Modules

| Module | What it is |
|---|---|
| `AuthSessions` | the session handlers, the `refresh` table and the tokens in flight |
| `RefreshLedger` | abstract: what the `refresh` table promises, whatever races on it |
| `AuthSessionsProofs` | TLAPS proofs about `AuthSessions`, `LedgerImplemented` included |
| `MagicLinks`, `MagicLinksProofs` | the two magic-link handlers; proofs |
| `OAuthIdentities`, `OAuthIdentitiesProofs` | authenticate, link and unlink against users, identities and the query cache; proofs |
| `MailQueue`, `MailQueueProofs` | producers, workers, retries, templates, crashes and the query cache; proofs |
| `FileStore`, `FileStoreProofs` | uploads, new versions, renames, deletions and downloads over Postgres and S3; proofs |
| `Bootstrap`, `BootstrapProofs` | start-up of several instances: ability cache, seeds, guard, edits of roles and users; proofs |
| `Accounts`, `AccountsProofs` | accounts made by administrators, the two handlers of `UserCreatedEvent`, notifications and their subscribers; proofs |
| `BrowserSession`, `BrowserSessionProofs` | one browser: cookies, modes, the CSRF guard, what login, refresh and logout answer; proofs |
| `SearchQuery` | the translation of a filter to where clauses, against what the filter asks for |
| `MC*` | the sets TLC uses; constants get their values in the `.cfg` |

A `TypeOK` stands in every module but the two smallest, `BrowserSession` and
`SearchQuery`; the runs check it, and for `Bootstrap` it is proved instead
(`BootstrapProofs`, `TypeCorrect`).

### AuthSessions

`user` holds what sessions read of a user row (verified, blocked, deleted, role);
`row` the state of each token's row ("none" until its INSERT lands, "active",
"revoked"); `inserting` the INSERTs under way; `jwt` what a token says (user, role
of the refresh and of the access token, predecessor); `age` whether it has expired;
`req` one record per request in flight with its program counter and what it has
read. One action per await of `refresh-tokens.handler.ts` (`RefreshBegin`,
`RefreshFindToken`, `RefreshFindUser`, `RefreshRotate`, `Issue`), of
`user-login.handler.ts` (`LoginFind`, `LoginVerify`, `LoginRehash`, `Issue`) and of
`revokeRefreshToken` (`LogoutBegin`, `LogoutRevoke`). `Issue` hands the token out and
only *starts* the INSERT, as `auth-service.adapter.ts:75` does (`void ...
.catch(...)`): `InsertRow` lands any time later, `InsertLost` is the logged failure.
`Abort` is a rejected await or a crash: whatever was written stays. `UpdateUser` is
any `userUpdate`; `DeleteUser` the soft delete.

### RefreshLedger

A token is unissued, pending (handed out, row not there), active, revoked, or lost;
it is issued either by a login or in place of a *revoked* token. `AuthSessions`
implements it under `Stage` and `Replaces` (`ImplementsLedger`).

### MagicLinks

`link` is the `magic_link_token` table, `mailed` the links that are in a mail job and
so may be read, `user` the state of each address, `ask` and `visit` the calls of the
two handlers. A link's clock is one step, `Expire`. The mail queue is an
environment that may show the mail as soon as `addToQueue` returned. Users are
created, deleted and change their address underneath. The handler passes
`{ ip: fingerprint }` where a request is expected, so token generation throws:
`IssueThrows` is the only way a visit that marked its link ends well or badly.

### OAuthIdentities

`identity` keeps the rows, deleted ones included (`live`); `cache` the answer TypeORM
would give to each of the three queries that decide something; `req` the requests.
An address reported by a provider stands for the user who has it or may get it. The
unique index on (userId, providerType) is in `CanInsert`; the index on the account is
not unique and constrains nothing. `begun` is a history field: the identities that
existed when the request began. `mishap` is history too (see below). Provider calls are
await points without state.

### MailQueue

`mail` is the table (status and attempts), `queued` the BullMQ jobs waiting per mail,
`worker` the jobs being processed, await by await of `MailService.sendMail`, `retry`
the `RetryFailedMailsCommand`s, `producer` any of the handlers that store a mail and
queue it, `cache` the TypeORM answers. `Smtp` may accept, reject, or accept and still
report an error. BullMQ is external: `Crash` redelivers a stalled job or gives it up.
The cache is always on: `redis.host` is mandatory (`typeorm.module.options.ts:9`).
`jobs`, `faulted` and `strayed` are history variables; `strayed` are the mails that got a
job they were not due: marked by a retry though the row could not be retried any more (the
list was old), or run again after their outcome was written. The retry command has no caller in the
repository; it is modelled because the module's documentation promises it.

### FileStore

`file` and `versions` are the committed rows, `objects` the bucket (each put is a
version of its own, ordered by `puts`), `slug` the transliteration that decides which
names share a key. Each `Request` has one transaction: `pend` and `pver` are the rows
it has written and not committed, and `item` its uploads, which run side by side
(`Promise.all`) over one connection: the upserts first, then, upload by upload, `Put`,
`Save` (head, version row, `lastVersionId`), or `SaveFails`, `Cleanup`, `Drop`. `Drop`
is `this.repo.delete` and goes over *another* connection: it waits for the row its own
request has locked. `WaitsFor` is the database's lock graph (rows written, and names
in the unique index); `BreakDeadlock` is Postgres ending a circle. `Rollback` is the
first rejection, while other uploads still run. `stray` and `raced` are history
variables: objects nobody is left to delete, and rows that `fileUpdate` or one upload
twice worked on.

Every `findOne` here is a TypeORM read and may be answered from the query cache, the one
of a download and those inside a transaction too. Row ids are never used again and a
deletion is never undone, so a stale answer can be wrong about two things: the name, and
with it the key, and whether the row is deleted. `past[f]` are the keys a row may still be
answered with, `undone` those of rows that a rolled-back transaction had read back (the
cache keeps them although no row ever said so), and `Expire` ends the second. `Download`
takes the key it was told and gives the newest object under it. The last read of an
update (`file-repository.impl.ts:407`) may be answered by that of its first (:358).
`PutFails` is the put that fails, and also the one that reaches the bucket and fails all
the same: its answer is lost, or names no version (:195-199, outside the `try` that would
delete the object). Such an object is a `stray`.

### Bootstrap

Several instances (`pc`, `at`, `moderator`) run `onModuleInit` over one database:
`CountRoles`, `SeedRoles` (one transaction), `CountPermissions`, `WipePermissions` and
`CreatePermissions` (two statements), `FindAdmin`, `FindModerator`, `UpsertAccount`,
then the templates one by one; any of them may crash and start again. `filling` is the
`fillAbilities` the constructor of `PoliciesService` starts and does not await;
`ability` the cache of each instance, which is never refreshed. `Rejected` is an await
that rejects: the instance does not come up. Two rejections do not stop it, those the
service catches: a failed count of the roles (`roles-seed.service.ts:80-83`) is taken for
"no roles" and seeds them (`CountRolesFails`), a failed count of the permissions (:67-70)
for "no permissions" and deletes and creates them (`CountPermissionsFails`). `hit` are the
instances whose present start met a rejection, `reseeded` that permissions were deleted
because their count failed. `absent` are the "there is none" answers the query cache
remembers. `user-seed.service.ts:51,70,76` log "admin user" and "admin role" where the
code looks for an account with the admin role and stores one with the moderator role; the model follows the code. `Administer` are the role and user
mutations a guard lets through on the cached abilities. The three role types are
literal: they are what the seed config names.

### Accounts

`userCreate` await by await (`CheckEmail`, `InsertUser`, `PublishCreated`),
`userUpdate` and `userDelete`, the two event handlers (`SaveNote` then `PushNote`;
`SaveMail`), and each user's client: `Subscribe` asks for the channel, which Redis makes
some time later (`TakeEffect`; the iterator acknowledges nothing to the client), a push
then travels (`Arrive`) or goes with a broken connection (`LosePush`); `List` (through the query cache),
`FindNote` followed by `MarkRead` or `DeleteNote`, `MarkAllRead`. The welcome is the
only notification the system makes, so a user has at most one. The mail it queues is
`MailQueue`'s producer.

### BrowserSession

A pair of tokens is a number; `jar` holds the browser's cookies, `memory` what each tab
keeps of its answers, `call` the request of each tab, `config` the auth mode and the CSRF
switch, and whether the cookies are set under the names the guard and the resolvers
read. `Refuse` is `CsrfGuard`; `Login`, `RefreshRead`, `RefreshRevoke`, `RefreshIssue`,
`RefreshFails` and `Logout` are the resolvers with their handlers, await by await;
`Receive` and `Lose` are the network. A pair is handed out before its refresh row exists
(`auth-service.adapter.ts:75-84` does not await the INSERT and only logs its failure):
it is `inserting` until `InsertRow`, or `lost` after `InsertLost`; a refresh or a logout
that comes before the row finds nothing. `Kept` is a token that was not revoked, `Live`
one that can also be found. A refresh may fail after the revoking UPDATE, and a logout's
UPDATE may fail or its answer go missing. Left out: a user who is barred (the subject of
`AuthSessions`), and the access token's own expiry; how tabs use what they keep is the
client's choice and left open.

### SearchQuery

`InputType`, `OwnFields`, `Relations` and `Parts` derive from an entity's metadata what a
client may ask, as the input classes are built: the hidden columns and those that are not
selected are left out, an enum needs its registered name, an eager relation is asked
about by a filter of its own. `WhereCondition` follows `graphql-search-query.ts` branch by
branch (null, undefined, boolean, text, range, enum, nested filter), `Unsupported` is its
throw, and `Refuse` the request it ends; `Normalized` puts and, or and the caller's
restriction (`options.where`, one clause or several) together. `Found` evaluates the
clauses as TypeORM does: a condition of `undefined`, and a relation none of whose clauses
restricts, is skipped, and an alternative without any other condition is left out
(`Restricting`). `Says` says independently what the filter asks for. The caller's
restriction is one more alternative, so beside a filter that restricts anything it widens
the search: a row is found when it meets either. The four `Pitfall`s are where the two
part: a bound of 0 (:595), a field in both parts (:634), beside an alternative that
restricts one that does not, a relation's empty "or" beside an "and". RECURSIVE
operators, so no proofs. The columns selected, the order and the page are not modelled.

## Runs

| Run | Instance | Shows |
|---|---|---|
| `auth_sessions` | 1 user, 3 tokens, 2 requests, 2 roles | types; `SuccessorMeansRevoked`, `OneLiveTokenPerLinearSession`, `RevokedStaysDead` (rotation), `BarredStaysOut`, `BlockKeepsSessions` (blocked and deleted users), `RoleLag` (how old the role in a token can be), and that the module implements `RefreshLedger` |
| `auth_liveness` | 1 user, 2 tokens, 2 requests, 1 expiry, fair | `BarringTakesEffect` |
| `magic_visits` | 2 links, 3 visits, 2 addresses, 2 origins | types; `RefusalKeepsLink`, `MailedLinkWorks`, `SpentForGood` |
| `magic_tokens` (violated) | 1 link, 1 visit | a valid link ends in an error, after it was used up |
| `oauth_races` | 2 users, 2 providers, 2 identities, 2 requests, cache (1 answer at a time) | types; `OneOwnerUnlessMishap`, `LastMethodUnlessMishap`, `WelcomedOnce`, `LaterLinkSurvives` |
| `mail_delivery` | 1 mail of 2 attempts, 1 worker, 2 retries, 1 crash, fair | types; `PendingIsInHand`, `OneMessagePerJob`, `CappedUnlessStrayed`, `SentStaysSent`, `PendingIsSettled` |
| `mail_retry` (violated) | 1 mail of 5 attempts, 1 worker, 1 retry, no crash | a sixth attempt: `AttemptsCapped` ("up to 5 attempts", `mail.module.ts:75`) |
| `file_store` | 2 users, 2 names, 2 rows, 2 requests of up to 2 files, 3 calls or 4 puts, 1 fault | types; `FileHasContent`, `NoFileLost`, `ServesLastVersion`, `OnlyStraysAreOrphans`, `OnlySelfLocksStall` |
| `bootstrap` | 2 instances, 2 users, 4 roles, 2 templates; 3 starts, or 2 edits or rejected calls | `NobodyLockedOut`, `ComesUpSeeded`, `PromotionLasts` |
| `accounts` | 2 rows, 2 addresses, 2 requests, 1 change, 1 user with a client that subscribes, lists and drops out | types; `WelcomedUnlessMishap`, `NothingMissed`, `ConflictExplained` |
| `search_query` | the columns of a file, one of each kind, and a boolean one; its eager version; every filter of 1 "and" and 2 "or" fields, with and without a base of two clauses | `FindsWhatIsAsked` |
| `browser_session` | 2 tabs, 3 pairs, every mode, one tab GraphiQL | `SuccessEndsSession`, `NoDeadCookie` |

The violated runs are the findings of `PROJECT.json`, which quote the comments the program
contradicts. Three more disagreements show in the passing runs, where a history
variable stands for them: two overlapping refreshes each hand out a pair
(`refresh-tokens.handler.ts:85-91` revokes the old token without asking whether
another request has; `OneLiveTokenPerLinearSession` speaks of sessions without such an overlap); two
overlapping links give one account two owners; two overlapping unlinks, or one after a
stale count, leave a user without a way to log in.

**Bounds, and why they are enough.** Tokens, links, visits, identities and mails are
finite sets of model values, each used once. A refresh race needs two requests on one
token and a third token for a second successor. The role lags at most one rotation,
so one change of role after a login shows the worst case. `MaxExpired` bounds how many
tokens expire: one is enough to meet the check. Two
visits can race on a link and a third comes late. Races of link, unlink and first
login are between two requests, and two identities are enough for a second owner, a
second method or a link made again; the constraint `OneCached` keeps one cached answer
at a time, since each check relies on one read. `MaxJobs` bounds only when a *retry may begin*,
at one job more than the limit of attempts needs, so that only the code's own limit
stops it; `MaxCrashes` bounds the crashes. `MaxAttempts` is 5 in the violated run, as in
the code, and 2 beside overlapping retries, where only the last attempt is special.
In `FileStore` two requests of two files are enough for a circle of waits and for a
sibling that outlives a rollback; `MaxCalls` allows a third call before or after them
(an upload, then an edit that races a deletion), `MaxVersion` the four puts of two
uploads of two files (a call begins only while its puts are left, so that the bound
stops nobody half-way), and `MaxFaults` one failure of bucket, database or process;
`CallsOrPuts` leaves out the states with both a third call and a fourth put. In `Bootstrap` three starts of two instances give a restart and
an overlap, beside one edit or rejected call (`StartsOrEvents`); `MaxRoles` leaves room for one role beside the seeded ones, `MaxEvents` for
a promotion and one more edit, for one and a rejected call, or for two rejected calls,
and two templates for a first and a last. In
`Accounts` two requests race on an address, `MaxChanges` bounds updates and deletions,
`Reader` names the users that have a client, and `OneMishap` lets the welcome of one user
go wrong. `BrowserSession` issues at most
`MaxPairs` pairs: a login, a rotation and a competing one; `TwoLogins` leaves out three
logins without a rotation, `OneMishap` a second thing that goes missing. `SearchQuery` bounds the
fields of each part. Every other limit is the program's own.

Deadlock checking is off where the model really comes to rest: in the magic-link runs
each request and visit is made once; in `file_store`, `bootstrap`, `accounts` and
`browser_session` the bounds end the calls (a real standstill of the file store is
what `OnlySelfLocksStall` is about); `search_query` is one search. In the others
something is always possible: users are updated, requests begin, templates are
toggled.

**What stalls the file store.** `OnlySelfLocksStall`: some request can go on, unless a
request waits with `this.repo.delete` for a committed row that its own transaction has
locked. That wait is in no circle Postgres can see, and ends only with the connection's
own limits. "Can go on" is `Ready`, the guards of the actions of `Work` (each action is
its guard, a `May...` operator, and an assignment to every variable), faults aside: it
says what ENABLED says, in words a proof can use.

**Collisions.** `collided` in `Bootstrap` records that two instances seeded the same
thing, or that one believed a stale "there is none"; `reseeded` that a failed count had
the permissions deleted; `hit` whose start had a call rejected. `NobodyLockedOut` says that
only the first two leave an empty ability behind, `ComesUpSeeded` that nothing but a
collision or a rejected call keeps an instance down, and what a serving one can rely on:
no crash, no restart, no order, and no rejection in an earlier start does harm.

**Mishaps.** Two requests that overlap break the two checks of the OAuth handlers,
and so does one stale read of the query cache: within
`redis.duration` of a first unlink the cached count still says two, and the last
identity goes. `mishap` records which of the two ever happened, so that
`OneOwnerUnlessMishap` and `LastMethodUnlessMishap` say in one run what the checks are
worth: they hold up to the first overlap or stale answer, through every fault.

**Attempts.** `AttemptsCapped` is what `mail.module.ts:75` says, and does not hold with one
worker, one retry at a time and no crash: a second command answered within a second from
the cached list still sees four attempts, marks the mail PENDING and queues it after its
fifth failure. Two overlapping retries with one list each, and a worker that dies after it
wrote FAILED and whose job runs again, have the same effect. `CappedUnlessStrayed` says that these are the
only ways: a mail that was never given a job it was not due is attempted five times at most,
through stale reads, duplicate jobs and crashes.

**What was sent.** A list of FAILED mails, held by a retry or remembered by the cache, may
name a mail that is SENT by now, and bring it back. `SentStaysSent` says that nothing else
does: a mail that is over, and on no such list, stays over.

**Fairness.** `AuthSessions!Fairness` says that an await settles: each request in
flight goes on or is aborted (weak fairness of its steps together). Node's event loop
and the drivers' timeouts give that. It does not say that requests arrive, that
INSERTs land or that users are unblocked. `MailQueue!Fairness` says that BullMQ hands
out waiting jobs to a free worker, that a worker's awaits settle, and the same for
producers and retries. Nothing is assumed of crashes (bounded by `MaxCrashes`),
templates or the cache's expiry. `PendingIsSettled` therefore ends in "or a fault left
it without a job": that is what the code gives, since nothing looks for PENDING rows
(`processQueue` has no caller).

## Proofs

Checked by TLAPS for any values of the constants that meet the assumptions stated in
the modules: sentinels are not members of the sets they stand beside, bounds are
naturals, and the identity rows and the workers that are counted are finitely many.

`AuthSessionsProofs`. The inductive invariant says, beside the types, what a request
that has passed a check still knows: a request past `findToken` holds an issued token
whose user and role it carries; a request past `rotate` has a *revoked* token in hand
(`SuccessorMeansRevoked` is not inductive without it: the step that issues needs to
know that the rotation has landed, and that no INSERT of that token is still under
way that could make it active again); an INSERT under way belongs to a token that was
issued and has no row; an issued token's predecessor was issued before it.
From it follow `TypeCorrect`, `RotationRevokes` and `RolesLagOneRotation` as
invariants, `DeadForGood`, `BarredGetNothing` and `BarringConsumesNothing` as action
properties, and `LedgerImplemented`: each step of `AuthSessions` is a step of
`RefreshLedger` or leaves it unchanged.
`OneLiveToken` (`OneLiveTokenPerLinearSession`) is about a recursive function over the
chain of predecessors. It is proved without induction over that chain, from a second
invariant, `Chains`: some function solves the equation that defines `Session`, and
*every* solution is linear, that is, two ends of chains with the same root exist only
where a token was replaced twice. `Issue` puts its new token at the end of one chain,
so a solution after it is one from before with one value changed, and linear again;
no other step touches the equation. A live token is the end of its chain because its
row is not revoked (`SuccessorMeansRevoked`).

`MagicLinksProofs`. `AskOK` ties row, request and mail together (a link has a row
exactly from its INSERT on, and is in a mail only after that); `VisitOK` says that a
visit past the first check presents a stored link, from the link's own origin: without
it the step that marks a link could not tell whose visit it was. `GrowStep` states
once what any step may do to the table: rows and origins stay, use is never taken
back, and only a visit at "mark" uses a link up. Theorems: `TypeCorrect`,
`RefusalConsumesNothing`, `MailedLinksWork`, `SpentStaysSpent`.

`OAuthIdentitiesProofs`. `RequestOK` says what a request holds at each await (an
unlink past its first read has an identity that was in the table when it began);
`CacheOK` that a cached identity is, or was, in the table; `WelcomeOK` that whoever
is about to send a welcome created the row, alone, and has not sent it. `Grown`
states once that rows stay and keep their user. `SerialOK` speaks of the runs without
overlap and without a stale answer: then one request is under way, what it has read
still holds (`ReadHolds`: the account it is about to link has no owner, the user it is
about to unlink has another method), and the two rules of the tables hold with it.
Theorems: `TypeCorrect`, `NewcomersWelcomedOnce`, `LaterLinksStay`, `OneOwnerInTurn`,
`LastMethodInTurn`.

`MailQueueProofs`. `RowOK` says that nothing has a mail in hand, and no answer about
it is cached, before its row exists, and that a read that found no row found a
deleted one; `PendingOK` strengthens `PendingIsInHand`: the mails further down a
retry's list do not count, since a retry may drop its list; `JobsOK` adds the jobs
waiting and those under way before `smtp` to what was sent, which makes
`OneMessagePerJob` inductive (a counting argument over the finite set of workers).
`AwayStep` states once that no step touches a mail that nothing has in hand and no answer
lists as failed; the start of a mail's life and its end both rest on it.
`CappedUnlessStrayed` rests on an invariant about the mails that did not stray (`CapOK`):
one hand at a time has such a mail (`OneHand`: its producer, the queue, one worker or the
retry that marked it), a mail that says FAILED is in no hand, one in a hand has at most
four attempts behind it, in its row and in what its worker has read (`Attempts`), and
the cache knows of no attempts the row has not had (`Known`). Theorems: `TypeCorrect`,
`PendingHasAHand`, `OneMessageEach`, `SentForGood`, `AttemptsStop`, for any number of
workers, retries, crashes and attempts.

`BrowserSessionProofs`. `OneKept` says that a login whose chain of rotations never forked
has at most one refresh token that is not revoked, whether its row has landed or not,
and none once a logout has answered success (`EndsKept`); `HandedOn`, that it has none
either while a refresh stands between revoking the old token and issuing the new one,
and that only one refresh does. `ReadIssued` and `RootsOK` say that a refresh under way
has seen an issued token, and that the new pair inherits its login. For `NoDeadCookie` a
second invariant: a pair on its way to the browser is not revoked and nobody has it yet
(`NewUnheld`), whatever a request carries was issued (`HeldIssued`), and as long as nothing
broke off, a revoked refresh cookie has an answer on its way that will replace or clear
it, or a refresh that will give one (`CookieReplaced`). A token that is issued and not
revoked is live, on its way or lost, which is what the property asks. Theorems:
`SuccessIsFinal`, `QuietCookieIsLive`.

`AccountsProofs`. `WelcomeOK` says where a user's welcome stands: with the request that
has inserted the row, or with the handlers, or with a mishap; `InsertsOK` makes it one
request only. `ClientOK` is the argument for `NothingMissed`: a list that was read
from the database through a subscription in effect either came after `SaveNote`, and shows
the notification, or before `PushNote`, and the push is sent to it. `FreeOK` ties what `existsByEmail` saw to what holds now.
Theorems: `TypeCorrect`, `EveryAccountIsWelcomed`, `SubscribersMissNothing`,
`ConflictsAreExplained`.

`BootstrapProofs`. Three invariants over the types. `GrantsOK`: without a collision or a
failed count at most one instance is between `deleteAll` and `createMany`, then there are
no permissions and nobody is past that stage; so nobody who serves can cache an empty
ability. `PromotionOK`: while the account is an admin no instance stands between
`FindAdmin` and `UpsertAccount`. `SeedsOK`: before the first edit the rows are none or
those of the seeds (`RowsOK`), each instance has behind it what its stage says
(`StageOK`), without a collision is alone at what it seeds (`AloneOK`), and is down only if
it was hit. A failed count of roles that exist runs into the unique name and is a `hit`.
Theorems: `OnlyCollisionsLockOut`, `PromotionsLast`, `FirstStartSeeds`.

`FileStoreProofs`. `ItemOK` says what has become of the version each upload has put:
the object is there while the upload is alive, its row is uncommitted or the version
is a stray once it has saved, and after a failed upload the object is gone or a stray;
`OwnVersions` and `VersionsOK` keep committed versions out of every upload's reach.
`PendOK` gives each uncommitted row one writer, and a last version unless an upload of
that row is not done, so that a commit (which needs every upload saved) leaves
`ContentOK`: every committed file has its last version. That in turn makes
`this.repo.delete` harmless: the row it finds has a version, and the foreign key
refuses. What a download serves rests on a second invariant, `Serving`, about files that
nobody edited and no request uploads twice: one upload of a request holds such a file
until the transaction is over (`OnceOK`), puts its version under the key of the row
that request holds, after every committed version of it (`HeldOK`, `KeyOK`), and so
leaves a committed row whose last version is its newest and lies under its key
(`ServedOK`). A key the cache may still answer with is one under which the file has a
committed version (`PastOK`): only rows that were committed are remembered for a download.
`ServesLastVersion` adds that nothing else lies there. The proof needs that
no row id is the marker for "no file", now part of `FilesAssumption`.
That nobody stands still but for a self-lock needs a third invariant, `Going`: an open
upload has locked the row of every file it has at the bucket, an update locks no row
but its own, a refused request has no statement left to send (`StageOK`), and what is
still to be put has room (`RoomOK`). From it, a busy request that is not `Ready` waits
for rows of another (`StuckWaits`): in its own transaction, or with `this.repo.delete`,
and then it holds no row itself. So if nobody could go on and nobody were locked by
itself, all who hold rows would wait for one another; a smallest set of requests each of
which waits for one of them is a circle (`SomeCircle`, over the finite set of requests),
and Postgres fails one of a circle. The theorem assumes that the row ids do not run out
(`~IsFiniteSet(FileId)`: they are uuids; `RowsOK` says that finitely many are in use), or
an upsert of a new name could wait for an id. Theorems: `TypeCorrect`, `FilesKeepContent`,
`FilesStay`, `OrphansAreStrays`, `DownloadsServeTheLast`, `OthersGoOn`.

Of the properties the passing runs check, three are only model-checked:

* `BarringTakesEffect` and `PendingIsSettled`: liveness under fairness, which this prover
  cannot do.
* `FindsWhatIsAsked`: `SearchQuery` is built from RECURSIVE operators over filters of any
  depth; what they compute for every filter would be an induction over data.

## Not modelled, and why

* Passwords, hashing, JWT signing and claims other than user, role and predecessor:
  no property tells their values apart; a JWT is unforgeable by construction.
* Throttling: a library counts the requests (`GraphqlThrottlerGuard` only tells it which
  request it is). The GraphQL context only validates an access token.
* Health, i18n, logging, scalars, mappers, options: configuration, formatting and pure
  input and output, without state that outlives a call.
* Of the search queries: select, relations, order and page; the request object only
  selects columns and the page comes straight from the input.
* The TRUNCATE of `NODE_ENV=test` and the schema's own migrations at start-up.
* Of the file store: the contents, sizes and MIME types of a version; signed links and
  the headers a download answers with.
* The OAuth `state` parameter: the code does not check it yet (a TODO says so).
* `deleteExpired`, `deleteByEmail`, `processQueue`, `markForRetry` and
  `generateAccessTokenFromRefreshToken`: no caller in the repository.
* Mail contents and rendering, attributes of users, notification mails of the OAuth
  handlers (each is a producer of `MailQueue`).
* Queries that change nothing.

## Plan

Done, in this order: `AuthSessions` with `RefreshLedger`, `MagicLinks`,
`OAuthIdentities`, `MailQueue`, `FileStore`, `Bootstrap`, `Accounts`, `SearchQuery`,
`BrowserSession`, and the proofs above. What would come next:

1. `AuthSessions` and `BrowserSession` composed, so that a barred user and a late
   INSERT meet the cookies.
2. `Accounts` composed with `MailQueue`: today the welcome mail is one producer of the
   queue, by name only.
3. `SearchQuery` with order and pages, whose stability over two pages is a hazard of
   its own.
