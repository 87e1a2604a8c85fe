# A verification project for the safeer API

TLA+ modules that model the core of the back end under `src/` (a NestJS service
over MySQL/MariaDB), TLC configurations that check them on small instances, and
theorems that TLAPS checks for every value of the constants. `PROJECT.json`
holds the index: components, runs, mutated definitions, the source lines each
definition stands for, findings, hazards and theorems.

```
tlc -workers 2 -config StaffAccounts.cfg MCStaffAccounts     # a run
tlapm Accounts_proofs.tla                                    # the proofs
```

## 1. The system

One Node.js process (`ecosystem.config.cjs`) serves a public site and an
administration. JavaScript runs one callback at a time, so what interleaves is
the code between `await`s: each SQL statement is a point at which other requests,
timers and background work run. Beside it run scripts on the same database and
files: the migration runner, the reprocessing of media, and, around a deployment,
the next server. State is in three places: the database, the memory of the process
(lost in a restart), and files on disk.

| Component | State | Operations | Interacts with |
|---|---|---|---|
| Staff accounts (`auth/`, `users/`) | `users`, `sessions`, `auth_tokens` | login, logout, end sessions, change password, invite, accept, forgot, reset, update, delete | mail (links); the guards of every admin route; audit |
| Response cache (`cache/`, `common/crud`) | two LRU stores, a tag index, purge versions, an epoch, all in memory | `set`, `setMemo`, `versionOf`, `purgeTag`, `clear`, expiry | every cached read fills it; every content write purges tags |
| Mail (`mail/`) | `mail_log`, the `pending` map | `send`, `attemptDelivery`, the 30 s sweep, an admin's retry | accounts, messages, newsletter send; retention purges |
| Mail settings (`mail/`) | `mail_settings`, a cached SMTP transport per server | save, test send, `getTransporter`, `invalidate` | mail; the encryption key |
| Licences (`licences/`, `site-settings/`) | `licences`, a copy of the primary one's number in `site_settings` | create, update, publish, make primary, remove; the settings screen | cache (purges) |
| Organisation chart (`org-chart/`, `board/`) | `org_positions.parent_id`, `board_members.org_position_id` | create, move, delete, publish; appointing members | CRUD kernel (publish, reorder), cache |
| CRUD kernel and redirects (`common/crud`, `redirects/`, `news/`) | content rows, `redirects` | create, update with a redirect from the old slug, publish, remove, reorder | cache, every content collection |
| Media (`media/`, `storage/`, `files/`) | `media_assets`, `media_variants`, files | upload with de-duplication, alt texts, delete guarded by usages, public reads; `scripts/reprocess-media.mjs` | everything that shows an asset; memo store |
| Messages (`messages/`, `contact/`) | `contact_messages`, `message_replies` | submit, view, change status, reply, convert to a testimonial, remove | mail, testimonials, retention |
| Newsletter (`contact/`) | `newsletter_subscribers`, signed links | subscribe, confirm, unsubscribe, remove | mail, retention |
| Retention (`maintenance/`) | none of its own | the nightly job: a copy of delivery outcomes, deletes of old rows | mail, messages, newsletter, accounts |
| Login limits (`auth/`) | a counter per address in memory, the lock on `users` | count, lock, back off, unlock | login |
| Content collections, public reads (`pages/`, `news/`, `documents/`, ...) | nineteen tables | every write and the tags it purges; every public route and the tags it is cached under | cache, media |
| Migrations and boot (`scripts/migrate.mjs`, boot checks, bootstrap admin) | `schema_migrations`, a named lock, `site_settings.encryption_key_check` | verify checksums and the key, apply pending files; check the key, create the first admin | the schema; mail settings |
| Background work and shutdown (`common/background`) | promises in flight | run, drain | mail, forgot-password |
| Audit log, HTTP pipeline, configuration, health | rows written after a response; none | — | — |

What is hard about it:

* **statements of different requests interleave**, and only some handlers use a
  transaction with row locks (`users.service.ts`, `consumeToken`, licences, the
  chart); the others check in one statement and act in a later one;
* **TypeORM's `save(entity)`** reads the row again and writes every column in which
  the entity differs from it. An entity loaded before somebody else's commit
  therefore writes old values back. The login path was changed to a targeted
  UPDATE for this reason; other paths still save what they read;
* **the cache** is filled by handlers that read before, and finish after, a write
  and its purge;
* **files and rows** are written one after the other, and either step may fail;
* **hand-written lists of tags** say which writes reach which cached page;
* **mail** is accepted by a server and recorded in the database in two steps, by
  three kinds of attempts that can overlap, in a process that may stop between;
* **restarts** lose the cache, the pending map, timers and handlers in flight; a
  stop between two statements of a migration leaves what MySQL committed by itself.

What makes each component correct is in section 3; what could go
wrong, line by line, is `PROJECT.json` "hazards".

## 2. Modules

| Module | Models | Proofs |
|---|---|---|
| `StaffAccounts` | accounts, sessions, one-time links, row locks and deadlocks | `Accounts_proofs` |
| `CacheContract` | what the cache promises: a purge of a tag is final | — |
| `ResponseCache` | the cache, the handlers that fill it, the writes that purge it; implements `CacheContract` | `ResponseCache_proofs` |
| `MailQueue` | `mail_log`, the pending map, attempts, sweep, retry, restarts | `MailQueue_proofs` |
| `Licences` | licence writes as transactions, the copy in the settings, the settings screen | `AdminWrites_proofs` |
| `LoginLimits` | guessing one account's password: the limit per address, the lock, time | `Accounts_proofs` |
| `OrgTree` | the chart, its guard, the locks, publishing, members | `OrgTree_proofs` |
| `Redirects` | posts, the redirects that follow their renames, redirects made by hand | `AdminWrites_proofs` |
| `Media` | assets, their files, the rows that show them, the reprocessing script | `AdminWrites_proofs` |
| `Messages` | contact messages, replies, their mail, the nightly job | `Contact_proofs` |
| `Newsletter` | double opt-in, links that outlive the row, the purge | `Contact_proofs` |
| `Deployment` | migration runs and servers on one database, the encryption key | `Deployment_proofs` |
| `MailSettings` | the settings of the mail server, and the transport each server keeps of them | `Deployment_proofs` |
| `PublicSite` | the content tables, the public handlers as functions of them, tags of routes and of writes | `PublicSite_proofs` |
| `MC*` | the instance of each that TLC checks: values, bounds, symmetry | — |

Each `MC` module extends its component's module, gives the constants their small
values and says which of them are interchangeable. `PublicSite` has none: the
contents of nineteen tables are too many to enumerate, and what it says is proved
for every content instead. Components that share no state but are near to each other
in the code have their proofs in one module; the names they would both define carry a
prefix there (`LL` in `LoginLimits`, `LC` in `Licences`, `MD` in `Media`, `NL` in
`Newsletter`, `MS` in `MailSettings`).

Components meet where one module hands the other a narrow interface. `ResponseCache`
has the cache with one abstract value per tag, `PublicSite` the tags with the tables
behind them. `StaffAccounts` has a login as far as sessions and the status of the
account, `LoginLimits` as far as its password and the lock. `Messages` sees a mail as
the row that `MailQueue` delivers; `PublicSite` sees a redirect, a chart and a licence
as rows whose guards are in `Redirects`, `OrgTree` and `Licences`, and a file as open
or not, whose bytes are in `Media`.

### Conventions common to the modules

* **A step** is one awaited statement with the code that runs when its result
  arrives. Nothing else runs in between, so the step is atomic.
* A handler is a record (`req`, `attempt`, `reader`, `tx`, `publishing`, `screen`,
  `put`, `mail`) with a `stage`, its place in the code, and what it has read so far. What a step
  uses from that record is what the code holds in a local variable at that point;
  what it reads from the state variables is what the statement reads then.
* A statement that fails has no effect. Where the code does something other than
  give up (rolls back, schedules a retry, skips a purge), that is an action.
* A transaction's writes are shown in its last step; its locks are taken when its
  locking statements run and held until that step. Statements that need a row that
  is locked are not enabled.
* Names, bodies, addresses and other data appear only as far as a property tells
  them apart: an address or a password is a counter that says which one it is.
* **History variables** (`spent`, `floor`, `missed`, `delivered`, `lost`,
  `overwritten`, `former`, `astray`, `stale`, `counted`, `lastLock`, `erased`,
  `uncopied`, `archived`, `revived`, `strays`, `broken`, `late`, `mixed`, `reused`,
  the fields `own` and `was` of a reply) and the bounds are read by properties and
  bounds only.

### StaffAccounts

`role`, `status`, `pw`, `email` are the columns of `users`; `sess` and `tok` are
`sessions` and `auth_tokens`; `lock` and `tokLock` say who holds which row lock.
`pw[u] = 0` is `UNUSABLE_PASSWORD_HASH`. A request `r` runs one handler:

| Handler | Actions |
|---|---|
| `login` | `LoginSelect` (find, verify), `LoginUpdate` (`UPDATE … AND status = 'active'`), `LoginInsert` (session) |
| `logout`, `endSession`, `endOtherSessions` | `EndSession`, `EndOtherSessions` |
| `changePassword` | `ChangeVerify`, `ChangeWrite`, `ChangeEndOthers` |
| `invite` | `InviteCreate`, `InviteToken` |
| `sendPasswordReset` | `ForgotFind`, `ForgotToken` |
| `consumeToken` for `acceptInvite`, `resetPassword` | `ConsumeLockToken`, `ConsumeLockUser`, `ConsumeCommit` |
| `UsersService.update`, `remove` | `UpdateBegin`/`RemoveBegin` (session and role guards), `TxLock` (every admin row and the target), `TxCheck` (the rules, and a rollback when one refuses), `UpdateWrite`/`RemoveWrite` |
| the database, the process | `DeadlockAbort`, `Crash` |

A statement that writes a `users` row, or inserts a row with a foreign key to one,
waits for that row's lock (`RowsNeeded`); statements that delete outstanding links
wait for the locks on them (`TokensNeeded`). `InWaitCycle` is what InnoDB detects.

### ResponseCache and CacheContract

`store` holds both LRU stores, `tagIndex`, `tagVersions` and `epoch` are the fields
of `CacheService`. The data of a tag is a version number, so an entry is the version
it was read at, per tag. `ReadBegin` takes `versionOf` before the handler's queries,
`ReadQuery` is one query, `ReadStore` is `set`/`setMemo` with that snapshot (refused,
too large, or stored while pushing out any entries the limits allow — the LRU order
is left open), `ReadEnd` a read that stores nothing. `WriteCommit` and `WritePurge`
are a write and the purge in the callback after it; `WriteFail` is a write whose
commit took effect and whose handler threw before it purged. `CacheContract` keeps
only `db`, `floor` and `store`: whatever is held under a tag was read no earlier than
the tag's last purge.

### MailQueue

`row` is `mail_log` (status, attempts, `next_retry_at` as null/later/due, whether a
payload is stored), `pending` the map of rendered content with its `terminal` flag.
A mail's first attempt is named after the mail; the sweep and an admin have one each.
An attempt goes through `load`, `connect`, `smtp` and then `accepted` or `failing`;
`refused` is a mail for which no transport is configured, a terminal failure.
`AttemptSmtp` is `sendMail`, which resolves, or rejects because the server did not take
the mail, or rejects although it did (the answer was lost): the two rejections are the
same to the code, and the mail is attempted again. `AttemptThrows` is the outer catch: a
statement or `getTransporter` throws, and the row stays as it was. It may do so at every
attempt; only where it follows `sendMail` it counts against `MaxErrors`.

### Licences

A licence write locks the `site_settings` row (`TxLock`), reads the licence and works
out whose flag must be cleared (`TxClear`), and saves, synchronises the settings and
commits (`TxCommit`). `TxRollback` is every refusal. The settings screen reads the
whole row (`ScreenRead`), `save()` reads it again and compares (`ScreenCompare`) and
writes what differs (`ScreenWrite`), waiting for the row lock.

### OrgTree

`parent` is `org_positions.parent_id` (`Top` for a root, `None` for no row), `post`
the members' positions. `TxLockTree` is `lockTree`, `Create` and `Move` check with
`CheckParent` and commit, `TxLockRow` and `Remove` are a delete with its usage check
and the foreign keys behind it, `Appoint` a member's position. `PublishRead`,
`PublishCompare`, `PublishWrite` are the inherited `publish` handler. The guard's
walks are one function of the number of steps taken (`Walk`): upwards through the
parents (`Chain`, one position a step) and downwards through the children
(`SubtreeDepth`, one level a step), each as far as the code goes before it gives up.

### Redirects

`post` holds the slug and `is_published` of posts, the one collection with redirects
that an editor also deletes in bulk; a post's path is its slug. `rule` is `redirects`.
A request on posts is `Create` then `ClearRedirectsInto`, or `UpdateRead`,
`SaveCompare`, `SaveWrite`, `SaveCommit`; a publish is an update of `is_published`
alone. `SaveCommit` is the rest of `saveWithRedirect`: its statements on `redirects`
search by `to_path`, which has no index, so the first of them locks the table and
nothing else gets between them. A redirect made by hand goes through `RuleCreate` or
`RuleUpdate`, `AssertNoChain`, and then `RuleInsert` or `RuleLoad`, `RuleCompare`,
`RuleWrite` of the generated handlers. `former` remembers which post gave an address up
while it was published, and forgets it when another post, an admin or an overtaken save
takes the address; `astray` are the posts renamed while they were not published;
`stale` are the requests on redirects since whose first look the redirects changed.

### LoginLimits

One account. `attempts` is `loginAttempts` of its address in the memory of the
process, `user` the columns of the lock. A sign-in is `Login` (`checkEmailRateLimit`),
`Read` (the SELECT, which decides whether the real or the dummy hash is verified),
`Verify`, and then `registerFailedAttempt` or `Success`, each one targeted UPDATE:
`Failed` evaluates the SET list from left to right, as MySQL does. Times are kept
relative to now and in units of the first lock; `Tick` takes one off all of them.

### Messages

`msg`, `reply`, `mail` and `quoted` are `contact_messages`, `message_replies`, the rows of
`mail_log` about a message, and the testimonials made from one. `submit` is `SubmitStore`
and its two mails; the handlers that begin with `findOrNotFound` start in `Find`. A view,
a PATCH and the end of a reply save the entity in two steps (`SaveLoad`, `SaveWrite`), and
a row that is gone is inserted. A reply is `ReplySend`, `ReplyLookup`, `ReplyInsert`, and
remembers the mail its own send logged (`own`) and the one it was first linked to (`was`),
neither of which is in the row; a removal locks the mail (`RemoveLock`) and commits
(`RemoveCommit`). The nightly job is `JobCopy`, `JobMail`, `JobMessages`, each of which
may fail and be passed over. `TurnsOld` ages a mail at any moment.

### Newsletter

`sub` is the row of an address, `link` whether a confirmation link to it is still
valid. `subscribe` is `SubscribeFind`, and then an insert, or `SubscribeLoad` and
`SubscribeWrite` for a row found, and `SubscribeSend`. `Confirm` and `Unsubscribe` are
one conditional statement each. `Purge` is `purgeInactiveNewsletterRows`; `WeekPasses`
ends the links, `MonthPasses` makes rows old.

### Media

`asset` is `media_assets` with, per row, whether it has variants; `files` are pairs of
an asset and a part, the three WebP variants being one. An upload is `UploadFind`,
`UploadPut` for each file, `UploadInsert` for both tables, and `UploadClean` when one
of them failed. A removal is `RemoveFind`, `RemoveUsages`, `RemoveVariants`,
`RemoveRow` (refused by the foreign keys of the owners) and `RemoveFile`. `Attach`
checks the alt text before, and `OwnerWrite` writes after; `Edit` is an update that
writes back the asset it has read. `Script*` is `reprocess-media.mjs`.

### Deployment

A process is a run of the migrations or a server, with the key its environment gives
it. A run is `MigrateStart` (reads the files), `MigrateLock`, `MigrateRead`,
`MigrateVerify` (checksums), `MigrateKey`, and for each pending file `MigrateApply` and
`MigrateInsert`, then `MigrateRecord` (the key's check value). DDL commits at once, so
`Stop` after it leaves its effect and no record. `Content` is what is run: of an SQL file
what `MigrateStart` read, of a module (`.mjs`) what is on disk when it is imported;
`Checksum` is always of what was read. `EditFile` changes a file at any moment. A server
is `BootStart`, `BootCheck`, `BootRecord`, `BootAdmin`, `BootCreate`, and then serves:
`StorePassword` is a PUT of the mail settings with a password, encrypted with its key.

### MailSettings

`settings` is the one row of `mail_settings`: the columns a transport is built from, and
`updated_at`. `put` are the calls of `update()`: `LoadPut` (the entity, with the body
over it), `ComparePut` (`save()` reads the row again and keeps the columns that differ;
`updated_at` differs if the entity is stale, and is then written back), `WritePut`,
`Invalidate`, and `FailPut` where a statement fails or its answer is lost. `mail` are
sends: `ReadSettings` and `UseTransport` (`getTransporter` compares `updated_at`), and
for a test mail `RecordTest`. `transport` is the field of each server. An
UPDATE without `updated_at` gives the row the time (`StampedRow`), which is a new tick or
that of the write before.

### PublicSite

`db` is a record of nineteen tables; a row keeps the columns that decide where it is
shown, and `text` for the others. Every public handler is an operator that computes
its answer from them, every admin write an action that commits tables and owes the
purges of the tags the code lists. `Read`, `Store`, `Drop`, `Purge` and `Emptied` are
the cache as far as it matters here. `IsPubliclyReadable` is the query that opens a
file to everybody. A write is one transaction; what interleaves inside the writes is
in `Redirects`, `OrgTree`, `Licences` and `ResponseCache`.

## 3. What the properties say

**StaffAccounts.** `AdminCover`: an active admin is always left, whatever demotions,
disables and deletes overlap. `OnlyAdminReenables`: a disabled account becomes active
only in the commit of an update that asks for it — not by an old invitation, an old
reset link or a login in flight. `NewestUseVoidsOlder`: no link that can be used was
issued before the last use of a link of that account. `PasswordNeverReverts`: no
handler writes an old hash back. `EveryWaitEnds`: handlers that wait for locks do so for
one that can go on, or in a cycle the database breaks; an ended handler keeps no lock.
`NothingOutlivesTheAccount` (proved only): a deleted account leaves no session and no
link, those being inserted included.

**LoginLimits.** `GuessesLeadToLock` (overlapping wrong passwords are all counted: so
many of them lock the account), `BackoffDoubles` (the next lock is twice as long, up to
the limit), `LockEnds` (however sign-ins hammer an account, again and again there is a
moment at which the right password gets in).

**ResponseCache.** `PurgeIsFinal`, `StaleOnlyDuringWrite` (an entry is behind the
database only between a commit and its purge, or after a write that failed between
them), `EveryEntryFiled` (every entry is found through each of its tags),
`ImplementsContract` (refinement), `Converges` (once writes stop, what is cached
equals the database).

**MailQueue.** `LogTellsDelivery` (while no admin intervenes, a mail was accepted
exactly as often as the log says, plus the acceptances whose answer was lost, whose
UPDATE failed or which a crash took: attempts of a mail do not overlap by themselves),
`ContentExpires` (rendered content is stored only for a mail that may still be
attempted), `RetriesEnd` (the retries of a mail end, unless attempts of this very mail go
on throwing; section 5 has the mail of which they do); `ScheduledHasTriesLeft` (proved
only: a scheduled row has tries left, also after attempts that overlapped).

**Licences.** `AtMostOnePrimary`, `SettingsFollowWrites` (the settings show the primary
published licence's number after every licence write, until the settings screen
overwrites it).

**OrgTree.** `GuardIsExact` (on every reachable chart the guard accepts exactly the
parents that leave a chart: no cycle, no missing parent, at most `MaxDepth` levels),
`MovesKeepChart` (every step but a stale publish keeps a chart a chart); `ReferencesHold`
(proved only: no position reports to one that is gone and no member has one that is
gone, whatever overlaps, publishes included).

**Redirects.** `OldAddressesLead` (the address a published post gave up leads to its
present one in one hop, through any later renames, of this and other posts),
`OnlyStaleChecksChain` (redirects never chain, except by a hand-made one whose handler
ends after the redirects it had looked at changed), `LivePathsStayFree` (a post comes to be hidden
behind a redirect in three ways only: one made by hand, the save of an entity another
request overtook, a create that has not cleared its path).

**Media.** `RowsHaveFiles` (a row never points at files that are not there),
`NoStrayFiles` (whatever fails or races, a file belongs to a row or to a request that
has still to delete it, but for those known to be lost to a fault), `ShownIsComplete`
(what a row shows exists, with its file and, for an image, its alternative text).

**Messages.** `RemovedLeavesNothing` (a removal on its own leaves no row, reply,
testimonial or mail of the message), `ReplyLinksItsMail` (a reply is linked to a reply's
mail of its message, none older than its own), `OutcomeKept` (a reply whose linked mail
was purged says how that mail ended), `ArchivedStaysArchived` (only a request that had
read the message before it was archived brings it back).

**Newsletter.** `ActiveOnlyByLink` (double opt-in), `ConfirmationKept` (a new request
for a confirmed address leaves it alone unless it had found the row before it counted).

**Deployment.** `RecordedIsApplied` (a recorded migration has been run to its end with
the recorded content, and none twice; a module edited while a run that had read it might
yet apply it is excepted), `PasswordReadable` (the stored mail password can be read with
the database's key and by every server).

**MailSettings.** `SendsUseCurrentSettings` (on every server, the transport of a send is
made from the settings it has just read, though only one server is told to invalidate,
and saves, results of tests and sends overlap), unless the row was given their
`updated_at` a second time.

**PublicSite** (proved only). `ServedIsCurrent` (a cached answer that the tables no
longer give is still to be purged: no write forgets a tag), `FilesFollowPages` (a file
is open to everybody exactly while a public page shows it).

Each exception named in a property (`revived`, `strays`, `uncopied`, `broken`, ...) is a
behaviour of the code that section 5 describes.

## 4. Runs

State counts are distinct states after symmetry reduction.

| Run | Instance | Shows |
|---|---|---|
| `staff_accounts` | three requests; two admins and an account to invite; six bodies of PATCH (472 211 states) | the properties of StaffAccounts |
| `login_limits` | three sign-ins; two attempts a window, three failures a lock, locks of 1, 2 and 4, decay after 5 (428 662) | the properties of LoginLimits |
| `response_cache` | one reader, two writers, two pages and a memo under two tags, room for one page and one memo, two writes to a tag, one admin purge, one clear, any number of restarts (732 956) | the safety properties, the refinement, `Converges` |
| `mail_queue` | two mails, room for the content of one, one retry, one admin's retry, one UPDATE that fails after `sendMail`, one crash; lost answers and other throws without bound (1 473 171) | the properties of MailQueue |
| `licences` | two licences, two numbers, two editors without bound on their writes, one settings screen (292 323) | the properties of Licences |
| `org_tree` | four positions, three levels, two editors, one publisher, one member (108 707) | the properties of OrgTree |
| `org_tree_publish` | three positions, two levels | the finding of section 5 |
| `redirects` | two posts with every choice of first slugs, three paths, three redirects, two requests on posts and one on redirects, three requests in all and any number of deletes (453 606) | the properties of Redirects |
| `media` | two ids, an image and a PDF, one owner, two requests at once, six in all, the script (250 654) | the properties of Media |
| `messages` | one message, three requests at once and in all, three mails, one job over and over (1 846 196) | the properties of Messages |
| `newsletter` | one address, three requests to subscribe, two rows (691 047) | the properties of Newsletter |
| `deployment` | two processes started three times, two keys, three migrations: a data module, the SQL file with the key's column, a module that is DDL; and two servers, two PUTs at a time and in all, one mail at a time, a host and a password, one test result, one write in the tick of another, any number of sends, failures and restarts (3 511 190) | the properties of Deployment and of MailSettings |

The two modules of `deployment` share no state: `MCDeployment` has behaviours that take
the steps of the one and behaviours that take the steps of the other.

Why the bounds are enough.

* *StaffAccounts.* Every hazard listed needs at most three handlers: two that race and
  one that prepared the state (issued a link, demoted an admin). Two admins are the
  smallest number from which none can be left, and the third account goes through
  invitation, activation, disabling and deletion. The bodies are each single field and
  one combination that both demotes and disables. Requests end, so the run may stop.
* *LoginLimits.* Three sign-ins are let in past a limit of two when the count is reset
  or lost between them, and three failures in flight at once reach the threshold
  together. Locks of 1, 2 and 4 are the first, a doubled and the capped one; the decay
  is longer than the longest lock, as in the code. The constants keep these relations
  and not the code's minutes.
* *ResponseCache.* Two writes per tag separate an old, a newer and a current version; a
  second writer purges between the other's commit and purge. Two tags, one shared by
  all routes, are what it takes for a purge of one tag to leave the key filed under
  another; room for one page makes every second fill an eviction.
* *MailQueue.* One retry gives a first attempt, which schedules another, and a last one,
  which does not; those between are like the first. Two mails with room for one reach the
  eviction. One admin's retry, one failing UPDATE and one crash can fall between any two
  steps; answers are lost and transports throw at any attempt. The safety properties
  were also checked with two retries (7 339 294 states).
* *Licences.* Two licences are the smallest number of which two can be primary; the
  editors start over without bound.
* *OrgTree.* Three levels of four positions contain every shape the guard tells apart: a
  chain at the limit, a subtree of two levels moved under a position of level two, a
  cycle through three. Ids are not handed out twice, as by AUTO_INCREMENT.
* *Redirects.* Three paths hold a chain A, B, C and a rename back; three requests are a
  rename that prepares, and two that race, or three renames in a row. Ids of rows are
  handed out again only when no row and no request has them.
* *Media.* Two ids hold two identical uploads that race, or an asset removed and uploaded
  again; six requests are an upload, an alt text and an attachment that prepare, and
  three more, of which two race.
* *Messages.* Requests on different messages share nothing but the job, which treats rows
  one by one. Three requests race, or one prepares and two race; three mails are the two of a submission
  and one reply's, or those of three replies to a message there from earlier on.
* *Newsletter.* Addresses share nothing. Three requests at once are restarted without
  bound; the second row is the one after a delete or a purge.
* *Deployment.* Two processes race, and a third start comes after both, or after a stop.
  Of three migrations one is SQL, one a module without DDL and one a module with it, so
  that content, effect and record come from each place they can come from.
* *MailSettings.* Two PUTs are a save and the one it overtakes, on one server or two; a
  test result is a writer of another kind. The second server is the one that nobody
  tells to invalidate. The password is the column that an entity has only if it is
  given, the host the one without which there is no transport.

In each `.cfg`, symmetry is used only where all properties are safety.
`CHECK_DEADLOCK FALSE` is set where the instance really stops: requests that are all
handled (StaffAccounts, Redirects), mails that are all settled (MailQueue), processes
that have all been started and stopped (Deployment).

### Fairness

Safety needs none. `ResponseCache!Fairness`: queries are answered and callbacks run
(weak fairness of a reader's next step and of a writer's `WritePurge \/ WriteFail` —
either, so a purge is never assumed to happen), and an entry past its ttl is gone
(`Expire`), which is what `lru-cache` with `ttl` does at the next access. `MailQueue!Fairness`:
statements and SMTP calls return one way or the other (the pool and nodemailer time
out), `next_retry_at` passes, and the `@Interval` keeps firing. That `getTransporter` ever
succeeds is not assumed. `LoginLimits!LLLiveSpec`:
time passes (weak fairness of `Tick`), and nothing of the sign-ins. Nothing is assumed
about success, about admins, or about crashes not happening up to the bound.

## 5. Findings

`org_tree_publish` finds a behaviour that contradicts what the repository says. The
chart's `publish` is the generic handler, which saves the parent it read without lock
or guard; overlapping two moves it makes a cycle (`crud.factory.ts:394`), while
`org-position.entity.ts:10` promises an acyclic tree "on every write".

The other disagreements met while modelling are kept out of the properties by a named
exception, or are stated by a property that no run checks. Each can be seen by dropping
the exception or adding the property to its `.cfg`.

*Accounts.*
- An invited account that is disabled and then enabled is active although nobody
  accepted the invitation: `update` refuses `active` only while the status is `invited`
  (`users.service.ts:136`; `ActiveOnlyByAcceptance`).
- `sendPasswordReset` finds the account and saves the link in two statements; a disable
  or an address change that commits in between does not see the link, which stays usable
  later (`auth.service.ts:313`, against `users.service.ts:160`;
  `LinkDiesWithDisableOrAddress`).

*Mail.*
- A row still `queued` when the process stops is never attempted again by itself: the
  sweep selects failed rows (`mail.service.ts:250`, against `:34`, "a retry survives a
  process restart"; `StoredMailIsDeliverable`, with three retries and no other fault).
- `getTransporter` throws on a wrong key or a damaged password. The attempt then ends in
  the outer catch (`mail.service.ts:201`), which changes neither `attempts` nor
  `next_retry_at`: a row that is due stays due, and the sweep attempts it every 30
  seconds without end. FR-E-09 (`:14`) is three retries, and such a delivery is said to
  "log and stop" (`:134`). `RetriesAlwaysEnd` is violated with one mail and no fault but
  this one. `RetriesEnd` says how far it goes: retries end once the throwing stops, and
  mails whose own attempts do not throw are not held up.
- A PUT of the mail settings that another save or a test result overtook finds
  `updated_at` different and writes its old one back, with new content
  (`mail-settings.service.ts:44`; `reused`). Another server that has a transport for that
  `updated_at` keeps it, although "a changed host/port/password takes effect on the very
  next send" (`mail-transport.service.ts:20`; `NextSendIsCurrent`, violated without test
  results and without two writes in a tick). Two writes in one tick do the same. A server
  has left the exception when it has dropped its transport and the rows its sends have
  read.

*Licences, content.*
- `PUT admin/settings` saves the row it read and with it an old licence number
  (`site-settings.controller.ts:51`; `overwritten`).
- As in the chart, any update in flight publishes again what was unpublished in between.
- `crud.factory.ts:462` makes redirects "only for a row that was already published (an
  unpublished row's URL was never live)". A post that was published, renamed, unpublished
  and renamed again had live addresses, and its oldest one then leads to an address that
  nothing has: `OldAddressesLead` promises nothing for such posts (`astray`).
- A post whose creation commits and whose clearing of redirects fails is never purged: it
  does not appear until the ttl of the lists (`crud.factory.ts:328`; `lost`).

*Messages, newsletter.*
- A view or a reply in flight turns an archived message into a read one, although the
  comment says it "never downgrades" it (`messages.service.ts:109`; the exception of
  `ArchivedStaysArchived`). The same stale save inserts a message that was removed
  meanwhile, and a handler in flight logs mail about one (`:223`; `erased` counts only
  removals that no other request overlapped).
- The look-up of a reply's `mail_log` row takes the newest: with two replies at once, or
  a send that logged nothing, a reply is linked to another one's mail (`:141`). A reply
  whose mail the removal of its message deleted meanwhile is linked to none, and where a
  stale save has inserted the message again it stays there without one
  (`OutcomeKept` is about replies that were linked).
- A mail that turns 90 days old between the copy of the outcomes and the purge, or whose
  copy failed that night, loses its outcome (`maintenance.service.ts:104`; `uncopied`).
- The purge of sign-ups "never confirmed for 30 days" counts from `created_at`, so a row
  that was subscribed again today goes although its link is valid
  (`maintenance.service.ts:126`, against `:23`; `ConfirmableRowsStay`).

*Media.*
- The save of an alternative text inserts an asset that was removed meanwhile, without
  files; later uploads of the same bytes are told they exist (`media.service.ts:298`;
  `revived`).
- A put that fails half-way leaves a partial file that is not cleaned up; a reprocessing
  that overlaps a removal writes files nobody owns (`strays`).
- `reprocess-media.mjs:81` changes sizes that public pages show and purges nothing.

*Deployment.*
- Two processes with different keys that start while none is stored both pass the check
  (`mixed`).
- A `.mjs` migration is imported when it is applied (`migrate.mjs:239`), its checksum is of
  what was read before the lock was waited for (`:111`). Edited in between, one content is
  run and the other's checksum recorded, while `:84` says that it is "checksummed and run
  [...] exactly like a `.sql` file" (`late`; `ModulesRunAsRecorded`, with one run).
- The DDL of a run that stopped before recording it is run again by the next (`broken`).

Attempts at a proof have corrected properties and definitions that the runs accepted on
their small instances. `OutcomeKept` said nothing of the insert after a stale save, which
needs three requests at once. `OnlyStaleChecksChain` compared the redirects a handler had
read with the present ones, and so took a table that was changed and changed back for an
unchanged one; `stale` remembers that it changed. No property of `Media` said that two
rows never have the same content: the save of an alternative text inserts a row as well as
an upload, and both must keep the unique key. The refusals of `CheckParent` were the cases
of a CASE whose conditions overlap, which leaves open which one is given; they are now in
the order of the early returns.

## 6. Proofs

The theorems hold for every value of the constants that satisfies the named assumption
of the module (`ConstantsAssumption`, `CacheConstants`, `MailConstants`,
`LicenceConstants`, `LimitConstants`, `DeploymentConstants`, `MailSettingsConstants`,
`NewsletterConstants`, `MessageConstants`, `RedirectConstants`, `MediaConstants`,
`OrgConstants`); each
says no more than that the model values are distinct, sets of ids have the right type
(mails and positions are finitely many) and the bounds are numbers. They bound nothing:
any number of requests, rows and repetitions is meant. `CapBeforeExponent` of
`LoginLimits` relates two constants of the code: 60 minutes are less than 15 doubled six
times. `PublicSite` assumes nothing.

**Accounts_proofs**, of StaffAccounts — `TypeCorrect`, `AdminAlwaysLeft`,
`UsedLinksVoidOlder`, `AccountsTakeTheirRows`, `DisabledUntilAdminEnables`,
`PasswordsOnlyAdvance`, `WaitsAreEnded`.
`AdminCover` is not inductive: a demotion that was checked may be written after other
steps. `CoverInv` adds what makes the check still true at the write: a transaction past
`TxLock` holds the row of every admin there is (`TxHoldsAdminRow`), hence at most one
such transaction is past it (`OneTx`); a request that spends a link holds its account's
row (`SpenderHoldsUser`), so no account changes status in between; and a checked write
that takes cover leaves another active admin (`CheckedLeavesCover`). `WellFormed` and
`StageOps` tie a request's stage to its operation and target. The proof has one step per
action; the ones that matter are `TxLock`, `TxCheck`, `UpdateWrite`, `RemoveWrite`,
`InviteCreate` (a new admin row that no transaction locked) and `ConsumeCommit`.
`RowsInv` is the invariant of the links: rows name accounts that exist, and a request
that spends a link holds it unused (`LinkHeld`), so two requests never spend the same
one. The action properties follow from the two.
`WaitsAreEnded` says that handlers never all wait without a deadlock the database finds,
whatever their number. `LocksHeld` ties locks to stages: every lock has a holder that got
past taking it and has not ended, a handler past `TxLock` or `ConsumeLockUser` holds its
account's row, a link it holds is of that account, and a handler issues its own link with
its last statement. A blocked holder of an account can then only wait for a link of that
account; who holds the link has not got the account's row, waits for it, and the two are
the cycle (`HolderIsInCycle`). With no holder of an account blocked, or none at all, some
handler finds every row free.

Of LoginLimits — `LimitsTypeCorrect`, `EveryGuessCounts`, `LocksDouble`. The UPDATE
counts by itself, whatever the sign-in has read: the column is never behind the guesses
(`CountFollows`), and the last lock is the one `lock_count` stands for, its end
`locked_until` (`LastLockFollows`). Both are preserved by `Tick`, which moves all times
together.

**ResponseCache_proofs** — `PurgesAreFinal`, `StalenessIsOwed`, `EntriesAreFiled`,
`CacheImplementsContract`. The invariant joins `EveryEntryFiled` and `IndexSound` (so
that a purge through the index reaches every entry) with `ReadersSound`: a reader whose
snapshot is still current has read nothing older than the last purge of its tags. It is
what makes `MayStore` enough; `EntriesSound` is the same of entries and
`WritesTracked` says that a tag whose data moved since its last purge is owed a purge by
a writer or is `missed`. Each step then maps to a step of `CacheContract` or a stutter.

**MailQueue_proofs** — `ContentIsNotKept`, `RetriesAreCounted`, `LogIsTrue`. `Inv` is
what holds of each row (`RowsSound`) and of each attempt (`AttemptsSound`: what it read
of its row is a state the row was in). `LogIsTrue` needs in addition that, while no
admin has intervened, a mail has one attempt at a time (`Alone`): the sweep only starts
a mail whose first attempt has recorded its failure. An acceptance whose answer is lost
is counted at once in `delivered` and in `lost`, so the attempts after it start even.

**AdminWrites_proofs**, of Redirects — `RedirectsTypeCorrect`, `OldAddressesAreLed`,
`ChainsAreStale`, `LivePathsAreFree`. `OldAddressesLead` says nothing of a post that goes
on from there, so the invariant also has that an old address is not its post's present
one (`Promises`), that no two posts have a slug between them, those being written included
(`UniqueSlugs`, with the row and the index locks of open transactions), and that a request
on redirects that is not `stale` would make no chain of the redirects as they are
(`AllVetted`). The effect of one rename on the table of redirects is a set of lemmas on
`Renamed`: what it makes, what it repoints, what it leaves alone, and that of a table
without chains it makes one without (`RenameMakesNoChain`). The two action properties
follow from the invariant and these lemmas.

Of Licences — `LicencesTypeCorrect`, `OnlyOnePrimary`, `WritesAreFollowed`. The settings
row's lock makes licence writes exclusive (`OneWriter`), so what an open transaction found
is still so at its commit (`FoundIsCurrent`).

Of Media — `MediaTypeCorrect`, `RowsKeepTheirFiles`, `NoFileIsForgotten`,
`ShownAssetsAreComplete`. The three are proved as one invariant, `MDInv`, because each
needs the others. What a request has in hand is `RequestFits`: the id of an upload is its
own and the files it has written are there (`UploadIsNew`, `UploadInOrder`); a removal
that is about to delete a row knows all its files (`RemoveKnowsParts`), and its row does
not come back but by the save of an alternative text (`RemovedIsGone`, `revived`); an
asset on its way to an owner is fit to be shown for as long as its row is there
(`WriteIsReady`), and a row that is gone is refused by the foreign key.

**Contact_proofs**, of Messages — `TypeCorrect`, `RemovalIsComplete`, `RepliesAreLinked`,
`OutcomesAreKept`, `ArchivedIsKept`. The rows of `mail_log` age in the order in which they
were written (`MailOrder`), so the mail that a request found, which is none older than its
own, is not purged before it. `ReqSound` is what a request knows of its message and its
mail, `RowSound` what a reply's row remembers: the mail it was first linked to, or none
once that was deleted, and, from the nightly copy to the purge after it, how a mail ended
that the purge is about to take. `Gone` says that nothing mentions a message of `erased`,
no request in flight included.

Of Newsletter — `SubscribersTypeCorrect`, `SubscribedByLink`, `ConfirmationIsKept`. A
request under way had not found its address subscribed (`FoundInactive`), so of its
save only the columns that differ can matter; every other step is a statement whose
condition says what it changes.

**OrgTree_proofs** — `GuardDecides`, `OrgTypeCorrect`, `GuardIsAlwaysExact`,
`MovesAlwaysKeepChart`, `ReferencesAlwaysHold`. `GuardDecides` is about the algorithm
alone: of any chart, of any size and depth, `checkParent` accepts exactly the parents that
leave a chart. The walks are recursive functions of the number of steps taken. The library
states induction over numbers for a property that is a parameter, which the provers here
cannot instantiate; `UpTo` states it of a *set* of step numbers instead, from the fact
that a set of numbers has a least element (`Least`). With it, `WalkIs` unfolds a walk, a
chart is one whose positions have levels that go up by one from parent to child
(`ChartHasLevels`), no more of them than there are positions (`LevelsFit`), the upward
walk measures the level of the parent (`DepthIsLevel`) and finds the position exactly if
the parent is below it, and the downward walk counts the levels of the subtree
(`SubtreeIs`, `BelowIs`, `SubtreeDepthIs`). A move that fits then gives a new chart with
new levels (`FittingMoveKeepsChart`), and a new chart says that the move fitted
(`LevelsAfterMove`). For the concurrent part, `TreeIsHeld`: who is about to write holds
the table, the rows it read are the rows there are, and no removal has a row locked.

**Deployment_proofs**, of Deployment — `TypeCorrect`, `MigrationsRunOnce`,
`PasswordCanBeRead`. One run is past the lock (`LockHeld`), so what it read of
`schema_migrations` stays what is recorded, and DDL that is not recorded has not been
run unless that run is about to record it or another has stopped (`FilesSound`). A run
knows the files it may yet apply as they are on disk, but for those of `late`
(`DiskKnown`), so a module it imports is the one it read. All that have passed the check
of the key have the same one, and it is the stored one if any is stored (`KeysAgree`,
`ColumnKept`).

Of MailSettings — `MailSettingsTypeCorrect`, `SendsAreCurrent`. A transport and a row that
a mail has read agree with each other and with the row of the table wherever their
`updated_at` is the same, unless the server has it in `reused` (`CopiesAgree`), and no
`updated_at` in the table, in a server or in an entity is later than the clock
(`StampsArePast`), so a new tick is nobody's.

**PublicSite_proofs** — `TypeCorrect`, `ServesCurrent`, `FilesAreThoseOfPages`. That no
tag is missing is two lemmas per route: its answer depends only on the tables it reads
(`AnswerReads`), and the tags of each write cover every route that reads a table it
changes (`Covers`). `FilesAreThoseOfPages` goes both ways: what the query lets through
some page shows (`ReadableIsShown`), and what a page shows the query lets through
(`ShownIsReadable`).

Only model-checked: the three liveness properties (`Converges`, `RetriesEnd`, `LockEnds`),
which rest on fairness and so on ENABLED, out of the provers' reach. Every other property
that a run checks and that holds is stated by a theorem.

## 7. Not modelled, and the plan

Left out inside the modelled components: expiry of sessions and links (an expired one is
one that is no longer used, which every behaviour includes), audit rows and names; of the
CRUD kernel, the rules and warnings of publishing, which only narrow what is written; of
public reads, paging, search and previews, which are never stored; of the migration
runner, `--status` and the development fixtures; of retention, the deletes of dead
sessions and spent links, which no handler can use any more.

Not modelled: background work and shutdown (a set of promises that is awaited; what a stop
in the middle of them does is the `Crash` of each component), the audit log (append-only,
nothing reads it back), the HTTP pipeline, configuration, health and the storage drivers
(stateless, or pure I/O), and the seeding, smoke and development tools.

Next, in this order:

1. `Messages` composed with `MailQueue`, so that the outcome a reply keeps is the one
   the attempts recorded, retries included: `Deliver` of the one as a refinement of the
   attempts of the other;
2. `Redirects` for the other collections whose slugs are addresses, all of them writing
   one table of redirects, with the rules of publishing;
3. an abstract specification of the accounts (who may sign in, and with what), and
   `StaffAccounts` shown to implement it;
4. shutdown: which of the promises in flight are still carried out, and which are lost.
