# Formal models of vanilla-api

TLA+ models of the vanilla API: a Go server (gin, database/sql, PostgreSQL)
with which the staff of organizations edit the menus of their restaurants, and
from which customers read the published menu. The models are translated from
the code under `src/`; `PROJECT.json` gives the lines of every definition.
`sqldb.go` below is `src/internal/sdk/sqldb/sqldb.go`, and `00000n` the migration
of that number beside it.

| Module | Subject | Checked by | Proofs |
|---|---|---|---|
| `SnapshotRefresh` | how concurrent edits publish the menu | `MCSnapshotRefresh`, 4 runs | `SnapshotRefreshProofs` |
| `EditedMenus` | abstract: what overlapping edits promise | `EditedSpec` of `SnapshotRefresh` | `EditedMenusProofs` |
| `MenuContent` | the tables behind the menu, every admin edit | `MCMenuContent`, 2 runs | `MenuContentProofs` |
| `PublicMenu` | abstract: what is promised about public menus | `PublicSpec` of `MenuContent` | `PublicMenuProofs` |
| `Sessions` | accounts, refresh tokens, password resets | `MCSessions`, 3 runs | `SessionsProofs` |
| `SessionLife` | abstract: the life of a session | `LifeSpec` of `Sessions` | `SessionsProofs` |
| `AdminAccess` | roles, role claims, organizations, memberships | `MCAdminAccess`, 1 run | `AdminAccessProofs` |
| `Service` | connection pool, answers, readiness, shutdown | `MCService`, 1 run | `ServiceProofs` |
| `Publication` | migrations over a database in use, cached readers | `MCPublication`, 1 run | `PublicationProofs` |

To check a run: `tlc -config SnapshotOverlap.cfg MCSnapshotRefresh`. To check
proofs: `tlapm SnapshotRefreshProofs.tla`, and so on (one to three minutes each).
No module needs another's constants: the components meet in database rows, and
section 2 says at each module what it takes from the others.

## 1. The system

### Components, state, operations

**Menu content** (`handlers_admin.go`, `sqldb.go`, `000002`, `000005`, `000006`).
Tables of restaurants, business and special hours, daily specials, menus, menu
sections, menu entries, catalog items, allergens of an organization,
assignments of allergens to items, menu schedules, ingredients. Operations:
create, update, delete of each, addressed by the path
`/organizations/:o/restaurants/:r/menus/:m/sections/:s/entries/:e`. Every
statement joins the whole path, foreign keys carry the restaurant's id along,
deletions cascade or are restricted. *Correct if* no row ever hangs under a
parent of another restaurant, no request reaches another organization's rows,
and no legal sequence of requests leaves a dangling row.

**Public menu snapshots** (`000001`, `000005`, `000006`). One row per
restaurant with the whole menu as a JSON document, rebuilt by AFTER ROW
triggers in the transaction of the edit: `build_public_menu_payload` (head:
restaurant, hours, specials), then a second query for menus, sections, entries,
items and allergens, then an upsert. *Correct if* the document is that of
the tables, is never one that was not committed, and every edit ends.

**Accounts, refresh tokens, password resets** (`handlers_auth.go`,
`handlers_user.go`, `sqldb.go`). Registration and login issue a pair of tokens;
a refresh rotates the refresh token (retire the old, insert the new); the
replay of a retired token deletes all tokens of the user; a password can be
changed, or reset with an e-mailed token, either of which deletes all
tokens. *Correct if* a session never forks, a reset token works once, what
should end all sessions does, and nobody waits for ever.

**Organizations, memberships, roles** (`handlers_admin.go`,
`middleware/membership.go`, `middleware/admin.go`). Who may administer what;
read when a request comes in. *Correct if* a mutation is made by a member
and an organization is not left without one.

**Public reader** (`GET /public/restaurants/:id/menu`, `routes.go`). Serves the
snapshot row of an active restaurant with an entity tag, Last-Modified and
caching headers. *Correct if* a client that revalidates ends with the current
menu.

**Connection pool, lifecycle, migrations** (`sqldb.go`, `cmd/api/main.go`,
`Makefile`). 25 connections; on a signal 5 seconds for the requests in
progress; `make migrate` runs every file again, in order.

**Stateless or outside**: JWT signing, HTTP middleware, QR codes and short
links (one call to an outside service), object storage (called by nothing),
configuration, errors, observability.

### How they interact

A request passes the middleware, which reads the role claim and the membership,
into a handler, which calls one or more methods of `sqldb`; each is a
statement or a transaction. A statement on a menu table fires triggers; the
triggers write the snapshot row; the public handler reads that row. Handlers
share nothing else in memory: all interaction is through rows, and all waiting
is for row locks (or for a connection of the pool).

### What is hard

`PROJECT.json` lists the hazards with their lines. In short: two edits whose
transactions overlap build their documents from different views of the
tables; the row locks of entries and snapshots are taken in different orders by
different operations; a table or a cascade without a trigger would leave a menu
stale for good; a DELETE of a user's tokens does not see a token that is
about to be committed; several requests present one token; what a request read
is stale when it writes.

## 2. The modules

### SnapshotRefresh: concurrent edits

A transaction of `Txs` picks one operation and runs it at READ COMMITTED. A row
is a slot of a table of a restaurant (or an allergen of the organization) and
its value is the transaction that last wrote it: the properties ask which edits
a document shows, not what they say. An operation is a sequence of batches, and
a batch is what one statement writes and locks before its triggers run, as a
sequence of demands: "update", "rekey" and "delete" write a row and lock it, the
last two also against foreign keys; "share" is the KEY SHARE lock a new or
re-pointed row takes on the row it names; "check" is the look of a RESTRICT key
for rows that still name a deleted one, which waits for a transaction that is
deleting such a row or pointing it elsewhere. Thus for a section, the cascade
to entries comes before the trigger of the section; for a menu, the entries go
only after the menu's refresh (the cascades of the cascade are queued behind
it); an item is one statement, the DELETE of its assignments a second, and every
assignment inserted one more, each with its own triggers.

| Variable | Code |
|---|---|
| `db`, `snap` | committed rows; committed rows of `public_menu_snapshots` |
| `op` | the operation, and the restaurants it concerns |
| `pc`, `todo` | where the transaction is, what it has still to write and lock |
| `uses` | the allergens given so far (`replaceCatalogItemAllergens`) |
| `wrote`, `keys`, `shares` | its uncommitted rows, which it has locked; those of them locked against foreign keys; its KEY SHARE locks |
| `mine` | its uncommitted snapshot rows, which it has locked |
| `fired`, `loop`, `cur`, `head`, `menus` | queued triggers; the trigger's loop; the document under construction |
| `overtaken`, `raced` | history, for `StaleOnlyByOverlap` |

`Begin` opens the transaction; a statement is `WriteRow`, `ShareKey` and
`PassCheck` (or `Refuse`: the allergen is in use) in the order of its demands,
then for each queued trigger `FireTrigger`, and for each restaurant of it
`BuildHead`, `BuildMenus`, `Upsert`, then `EndStatement`. `Rollback` may come at
any step (an error, a cancelled request, a lost connection), `DeadlockVictim` is
the server's detector, which ends any circle of waits.

Properties: `OnlyCommittedPublished`; `EditPublishesItself` (a commit makes its
own rows public in the same instant; an allergen's row only for restaurants that
nobody else edited meanwhile: the assignment may be gone when the refresh reads
and back at the commit); `StaleOnlyByOverlap` (a stale menu is always the work
of overlapping edits, and an edit that runs alone repairs it);
`SnapshotRowLast` (a request that waits for another while it holds a snapshot
row, so that all edits of that restaurant queue up behind it, writes an item,
deletes a menu or edits an allergen: every other one takes the snapshot row when
it has all its other locks); `EveryEditEnds`; `EditedSpec`.

Requests do wait in circles, and `SnapshotRowLast` does not say that they don't.
Some circles pass through a snapshot row: two edits of allergens that
refresh the same restaurants in opposite orders, or one that waits for the
second restaurant's, whose holder wants KEY SHARE on the allergen; the deletion
of a menu, whose last cascade wants entries, and an edit of one of them; an item
that has dropped its assignments and wants KEY SHARE on an allergen, and the
deletion of that allergen, which waits to know whether the dropped assignment
names it.
Others do not: two entries pointed at each other's items while both items are
being deleted. `EveryEditEnds` therefore rests on the detector.

`EditedMenus` is the abstract specification: an edit starts, concerns one
restaurant or all of them, and either finishes in one step or is given up in one
that changes nothing. When it finishes, the restaurants it does not concern stay
as they are, in the tables and to customers, and those it concerns are shown as
they are, except those that another edit `crossed`: one that finished since
it began and concerned them too. The refinement takes `concerns` to be the
restaurants of a transaction's operation (`op[t].scope`), `truth` and `shown` the documents of the committed tables and
the committed snapshots, and `crossed` to be `overtaken`; it asks that
locks, batches, triggers and the loop of a refresh are invisible from outside. It
says of each single edit what `PublicMenu` says of requests one at a time.

Left out: daily specials and special hours, which the refresh treats as it
does hours (`WriteHours` stands for them); generated_at and the entity tag; menu
schedules (no trigger; they share a lock on the menu they name and hold up its
deletion); the creation of a restaurant or an allergen (nobody else sees
the row before the commit); the deletion of a restaurant, whose cascade runs over
tables whose foreign keys the migrations do not show, so that neither its order
nor its locks can be read off the repository (`MenuContent` has it, one request
at a time); two insertions that wait for each other in a unique index. To leave
out a wait only lets more interleavings happen. Which columns of the base tables
have a unique index is not in the repository either: `Indexed` names the tables
where an edit may re-key a row, and the proofs hold for any such set.

The model is coarser than the code in three places. Two let more happen: a
deleted row's slot may be written by whoever waited for it, where the code finds
no row and refuses; and which entries name an item is not recorded, so that the
deletion of an item that waited for an entry may be refused or go on. One lets
less happen: a table of a restaurant is one slot, so that two edits of
different rows of one table, creations included, wait for each other, which the
code's do not. That two edits of one restaurant overlap without a common row
lock is left to edits of different tables, to which triggers, refresh and
snapshot row are the same; no operation locks two rows of a table one after the
other but in a cascade and in replacing an item's assignments.

### MenuContent: the tables, one request at a time

`db` is a record with one function from identifiers to rows for each table,
`snap` the snapshot rows. One action is one successful admin request with its
joins as guard, its foreign keys (cascade, restrict, unique) and its triggers:
`Apply(o, d, R)` makes `d` the tables and refreshes the restaurants `R`. A
refused request changes nothing, which is why this module says nothing of a
refusal half-way through (`Rollback` in `SnapshotRefresh` does, with
`EditedSpec`). `caller` is the organization of the path, which the middleware has
authorized. `Document` is `refresh_public_menu_snapshot`
with its joins; its sorting and formatting are left out.

Properties: `ReferencesHold` (every row hangs under rows of its own
restaurant), `SnapshotFresh` (after every request the snapshot is
`Document` of the tables: triggers cover every table and every way a row can
change), `EveryAssignmentDisclosed` (the joins lose no allergen of an item that
is shown), `TenantIsolation` (an action property: the `Estate` of every other
organization, its restaurants, its allergens, all rows under its restaurants in
every table, and its snapshots, is after a request what it was before: no row
changed, none gone, none added), `PublicSpec`.

`PublicMenu` is the abstract specification: a request of organization `o`
changes what its own restaurants have to show, and what customers are shown
changes with it, in the same step. The refinement takes `truth` to be the
documents of the tables and `shown` the snapshots, so that every cascade and
every loop of a trigger has to be one step of it.

The definitions of the base tables (restaurants, hours, specials, menus, items)
are not in the repository; their keys are taken from how the statements
use them, and the deletion of a restaurant is taken to cascade. That lets more
happen than the code: an entry restricts the deletion of its item
(`000005:38-39`), so that the cascade of a restaurant that has entries may be
refused, depending on the order of keys the repository does not show.
`SnapshotFresh` here and `StaleOnlyByOverlap` in `SnapshotRefresh` fit
together: one at a time the document is exact; with overlap it can be stale
only in the way the latter says.

### Sessions: overlapping requests of accounts

`req` holds the requests in progress, each with its stage and what it has
read; between two stages the others run. The row locks follow from the stages
(`RetiredBy`, `ConsumedBy`, `WrittenBy`). An UPDATE waits for the lock and
looks at the row again (`Retire`, `ConsumeReset`); a DELETE takes the rows
committed when it starts (`StartBurn`, `StartRevocation`), waits for those who
hold one of them, and deletes what is left (`EndBurn`, `CommitPassword`). `now` is
the clock; the handler compares expiry with its own reading, the
statement with the start of its transaction (`\E began \in req[p].at .. now`).
A password is the number of changes so far. `session`, `proved`, `overlap`,
`uses` and `burned` are history.

Abstractions: a DELETE locks its rows one by one in the code, in one step at its end
here. A rotation holds one token and waits for none, so that the order makes no
difference to it; two deletions of one user's tokens at once find the rows by the
same scan in the same order, and the model takes it that they do not wait
for each other in a circle. The INSERT of a token
takes a KEY SHARE lock on the user, which an UPDATE of the password does not
exclude; the rows of usernames, roles and names are left out, and so are
maintenance methods of `sqldb` that nothing calls.

Properties: `OneLiveTokenPerSession`, `SurvivesOnlyByOverlap` (a live token of a
session that was to end was stored while the deletion ran, or by a login that
read the account before the change, or descends from such a token),
`ResetUsedOnce`, `EveryRequestEnds`, `LifeSpec`.

`SessionLife` is the abstract specification: a session is named by its first
token, holds one token at a time, exchanges it for one that was never given out,
and ends, with others of its user but of nobody else, for good. The refinement
reads it off the rows: the token of a session is its live one.

### AdminAccess: roles and memberships

`role` is `users.role`, `member` the status of a membership, `tokens` the access
tokens that carry an administrator's role. A login or refresh reads the account
(`ReadAccount`) and signs later (`IssuePair`); an admin request passes
`Authenticate` (the token's role only: `ParseAccessToken` gives id and role,
so that the organization scope of the middleware never restricts anything), then
`RequireMembership`, which reads the membership once, then the statement of
the handler. Between any two steps others come in. `setUserRole` writes the role
whatever it was, one's own and the owner's too. `CreateOrganization` inserts no
membership. `lost` and `late` are history.

Properties: `AdminClaimsFade` (a role taken away is believed for one token
lifetime, but by tokens whose issuer had read the account before),
`DesertedForGood` and `LeaderlessForGood`: what has lost its last member, or its
last administrator, gets none again by any sequence of requests, but for a
request that is past the membership check when the last member goes: it may still
write (`Deserted` sets it apart, and no property forbids it). The
two say how far the code lets it come, not that it should.

The base tables are not in the repository; the initial rows are those of
`seed-review.json`. The role of a membership is left out: nothing reads it.

### Service: one process

A handler is a sequence of sections, each of which takes a connection of the
pool and gives it back (`Work`): the public menu one read, an edit the read of
the membership and the transaction, and another read afterwards for the handlers
that read back what they wrote: `CreateMenuEntry`, `UpdateMenuEntry` and
`UpdateMenuSection` (`sqldb.go:1854`). In the transaction it waits for a row
while it keeps its connection.
A released connection goes to any of those who wait, as in `database/sql`.
`LoseCommit` is a connection that breaks after COMMIT was sent, `GiveUp` a
client that is gone, `HealthTimesOut` the second of patience of the readiness
probe, which may come again and again. `Signal`, `Tick`, `Shutdown`,
`Exit` are `run` of `main.go` (5 seconds for the requests, then
`closeResources`), `ServeFails` the listener's error, which closes without a
drain, `SecondSignal` what the log line of `main.go:52` announces. All writes
contend for one row: `SnapshotRefresh` has the locks in detail.

Properties: `PoolIsWorkConserving`, `AnswersAreTrue` (an error may hide an edit
that was stored only if the connection broke in the COMMIT or the handler reads
back), `DrainedBeforeClose`, `EveryRequestGetsThrough`, `ExitsAfterSignal`.

### Publication: migrations, and a customer behind a cache

`make migrate` runs all six files again, in order, each in a transaction.
Files 1, 3, 5 and 6 install the `refresh_public_menu_snapshot` of their time and
refresh every menu (`Refreshing`), so that the function goes back and comes
forward again (`fn`), and with it the format of the menus. The loop of the
Makefile stops at no failure (`FailFile`), its status is that of the last
file (`LoopOn`). `Blocks` says which kinds of edits the table locks of a file
keep out. An edit uses the function that is committed when its trigger
fires. One restaurant; how two edits overlap in detail is `SnapshotRefresh`.
The customer reads through a cache: `Ages`, `Serve` follow Cache-Control (60
seconds, 300 more while it revalidates), `Revalidate` is `publicMenuHandler`
with its 304. `overlap` and `raced` are history.

Properties: `SuccessInstallsNewest` (a run that reports success leaves the newest
function behind even if an earlier file failed unnoticed),
`OutdatedOnlyByOverlap` (an old format, or a lost edit, is the work of an
overlap; a run that nothing overlaps repairs all), `ItemEditsAreCurrent` (no
edit of an item publishes by an old function), `CustomerCatchesUp`.

Left out: the first run on an older schema, which takes more locks and converts
data. The kinds "hours" and "menus" are in the module and not in the instance:
hours are locked by neither 5 nor 6, as sections are not by 6, and menus only by
file 2, which installs no function.

## 3. The runs

| Run | Instance | Shows |
|---|---|---|
| `SnapshotOverlap` | 1 restaurant, 1 allergen, 3 transactions, 9 operations; 1,260,866 states | `TypeOK`, `OnlyCommittedPublished`, `StaleOnlyByOverlap`, `SnapshotRowLast`, `EditPublishesItself` |
| `SnapshotRestaurants` | 2 restaurants, 1 allergen, 2 transactions, 6 operations; 192,918 states | `SnapshotRowLast`, `EditedSpec`, `EveryEditEnds` |
| `SnapshotStale` | 2 transactions | `QuietMenuUpToDate` is violated (finding 1) |
| `SnapshotDisclosure` | 2 transactions, items and allergens | `QuietDisclosuresCurrent` is violated (finding 2) |
| `ContentDeep` | 1 restaurant, 2 sections, 2 entries, an item and an allergen, all statuses, 2 titles | `TypeOK`, `SnapshotFresh` |
| `ContentTenants` | 2 organizations, 2 restaurants, all tables, 2 items and allergens | `ReferencesHold`, `SnapshotFresh`, `EveryAssignmentDisclosed`, `TenantIsolation`, `PublicSpec` |
| `SessionsSafety` | 1 account, 3 tokens, 1 reset token, 3 requests, 2 instants | `TypeOK`, `OneLiveTokenPerSession`, `SurvivesOnlyByOverlap`, `ResetUsedOnce`, `LifeSpec` |
| `SessionsLiveness` | 1 account, 2 tokens, 1 reset token, 2 requests, 3 instants | `EveryRequestEnds` |
| `SessionsReplay` | 1 account, 3 tokens, 2 requests | `ReplayEndsEverySession` is violated (finding 3) |
| `AdminAccess` | 2 accounts, 2 organizations, 2 requests, 2 tokens, lifetime 1, 4 instants | `TypeOK`, `AdminClaimsFade`, `DesertedForGood`, `LeaderlessForGood` |
| `Service` | a reader, an editor, one that reads back, the probe; 2 connections, 1 tick of grace; 273,680 states | `TypeOK`, `PoolIsWorkConserving`, `AnswersAreTrue`, `DrainedBeforeClose`, `EveryRequestGetsThrough`, `ExitsAfterSignal` |
| `Publication` | 2 edits of 3 kinds, 1 run of the migrations; about a million states | `TypeOK`, `SuccessInstallsNewest`, `OutdatedOnlyByOverlap`, `ItemEditsAreCurrent`, `CustomerCatchesUp` |

**Bounds.** A transaction of `SnapshotRefresh` runs once, so `Txs` bounds the
number of versions. Two transactions are enough for every conflict of a
pair of operations; three for a stale menu that a third edit repairs or
inherits. `SnapshotOverlap` has every operation but `WriteHours` and `WriteMenu`,
which lock as `UpdateRestaurant` and `WriteMenuSection` do and are in
`SnapshotRestaurants`. There, two restaurants and one allergen are enough for a
circle through the allergen's loop (it holds one snapshot row and waits for the
other, whose holder writes an item and waits for the allergen) and for a circle
of an item and the allergen's deletion; an item publishes two or three times in
one transaction. Two circles come up in no run: two edits of different
allergens, which need a second one, and the swapped entries, which need four
requests. That all operations implement `EditedMenus` and keep
`SnapshotRowLast`, whatever the number of either, is proved. In
`MenuContent` the identifiers bound the rows: two sections, entries and items let
an entry be pointed at another item and a name collide, two organizations with two items and allergens make every wrong join possible. That
customers see an allergen's new title needs two titles, so that of
the two instances only `ContentDeep` renames one. In `Sessions`, three tokens
are a login and two rotations (or two sessions of which one rotates), three
requests are a replay, a rotation and a password change at the same time; `Room`
lets a request begin only if the tokens it may need are left, `MaxTime` and
`MaxChanges` bound the clock and the password changes. A second account would
share no row with the first, so one is checked; that a deletion ends
sessions of one user only rests on the proof of `ImplementsSessionLife`.
In `AdminAccess`, a lifetime of one tick and four instants let a token outlive
its role, and be issued late and outlive it again; `MaxTokens` bounds the
tokens at a time. In `Service`, four processes over two connections let two
wait at a time, one for a row and one for a connection; a tick of grace is the
difference between a shutdown that drains and one that runs out of time. In
`Publication`, two edits can overlap each other and a file; `MaxRuns`
bounds the runs, and the theorems are for any number of them.

**Symmetry** is used in the runs of invariants and action properties, never for
liveness. The identifiers that are permuted are compared only for equality.

**Deadlock checking** is off for `SnapshotRefresh` (every transaction has run
at the end), `Sessions` (tokens and resets run out), `Service` (the process
ends) and `Publication` (edits and runs are used up). It is on for
`MenuContent` and `AdminAccess`. That nobody waits for ever is the subject of the
liveness runs, not of TLC's deadlock check.

**Fairness.** `SnapshotRefresh` assumes weak fairness of each transaction's own
steps: a statement that can go on does, for the server runs it; and
among them `DeadlockVictim`, for PostgreSQL's detector aborts a transaction of a
wait cycle. No request has to arrive, and nobody has to cancel one.
`Sessions` assumes strong fairness of each request's steps: a lock may be taken
and released by others any number of times, and PostgreSQL hands it to those
who wait in the order in which they came. It has no detector:
`EveryRequestEnds` shows that none is needed.
`Service` assumes strong fairness of each handler's own steps, for the same
reason, and because a released connection is handed to one of those who
wait, so that nobody is passed over for ever; weak fairness of the main
goroutine and its timer. Nothing is assumed of arrivals, failures, signals, of
clients taking their answer (hence `ExitsAfterSignal` needs the grace period),
nor of `HandleReadiness` and `HealthTimesOut`.
`Publication` assumes that time passes (`Ages`), that a cache that may ask does,
and that the customer looks again (`Revalidate` and `Serve`, strongly, for a
copy may be fresh or expired any number of times before); nothing of edits and
migrations, which may stop half-way.

**Faulty variants.** For every property of a passing run the modules hold a
variant of an action, marked `Faulty`, with a plausible mistake (a cascade
forgotten, a row not looked at again, a trigger missing), under which the run
fails; `PROJECT.json` pairs them under `mutants`.

## 4. Findings

1. *A published menu can lack a committed edit* (`SnapshotStale`). Both of two
   overlapping edits read before either commits; the second to write waits for
   the snapshot's lock and then overwrites the document with what it had read.
   `src/README.md:11` promises "the full, up-to-date menu".
2. *A disclosure can keep the allergen's old wording* (`SnapshotDisclosure`):
   the trigger of the allergen does not find an assignment not committed
   yet. `src/README.md:14` promises clear disclosures.
3. *A rotation can outlive the answer to a replay* (`SessionsReplay`): the
   DELETE does not see the token a rotation is about to insert, against
   the comment at `handlers_auth.go:221-224`.

A lock of the restaurant's snapshot row taken before the first query of the
refresh would remove the first, and a lock of the user's row taken by
`RotateRefreshToken` and `DeleteRefreshTokensByUserID` the third.

## 5. What is proved

Every invariant and every action property of the passing runs is a theorem for
every value of the constants, and so are the three refinements. The assumptions are those the modules name: that "no
row", "no token", "no user", "no document" are not rows, tokens, users,
documents (`NoRowIsNoRow`, `NoneIsNone`, `FreshNames`), that "active" is a status
(`ActiveIsAStatus`), that "no caller" is not an organization
(`NoCallerIsNoOrg`), that the allergens are finite in number (`AllergensFinite`:
a request gives an item a list of them), that times are natural numbers
(`TimesAreNat`), that the seeded account exists (`SeedExists`), that the pool has a positive bound
(`PoolIsBounded`), that a request is of one kind (`RequestsAreOneKind`), that
edits are of the kinds that exist (`KindsExist`) and not called 0
(`ZeroIsNoEdit`).

**`SnapshotRefreshProofs`**: `TypeCorrect`, `PublishedIsCommitted`,
`StaleWasOvertaken`, `EditsPublish`. The heart of the invariant is `OK(t)`, what
a transaction is at any step: `Scoped` (it writes only what its operation
concerns), `Bounded` (it refreshes only what it has touched),
`Staged` (outside its activity it holds nothing, and with no statement left
no trigger is queued), `Reads` (the halves of the document under construction
are of committed rows and its own, and if no commit touched the restaurant
since it began, they are its present view), `Holds` (the same of what it has
written), `Owes` (an active transaction that was not overtaken at a restaurant
has either a refresh of it pending or holds exactly its view of it, or is the
deletion of an allergen that is about to be refused, `Doomed`) and `Shows`
(a row it wrote is in its document or a refresh is pending). `LocalStep` reduces
every step but the commit to `OK(t)'`, because nobody else sees it;
`CommitKeepsOthers` is the one place where transactions meet: a commit that
touches a restaurant puts it among the `overtaken` of the others, and one that
does not leaves their view of it alone (`SameDocument`, `UntouchedFacts`).

**`EditedMenusProofs`**: `SnapshotRowComesLast`, `ImplementsEditedMenus`,
`UncrossedIsUpToDate`. `LockInv` adds to the invariant above how a transaction
is paced (`Paced`): an active one whose operation is not among `LocksOn` either
has one statement left at most and no snapshot row before that statement has all
its rows (`OneStatement`), or refreshes nothing at all (`Silent`: the deletion of
an allergen); its triggers run only between two batches. And it says which
locks exclude each other (`OneHolder`): a row has one writer, a re-keyed or deleted row is not shared by
anybody else, a snapshot row has one holder. `LocksHold` is the induction,
`HoldersWait` the step from there to `SnapshotRowLast`. They hold for any number
of requests, allergens and restaurants, and so for circles that come up in no
run. TLC checked `LockInv` on the instances of both runs.

For the refinement, `ConcernFacts` says that an edit is in progress if and only
if it concerns a restaurant, `StepFrame` and `EditsStutter` that all steps
between the first and the last are invisible, `CommitPublishes` what a commit
does to a restaurant it concerns or not, overtaken or not. If there are no
restaurants at all, nothing can be seen (`NothingToEdit`).
`UncrossedIsUpToDate` turns finding 1 round: in a run in which no two edits
cross, every menu is current at every moment.

**`MenuContentProofs`**: `TypeCorrect`, `ReferencesAlwaysHold`,
`SnapshotsAlwaysFresh`, `EveryAssignmentIsDisclosed`, from
`IInv == TypeOK /\ ReferencesHold /\ SnapshotFresh`. The three need
each other: a request refreshes only the restaurant of its path, so
that the snapshots of the others stay fresh only because their documents do not
depend on the rows it writes; they do not because references never cross
restaurants. The frame lemmas `ShownFrame` and `DocumentFrame` say
which rows a document depends on; `ApplyKeeps` reduces an action to "the new
tables are typed, keep the references and look the same to all restaurants
that are not refreshed"; then there is one lemma for each action.
`EveryAssignmentDisclosed` follows from the invariant.

**`SessionsProofs`**: `TypeCorrect`, `SessionsNeverFork`, `ResetsWorkOnce`,
`DeletionsAreThorough`. The properties speak of rows; what keeps them is what
requests have read and hold, so the invariant adds: what a request refers
to exists (`RequestsGrounded`), the first token of a session exists and has its
user (`TokensSound`), a row has one holder (`OneRetirer`, `OneConsumer`), a
token held is live (`HeldIsAlive`), a reset token held is unused and its uses are
counted (`ResetsSound`), and a running deletion has seen every live token of
its user but those stored while it ran (`DeletionsSeeAll`). `RequestStep` treats
the steps that change no row, `OthersKeep` and `DeletionKeeps` the others. TLC
checked the invariant on the instance of `SessionsSafety` before it was proved.
`ImplementsSessionLife` needs besides that a session is named by a token of its
own (`Rooted`): a step that changes a row is a start, a rotation or an end, and
all others stutter.

**`PublicMenuProofs`**: `ImplementsPublicMenu` and `TenantsIsolated`, from the
invariant of `MenuContentProofs`. Each request is `Contained`: the
restaurants it refreshes are the caller's or nobody's (`Mine`), and so are, before
and after it, the rows it changes, adds or takes away in each table (`RowsStay`,
`RestaurantsStay`, `AllergensStay`). `ContainedIsolates` turns that into the
`Estate` of everybody else being the same; there is one lemma for each action. The
loop of an allergen's trigger is contained because assignments join an item with
an allergen of its owner.

**`AdminAccessProofs`**: `TypeCorrect`, `ClaimsFade`, `DesertedStays`,
`LeaderlessStays`. The invariant adds that losses lie in the past
(`LossesArePast`), that a token or a request that is not `late` says of a role
what it was when it was read (`ClaimsGrounded`, `RequestsGrounded`). The two
"for good" properties need of it only the types: one looks at every handler.

**`ServiceProofs`**: `TypeCorrect`, `PoolSafe`, `AnswersTrue`, `DrainedFirst`.
The invariant adds that the connections in use are finite in number (the
requests need not be), that only a request with work left waits or has one
(`AtWork`), that one is answered once (`Answered`), that what is stored has its
transaction behind it (`StoredSound`), and that the database is closed in
time (`ClosedInTime`).

**`PublicationProofs`**: `TypeCorrect`, `SuccessIsNewest`,
`OutdatedWasOvertaken`, `ItemEditsCurrent`. The invariant adds that a document
under way is its transaction's (`DocsSound`), of psql in its file's format
(`PsqlSound`), that what was not overtaken is current (`UnracedIsCurrent`), and
that files that install a function and edits of items keep each other out
(`ItemsKeptOut`).

**Only model-checked**: liveness (`EveryEditEnds`, `EveryRequestEnds`,
`EveryRequestGetsThrough`, `ExitsAfterSignal`, `CustomerCatchesUp`), which
TLAPS cannot do: it rests on fairness, and fairness on ENABLED. The three properties of section 4
(`QuietMenuUpToDate`, `QuietDisclosuresCurrent`, `ReplayEndsEverySession`) do not
hold and are there to be violated.

## 6. Not modelled

- Ingredients: rows of a restaurant that nothing refers to and no menu shows;
  their handlers are of the same form as those of hours.
- QR codes and short links: a read and a call to an outside service, no state.
- Object storage: called by nothing.
- Signing and parsing of tokens: a library's, apart from the claims it returns.
- Middleware that decorates requests; configuration, errors, observability.
- Validation and normalisers: pure functions of one request's text; the models
  take the inputs that pass them. Schedules are stored and deleted in
  `MenuContent`, their calendar is left out: no menu depends on it.
- Texts, prices, order and formatting of the document; Last-Modified, which may
  go back (`000006:153`) and which no answer of this program depends on.
- Maintenance methods of `sqldb` that nothing calls.

## 7. Plan

Done: the published menu under concurrent edits, the content, the sessions, the
access of administrators, the process, the migrations with the reader, the three
abstract specifications, and proofs about each of them. What would come next:

1. Ingredients as one more table of `MenuContent`.
2. The normalisers of clock ranges and schedules as pure operators against
   reference definitions.
3. The first run of the migrations: data converted by `000003` and `000005`.
