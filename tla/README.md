# Trilith in TLA+

A specification of Trilith's core (`src/core/`): what its stored state is, what every operation does
to it, and what must stay true whatever the callers, threads and restarts do. TLC checks it on small
instances; TLAPS proves the central theorems for every instance.

## 1. The system

Trilith keeps *context items* for AI agents in one SQLite file and serves them over REST and gRPC.
One process holds one connection; gateway threads share it through a lock.

| Component | Code | State | Operations | Hard part |
|---|---|---|---|---|
| Policy | `identity.py`, `privacy.py`, `ops.py:write_denial` | none | `stamp`, `explain`, `write_denial` | four places must agree on who may touch what |
| Store | `sqlite_backend.py`, `threadsafe_backend.py` | `context_items`, `derived_sources`, two triggers | save, delete, delete by scope or tenant, purge, tier read | a replacement is a deletion, and deletions cascade |
| Audit | `audit.py` | `audit_decisions` | record, erase, erase by trigger | ids must go when items go |
| Operations | `ops.py`, `procedural.py`, `episodic.py` | none of their own | write, update, delete, forget, fold, purge, assemble | several statements, one transaction, or none |
| Gateways | `rest_app.py`, `grpc_servicer.py` | a request in progress | every endpoint; PATCH and assemble span several holds of the lock | stale copies |
| Governor | `governor.py`, `retrieval.py` | none | collect, rank, pack, fill | three reads, not one snapshot; two accounts of one budget |
| Authentication | `auth.py` | `api_keys` | create, revoke, resolve | two commits, two reads, a one-way door |
| Event log | `events.py` | a ring buffer and a counter | record, since, clear | polling with a cursor |
| Runtime, CLI | `runtime.py`, `cli.py` | none | start-up purge; key and purge commands | a second process on the same file |
| Migration | `sqlite_backend.py:_init_db`, `_migrate` | the file's schema | create, add columns, backfill, rebuild | killed anywhere, by several processes at once |
| Lineage witnesses | `lineage.py` | none | `solve`, `oracle`, `assemble_witnesses` | facts that are worth something only together |

A request reaches a gateway, which resolves a `Principal` and calls an operation. The operation runs
in one savepoint under the backend's lock (`atomic_operation`), except assemble, purge and the read
half of PATCH. It calls the tier stores, which call the backend; SQLite's `AFTER DELETE` triggers
then delete what was folded from a deleted row, that row's edges and the audit rows that name it.
The operation records an audit row and an event.

What makes each part correct:

- **Policy, gateways**: no write, forget, fold, purge or delete of one tenant reaches another's rows;
  without `tenant_admin` a caller stays within what it may see; without `publish_global` nothing
  GLOBAL changes.
- **Store, operations**: a summary never outlives, out-scopes or out-knows its sources; what a
  caller forgets is nowhere any more; the audit table names nothing that is gone.
- **Transactions**: an operation and its audit row are committed together; what was acknowledged
  survives a crash; the server does not keep other processes off the file.
- **Authentication**: once a key was minted nobody runs as an anonymous administrator again; a
  revoked key opens nothing; a key, not the request, says who its bearer is.
- **Migration**: no row is lost or moved to another tenant, and whoever has the file open finds the
  schema that every query relies on.
- **Selection**: an answer stays within its budget, is never far from the best one, and leaves
  nothing out that had room.
- **Event log and console**: events are shown once, in order, to the right identity, and a console
  catches up.

## 2. Modules

| Module | Models | Extends |
|---|---|---|
| `TrilithPolicy` | principals, `stamp`, visibility, expiry, `write_denial` | |
| `TrilithStore` | the tables, both triggers, save, the deletes, the audit table | `TrilithPolicy` |
| `TrilithOps` | one action per operation of `ops.py`, and the clock | `TrilithStore` |
| `TrilithGateway` | the whole process: requests, PATCH and assemble threads, restart; all core properties | `TrilithOps` |
| `Erasure` | the abstract promise: a copy never outlives its home | |
| `TrilithConsole` | event log, `GET /v1/events`, the browser's polling loop | |
| `TrilithDatabase` | server and commands on one SQLite file: savepoints, implicit transactions, locks, crashes | |
| `TrilithAuth` | keys minted and revoked by commands while requests resolve theirs | `TrilithPolicy` |
| `TrilithMigration` | opening a file of any earlier version, statement by statement | |
| `TrilithPacking` | `pack` and the fill of an assembly's budget | |
| `TrilithWitness` | `WitnessProblem`: completions, `solve`, `oracle` | |
| `MCLineage`, `MCTenancy`, `MCConsole`, `MCDatabase`, `MCAuth`, `MCMigration`, `MCSelection` | the instances TLC checks | |
| `TrilithGatewayProofs` | lemmas about the store, theorems about the process | `TrilithGateway` |
| `TrilithReachProofs`, `TrilithErasureProofs` | theorems about who reaches what, and about erasure | `TrilithGatewayProofs` |
| `TrilithDatabaseProofs`, `TrilithAuthProofs`, `TrilithMigrationProofs`, `TrilithConsoleProofs` | theorems about those components | |
| `TrilithSelectionProofs` | theorems about both selectors | `TrilithPacking`, `TrilithWitness` |

Definitions keep the names of the code they stand for. Properties stand at the end of the module
whose actions they are about. A definition introduced as a *faulty variant* is used by no action: it
is a plausible bug, and substituting it for its neighbour makes TLC refute a property, which shows
that the property is about the code.

### How the core's state corresponds to the code

| TLA+ | Code |
|---|---|
| `rows[<<tenant, id>>]` | a row of `context_items`; `Absent` when there is none |
| `derived_sources` | the table of that name, one record per edge |
| `audit` | `audit_decisions` as a set: sequence numbers, times, reasons are dropped |
| `now` | the clock in half seconds, so that the purge's whole seconds and the policy's nanoseconds differ; `Never` is an unset `expires_at`, larger than every time |
| `editing[w]` | the local `item` of a PATCH between `backend.stored` and `update_item` |
| `reading[r]` | the candidates of an assembly and the audit rows it has yet to record |

*Content* is a set of pieces. A write mints one piece and labels it with the row it was written to,
so that where content came from can be asked of any later copy. The text of a summary is the union
of its sources' pieces: `fold` is extractive. Truncation only drops pieces, so the properties about
what a summary may hold are not weakened by it.

*Summary ids* are SHA-256 digests of tenant, identity, sub-task and source ids. `SummaryIds` is a
constant function with the assumption that a digest is not one of the ids it was computed from. It
yields a set of ids because the digest takes the sources in order of creation, which is not
modelled.

*Atomic steps*. The backend's lock is held for every backend call and for the whole of every
`atomic_operation`, so such an operation is one action. An operation that raises is rolled back and
is therefore not enabled; `TrilithDatabase` shows that the rollback works. `patch_item_read` and
`patch_item_write`, and the steps of an assembly, are separate actions because the handlers release
the lock between them. `fold` asks for the time twice within one action, the model once.

*Left out of the core*: embedded callers (`principal=None`), which only tests and scripts use and
which skip every admission check; an empty item id; the provenance that a caller gives, which nothing
decides by; relevance and redaction, which change no state.
Of `assemble_witnesses` the core has which items it admits (`lineage`, `approved`): it changes
nothing but the audit.

### Console and database

In `TrilithConsole` every request of the browser goes through `loading`, `sent`, `read`, `answered`;
several may be in flight, as nothing in `page.tsx` waits or cancels. Each may fail at any point. The
log is modelled exactly (capacity, page limit, cursor, tenant filter); `record` stands for an event
of any operation at any time, so it does not matter which operation recorded it. Pausing the live
feed is not modelled: `online` is "polls".

In `TrilithDatabase` a process has one connection and two ways of writing. An *operation* runs in a
savepoint. A *job* is a sequence of statements each followed by `commit()`: start-up, purge, the key
commands. Python's `sqlite3` opens a transaction by itself before a writing statement, and only
`commit()` ends it. SQLite is external: one writer, and a commit that waits for connections inside a
transaction that has read. The busy timeout is a choice: a process that cannot go on either waits or
gets "database is locked". Statements fail for that reason only when some modelled process holds the
lock; operations may fail for any reason. That a purge which failed so leaves the transaction open,
and that a savepoint inside it commits nothing, was confirmed with Python's `sqlite3` on a file. The
key and purge commands are the only other writers. Connections of one process are not modelled
apart, as a server has one.

### Authentication and migration

In `TrilithAuth` a row of `api_keys` is a record per raw key (the code keeps its hash). `trilith key
create` commits twice: the row, then its session and capabilities; the key is printed after the
second, so a request can present it only then. `trilith key revoke` marks every active key that a
prefix matches, those being minted included. A request reads twice under two holds of the lock,
whether authentication is on and whose the key is (`resolve_open`, `resolve_enforced`, `lookup`), and
`GET /v1/tenants` asks a third time (`list_tenants`). `shut` and `revoked` of a request are history
variables: how things stood when it came. Column additions to `api_keys` are left out.

In `TrilithMigration` a file is a record of what later code relies on: the tenant of every row, the
columns, the primary key, the triggers, and `context_items_v2` while it exists. Python's `sqlite3`
commits a statement that defines something at once, unless a transaction is open; the first `UPDATE`
of the backfill opens one, and from there to the rename is one transaction that holds SQLite's write
lock. Both were confirmed with Python's `sqlite3` on a file. A process may be killed between any two
statements (`kill`), meet a locked file or a column that another has added since it looked (`fail`),
and is started again. `CREATE TABLE IF NOT EXISTS` makes the table with the old key even in a new
file, so every new file takes this path too.

### Selection

`TrilithPacking` takes the ranking as given: scores are integers, of which `Unit` make 1.0; gains are
multiplied so that they are integers, and densities compared by cross-multiplication. The steps are
those of `pack`: take the densest feasible item (ties by gain, then key), at the end let the best
single item stand in (`best_single`), then fill in rank order with what was packed. `pack` charges an
empty item one token, the fill none. An item that changed its tier between two reads of one assembly
is a candidate twice, with one key (`KeyLists`).

In `TrilithWitness` probabilities and weights are natural numbers, parts of a whole. A round of
`solve` proposes every completion of a witness (`cover`, from every first item) and every bundle of
up to `max_bundle` items that the rest of the budget allows, takes the one of most gain per cost, and
remembers the best addition by itself. Ties between additions, which the code breaks by the order of
the items, may go either way. `oracle` is the exhaustive reference of the same file.

## 3. What the runs show

Passing runs:

| Run | Instance | Shows |
|---|---|---|
| `Lineage` | one caller with all capabilities, ids `a`, `f`, `g`, one PATCH thread, 2 writes, times 0..3 | `TypeOK`, `LineageIntegrity`, `SummaryHoldsSourceContent`, `ShownWithItsSources`, `PurgeAgreesWithPolicy` |
| `Tenancy` | two tenants, five callers of different capabilities, rows of every scope, two ids, no PATCH, 2 writes | `ContentLivesAtHome`, `ForgetErasesContent`, and `ErasurePromise`: the module implements `Erasure`; `WriteAuditNamesStoredItem`, `TenantBoundary`, `ReachOfUnprivileged`, `GlobalOnlyByPublishers` |
| `Threads` | one PATCH and one assemble thread, two administrators, one with `publish_global` | `WriteAuditNamesStoredItem`, `GlobalOnlyByPublishers` under interleaving |
| `Console` | two identities, two requests in flight, one restart, a log of one event, 2 events per process | `TypeOK`, `FeedInOrder`, `CatchesUp` |
| `Commits` | server and one command, crashes, lock failures, 2 operations and any number of purges | `TypeOK`, `AllOrNothing`, `AcknowledgedIsCommitted`, `ServerLetsOthersWrite` |
| `Auth` | two commands, two keys (an administrator's and an agent's), two requests | `TypeOK`, `OneWayDoor`, `RevokedKeyOpensNothing`, `KeyDecidesIdentity`, `RevocationIsFinal` |
| `Migration` | two processes, two ids, files of every earlier version, two kills | `TypeOK`, `RowsSurvive`, `OpenMeansCurrent`, `BecomesCurrent` |
| `Selection` | every ranking of 3 candidates to pack; every witness problem of 3 items, with costs 1 and 2, to solve | `PackTypeOK`, `AnswerIsThePack`, `ThirdOfOptimum`, `NoRoomForLeftOut`; `SolveTypeOK`, `NoBundleBeatsAnswer`, `ChainsEnterWhole` |

Runs that refute what the code's own text says (findings):

| Run | Property | What happens |
|---|---|---|
| `StalePatch` | `PatchEditsStoredRow` | PATCH reads and writes under two holds of the lock: a write in between is overwritten by the old copy, a row deleted in between is stored again |
| `SeveredLineage` | `DerivedInvalidatedWithSource` | editing a summary cuts its edges; deleting its source leaves its text |
| `UnpinnedKey` | `UnpinnedKeysLeaveRoom` | `docs/deployment.md` lets the client of a key without an owner supply `owner_id` and `session_id`; with authentication on `resolve` discards them (`auth.py:312-318`, as `test_auth.py:52` wants it) |
| `StuckTransaction` | `AcknowledgedIsDurable` | after a purge that met a locked file, operations are acknowledged and not committed |

Further observations, which the models contain and no property forbids:

- A summary is never the source of another while its own edges last (the last part of
  `LineageIntegrity`): a summary has no sub-task, and giving it one saves it anew, which cuts its
  edges. So the recursive trigger and `lineage()`, written for chains, meet one level.
- `fold` replaces the row that has the summary's id without asking `write_denial` about it. That is
  why `ReachOfUnprivileged` leaves fold out and `GlobalOnlyByPublishers` says only that fold
  publishes nothing.
- The purge ignores the sub-second part of `expires_at` (`expired_rows`): an item may go before the
  policy would hide it, in the second in which it expires and no earlier (`PurgeAgreesWithPolicy`).
- `KeyDecidesIdentity` holds of keys without an owner and a session as well: their requests have
  neither, whatever they say of themselves. That is the code's rule and its test's, and not what the
  docs say of such keys (`UnpinnedKey`).
- An answer of `/v1/events` that was asked for before a change of identity is put into the feed of
  the new one (`loadEvents` after `switch_identity`).
- assemble audits the ids of the items it has read after it read them (`audit_one`), so the id of an
  item that was deleted or forgotten meanwhile stays in the audit table.
- A caller with `tenant_admin` and no owner that forgets its USER scope forgets the USER rows of
  every owner of its tenant (`scope_rows`: an empty identity adds no predicate).
- The page of an answer of `/v1/events` and the cursor that goes with it are read one after the other
  (`list_events`): an event recorded in between is in neither this page nor the next.
- Once a single item has replaced the pack, items that would still fit beside it are excluded as over
  budget: that is the case `NoRoomForLeftOut` excepts with `replaced`.
- An item that is read from two tiers can be in one answer twice; the budget holds all the same
  (`AnswerIsThePack`).
- A key that is revoked between its two commits is printed and opens nothing (`RevocationIsFinal`).
- In a transaction that a failed purge left open the server's first write takes the file's write
  lock and keeps it until a later purge commits or the server stops; until then `trilith key create`
  fails. That is the case `ServerLetsOthersWrite` excepts with `LeftOpen`.

### Bounds

`MaxWrites` (pieces minted), `Horizon` (last clock tick), `MaxSeq` (events per process),
`MaxRestarts`, `Requests` (in flight at a time), `MaxOperations` and the sets of ids bound the runs;
the theorems below have no bound but the constants. Three ids are the least with which a summary of
two steps and a refold of a summary exist (`Lineage`); in `Tenancy`, with its two ids, a summary has
one source, of the scope USER, SESSION, TENANT or GLOBAL, and that erasure reaches the summaries of
several sources is in the theorems. Two writes allow a source to be written, folded and replaced and
the whole to be folded again. Times 0..3 contain a second boundary and a time within a second. Two
tenants with one shared id are what crossing a boundary needs. Two requests are what overlapping
needs; with a log of one event the second event evicts the first, and with two processes a feed of
two is truncated. Order within a page, and a page that its limit cuts, take a longer log than TLC
can afford beside restarts and two requests: they are in the theorem `FeedStaysInOrder`, whose log
and page have any length. One command beside the server is enough to make either find the file
locked at each of its statements and commits. Two commands mint and revoke around each other, and a
third key or request would meet no further case, since each request resolves alone. `MaxKills`
bounds the kills of a migration; a process that fails is started again any number of times. Of three
candidates two can beat the densest one, and budgets 3 and 7 let one, two or all of the sizes in;
with `MaxBundle` 1 a chain of two or three items is longer than a bundle, so that it can enter only
as a completion, and the comparison with `oracle`, which is for bundles that may hold all of the
items, is left to the theorem `AnswerIsUnbeaten`; a derived item always costs 1. The rows of an
instance bear the capabilities, owners and sessions that tell the branches of the policy apart.

### Fairness

The core's properties are about safety and its specification has none.

`CatchesUp` assumes that the timer keeps firing while the console is online (`setInterval`), that
the gateway answers a request that reached it, and that the browser runs the continuation of an
answer. Operations, clicks, failures and restarts need not happen. The property itself supposes that
from some time on the console stays online under one identity, and that it is answered again and
again. `FeedInOrder` supposes that it asks in turn, which `page.tsx` does not enforce: a poll
outlasting the interval, or a refresh beside it, is answered with the same page twice.

`ServerLetsOthersWrite` assumes that a statement or commit that was begun ends, in success or in
"database is locked" (SQLite's busy timeout is finite), and that an operation's next statement is
executed or raises. Nobody has to start a command, send a request or restart the server.

`BecomesCurrent` assumes that whoever opens the file is started again when it failed, that its next
statement succeeds or raises, and (strong fairness) that it does not find the file locked every time
it comes to create the triggers: SQLite tries for five seconds, and the other's transaction is a few
statements. Nobody has to be killed or to exit.

## 4. What is proved

TLAPS checks these for every value of the constants that satisfies the named assumptions
(`BlankAssumption`, `AbsentAssumption`, `NoItemAssumption`, `PrincipalsAssumption`,
`DraftsAssumption`, `BoundsAssumption`, `SummaryIdsAssumption`, `EditsAssumption`, `IdleAssumption`;
for the database `ProcessesAssumption`, `JobsAssumption`, `OperationsAssumption`; for keys
`CredentialsAssumption`, `GrantsAssumption`, `RequireAuthAssumption`, `NoKeyAssumption`,
`IdleRequestAssumption`; for migration `MigrationAssumption`; for the console `LimitsAssumption`,
`RequestsAssumption`; for selection `PackingAssumption`, `InstancesAssumption`,
`MaxBundleAssumption`): any number of tenants, ids, callers, threads, processes, keys and rows, any
ranking, budget and witness problem. Finite are only what a list of the code holds: the features of a
query, the items, requirements and scenarios of a problem, the requests in flight.

| Theorem | Says |
|---|---|
| `Invariance`, `TypeCorrect` | `IInv`, hence `TypeOK`, always holds |
| `LineageCorrect` | `LineageIntegrity` |
| `SummariesHoldTheirSources` | `SummaryHoldsSourceContent` |
| `LineageIsShown` | `ShownWithItsSources` |
| `PurgeFollowsPolicy` | `PurgeAgreesWithPolicy` |
| `AuditCorrect` | `WriteAuditNamesStoredItem` |
| `TenantsAreApart` | `TenantBoundary`, of every request but PATCH and assemble |
| `UnprivilegedReach` | `ReachOfUnprivileged` |
| `PublishersOnly` | `GlobalOnlyByPublishers` |
| `PipelineErases` | without PATCH, `ContentLivesAtHome` |
| `ForgetIsComplete` | without PATCH, `ForgetErasesContent` |
| `SourcesTakeTheirCopies` | without PATCH, `DerivedInvalidatedWithSource`, which `SeveredLineage` refutes with it |
| `PipelineKeepsPromise` | without PATCH, the specification implements `Erasure` |
| `DatabaseTypeCorrect` | `TypeOK` of the database: only one process has anything pending |
| `OperationsAreAtomic` | `AllOrNothing`, whatever purges, commands and crashes do |
| `AcknowledgesWhatIsCommitted` | `AcknowledgedIsCommitted` |
| `AuthTypeCorrect`, `DoorStaysShut` | `TypeOK` and `OneWayDoor` of authentication |
| `RevokedKeysAreRefused`, `RevocationsStand` | `RevokedKeyOpensNothing`, `RevocationIsFinal` |
| `KeysIdentify` | `KeyDecidesIdentity` |
| `MigrationTypeCorrect` | `TypeOK` of the migration |
| `NoRowIsLost` | `RowsSurvive` |
| `OpenedIsCurrent` | `OpenMeansCurrent` |
| `ConsoleTypes` | `TypeOK` of the console: log and feed keep to their limits |
| `FeedStaysInOrder` | `FeedInOrder`, for a console that asks in turn |
| `PackInvariant`, `PackTypes` | `PackInv`, hence `PackTypeOK` |
| `PackIsAnswer` | `AnswerIsThePack` |
| `PackIsThird` | `ThirdOfOptimum` |
| `LeftOutHadNoRoom` | `NoRoomForLeftOut` |
| `SolveInvariant`, `SolveTypes` | `SolveInv`, hence `SolveTypeOK` |
| `AnswerIsUnbeaten` | `NoBundleBeatsAnswer` |
| `ChainsAreWhole` | `ChainsEnterWhole` |

The theorems about selection are of `PackSpec` and `SolveSpec`; the run `Selection` checks both
specifications in one, side by side and without common variables.

**The core.** `IInv` is the types and `StoreInv`: lineage integrity, content of summaries within
their sources, every audited write stored. These hold only together. A cascade removes the least set
closed under "has a live summary" (`CascadeCloses`, `CascadeIsLeast`); that it leaves no edge with
one end needs that both ends of every edge are stored; that folding does not delete the steps it is
folding (`FoldSparesItsSteps`) needs that a summary has no sub-task, so that no step is derived from
another. `LineageIsShown` goes along the edges once more: the rows of one identity that expire no
sooner than an item contain it and, by lineage integrity, the sources of each of them, so its whole
lineage lies among them; and the policy decides by identity and expiry alone. `PurgeFollowsPolicy` goes the
other way: the rows that will be hidden when the current second is over are closed under "has a live
summary", because a summary expires no later than its sources, so the cascade of a purge lies among
them.

**Reach.** What a request names is in its caller's reach by its guards. What goes with it is of the
same tenant, scope, owner and session, because the rows that are so form a closed set
(`CascadeStaysInReach`), again by lineage integrity: so every boundary that the guards respect the
cascade respects too.

**Erasure.** `ContentLivesAtHome` is not inductive: a row of someone else's content could be a row
nobody derived. `ContentTraced` adds why a row holds a foreign piece: the row is a summary, and the
piece is held by one of its sources, whose home it is. PATCH breaks exactly this (finding
`SeveredLineage`), so the theorems assume `Editors = {}`, an instance that serves the pipeline
endpoints, which is all that the gRPC gateway has.

**The database.** `AtomicInv` says where the parts of an operation may be: for the operation in
progress in `pending` beyond `before`, for every other in `file` or in `pending` both or neither; it
also says that a job's statements are no operation's. `CommittedInv` adds that the earlier
statements of a job in progress are in the file and the one executed last is pending, so that the
last commit of a job commits the whole of it.

**Authentication.** `AuthInv` says what every step of the two handshakes may rely on. Of keys: one
that is being minted is in the table with the tenant and owner asked for, and one that was shown has
all that was asked for, revoked or not (`KeysInv`). Of requests: if one that came to a shut door has
a principal, it is a key's; it was granted what the principal has; and it was not among the keys
revoked when the request came (`RequestsInv`). The door is shut for good because no step deletes a
key (`KeysStay`), and that no step makes a revoked one good again is what carries the answer of the
first read over to the second.

**Migration.** `MigInv` says what each process may rely on where it is (`PlaceInv`) and what the one
in the transaction has made of the file by then (`Staged`). `OpenMeansCurrent` is not inductive by
itself: another process may be in a transaction, and its commit replaces the whole file. It survives
because a table that has the new key is only backfilled, which changes nothing in it, and never
rebuilt, so that its triggers stay.

**The console.** `FeedInOrder` is not inductive, and it is not so of a console whose requests
overlap. `ConsoleInv` relates the four places an event may be in: the log has this process's events,
in order and none beyond `seq` (`LogInv`); what is shown is of an earlier process or up to the cursor
(`FeedInv`); a request that was sent carries the cursor of now, so that its page, wherever the log
began to be evicted, comes after all that is shown (`PageFollows`); and the cursor of an answer has
passed its page and the feed (`RequestInv`). A restart disturbs none of it: all that was read is of
an earlier process then. Every step keeps `ConsoleInv` if there is at most one request in flight
before and after it.

**Packing.** `ThirdOfOptimum` is about the end; the proof is about every selection `S` that the
budget allows, at every step (`Rivals`). Either all of `S` still fits beside the pack, item by item,
and none of it gains more per cost than the pack as a whole (`WithinReach`): the greedy choice keeps
this, because the item it takes is no less dense than any of `S`. Or some item of `S` no longer fits;
then the rest of `S` costs less than the pack with the item now taken, gains therefore no more than
the pack is worth, and `S` is worth no more than twice the pack and one single item (`Bounded`),
which stays so as the pack grows. At the end nothing that fits gains anything, and the safeguard
makes the pack worth as much as any single item: three times the pack, then, bounds `S`. That the
answer is the pack follows from the two accounts, `Books`: the fill counts no more than `pack`
charges, so what it has taken of the pack always leaves room for the rest (`InStep`).

**Witnesses.** What solve takes is affordable because each addition is held against the whole
(`OffersAreAffordable`). The first round examines every small set and every completion from nothing;
`SolveInv` says that what is remembered is beaten by none of these from then on, however the ascent
proceeds, and the answer is that or beats it. That a chain enters needs what the greedy cover
computes: it stops only where no candidate adds a fact (`CoverEnds`), and where each carrier has a
fact of its own that is all of them (`ChainIsCovered`).

**Sums and recursion.** Costs, tokens, utilities and values of a selection are sums over sets; the
greedy cover and the page of an answer are recursive functions. What these compute, at any size, is
proved by induction, in the form of a theorem about a set that contains 0 and successors, or
contains a finite set whenever it contains its smaller subsets (`InductionOnNumbers`,
`InductionOnSubsets`, `InductionOnEvents`), from the library's facts about well-founded orders. A
recursion has a function that satisfies it (`SumsExist`, `CoversExist`, `CollectsExist`), hence so
does the one that `CHOOSE` picks.

**Only model-checked**: `CatchesUp`, `ServerLetsOthersWrite` and `BecomesCurrent`, since liveness is
out of this prover's reach, and every refutation. Every other property of a passing run is the
statement of a theorem above.

## 5. Not modelled

Scorers (real arithmetic, embeddings), redaction by regular expressions, encodings, search and the
console's other reads, the SDKs and adapters (one stateless request each), generated code, the item
list, editor and layout of the console, benchmarks and examples: none of these changes stored state
or runs beside anything that does. The cap on candidates per tier, the audit row and input checks of
`assemble_witnesses`, and the choice between scorers are left out of parts that are modelled.

The parts were modelled in the order of what depends on them: the store and its triggers, the
operations and the gateways over them, then transactions, the event log and its console,
authentication, migration, selection. What could be added is a snapshot question about the three tier
reads (which the code does not promise), and the console's item list beside its feed.
