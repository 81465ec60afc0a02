# TLA+ verification of evercore

evercore is an event-sourcing library in Go. An application keeps *aggregates*
whose state is a fold over the *events* appended to them; evercore stores the
events in PostgreSQL, SQLite or memory, appends them under optimistic concurrency
control, keeps snapshots so that a load does not replay a whole stream, and
delivers all events in one global order to subscriptions. A generator,
`evercoregen`, writes the decoders that turn stored events back into Go structs.

This directory models that behaviour in TLA+, checks it with TLC on small
instances and proves the central results for all instances with TLAPS. Paths
below are relative to the repository's root.

## 1. The system

### Components

| component | code | state it keeps | operations | models |
|---|---|---|---|---|
| unit of work | `base/eventstore.go`, `base/context.go`, `base/aggregate.go` | per context: open transaction, captured events, staged snapshots; per callback: the aggregate values it holds | `WithContext`/`InContext`, `CreateAggregateInto`, `LoadStateInto`, `LoadOrCreateAggregate`, `ApplyEventTo`, `SaveState` | `EventStore`; partly: values kept after a failed context are left out |
| tables of the SQL engines | `evercoresqlite/engine.go`, `evercorepostgres/engine.go`, the migrations | committed rows; uncommitted rows of open transactions; the ids of events | `WriteState`, `GetEventsForAggregate`, `GetSnapshotForAggregate`, `NewAggregate`, ... | `EventStore` (keys of rows), `EventStoreLog` and `EventLog` (ids, view `event_log`) |
| durable subscriptions | `base/subscriptions.go`, `*/engine_subscriptions_raw.go`, the subscription migrations | one row per subscription and its rows in the join table of event types; per worker: its copy of the row and its batch | `RunSubscription`: upsert, add types, claim, load back, initialise the cursor, reload, fetch, handle, advance, renew, release | `DurableSubscription` over `SubscriptionTable` |
| ephemeral subscriptions | `base/subscriptions.go` | a cursor in memory | `RunEphemeralSubscription` | `EphemeralSubscription` |
| type registry | `base/eventstore.go`, the engines | caches name → id of aggregate and event types; their tables | `getAggregateTypeId`, `getEventTypeId`, `Warmup` | `TypeRegistry` |
| natural keys | `base/eventstore.go`, `base/context.go`, the engines | column `natural_key`, unique over all types | create, load or create, load by key, change of a key | `NaturalKeys` |
| memory engine | `base/memory.go` | slices and maps, without a lock | as the SQL engines, without transactions or constraints | `MemoryEngine` (contexts), `MemorySubscriptions`; partly: no data races inside a method |
| `StateAggregate` | `base/stateaggregate.go`, `base/stateevent.go` | sequence and state of one aggregate | `ApplyEventState`, `CopyFields`, `DecodeEvent`, snapshots | `StateAggregate` |
| `evercoregen` | `cmd/evercoregen` | the files of a project | walk, collect the directives, write three files | `Evercoregen` |
| generated queries | `*/queries.sql.go`, `*/models.go` | none | sqlc's output | partly: the statements that run are modelled where the engines call them |
| build tag `withsqlc` | `*/engine_subscriptions_sqlc.go` | none | an alternative build that does not compile at this commit | not modelled |
| connecting, migrating | `evercoreuri`, `*/migrations.go`, `*/db.go` | none | start-up I/O | not modelled |
| shared test suites | `enginetests`, `integrationtests` | none | tests that every engine runs | not modelled; read as a reference |

### How they interact

* A callback passed to `WithContext` gets a context with an open transaction. It
  creates or loads aggregates through it (statements of that transaction) and
  applies events to them. Applying changes the aggregate value at once, appends
  the event to the context's `capturedEvents`, and at every multiple of the
  aggregate's snapshot frequency stages a snapshot. Nothing of it is in the
  database yet.
* When the callback returns nil, `SaveState` inserts the captured events in order,
  then the snapshots, and the transaction commits. Any error rolls it back.
* Two contexts meet in the tables only: through
  `UNIQUE(aggregate_id, sequence)` on `events` and on `snapshots`, through the
  rows each has committed, and by waiting for each other's uncommitted rows.
* Subscriptions meet writers through the ids of table `events` (a cursor over
  `id`) and through `aggregates.natural_key`, which the view `event_log` shows as it
  is now. They meet each other in the row of table `subscriptions`. No statement of
  `RunSubscription` shares a transaction with another one.
* A program decodes stored events with the decoders `evercoregen` wrote from the
  sources of *this* build; the events may be those of an earlier one.

### What is hard

Concurrent contexts numbering events from the same loaded state; a load in two
statements; snapshots taken in the middle of a callback that may still fail; rows
locked in opposite orders; a batch whose insertion fails half way; ids assigned in
one order and committed in another; a lease that runs out under a working handler;
crashes and cancellations between a handler and its cursor; a cursor value, 0, that
means two things; a filter that every caller overwrites, in several statements, while
another one reads by it; a position that moves before the handler runs; pauses in the
middle of a batch; subscriptions of one process that share the default owner name; ids
cached from a transaction that rolls back; events decoded by another build than the one
that wrote them; a field copy that fails half way; a generator that dies among its files.
`PROJECT.json` lists every such hazard at the line where it bites, with the properties
that cover it or the reason none does.

### What makes each component correct

* *Unit of work and tables*: an event is appended only to the state it was computed
  from; a context's events become visible together or not at all; a snapshot equals
  the replay of the stream up to its sequence; what a load returns is such a replay
  although others commit during the load; a snapshot, an optimisation, never makes a
  context fail; no set of contexts waits for itself for ever; a stream becomes visible
  in the order of its ids.
* *Durable subscriptions*: at-least-once delivery (the cursor never passes an event
  no handler accepted), in global order, of nothing but what some caller asked for; one
  worker at a time, no redelivery and a cursor that never moves back, as long as no lease
  runs out under its holder; every event delivered in the end; a pause that takes effect.
* *Ephemeral subscriptions*: exactly the wanted events from the start on, in order and
  once in a run.
* *Type registry*: no stored row is ever read back under another type than the one it
  was written as; an id in a cache never names another type.
* *Natural keys*: a key names one aggregate; load-or-create returns it, and refuses
  it under another type.
* *Memory engine*: it loses an update only where the SQL engines' UNIQUE constraint would
  refuse one; the maps of keys agree; and its subscriptions are the same.
* *StateAggregate and evercoregen*: the generated files agree with the sources; what one
  build stored a later one decodes, if its files agree with sources that mark the same
  structs (whose fields do not change); a load, through a snapshot or not, gives the state
  that was saved.

## 2. The modules

```
CompareAndAppend         what contexts promise about streams (abstract)
EventStore               the write path
  EventStoreRefinement     it implements CompareAndAppend
  EventStoreInvariant      the inductive invariant
  EventStoreLog            with ids of events: it implements EventLog
  EventStoreProofs         the proofs: the invariant, both refinements
  MCEventStore, MCEventStoreLog

EventLog                 ids of events, when they become visible, keys (abstract)
SubscriptionTable        the row of a subscription, its statements, its query
  SubscriptionTableProofs  lemmas about writers and queries
  DurableSubscription      workers in RunSubscription
    DurableSubscriptionProofs
  EphemeralSubscription    a reader in RunEphemeralSubscription
    EphemeralSubscriptionProofs
  MemorySubscriptions      the memory engine's maps and clock implement the table
  MCDurableSubscription, MCEphemeralSubscription, MCMemorySubscriptions

TypeRegistry             type ids: tables, maps of ids, Warmup
  TypeRegistryProofs       MCTypeRegistry
NaturalKeys              keys of aggregates in concurrent transactions
  NaturalKeysProofs        MCNaturalKeys
MemoryEngine             contexts over the memory engine
  MemoryEngineProofs       about contexts and about MemorySubscriptions
  MCMemoryEngine
  MCMemory                 an instance of both, for one run

Evercoregen              the generator and the files it writes
StateAggregate           applying, storing and decoding state events
  GeneratedProject         both: edit, generate, build, run
    GeneratedProjectProofs   MCGeneratedProject
```

Each MC module defines the values its `.cfg` files give to CONSTANTS and, where it is
sound, a symmetry set.

### EventStore

| variable | code |
|---|---|
| `phase[c]` | how far client c (a goroutine, of any process) is in `WithContext`: not in it, in the callback, between the two statements of a load, applying the rows of a load, in `SaveState` |
| `objects[c][a]` | the aggregate value the callback holds for id a: sequence and state |
| `target`, `fetched` | the aggregate being loaded and the rows `loadEvents` returned |
| `captured`, `staged` | `EventStoreContextType.capturedEvents`, `.snapshots` |
| `written` | how many rows `WriteState` has inserted |
| `created` | aggregates the open transaction inserted |
| `aggregates`, `db` | the committed rows |

One action for each statement or in-memory step: `Begin`, `CreateAggregate`,
`LoadSnapshot`, `LoadEvents`, `ApplyFetched` (one turn of the loop in `applyState`),
`EndLoad`, `ApplyEvent` (the whole of `ApplyEventTo`, snapshot included), `Return`,
`InsertRow`, `InsertFails`, `DeadlockVictim`, `Commit`, `Abort`.

Abstractions:

* The state of an aggregate is the sequence of payloads applied to it, the finest
  fold: two histories that any `ApplyEventState` tells apart differ in it.
* A statement sees the rows committed when it runs (PostgreSQL's READ COMMITTED).
  SQLite gives a transaction one snapshot, which allows fewer behaviours; results
  hold for it too.
* An INSERT waits while another transaction holds an uncommitted row with its key;
  the database fails one transaction of each cycle of waits. Both are the
  database's behaviour (external in `PROJECT.json`).
* `base` in an event row is a history field: the state the writer's object had. No
  action reads it.
* Each context creates or loads what it uses. An `Aggregate` value kept after a
  failed context and used again is listed as a hazard and not modelled.
* `Abort` stands for an error of the callback or of any statement, a failed commit, a
  panic or the death of the process: for all of them the transaction is rolled back.

### CompareAndAppend and the refinement

The abstract specification knows streams only. A client prepares events for some
streams together with the contents it expects them to have; `AppendAll` appends to
all of them in one step, and only if all still have these contents. The refinement
(`EventStoreRefinement`) maps a stream to the payloads of its event rows in the order of
their sequence numbers, `expected` to the `base` of the first event captured for a
stream, and `pending` to what the captured events make of the state beyond that base.
Commit maps to `AppendAll`, every other step to `Prepare` or to a stutter. This is optimistic
concurrency and atomicity of a context in one statement. It promises nothing about
streams that a context only read: write skew is possible in the code and no document
excludes it.

### EventLog and EventStoreLog

`EventLog` keeps the ids handed out, those inserted by open transactions and those
committed, what each row holds (aggregate, type, time) and the natural key each aggregate
has now. `SerialWriters` selects SQLite and the memory engine (one writing transaction at
a time, ids from the highest row) or PostgreSQL (concurrent transactions, ids from a
sequence that no rollback resets).

`EventStoreLog` connects the two halves of the system. It adds to `EventStore` the
sequence of `events.id` (`lastEventId`), the ids each context has taken (`taken`) and the
rows of view `event_log` (`log`). An INSERT of an event is two steps: `DrawId` draws the
id, as the column's default `nextval` does, and `InsertRow` or `InsertFails` follows
(`HasBegun`), perhaps long after, when the row it waits for is committed or rolled back.
`CommitShows` and `GiveUp` move the ids with the context's end; an id that a failing INSERT
has drawn is a gap. `ImplementsEventLog` says that contexts are the writers that `EventLog`
describes, so the assumption the subscription modules make about writers is checked against
the write path.

### SubscriptionTable

One variable, `sub`, the row of one subscription: cursor, active, lease owner and
whether the lease has expired, the filter's columns, the start, and its rows in the join
table. One operator for each statement (`UpsertSubscription`, `AddSubscriptionEventType`,
`ClaimSubscription`, `RenewSubscription`, `ReleaseSubscription`,
`AdvanceSubscriptionCursor`, `SetSubscriptionActive`) and for the query
(`EventsFor`, with `Selects` as its WHERE clause). `Wanted` is what a caller means by a
filter, stated without columns and join table. `GetEventsForSubscription` does not ask for
the error that ended its rows; a batch cut short by one is a smaller batch, with the same
effect as a lower limit, and has no action of its own.

The clock is reduced to the one thing the statements ask, whether the lease has expired
by the clock of the caller that claims; `LeaseExpires` may happen at any moment,
which covers slow handlers and skewed clocks.

### DurableSubscription

A program counter `pc[w]` has one label for each statement of `RunSubscription`;
`call[w]` are its arguments, `todo[w]` the event types not yet in the join table,
`view[w]` the worker's copy of the row, `batch[w]` the events it fetched, `goal[w]` the
cursor it is about to store when it initialises it, `cancelled[w]` the state of the
caller's context. `handled`, `first`, `overrun`, `unrecorded`, `asked` (the filters that
calls have written to the row) and `faults` are history variables. Calls may have different
filters: the row that `LoadBack` and `Reload` read may be that of another caller. A start of
no known kind ends a call with an error at cursor 0 and moves nothing, as `Fail` does. `Cancel` and `Stop` model the context: every statement that gets it may fail, the
cursor update after a handler is not reached by it. `Fail` is an error at any point, which
leaves through the deferred release; `Crash` leaves the lease behind; `Pause` and `Resume`
are the operator.

### EphemeralSubscription

`pc`, the arguments `call`, the position `lastID` and the batch `deliver` are the locals
of `RunEphemeralSubscription`; `delivered`, `startedAt`, `rekeyed` and `runs` are history
variables. It asks the same query with a made-up row of id 0, for which the join
table is empty, so that with several event types it narrows the batch in memory
(`Relevant`), after `Poll` has moved the position. Writers and changes of natural keys
interleave. A run ends by any error or cancellation (`Leave`) and may be called again.

### MemorySubscriptions

| variable | code |
|---|---|
| `Subscriptions`, `SubscriptionByID`, `SubscriptionEventTypes` | the maps of these names; the first two lead to one value |
| `CapturedEvents`, `AggregateInv` | the slice of events; the keys of aggregates |
| `now` | `time.Now()`, in units of the lease |

Each method is one action, with an early return as a missing disjunct. `Table(n)`
is `SubscriptionTable` over `RowOf(n)`: `ImplementsTable` says that each method does to a
subscription what the SQL statement of its name does to the row, that a method for another
name does nothing to it, although all values are reached through shared maps, and that the
clock at most ends a lease. `QueriesAgree` compares the loops over `CapturedEvents` with
the queries: the same events, in the order of their ids, never more than the limit. What
`DurableSubscription` shows therefore holds over the memory engine too. Both are proved
(section 4).

### TypeRegistry

| variable | code |
|---|---|
| `cache[s][k]` | `eventTypeLookup` and `aggregateTypeLookup` of EventStore value s, one in each process |
| `types`, `lastId` | committed rows of `event_types` and `aggregate_types`; what PostgreSQL's sequences gave last |
| `rows` | stored events and aggregates: the type id they carry and, as history, the name their writer meant |
| `added`, `uses` | type rows, and events and aggregates, of the open transaction of each goroutine |
| `job`, `pc`, `want` | context, lookup without transaction, or Warmup; how far it is; the name it looks up |
| `listed`, `todo`, `dirty` | `Warmup`'s list of types, the known names it still has to add, `databaseUpdated` |

A lookup is a map access (`LookupCached` or `LookupMiss`), then `Select` and, if no row
is there, `Insert`, each a statement of its own; the map is written when the statement
has answered. `Fail` rolls a context back and leaves the maps as they are; in `Warmup`
it leaves the transaction open (`leaked`), because no path rolls it back. PostgreSQL's
lists of types come back empty, without an error, when the query fails (`TypesListed`), and
`Warmup` goes on. The maps have
no lock: the Go runtime stops a process that writes a map concurrently, which is
`Restart`. `SerialWriters` and `EventForeignKeys` select the database; SQLite's foreign
keys are off unless a connection asks for them, and none here does.

Abstractions: a stored row is its type id; `SaveState`'s row and its constraint are put
into the transaction and checked when it commits, since nobody else sees an uncommitted
row and a type row that is visible stays so.

### NaturalKeys

| variable | code |
|---|---|
| `rows` | the committed rows of table `aggregates`: type and natural key |
| `own[c]` | the rows c's open transaction has inserted or updated |
| `pc[c]`, `want[c]` | whether c is in its callback or in a statement; the statement's type, key and id |
| `answers`, `told`, `moved` | history: what load-or-create told c's callback; what it told contexts that committed; aggregates whose key was changed since |

The operations of a context (`NewAggregate`, `NewAggregateWithKey`, `GetOrCreate`,
`ChangeAggregateNaturalKey`) start a statement; `Insert`, `LoadByKey` and `Update` are the
statements that follow, so that other transactions run between the SELECT of
`GetOrCreateAggregateByKey` and its INSERT, or the second lookup by which
`LoadOrCreateAggregate` loads. A writer waits (`WaitsFor`) while another transaction
holds an uncommitted row with the key, has changed a row that has it, or has written the
row itself; it then finds the key taken or free. `Fail` covers a refused key, a missing
row, the victim of a deadlock, an error of the callback and a crash.

Abstractions: an id of a row that was rolled back may or may not be given again, which
covers SQLite and PostgreSQL; a plain load by key changes nothing and is left out; a key
that is too long is refused without effect. `Update` of an id that is not in the table
changes nothing and succeeds, as in the code.

### MemoryEngine

| variable | code |
|---|---|
| `log`, `snapshots` | `CapturedEvents`, `CapturedSnapshots` |
| `count`, `byKey`, `keyOf` | `CountAggregates`, `Aggregates`, `AggregateInv` |
| `phase`, `objects`, `captured`, `staged` | as in `EventStore` |

What differs from the SQL engines is the point of the module: creation and changes of
keys are visible at once, `Commit` and `Rollback` do nothing, `WriteState` compares
nothing, and a key in use may be taken over (`takenOver` is history). Contexts overlap and
use the same aggregates in any way. Optimistic concurrency control therefore does not hold
(run `memory_conflict`). `NoLostUpdate` and `LoadsAreReplays` say how far the engine is from
it: in every stream of distinct numbers all is as in the SQL engines.

Abstractions: one aggregate type; a load is one step; `WriteState` is one step, so the
race of two goroutines in its unlocked `append` is not modelled; keys too long are an
error without effect; `ChangeAggregateNaturalKey` of an aggregate without key panics,
which is `Abort`.

### Evercoregen, StateAggregate and GeneratedProject

`Evercoregen` has the files of the project (`files`: whether there is a package clause,
the directives, what the generator wrote), the place of the run (`pc`, `next`) and the
directives located so far (`located`, three maps by bare struct name). `Visit` and
`Refuse` are one file of the walk, the generator's own outputs included; `Create`,
`WriteClause` and `WriteBody` are the three states of a file that `os.Create` truncates
and a template fills. `Die` ends a run anywhere, `Edit` saves other sources at any moment.
Text is abstracted: a directive is its type and the struct that follows, import paths,
import names, formatting and flags are left out.

`StateAggregate` has one stream: `stored` events (name of the type, JSON, and as
history the Go type that was serialized), the newest `snapshot`, the context's `object`,
`captured` and `staged`. `CopyFields`, `ConvertibleTo`, `Convert`, `Serialize`,
`Deserialize` and `DecodeEvent` (the function, not the method of the same name, which does
the same) are pure operators over values of three types: numbers,
narrow numbers, which wrap, and text; pointers may be nil, fields may be missing on
either side. `Replay` is `loadState` as a recursive function. The assumptions say what Go
says of structs: their fields have distinct names, a value has its field's type, only a
pointer is nil. `astray` marks an object that the stored events do not explain: the callback
went on after a failed `ApplyEventTo`, or a decoder made another struct of an event than
it was; `tainted` remembers that one was saved. A due snapshot is staged, or not if
`GetSnapshotState` fails after the event was captured. A load that fails half way has no
action: the object has no id yet (`base/context.go:266`), so what a callback applied to it
would belong to aggregate 0, which no context loads, and never to this stream.

`GeneratedProject` composes them: the developer edits and generates, `Build` compiles
what is there if it compiles (`Compiles`), and `Run` executes contexts with the decoders
of that build over what earlier builds stored; every struct marked as a state event is
one whose fields are given. One context at a time; a context and a run
of the generator share nothing, and are not interleaved.

## 3. What TLC checks

Every property has a *mutant* in `PROJECT.json`: a variant of a definition, written
next to it, with a plausible bug (a dropped UNIQUE constraint, `>=` for `>`, a write
outside the transaction, an upsert that replaces the row, a claim that succeeds for the
own name, a cursor written with the cancelled context, an event stored under its package,
a merge in which the first one wins, ...). Under the mutant TLC finds the property
violated in the same run, so each run's bounds are large enough to notice.

| run | instance | properties |
|---|---|---|
| `streams` | `MCEventStoreLog.cfg`: 2 contexts, 1 stream of up to 3 events, 2 payloads, batches up to 2, snapshot at every second event, 6 ids of a PostgreSQL sequence | `NoLostUpdate`, `SnapshotsAreReplays`, `ObjectsAreReplays`, `SnapshotInsertsNeverCollide`, `IndInv` (the invariant of the proofs), `ImplementsEventLog`, `StreamsGrowInIdOrder` |
| `contexts_end` | `MCEventStoreLive.cfg`: 2 contexts, 2 streams of 1 event, no snapshots, fair | `ImplementsCompareAndAppend`, `ContextsEnd` |
| `delivery` | `MCDurable.cfg`: 2 workers, either of 2 owner names, a filter of two event types, `StartTimestamp`, 1 writer, 3 ids, batches of 2, 1 fault, leases that expire at any time | `TypeOK`, `NothingSkipped`, `DeliveredInOrder`, `OneWorkerAtATime`, `NoRedelivery`, `CursorNeverRegresses` |
| `progress` | `MCDurableLive.cfg`: 2 workers of one owner, each call with a filter that wants all or one that wants none of the events written, `StartEventID` 1, 1 writer, 2 ids, batches of 1, 1 fault, leases that expire, fair | `EveryEventHandled`, `PauseTakesEffect`, `OnlyWhatWasAsked` |
| `ephemeral` | `MCEphemeral.cfg`: five calls (every start; filters by aggregate type, key, one type, two types, none), 2 aggregates, 1 key, 3 ids, batches of 2, 2 runs, fair | `TypeOK`, `InOrder`, `ExactlyWhatWasAsked`, `EveryEventDelivered` |
| `types_postgres` | `MCTypesPostgres.cfg`: 1 process, 2 goroutines, 2 names of each kind, all known to Warmup, ids up to 2, 1 row, PostgreSQL | `TypeOK`, `EventsKeepTheirType`, `NeverMistaken`, `CachesNeverMislead` |
| `keys` | `MCKeys.cfg`: 2 transactions, 2 types, 2 keys, 2 aggregate ids | `TypeOK`, `KeysUnique`, `GetOrCreateAgrees` |
| `memory` | `MCMemory.cfg`: 2 contexts that overlap, 2 keys, 2 payloads, 2 aggregates, 3 events, batches of 2, snapshot at every second event; and, while these rest, 2 names of subscriptions of which the second is only upserted, 2 callers with different filters, leases of 0 and 1, 2 events, clock to 1, limit 1 | `TypeOK`, `NoLostUpdate`, `LoadsAreReplays`, `KeysLeadBack`, `QueriesAgree`, `ImplementsTable` |
| `generator` | `MCGeneratedProject.cfg`: 3 versions of a project with two packages that may mark structs of one name, 3 output files, 1 edit, 1 death, 4 kinds of events, streams of 3, snapshot at every second event | `TypeOK`, `OutputsAgree`, `StoredEventsDecode`, `LoadsGiveWhatWasSaved`, `Regenerates` |
| `start_end_restart`, `commit_order` | see Findings | `NothingSkipped`, violated |
| `memory_conflict` | `MCMemoryConflict.cfg`: as `memory`, batches of 1; see Findings | `OptimisticConcurrency`, violated |

Why these bounds are enough to be interesting. Two contexts suffice for every conflict the
UNIQUE constraints decide, since an INSERT conflicts with one other row; two streams are
needed for partial batches and for opposite lock orders. Three events with frequency 2
give a snapshot below the end of a stream, a load through it, and a race on the event
after it. For subscriptions two workers make every takeover, three ids give a batch below,
at and above the limit, and one fault beside leases that expire freely gives a crash or
error followed by a takeover; the two event times put a row before the start behind one
after it. In `progress`, batches of one make every event a round of the loop, and the two
filters differ so that one fetch shows whose columns it goes by. For the
ephemeral reader three ids and batches of two give a batch of which the filter leaves
nothing. For the memory engine two aggregates and two keys give the takeover and the change
after it that leaves an aggregate without its entry; both happen while no event is written
(`TakenOverFirst`), since keys and streams share nothing but the aggregates, and `FewEvents`
counts captured events with the written ones. Its two components share no variable: one
moves while the other is as it was made (`MCMemory`). Two names show what a method does to
another subscription; it is enough that the second one is upserted (`SecondIsIdle`), before
the first or after it, and that one aggregate changes its key (`SecondKeepsKey`). Two callers and leases of 0 and 1 give a takeover after the end of a lease and
attempts before and at it. For type ids, two ids of each kind let a rolled back id be
followed by another one, and one stored row suffices since rows do not influence each
other. For keys, two clients and two ids give every pair of statements that meet in a key
or a row, and two keys an exchange of keys. The versions of the generated project make an
event appear, disappear, change its package under the same name, and follow a directive
nobody knows. `contexts_end` needs no snapshots, which no abstract variable shows
(`streams` checks that loads through them are replays).

Symmetry is used for invariants, action properties and `ImplementsEventLog` only (clients,
payloads, workers, owners, names and keys are interchangeable there), never for liveness.

`CHECK_DEADLOCK FALSE` stands where the bounds end the model: ids are used up
(`MCEventStoreLog.cfg`), the calls are made (`MCEphemeral.cfg`), the clock has reached its
bound (`MCMemory.cfg`). Elsewhere deadlock is checked.

### Fairness

* `EventStore`: a callback returns (`SF` of `Return`: it may load again and again in
  between, but not for ever); statements and the loop of a load run to their end
  (`WF`); a waiting INSERT is granted when the rows it waits for go away, again and
  again if need be (`SF` of `InsertRow`: lock queues are fair); the database breaks a
  cycle of waits (`WF` of `DeadlockVictim`). No fairness is assumed for starting or
  aborting a context.
* `DurableSubscription`: `WF` of each worker's next step: a statement is answered, a
  handler returns, and `RunSubscription` is called again after it returned, which is
  the retry loop that `README.md:254` asks for. `WF` of `Expire`: a lease that is not
  renewed runs out, which is time passing. Nothing is assumed of writers, faults or
  the operator.
* `EphemeralSubscription`: `WF` of the reader's own steps within a run: statements are
  answered, the handler returns, the ticker ticks. Nothing is assumed of writers, errors or
  the caller; a reader may leave at any time and need not come back.
* `Evercoregen`: `WF` of a run's steps (a process that nothing kills goes on) and of
  starting one while the last has not succeeded since the last edit (a developer who
  wants the code generated). Edits, deaths, builds and contexts owe nothing.

### Findings

Three runs show a documented promise violated by what the code does.

* `start_end_restart` violates `NothingSkipped`. A stored cursor of 0 means "not
  initialised" (`base/subscriptions.go:129`). A `StartEnd` subscription that starts on
  an empty log keeps 0; when its first batch fails before the cursor moves, the next
  run takes the end of the log again and skips that batch (`README.md:218`: "Delivery is
  at-least-once").
* `commit_order` violates `NothingSkipped` for PostgreSQL. Ids come from a sequence at
  INSERT and become visible at COMMIT; a cursor that read id 2 never returns to id 1
  committed later (`evercorepostgres/engine_subscriptions_raw.go:168`). With one writing
  transaction at a time, run `delivery` shows delivery complete; and within one stream the
  order of ids is the order of commits (`StreamsGrowInIdOrder`).
* `memory_conflict` violates `OptimisticConcurrency`. `WriteState` of the memory engine
  appends whatever it is given (`base/memory.go:242`): two contexts that load an aggregate
  and save one after the other store two events of one number, the second computed from a
  state without the first. One context that loads an aggregate again after it applied events
  does the same to itself. `README.md:15` lists "Optimistic concurrency control", and
  `base/storage.go:13` wants engines "safe for calling from multiple goroutines
  simultaneously"; `README.md:11` offers this one for unit testing, where such code then
  passes. `NoLostUpdate` of run `memory` shows that the missing constraint is the only cause.

Observed while modelling, without a run of their own:

* A call writes its filter to the row before it claims it (`base/subscriptions.go:99`), also
  one that is then refused: the worker that holds the lease goes on with the filter of the
  other caller (`README.md:222`: "create or update the subscription metadata").
  `OnlyWhatWasAsked` says what is left: what is fetched was asked for by some call.
* Between `UpsertSubscription` and the last `AddSubscriptionEventType`
  (`base/subscriptions.go:99-110`) a filter of several types is not yet in the join table: a
  worker that runs meanwhile is given events of every type, or passes events of the types
  still missing, which are then never delivered, although all callers want them. So
  `NothingSkipped` is proved and checked for callers whose rows of the join table agree.
* Rows of the join table are never deleted, and the query prefers them to the column. Once a
  subscription has asked for several types, a later call with one type or with none
  (`base/subscriptions.go:14`: "empty means all event types") goes on delivering the old
  ones. `FilterRespected` covers this for all calls; no instance has a stale join table.
* With `StartTimestamp` and no event at or after it, no cursor is stored
  (`base/subscriptions.go:156`): the run starts at 0 and delivers events from before that
  time. Nothing from the time on is lost, which is what `NothingSkipped` says.
* The lease is renewed after a batch only and the answer of `RenewSubscription` is ignored
  (`base/subscriptions.go:225`), so a handler that outlives its lease works beside its
  successor, and goes on after. `OneWorkerAtATime`, `NoRedelivery` and
  `CursorNeverRegresses` are stated for as long as no lease runs out under its holder;
  `NothingSkipped` and `DeliveredInOrder` hold in spite of it.
* The deferred `cancel` in the loop (`base/subscriptions.go:217`) keeps a timer for each
  batch until the subscription ends. Lease times come from each worker's own clock and go
  to a column without time zone (`evercorepostgres/engine_subscriptions_raw.go:108`).
* `getAggregateTypeId` (`base/eventstore.go:284`) keeps an id although the transaction
  that added it rolls back. The next context creates an aggregate with an id that is in no
  table (`base/storage.go:23`: "added if it does not already exist"), and other processes
  do not find it under its type. `types_postgres` shows the good news: the id never names
  another type, and PostgreSQL's foreign key keeps events with such an id out. On SQLite,
  where foreign keys are off, such an event is stored, and then hidden by the JOIN with
  `event_types`.
* `Warmup` replaces the map of event types by a list it read before it added the missing
  ones (`base/eventstore.go:213`), so the added ones are looked up again. The map of
  aggregate types is filled in the other order.
* `InContext` defers `Rollback` on the transaction before it looks at the error that came
  with it (`base/eventstore.go:62`); a nil transaction panics.
* `ChangeAggregateNaturalKey` of an aggregate that does not exist succeeds in the SQL
  engines and is an error in the memory engine, which in turn lets a key be taken over. The
  aggregate that lost the key still has it in `AggregateInv`, and when it changes its own key
  it deletes the entry of the other one (`base/memory.go:135`), which is then not found by
  its key any more. `KeysLeadBack` states both directions until the first takeover, and after
  it the one that still holds: a key leads to an aggregate that has it.
* `CopyFields` stops at a field it cannot assign and leaves the ones before it copied. A
  callback that ignores the error of `ApplyEventTo` and goes on works with a state that no
  stored event explains, which the next snapshot stores. `LoadsGiveWhatWasSaved` excludes
  such callbacks (`tainted`).
* Two packages that mark structs of one name share an event type: the file walked last
  decodes both (`cmd/evercoregen/utils.go:102`). `StoredEventsDecode` is about names that
  one package uses. A program built from such sources may load the event of one package as
  the other's struct without an error (fields that do not match are skipped) and save a
  state, or a snapshot, that the stream does not explain; a later program from sources
  without the clash then loads that snapshot. `LoadsGiveWhatWasSaved` therefore leaves out
  streams an astray object was saved to. The need for this showed in the proof: its
  invariant was not inductive, and with one field more the instance had the counterexample.
* A run of `evercoregen` that dies between `os.Create` and the package clause
  (`cmd/evercoregen/generate.go:69`) leaves a file that every later run refuses, since it
  walks its own output. `Regenerates` names this case (`Torn`).
* The patterns of `cmd/evercoregen/config.go:13` are matched with whole paths, so
  directories `vendor` and `testdata` are walked.

## 4. What is proved

Of the properties that the passing runs check, all invariants, action properties and
refinements are proved with TLAPS, for all values of the constants that satisfy the named
assumptions (bounds are natural numbers, "none" values are not real ones, ...). A theorem
with a further hypothesis has it as `ASSUME` and in the table below. Each `...Proofs`
module has the same shape: the inductive invariant as a conjunction of named parts, lemmas
about operators, one lemma for each action (in a long proof for each action and part), and
the theorems at the end.

### The write path: `EventStoreProofs`

| theorem | statement | rests on |
|---|---|---|
| `Invariance` | `Spec => []IndInv` | |
| `TypeCorrect` | `Spec => []TypeOK` | `IndInv` |
| `NoUpdateIsLost` | `Spec => []NoLostUpdate` | `IndInv` |
| `SnapshotsReplay` | `Spec => []SnapshotsAreReplays` | `IndInv` |
| `ObjectsReplay` | `Spec => []ObjectsAreReplays` | `IndInv` |
| `SnapshotsNeverCollide` | `Spec => []SnapshotInsertsNeverCollide` | `IndInv` |
| `ContextsCompareAndAppend` | `Spec => ImplementsCompareAndAppend` | `IndInv`, `PrefixReplays`, `StreamsAreSequences` |
| `StreamsInIdOrder` | `LogSpec => StreamsGrowInIdOrder` | `IndInv`, `IdsInv` |
| `ContextsWriteTheLog` | `LogSpec => ImplementsEventLog` | `IndInv`, `PrefixReplays`, `IdsInv`, `RoomInv`, `RowsKnown` |

The first six need `EventStoreAssumption` only; the last two also `EventStoreLogAssumption`
(the bound of ids is a number, there are finitely many clients).

None of the properties is inductive alone. `IndInv` conjoins them with what keeps
them true:

* `CapturedAreReplays`: a captured event's `base` is a replay of the committed rows
  and of what the context captured before. A commit makes these rows committed, so
  `NoLostUpdate` holds for them; committed rows are never changed or deleted, so it
  goes on holding (`ReplayMonotone`).
* `StagedMatch`: each staged snapshot belongs to a captured event with the same
  aggregate and sequence and is that event applied to its base; two staged snapshots
  with one key belong to two events with that key. A commit therefore stores replays,
  and a snapshot can collide only after its event has collided
  (`NoSnapshotCollision`).
* `FetchedContinues`: the rows a load fetched continue the object's sequence without a
  gap, although the snapshot was read by an earlier statement. It rests on
  `StreamsHaveNoGaps`, which follows from `NoLostUpdate`.
* `PendingExclusive` and `KeysUnique`: no two uncommitted rows, and no uncommitted and
  committed row, have one key. This is what `InsertRow`'s guards (the constraint and
  the wait) provide, and why a commit keeps the constraints.
* `PhasesOK`: a load in progress has an object; nothing is inserted before `SaveState`.

The refinement of `CompareAndAppend` needs two facts more. `PrefixReplays`: a captured
event was applied to a replay of the committed rows and of the events captured before it
in the order of the batch (`CapturedAreReplays` says only: of what was captured). When all
are inserted without conflict, the uniqueness of keys and `StreamsHaveNoGaps` leave the
first base no choice but to be the whole stream: nobody appended since it was loaded.
`StreamsAreSequences`: a stream read from the tables is a sequence of payloads; before
such a commit it is that base, after it the base and what was pending.

For the ids, `IdsInv` says that ids in the log and in open transactions are distinct and
not above the sequence, one for each inserted event (`IdsOK`, `IdsUnique`), that the log
shows committed events only (`LoggedInv`), and that an uncommitted event has a higher id than
all that is shown of its stream (`NewerIds`), unless the event will not get into the table.
An id may be drawn, and others with higher ids of the stream committed, while the INSERT
waits; but then its key is in the table (`Doomed`): by `PrefixReplays` the numbers of a stream
have no gap from the table through a batch, so what the other context inserted includes the
key (`OthersDoomIt`), and the constraint refuses the event. `RoomInv` says that the ids that open contexts may still
take fit the bound, `RowsKnown` that a row looked up by its id is shown, inserted or none.

### Subscriptions: `SubscriptionTableProofs`, `DurableSubscriptionProofs`, `EphemeralSubscriptionProofs`

| theorem | statement | hypothesis |
|---|---|---|
| `TypeCorrectness` | `Spec => []TypeOK` | |
| `OneWorker` | `Spec => []OneWorkerAtATime` | |
| `DeliveredOnce` | `Spec => []NoRedelivery` | |
| `CursorMonotone` | `Spec => CursorNeverRegresses` | |
| `FilterRespected` | `Spec => OnlyWhatWasAsked` | |
| `NothingLost` | `Spec => []NothingSkipped` | `SameCalls` |
| `InGlobalOrder` | `Spec => []DeliveredInOrder` | `SameCalls` |
| ephemeral `TypeCorrectness` | `Spec => []TypeOK` | |
| ephemeral `DeliveredInOrder` | `Spec => []InOrder` | |
| ephemeral `WhatWasAsked` | `Spec => []ExactlyWhatWasAsked` | `SerialWriters` |

`SameCalls`: `SerialWriters`, all callers ask for the same types in the join table and for no
key (`SameJoin`: keys may change, and with them what a filter selects; filters with at most
one type may differ), and they pass one start, which is not "end" (`SameStart`). `Owed` is
what every filter asked so far wants. `MCDurable.cfg` satisfies them, and each is needed:
without `SerialWriters` run `commit_order`, with start "end" run `start_end_restart` has the
counterexample, and different types in the join table are the second observation of section
3. `FilterRespected` needs none of them.

The invariants of `RunSubscription`: `LeaseInv` (until a lease runs out under its holder,
a worker between claim and release is named in the row, its lease has not expired, and no
other one runs), `CursorInv` (until then its copy of the row has the stored cursor),
`BatchInv` (a batch holds visible ids after the cursor of that copy), `AcceptedInv` (what
was accepted is at or below the cursor or in a batch about to be recorded, unless a fault
came between), `AskedInv` (columns and join table of the row, and of every copy, come from
filters that were asked for), `FilterInv` and `StartInv` (where callers agree, the join table
and the start are those of the calls or not yet used), and `DeliveryInv`
(below the cursor and in front of a batch, whatever is owed was accepted). The last one is
where `SerialWriters` is used: nothing becomes visible below an id that was read. For the
ephemeral reader `PositionInv` and `ReachedInv` relate what was delivered, the batch and
the position, `AskedInv` to what was asked. The log's own invariant (`LogInv`) is shared,
in `SubscriptionTableProofs`.

### Types and keys: `TypeRegistryProofs`, `NaturalKeysProofs`

| theorem | statement | hypothesis |
|---|---|---|
| `TypeCorrectness` | `Spec => []TypeOK` | |
| `RowsNeverMistaken` | `Spec => []NeverMistaken` | `~SerialWriters` |
| `MapsNeverMislead` | `Spec => []CachesNeverMislead` | `~SerialWriters` |
| `EventsReadBack` | `Spec => []EventsKeepTheirType` | `~SerialWriters`, `EventForeignKeys` |
| keys `TypeCorrectness` | `Spec => []TypeOK` | |
| `UniqueKeys` | `Spec => []KeysUnique` | |
| `SameAggregate` | `Spec => []GetOrCreateAgrees` | |

The theorems about types are PostgreSQL's: SQLite gives the id of a rolled back row again
while a map may still hold it. `IdsInv` says that every id in a map, a lookup, a row or an
open transaction was issued by the sequence and stands for one name (`Issued`, `OneName`);
with foreign keys `ReferencesInv` adds that what an event refers to is there. `KeysInv` says
that keys are unique among the rows and in what each transaction sees (`UniqueInv`), which is
what waiting (`LocksInv`) provides, and that what a callback was told is what its transaction
sees, until a key changes (`AnswersInv`).

### Memory engine: `MemoryEngineProofs`

`Spec` is that of `MemoryEngine`, `SubscriptionsSpec` that of `MemorySubscriptions`.

| theorem | statement | hypothesis |
|---|---|---|
| `TypeCorrectness` | `Spec => []TypeOK` | |
| `KeysLead` | `Spec => []KeysLeadBack` | |
| `NoUpdateIsLost` | `Spec => []NoLostUpdate` | |
| `LoadsReplay` | `Spec => []LoadsAreReplays` | |
| `SubscriptionsAreRows` | `SubscriptionsSpec => ImplementsTable` | |
| `LoopsFindWhatQueriesFind` | `SubscriptionsSpec => []QueriesAgree` | |

* `KeysInv`: `KeysLeadBack`, with what it needs: a key leads to an aggregate that exists, and
  what does not exist has no key.
* `ContextsInv`: what is held, captured or logged exists (`HoldersInv`). A stream in which no
  number is used twice is chained, in the log and in the log as it would be if any one context
  saved now (`StreamsInv`), objects are replays of such a stream (`ObjectsInv`), and snapshots
  lie on it (`SnapshotsInv`). Nothing is said of a stream with a number used twice, which is
  what the engine lets two contexts, or two loads in one context, write.
* `SubscriptionsInv`: a name leads to a value that exists, with event types of its own, and no
  two names lead to the same one (`NamesInv`). Without the last part a method could change the
  row of another name, without any type being wrong. There is one lemma for each method
  (`UpsertMatches`, `ClaimMatches`, ...), most of them from `UpdateIs`, what an assignment through the
  map by id does to every row; `NextMatches` puts them together.
* The loops are recursive functions: `LoopExists` says that the recursion has a solution,
  `LoopTurn` what one turn adds, and `LoopFinds` that after every turn the results are the
  first ids, up to the limit, of what the query selects, in order, by a least turn at which
  they are not. `SkippedIsNotSelected` relates the tests that `continue` with the WHERE clause.

### Generated projects: `GeneratedProjectProofs`

| theorem | statement |
|---|---|
| `GeneratedFilesAgree` | `Spec => []OutputsAgree` |
| `TypeCorrectness` | `Spec => []TypeOK` |
| `EventsDecode` | `Spec => []StoredEventsDecode` |
| `LoadsAreFaithful` | `Spec => []LoadsGiveWhatWasSaved` |

* `GenInv`: a run that nothing disturbed knows what it should of the files it has visited
  (`WantedUpTo`: a file goes over those before it, a skipped one adds nothing), and has
  written it to the outputs before the one it is at (`RunOK`). The outputs lie in the walk,
  so it is also needed that they mark nothing (`OutputsUnmarked`): a run that overwrites
  what it has walked does not change what it should have found (`WritingMarksNothing`).
* `KnownInv`, `ProgramInv`: whatever half finished files a program is built from, it decodes
  to structs that were marked; after a run that agreed, to those its sources mark.
* `AggInv`: stored and captured events are applied ones in their JSON, the state's numbers fit
  (`CopyFits`), and there is a history from the zero state on which the last stored state, the
  newest snapshot, the object and its staged snapshot lie (`HistoryInv`), unless one went
  astray. `RoundTrip` (into its own struct an event is decoded whole) and `ReplayIsHistory`
  (a load from a point of the history ends at its end) finish the argument. `Replay` is
  recursive: that its recursion has a solution is `ReplayExists`, by a least counterexample.

### Only model-checked

Everything temporal under fairness: `ContextsEnd`, `EveryEventHandled`,
`PauseTakesEffect`, `EveryEventDelivered`, `Regenerates`. Liveness and ENABLED are beyond
the prover.

TLC checks every property that is proved as well, on the instances of section 3, and
`IndInv` as an invariant of run `streams`.

## 5. Not modelled

* Aggregate values kept after a failed context and used again, and write skew between
  contexts that read what the other one writes: listed as hazards, no document promises
  anything.
* Data races inside a method of the memory engine (`base/memory.go:242`).
* Whether a subscription has rows in the join table is asked by a statement before the
  query; the two are one step, since only an `AddSubscriptionEventType` of another caller
  in between could tell them apart.
* Conflicts of import names, paths and formatting in generated code, and the text of
  directives.
* The `withsqlc` build, sqlc's subscription statements that only it uses, connecting and
  migrating: code that does not compile at this commit, or start-up I/O without state.
* Performance, time zones of the lease column, leaked timers: nothing the state of a model
  would show.

## 6. Plan

The core and every component with state of its own are modelled, and what the prover can
reach of their properties is proved. What is left: Aggregate values kept after a failed
context, as a second way to begin one in `EventStore`, with the proofs that go through it.

The number of runs is kept small: a new question joins the run whose instance it can
share, and only one that no instance can carry gets a run of its own.
