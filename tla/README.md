# Formal model of ascetic-ddd

TLA+ modules, TLC configurations and TLAPS proofs kept beside `ascetic_ddd`, a
Python library of building blocks for domain-driven design over PostgreSQL:
transactional outbox and inbox, sagas, sessions with identity maps, envelope
encryption of event streams, batched queries, change propagation over graphs,
specifications that are matched in memory and compiled to SQL, a generator of
consistent test data and one of skeleton code.
Paths below are relative to `ascetic_ddd/`.

Each definition names its source in `PROJECT.json` (`map`). Definitions whose
comment starts with `Bug:` are deliberately wrong variants of the definition
that follows them: `mutants` in `PROJECT.json` says which property each of them
breaks, so that no property holds whatever the code does.

To check: `tlc -config outbox_log.cfg MCOutbox`, and so on for the runs below;
`tlapm OutboxProofs.tla` for the proofs.

## Inventory

| Component | State it keeps | Operations | What is hard | What makes it correct |
|---|---|---|---|---|
| Outbox (`outbox/`) | rows of `outbox`, rows of `outbox_offsets` and their locks | `publish`, `dispatch`, `run`, `set_position` | snapshots older than the lock they wait for, commits out of the order of ids, crash in a batch | no message skipped, order within a group, at least once |
| Inbox (`inbox/`) | rows of `inbox` with `received_position` and `processed_position`, row locks | `publish`, `dispatch`, `run`, iterator | `SKIP LOCKED` with `OFFSET`, dependencies that arrive late, duplicates, several workers | causal order, effects exactly once, nothing blocked for ever |
| Saga (`saga/`) | next work items, completed work logs, effects outside | `process_next`, `undo_last`, parallel and fallback activities, hosts | nested slips, compensations that fail or add work, concurrent branches | what was done and only that is undone, in reverse order |
| Keys (`kms/`, `.../repository/dek_store.py`) | versions of the tenant's KEK, a wrapped DEK per stream | `rotate_kek`, `rewrap`, `get_or_create`, `delete_kek`, `delete` | first use by two sessions, rotation and rewrap against deletion | no key in use is lost, a deleted one stays lost |
| Event store (`.../repository/event_store.py`) | rows of `event_log`, version and pending events of an aggregate | `_save`, `EventGetQuery.evaluate`, `_update`, `fold` | versions that are stale at the insert, part of a batch stored | a batch is appended as a whole after what its author had read |
| Session (`session/`) | open transactions and savepoints, identity map, delegates | `session`, `atomic`, `add`, `get`, `remove` | rollback of a savepoint, weak references against the LRU cache, commit of one of two databases | one object for one row in a transaction, no delegate commits after one behind it failed |
| Change propagation (`dag_change/`, `dag_change_typed/`) | edges in both directions | `register`, `unregister`, `notify` | diamonds, duplicates, cycles, registration while notifying | each affected observer once, after those it depends on |
| Graph algorithms (`graph/`) | none | components, topological sort | iterative against recursive definition | result against definition |
| Batch queries (`batch/`), deferreds (`deferred/`) | collected queries, values, handlers | `execute`, `evaluate`, `resolve`, `reject`, `then`, `all` | queries added by handlers, one failing query of several | every deferred settled, with its own row |
| Signals, mediator, event bus | observers, handlers | `attach`, `notify`, `send`, `publish` | handlers that change the set that is iterated | every handler once |
| Specification (`specification/`) | a parsed template, its bound parameters; the visitor's aliases and numbers | four parsers, `match`, `Transform`, `compile_to_sql` | three ways to read one filter, nested collections and what `@` means in them, parentheses, aliases | every parser means what the template says; the clause selects what matches |
| Faker (`faker/`) | criteria, input and output of each provider, pools of ids, the database | `require`, `populate`, `reset`, queries in memory and in SQL | criteria that arrive on several paths and in several rounds, ids the database gives late, failed rounds | what is required holds, nothing dangles, one row for one object, SQL agrees with memory |
| Scaffold CLI (`cli/scaffold/`) | the domain model, the modules on disk | parse, render, merge | models and modules that change in turn, runs that stop | a merge loses nothing, a run that ended leaves all that is asked for |
| Option, validators, utilities, identities, values | none | pure functions | | |

How they meet: a *session* (one transaction of PostgreSQL) is an argument of
nearly every call and the unit of atomicity of all others. The outbox inserts in
the business session and dispatches in a session of its own; the inbox runs its
subscriber in the session that marks the message; the event store inserts
events, and with the first of them perhaps a DEK and a KEK, in the caller's
session, then publishes to the mediator in it. Sagas keep no table: slips travel
in messages between hosts. The collector of `batch/` answers with deferreds, so
that the two are one module here; the change managers notify in the topological
order that `graph/` computes as well; the faker inserts through repositories and
looks rows up by its own query language, which is apart from `specification/`.

## Modules

    OrderedLog      <- OutboxRefinement -> Outbox      OutboxProofs -> OutboxRefinement
    CausalDelivery  <- Inbox                           InboxProofs  -> Inbox
    EventLog        <- EventStore -> KeyStore          EventStoreProofs -> EventStore
    SagaPathProofs -> SagaProofs -> Saga               SessionProofs -> Session
    Faker -> QueryBackends -> Query
    SpecificationUse -> SpecificationParsers, SpecificationSql -> Specification
    Scaffold -> ScaffoldFiles -> ScaffoldParser
    ChangeGraphProofs -> ChangeGraph <- MCChange with Graph
    BatchProofs -> Batch
    MCOutbox, MCInbox, MCSaga, MCEventStore, MCChange, MCFakerReset,
    MCFaker, MCFakerChildren, MCSpecification, MCScaffold: instances for TLC; MCLibrary
    puts together five components that work inside one process and share no state:
    Session, Batch, SpecificationUse, Scaffold, Faker (twice, over two networks)

`<-` is "is implemented by" (`INSTANCE ... WITH`), `->` is EXTENDS. The modules of
the faker, the specifications and the scaffold use RECURSIVE operators, as the
code walks trees: nothing is proved about them.

### Outbox

One PostgreSQL database at READ COMMITTED. Business transactions (`Write`,
`Publish`, `Commit`, `Abort`) get a transaction id with their first write and
commit in any order. A worker loop of `run()` goes through the steps of
`dispatch()` that another process can come between: `EnsureConsumerGroup` (in a
session of its own), `TakeSnapshot` (the fetch statement starts), then
`FetchMessages` or `FetchNothing` when the lock on the row of `outbox_offsets` is
free, `Deliver` for each message, `Ack` with the commit. `Fail` is an exception
or a crash at any of these, `Restart` is `run()` called again, `SetPosition` an
operator's seek. The fetch is modelled by its parts: offset read under the lock,
rows of the statement's older snapshot, ids below `pg_snapshot_xmin`, filter by
uri and by `hashtext(...) % n` with the sign SQL gives it, `ORDER BY ... LIMIT`.

`OrderedLog` is what consumers may rely on: a log that grows at its end only, and
cursors that pass nothing over. `OutboxRefinement` maps the rows below xmin to
that log.

### Inbox

`Insert`, `CommitInsert`, `InsertDuplicate`, `AbortInsert` are a publisher's
transaction; a duplicate draws a value from the sequence although the row stays.
A worker's transaction: `FetchUnprocessed` (the rows `OFFSET` passes over are
locked as well), `CheckDependencies`, which goes on to the next row when a
dependency is missing, `Handle`, `MarkProcessed`, which draws the position before
the commit, `Commit`. `FetchNothing` ends `dispatch()`, while the iterator sleeps
inside its transaction and holds what it scanned. `CausalDelivery` is the
promise: a message applied once and after its dependencies.

### Saga

A slip is a queue of items and a stack of logs; its driver is one loop, that of
the hosts for the root and that of `ParallelActivity` or `FallbackActivity` for a
nested slip. `ProcessNext` takes the next item; a leaf's `do_work` then succeeds,
fails (None or an Exception) or is cancelled; a parallel item starts all its
branches and joins them with `gather`; a fallback item drives one alternative
after the other. `UndoLast` pops a log, then its compensation runs: it may add
work and turn the hosts forward again, or raise. Drivers interleave at each
await. `applied`, the effects outside, is not in the code: the properties compare
it with the logs.

### KeyStore and EventStore

`KeyStore` has the tables `kms_keys` and `stream_deks` and, per session, the rows
it has written and not committed. Each action is one SQL statement with what
follows it: a session sees its own writes and what is committed, waits for a row
another session has written, and any statement may fail instead (`FailKeys`,
which also stands for KekNotFound, InvalidTag and UniqueViolation). Keys are
numbered, so that two versions 1 of one tenant are told apart, as decryption
does. `EventStore` adds `event_log` and the aggregate: created or loaded (`Create`,
`BeginLoad`, `Fold`), deciding (`Decide`), saved event by event (`BeginSave`,
`InsertEvent`) at the position the aggregate computed. `EventLog` is the promise:
each committed batch follows exactly the events that its author had loaded.

### Session

`Session` is a composite session over delegates, each a Pg session (a transaction,
savepoints for nested scopes) or a REST session (nothing to roll back). `Atomic`
starts to enter a scope, `EnterDelegate` enters one delegate after the other,
`EnterFails` is a connection or an observer that raises; `EndBody` ends the client's
block, with an exception or without, and `CommitDelegate` and `RollbackDelegate`
leave the delegates in reverse. In between the client reads, inserts, updates and
deletes as a repository does: through the identity map, which is the list of
`CacheLru` and weak references. `Level` is the map's isolation level: SERIALIZABLE
also keeps that an object is not there, REPEATABLE_READS keeps only what is, and
the two below disable the map. An object is collected as soon as
neither the list nor the client holds it (`Collected`); `Release` drops one of the
client's. `OtherSessionCommits` is the rest of the world.

### Batch

The deferreds are numbered in the order in which they are made; `query`, `state`, `value`,
`handlers`, `raised` and `group` are what each has, the last being what the closure of
`Deferred.all()` keeps. `queue` is the collector's map and `current` what `evaluate()` has
taken out of it. `Execute` collects; `OnResult`, `FetchAll` and `WaitForAll` hang a client's
callback, the one of `fetchmany()` and those of `all()`. The code recurses from a
`resolve()` through the callbacks into the next: here `calls` is the stack of what is
still to do, and each of `SettleNext` (`resolve()` and `reject()`), `RunHandler` (a callback
and its next deferred, in its six kinds), `AwaitNext` (the loop of `all()`) and `CountErrors`
(`occurred_err()`) is a step. `evaluate()` is `StartEvaluation`, which takes the map out,
`DatabaseAnswers` or `DatabaseFails` for each multi-query of it, and `EndQuery` or
`RaiseErrors` when all its deferreds are resolved. While it awaits the database anything
may be collected; between the resolutions no coroutine gets in (`Quiet`), as
the code has no await there, and only callbacks collect. One coroutine evaluates at a
time. `AnsweredOnce` follows a deferred from `execute()` to its own row.

### ChangeGraph and Graph

The lists of both directions, kept by `Register`, `Unregister` and `UnregisterAll`
with their duplicates, and the typed manager's bindings, `RegisterByType`,
`UnregisterByType`, `AddSubject` and `RemoveSubject`, with the edges it makes of them.
Each of these calls is one step, for none is re-entrant. `Notify` begins a
notification and each turn of its loops is a step: `Visit` and `Return` are
`_collect_affected()`, with the calls that are open as a stack; `TopoSort` counts the
in-degrees, `Enqueue` fills the queue, `TakeNode` and `Relax` are Kahn's two loops and
`Sorted` the return. The order is fixed before the first `update()`; what an
`update()` calls is another call of the API, which `phase = "updating"` admits.
Nothing else happens between the turns, as the code awaits nothing.

`Graph` has Tarjan's algorithm with explicit frames, as in `scc.py`, and
`stable_toposort`: `LeavesOutCycles` compares both with each notification of the
change managers.

### Specification

`Specification` has the tree's nodes and its evaluation, with the context of the
collection item; an exception is the value `Raised`. `SpecificationParsers` reads a
template four ways. The native parser is modelled from tokens, with its index and
its nesting of expressions; jsonpath2, jsonpath-rfc9535 and Python's `ast` parse
for the others, so those start from a tree of the template's shape. `SpecificationSql`
transforms fields and values of composite objects and writes the clause as tokens;
the second half of it reads the clause as PostgreSQL does, by its own precedences,
so that a parenthesis that is missing changes what is selected. `SpecificationUse`
parses, matches again and again with other parameters (`MatchesTemplate`), compiles
and selects (`SelectsWhatMatches`).

### Faker

`Query` is the language: what a query is, the parser, merging (`Conflict`) and the way
back to dicts. `QueryBackends` gives it its two meanings, `Evaluate` in memory and
`Select` in PostgreSQL, with SQL's three values of truth and `@>` of jsonb. `Faker`
has the providers as one state (`Now`): criteria, input, output and whether a value
is transient, per provider; the pools of the references' distributors; the rows.
`RequireOn` and `Populate` map a state to the possible next ones, provider by
provider, as the code recurses; an action is a call that the user makes:
`Require`, `RequireChild`, `PopulateRoot`, `PopulateNetwork` (in any topological order), `Reset`. A
call that raises leaves what it did in memory and rolls the rows back (`Return`).

A dependent provider has what it wants of the child, how many children it makes (`count`, a set
of numbers until the distributor or a requirement fixes one) and whether it has made them
(`defined`). `Reset` walks the nested providers only, as `_do_reset()` does: the dependents
and the clones they made (`Children`) stay as they were, and `RequireChild` of what was required
before changes nothing.

### Scaffold

`ScaffoldParser` reads the domain model: the scope of names that grows with each
import and value object, value objects in two passes with composites sorted by
need, entities, events and the commands that follow from them. `ScaffoldFiles`
walks the model to modules (imports, classes, methods, parameters) and merges a
module into the one that is there. `Scaffold` writes them one by one (`RunScaffold`
stops after the nth, perhaps with the next one opened and empty), lets the model change (`EditModel`) and a developer add,
rewrite and remove.

## Runs

| Run | Instance | States | Shows |
|---|---|---|---|
| `outbox_log` | 2 transactions, 3 messages of one uri, 2 processes of one group, batches of 2, one failure, one seek | 151 k | types; no offset passes an undelivered message; order; nothing of an aborted transaction is delivered; no acknowledged message is in hand again; offsets move back by a seek only; implements `OrderedLog` |
| `outbox_delivery` | 2 transactions, 2 messages over 2 uris, 2 partitions of a prefix filter, batches of 1, one failure | 114 k | a committed message reaches every subscription that reads its uri |
| `outbox_negative_hash` | the same, the hash of one uri negative | | finding 1 |
| `inbox` | 3 messages, two of one stream that depend on one of another, a partitioned loop and an iterator, one duplicate, one failure | 281 k | causal order; exactly one effect; no two messages in one place; processed stays processed; a message whose dependencies are processed is processed; implements `CausalDelivery` |
| `saga_trip` | a flight, three branches (one with a fallback of two providers), a payment; anything fails; root compensations raise or add work; cancellation | 7.7 k | effects are logged and logs applied; one alternative; a failed saga has no effects left; joined work is done; added work is done; reverse order; the saga ends |
| `saga_parallel_raises` | a compensation inside a branch raises | | finding 2 |
| `event_store` | 2 sessions, one stream, 4 keys, 2 KEK versions, 2 events | 657 k | stored events keep their keys; what a delete covered stays gone; implements `EventLog` |
| `event_store_rewrap` | the same, deletes and rewraps may overlap | | finding 3 |
| `faker_reset` | orders and their lines, as in part `lines` of `library` | | finding 5 |
| `specification_sql` | a disjunction inside a conjunction | | finding 4 |
| `change` | 3 subjects, one with a type, and 3 observers, two of them both, up to 4 edges, one binding | 908 k | both directions of the edges are the same; a notification finds what the change reaches; it updates in order; what a cycle leaves out is what `scc.py` finds circular and what is below; it ends |
| `library` | six parts, one behaviour is of one of them: see below | 712 k | the delegates that committed are the last ones; one object per key; a specification matches what its template says and selects what it matches; each query answered once; regeneration adds; what is required of the faker holds of what comes out or the round fails, no reference dangles and no child is an orphan, an object is created once, criteria survive the way through dicts, SQL and memory find the same rows, and until a child is made a round that required one has it |

No run checks `TypeOK`: it is a theorem of each module that has it, for every instance.

The bounds, and why they are enough. `MaxPos`, `MaxDup`, `MaxFailures`,
`MaxSeeks`, `MaxVersion`, `MaxKeys`, `MaxBatch` and `MaxEvents` bound counters.
The races are between two parties: two transactions that commit against the
order of their ids with a dispatcher between them, two dispatchers at one lock
of which one waits with an old snapshot and a third message that it must not
miss, a worker of a partition and one that scans over its locks, two sessions that
make the same key, one failure in each place. One failure is enough for the
safety properties as a failed dispatch leaves no trace but deliveries; the
proofs cover any number of everything for the outbox, the inbox, the event store
with its keys, the session, the change managers and the query collector, and any tree of the saga. The saga's tree holds each pair of nestings the activities
treat differently: leaf and fallback in a parallel item, several leaves in a
branch and in an alternative, a fallback beside it on the root, a composite
between two leaves. Four keys are two KEKs and two DEKs, or three KEKs over a
deletion and a DEK.

The change graphs: four edges over four nodes make the diamond, the cycle with something
above and below it, the pair registered twice and the edge from a node to itself; one
binding and one subject of its type, an observer as well, meet in either order.

The parts of `library`: `session` (a composite with a delegate that cannot roll back, one
before it and one after, each with savepoints; two keys in one table at SERIALIZABLE, a
list of one entry, so that the other object is held by the client or by nothing, and up
to three objects and as many entries after touching; one write besides any deletions: what
a row holds changes nothing in the maps but whether there is one); `batch` (five deferreds: a query, a callback
that raises or collects a query of its own, `all()` of up to two, the same one twice included); `specification` (the templates of the repository's
documentation and tests, three documents with items and categories of goods, five sets of
parameters); `scaffold` (three domain models, of which one takes value objects back
and one, whose composites need each other, is refused; two changes of the model,
one edit, one stop, before, between or in the middle of two writes); `orders` (the smallest
network of the faker in which an order reaches its tenant on two paths, a customer on two
references, one lazy further on, an id comes from the database, and a round loads rows of an
earlier one; a payer may be null; two rows of each aggregate are enough for a choice among
candidates and for a wrong one; two of four queries a round merge, conflict or are refused;
the eleven probes are queries that no provider needs, disjunctions and negations, asked
of whatever rows there are); `lines` (an order with a line that depends on it, three rows of
either, over as many rounds that may each fail, two queries of the order and two of the
line, five probes of lists).

Deadlock is checked in the outbox and inbox runs, where worker loops poll for
ever, and in that of the change managers, where a notification may always begin; a
finished saga, an event store whose bound on keys is reached and the parts of `library`
at their bounds have nothing left to do.

### Fairness

- Outbox: `WF(Commit(t) \/ Abort(t))`, transactions end; `WF(Dispatch(d))`, the
  loop of `run()` polls for ever and is started again after an exception. A
  transaction that stays open holds xmin back for all consumers: without the
  first assumption nothing is delivered, in the code as in the model.
- Inbox: `WF(Work(w))` for the same reason, `WF(CommitInsert(m))`. Nothing makes
  a message arrive: the property starts when it and its dependencies have.
- Saga: weak fairness of each slip's driver: an activity returns or raises. The
  library has no timeouts of its own.
- Change managers: `WF(Turn)`, a notification is synchronous, so that its loops go
  on once it is called.
- No fairness is assumed in the event store and the parts of
  `library`: their properties are safety.

## Proofs

| Theorem | States | Assumes |
|---|---|---|
| `OutboxProofs`: `TypeCorrect`, `NothingSkipped`, `OrderedDelivery`, `CommittedDelivery`, `NoRedeliveryOnceAcked`, `OffsetsOnlyAdvance` | the invariants and `OffsetsAdvance` of `outbox_log` | `OutboxAssumption`; where an offset is shared, `ConsistentPartitions` |
| `OutboxImplementsLog` | the implementation of `OrderedLog` | the same and `ConsistentPartitions` |
| `InboxProofs`: `TypeCorrect`, `CausalConsistency`, `ExactlyOnce`, `TotalOrder`, `ProcessedStays`, `InboxImplementsCausalDelivery` | the invariants, `ProcessedForGood` and the implementation of `CausalDelivery` | `InboxAssumption` |
| `SagaProofs`: `TypeCorrect`, `NoEffectForgotten` | `TypeOK`, `EffectsAreLogged` for every tree of slips | `SagaAssumption` (every nested slip is in one item) |
| `SagaPathProofs`: `CompensatesWorkInPlace` | `LoggedIsApplied` | `OneUse` |
| `TakesUpAddedWork` | `AddedWorkIsDone` | `OneUse`, `AddsInRoot` |
| `JoinsWorkDone` | `JoinedWorkIsDone` | `OneUse`, `CancelsOut`, `CancelsNoBranch` |
| `BackwardPathUndoesAll` | `CompensatedMeansUndone` | `AllHang`, `RaisesInRoot`, `CancelsOut` |
| `OneAlternativeAtATime`, `UndoesInReverse` | `OneAlternative`, `ReverseOrder` | the same and `OneUse` |
| `EventStoreProofs`: `TypeCorrect`, `Implementation` | `TypeOK`, the implementation of `EventLog` | `KeyStoreAssumption`, `EventStoreAssumption` |
| `Shredded`, `ReadableUnlessShredded` | `ShreddedForGood`, `EventsReadable` | the same and `Exclusive` |
| `SessionProofs`: `TypeCorrect`, `LastOnesCommit`, `OneObject` | `TypeOK`, `CommitsFromTheEnd`, `OneObjectPerKey` for every composite, cache and level | `SessionAssumption` (the constants' types, and the three groups of isolation levels) |
| `ChangeGraphProofs`: `TypeCorrect`, `SameEdges`, `FindsAllReached`, `SortsInOrder` | `TypeOK`, `BothDirections`, `ReachesAll`, `UpdatesInOrder` for every graph | `ChangeGraphAssumption` (what has a type is a subject) |
| `BatchProofs`: `TypeCorrect`, `EachAnsweredOnce` | the types, `AnsweredOnce` for any queries, callbacks and number of deferreds | `BatchAssumption` (the constants' types) |

The argument for the outbox. `NoSkippedMessage` is not inductive: when the offset
moves, why should no row appear behind it later? `Settled(x)` is the key, "no
transaction with an id up to x is active or can begin": it holds of every id
below the xmin of any snapshot ever taken and stays true. `SnapInv` says it of
the snapshots in use, even old ones, `GotInv` and `OffsetInv` of everything
delivered or acknowledged; `BatchInv` says that a batch is gap-free after the
offset, which holds as the offset was read under the lock (`LockInv`) and the
rows of settled ids do not change between snapshot and lock. `OffsetsAdvance`
and `NoAckedRedelivery` follow. `ConsistentPartitions` says that loops that share
an offsets row select the same messages; it is what breaks when the number of
workers of a group changes while its offsets stay.

For the inbox: `LockInv`, a row is locked by one worker and stored as long as it
is locked or marked; `ReadyInv`, the dependencies of a message in hand are
processed, which no step undoes; `MarkInv`, a mark drawn and not committed is
below `seq`, above the places of the dependencies, and no other worker's. From
these each commit is `Apply` of `CausalDelivery`, every other step is `Arrive` or
invisible.

For the saga: `OwnInv`, what a slip holds, in its queue, its stack or at work, are
its own items, which `Tree` makes unique; `QuietInv`, a nested slip that is being
driven has its item at work one level up, so a driver is never started twice.
With both, each effect put in place is pushed as a log in the same step, and
logs leave the stack into `cur` under `phase = "undoing"`, which `Logged` counts.

The log of the outbox: a row at or below the xmin was committed or never will be,
so that once `Settled` no step adds, removes or reorders rows there, and
what the xmin passes over comes after all of them (ids are larger).
`StableInv` says that what a dispatcher has in hand is in that part.

The paths of the saga. Its tree is arbitrary, so a hypothesis says what an
instance must respect, and each is one of the code's own limits:

- `OneUse`: an item is one piece of work, in one place of one slip or added by one
  compensation, and never leads to itself. A slip that holds the same activity
  object twice undoes it twice.
- `AllHang`: every slip is below the root.
- `RaisesInRoot`: a compensation raises on the root only; run
  `saga_parallel_raises` shows that the property is false without it.
- `AddsInRoot`: a compensation adds work on the root only; the loops of the
  composite activities ignore it.
- `CancelsOut`, `CancelsNoBranch`: where a cancellation may come from; one that
  reaches a branch is taken by `gather` for a success.

`saga_trip` meets all six. `PlaceInv` is the invariant of the first theorem: each
item is in the queue, in the stack or at work, in one of them and once, and what its
compensation could add is nowhere yet. `IdleInv`, `DoneInv` and `JoinInv` then say
that a branch is idle until its item is at work, has all its work in one of the
three places as long as it goes forward, and that a log stands for branches that
succeeded: joined work is done by induction along the steps, not along the
tree. For `BackwardPathUndoesAll` the depth is arbitrary as well: `HeldInv` says
that a slip with anything to undo is driven by the item that holds it or stands
in that item's log, and `BackInv` that a slip which was sent backward ends there. When
the root has failed, its stack is empty and no item is at work, so the set of slips
with nothing to undo contains the root and is closed under nesting, which makes
it everything (`AllHang`).

`OneAlternative` and `ReverseOrder` speak of the leaves under an item, which
`LeavesUnder` computes by recursion over the depth. `LeavesUnderDef` shows that the recursion
has a solution (the leaves at the end of a way down), and `LeavesIn` that a set of
slips closed under nesting, once it has the branches of an item, has the owners of all
leaves under it; the induction is over a set of depths (`NatSet`, from the least
element of its complement), so that no operator need be instantiated. The closed
sets are two: slips with nothing to undo, and slips that rest (`QuietInv`). With
the first, an effect under an item means that the item is at work or logged
(`EffectsHeld`), and an item holds one alternative (`OneHeld`). With the second, a leaf that is
being compensated has every item above it at work. `OrderInv` is then what reverse order
needs of one slip: its queue and stack keep the order it was built with, and while
an earlier item is at work no later one has its log. A saga whose root was cancelled or
raised makes no more steps (`StoppedAll`), which is why what it leaves
behind refutes neither.

For the event store, `PlaceInv` gives what each program counter has in hand;
`BatchInv` says that a saving session has the rows after `agg.seen` up to
`agg.saved`, all of them, and `PositionInv` that a position of a stream is one
row's, committed or not, which is the unique key. `SeenInv` is where two authors
exclude each other: once the first row of a batch is inserted, the stream ends
where its author had stopped reading, since the row occupies the next position.
With these a commit is one `Append` of `EventLog`.

`ShreddedForGood` needs to know who can bring back a key. `KeyInv` says that serial
numbers are handed out once and a key in the making is in no other hands
(`SerialInv`, `FreshInv`), that a row written is locked by one session
(`LockInv`), what each use case may write there (`WriteInv`), that a rewrap has in hand
the DEK that is stored (`RewrapInv`), that a shredded DEK is under a KEK that is
gone (`GoneInv`) and that a delete deletes what it covers (`VictimInv`).
`Exclusive`, under which no delete overlaps a rewrap, is the constant of the
model that the run `event_store_rewrap` sets to FALSE, and then the property is
false: nothing in the code keeps operators from it. `OpenInv` and `EventKeyInv` follow
a payload to its DEK and the DEK to its KEK, each as its session sees
them.

For the session, `EndInv`: no delegate has ended before the outermost scope is left,
and the ones left so far are committed unless `failing`. And `ObjectInv`: what the
client holds and has not deleted is what the map of its key finds, until the
maps are cleared, because an entry of a held object is not collected, whatever the list
of `CacheLru` has dropped. Two held objects of one key would both be what the map
finds.

For the change managers, the edges first: what an entry appended to a list, and the first of
its kind taken out, do to the count of each value (`CountAppend`, `CountWithout`, a bijection
between the places left), and that a call changes both lists alike (`LinkPaired`,
`UnlinkPaired`). The calls that go through a list are functions of the turns done;
`LoopExists` shows that such a function exists and `LoopInvariant` that what each turn
preserves holds at the end. `CollectInv` is the depth-first search: an observer of a
subject reached is found, or an open call for that subject has not come to it
yet, and every set closed under the change contains what is found. With no
call open, what is found is closed itself. `SortInv` is Kahn's algorithm: an
in-degree is the number of entries of affected subjects not sorted, and how often the loop
at hand still has the observer ahead. Counting starts from the lists of subjects and goes
on along the lists of observers, so this needs `BothDirections` at each `TakeNode`; that
the in-degree is at least 1 at each `Relax`, and so never below 0, follows. What is
in the queue or sorted is then what has in-degree 0, and all that an observer in the
queue observes is sorted. `UpdatesInOrder` holds of cycles too: what is left out
has something left out before it.

For the query collector. `AnsweredOnce` speaks of the moments when no call is left, and says
nothing of the middle of a `resolve()`, from where the next step goes on; the invariant has to.
What would break it is a deferred that is settled twice, so `Linked` says that no two
handlers settle the same one (the deferred of a `then()` or a `fetchmany()` is
made for that handler, and a callback of `all()` hangs once) and `SettledOnce` that what is about
to be settled is pending, once on the stack, and that a handler settles its next deferred
when it runs and never before. `Placed` has each query in the map, in `current` or executed,
and in one place; `Answered` that an executed one is resolved or about to be, with its own
row. `Grouped` relates what the closure of `all()` keeps to the callbacks that have run: the
count is their number, the values theirs, the flag whether one brought an error; a finite set of
callbacks whose number is that of the deferreds is all of them, so that the count
reaches the end exactly when the last has run. Any callback takes one of six forms; what
they have in common, that each settles its next deferred and at most one more, which
is not about to be settled, is `HandlerRuns`, and the parts of the invariant follow from it.

Model-checked only:

- liveness (`AtLeastOnce`, `EventuallyProcessed`, `Terminates`, `NotificationEnds`), which is out of
  the prover's reach;
- the faker, the specifications and the scaffold, whose operators are RECURSIVE, as the code
  recurses, and `Graph`, with it `LeavesOutCycles`.

## Findings

1. `outbox_negative_hash`: `hashtext` is signed and so is `%` in SQL, so a uri
   with a negative hash that is no multiple of the number of workers is in no
   partition, and its messages are never dispatched. The inbox filters with the
   same expression (`outbox.py` and `inbox.py`, the partition filter).
2. `saga_parallel_raises`: compensations of branches run under
   `gather(return_exceptions=True)` and the results are dropped: a compensation
   that raised counts as done.
3. `event_store_rewrap`: `rewrap_dek()` unwraps a DEK, and wraps it with a KEK
   made on the spot if `delete_kek()` has committed in between; the shredded DEK
   can be had again.
4. `specification_sql`: the keys under which the compiler keeps the operators'
   precedences are formatted from the names of `str` enums, and since Python 3.11
   what it looks up is no key. No operator has a precedence, no parentheses are written, and
   `(a OR b) AND c` selects the rows of `a OR (b AND c)`.

5. `faker_reset`: `reset()` of an aggregate passes its dependent providers over. In the next
   round the same requirement of a child changes nothing, `populate()` returns at
   once as its outputs are defined, and the new aggregate has no child; a new requirement meets the
   clone of the round before, which is complete, and raises `DiamondUpdateConflict`.
   What is left of the promise, that the first round with a child makes
   the one that is required, is part of `Satisfied` in `library`.

Other places where the code and its words part, or that its users should know,
without a run of their own.

- Outbox and inbox: the order of delivery is that of transaction ids, which is not
  the order of commits; `_` and `%` in a uri prefix are wildcards of `LIKE`; the
  comment of the inbox iterator speaks of `SKIP LOCKED` where the rows scanned stay
  locked while it sleeps; a message whose dependencies are missing is passed over
  and a later one of its stream handled, unless the stream's order is among the
  causal dependencies.
- Saga: a compensation that raises inside a fallback leaves the alternative half
  undone; the loops of the composite activities ignore a compensation that resumes
  the forward path; a cancelled branch counts as completed.
- Event store: the pending events are cleared before the first insert; the default
  INSERT of `event_insert_query.py` has seven placeholders for eight columns.
- Session: what a savepoint added to the identity map stays there after its
  rollback; `touch()` makes the LRU list longer than its size; `remove()` raises
  ValueError for a key whose object has left the list; `on_atomic_ended` is notified
  before COMMIT, so an observer that raises rolls back.
- Deferred and batch: a handler registered on a deferred from inside one of its
  handlers runs twice; an error in a multi-query leaves those after it unsettled.
- Change managers: observers in a cycle, and all below, are left out of a
  notification in silence, against the EXACTLY ONCE of the docstring;
  `register_by_type()` makes an edge of a subject to itself, which `add_subject()`
  avoids; `unregister()` leaves the mark of an automatic edge, so that an edge
  registered by hand later goes with the binding.
- Specification: a comparison in the native parser takes the parenthesis after it,
  so that `(a || b) && c` in single parentheses is `a || (b && c)`, and what follows
  a nested wildcard is dropped; `_current_item` is not put back after a
  collection; `all()` means `any()` in a lambda; the
  jsonpath2 converter forgets the placeholders of a nested filter when it binds
  those after it; `!=` of a
  composite value is NOT of a conjunction of `!=`; `__div__` is never called.
- Faker: after `reset()` an accessor that is not lazy believes it still observes
  the provider; `visit_rel` leaves the field path shorter than it found it; the
  nullable distributor answers null whatever the specification asks; ids that are
  falsy in Python are not handed to children; clones of an aggregate share its dependents,
  as `_do_clone()` walks the nested providers only too; a query that compiles to no
  condition leaves `WHERE` with nothing behind it in `find()`, a syntax error (`Find` raises).
- Scaffold: a module is opened for writing, which empties it, before its text is
  written: a run that is stopped there loses what a developer had in that module (a longer
  text may also be cut in the middle, and the next merge then cannot parse it);
  `ast.unparse()` drops all comments and layout of a module that is merged; `export()`
  and `_import()` that are there stay without the fields added since; a class keeps
  its bases when its value object changes kind; a parameter added by a merge to an `__init__` with defaults shifts
  them; new members of an enum are never merged; `dispatch_kind` is missing on
  fields, so composite exporters take the lambda's branch; a value object of the
  parent, undotted in an entity, is imported from the entity's package;
  a value object that moves to a package and back leaves the later import
  last; the commands of all aggregates share one directory; `main()` never offers
  the merge.
- Mediator: subscribers that change while a publish iterates over them.

Some of these bound the runs: `Fragile` and `Cancellable` of `saga_trip` hold
leaves of the root, and of an alternative outside the branches, only; `Exclusive`
keeps rewraps apart from deletes in `event_store`; templates are spelt with double
parentheses around a group and with nested wildcards at the end, as the
repository's own tests do; the expressions of `library` nest no disjunction in
a conjunction; only the payer is nullable and no query speaks of it.

## Plan

Done: Outbox, Inbox, Saga, KeyStore, EventStore, Session, Batch with Deferred,
ChangeGraph and Graph, Specification, Faker, Scaffold.

Proved: what the table above lists.

1. `SagaHosts`: slips as messages delivered at least once.
2. Outbox: clean-up of old rows, a change of the number of workers.

## Not modelled

SQL text, JSON, formatting and logging; creation of tables; the Vault service
(each operation is one request to it); the observers of sessions and queries;
the Tortoise session (the Pg one over another driver). `Mediator.publish` inside `_save` calls
handlers in the same session: one that raises is `Fail`. Signals, disposables,
mediator and event bus are synchronous lists of callbacks without a state worth a
module. `option/`, `validators/`, `utils/`, values and identities are pure.

Of the specifications: the characters of the lexer and the error messages, string
operands, division, modulo and shifts, NULL in SQL comparisons, `all()`, and
comparison methods (`.Eq()`) in lambdas. Of the faker: the shapes of the
distributions (a choice stands for each) and distributors of values, cloning,
`SequenceProvider` and `EntityProvider`, comparisons of order outside `$len`,
`$rel` inside a conjunction, `$is_null` against JSON's null, the sequencers,
`pg_dump`, and the aspect-oriented and functional variants of the providers. Of
the scaffold: the text of the templates past imports, classes, methods and
parameters, the framework's own imports, members of an enum, defaults of
parameters, bases of classes, `import ... as`, the case and the inflection of names. `PROJECT.json`
lists each component with its reason.
