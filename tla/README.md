# Verification of ReadySet

ReadySet caches the results of SQL queries by maintaining them incrementally.
Queries become a graph of dataflow operators over base tables; results are kept
in *readers*, most of them *partial*: a key is filled when somebody asks for it
and may be evicted again. The base tables follow an upstream MySQL or PostgreSQL
database; an adapter speaks its protocol and sends upstream what ReadySet cannot
answer. This directory holds TLA+ models of the parts of the system that are hard
to get right, TLC configurations that check them on small instances, and proofs
checked by TLAPS.

Paths below are relative to `src/`; `domain` is
`readyset-dataflow/src/domain/mod.rs`.

## 1. The system

| part | state | operations | what is hard about it |
|---|---|---|---|
| reader map (`reader-map`, on left-right) | two copies of a map, an operation log | add, remove, clear, ranges, evict, publish; enter and leave | the copies must stay equal although each sees every operation at another time; a copy may be written only when nobody reads it |
| readers (`readyset-dataflow/src/backlog`) | map of filled keys, notification channel, eviction epoch | add, mark filled, mark hole, swap, notify | notification and publication are two steps |
| read requests (`readyset-server/src/worker/readers.rs`) | a handle per connection, queue of blocked reads | lookup, subscribe, trigger, retry, time out | three threads; a wake-up may come before anybody waits |
| domains (`domain`) | nodes, state, replay paths, waiting redos, mode | message, replay request, replay piece, evict, finish, ready, purge | replays race with writes, evictions and one another |
| union (`ops/union.rs`) | buffered replay pieces; full wait state | on_input_raw, on_eviction | must make one replay of several that arrive apart |
| other operators (`ops`, `node/special`) | aggregation, top-k, join, paginate, sharder, egress with packet filter | on_input | lookups that miss; the filter must let through what was asked for |
| base tables (`node/special/base.rs`) | – | process_ops | a batch is folded per key, against rows stored before it |
| state (`dataflow-state`) | rows per index, holes; RocksDB families and a meta key | process records, lookup, mark, evict, add an index, open | offset and rows must be written together; a crash between two calls into RocksDB |
| worker (`worker/replica.rs`, `worker/mod.rs`) | domains, connections | event loop, sending | packets of a failed send are dropped |
| controller (`readyset-server/src/controller`) and authority (`readyset-client/src/consensus`) | leadership, workers, the controller state in Consul | elect, update the state, register, shut down | leadership changes under way; the state is written in chunks |
| recipe (`controller/sql`) | registry of expressions and names, MIR graph with shared nodes, schemas | create and drop tables, views, types, caches | three records of what depends on what; names that change their meaning |
| replicators (`replicators`) | offset per table and of the schema | snapshot, catch up, apply, resnapshot | crash between two writes of offsets; tables at different positions |
| adapter (`readyset-adapter`) | query status shared by connections and tasks | execute, migrate, synchronise, drop | status read before a call and written after it |
| client, SQL, protocols | – | – | sequential |

The parts of a read that misses: the request handler looks in the reader map,
subscribes, and sends a *trigger* to the reader's domain. The domain asks the
domain where the replay path starts for the key; if the key is a hole there, the
request waits as a *redo* until that hole has been filled from further up. The
answer, a *replay piece*, comes down the channel that also carries the writes,
through unions (which wait for the pieces of all parents), egresses and filters,
fills the reader, which publishes its map and notifies; the retry task of the
connection looks again. A new full materialization is built by *full replays* in
the same channels.

The parts of a write: the replicator reads the upstream log and sends each table
its operations in a batch that ends with the position in the log. The base node
folds the batch into records, stores rows and position in one write to RocksDB, and
forwards the records. After a failure the replicator asks every table and the
controller how far they got, and goes on from there.

The parts of a query: a connection of the adapter looks up the status of the query,
shared by all connections, and reads from the server or sends the query upstream;
meanwhile the migration handler asks the server to build what is pending, and the
views synchronizer asks which views exist. The server's recipe resolves the names
of the query, compiles it into the MIR graph and registers it; a leader, elected
through Consul, keeps the result in the controller state.

`PROJECT.json` lists all components with their state of modelling, and the hazards.

## 2. Modules

| module | models | state and actions |
|---|---|---|
| `ReaderMap` | `reader-map/src/{write,inner,read}.rs`; left-right is external | `copies`, `w` (the write copy), `oplog`, `swap_index`, `first`, `second` are left-right's fields; `wpc` is where `publish` is; one action per step of it (`PublishWait`, `AbsorbSecond`, `AbsorbFirst`, `Swap`, `RecordEpochs`), `AddOp` for every queued operation, `EvictKeys`; a reader enters in two steps (`EnterEpoch`, `EnterLoad`) |
| `Waiting` | struct `Waiting`, `on_replay_misses`, the end of `handle_replay` (`domain`) | operators on the two maps `redos` and `holes` |
| `Upqueries` | partial replays: `domain`, `process.rs`, `reader.rs`, `egress.rs`, `packet_filter.rs`, `memory_state.rs` | a base table, a partial node `mid` and reader domains, with FIFO channels; an action is the handling of one packet: `MidMessage`, `MidRequest` (`seed_all`), `MidReplayPiece` (`handle_replay`), `MidDelayed`, `MidEvict`, `ReaderMessage`, `ReaderReplayPiece`, `ReaderEvictKeys`, `ReaderEvict`, `ReaderRequest`, `BaseWrite`, `BaseReplay` |
| `BlockingRead` | `worker/readers.rs`, `backlog/mod.rs`, the reader's domain | per connection the handler (`Call`, `Lookup`, `Subscribe`, `Trigger`, `Enqueue`) and the retry task (`Wake`, `Check`, `CheckLookup`, `Recheck`, `Expire`); the domain publishes (`Fill`, `Evict`, `TimedPurge`) and notifies in a step of its own |
| `UnionReplay` | the partial half of `union.rs`, with `handle_eviction` | parents, the union with `pieces`, and a reader; `UnionMessage`, `UnionReplayPiece`, `UnionEvictKeys` |
| `FullReplay` | the full half of `union.rs`, `StartReplay`, `handle_replay` and `finish_replay` of a full replay, the controller's polling | parents with chunker threads, `wait` (`FullWait`), the target's `mode` and `buffered` |
| `MaterializedView` | – (specification of what `FullReplay` promises) | a view that comes into being in one step and then receives every write once, in order |
| `Base` | `node/special/base.rs` | operators: `process_keyed`, `process_unkeyed` turn a batch of table operations into records (`ProcessGroup`, `ApplyOp`, `RecordsOf`) |
| `PersistentState` | `dataflow-state/src/persistent_state.rs`; RocksDB is external | the fields in memory, `cfs` (families as reads see them), `disk` (what a crash leaves), `todo` (calls into RocksDB still to be made): `process_records`, `add_key`, `enable_snapshot_mode`, `disable_snapshot_mode`, `Call`, `BackgroundFlush`, `Restart` |
| `BaseTable` | the two together, with a replicator as environment | `Stream`, `Step` (a call into RocksDB and, behind the last, the acknowledgement), `Redeliver`, `EnterSnapshot`, `CopyRow`, `FinishRows`, `LeaveSnapshot`, `AddKey`, `Crash` |
| `UpstreamLog` | the upstream log (external) | what a table holds at a position (`Content`) |
| `Replication` | `replicators/src/noria_adapter.rs` and the snapshots and connectors of MySQL and PostgreSQL | `Start`, `LoadRecipe`, `SetSchema`, `TakeTable`, `FinishTable`, `Connect`, `CaughtUp`; one action per kind of log entry (`handle_table_actions`, `handle_ddl_change`, `HandleAlter`, `HandleRotate`, `deny_replication_for_table`, the two skips); `ForwardTable` is a step of `handle_log_position`; `Deliver` is a batch reaching its table; `RetryTable`, `Crash` |
| `UpstreamReplica` | – (specification of what `Replication` promises) | each table is at a position of the log, holds what the upstream table held there, and moves forward |
| `QueryStatusCache` | `readyset-adapter/src/query_status_cache.rs` | operators on the map of statuses, one per method |
| `Adapter` | `backend.rs`, `noria_connector.rs`, `migration_handler.rs`, `views_synchronizer.rs` | per actor the operation in flight, cut at every await: what is done up to a request, the request (`get_view`, `get_noria_view`, `do_read`, `Migrate`), and what is done with the answer, or with its loss (`QueryReturns`, `PrepareReturns`, `ExecuteReturns`, `MigrateReturns`, `PollReturns` …); `schema` is how the schema of a query's view compares with the upstream's, `dubious` the queries whose validation once found fault |
| `ExprRegistry` | `controller/sql/registry.rs` | operators on the registry, one per method |
| `SqlToMirConverter` | `controller/sql/mir/mod.rs` | operators on the MIR graph: nodes with owners, `remove_query`, `remove_dependent_nodes` |
| `SqlIncorporator` | `controller/sql/mod.rs`, `resolve_schemas.rs`, `star_expansion.rs` | `recipe`; an action per change of a changelist (`CreateTable`, `CreateView`, `CreateCache`, `CreateType`, `AlterType`, `DropType`, `DropRelation`, `AddNonReplicatedRelation`, `DropCache`, `DropAllCaches`). A change that fails leaves the recipe as it was |
| `ConsulAuthority` | `readyset-client/src/consensus/consul.rs`; Consul's sessions and locks are external | keys with the session that locks them; `update_controller_state` as one step per HTTP request |
| `Controller` | `controller/mod.rs`, `controller/inner.rs` | per server the authority task (`GetLeader`, `BecomeLeader`, `ReadBack`, `Elected`, `Heartbeat`, `update_worker_state`) and the thread that owns the `Leader` (`HandleWonLeaderElection`, `HandleWorkers`, `Request`, `Committed`, `Surrender`). The authority knows workers by their sessions, the `Leader` by their addresses (`worker_uri`), which a server started again keeps |
| `MC*` | instances for TLC | |
| `ReaderMapProofs`, `BlockingReadProofs`, `AdapterProofs` | theorems about the module of that name | |
| `UpqueriesProofs`, `FlowProofs`, `MonotonicReadsProofs` | theorems about `Waiting` and `Upqueries`, each module on top of the one before | |
| `ControllerProofs`, `ControllerStateProofs` | theorems about `ConsulAuthority` and `Controller`, the second module on top of the first | |

How they fit: `Upqueries` uses `Waiting`, and treats publishing as one step, which
`ReaderMap` takes apart. `BlockingRead` treats a replay as a key that is
requested until it is answered; that it is answered is `RequestsAnswered` of
`Upqueries`. `UnionReplay` fills the holes of a parent in one step, which is what
`Upqueries` takes apart. `FullReplay` implements `MaterializedView`.
`Replication` takes a base table as one that applies a batch and its offset in one
step and keeps them; that it does is `RowsExact` and `DurableOffset` of `BaseTable`.
In the other direction `BaseTable` has the replicator as its environment: batches in
order, possibly again. `Replication` implements `UpstreamReplica`. `Adapter` knows of
the server which views exist; `SqlIncorporator` is how they come and go, and
`Controller` how the state that holds them is kept when the leader changes.

Data is abstracted to what the properties tell apart: rows are counted per key
(`Upqueries`), per parent and key (`UnionReplay`), or named by parent and number
(`FullReplay`, where a duplicate must be told from a different row). In
`Replication` the rows of a table are how often each entry of the log was applied;
in `Controller` the state is the set of changes made. A statement of
`SqlIncorporator` is the relations it reads, the types it casts to, a literal and
a shape. A key
comparison is a set of keys: a singleton under a hash index, a run of neighbours
under a BTree index. Metrics, tracing and timing are left out.

External code, modelled from how it is used: left-right's `publish` with its
epochs, and tokio's broadcast channel of capacity 1, of which a receiver is known
by whether it has an unread message; RocksDB's families, write-ahead log and
flushes; the upstream log and the databases' locks; Consul's keys and sessions.

## 3. Runs

All bounds are constants named `Max…`, in the guards of the actions they bound.

| run | checks | instance |
|---|---|---|
| `ReaderMap` | `CopiesConverge`: the index that `absorb_first` stored is right for `absorb_second`. `EvictSeesLatest`, `GuardedCopyStable`, `PublishTerminates` | two keys, two values, every kind of operation, up to three of them before, between and after publishes; one reader that keeps entering. Three operations put one in the log of a publish while two others are absorbed, the first and the second time. More readers: see the theorem |
| `Upqueries_replicas` | `WaitingConsistent`, `ReaderCurrent`, `HoleBackfilledOnce`, `MonotonicReads`, `RequestsAnswered` | one key, two replicas of a filtered reader, two writes, two evictions: a replica's request can meet the other's redo, its answer, and an eviction between them, and both replicas' redos can need the same hole |
| `Upqueries_ranges` | `ReaderCurrent`, `RequestsAnswered` | one reader, three keys in order, a point and the range around it: once the point is filled, a lookup of the range misses in two runs, so a redo waits for two holes. Two readers with ranges that overlap: section 5 |
| `BlockingRead` | `NoLostWakeup`, `SubscribedReadsAnswered`, `PolledReadsAnswered` | one connection whose handler and retry task run at the same time. The initial state chooses between a domain that evicts, purges and removes the reader, and two reads of two keys that are filled together or apart. Connections share nothing but the reader's map and channel |
| `UnionReplay` | `ViewCurrent`, `ReplaysReleased` | two keys (a piece of two keys may complete one of them), a local and a remote parent, a write and an eviction |
| `FullReplay_view` | `BuildsView` | one parent, up to five rows in batches of two: no row, less than a batch, whole batches, a remainder |
| `FullReplay_union` | `TargetExact`, `ReplayCompletes` | three parents, two of them remote and symmetric, two writes each in batches of one |
| `BaseTable` | `RowsExact`, `LookupsExact`, `DurableOffset`, `ForwardsTheChange` | the three kinds of table (primary key, unique key, no key), batches of up to two operations (a truncation also behind another operation; without a primary key, deletions also of the batch's own rows, and operations that the node refuses), two offsets (a batch before and one behind a crash), two faults (a crash, or an acknowledgement that is lost and its batch sent again), two indices besides the first. Without crashes inside the building of an index and without updates of the key (section 5) |
| `Replication` | `ConsistentCut`, `NoDdlSkipped`, `Follows`, `CatchesUp` | two tables, MySQL (writes, CREATE, ALTER, rotation) and PostgreSQL (writes, ALTER, an unreadable change), up to five log entries, two failures, but not the two kinds of failure that lose entries (section 5). `SafeToFail` allows, of MySQL, failures in every phase but, once all tables have an offset, the end of a snapshot and catching up; of PostgreSQL, those before the first table has an offset and, once all have one, while the replicator starts, connects or streams |
| `Adapter` | `ReadsWhatWasPrepared`, `ProxiedUnlessAlways`, `UnsupportedStays`, `Decides`, `Noticed` | the initial state chooses one of seven deployments: two connections with one query, one connection with two, each migration style, with queries validated against the upstream or not; two or three statements of clients, every outcome of every request, lost answers included |
| `SqlIncorporator` | `AliasesResolve`, `NoneOutlivesItsTables`, `ReadsWhatNamesMean`, `AlteredTypeDropsReaders` | the initial state chooses one of six small schemas: a table name in two schemas, which may be recorded as not replicated; a view joined with it; a table with a column of a custom type below a view; a query that casts to the type; a view that does; a statement that reuses another's cache. No bound on the number of changes but two compilations of a name at a time |
| `Controller` | `StateReadable`, `AcknowledgedIsDurable`, `OnlyTheLeaderStores`, `AlwaysLed` | two servers that may lead and a third that is the second one started again at its address, one change that makes the state grow from one key to two chunks, a crash or lost session or shutdown at any step, a failed write or read of the leader key. A behaviour is followed up to the step in which a leader misreads its own key (`BeforeMisread`; section 5) |

Deadlock is checked for `ReaderMap` and `SqlIncorporator`, where something can
always happen. The
others stop when the writes, requests and evictions their bounds allow are used
up, so their configurations turn the check off; that they do not stop too early
is what the liveness properties and `ReplayCompletes` say.

The runs check what a reader should know. The modules state more, which is true of
the same instances and can be added to the configurations: the type invariants
(`TypeOK` of each module; three of them are proved, section 4), and statements between
the steps and the properties above, helpful when one of these fails:
`PublishExposesAll`, `NoDomainFails`, `MidCurrent`, `BackfillUnderWay`,
`RequestUnderWay`, `RequestedKeysAreHoles`, `MissingKeysRequested`, `NoDoublePiece`,
`OneAnswerPerParent`, `FamiliesKnown`, `AcknowledgedIsDurable` (of `BaseTable`)
and `TablesExact` (which follows from `Follows`).

Some properties have exceptions, all of them because of what section 5 describes:
`NoLostWakeup` and `SubscribedReadsAnswered` leave out reads for which the map was
published between lookup and subscription, and the latter reads from which a key
was taken; `ViewCurrent` leaves out a parent whose eviction passed the union
behind its own buffered piece; `TargetExact` leaves out rows that passed the union
before the target was told of the replay; `UnsupportedStays` allows the insertion
of a lookup that found no status, which is not atomic; `Decides` leaves out queries
with which validation has found fault; `RowsExact`, `DurableOffset` and
`ForwardsTheChange` leave out batches that the base node reorders, and the last also
what is forwarded of a batch that arrived again; `NoneOutlivesItsTables` leaves out
views created again once they are compiled, and `AlteredTypeDropsReaders` these and
caches whose type was dropped and made anew; `ReadsWhatNamesMean` is about caches
that read no view, and leaves out relations recorded as not replicated after the
cache was made; `StateReadable`, `AcknowledgedIsDurable` and `AlwaysLed` end where a
leader misreads its own key, and the last leaves out an address that was taken again
before its old session had ended.

### Fairness

Weak fairness, of steps of the system only; nothing is assumed of writes,
evictions, lookups or purges.

- `ReaderMap`: the writer inside `publish` (it runs on the domain's thread without
  yielding) and a reader's steps from entering to leaving (a guard lives for one
  lookup).
- `Upqueries`, `UnionReplay`: a domain takes the next packet of each of its
  channels (`Replica::run` polls them all; the queue of a destination is drained
  in order).
- `BlockingRead`: handler, retry task, notification, and the clock. That a
  requested replay arrives is `RequestsAnswered`.
- `FullReplay`: channels as above, the chunker thread, and the controller, which
  polls `QueryReplayDone`.
- `Replication`: the replicator and the base tables (`Replicate`): its task is
  restarted whenever it fails, and a batch that was sent is delivered. `CatchesUp`
  says what holds in the end because the log and the failures are bounded.
- `Adapter`: the migration handler and the synchronizer, which loop on a timer; the
  answer to a request; the passing of `max_retry`. Clients owe nothing.
- `Controller`: both tasks of a server that may lead, and Consul's time-out of a
  session that is not renewed. Crashes and failed requests are not fair.
- `BaseTable`, `SqlIncorporator`: safety only.

## 4. Theorems

TLAPS proves these for every value of the constants allowed by the named
assumptions, which TLC evaluates in the runs. `ReaderMapAssumption`,
`UpqueriesAssumption`, `BlockingReadAssumption`, `NumChunksAssumption` and
`ControllerAssumption` only give the constants their types; `NoneAssumption` and
`LeaderAssumption` say that the model's `None` is no server, state or task, and
`AdapterAssumption` that it is no query or status, that the migration handler is no
connection, and that a client may prepare at least one statement.

**`GuardedCopyNeverWritten`: `Spec => GuardedCopyStable`.** A map does not change
under a guard, for any number of readers. The property is not inductive: it needs
to know why the writer may write. The invariant `Isolation` says that a reader on
the write copy is one that the next publish waits for, unless the swap has just
happened and the epochs are not yet recorded (`StaleReadersPinned`), and that
nobody is waited for while the writer works, or before the first publish
(`WriterAlone`). `IsolationInvariant` proves it, one case per action; each write
then falls in a state where no guard is on the copy.

**`CopiesAgreeWithHistory`: `Spec => []CopiesConverge`.** Each copy holds what the
operations it has absorbed amount to. The invariant `Convergence` adds to `Isolation`
where each copy stands in the history of operations in each phase of a publish
(`LogPhases`, `Positions`), and that a log entry which the first copy has absorbed
carries the index that the second will need (`EntryFits`). `EvictionSeesLatest`
(`[]EvictSeesLatest`) and `PublishIsAtomic` (`PublishExposesAll`: what readers see
changes only to the result of everything queued before) follow from it.

**`WaitingStaysConsistent`: `Spec => []WaitingConsistent`.** The two maps of
`Waiting` describe the same pairs of hole and redo: no hole without a redo, and
each redo counts exactly the holes that name it. The assertions and `unwrap`s at
the end of `handle_replay` rest on it. Both operations preserve it
(`MissesKeepConsistent`, `BackfillKeepsConsistent`), by a lemma on cardinalities of
disjoint unions. In the composed system they apply only to finite
sets of misses and to keys of the right kind, so the invariant `Bookkeeping` adds
the types of all variables, in a form that gives the fields of a packet from its
type (`PacketSet`). `BookkeepingInductive` has one case per action, and lemmas for
the handlers that several actions share.

**`UpqueriesTyped`: `Spec => []TypeOK`** follows from the same invariant.

**`ReadersStayCurrent`: `Spec => []ReaderCurrent`, `MidStaysCurrent`: `Spec =>
[]MidCurrent`.** Neither a replay that races with writes, nor an eviction, nor the
egress filter loses a row or applies one twice, for any number of keys, replicas and
reader nodes, filtered or not. Both properties speak of states only; what makes them
inductive is the same statement about every replay on its way. `Flow` says it of one
channel from a source to a state: whoever holds n rows of a key after the first i
packets will hold all of the source's once it has taken the rest, or is told to
forget the key (`Follows`), for i = 0 and the state itself, and for every replay in
the channel and its position. One lemma for each thing that happens to a channel (a
row, replay or eviction sent; one taken; a key forgotten; a row that the filter holds
back) shows that `Flow` is kept, and `FlowsInductive` applies them to the channel
into `mid` and to the channel of each reader. No recursion over a channel is needed,
as `InFlight` is a cardinality.

**`PointsBackfilledOnce`: `Spec => []HoleBackfilledOnce`.** However many redos miss a
key, one backfill of it is under way. The invariant `HolesOnce` says that every key
comparison that is asked of the base, or answered, is a hole that `mid` waits for,
and stands in one request or one answer; `seed_all` asks only for comparisons nobody
waits for, and an answer takes its hole away. `HolesOnce` holds for ranges too; under
`PointKeys` different comparisons share no key, so that it gives the property.

**`ReadsAreMonotonic`: `Spec => MonotonicReads`** (an action property). An eviction
makes a reader forget, and a later replay brings the key back: it must not bring
fewer rows than were shown. `Rising` says that along the channel of a reader the
level of each replay, its rows and those behind it, does not fall: it begins with
what was shown and ends with the writes that have passed `mid` (`Passed`), which
`MidStaysCurrent` compares with the rows of `mid`.

`MidStaysCurrent`, `ReadersStayCurrent`, `PointsBackfilledOnce` and
`ReadsAreMonotonic` assume `~Ordered`, a hash index, where a key comparison is a point
(`PointKeys`). With a BTree index the egress forgets only comparisons that are equal
to an evicted one, and two ranges that overlap are backfilled twice (section 5), so
`HoleBackfilledOnce` is false for some ranges and `Flow` needs another account of
what the filter lets pass; `Upqueries_ranges` checks one instance.

**`NoWakeupLost`: `Spec => []NoLostWakeup`.** A blocked read whose keys are all
filled will be looked at again, for any number of connections, keys and reads in the
queue. The invariant `Wakeups` follows a read from its lookup to the retry task. A
call between lookup and subscription knows exactly what is missing unless the map was
published in between (`CallHears`); from the subscription on, the filling of its last
key leaves a message in its receiver or a notification under way (`Ahead`), also while
the call is still on its way to the queue; and a read that subscribed does not wait
for a timestamp, so that the check after its wake-up does not fail for that
(`ReadsHear`).

**`RequestsAreForHoles`, `MissingKeysOnTheWay`** (`[]RequestedKeysAreHoles`,
`[]MissingKeysRequested`): no replay is requested of a filled key, and as long as no
key is taken from the reader every key that a blocked read waits for is filled,
requested, or in a request at the domain. With `NoWakeupLost` and the arrival of
replays that is why such a read is answered. The second needs that a call asks for
what its lookup missed before it is queued (`CallAsks`). **`BlockingReadTyped`** has
the types.

The adapter's safety properties are proved from one invariant, `Declares`, for any
connections, queries and deployments: the queries that the status cache has as ALWAYS
were declared ALWAYS by some client; and of each connection (`ConnOk`): a statement
that can run on ReadySet has its query stored in the connector under its identifier
(`StatementsOk`); a prepare that is waiting for an answer goes to the identifier
behind the last, and one that was answered has stored its query (`PreparesOk`); a
read that is waiting for an answer while the connection proxies is of a query
declared ALWAYS (`ReadsOk`). The last two are what holds across an await, when the
migration handler, the synchronizer, other connections and other adapters may have
changed the status. As they change no connection, they can only disturb what a
connection knows of the cache, and that only grows (`ConnOkMonotone`,
`BackgroundStep`).

- **`ExecutesWhatWasPrepared`: `Spec => []ReadsWhatWasPrepared`**
- **`ProxiesUnlessAlways`: `Spec => []ProxiedUnlessAlways`**
- **`UnsupportedRemains`: `Spec => UnsupportedStays`** (an action property): every
  method of the status cache keeps the verdict (`Keeps`), but for the insertion of a
  lookup that found nothing.
- **`AdapterTyped`: `Spec => []TypeOK`**

The controller's three safety properties are proved in three layers, each
extending the invariant of the one before. They rest on what one request to Consul
does to the keys and to the caller (`ValueOutcome`, `ReadOutcome`, `WriteOutcome`,
`CallStates`), on the types and the bookkeeping of the two tasks of a server
(`Tasks`: which calls are under way, and that they end with the `Leader`), and on a
step being a step of one server.

**`LeaderKeyGuardsState`: `Spec => OnlyTheLeaderStores`** (an action property).
`KInv` adds `HoldsKey`: a live server that stands in the middle of an election,
has its result on the way to the controller, or has a `Leader`, owns the session
that locks the leader key. It holds because every way of losing the key ends the
session, after which Consul refuses the server's requests; nothing is assumed
about failures.

**`StateIsReadable`: `Spec => []StateReadable`.** Whatever version the state key
names, its chunks are all there and cut from one state, until a leader misreads its
own key. `RInv` adds that a server leads once (`LeadsOnce`: it does not stand for
election while it leads, so of all live servers and both their threads at most one
call writes, `OneCall`), and `WritesElsewhere`: an update under way writes chunks of
another version than the one the state key names, and by the time it sets the key has
written all of them.

**`AcknowledgedStaysStored`: `Spec => []AcknowledgedIsDurable`.** A change whose
request was answered is in the stored state, until a leader misreads its own key. The
invariant `AInv` is about `Promised`, what was answered or is about to be: all of it
is stored, and whatever a live server may still store contains it (`Keeps`): the
state of its `Leader`, of the result of an election on its way, of its task, and of a
call of either thread; an election that is reading has seen nothing but what is
stored. Promises grow in one kind of step only (`PromisedStep`), a commit that
reaches the state key, and at that moment no other live server leads.

Nothing is assumed about failures in these two either; `RInv` and `AInv` are proved
to be kept by every step that does not set `misread`, a history variable. It becomes
true in one step only: a server whose session locks the leader key fails to read it
and takes that for the absence of a leader. From there on `LeadsOnce` may be false,
and so may what both properties say (section 5). `misread` stays true
(`MisreadStays`).

Before it was proved each inductive invariant was checked by TLC on the run of its
component, without the conjuncts that only give a type (those range over all natural
numbers).

Model-checked only:

- Liveness, which is out of the prover's reach: `PublishTerminates`,
  `RequestsAnswered`, `SubscribedReadsAnswered`, `PolledReadsAnswered`,
  `ReplaysReleased`, `CatchesUp`, `Decides`, `Noticed`, `AlwaysLed`.
- `ReaderCurrent` with ranges (above).
- `RowsExact`, `LookupsExact` and `ForwardsTheChange` of `BaseTable`, which compare a
  fold over the operations of a batch with another one: an induction over data, which
  this prover cannot do. `DurableOffset` of the same module was not attempted.
- `AliasesResolve`, `NoneOutlivesItsTables`, `ReadsWhatNamesMean` and
  `AlteredTypeDropsReaders` of `SqlIncorporator`, whose operators are recursive over
  the MIR graph.
- `ViewCurrent`, `TargetExact`, `ReplayCompletes`, `ConsistentCut`, `NoDdlSkipped` and
  the refinements `BuildsView` and `Follows`. Their inductive invariants relate the
  offsets, phases and restarts of every table in `Replication`, and what is buffered
  for each pending piece in `UnionReplay` and `FullReplay`. No argument against a
  proof is known; none was attempted.

## 5. Where code and comments disagree, and what the checks leave out

Each of these is in the models. The instances of section 3 exclude it with a
constant, or the property names it as an exception; the constants in brackets
bring it back.

Replays and reads:

- A hole is found by its exact key comparison, so two readers that ask for ranges
  that overlap have the keys these share backfilled twice, and the partial node
  counts the rows of such a key twice; the comment on `Waiting` (`domain:206`) says
  that a hole is requested once. [`Ordered = TRUE`, two readers, `Requests <- Ranges`:
  `HoleBackfilledOnce`, `ReaderCurrent`]
- The retry task's handle is cloned when first needed and starts at epoch 0. A key
  that was filled and evicted before is not triggered again, nothing wakes the
  read, and its timeout is looked at only after a wake-up. A timed purge, which
  neither notifies nor advances the epoch, has the same effect. (`BlockingRead`,
  reads from which a key was taken)
- Publishing between a miss and the subscription is possible although both are
  under one guard, which keeps the copy but not the pointer (`multir.rs:233`; the
  history field `swapped`).
- The union argues that a write it absorbed may also be emitted, because the
  target drops it. A target in the union's domain does not: the domain is
  replaying already and buffers it. [`SameDomain = TRUE` with several parents:
  `TargetExact`]
- An empty piece that is not the last is dropped on its way, and the announcement
  of a full replay is one. A target in another domain starts to buffer with the
  first chunk only.
- The union notes an eviction behind a buffered piece and never sends it, and does
  not find the piece when the eviction comes along another path than the first
  (`union.rs:987`, `:889`; the history variable `passed`).
- `sync_with` leaves out metadata and timestamp, so one set before the first
  publish is gone after the second (`write.rs:437`).

Base tables:

- A batch is folded key by key: an update that moves row 2 to key 1 followed by a
  deletion of key 1 leaves row 1. [`KeyUpdates = TRUE`: `RowsExact`]
- A crash while an index is built leaves it incomplete, and it is taken for
  complete after the restart. [`CrashWhileIndexing = TRUE`: `LookupsExact`]
- A batch delivered again, because its acknowledgement was lost, is not stored again
  but is forwarded again; what it amounts to is computed against rows that include
  it, which is nothing if the table has a primary key and the batch says what the
  rows are. [`ForwardsOnce`]
- A truncation is applied before the other operations of its batch, also those in
  front of it: `[Insert, Truncate]`, which the PostgreSQL connector may send
  (`connector.rs:534`), leaves the row (the comment at `base.rs:231` says that only
  an offset can be moved to the front). Of two copies of a row that one batch removes
  from a table without a primary key, both removals find the same stored row, and one
  copy stays (`persistent_state.rs:1658`). The history variable `skewed` has the
  offsets of these batches. [`AllRowsExact`]
- A table without a primary key refuses a truncation and an operation by key, and the
  removal of a row that the same batch inserted, which it looks for among the stored
  rows. The error ends the domain, the worker panics (`worker/mod.rs:155`), and the
  batch is sent again and refused again. (phase `"stopped"`)
- A failed write, such as an update of a missing row, is a no-op "if we are allowing
  permissive writes" and an error otherwise (`base.rs:415`); the code does the
  opposite, so that a replicated table skips it.
- Turning snapshot mode on empties the table without telling the nodes below.

Replication:

- MySQL, a restart while tables catch up to the newest of them: the replicator
  resumes at the newest position. [`AnyCrash = TRUE`, MySQL: `TablesExact`]
- PostgreSQL, a restart in the middle of a snapshot: the slot is dropped and made
  anew at the end of the log, and a table that has its offset is not copied again
  (`connector.rs:113`, `snapshot.rs:782`), so that the entries between are lost to it.
  [`AnyCrash = TRUE`, PostgreSQL: `TablesExact`]
- PostgreSQL, a new table that is altered before its first write: the replication
  slot is made anew at the end of the log. [`"create"` among `PostgresKinds`:
  `TablesExact`]
- Without a lock on the whole instance during the snapshot of MySQL, a statement
  that changes the schema may fall between two tables. [`InstanceLock = FALSE`:
  `NoDdlSkipped`]
- A table dropped and created again with the same definition is not noticed;
  PostgreSQL's catching up ends only with a log entry at or behind its end.

Adapter:

- With `validate_queries` a query that the upstream does not confirm, or that it could
  not be asked about, is left pending before `max_retry` is looked at, and is tried
  for ever; the field's comment (`migration_handler.rs:54`) says that it is marked as
  unsupported. [`Deployments <- OnlyValidated`: `AllDecided`]
- A prepared statement whose schema was compared and found to differ is kept as one
  of both sides, and may be executed on ReadySet all the same.
- The synchronizer asks about pending queries only, not about those whose dry run
  succeeded, so that a view made for such a query is not noticed; the comment in
  `views_synchronizer.rs` says the cache is updated according to which queries
  exist. [`Deployments <- OnlyExplicit`: `AlwaysNoticed`]
- `DROP ALL CACHES` makes prepared statements pending that were never given a view
  request, which `execute` expects of a pending one. (`PendingHasViewRequest`)
- Lookup and insertion of a status are two steps, between which another actor may
  set one (`LateInsert`); a migration whose query was dropped meanwhile still
  marks it successful.
- `SET autocommit` forgets a transaction opened explicitly.

Recipe:

- The schemas that a query skipped over are those of the last attempt to compile
  it. A cache that also reads a view is compiled again once the view is there, and
  then keeps reading a table whose name comes to mean another.
  [scope `JoinedView`: `AllReadWhatNamesMean`]
- A view created in an earlier schema of the search path is not looked for among
  what existing queries skipped over; only tables are.
- Relations are recorded as not replicated so that queries do not skip over them
  (`changelist.rs:286`), but the record does not invalidate a cache that did so
  before. [scope `SearchPath`: `UnreplicatedAreNotSkipped`]
- A view that is created again after it was compiled is added to those not compiled;
  dropping it removes that definition only, and the caches over the compiled one stay
  (`sql/mod.rs:1079`; the history variable `replaced`).
  [scope `TypedTable`: `NoneOutlivesItsViews`]
- A view that a query reads without its schema is compiled under the bare name, and
  cannot be dropped under its qualified one.
- A statement for which a cache is created again under another name is built a
  second time and not registered (`LeavesAreRegistered`); a cache that another
  statement reuses may be dropped before it. [scope `Reuse`: `ContainedCanBeRead`]
- An expression that is removed stays among the dependents of its custom types, which
  the registry documents as an invariant (`registry.rs:583`), and altering such a type
  panics. [scope `TypedTable`: `TypeReferencesResolve`]
- Dropping a type removes the record of its dependents before they are looked up, so
  that the caches that cast to it stay (`sql/mod.rs:374`; the history variable
  `orphaned`). [scope `CastQuery`: `DroppedTypeDropsReaders`]

Controller:

- A failed read of the leader key counts as "no leader" (`consul.rs:757`), also for
  the leader itself, which elects itself again: two of its calls write at once, under
  one session, and its new `Leader` starts without workers, as the authority task
  believes it has reported them. [`AcknowledgedIsDurable`, and with two changes
  `StateReadable`, without `misread`]
- A server that is started again at its address before its old session has ended is
  added as a worker, and removed again when the authority notices the end of the old
  session (`controller/mod.rs:487`, `inner.rs:660`), after which nothing adds it. (the
  history variable `reused`)
- If the request that reads the key back after taking it fails, the lock is held
  and nobody leads. [`Failures = {"readback"}`: `AlwaysLed`]
- A leader that shuts down in order releases the leader key and keeps its session,
  and with it the locks on the state keys: the next leader's write is refused and
  taken for lost leadership. (`RefusedHasLostLeadership`)

## 6. Not modelled

- SQL parsing, query planning and rewriting, wire protocols, RPC stubs: sequential
  functions of syntax trees and bytes.
- Joins, aggregations, top-k, paginate, project and filter: `on_input` of one
  operator is sequential; what is hard, lookups that miss and evictions, is
  modelled for the path that all operators share. A join that misses is turned into
  an eviction, which `Upqueries` does not have.
- Interval trees, k-way merge, merging of timestamps: pure algorithms.
- Shards: the project replaces them by reader replicas.
- Placement and recovery of domains on workers: a worker that fails is noticed by
  the controller and recorded, and no more.
- A table that ReadySet rejects, and accepts when it is created again: `Replication`
  rejects a table for good, so a cached absence of its mutator never becomes stale.
- Failed sends, and a domain that ends with an error: the models record the error
  and stop the domain.
- Metrics, telemetry, tools and tests.
