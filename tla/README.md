# turbovec-grpc: verification project

TLA+ models of the turbovec-grpc node and coordinator, model-checked with TLC
and, where a theorem is stated, proved with TLAPS. Paths are relative to the
repository; `mod.rs` is `src/coordinator/mod.rs`.

## 1. Inventory of the system

A *node* (`service.rs`, `store.rs`, `main.rs`) holds vector indexes, each a
shard with a stable id, and answers scans. A *coordinator* (`mod.rs`,
`coordinator/autoscale.rs`, `coordinator/nodes.rs`) holds the table of shards
that make up one collection, searches all of them, and reshapes the table.

| Component | State | Operations | What is hard | Correct when |
|---|---|---|---|---|
| Distributed search (`mod.rs` `stream_query`, `service.rs` `stream_search`) | heap, tie list, published floor, watch channels, bounded event queues, scan state per shard | open, batch, floor update, stop, summary, deadline, stream failure | floors published from partial knowledge race with scans; bounded queues in a chain; drops | the reply is the exact ranking or an error; every query is answered; scans are released |
| Durable shard store (`store.rs`; `add`, `remove`, `flush`, `drop_index` of `service.rs`; the exit in `main.rs`) | registry of handles, generations, ingest records, mutation locks; `gen-<n>` directories and `CURRENT` | add, retried add, remove, flush, delete, restore, clean exit | persist is many file operations under no lock; crash between any two; retries; handlers dropped mid-way | an acknowledged operation is durable and there once; restart finds what was promised; deleted stays deleted |
| Topology and autoscaler (`mod.rs` `rebind_inner`, `split`, `join`, `fit_calibration`, `register_node`, `collection`; `autoscale.rs`; `nodes.rs`) | table, generation, spare pool, cached binding, state file | split, join, fit, register, autoscale tick, bind, restart | plan/publish races, cache fills racing invalidation, file written before memory, rows arriving while rows move | the file, the table and the pool agree; no row is lost or doubled; a binding is current |
| Row transfer (`export_rows`, `import_rows`, `import_ranges`) | bounded pipes, import builder, the index read lock of an export | plan, export range, import blocks | several exports into one import, early close, sources that grow meanwhile | a target activates with exactly the rows planned; the transfer ends |
| Candidate stream (`run_candidate_stream`) | scans per shard, pending candidates, one bounded response channel | accept, batch, raise a floor, stop, completion | exactly one completion on every path; a channel full at the wrong moment | the contract of `coordinator.proto` is kept; the stream ends; scans are released |
| Label filters (`validate_label_bitmaps`, `label_in_bitmaps`) | none | validate, look up | `u64` boundary, overlap, partial byte | a label is admitted exactly when its bit is set |
| Scan admission (`scan_slots`, `max_concurrent_queries`) | semaphore of each node, task set of a request | acquire, release, spawn, drop | permits held while waiting for other nodes' permits | queries make progress; permits come back |
| Self-registration (`main.rs` `self_register`) | none | announce | a node that lost its place while a coordinator restarts | every node is known again |
| Readiness (`main.rs`, `coordinator_main.rs`) | health flag | poll | none | - |
| Errors, configuration, metrics, Python client, examples | - | - | - | - |

The coordinator calls nodes over gRPC; within the coordinator the components
share the table and the cached binding; within a node they share the registry
and the disk. The full list of hazards, each at its line, is in `PROJECT.json`.

## 2. Modules

| Module | Role |
|---|---|
| `Ranking` | rows, the coordinator's order (`HeapCandidate`), and by counting the ranking a search owes (`ExactRows`) |
| `ExactSearch` | abstract: one reply, exact or an error |
| `StreamQuery` | one distributed query: opens, scans, floors, queues, failures; implements `ExactSearch` |
| `RankingProofs`, `StreamQueryProofs` | lemmas on the order and on counting; theorems of section 5 |
| `DurableShard` | abstract: durable rows only grow, hold an operation once, and cover what is acknowledged |
| `ShardStore` | one shard of a node: memory, disk, requests in flight, crashes; implements `DurableShard` as long as rows stay, no client leaves an Add and persists do not overlap |
| `CandidateContract` | abstract: what `coordinator.proto` promises of a candidate stream |
| `LabelBitmaps` | packed label filters: their validation as a loop, their lookup |
| `CandidateStream` | one `StreamCandidates` call between its caller and the shards; implements `CandidateContract`, uses `LabelBitmaps` |
| `WholeMove` | abstract: indexes appear whole, in order, and success means all rows once |
| `RowMove` | the rows of one Split or Join on their way; implements `WholeMove` |
| `ScanAdmission` | queries of several requests sharing the nodes' scan permits |
| `Topology` | the coordinator's table, state file, spare pool, binding cache, and all that changes them |
| `ShardStoreProofs`, `TopologyProofs`, `CandidateStreamProofs`, `LabelBitmapsProofs`, `RowMoveProofs`, `ScanAdmissionProofs` | theorems of section 5, each about the module it is named for |
| `MCStreamQuery`, `MCShardStore`, `MCTopology`, `MCCandidateStream`, `MCRowMove`, `MCScanAdmission` | instances for TLC |

Definitions whose comment begins with "Variant" are altered forms of an
operation, used to see that a property fails when the code is wrong in that
way. They take part in no specification.

### StreamQuery and the code

The collector of `stream_query` is one task; its awaits are `OpenShard` and
`Receiving`. A batch is taken (`TakeBatch`), its candidates inserted one by one
(`InsertCandidate`) and the floor published once (`PublishFloor`), as in the
loop of lines 1096-1227. A shard's watch channel is `control[s]`, which keeps
only the last value (`send_replace`); the pump (`Pump`) moves it into
`liveFloor[s]` and `stop[s]`, the atomics of `stream_search`; the scan reads
these at a poll before each block (`Poll`). `events[s]` is the whole path from
the scan's `blocking_send` to the collector, in order and bounded. Leaving
`stream_query` early drops every `ShardControl`, whose `Drop` sends Stop
(`Abandon`). A reader task ends when it can no longer forward (`ReaderGone`),
and from then on the scan's sends fail (`SendFails`). `StreamBreaks` may happen
to any open stream at any time, losing a tail of what was buffered.

The scan itself, `try_search_streaming_controlled`, belongs to the turbovec
engine, outside the repository. The model takes its contract from how
`service.rs` drives it: a poll before each block, an inclusive floor, and a
summary that is complete only when no callback stopped the scan.

Abstractions: scores are integers, ordered as `total_cmp` orders the non-NaN
floats that get through; heap and tie list are sets, which is sound because no
row is collected twice (`CollectedOnce`). Checks for misaligned or unlabelled
batches, which end the query with an error, are subsumed by `StreamBreaks` with
a status.

### ShardStore and the code

`rows`, `generation`, `ingest` and `open` are the entries of one shard in
`IndexStore`'s maps; `lock` is its mutation lock; `gens` and `current` are the
`gen-<n>` directories and the `CURRENT` file; `task` are the requests in
flight. `persist` is seven steps, one per file operation that another request,
a failure or a crash can come between; it is the same code for Add, Flush and
`persist_all`, which `StartShutdown` begins when the server has stopped (every
handler returned, while what disconnected clients left on the blocking pool may
still run). `RemoveRow` is the Remove handler, one step under the write lock.
`Cancel` is the handler dropped because its client went: what
runs on the blocking pool runs on, the guard is released. The last steps of a
persist (`CommitPersist`: the generation is registered, older ones are removed,
the reply is sent) are one: a crash between them loses the reply or leaves a
directory behind that restart does not look at. `Restart` is
`restore_all`. An Add's rows are one row; labels, checksums and calibration are
written and validated with them and are left out. A crash may lose a rename
that was not synced: that state is also the crash before the rename.

### Topology and the code

`generation`, `shards`, `spares`, `pinned` are the coordinator's memory, `file`
the state file, `idx` the indexes on the nodes with what each last flushed.
A table entry is an index and the durable generation it requires. A mutation is
a task: planning, one step per import, flush (`FlushStaged`, or `FlushFails`,
which leaves some of the new shards flushed), then `rebind_inner` cut into the
file (`PersistTable`), the table and pool (`CommitTable`, under the lock held
as `writer`), and the cache (`InvalidatePin`, after the lock). `RegisterNode`
holds the lock from `Register` to `CommitSpare`. `collection()` is a cache hit,
or a read of the table, probes one at a time and a store (`PinMiss`,
`ProbeNext`, `StorePin`). The autoscaler's tick plans in one step: what it read
is compared with the generation at publication. Clients add rows to serving
shards and flush them; with `Ingest = "quiesced"` they stay away from shards
whose rows are being moved, as `docs/scaling.md` asks of operators. An index made by an import is labelled, and
Add refuses it (`Labelled`). `SetCalibration` replaces an empty index and
refuses one with rows (`TakesPair`). `self_register` is the fairness of
`Register` (`Announcing`). Replicas
and entries without an index id are left out: with a state file every entry
must name its index and generation (`with_state_file`). A state file is always
configured.

### CandidateStream and the code

The coordinator's side is the one task of `run_candidate_stream`: `phase` says
whether it looks at the first message, at the bitmaps, opens shards, is in the
select loop, or waits for room in the response channel, and in that last case
it polls nothing else (`Flush`, `SendReply`). Each arm of the select is an
action: `CallerIsGone`, `Deadline`, `FlushTick`, `RaiseFloor`, `CallerStops`,
`CallerErrs`, `CallerCloses`, and one per kind of shard event. Returning drops
the controls still held, which stops their shards (`Return`). The select is
biased; the model lets any ready arm run, which allows more, except that the
closed response channel is looked at first. A block is one row; the watch
channel and the pump of a shard are one step, in which the scan adopts any
floor told so far that is not below its own. Nothing makes the
caller send its first message, and until then it is owed nothing.

### LabelBitmaps and the code

One step of `CheckBitmap` is one iteration of `validate_label_bitmaps`. A byte
is the set of its set bits and `MaxLabel` stands for `u64::MAX`, so that
`checked_add` is a comparison. `partition_point` is its specification, which
the sorted list satisfies. `Stands` is the meaning `turbovec.proto` gives a
bitmap, over every bit of every byte, so that it does not presuppose the checks.

### RowMove and the code

The call is `stage_split` or Join: `Plan`, then per target `import_ranges`,
with its producer task (`SendEmpty`, `OpenExport`, `Forward`, ...), the export
task on the source's blocking pool, which holds the index's read lock while
`export.running`, and the target's `ImportBuilder`. `frames` is the export's
channel and the transport behind it, `wire` the channel of `import_ranges` with
the transport to the target. A producer that fails drops its channel, and the
target cannot tell: `StreamEnded` is the same for both. `TargetLost` is a dead
target or connection, or the five-second timeout of the channel. A row is its source and its
number there; sources only grow, by requests that need the write lock. Shape
and calibration checks are left out: `Split` has one source, and Join binds its
sources to one pair first. The sum of requested counts wraps at
`Word`; the lengths of the sources themselves do not (`LengthAssumption`).

### ScanAdmission and the code

A query is one task of the request's `JoinSet`, at most `Window` of them at a
time; it opens its shards in table order, and each open waits at the node's
`scan_slots` (`Admit`). A scan is the number of batches it has to send and
returns its permit when all are sent or its query is gone. Dropping the task set
(`Drop`) drops every wait with it, but a scan only notices at its next send; the
scan that a node still admits just after the drop (`service.rs:1139`) is one that
was admitted just before it, and returns its permit the same way.
Waits are modelled by what is enabled; FIFO order by strong fairness. Nodes are
numbered in the order in which queries visit them (`RouteAssumption`).

## 3. Runs

| Run | Checks | Bounds |
|---|---|---|
| `StreamQuery` | `NothingLost FloorSound NoSelfAbort CollectedOnce Inductive ExactOrError Answered ScansReleased` | shards of 2 and 1 rows, 2 scores, blocks and queues of 1; k = 2 in both orders, ties kept or not; k = 1 by label with ties kept, and at a floor of 2 under three filters |
| `ShardStoreSerial` | `TypeOK KeepsPromise RequestsEnd` | 2 operations, 2 plain Adds, 2 requests at a time, faults, 2 crashes |
| `ShardStoreOverlap` | `SnapshotHonest NoDuplicate OverlapRestorable ExitKeepsRows` | 2 operations, Adds, Flushes (which clients may abandon) and a clean exit, 2 requests at a time, generations up to 4, 1 crash |
| `ShardStoreDrop` | `Restorable RemovedStays` | Add, Remove, Flush, DropIndex one at a time, disconnects, faults, 2 crashes |
| `TopologyMutations` | `TypeOK DurableBeforeVisible SparesServeNothing TopologyDurable EachRowOnce AutosplitKeepsRows EveryNodeIsKnown` | 2 nodes, operator and autoscaler, 2 mutations, 1 added row, 1 restart |
| `TopologyRecover` | `SavedRowsKeepPair GenerationNamesTable` | fit and split, failing state file, a search, 2 mutations, 1 added row, 1 restart |
| `TopologyGrows` | `CeilingKept SavedRowsStay` | 4 nodes, shards of 2 and 3 rows, a ceiling of 2, 2 spares, a search, 1 added row, flushes, 1 restart |
| `CandidateStream` | `TypeOK AdmitsExactly KeepsContract Concluded ScansReleased` | shards of 2 and 1 rows, labels 0, 8 and 9 of 0-10, 8 lists of bitmaps, 2 starts, one floor to raise to, channels of 1, batches of 2 |
| `RowMove` | `TypeOK FailsOnlyOnFaults WholeOrNothing TransferEnds` | sources of 4, 0 and 1 rows, 8 splits and a join, frames of 2 rows, channels of 1 and 2, `Word` = 16, 2 rows added meanwhile |
| `ScanAdmission` | `NoStall Answered PermitsReturn` | 2 nodes with 1 permit each, requests of 2 and 1 queries, scans of 0 or 2 batches, a buffer of 1, a unary search |

Why these bounds suffice: a lost row needs one floor raised between the scan of
two rows, which two shards with one row after another give; a tie needs two
equal scores around the k-th, and three rows over two scores always have one.
The filters are every row, no row, and every row but one. In the store every
hazard is two requests and one crash; a second operation lets one interfere with
the retry of another. Generations up to 4 let a persist stall while three others
complete: `Restorable` and `CleanExitKeepsRows` by themselves are violated within
the bounds of `ShardStoreOverlap`, which shows that the condition of
`OverlapRestorable` and `ExitKeepsRows` is met by some behaviours there and not
by others. In the topology every race is one
mutation and one other actor; two mutations let one be planned over the other,
and shards of three rows split unevenly. In `TopologyGrows` the shard of two rows
crosses the ceiling when a client adds one. In the candidate stream a response
channel of one is full whenever the caller is slow, and the lists of bitmaps
have one on each side of every check. In the transfer four rows make two frames
of one part, the empty source puts an empty part between two others, and the
channels fill. In the admission one permit a node is the tightest there is, and
three queries fill both nodes.

Deadlock checking is off in every run: a query, a stream and a transfer end in
their reply, and the bounded counters (requests, mutations, crashes, rows) let
the others stop.

### Findings

Two runs end in a counterexample to what the repository says of itself;
`PROJECT.json` quotes the lines.

- `TopologyPin`, to a comment (`mod.rs:1353`): a binding probed across a rebind is
  cached after it, and stays.
- `ShardStoreResurrect`, to `docs/architecture.md:99` ("so restart cannot resurrect
  it"): an Add or a Flush that looked its handle up before a DropIndex re-creates
  the shard directory after it (`store.rs:349`), makes its generation there and
  switches `CURRENT` to it. Nothing is removed again, and a restart serves the
  shard whose deletion was acknowledged. Two requests show it, with no fault, no
  disconnect and no crash.

### What the passing runs assume, and limits of the code

Some properties hold only while certain requests do not meet. The bounds of the
passing runs keep them apart, or the property names the condition, and each of
these is a limit of the code that widening the named constant, or leaving the
condition out, shows:

- `KeepsPromise` (`ShardStoreSerial`): no Flush beside an Add (`Kinds`). A Flush
  that started before the Add takes the generation number which the Add's
  record names; a retry then sees that number and is acknowledged as a replay
  (`service.rs:872`) of rows that are not durable, where `turbovec.proto:286`
  speaks of the "Durable generation containing this operation".
- A crash between the two renames of a persist strands the next generation's
  directory, and every later persist refuses it (`store.rs:352`): the operation
  never commits however often its client retries, which
  `docs/architecture.md:105` promises it does. `RequestsEnd` still holds: the
  retries end in an error.
- `NoDuplicate` (`ShardStoreOverlap`): no client leaves during `add_chunk`
  (`Cancels`). One that does leaves the chunk running without the mutation
  lock, and its retry reads the length from before it (`service.rs:905`).
- `NoDuplicate` and `RemovedStays`: `expected_len` compares a length. Once a
  later operation has replaced the ingest record, a Remove that brings the
  length back to what an older operation declared lets a retry of that one in
  again.
- `Restorable` (`ShardStoreDrop`): one request at a time (`Task`), so this run is
  about crashes and failures between the steps of one persist or delete. A persist
  that looked its handle up before a delete may switch `CURRENT` to a generation
  the delete took away, and the node does not start again; the finding above is
  the milder outcome of the same overlap. `OverlapRestorable` covers persists that
  overlap each other.
- `OverlapRestorable` and `ExitKeepsRows` (`ShardStoreOverlap`): no persist is
  overtaken three times (`NoneStalled`), which nothing in the code enforces. A
  Flush that stalls between looking its generation up and its rename
  (`store.rs:352`), slow or left behind by its client, while three other persists
  complete, renames its stale snapshot into place, because the cleanup has taken
  the generation of that number away, and switches `CURRENT` back to it: durable
  rows go back, on a clean exit too, and the cleanup of the next persist may remove
  the generation that `CURRENT` then names. One operation, an Add, a Flush and the
  exit show it.
- `ExitKeepsRows`: one shard. `persist_all` stops at the first shard that
  fails, and the shards after it are not written (`store.rs:434`).
- `CeilingKept` (`TopologyGrows`): as long as the collection is servable, in the
  words of the same paragraph of the README ("With no spare registered, or with the
  collection not servable, it logs and waits", `README.md:147`). That condition does
  much: a Flush, or a retry-safe Add, of a serving shard raises its generation past
  the one its table entry requires, every later probe fails (`mod.rs:1719`), and the
  autoscaler gives up each tick until an operator publishes a table again. So the
  autoscaler keeps up with rows that arrive by Adds without an operation id, and
  stops at the first flush. Both happen in the run.
- `SavedRowsStay` (`TopologyGrows`): clients leave a shard alone while its rows
  move (`Ingest = "quiesced"`, which `docs/scaling.md:114` asks for). The
  autoscaler does not enforce it (`autoscale.rs:166`): a row that arrives after
  the staging started is dropped with the source.
- `TopologyDurable` (`TopologyMutations`): no failed directory sync (`Faults`).
  After one the state file already names the staged indexes that the autoscaler
  then deletes (`nodes.rs:263`). `Faults` also stands for flushes of live indexes
  that fail in the middle of a mutation, which are therefore in `TopologyRecover`
  only. A fit of which one flush fails leaves the shards flushed before it at
  generations past those the table requires (`mod.rs:1484`), and the collection
  unservable until a table is published again.
- `TopologyDurable` (`TopologyMutations`): no FitCalibration beside the
  autoscaler (`Kinds`). A fit publishes the table it started with, over
  whatever table is there by then (`mod.rs:2161`): `rebind` has no fence, only
  the autoscaler's `rebind_if_unchanged` has. A fit that planned before the
  autoscaler's rebind and publishes after it puts the replaced source back into
  the table, and the autoscaler drops it. `Kinds = {"fit", "auto"}`, one empty
  startup shard, a `Ceiling` of 1, `MaxRows` = 2, no crash and no fault show it.
- `SavedRowsKeepPair` is about one index. A search does not look at pairs again
  once its binding is cached, so after a fit that some shards refused it merges
  scores of two pairs until the next binding.
- `Concluded` and `ScansReleased` (`CandidateStream`): a caller that stays
  reads. One that stays and does not read keeps the task in its send, where it
  looks at neither its deadline nor Stop, and the shards' scans with it.
- `AdmitsExactly`: a bitmap's end must be a label, so no bitmap can name
  `u64::MAX` itself.
- `WholeOrNothing` (`RowMove`): rows are named by source and number. An
  unlabelled source labels its rows by slot (`service.rs:1569`), so a Join of
  several such sources repeats labels. A transfer that fails may leave an index
  on a target that nothing refers to, as `WholeMove` allows; an import whose
  response is lost is one.
  ImportRows answers only at its end, and the channel to a node gives every
  call five seconds (`mod.rs:512`): a longer transfer fails.
- `NoStall` and `Answered` (`ScanAdmission`): one order of nodes
  (`RouteAssumption`). Two requests over different tables, or two shards of one
  table on one node with one permit, can wait for each other until a deadline
  fires.

## 4. Fairness

`StreamQuery!Fairness`: the collector, each reader, and each node's pump and
scan run when they can: they are tokio tasks and blocking threads that wait on
nothing but the channels in the model. Deadlines and failures are not fair: the
answer must come without them. `CandidateStream!Fairness` is the same, with a
caller that reads while it stays; what else it sends is up to it.
`ShardStore!Fairness`: the steps of a persist are weakly fair; the steps of an
Add are strongly fair, because `tokio::sync::Mutex` grants its lock in FIFO
order. No client need retry. `RowMove!Fairness`: the call, the producer, the
export task and the target each run when they can; nothing is assumed of
faults. `ScanAdmission!Fairness`: as above, and waits for a permit are strongly
fair, because `tokio::sync::Semaphore` is first come, first served.
`Topology!Fairness`: the autoscaler ticks on an interval for ever and its calls
return; nothing is assumed of operators, clients, searches or restarts.
`Topology!Announcing`: every node announces itself on an interval for ever
(`main.rs:194`), and an announcement gets the topology lock again and again,
since it is only held across local work.

## 5. What is proved

`StreamQueryProofs` proves, for any number of shards, any shard lengths, any
queries allowed by `QueryAssumption`, and any positive block and queue sizes:

- `TypeCorrect`: `Spec => []TypeOK`, with it that the heap never exceeds k;
- `InductiveHolds`: `Spec => []Inductive`;
- `AnswersAreExact`, `FloorsAreSound`, `NoRowIsLost`: the invariants
  `ExactAnswer`, `FloorSound` and `NothingLost`;
- `ImplementsPromise`: `Spec => ExactOrError`, the refinement of `ExactSearch`.

None of these is inductive alone. `Inductive` adds, to the types: that carried
rows are eligible, scanned and carried once (`RowsOK`); that every copy of a
floor is at or behind the published one, which a full heap backs (`FloorsOK`);
that a shard which certified completion has scanned everything and sends no
more (`StreamsOK`); and the heart, `RowsAccounted`: every eligible row is
unscanned, in flight, owed by a lost stream, or dealt with for good, that is in
the heap or beaten by a full heap of better candidates (`Dominated`), and under
`tie_complete` in the tie list or strictly outscored. At `Finish` nothing is
unscanned, in flight or lost, so a row is returned exactly when fewer than k
eligible rows beat it, which is `ExactRows`; `RankingProofs` supplies the order
(total, transitive) and the counting lemmas this needs. TLC checks `Inductive`
as an invariant of the run `StreamQuery`. The assumptions used are
`ShardAssumption`, `QueryAssumption` and `BoundAssumption`.

`LabelBitmapsProofs` proves `BitmapsAdmitExactly`: for any largest label and
any lists of bitmaps, of any length (`BitmapAssumption`), `BitmapSpec =>
[]AdmitsExactly`. Validation compares each bitmap with the one before it only;
the invariant `CheckedOK` makes of that that every accepted bitmap ends before
every later one begins, so the bitmap `partition_point` finds is the only one a
label can be in. The rest is arithmetic of bytes and bits: a set bit of a
bitmap lies below its count, because the padding is clear and the bytes are as
many as the count needs (`BitsStand`).

`ScanAdmissionProofs` proves, for any nodes, permits, requests, queries,
windows and buffers, `ScanAdmissionType` and `SearchesNeverStall`: `Spec =>
[]NoStall`. The invariant `HoldsInOrder` says that a query holds permits of
opened shards only, and none before it starts or once it is done. Suppose all
is blocked while a request runs: then some query is still opening, and among
those take one that waits for the last node any of them waits for. Each permit
of that node is held by a scan that cannot send, so its own query is still
opening and waits for a later node: a contradiction. It rests on
`AdmissionAssumption`, `RouteAssumption` (queries visit nodes in one order) and
`LastAssumption` (a set of nodes has a last one, since nodes are finitely many).
`PermitsNeverExceeded` adds that the scans of searches and unary searches
together never hold more permits of a node than it has, whatever is dropped
meanwhile.

`StreamQueryProofs` also has `QueriesNeverAbortThemselves`
(`NoSelfAbort`: Stop is in a control or on a node only for a shard that has
already certified, or once the query has its reply) and `RowsAreCollectedOnce`
(`CollectedOnce`: a row that is carried was scanned, was scanned once, and is
in one place of the path or in the collector).

`ShardStoreProofs` has no bound on operations, requests, generations, failures
or crashes. Each theorem names what it needs of the requests that may meet, and
section 3 shows how the property fails without it:

| Theorem | States | Needs |
|---|---|---|
| `StoreTyped` | types; every request is at a step of its own kind | - |
| `StoreTypeOK`, `SnapshotsAreHonest`, `NothingAddedTwice` | `TypeOK`, `SnapshotHonest`, `NoDuplicate` | `AddsStay`: no Remove, and no client leaves an Add |
| `AloneRestorable` | `Restorable` | `[]Alone`: no two persists or deletes at work at once |
| `OneTaskRestorable` | `Restorable` | one request at a time |
| `AddsRestorable` | `Restorable` | `AddsOnly`: Adds alone, none abandoned; the mutation lock gives `Alone` |
| `RemovedRowsStay`, `LockedRowsStay`, `OneTaskRowsStay` | `RemovedStays` | no exit; and one Add at a time between admission and record, which the lock gives when no client leaves an Add (`NoAddLeaves`), or one request at a time |
| `StoreKeepsPromise` | `KeepsPromise` | `AddsStay`, no delete, `[]Alone` |
| `AddsKeepPromise` | `KeepsPromise` | `AddsOnly` |
| `OverlapsRestorable`, `CleanExitSaves` | `OverlapRestorable`, `ExitKeepsRows` | no delete; the properties themselves ask for `[]NoneStalled`. Persists of Adds, Flushes and the exit overlap freely, clients leave, rows are removed |

The invariants are `AddInv` (who holds the lock and what an Add has done to the
rows; every snapshot that is kept is honest), `DiskInv` (what a persist has
done to the directories at each of its steps, and that `CURRENT` names one of
them), `PromiseInv` (rows of older
generations are rows of younger ones, memory included, and what is acknowledged
is in the current one) and `WindowInv`. The last is what overlapping persists
keep: the generation in memory and the one before it are on disk, and at most one
persist has made the next one. Every other persist, if it was not overtaken three
times, aims at one of these three numbers, and the `exists` check or the rename
refuses it; once the next one is made, nobody else switches `CURRENT` until it is
registered. That is what the cleanup's second generation is for, and why
`NoneStalled` has the bound it has. Each is proved from a frame of the steps (what one
request does, what each variable can become), not action by action: `StoreStep`
says once which of the store's variables each kind of step may change.

`TopologyProofs` has no bound on nodes, operators, searches, mutations, rows or
restarts:

| Theorem | States | Needs |
|---|---|---|
| `TopologyTypeOK`, `GenerationsNameTables`, `SparesNeverServe`, `SavedRowsKeepTheirPair` | `TypeOK`, `GenerationNamesTable`, `SparesServeNothing`, `SavedRowsKeepPair` | - |
| `TopologyDurableBeforeVisible` | `DurableBeforeVisible` | `~Faults`: no write of the state file, and no flush of a mutation, fails |
| `MutationsStayDurable` | `TopologyDurable` | no autoscaler; the state file and flushes may fail |
| `AutoscalerStaysDurable` | `TopologyDurable` | `[]FitsApart`: no fit between its start and its publication while the autoscaler is between its publication and its drop; and `~Faults` |
| `MovesStayDurable` | `TopologyDurable` | no calibration is fitted, and `~Faults`; nothing is assumed of behaviours |
| `AutosplitLosesNothing` | `AutosplitKeepsRows` | `Ingest = "quiesced"` |
| `GrowingKeepsSavedRows` | `SavedRowsStay` | only the autoscaler mutates, `~Faults`, `Ingest = "quiesced"` |
| `RowsAreInOnePlace` | `EachRowOnce` | `FirstRowsDistinct`: the startup indexes repeat no row |

The invariants, in the order they build on each other: `Typed`; `GenerationInv`
(the lock, and which generation its holder publishes); `VisibleInv` (file and
memory differ only in the holder's hands); `SparesInv`; `PairInv`; `PlanInv`
and `ConfigsInv` (what a task publishes is what it planned and staged);
`NamedInv` and `OwnInv` (only a task's own staged indexes and its source are
dropped, and no table names them); `SavedInv`, `SplitInv` and `PublishInv` (the
two halves of a split together are their source as it was staged); `OnceInv`
(rows of one index are distinct, those of two entries of a table apart).

`OwnInv` is why the autoscaler's drops are safe. What a split, a join or the
autoscaler has staged is its own until it publishes (`PrivateInv`); the source
the autoscaler has replaced is in no table and in nobody's hands
(`ReplacedInv`); and a fit, which stages the front of a table that is served,
holds nothing that another task has to itself (`FittingInv`). A fit at work
while the autoscaler only stages is harmless: whichever publishes second is
refused or has planned on the newer table. One that publishes between the
autoscaler's publication and its drop is not, as section 3 shows, so
`FitsApart` cannot be left out of `AutoscalerStaysDurable`.

`CandidateStreamProofs` proves, for any shards, starts, bitmaps, floors and
sizes of channels and batches (`StreamAssumption`, `BitmapAssumption`),
`CandidateStreamTypeOK`, `FiltersAdmitExactly` (with the loop invariant of
`LabelBitmapsProofs`) and `StreamKeepsContract`: the stream implements
`CandidateContract`. `PlaceInv` says where each row is (with its shard, on the
way, pending, sent) and that it is in one place; `SentInv` that the count is
that of the rows sent and that nothing follows the end; `OwedInv` that a row
which qualifies at the last floor and is not yet sent is still on its way
unless the stream can no longer complete.

`RowMoveProofs` proves, for any sources, requests, frame sizes and capacities
(`MoveAssumption`, and `LengthAssumption`: all the rows there are can be
counted in a `u64`), `RowMoveTypeOK`, `TransfersFailForAReason` and
`TransfersMoveWholes`: the transfer implements `WholeMove`. The core is
`FlowInv`: what the target has taken, then each block on its way, are
consecutive stretches of the rows planned, up to the row the export has
reached, or short of it once the producer failed. A target that holds as many
rows as declared therefore holds exactly the plan. That the plan is all rows,
although the requested counts are summed modulo 2^64, follows from `FitInv`: a
range that was exported was in range, so counts that wrap never get through.
`ReasonInv` is the converse: a producer that is through has sent everything and
at least one block, so neither check of `finish` fails.

Some of these need what a recursive function computes (`Total`, `FlattenSeq`).
Each such lemma is proved from the least argument at which it would be wrong
(`LeastElement`), since the library's induction theorems cannot be used.

Only model-checked: liveness, which is out of the prover's reach (`Answered`,
`ScansReleased`, `Concluded`, `RequestsEnd`, `TransferEnds`, `PermitsReturn`,
`CeilingKept`, `EveryNodeIsKnown`). `PinIsCurrent` and `NoResurrection` do not
hold (section 3).

## 6. Not modelled

CreateIndex and ImportRows as store operations (their results are the states
`ShardStore` starts from), replicas and the ephemeral mode of the topology,
readiness, configuration, metrics, the clients and the benchmark programs.
`PROJECT.json` gives the reason for each. The ranking inside a block is the
engine's. Time is not modelled: a deadline or a timeout may fire at any moment.

## 7. Plan

Done: every component but those of section 6, and a theorem for every safety
property of the runs that pass; liveness stays with TLC. Next:

1. `ShardStore`: weaker conditions than `[]Alone` for `StoreKeepsPromise`: a
   Flush that starts after an Add's chunk and ends before its record is safe.
2. `Topology`: the same theorems with a fit that publishes through
   `rebind_if_unchanged`, should the code come to do so; `FitsApart` would then
   follow from the fence.
