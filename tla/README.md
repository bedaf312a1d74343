# Wingfoil: TLA+ specifications

Wingfoil is a stream processing engine: nodes are wired into a directed acyclic
graph, and an engine runs them in cycles, in the order of the graph's layers, on
historical time or on the wall clock. Adapters connect the graph to stores,
brokers, sockets and browsers. This directory models the parts of the library
whose correctness depends on order, interleaving or failure, checks them with
TLC on small instances, and proves the central invariants of the engine with
TLAPS for all instances. Paths below are relative to `src/wingfoil/src/` unless
they begin with `src/`.

## The system

| part | state | operations | hard behaviour |
|---|---|---|---|
| Time queue, `queue/time_queue.rs` | binary heap of (time, seq, value), `next_seq` | push with a scan for duplicates, pop, pop_if_pending, clear | stable order on an unstable heap, boundary of "due", payloads that are not equal to themselves |
| Graph wiring, `graph.rs` `Graph::new`, `initialise*` | work stack, in-progress set, registered nodes with layers and edges | crawl below the roots, cycle detection, layering, downstream links | shared nodes, duplicate edges and roots, cycles, empty graph |
| Graph engine, `graph.rs` `run_nodes`, `cycle*`, `GraphState` | engine time, scheduled / always / ready callbacks, dirty lists per layer, flags | the run loop in both modes, callbacks, cycle, propagation of ticks, reset | glitches, lost marks, wake-ups racing the wait, clock going backwards, run bounds |
| Lifecycle and dynamic graph, `graph.rs` `run`, `apply_nodes`, `process_pending_*`, `fix_layers` | active flags, pending additions and removals, layers, edges | setup, start, stop, teardown; add_upstream, remove_node | a batch that changes the graph between two cycles, an error in the middle of it, re-layering |
| Operators, `nodes/*.rs`, `adapters/statistics.rs` | delayed values, windows, buffers, demux slots, running moments | one cycle each | last cycle, boundaries, resets, re-entrance, removal from a running sum |
| Receiver stream, `nodes/receiver.rs`, `channel/kanal_chan.rs` | channel, thread handle, stop flag, deferred error | setup spawns, cycle drains and checks, stop joins, teardown | thread and engine interleave; the order of send, notify, drop, exit |
| Worker graphs, `nodes/channel.rs`, `nodes/graph_node.rs` | look-ahead queue, message time, two engines | blocking receive, checkpoints, hand-over of the notifier | two engines waiting for each other |
| Async nodes, `nodes/async_io.rs`, `adapters/common.rs` | tasks and their channels, slices of a table | spawn, send, close, abort | task ends before, during, after the send; slice boundaries |
| Stores: file cache, etcd, redis, postgres, kdb, kafka, fluvio | files, snapshots, cursors, leases | cached reads, subscribe, publish | torn files, hand-over from snapshot to live updates, bursts that fail half-way |
| Links: FIX, Aeron, iceoryx2, ZeroMQ, web | sessions, sequence numbers, claims, queues, subscriptions | connect, log on, poll, publish, reconnect, stop | reconnection, back-pressure, swallowed signals, stop racing a reconnect |
| Latency and metrics, `latency.rs`, `adapters/prometheus` | stamps, histograms, registered slots | stamp, report, scrape | ranks and buckets, clocks that disagree |
| Macro, bindings, wire types | none of their own | wrappers | none |

How they interact. `Graph::new` wires the nodes; `run` sets up and starts them,
runs the loop, stops them and tears them down. While a node is in `cycle()` it
calls `GraphState`: it asks for callbacks (which go to the time queue), marks
nodes (demux), sends to a feedback source (a callback of another node), or asks
for nodes to be added and removed, which happens after the layers of that cycle.
Other threads reach the engine in one way only: a `ReadyNotifier` puts a node
index into the ready channel, usually right after a value was put into that
node's own channel. Threaded adapters are a `ReceiverStream` with a poll loop of
their own; the stores go through `produce_async` and `consume_async`.

## Modules

| module | models | built on |
|---|---|---|
| `EventSet`, `EventQueue` | what a time queue promises: a set of events from which an earliest is taken; a stable sequence | |
| `TimeQueue` | `queue/time_queue.rs` | implements both |
| `GraphWiring` | wiring | |
| `GraphEngine` | the run loop and the cycle | `EventSet` for the scheduled callbacks; layers as `GraphWiring` leaves them |
| `DynamicGraph` | the lifecycle of a run and changes of the graph | initial graph as `GraphWiring` leaves it |
| `ReceiverStream` | a node with a thread of its own | |
| `Operators`, `NodeOperators` | state and one cycle of each operator on streams and on bare nodes | |
| `Statistics` | running statistics on exact numbers | |
| `OperatorGraph` | a small engine that runs graphs of those operators, and their references | `Operators`, `NodeOperators`, `Statistics` |
| `ChannelReceiver` | the reads of a channel in a replay and in realtime | |
| `GraphWorkers` | `producer()` and `mapper()`: two engines, two threads | `ChannelReceiver` |
| `TimeSlices` | days and periods of a sliced read | |
| `AsyncIo` | async producers and consumers around a graph | `ChannelReceiver`, `TimeSlices` |
| `FileCache` | `adapters/cache`, cached kdb reads, several processes, crashes | |
| `Subscriptions`, `Sinks` | the read and the write half of etcd, redis, postgres, kdb, kafka, fluvio | |
| `FixAdapter` | FIX sessions, polling and threaded, both sides | |
| `AeronAdapter`, `Iceoryx2Adapter` | publication and subscription over shared memory | |
| `WebAdapter` | server, publisher, subscriber and the JavaScript client | |
| `ZmqPublisher` | the publisher, its buffer and its registration | |
| `LatencyReport`, `Metrics`, `DynamicGroup` | latency stamps and spans; the prometheus registry; keyed groups of dynamic streams | |
| `MC...` | instances, and reference definitions only TLC can evaluate | |
| `...Proofs` | theorems and proofs | |

`MCCore` (`TimeQueue`, `GraphWiring`), `MCTasks` (`ReceiverStream`, `AsyncIo`),
`MCStores` and `MCLinks` each hold several components that do not interact. The
variable `which` is chosen in the initial state and names the component of the
behaviour; the others stay where they are. One run then asks the same kind of
question of each of them.

Variables keep the names of the code's fields and locals; what the code does not
have is called a history in the declaration. A definition whose comment begins
with "A wrong form of" is a plausible bug of the definition below it. No action
uses it; it is there to show that the property at stake would notice.

**TimeQueue.** The heap is the set of its entries, since `BinaryHeap` belongs to
the standard library and pops a least entry. `Unequal` holds the values with
v != v (`f64` NaN), which the scan for duplicates never finds.

**GraphWiring.** One action per step of the work stack: skip or start a root,
record the edge to a registered upstream, descend, detect a cycle, finalise,
link. A node stands for its index. `Node::upstreams()` is read once per node, so
the declared wiring is a parameter; cyclic wirings are included, because interior
mutability can make them.

**GraphEngine.** `pc` follows `run_nodes`: top of the loop, callbacks of the mode
(drain, always, scheduled, wait, snap), cycle, layer, node, propagation, end.
`wait_ready_callback` and the reading of the clock are separate steps, so a
notification or a tick of the clock can fall between any two of them. A node is
any program: at `pc = "node"` it makes calls in any order and then returns true,
false or an error.

**DynamicGraph.** `pc` follows `run`: setup, start, cycles with their batches of
removals and additions, stop, teardown. A batch is modelled loop by loop
(removals; crawl of the added leaves; linking; wiring of the caller; fix_layers;
recycle walk; setup and start of the new nodes), so an error can strike at each
call. Which nodes a cycle runs is left open.

**ReceiverStream.** The steps of the thread (push, notify, return, notification
in `Drop`, closing of the channel, end of the thread) interleave with the steps
of the engine. Three facts about the thread become visible at different moments,
which is what the properties are about.

**Operators, NodeOperators, OperatorGraph.** One definition per operator gives
what a cycle of it does to its state, its callbacks and its output; the functions
of closures are fixed small functions. `OperatorGraph` runs a pipeline of them in
cycles with marks, layers, callbacks and the last-cycle flag, and logs what each
node read and ticked with; the references are stated on those logs.

**GraphWorkers, AsyncIo.** The channel is a sequence. Blocking reads are guards.
In a replay the receiver looks ahead and waits for checkpoints; a sender sends a
checkpoint in a cycle without a value. `AsyncIo` has the graph, the producer task
and the consumer task as processes, with the error paths of each.

**FileCache.** A file is absent, torn or whole for some slice; get, put, evict
and clear are split at their system calls, so that processes and crashes fall in
between.

**Subscriptions, Sinks.** The server is a log of writes or a key space and is
external; the client code around it (snapshot, revision, filter, cursor,
conditional put, lease, flush) is step by step. A kdb burst is a table of rows:
a row shorter than the first or of other types fails the insert, and rows without
a business column are skipped.

**FixAdapter, AeronAdapter, Iceoryx2Adapter, WebAdapter, ZmqPublisher.** The peer
or the driver is external and connects, disconnects, delays and overflows as it
likes. A message is a kind with a number; framing is kept as whole and partial.
In `Iceoryx2Adapter` a port that is dropped can no longer be connected to, and the
service keeps the set of samples that were lost by overflow or with a connection,
so that a sample lost by the node or its thread is told from them. The nodes for
byte slices repeat the code of the typed ones; the same actions stand for both.

## Runs

| run | config | what it shows |
|---|---|---|
| `core` | `MCCore.cfg` | the heap implements the stable, deduplicating `EventQueue`; on all wirings of three nodes the crawl ends, refuses exactly the cyclic ones, layers by longest path, and links both ways |
| `engine_historical` | `MCHistorical.cfg` | a replay has no glitch, loses no mark, runs no node twice and passes no callback over; the flagged cycle is the last |
| `engine_realtime` | `MCRealtime.cfg` | empty passes leave nothing behind, time advances, notified nodes run, callbacks fire, a run for a duration ends and overruns by two cycles at most |
| `dynamic_graph` | `MCDynamicGraph.cfg` | layers, lists and links are right after every batch; only started nodes run; batches end, except for a leaf that reads its caller; what was started is stopped when anything fails |
| `operators` | `MCOperators.cfg` | every operator ticks with what its reference on the history of its inputs says; batches hold back at the end exactly what is stated; sliding statistics agree with the definitions on the window; demux keeps live keys apart |
| `workers` | `MCGraphWorkers.cfg` | a replay delivers each value at its own time and in lock step; neither engine waits for the other for ever |
| `tasks` | `MCTasks.cfg` | a receiver's thread: no lost wake-up, values in order and complete, failures reported, thread gone before teardown; async tasks: a sliced read yields the rows of the window and no others; failures are reported; tasks are over at the end |
| `stores` | `MCStores.cfg` | cached rows are whole answers to the query, of the database when the readers of the folder have the same one, and the directory stays within its limit; nothing is lost or repeated between snapshot and updates; sinks keep order and leases; web, ZeroMQ, latency, metrics, groups |
| `links` | `MCLinks.cfg` | FIX sessions do not leak into each other and `stop()` ends; Aeron and iceoryx2 deliver in order what was accepted |
| `fix_stop` | `MCFixStop.cfg` | *violation*: `stop()` of a threaded FIX source can wait for ever, because the thread has passed its look at the stop flag and not yet published its socket |
| `dynamic_cycle` | `MCDynamicCycle.cfg` | *violation*: a batch wires a cycle through the edge from an added leaf to its caller, where `graph.rs:1014` says a cycle is an error |
| `cache_key` | `MCCacheKey.cfg` | *violation*: a process emits the rows of another's database, because the key of a cached file is made of the query alone, where `adapters/cache/mod.rs:9` names host and port too |

Most properties are conjunctions of parts that belong together; each part has
its own name and comment where it is defined.

| property | parts |
|---|---|
| `LayersSound` | `LayerOrder`, `EveryLayerHasItsList` |
| `WiringFaithful` | `CycleVerdict`, `WiredAsDeclared`, `DownstreamsMirror` |
| `CyclesSound` | `GlitchFree`, `NothingLost`, `CleanTop` |
| `ReplaySound` | `ReplayOnTime`, `OneLastCycle`, `OverrunBounded` |
| `PassesSound` | `TimeAdvances`, `CleanTop`, `OverrunBounded` |
| `EngineProgress` | `NotifiedRuns`, `CallbackFires`, `DurationEnds` |
| `GraphSound` | `LayersOrdered`, `LinksAgree`, `RunsStarted` |
| `LifecycleSound` | `ListsCoverLayers`, `RecycleReaches`, `StoppedOnce`, `Released` |
| `ReceiverSound` | `NoLostWakeup`, `NoThreadLeft` |
| `NothingSwallowed` | `FailureIsReported`, `DeliveredInOrder` |
| `ReceiverProgress` | `SentIsDelivered`, `StopEnds` |
| `TimeShiftsExact` | `DelayIsExact`, `NothingDropped` |
| `InStep`, `WorkersProgress` | `OnItsOwnTime`, `LockStep`; `RunEnds`, `MessagesAreTaken` |
| `AsyncExact` | `RowsOfTheWindow`, `SinkComplete`, `FailureReported` |
| `SubscriptionsExact`, `SinksSound` | `HandoffExact`, `LossIsReported`; `PublishedInOrder`, `LeaseReleased` |
| `FixSessions` | `SequenceNumbersRestart`, `DataInOrder`, `SessionsTold`, `SymbolsSubscribed` |
| `SubscriberExact` | `FragmentsInOrder`, `StatusExact` |
| `WebExact`, `PublisherSound`, `LatencySound` | `FramesOnce`, `ForwardersMatch`; `NoGap`, `NameReleased`; `QuantilesBound`, `SpansNest` |

### Bounds

- `MCCore`, the queue: two ordinary values and a NaN, two times, four pushes: enough
  for two equal times with a third entry between, popped and pushed again.
- `MCCore`, the wiring: three nodes, up to two upstreams each in any mix of active and
  passive, with repetitions; one or two roots. This has self-loops, cycles of two
  and three, diamonds of a triangle, and duplicate edges.
- `MCHistorical`: five nodes in four layers with a diamond, a demux edge, a
  feedback loop, an always node and a failing node; `U32Max` is scaled to 3;
  callbacks at three times, one of them in the past; runs of 0, 1 and 2 cycles,
  of zero and two time units, and without a bound.
- `MCRealtime`: three nodes in two layers with a feedback loop. `MaxNow = 3`
  gives the clock two ticks, before and after the end of the run; one
  notification that arrives anywhere. Several notifications of one node only
  repeat a mark. Callbacks later than `MaxNow` never come due.
- `MCDynamicGraph`: three initial nodes and five that can be added: of these two
  read each other and one reads the node that may add it. Two cycles with three
  requests in total, so that a second batch meets what the first one left; errors in each
  phase. `MaxLayer` stops fix_layers where it would go on for ever, far above what
  any other batch reaches.
- `MCTasks`, the receiver: three values, so that one can be read, one be in the
  channel and one be pushed during the drain.
- `MCOperators`: every operator at least once, in pipelines of one source, two
  sources, feedback, fallible nodes, replays and demuxes; two to six cycles, so
  that windows of two fill, flush and fill again; values 1 and 2, and -1, 0, 2
  for the moments. A demux has fewer slots than keys.
- `MCGraphWorkers`: values at times 0, 1 and 3, adjacent and apart, so that the
  extra cycle after a value falls on the next value's time and before it; one is
  filtered, one may fail; all three kinds of bound.
- `MCTasks`, the async tasks: days of 8 ticks, the kdb epoch 3 ticks after the unix
  one, windows and periods on and off the boundaries, two rows of equal time, an unsorted
  table, an unreadable row, a failing query, channels with and without a bound.
- `MCStores`: one process, or two with different databases (those of one
  database are among their behaviours, with the names made equal), with one crash
  or clear (`MaxFaults`); a cache too small for its two slices, the first of
  which is read twice; four writes around the snapshot; bursts of up to two
  records with a foreign writer, and tables with a short row, a row of other types
  and rows without columns; two sockets and queues of one frame in the web
  adapter; a lease of two ticks on a clock of five; three stages and three
  buckets, the last of which is reached; four streams over two keys in a group.
- `MCLinks`: two connections with up to two fragments each, so that a partial
  message is cut by a disconnect (`MaxFragments` also bounds the failures of a
  listener); a queue of two requests; Aeron with a window of
  one slot, so that the second offer of a burst meets back pressure, a fragment
  limit of one and two changes of the driver; iceoryx2 with
  three samples, a history of two and bursts of two, in the three modes.

Deadlock checking is off: in each model the run ends, or the bounded environment
has nothing more to do.

### Fairness

- `GraphWiring`: the crawl is one sequential function.
- `GraphEngine`: the engine thread runs while it can, `cycle()` of a node
  returns, and the wall clock goes on. Nobody has to notify, and nodes need not
  call anything.
- `DynamicGraph`: a batch, once begun, is carried out by one thread. Whether
  there is another cycle is not assumed.
- `ReceiverStream`: the engine thread runs while it can. The thread completes a
  send it has begun and its own exit, and looks at the stop flag again: the
  subscribers poll with a timeout (`adapters/zmq/read.rs:43`,
  `adapters/aeron/sub_fragment_node.rs:230`). It need not send or return.
- `GraphWorkers`, `AsyncIo`: both engines and both tasks go on while they can,
  and a realtime run of some duration reaches its end. Blocking reads and full
  channels disable a step, so nothing is assumed about them.
- `FixAdapter`: the thread and `stop()` go on. Reads have no timeout there: a
  thread that reads from a silent peer stays, unless its socket is shut down. The
  peer need not do anything.
- `AeronAdapter`: both graphs go on, the poll loop is never blocked, and the
  holder of a claim commits, aborts or drops it. Back pressure need not end.
- `Iceoryx2Adapter`: the node polls in each cycle and the thread waits 100 ms at
  most for a signal. Publishers need not send.

## What the models show

`fix_stop`, `dynamic_cycle` and `cache_key` have findings in `PROJECT.json`. The
observations below come from the same models. The properties of the passing runs
are stated so as to hold, with the case named as an exception where it is one.

Engine and lifecycle:

- A value sent to a feedback source arrives at a later cycle, not always the
  next one as `nodes/feedback.rs:8` says: in realtime a notification can start a
  cycle in between (`graph.rs:886`).
- After one failing `stop()` the nodes registered later are not stopped
  (`graph.rs:667`, `graph.rs:557`); `Released` is about runs in which neither
  stop nor teardown fails.
- A node can add an upstream that depends on itself. The edge from the caller is
  not checked (`graph.rs:1014`), and fix_layers does not end (`graph.rs:1122`): the
  run `dynamic_cycle`. `BatchEnds` excepts it; a cycle that the new nodes declare
  among themselves is found by the crawl.
- `RunFor::Forever` ends after `u32::MAX` cycles (`graph.rs:577`).
- A removal whose `teardown()` fails leaves the node active, so `run` stops and
  tears it down again (`graph.rs:994`; `StoppedOnce` excepts that node).

Operators and latency:

- `nodes/mod.rs:365` and `:368` say that `buffer()` and `window()` are flushed on the
  last cycle. That needs a source that ticks in it, and `window()` flushes once a
  cycle: when the value of the last cycle begins a new window, the old one goes out
  and that value stays (`nodes/window.rs:36`). `NothingDropped` says exactly what
  is held at the end.
- The buckets of a latency histogram begin at 2^i - 1, not at 2^i as the comment at
  `latency.rs:400` says, since `:429` takes the logarithm of delta + 1: a delta of 1
  is in bucket 1, one of 3 in bucket 2. A percentile that falls into the last
  bucket is reported as that bucket's lower end, because the shift is capped
  (`latency.rs:451`). `QuantilesBound` states both.

Receivers, workers and tasks:

- The last notification of a thread is sent before the thread is over
  (`channel/kanal_chan.rs:281`), so its error may surface only in `stop()`, or
  not at all when the engine waits for ever.
- An end of stream that arrives between drain and check is reported as an
  unexpected exit (`nodes/receiver.rs:30`, `:48`); a thread that returns without
  one counts as a clean exit (`nodes/receiver.rs:194`).
- A deferred thread error is returned before the channel is drained again
  (`nodes/receiver.rs:86`), and is lost when the run ends first
  (`FailureIsReported` has that exception).
- The error of a worker graph is only logged (`nodes/graph_node.rs:237`). A
  realtime run for a duration can end the worker first, and a send of the main
  graph then fails as closed. A worker function that delays its values fails a
  replay with "time less than graph time".
- An async consumer's error can hide behind the closed channel when the task
  ends between the check and the send; `limit()` ends a consumer at the first
  value past the end; kdb_read starts its check of the order anew with each slice.

Stores:

- A cache hit rewrites the file in place, and writers of one slice share one
  `.tmp` file: a file can be torn. `CacheTransparent` holds because a torn file
  is a miss. The limit is only kept while one process uses the folder, which is
  what `CacheBounded` says. The key of a slice leaves out host and port
  (`adapters/kdb/read_cached.rs:113`), against `adapters/cache/mod.rs:9` and `:16`:
  the run `cache_key`. `CacheTransparent` says what is left: the answer is that of a
  database some process of the folder reads.
- A kdb burst whose rows have no business column is skipped without an error
  (`adapters/kdb/write.rs:138`); `PublishedInOrder` counts it as not due.
- Postgres subscriptions lose rows whose time equals that of the last poll
  (documented); the end of a fluvio stream is silent; kafka commits by itself.
- After an error the etcd sink leaves its lease to a detached keepalive; every key
  it wrote hangs on that lease (`LeaseReleased`). Kafka
  and postgres may write a part of a burst that fails.

Links:

- FIX symbols are not subscribed again after a reconnect: `sent` and `logged_in`
  are never reset, although the comment at `adapters/fix/mod.rs:1312` says so. A
  symbol counts as sent when the queue is full. A polling acceptor keeps its
  parse buffer and its sequence number, and a polling node drops what it read
  together with the end of the stream (`:809`). The sender does not wait for the
  logon to be acknowledged.
- The Aeron thread polls the data before it sends a status, so fragments may
  come before `Connected`. Under back pressure the rest of a burst is dropped.
- In iceoryx2 the error path of the threaded modes is cut off by `?`
  (`adapters/iceoryx2/read.rs:650`); a slice longer than the first limit fails in
  the middle of a burst.
- All queues of the web adapter may drop frames, also `Complete`; a `Complete` of
  one topic ends the reconnects for all.
- The ZeroMQ publisher drops its buffer at stop (`adapters/zmq/write.rs:141`), also
  when a subscriber has been accepted and the node is "committed to flushing" it
  (`:98`): that subscriber gets the end of the stream and nothing else, which is
  the "nothing" of `NoGap`. The end of the keepalive thread, and a name that could
  not be revoked, are only logged.
- A sample of iceoryx2 that the subscriber has not connected to yet goes with the
  publisher's port when the publishing graph stops (`adapters/iceoryx2/write.rs:420`).
- A dynamic group that inserts a key again, or inserts and removes it in one
  cycle, leaves a stream wired that it does not know (`nodes/dynamic_group.rs:59`
  says registry and wiring are kept in sync); `GroupConsistent` states the other
  direction.
- Clocks that disagree, or stamps of two kinds in one trace, make deltas
  negative, which are skipped, and let spans exceed their parent; `SpansNest` is
  about the other cases.

## Proofs

Each `...Proofs` module proves inductive invariants of its specification and
derives the properties from them. None of them bounds nodes, layers, cycles,
messages, records, processes or times.

| module | invariant | derived theorems |
|---|---|---|
| `TimeQueueProofs` | `HeapInv`: sequence numbers are distinct and below `next_seq`, no duplicates | `SchedulerQueue`: with reflexive equality the heap implements `EventSet` |
| `GraphWiringProofs` | `WiringInv`: the frames of the stack form a path of declared upstreams, its nodes are the in-progress set and unregistered, a frame's layer exceeds the upstreams recorded so far | `LayersAreOrdered`, `LayersHaveLists` and with them `LayersAreSound`; `ErrorsAreCycles` |
| `GraphEngineProofs` | `EngineInv`: lists and flags agree, the nodes that ran are the dirty ones up to the cursor, ticks have reached the downstreams up to the edge at hand, passes without progress left no mark, clock and last-cycle bookkeeping | `NoGlitch`, `MarksAreServed`, `CleanBetweenCycles` (together `CyclesAreSound`), `NodesRunOnce`, `ReplayIsOnTime`, `LastCycleIsLast`, `OverrunIsBounded` (`ReplaysAreSound`), `ClockAdvances` (`PassesAreSound`) |
| `DynamicGraphProofs` | `DynamicInv`: edges mirror each other except at nodes not yet linked, layers are ordered except at nodes in the queue of fix_layers, positions tell which nodes are set up and started | `LayersStayOrdered`, `LinksStayMirrored`, `OnlyStartedRun` (together `GraphStaysSound`), `RemovalsDetach` |
| | `LifecycleInv`: `DynamicInv`, a node without a list is below a queued leaf, the walk of a recycled addition stays on nodes that reach its leaf, a position tells which stops and teardowns are still due | `ListsStayLongEnough`, `RecyclesReach`, `StopsHappenOnce`, `EverythingIsReleased` (together `LifecycleStaysSound`) |
| `ReceiverStreamProofs` | `ReceiverInv`: the end of a stream is its last message, the handle is given up only for a pending error or in `stop()`, a message has its wake-up | `WakeupsAreKept`, `ThreadsAreJoined` (`ReceiverIsSound`), `DeferredErrorsWake` |
| | `DeliveryInv`: `ReceiverInv`, what was delivered, read and is in the channel is one sequence, a failure is in the handle, in the channel, pending or reported | `NothingIsSwallowed` |
| `GraphWorkersProofs` | `IInv`: see below | `WorkersInvariant`, `GraphsStayInStep` |
| `LinksProofs` | `IceInv` and `ModeInv`: samples given, in the channel and in the buffer rise and follow each other, the subscriber has nothing before the publisher connects to it | `SamplesStayInOrder` |
| | `AeronInv`: only settled slots are read, what was given and what is pending are the accepted fragments read so far, what was told goes as far as what was recorded | `SubscribersStayExact` |
| | `FixInv`: see below | `FixInvariant`, `FixSessionsStayApart` |
| `StoresProofs` | `GroupInv`: a stream is stored under one key | `GroupsStayConsistent` |
| | `MetricsInv`: what a scrape has loaded lies between its start and now | `ScrapesAreFresh` |
| | `SinkInv`: the bursts before the one in hand are stored whole, the one in hand is divided between the server, the rest and what is in flight; a leased key is the task's own | `SinksStaySound`, `ForeignKeysAreKept` |
| | `CacheInv`: an inode has one name, its rows are the answer to the query in the name or torn, wherever a rename has moved it meanwhile | `CacheStaysTransparent` |
| | `PublisherInv`: an accept is seen after it happened; what was given out and what is kept back start at the same message | `PublisherStaysSound` |
| | `SubInv`: the times of the log never fall, a pulling reader is at its cursor, the inbox of a watch holds the next writes without a gap, the postgres cursor is closed under the times it has passed | `SubscriptionsStayExact` |
| | `WebInv`: see below | `WebStaysExact` |

Why the strengthening is needed: the properties speak of moments (a node runs, a
cycle begins, the engine waits), while the loops in between break them for a
while. The invariants say by how much. `LayersOrdered`, for example, is false
inside fix_layers; `LayerInv` lets exactly the queued nodes be too low, and an
empty queue gives the property back. The invariants, and the properties that no
run lists on their own (`OncePerCycle`, `DeferredIsWoken`, `ErrorsAreCycles`),
rest on their proofs.

The longest argument is the one for two graphs on two threads. `InStep` says
what the main graph has delivered; that it is right depends on both run loops,
both receivers and both channels. `IInv` has these parts:

- `StageInv` and `OrderInv`: the values are spread over a chain of five places
  (delivered, held by the main graph, in the channel to it, held by the worker,
  in the channel to it), each place below the next and rising within. A step
  moves values from the front of one place to the back of the place before it,
  so nothing overtakes and nothing comes twice.
- `FormInv`, `ChannelInv`, `PhaseInv`, `ProducerInv`: what is in a message, that
  the end of a stream is the last one, and which phases exclude each other.
- `SourceInv` and `ReaderInv`: the clock of the source's graph is the time of its
  last value, and the clock of the reading graph never passes a value that is
  still to come. Its queue holds at most the message that is due and one that is
  not, which is the point of the loop in `ChannelReceiverStream::cycle`. This
  gives `TimesInv`, and that no message is refused as late.
- `FlightInv`: the main graph of a mapper does not leave a cycle in which its
  source ticked before the answer is there, a value or the checkpoint that
  stands for a filtered one.
- `CompleteInv`: a producer's values are all somewhere in the chain, and a graph
  that ends without an error has seen the end of the other's stream.

`WebInv` is about frames that cross four queues and are dropped by any of them,
while sockets are opened and closed:

- `ClientInv` and `SocketInv`: at most one socket is active, the one the client
  holds; nothing is sent before its open event or delivered after its close; the
  server has one task for each forwarder.
- `DownOf`: along each active socket the numbers of a topic rise from what the
  page was given, over the socket, the queue of the connection and the receiver
  of the forwarder, up to what `web_pub` sent. Frames leave a queue only at the
  front or are dropped, and a new socket starts behind all of them, which is why
  a reconnect repeats nothing.
- `UpOf`: the same for the values of the page, up to what `web_sub` was given.
- `ControlOf`: for each topic the last control frame under way that names it, and
  if there is none the forwarder itself, says whether the page has a listener. It
  is inductive, unlike `ForwardersMatch`, which is its case of an empty queue.

`FixInv` holds for all six nodes at once and follows a session through its
thread, its socket and the graph:

- `NumbersInv`: what is on the way to the counterparty continues what it has read,
  up to the number of the session; a connection whose session is not made yet has
  seen no message, and the loop top has no open one. This is why a fresh session
  on a fresh connection is enough.
- `FixDataInv`: the data told, whether or not the graph has taken it from the
  channel, comes before the data in `parse_buf` and on the socket, and both rise.
  Dropping bytes at either end of the buffer keeps that, also for the polling
  acceptor, which joins a kept first part to the next connection.
- `FixStatusInv`: the last status of the log is one of a live session while the
  thread reads or the polling node has a socket, and `Disconnected` or `Error`
  where the next `LoggingIn` comes from.
- `SymbolsInv`: a symbol asked for is pending, queued, on its way behind the Logon
  or subscribed; the queue never holds one twice, so a queue as long as there are
  symbols has room for every request, and `send_or_log` drops none.

Assumptions. `WiringAssumption`, `TimeQueueAssumption`, `ReceiverAssumption` and
those of the adapters type the constants; `SinksAssumption` also numbers the
records in the order of the graph, which names them and restricts nothing, and
`FixAssumption` takes the set of symbols as finite and tells a request for a symbol
from the other kinds of message.
`EngineAssumption` takes the layers as ordered and
within the lists, which is what `LayersAreOrdered` and `LayersHaveLists` prove of
the wiring and `LayersStayOrdered` of a changing graph, and that a demux parent
marks only nodes above it. `DynamicAssumption` takes the same of the initial
graph. `WorkersAssumption` lets the times of the source ascend strictly: values of
one time come as one burst (`nodes/iterator_stream.rs:30-44`).
`CacheStaysTransparent` assumes nothing of the databases the processes read, and
`SinksStaySound` nothing of the rows of a table.

Recursion. The prover does not instantiate the library's induction theorems. What
is needed of folds (`FlattenSeq`, `FoldLeft`) is therefore proved by an induction over a
set of numbers (lemma `Inductive`, from the well-foundedness of the naturals), and
the model writes the selections that proofs speak of with `FlattenSeq`. The places
where messages end in a FIX buffer are instead named by their rank, and that every
rank is taken follows from counting.

Only model-checked:

- everything under fairness (`WiringEnds`, `EngineProgress`, `BatchEnds`,
  `ReceiverProgress`, `WorkersProgress`, `AsyncRunEnds`, `FixStops`,
  `AcceptedArrives`, `SampleArrives`), because the prover does not handle
  fairness and ENABLED;
- `ImplementsEventQueue`, `WiringFaithful`, the operators, the statistics and the
  sliced reads, whose references are recursive or sort;
- `CacheBounded` and `LatencySound`, a sum over a set of files and counts over a set of
  observations: inductions over finite sets;
- `AsyncExact`, whose proof is not written.

## What is not modelled

- `always_callbacks` in `DynamicGraph`, and the queue entries of removed nodes
  (they are the reason why a cycle may try to run any registered node).
- Values in the engine: a node ticks or does not. Values are in `OperatorGraph`,
  with small integers and fixed functions, and as numbers in the channels.
- Floating point: `Statistics` computes with exact fractions, so rounding and
  cancellation in the running moments are outside of it. Forecasting and
  clustering are the augurs library.
- Encodings: FIX tags, kdb and web codecs, and the parsing of CSV are abstracted
  to whole, partial and unreadable; formatting and logging are left out.
- TLS and static files of the web server, and the requests that carry metrics and spans to
  collectors: output without an answer the code acts on.
- The Python classes (`src/wingfoil-python`): each wraps one operator or adapter
  and keeps no state of its own. The derive macro works at compile time.
- Panics, except in the thread of a receiver, where they take the path of an
  error. A poisoned lock is an error of the poll in `AeronAdapter`; elsewhere poisoned
  locks, and out-of-memory everywhere, are out of scope.
- Wrapping of u64 nanoseconds and of `next_seq`: both last for centuries.

## Plan

1. The proof of `AsyncExact`, which shares the receiver of `GraphWorkersProofs`.
2. An abstract specification of a cycle ("each marked node once, in a
   topological order") with `GraphEngine` as its refinement, and `GroupConsistent`
   as a client of `DynamicGraph`.
3. Compositions: a receiver inside `GraphEngine`, so that its notifications meet
   the passes of the loop, and a FIX source inside a receiver.
