# TLA+ models of OpenMRN

OpenMRN is a C++ implementation of OpenLCB (NMRA LCC), a network for model
railroads, with the small cooperative runtime it needs on microcontrollers and
on desktop systems. This directory holds TLA+ models of the parts of it whose
correctness depends on interleavings, delays and long sequences of calls, the
TLC configurations that check them on small instances, and TLAPS proofs of the
most important properties for every instance. Paths below are relative to the
`src/` directory of the repository.

Contents: 1 the system, 2 the modules, 3 the runs, 4 the proofs, 5 what the
checks found, 6 what is not modelled, 7 what comes next.

## 1. The system: inventory

Each part with its state, its operations, whom it interacts with, what is hard
about it and what it must guarantee. `PROJECT.json` lists the same parts with
their files, and the hazards with the line where each one bites.

### 1.1 Runtime

- **Executor and timers** (`executor/Executor.*`, `executor/Timer.*`,
  `os/OSSelectWakeup.hxx`, `utils/Queue.hxx`). State: a queue of executables in
  priority bands, the sorted list of active timers, the set of descriptors
  waited for, the flags of the interruptible select. Operations: `add`,
  `shutdown`, `select`, `unselect`, `Timer::start/restart/trigger`, and the
  loop itself. Other threads call `add` and `start` at any time. Hard: sleeping
  with work in the queue, sleeping past a timer, starvation of timers and
  descriptors by flows that yield for ever. Must hold: no lost wakeup, no
  overslept timer, timer flags that tell the truth, everything is served.
- **State flows** (`executor/StateFlow.*`, `CallableFlow.hxx`). State: the
  current state function and a queue of messages. A flow runs from one wait to
  the next without interruption by other flows of its executor. This rule fixes
  the granularity of the actions in all models.
- **Dispatcher** (`executor/Dispatcher.hxx`). State: a vector of registered
  handlers, the position of the walk over it, the handler to call next.
  Operations: `register_handler`, `unregister_handler`,
  `unregister_handler_all`, and the flow that gives every message to all
  matching handlers. Hard: the vector changes while the flow waits for a
  buffer. Must hold: every matching handler is called, no other one, none
  after its removal, and the dispatch ends.
- **Notifiables, pools, queues** (`executor/Notifiable.hxx`,
  `AsyncNotifiableBlock.*`, `utils/Buffer.*`, `LimitedPool.hxx`,
  `ScheduledQueue.hxx`, `AsyncMutex.hxx`). State: counts of free buffers and
  queues of flows that wait for one. Hard: an allocation on one thread against
  a free on another, references dropped on several threads, a barrier whose
  children end on several threads. Must hold: a buffer has one owner or place
  at a time and is freed once, the limit is kept, flows that wait are served, a
  barrier calls once and after all of its children.

### 1.2 OpenLCB on CAN

- **Alias cache** (`openlcb/AliasCache.*`, `utils/SortedListMap.hxx`). State: a
  pool of slots, a free list and an LRU list threaded through it, two indexes.
  Operations: `clear`, `add`, `remove`, `lookup` twice, `next_entry`. Hard: the
  lists share fields; `add` may remove two entries and evict a third. Must
  hold: the structure stays consistent and behaves as a bounded LRU table.
- **Alias reservation and use** (`openlcb/AliasAllocator.*`, `IfCan.cxx`,
  `IfCanImpl.hxx`). State: the two caches of each interface, the seed, the
  reservation in progress, the flows that wait for an alias, the frames in
  flight. Operations: the CID, wait, RID sequence; the conflict handlers; AMD
  and AMR frames; node deletion; restart. Several interfaces interact over the
  bus. Hard: two interfaces choose the same alias, frames arrive after the
  200 ms wait, aliases are lost while somebody uses or waits for them. Must
  hold: no duplicate when frames are timely, no silent duplicate ever, no flow
  that waits for ever, caches that agree with the bus.
- **Bulk alias allocator** (`openlcb/BulkAliasAllocator.cxx`). Many
  reservations at once, with 8-bit time stamps.
- **CAN message parsers and lookups** (`openlcb/IfCan.*`). Reassembly of
  multi-frame messages by key; enquiries for a remote alias with a timeout.
- **Datagrams** (`openlcb/Datagram*`). State: the clients, which of them is
  sending, who waits for whom, partly received datagrams. Hard: hand-off of
  waiting clients, answers that race the timeout or come after it, frames lost
  in the middle. Must hold: one datagram per source and destination at a time,
  nobody stranded, every write ends, success only after an acknowledgement.
- **Streams** (`openlcb/Stream*`). Window flow control between a sender and a
  receiver. State: the window on either side, the buffers of the current
  window, the handlers registered, timers. Hard: the close message overtakes
  data, a request is cancelled while its stream goes on, the sink is slow,
  answers do not come. Must hold: bytes arrive in order and complete, the
  sender never exceeds the window, memory is bounded, a stream always ends.
- **Event service** (`openlcb/EventService*`, `EventHandler*`). Iteration over
  a registry that may change meanwhile. Must hold: no stale entry is called,
  every handler is called, iteration ends.
- **Memory configuration, traction, broadcast time, bootloader, node
  initialization** (`openlcb/MemoryConfig*`, `Traction*`, `BroadcastTime*`,
  `Bootloader*`, `NodeInitializeFlow.hxx`, `SimpleStack.*`). Request and
  response protocols with timeouts on top of the parts above.

### 1.3 Around it

- **Hubs and ports** (`utils/DirectHub.cxx`, `Hub*.hxx`, `GridConnectHub.cxx`,
  `openlcb/CanRoutingHub.hxx`). Fan-out to ports, each with a read and a write
  flow that may fail in any order.
- **DCC** (`dcc/`), **traction modem** (`traction_modem/`), **TCP interface**
  (`openlcb/IfTcp*`), **sockets**, **Bluetooth LE**, **console**,
  **WiThrottle**, **persistent bit sets**, the **OS layer** and the **hardware
  drivers** (`freertos_drivers/`).

## 2. The modules

| Module | Models | Kind |
| --- | --- | --- |
| `AliasCache` | `openlcb/AliasCache.*` | data structure, one action per call |
| `AliasCacheSpec` | what `AliasCache.hxx` promises | abstract specification |
| `AliasAllocator` | `AliasAllocator.*`, the alias handling of `IfCan.cxx`, `IfCanImpl.hxx`, `SimpleStack.cxx` | several interfaces on a bus |
| `Dispatcher` | `executor/Dispatcher.hxx` | a flow and its callers |
| `Executor` | `executor/Executor.*`, `Timer.*`, `os/OSSelectWakeup.hxx` | a loop and other threads |
| `DatagramClient` | `openlcb/DatagramImpl.hxx` | the clients of a service |
| `DatagramCan` | `openlcb/DatagramCan.cxx`, `Datagram.cxx`, the alias lookup of `IfCanImpl.hxx` | write flow, bus, destinations |
| `Datagram` | | composes the two |
| `Pools` | `utils/Buffer.*`, `LimitedPool.hxx`, `executor/Notifiable.*` | flows on several threads |
| `StreamSender` | `openlcb/StreamSender.hxx`, `StreamTransport.hxx`, the read flow of `MemoryConfigStream.hxx` | the sending node |
| `StreamReceiver` | `openlcb/StreamReceiver.*` | the receiving node |
| `StreamRead` | `openlcb/MemoryConfigClient.hxx`, the handler of `MemoryConfigStream.hxx`, the bus | composes the two |
| `EventService` | `openlcb/EventService.cxx`, `EventServiceImpl.hxx`, `EventHandlerContainer.cxx`, `align_mask()` of `EventHandler.cxx` | flows over a registry |
| `AliasCacheProofs`, `AliasAllocatorProofs`, `DispatcherProofs`, `ExecutorProofs`, `DatagramProofs`, `PoolsProofs`, `StreamProofs`, `EventServiceProofs` | | TLAPS proofs |
| `MCAliasCache`, `MCAliasAllocator`, `MCDispatcher`, `MCExecutor`, `MCDatagram`, `MCPools`, `MCStreamRead`, `MCEventService` | | instances for TLC |

An action that is named like a function of the code models that function, or
the part of it up to the next wait, lock or unlock. Definitions introduced as a
mutant, or with a suffix such as `_stuck` or `_blind`, are deliberately wrong
versions of the definition after them; no specification uses them. They record
which mistake in the code each property would reveal.

### 2.1 AliasCache and AliasCacheSpec

`cache` is one record with the fields of the slots (`nodeId`, `alias`, `newer`,
`older`), the list heads `freeList`, `newest`, `oldest` and the two indexes as
sets of slots. The operations are operators from caches to caches, because in
the code they call each other: `add` is `drop` by alias, `drop` by node ID,
`take` (a free slot or the oldest one), `insert`. `call`, `ret` and `removed`
record the last call, its result and the pairs given to the remove callback, so
that the refinement covers results as well as state. `remove` leaves the alias
field of a slot alone, as the code does. Aliases of nodes that do not respond
are stored as the sentinel plus the slot index, as `resolve_notresponding()`
expects.

`AliasCacheSpec` is a sequence of pairs, most recently used first. The
refinement mapping follows the LRU list from `newest` (`Chain`).

### 2.2 AliasAllocator

Each interface has its two caches, the seed, the allocator flow (`flow`, with
`queue` requests not yet started), the flows waiting for an alias (`waiting`),
write flows (`client`), the `AliasConflictHandler` (`handler`), and channels of
frames to every other interface. The dispatcher of a receiver hands a frame to
the conflict handler, a flow with a queue, and to the other handlers, which run
inline; the two can be far apart, so there are two channels, `inbox` and
`rest`. Channels are FIFO: a CAN bus neither reorders nor loses frames between
interfaces that are up. The caches appear as bounded tables without their bound
(the abstraction `AliasCacheSpec` justifies as long as nothing is evicted).

`Timely` says whether the 200 ms wait is long enough for all handlers of the
reservation to run and for their answers to arrive. The OpenLCB protocol
assumes this; the code cannot enforce it, so both cases are checked, with
different properties. The seed is a number modulo `AliasCount` to which each
interface adds its own offset.

Bounds: `MaxMessages`, `MaxDeletes` and `MaxRestarts` limit what the
application does, nothing limits the protocol itself.

### 2.3 Dispatcher

`slot` is the memory of the vector, also past its size, because `clone_done()`
may read there; `currentIndex`, `last` and `pc` are the flow. `pc = "clone"` is
the wait for a buffer. An (id, mask) pair is a key `k` and `Match[k]` the
messages it selects. Registration calls are possible whenever the flow is idle,
and, if they are in `MidOps`, while it waits (or, with `OnExecutor = FALSE`,
between any two sections under the lock, as from another thread). `calls`,
`fell`, `steady` and `ever` are history: how often each handler was given the
current message, whether the fallback handler was, which registrations have
been in place since the dispatch began, and which were in place at any time.

### 2.4 Executor

`pc` follows the loop: `next`, `timeout` and `expire` (`get_next_timeout()`
under its lock), `clear` and `check` (before the wait), `enter`, `select`,
`leave` (the two critical sections of `OSSelectWakeup::select()` and the
`pselect()` between them), `scan` (over the selectables), `waited`, `run`.
Every access to state that another thread can see is a step of its own. `call`
is how far a thread is in `add()` or `Timer::start()`: it inserts, then runs
the critical section of `wakeup()`, then sends the signal. What runs on the
executor (`flow_run`, `Timer_run`, `selectable_run`, `ActiveTimers_run`) may
end, yield, start or trigger a timer, select or unselect a descriptor. Time is
a counter up to `MaxTime`. The model is the build with `pselect` and signals.

### 2.5 DatagramClient, DatagramCan and Datagram

A client is a flow with `state`, its list `waitingClients`, its timer and its
result. A flow that was notified is `queued` and runs some time later, so that
what else is queued may run first. `DatagramCan` has the write flow (lookup of
the destination alias with the AME and verify frames and a timeout, then one
frame at a time), the frames on the way (`wire`), answers on the way (`back`),
and the destinations: up or down, their partly received datagrams, and the
datagrams they still have to answer. A frame is the number of its datagram, its
position and the length, so that one can say what a reassembled datagram is
made of. Frames are not reordered; one may be lost, and a destination may go
down, lose its buffers and announce itself again. `Datagram` joins the two: a
step of a client with the write flow it hands a datagram to, the arrival of an
answer with the client that takes it. `accepted` and `succeeded` are history.

Where an assertion of the code fails the program ends: `assertion` (the hand-off)
and `lookupDead` (a definition that arrives while the write flow waits for a
buffer and the timer is not running) record it, and no step follows. Bounds:
`MaxWrites`, `MaxFaults`.

### 2.6 Pools

Flows run on executors of different threads, so each step lies between two
locks or two uses of an atomic: `pc[f]` is where flow `f` is between them
(`insert`: it has seen no free buffer and is about to join the queue;
`destroy`, `free`, `base_free`: it has dropped the last reference and hands the
memory back). `queue` and `empty` are the FixedPool, whose one queue holds
buffers or waiting flows; `freeCount`, `waitingQueue` and `heap` are the
LimitedPool and the blocks of the pool below it. `count`, `done` and `holds`
are the buffers with their references, `barrier`, `parent`, `joined` and `told`
the barrier and the flow that awaits it. Bounds: `MaxRefs`, `MaxChildren`.

### 2.7 StreamSender, StreamReceiver and StreamRead

A client reads a memory space of a server through a stream. `StreamSender` has
the read flow (`reader`), which takes the only sender of the interface, a
stream ID and buffers, and the flow of the sender with its window, timer and
queue of messages. `StreamReceiver` has the flow that is woken by its handlers
(`rcvQueued`), what is registered, and `rx`: the buffer being filled, whether the
last buffer of the window is there, the window left, the bytes counted and the
chunks the sink still holds. `StreamRead` adds the client with its timer,
datagram, response and the barrier `done`, the handler in the server, and the
bus: messages keep their order in each direction, data frames keep theirs, but
the close message may overtake data frames (they have a lower priority), and a
data frame has arrived by the time the next stream is initiated. A byte is
its address and position, so that one can say which read it belongs to.

The sink is any `ByteSink`: it keeps a chunk as long as it likes. (The client's
own sink copies and frees at once; the receiver is written for the general one,
and its pool of two last buffers is there for it.) The datagram client appears
by its result: acknowledged, refused, or given up at any time, also when the
datagram has arrived. The sender's timer expires only when nothing is on the
bus, where frames stay for much less than its 20 seconds.

Four assertions of the code can fail in this system; `sndAssertion` and
`rcvAssertion` record it, and no step follows (section 5). Bounds: `Reads` is
the sequence of reads with their sizes, `EarlierReads` how many stream IDs
earlier reads have used up.

### 2.8 EventService

`registry` is the set of registrations and `dirtyCounter` its epoch. A
registration is for the events `[event, event + size)`; `AlignedSize` and
`AlignedEvent` are what `align_mask()` makes of it. A mask is represented by the
number of events it covers, and `Blocks` are the sizes a mask can have, the
powers of two up to `IdSpace`, which stands for 2^64. `Selects` is the lookup
of `setup_current_mask()`, `DecodeRange` the function of that name. `todo` is
the iterator of a flow, `epoch` its `eventRegistryEpoch_`. There is one inline
flow, which calls the handlers itself, and two identify flows, which leave the
calls to `callerFlow_` (`calls`, `caller`). A flow at `immediately` goes on
before anything else on the executor; at `queued` others may run first. A
handler may change the registry while it is called (`CallHandler`), and so may
the application between two steps (`application`). `busy` is who has the report
of a flow; `call`, `served` and `steady` are history. Bounds: `MaxChanges`,
`MaxMessages`. The epoch is a number without wrap-around: a stale epoch would
have to survive 2^32 changes.

## 3. The runs

`tlc -config X.cfg M` in this directory; each run finishes within five minutes.

| Run | Instance | States | Shows |
| --- | --- | --- | --- |
| `alias_cache` | 3 slots, 4 node IDs, 2 aliases and the sentinel | 17,179 | `Consistent` (the code's `check_consistency()`), `ImplementsTable` |
| `alias_timely` | 2 interfaces with the same seed, 3 aliases, 2 messages each, 1 deletion | 424,755 | `UniqueAlias`, `RemoteFaithful` |
| `alias_late` | the same without timely frames | 34,862 | `NoSilentDuplicate`, `DuplicateResolved` |
| `alias_waiters` | 1 interface, 2 nodes, 2 write flows, a deletion, a restart or clear | 142,683 | `WaitersCovered`, `ClientServed` |
| `dispatch_churn` | 3 handlers, 2 keys, 2 messages, 2 calls during a dispatch, fallback handler | 889,869 | `AllMatchingCalled`, `CalledWhileRegistered`, `DispatchEnds` |
| `executor_sleep` | 1 thread, 2 timers, 1 descriptor, 2 bands | 2,468,264 | `NoLostWakeup`, `NoOverslept`, `TimersListed`, `AllWatched` |
| `executor_serves` | 1 thread, 1 timer, 1 descriptor, 1 band | 277,547 | `AddedRuns`, `DueTimerRuns`, `ReadyServed` |
| `datagram` | 2 clients of one pair, 2 datagrams of 2 or 3 frames (2 fit), 1 fault | 448,559 | `Exclusive`, `Covered`, `WokenOnce`, `OneOutcome`, `SuccessBacked`, `Reassembled`, `WriteEnds` |
| `pools` | 3 flows, 1 buffer in each pool, 2 children | 82,631 | `OnePlace`, `KindsApart`, `Limited`, `JoinsAll`, `Served`, `Told` |
| `event_service` | 2 registrations (a block of 4 and all of 8 events), 3 flows, 2 messages, 2 changes | 120,973 | `HelpersAvailable`, `CalledLive`, `AllServed`, `ProcessingEnds` |
| `stream_read` | 2 reads, of 7 bytes from one address and 1 byte from another, window 3, buffers and frames of 2 | 1,767,225 | `Credit`, `ReadFaithful`, `RamBound`, `NoStaleHandlers`, `NoneStuck` |
| `stream_reuse` | the same | violation | `Reusable` fails, section 5 |

The type invariants `TypeOK` are proved (section 4), except the one of
`StreamRead`, and are in no run.

**Why the bounds are enough.** In `alias_cache` the number of node IDs exceeds
the number of slots, so that eviction happens, and the aliases are fewer than
the slots, so that replacement by alias, by node ID and several nodes without
alias happen in every combination. In the allocator runs three aliases for two
interfaces with the same seed make conflicts at the first attempt and leave
room to resolve them; one CID frame stands for the four of the code, which
differ only in their payload. `dispatch_churn` lets two calls happen in one
dispatch: one frees a slot, the other takes it. `executor_sleep` has a timer
that is due before and one that is due after the other, and a clock that gets
past both. `datagram` has a client that waits while the other sends, an answer
that is late for one datagram and arrives during the next, and a datagram that
is longer than the parser accepts, so that both rejections happen. `pools` has
more flows than buffers in either pool, and a third flow that can come in
between the two halves of an allocation or of a release. In `stream_read` seven
bytes are more than two windows, so that the sink can hold up the sender, and
windows, buffers and frames end at different places; the second read starts
while the first may still be going on in the server. `EarlierReads` leaves the
second read with or without a stream ID. In `event_service` the ranges need
rounding, one to a block that is not all events; two changes allow an entry to
go and come back during one iteration, and two messages let an inline and an
identify flow, or both identify flows, run at once. `executor_sleep` and the proofs cover more than one band;
`executor_serves` has one band because strict priorities do starve lower bands
(`utils/Queue.hxx`, by design).

**Deadlock** is not checked in the allocator, executor, datagram, event
service and stream runs: there the bounds on messages, reads and on time, and `shutdown()`, really
end the behaviour. In `pools` all flows may come to wait in the LimitedPool
after the race of section 5. `NoneStuck` is the part of deadlock freedom that
does hold of streams.

**View and symmetry.** `alias_cache` explores states up to the record of the
last call, on which no later step depends; step properties are still checked on
every transition.

**Fairness.** `AliasAllocator!FairSpec`: weak fairness of the allocator flow,
of the conflict handler, of every write flow and of the delivery of frames. The
executor runs every flow that is ready (which module `Executor` shows for one
band), and the CAN hardware delivers or retries every frame. Nothing is assumed
of the application (`find_local_alias`, deletion, restart). `Dispatcher!FairSpec`:
weak fairness of the steps of the flow, the wait for a buffer included; pools
hand out a buffer when one is freed. `Executor!FairSpec`: the executor's thread
and threads inside a call keep running, and time goes on; nothing is assumed of
what threads, flows and descriptors do. `Datagram!FairSpec`: the clients and
the write flow run when they can, their timers expire, destinations that are up
read their frames and the answers arrive; a destination need not answer.
`Pools!FairSpec`: a flow that is inside a call goes on, and a flow drops a
reference it has again and again the chance to drop (strong fairness, as the
buffer may go back and forth between owners); flows are not obliged to
allocate. `EventService!FairSpec`: the executor runs one of the flows that can
run, and handlers notify the `done` they are given, as the contract of
`EventHandler` demands; one weak fairness condition for all of them is enough,
as nothing new comes in for ever. `StreamRead` needs no fairness: its behaviours are finite, so
`NoneStuck` says that every wait it names ends as long as anything that can
happen does.

## 4. The proofs

Checked by TLAPS 1.4.5 with `tlapm M.tla`; no step is left without proof.

- **`AliasCacheProofs`**: `CacheTypeOK`, `CacheConsistent`, `CacheAssertions`,
  for every pool size and all sets of node IDs and aliases. The invariant
  `Good` names the two lists as functions from positions to slots, says that
  they share out the pool, and that the links agree with them. `Open` is the
  same in the middle of `add`, when one slot is in neither list. One lemma per
  stage (`RemoveGood`, `TakeFreeOpen`, `EvictOpen`, `InsertGood`, `TouchGood`)
  says which of the two it starts from and which it leaves; `Consistent` alone
  is not inductive through `add`, which calls `remove` and is consistent only
  at its end.
- **`AliasAllocatorProofs`**: `AllocatorTypeOK`, `AllocatorWaitersWait`,
  `AllocatorWaitersCovered`, `AllocatorNoSilentDuplicate`, for any number of
  interfaces, nodes, write flows and aliases, whether frames are timely or not.
  `TInv` adds to the types that a busy flow holds a real alias and a node; this
  needs `WaitersWait`, because the client that is woken has a node only since
  it waits. `WaitersCovered` and `NoSilentDuplicate` are inductive on top of
  it: every reservation that ends wakes a client if one waits, and every alias that enters a cache does so together with an RID
  frame to everyone else.
  `AllocatorUniqueAlias` needs `Timely` (a reservation ends only when the frames
  it waits for have been handled) and allows any restarts and clients; without
  `Timely` it is false, and `NoSilentDuplicate` is what remains. Its invariant `RaceInv` speaks of two
  interfaces that claim one alias: as long as neither holds it, at least one
  claim is still to reach the other; a claim whose wait is over has no rival
  whose wait is over, and nobody holds its alias.
  `AllocatorRemoteFaithful` is proved for an `Undisturbed` bus: timely, no
  restarts, one write flow per interface, each node on one interface. TLC
  refutes it with one restart, which empties the local cache and sends no AMR,
  and with a second flow for the same node, which gives it a second alias while
  the first is dropped from the cache without a frame. `RemoteInv` has two parts.
  `ChannelInv`: the frames under way from an interface are true of it, and what
  a receiver will remember once it has handled them is an alias of the node.
  `OwnerInv`: a node has one alias, and what the flows and the conflict handler
  have in hand agrees with the cache.
- **`DispatcherProofs`**: `DispatcherTypeOK`; `DispatcherAllMatchingCalled`
  when a handler has one registration (`~MultiKey`);
  `DispatcherCalledWhileRegistered` when `unregister_handler_all` is not called
  during a dispatch. Both conditions are needed, as `MCDispatchMulti.cfg`
  and `MCDispatchRemoveAll.cfg` show.
  Calls from other threads (`OnExecutor = FALSE`) are covered. `Walked` is the
  invariant: a matching registration that was there from the start and lies
  before the current index has been served or is the one to be served next.
- **`ExecutorProofs`**: `ExecutorTypeOK`, `ExecutorNoLostWakeup`,
  `ExecutorNoOverslept`, `ExecutorTimersListed`, `ExecutorAllWatched`, for any
  number of threads, timers, descriptors and bands. The inductive invariant `ExecutorInv` has five parts beyond the types:
  the timer list is sorted and agrees with `isActive_` (so that its head is the
  earliest); `inSelect_` is set throughout `pselect()`; while `isPending_` is set, the executable of `ActiveTimers` is
  queued, running or about to be added (so that a `start()` that finds it set
  need not wake anybody); between the test of `empty()` and `select()` a
  non-empty queue is matched by a zero wait or a wakeup; and the computed wait
  exceeds no timer unless the queue is non-empty or a wakeup is under way.
  `TimersListed` and `AllWatched` need three more: nothing is queued twice or
  queued while it runs (`OnceInv`), `isExpired_` says where a timer is
  (`ExpiredInv`), and a selectable waits once, below `selectNFds_`, and while it
  waits is neither queued nor running (`WatchInv`).
- **`DatagramProofs`**: `ExclusiveHolds`, `CoveredHolds`, `WokenOnceHolds`,
  `OneOutcomeHolds`, `SuccessBackedHolds`, `ReassembledHolds`, for any number of
  clients, sources and destinations, any lengths and faults. The invariant `IInv` says of each client which of state,
  timer and flags go together (`Flows`, `Results`), of the lists that everybody
  in one waits, for the client whose list it is, and is there once (`Members`,
  `Once`, `Listed`), and that sending clients differ in source or destination
  (`Apart`). The lists are reasoned about by place (`At`), since the hand-off
  turns the tail of one list into another.
  `BackInv` is the account behind `SuccessBacked`: what has been accepted covers
  the successes reported, the acknowledgements under way and the client that
  holds one and has not reported it. `WireInv`, `BufInv` and `InboxInv` are the
  three stages of `Reassembled`: the frames on the way to a destination
  follow each other without a gap, up to what the write flow sends next; the parser's buffer is the beginning of
  one datagram, and continues with what is on the bus if nothing is lost; what
  was handed over is what `Reassembled` says. This needs room for one frame
  (`MaxFrames` at least 1).
- **`PoolsProofs`**: `OnePlaceHolds`, `KindsApartHolds`, `LimitedHolds`,
  `JoinsAllHolds`, for any flows, buffers, limits and numbers of children. The
  reference count is a cardinality (`FiniteSetTheorems`), and so is the barrier:
  its count is the number of buffers that still have a child, plus one until
  `maybe_done()`. `LimitedPool` counts free buffers, blocks in use and blocks on
  their way back.
- **`StreamProofs`**: `StreamNoStaleHandlers`, for every window, size and
  sequence of reads. `NoStaleHandlers` alone is not inductive: the flow that
  returns a closed stream does not touch two of the three handlers.
  `HandlerInv` says in which order they are registered, that the flow is queued
  only in `wakeup()`, and that only a cancellation wakes it while the initiate
  request is awaited.
- **`EventServiceProofs`**: `EventServiceTypeOK`, `EventServiceHelpersAvailable`,
  `EventServiceCalledLive`, `EventServiceAllServed`, for any registrations,
  flows and changes. The lemmas on ranges (`Aligned`, `SelectsAll`,
  `SelectsOnly`, `Decoded`) say that the lookup finds every registration that
  meets the message and only those whose aligned block does; they need of
  `Blocks` only that it has 1 and `IdSpace`, the largest, in it. Of the invariant `IInv`,
  `Complete` says that while a flow's epoch is current, each registration for
  its message has been called, is still to come or is in the queue of the caller
  flow, and `Live` that what is to come or queued is registered. Both say
  nothing of a flow whose epoch is old: such a flow starts over, and such a call
  is dropped. `AllServed` follows when a flow with nothing to come ends.

Assumptions: only the named `ASSUME`s of the modules, which say that constants
are numbers, functions and disjoint sets of the right kind. TLC evaluates them
in every run.

**Only model-checked**: all liveness properties (`DuplicateResolved`,
`ClientServed`, `DispatchEnds`, `AddedRuns`, `DueTimerRuns`, `ReadyServed`,
`WriteEnds`, `Served`, `Told`, `ProcessingEnds`) and `NoneStuck`, which uses `ENABLED`, as
TLAPS has no support for fairness here; the refinement `ImplementsTable`, whose
mapping walks a list; `Credit`,
`ReadFaithful` and `RamBound`, which are sums over sequences.

## 5. What the checks found

One disagreement between the code and its own comments has a run that keeps it
in view:

- `stream_reuse`: `StreamSenderCan::clear()` "Sets the stream sender to be
  available for reuse after a stream has been closed or reached error", but it
  resets only `state_`. After a reply or a proceed message that did not come in
  time `sleeping_` stays set (and `requestClose_`, when all data had been
  queued), and the next `start_stream()` fails its assertion.

The others were found in the same way. Each can be reproduced with the
configuration named, which checks one property that TLC refutes:

- `MCDatagramHandOff.cfg`: a client that was handed a list and notified finds
  the lock taken by another client, waits again and keeps its list; the next
  hand-off to it fails `HASSERT(c->waitingClients_.empty())`
  (`DatagramImpl.hxx:219`).
- `MCPoolsLimited.cfg`: `LimitedPool::alloc_untyped()` looks for a free buffer
  under the lock and joins the queue after it; a `free()` in between leaves the
  flow waiting next to a free buffer, until another one is freed.
- `MCAliasCacheRetrieve.cfg`: `AliasCache::retrieve()` takes a slot for an entry
  when its alias field is not zero, which stays so after `remove()` and
  `clear()`. The header promises false for an entry that is not allocated.
- `MCDispatchReuse.cfg`: during the wait for a buffer the slot the walk stands
  on is freed and given to a new handler, which is then called for a message
  that its filter does not select.
- `MCDispatchRemoveAll.cfg`: `unregister_handler_all()` does not clear
  `lastHandlerToCall_`, so that a removed handler, which may be gone, is called.
- `MCDispatchMulti.cfg`: `unregister_handler()` clears `lastHandlerToCall_` also
  when the pending call is owed to another registration of the same handler,
  which then misses the message.

`MCDispatchRegister.cfg` is the counterpart of `MCDispatchReuse.cfg`: when
nobody unregisters during a dispatch, `OnlyMatchingCalled` and
`FallbackOnlyUnmatched` hold.

Of the event service, `EventServiceImpl.hxx` says that "All such calls need to
be sent to this flow" (`callerFlow_`), a lock around all handlers.
`InlineEventIteratorFlow` calls handlers without it, so a handler can be called
for an event while another one, or itself, works on an identify message. Each
flow has a report with write helpers of its own, which is why
`HelpersAvailable` holds all the same. An application that changes the registry
at every step keeps an iteration from ending; `ProcessingEnds` is for finitely
many changes.

Further behaviour of streams the model shows, without a text in the repository
that says otherwise: `cancel_request()` and another wake-up that come before the
flow has run queue it twice, which is an assertion in the queue; a reply, a
proceed message or the client's response that comes after the timer has expired
triggers a timer that is not active, which is one too; stream IDs are never
released; and a receiver whose sender gives up in the middle waits for ever,
since it has no timeout and the sender sends no close message. The properties
of `stream_read` hold up to the first assertion that fails, and `NoneStuck`
names the waits that do end.

Everything else that was checked holds.

## 6. What is not modelled

- Parts of the modelled components: the arithmetic of the alias seed; eviction
  from the local alias cache of an interface; AME enquiries other than those of
  the write flow; datagrams and streams between two nodes of one interface
  (loopback) and over TCP; `DynamicPool` and `MainBufferPool`, which never make
  a flow wait; memory configuration by datagrams; `Timer::cancel()`, which its comment reserves for tests;
  `isCancelled_`; the executor builds without `select`; the builds of
  `OSSelectWakeup` for other systems.
- Of the event service: `VectorEventHandlers` (another registry, for one small
  target), the handlers of `EventHandlerTemplates`, `EventIdentifyGlobal`,
  registration from other threads, one entry registered twice.
- Parts without a module yet, section 7.
- Out of reach or of little use: hardware drivers and the OS layer (interrupt
  timing, wrappers), text and bit encodings (GridConnect, console, WiThrottle,
  Bluetooth advertisements, DCC packets), compile-time configuration templates.

The modules cover a small share of the repository's lines. Most of those are
drivers for particular microcontrollers and boards, generated and table code,
encodings, compile-time configuration and applications, in which there is no
protocol to check. The share grows only with the parts of section 7.

The hazards in `PROJECT.json` that name no property belong to these parts or to
behaviour described in section 5; each one says why.

## 7. What comes next

In order of importance:

1. **Bulk alias allocator** and the alias seed: 8-bit times, conflicts during a
   claim; the period of the seed sequence as a pure algorithm.
2. **Direct hub**: exclusive use of the hub, shutdown of a port in either order.
3. **Broadcast time server**, **traction**, **bootloader** on top of the above.
4. More proofs about the present modules: `OnlyMatchingCalled` without slot reuse, `ReadFaithful` of the stream.
