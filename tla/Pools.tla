------------------------------- MODULE Pools -------------------------------
(***************************************************************************)
(* The memory of OpenMRN's messages: the two pools that make a flow wait   *)
(* for a buffer, FixedPool (utils/Buffer.cxx) and LimitedPool              *)
(* (utils/LimitedPool.hxx), the reference count of a Buffer                *)
(* (utils/Buffer.hxx) and the BarrierNotifiable a buffer tells that it is  *)
(* gone (executor/Notifiable.cxx).                                         *)
(*                                                                         *)
(* A flow asks a pool for a buffer and sleeps until alloc_result(); it     *)
(* shares the buffer with other flows, each of which drops its reference.  *)
(* The last to do so runs the destructor, which notifies the barrier, and  *)
(* hands the memory back to the pool, which passes it on to the next flow  *)
(* that waits.  Flows run on executors of different threads, so every step *)
(* between two locks, or between two uses of an atomic, is an action of    *)
(* its own.                                                                *)
(***************************************************************************)
EXTENDS Naturals, Sequences, FiniteSets

CONSTANTS
    NULL,
    Flows,          \* flows, each on an executor of its own
    FixedItems,     \* the buffers a FixedPool was built with
    HeapItems,      \* external: blocks of the pool below a LimitedPool
    entry_count,    \* the limit of the LimitedPool
    MaxRefs,        \* bound: how often a buffer is passed on before it is freed
    MaxChildren     \* bound: children of a barrier between two resets

Items == FixedItems \cup HeapItems

ASSUME PoolsAssumption ==
    /\ IsFiniteSet(FixedItems) /\ IsFiniteSet(HeapItems) /\ IsFiniteSet(Flows)
    /\ FixedItems \cap HeapItems = {} /\ Flows \cap Items = {}
    /\ NULL \notin Flows \cup Items
    /\ entry_count \in Nat /\ entry_count <= Cardinality(HeapItems)
    /\ MaxRefs \in Nat /\ MaxChildren \in Nat

VARIABLES
    queue,          \* FixedPool::queue, of buffers or of flows that wait
    empty,          \* FixedPool::empty
    freeCount,      \* LimitedPool::freeCount_
    waitingQueue,   \* LimitedPool::waitingQueue_
    heap,           \* external: the blocks the pool below has given out
    count,          \* BufferBase::count_; 0 once it was destroyed
    done,           \* BufferBase::done_: the buffer has a child of the barrier
    passed,         \* how often a buffer was passed on, for the bound only
    holds,          \* the references each flow owns
    pc,             \* where each flow is
    item,           \* the buffer a flow in the middle of unref() destroys
    barrier,        \* BarrierNotifiable::count_
    parent,         \* the flow that awaits the barrier, and owns it
    joined,         \* the flow has called maybe_done()
    children,       \* children since then, for the bound only
    told            \* done_->notify() calls since the barrier was reset

poolVars == <<queue, empty, freeCount, waitingQueue, heap>>
bufVars == <<count, done, passed, holds>>
barrierVars == <<barrier, parent, joined, children, told>>
vars == <<poolVars, bufVars, pc, item, barrierVars>>

\* Where a flow is: in its own code, before waitingQueue_.insert(), waiting
\* for alloc_result(), or in unref(): before the destructor, before the
\* barrier's done_->notify(), before pool_->free(), before the free() of the
\* pool below.
Places == {"run", "insert", "wait", "destroy", "call_done", "free", "base_free"}

TypeOK ==
    /\ queue \in Seq(Flows \cup FixedItems) /\ empty \in BOOLEAN
    /\ freeCount \in 0..entry_count /\ waitingQueue \in Seq(Flows)
    /\ heap \subseteq HeapItems
    /\ count \in [Items -> 0..Cardinality(Flows)] /\ done \in [Items -> BOOLEAN]
    /\ passed \in [Items -> 0..MaxRefs]
    /\ holds \in [Flows -> SUBSET Items]
    /\ pc \in [Flows -> Places] /\ item \in [Flows -> Items \cup {NULL}]
    /\ barrier \in Nat /\ parent \in Flows \cup {NULL}
    /\ joined \in BOOLEAN /\ children \in 0..MaxChildren /\ told \in Nat

Init ==
    /\ queue \in {s \in [1..Cardinality(FixedItems) -> FixedItems] :
                    \A i, j \in DOMAIN s : s[i] = s[j] => i = j}
    /\ empty = FALSE
    /\ freeCount = entry_count /\ waitingQueue = <<>> /\ heap = {}
    /\ count = [b \in Items |-> 0] /\ done = [b \in Items |-> FALSE]
    /\ passed = [b \in Items |-> 0]
    /\ holds = [f \in Flows |-> {}]
    /\ pc = [f \in Flows |-> "run"] /\ item = [f \in Flows |-> NULL]
    /\ barrier = 0 /\ parent = NULL /\ joined = FALSE /\ children = 0 /\ told = 0

-----------------------------------------------------------------------------
(* The flows and the buffers. *)

\* Executable::alloc_result() wakes flow f with buffer b, on which the flow
\* runs the constructor (Pool::alloc_async_init).
alloc_result(f, b) ==
    /\ pc' = [pc EXCEPT ![f] = "run"]
    /\ holds' = [holds EXCEPT ![f] = @ \cup {b}]
    /\ count' = [count EXCEPT ![b] = 1]
    /\ done' = [done EXCEPT ![b] = FALSE]
    /\ UNCHANGED passed

\* A flow that sleeps in an allocation holds nothing and awaits nothing.
MayAllocate(f) == pc[f] = "run" /\ holds[f] = {} /\ parent # f

\* Buffer::ref(): flow f gives another reference to b to flow g.
ref(f, g, b) ==
    /\ pc[f] = "run" /\ pc[g] = "run" /\ b \in holds[f] /\ b \notin holds[g]
    /\ passed[b] < MaxRefs
    /\ passed' = [passed EXCEPT ![b] = @ + 1]
    /\ count' = [count EXCEPT ![b] = @ + 1]
    /\ holds' = [holds EXCEPT ![g] = @ \cup {b}]
    /\ UNCHANGED <<poolVars, done, pc, item, barrierVars>>

\* An owner that destroys whatever the count was.
unref_always(f, b) ==
    /\ pc[f] = "run" /\ b \in holds[f]
    /\ holds' = [holds EXCEPT ![f] = @ \ {b}]
    /\ count' = [count EXCEPT ![b] = @ - 1]
    /\ pc' = [pc EXCEPT ![f] = "destroy"]
    /\ item' = [item EXCEPT ![f] = b]
    /\ UNCHANGED <<poolVars, done, passed, barrierVars>>

\* Buffer::unref(): count_.fetch_sub(1); the last owner goes on to destroy.
unref(f, b) ==
    /\ pc[f] = "run" /\ b \in holds[f]
    /\ holds' = [holds EXCEPT ![f] = @ \ {b}]
    /\ count' = [count EXCEPT ![b] = @ - 1]
    /\ IF count[b] = 1
         THEN /\ pc' = [pc EXCEPT ![f] = "destroy"]
              /\ item' = [item EXCEPT ![f] = b]
              /\ passed' = [passed EXCEPT ![b] = 0]
         ELSE UNCHANGED <<pc, item, passed>>
    /\ UNCHANGED <<poolVars, done, barrierVars>>

\* BarrierNotifiable::notify(), the part under the lock; the last child goes
\* on to call done_.
notify(f, next) ==
    /\ barrier' = barrier - 1
    /\ pc' = [pc EXCEPT ![f] = IF barrier = 1 THEN "call_done" ELSE next]

\* ~BufferBase(): tells the barrier.
destroy(f) ==
    /\ pc[f] = "destroy"
    /\ IF done[item[f]]
         THEN notify(f, "free") /\ done' = [done EXCEPT ![item[f]] = FALSE]
         ELSE /\ pc' = [pc EXCEPT ![f] = "free"]
              /\ UNCHANGED <<done, barrier>>
    /\ UNCHANGED <<poolVars, count, passed, holds, item, parent, joined, children, told>>

\* A parent that has no child left is not told.
call_done_by_child(f) ==
    /\ pc[f] = "call_done"
    /\ told' = IF item[f] = NULL THEN told ELSE told + 1
    /\ pc' = [pc EXCEPT ![f] = IF item[f] = NULL THEN "run" ELSE "free"]
    /\ UNCHANGED <<poolVars, bufVars, item, barrier, parent, joined, children>>

\* BarrierNotifiable::notify(), after the lock: done_->notify() wakes the
\* parent.  A flow that destroys a buffer goes on to free it.
call_done(f) ==
    /\ pc[f] = "call_done"
    /\ told' = told + 1
    /\ pc' = [pc EXCEPT ![f] = IF item[f] = NULL THEN "run" ELSE "free"]
    /\ UNCHANGED <<poolVars, bufVars, item, barrier, parent, joined, children>>

-----------------------------------------------------------------------------
(* FixedPool. *)

\* alloc_untyped(): takes a buffer, or queues the flow.
FixedPool_alloc(f) ==
    /\ MayAllocate(f)
    /\ IF ~empty /\ queue # <<>>
         THEN /\ alloc_result(f, Head(queue))
              /\ queue' = Tail(queue)
              /\ UNCHANGED empty
         ELSE /\ empty' = TRUE
              /\ queue' = Append(queue, f)
              /\ pc' = [pc EXCEPT ![f] = "wait"]
              /\ UNCHANGED bufVars
    /\ UNCHANGED <<freeCount, waitingQueue, heap, item, barrierVars>>

\* A synchronous allocation that finds the pool empty returns without a
\* buffer.  It leaves empty set although no flow waits.
FixedPool_try(f) ==
    /\ MayAllocate(f)
    /\ IF ~empty /\ queue # <<>>
         THEN /\ alloc_result(f, Head(queue))
              /\ queue' = Tail(queue)
              /\ UNCHANGED empty
         ELSE /\ empty' = TRUE
              /\ UNCHANGED <<queue, pc, bufVars>>
    /\ UNCHANGED <<freeCount, waitingQueue, heap, item, barrierVars>>

\* The flag stays set when the last flow that waited is served.
FixedPool_free_sticky(f) ==
    /\ pc[f] = "free" /\ item[f] \in FixedItems
    /\ item' = [item EXCEPT ![f] = NULL]
    /\ IF empty /\ queue # <<>> /\ Head(queue) \in Flows
         THEN /\ queue' = Tail(queue)
              /\ pc' = [pc EXCEPT ![f] = "run", ![Head(queue)] = "run"]
              /\ holds' = [holds EXCEPT ![Head(queue)] = @ \cup {item[f]}]
              /\ count' = [count EXCEPT ![item[f]] = 1]
         ELSE /\ queue' = Append(queue, item[f])
              /\ pc' = [pc EXCEPT ![f] = "run"]
              /\ UNCHANGED <<holds, count>>
    /\ UNCHANGED <<empty, freeCount, waitingQueue, heap, done, passed, barrierVars>>

\* The buffer goes to the flow that came last.
FixedPool_free_lifo(f) ==
    LET last == queue[Len(queue)] IN
    /\ pc[f] = "free" /\ item[f] \in FixedItems
    /\ item' = [item EXCEPT ![f] = NULL]
    /\ IF empty /\ queue # <<>>
         THEN /\ queue' = SubSeq(queue, 1, Len(queue) - 1)
              /\ empty' = (Len(queue) > 1)
              /\ pc' = [pc EXCEPT ![f] = "run", ![last] = "run"]
              /\ holds' = [holds EXCEPT ![last] = @ \cup {item[f]}]
              /\ count' = [count EXCEPT ![item[f]] = 1]
         ELSE /\ queue' = Append(queue, item[f])
              /\ empty' = FALSE
              /\ pc' = [pc EXCEPT ![f] = "run"]
              /\ UNCHANGED <<holds, count>>
    /\ UNCHANGED <<freeCount, waitingQueue, heap, done, passed, barrierVars>>

\* free(): hands the buffer to the first flow that waits, or queues it.  A
\* queue without flows becomes a queue of buffers again.
FixedPool_free(f) ==
    /\ pc[f] = "free" /\ item[f] \in FixedItems
    /\ item' = [item EXCEPT ![f] = NULL]
    /\ IF empty /\ queue # <<>>
         THEN /\ queue' = Tail(queue)
              /\ empty' = (Tail(queue) # <<>>)
              /\ pc' = [pc EXCEPT ![f] = "run", ![Head(queue)] = "run"]
              /\ holds' = [holds EXCEPT ![Head(queue)] = @ \cup {item[f]}]
              /\ count' = [count EXCEPT ![item[f]] = 1]
         ELSE /\ queue' = Append(queue, item[f])
              /\ empty' = FALSE
              /\ pc' = [pc EXCEPT ![f] = "run"]
              /\ UNCHANGED <<holds, count>>
    /\ UNCHANGED <<freeCount, waitingQueue, heap, done, passed, barrierVars>>

-----------------------------------------------------------------------------
(* LimitedPool. *)

\* A buffer is taken and the limit left as it was.
LimitedPool_alloc_unlimited(f) ==
    /\ MayAllocate(f)
    /\ \E b \in HeapItems \ heap :
         /\ heap' = heap \cup {b}
         /\ alloc_result(f, b)
    /\ UNCHANGED <<queue, empty, freeCount, waitingQueue, item, barrierVars>>

\* alloc_untyped(), the part under the lock: takes a block from the pool
\* below, which never fails.
LimitedPool_alloc(f) ==
    /\ MayAllocate(f)
    /\ IF freeCount > 0
         THEN \E b \in HeapItems \ heap :
                /\ freeCount' = freeCount - 1
                /\ heap' = heap \cup {b}
                /\ alloc_result(f, b)
         ELSE /\ pc' = [pc EXCEPT ![f] = "insert"]
              /\ UNCHANGED <<freeCount, heap, bufVars>>
    /\ UNCHANGED <<queue, empty, waitingQueue, item, barrierVars>>

\* alloc_untyped(), after the lock: waitingQueue_.insert(flow).
LimitedPool_insert(f) ==
    /\ pc[f] = "insert"
    /\ waitingQueue' = Append(waitingQueue, f)
    /\ pc' = [pc EXCEPT ![f] = "wait"]
    /\ UNCHANGED <<queue, empty, freeCount, heap, bufVars, item, barrierVars>>

\* free(): hands the buffer to the first flow that waits, or counts it as
\* free.
LimitedPool_free(f) ==
    /\ pc[f] = "free" /\ item[f] \in HeapItems
    /\ IF waitingQueue # <<>>
         THEN /\ waitingQueue' = Tail(waitingQueue)
              /\ item' = [item EXCEPT ![f] = NULL]
              /\ pc' = [pc EXCEPT ![f] = "run", ![Head(waitingQueue)] = "run"]
              /\ holds' = [holds EXCEPT ![Head(waitingQueue)] = @ \cup {item[f]}]
              /\ count' = [count EXCEPT ![item[f]] = 1]
              /\ UNCHANGED freeCount
         ELSE /\ freeCount' = freeCount + 1
              /\ pc' = [pc EXCEPT ![f] = "base_free"]
              /\ UNCHANGED <<waitingQueue, holds, count, item>>
    /\ UNCHANGED <<queue, empty, heap, done, passed, barrierVars>>

\* free(), after the lock: base_pool()->free(item).
base_pool_free(f) ==
    /\ pc[f] = "base_free"
    /\ heap' = heap \ {item[f]}
    /\ item' = [item EXCEPT ![f] = NULL]
    /\ pc' = [pc EXCEPT ![f] = "run"]
    /\ UNCHANGED <<queue, empty, freeCount, waitingQueue, bufVars, barrierVars>>

-----------------------------------------------------------------------------
(* BarrierNotifiable. *)

\* reset(): flow f starts to use the barrier, which has to be done.
reset(f) ==
    /\ pc[f] = "run" /\ parent = NULL
    /\ barrier' = 1 /\ parent' = f /\ joined' = FALSE /\ children' = 0 /\ told' = 0
    /\ UNCHANGED <<poolVars, bufVars, pc, item>>

\* A parent that adds a child after maybe_done().
new_child_late(f, b) ==
    /\ pc[f] = "run" /\ b \in holds[f] /\ count[b] = 1 /\ ~done[b]
    /\ \/ parent = f
       \/ \E c \in holds[f] : done[c]
    /\ children < MaxChildren /\ children' = children + 1
    /\ barrier' = barrier + 1
    /\ done' = [done EXCEPT ![b] = TRUE]
    /\ UNCHANGED <<poolVars, count, passed, holds, pc, item, parent, joined, told>>

\* new_child() for a buffer that flow f alone owns: of the barrier itself, or
\* through BufferBase::new_child() of another buffer that f shares in.
new_child(f, b) ==
    /\ pc[f] = "run" /\ b \in holds[f] /\ count[b] = 1 /\ ~done[b]
    /\ \/ parent = f /\ ~joined
       \/ \E c \in holds[f] : done[c]
    /\ children < MaxChildren /\ children' = children + 1
    /\ barrier' = barrier + 1
    /\ done' = [done EXCEPT ![b] = TRUE]
    /\ UNCHANGED <<poolVars, count, passed, holds, pc, item, parent, joined, told>>

\* maybe_done(): the parent has no more children to add.
maybe_done(f) ==
    /\ pc[f] = "run" /\ parent = f /\ ~joined
    /\ notify(f, "run")
    /\ joined' = TRUE
    /\ UNCHANGED <<poolVars, bufVars, item, parent, children, told>>

\* abort_if_almost_done() when no child is left: the parent goes on at once
\* and done_ is not called.
abort_if_almost_done(f) ==
    /\ pc[f] = "run" /\ parent = f /\ ~joined /\ barrier = 1
    /\ barrier' = 0 /\ parent' = NULL /\ children' = 0
    /\ UNCHANGED <<poolVars, bufVars, pc, item, joined, told>>

\* The parent, woken by done_->notify(), goes on; it may reset the barrier.
proceed(f) ==
    /\ pc[f] = "run" /\ parent = f /\ joined /\ told > 0
    /\ parent' = NULL /\ children' = 0
    /\ UNCHANGED <<poolVars, bufVars, pc, item, barrier, joined, told>>

-----------------------------------------------------------------------------
Next ==
    \E f \in Flows :
       \/ FixedPool_alloc(f)
       \/ FixedPool_try(f)
       \/ FixedPool_free(f)
       \/ LimitedPool_alloc(f)
       \/ LimitedPool_insert(f)
       \/ LimitedPool_free(f)
       \/ base_pool_free(f)
       \/ destroy(f)
       \/ call_done(f)
       \/ reset(f)
       \/ maybe_done(f)
       \/ abort_if_almost_done(f)
       \/ proceed(f)
       \/ \E b \in Items : unref(f, b) \/ new_child(f, b)
       \/ \E g \in Flows, b \in Items : ref(f, g, b)

Spec == Init /\ [][Next]_vars

\* A flow in the middle of a call of the pool, of a destructor or of notify()
\* goes on: its executor's thread runs.
Going(f) ==
    \/ LimitedPool_insert(f) \/ destroy(f) \/ call_done(f)
    \/ FixedPool_free(f) \/ LimitedPool_free(f) \/ base_pool_free(f)

\* Flows give up what they hold in the end: every handler ends in
\* release() or return_buffer().
Fairness ==
    \A f \in Flows :
       /\ WF_vars(Going(f))
       /\ \A b \in Items : SF_vars(unref(f, b))

FairSpec == Spec /\ Fairness

-----------------------------------------------------------------------------
(* Properties. *)

\* The flows that own a reference to b, and those that destroy it.
Owners(b) == {f \in Flows : b \in holds[f]}
Destroyers(b) == {f \in Flows : item[f] = b}

\* The memory of b is with its pool.
InPool(b) == (\E i \in DOMAIN queue : queue[i] = b) \/ b \in HeapItems \ heap

\* A buffer is in one place: its count_ is the number of flows that own a
\* reference, and with none left one flow destroys it or its pool has it.
\* No step uses a buffer after its memory went back, none frees one twice and
\* none is lost, whatever the order in which flows on different threads
\* unref() (Buffer<T>::unref, FixedPool, LimitedPool).
OnePlace ==
    \A b \in Items :
       /\ count[b] = Cardinality(Owners(b))
       /\ Owners(b) # {} => Destroyers(b) = {} /\ ~InPool(b)
       /\ Destroyers(b) # {} => ~InPool(b)
       /\ \A f, g \in Destroyers(b) : f = g
       /\ Owners(b) = {} /\ Destroyers(b) = {} => InPool(b)

\* FixedPool keeps buffers and flows in one queue and casts what it takes out
\* by the flag empty alone: what it takes out is of the kind it casts to.
\* So no flow waits while a buffer is free, and each flow in the queue is
\* asleep and there once.
KindsApart ==
    /\ \A i \in DOMAIN queue :
         IF empty THEN queue[i] \in Flows /\ pc[queue[i]] = "wait"
                  ELSE queue[i] \in FixedItems
    /\ \A i, j \in DOMAIN queue : queue[i] = queue[j] => i = j

\* The blocks a flow is about to give back to the pool below.
Returning == {b \in HeapItems : \E f \in Flows : pc[f] = "base_free" /\ item[f] = b}

\* LimitedPool never has more than entry_count buffers in use, and a buffer
\* handed straight to a flow that waits keeps its place in the count: what is
\* free and what is in use, or being destroyed, add up.
Limited == freeCount + Cardinality(heap \ Returning) = entry_count

\* A barrier calls done_ once, after the parent's maybe_done() and when every
\* buffer that was given a child is destroyed, in whatever order the threads
\* that own the buffers destroy them; and it is done when it is reset.
JoinsAll ==
    /\ barrier = Cardinality({b \in Items : done[b]})
               + (IF parent # NULL /\ ~joined THEN 1 ELSE 0)
    /\ told <= 1
    /\ told = 1 => joined /\ \A b \in Items : ~done[b]
    /\ parent = NULL => barrier = 0

\* A flow that waits for a buffer of the FixedPool gets one.
Served ==
    \A f \in Flows :
       (\E i \in DOMAIN queue : queue[i] = f) ~> holds[f] # {}

\* The parent of a barrier is told once it has no more children to add.
Told == (parent \in Flows /\ joined) ~> (told = 1)

\* LimitedPool.hxx: "Later async allocations will be blocked until an earlier
\* buffer gets freed": no flow waits in a LimitedPool that has a buffer free.
WaitsOnlyWhenOut == waitingQueue # <<>> => freeCount = 0
=============================================================================
