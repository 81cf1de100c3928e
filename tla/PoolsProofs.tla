---------------------------- MODULE PoolsProofs ----------------------------
(***************************************************************************)
(* Proofs about Pools, for any number of flows and of buffers.             *)
(***************************************************************************)
EXTENDS Pools, TLAPS, FiniteSetTheorems

PType ==
    /\ queue \in Seq(Flows \cup FixedItems) /\ empty \in BOOLEAN
    /\ freeCount \in Nat /\ waitingQueue \in Seq(Flows)
    /\ heap \subseteq HeapItems
    /\ count \in [Items -> Nat] /\ done \in [Items -> BOOLEAN]
    /\ holds \in [Flows -> SUBSET Items]
    /\ pc \in [Flows -> Places] /\ item \in [Flows -> Items \cup {NULL}]
    /\ barrier \in Nat /\ parent \in Flows \cup {NULL}
    /\ joined \in BOOLEAN /\ told \in Nat

\* A flow has a buffer to destroy exactly while it is in unref().
InUnref ==
    \A f \in Flows :
       /\ pc[f] \in {"run", "insert", "wait"} => item[f] = NULL
       /\ pc[f] \in {"destroy", "free", "base_free"} => item[f] # NULL
       /\ pc[f] = "base_free" => item[f] \in HeapItems

\* The flows in the LimitedPool's queue are asleep, there once, and not in
\* the queue of the FixedPool.
LimitedWaits ==
    /\ \A i, j \in DOMAIN waitingQueue : waitingQueue[i] = waitingQueue[j] => i = j
    /\ \A i \in DOMAIN waitingQueue :
         /\ pc[waitingQueue[i]] = "wait"
         /\ \A j \in DOMAIN queue : queue[j] # waitingQueue[i]

\* A child of the barrier is with a buffer in use or about to be destroyed.
ChildInUse ==
    \A b \in Items :
       done[b] => Owners(b) # {} \/ \E f \in Flows : pc[f] = "destroy" /\ item[f] = b

\* One flow at most is about to call done_, for a barrier that is done.
OneCall ==
    /\ \A f \in Flows :
         pc[f] = "call_done" => joined /\ barrier = 0 /\ told = 0 /\ parent # NULL
    /\ \A f, g \in Flows : pc[f] = "call_done" /\ pc[g] = "call_done" => f = g

\* What the pools rely on, and what the barrier relies on.
PoolInv == PType /\ OnePlace /\ KindsApart /\ InUnref /\ LimitedWaits
BarrierInv == JoinsAll /\ ChildInUse /\ OneCall
IInv == PoolInv /\ BarrierInv

-----------------------------------------------------------------------------
(* Sequences. *)

\* Taking the head of a queue leaves the others in it, one place earlier.
LEMMA TailFacts ==
    ASSUME NEW S, NEW q \in Seq(S), q # <<>>
    PROVE  /\ Head(q) = q[1] /\ 1 \in DOMAIN q /\ Head(q) \in S
           /\ Tail(q) \in Seq(S)
           /\ \A i \in DOMAIN Tail(q) : i + 1 \in DOMAIN q /\ Tail(q)[i] = q[i + 1] /\ i \in Nat
           /\ \A i \in DOMAIN q : i # 1 => i - 1 \in DOMAIN Tail(q)
                                          /\ q[i] = Tail(q)[i - 1] /\ i \in Nat
<1>1. Len(q) \in Nat /\ Len(q) > 0 /\ DOMAIN q = 1..Len(q)
  BY SMT
<1>2. Tail(q) \in Seq(S) /\ Len(Tail(q)) = Len(q) - 1 /\ Head(q) = q[1] /\ Head(q) \in S
  BY SMT
<1>3. DOMAIN Tail(q) = 1..(Len(q) - 1)
  BY <1>1, <1>2, SMT
<1>4. \A i \in 1..(Len(q) - 1) : Tail(q)[i] = q[i + 1]
  BY <1>1, SMT
<1> QED
  BY <1>1, <1>2, <1>3, <1>4, SMT

\* Adding at the end leaves the others where they are.
LEMMA AppendFacts ==
    ASSUME NEW S, NEW q \in Seq(S), NEW x \in S
    PROVE  /\ Append(q, x) \in Seq(S)
           /\ DOMAIN Append(q, x) = DOMAIN q \cup {Len(q) + 1}
           /\ Len(q) + 1 \notin DOMAIN q
           /\ Append(q, x)[Len(q) + 1] = x
           /\ \A i \in DOMAIN q : Append(q, x)[i] = q[i]
<1>1. Len(q) \in Nat /\ DOMAIN q = 1..Len(q)
  BY SMT
<1>2. Append(q, x) \in Seq(S) /\ Len(Append(q, x)) = Len(q) + 1
  BY SMT
<1>3. DOMAIN Append(q, x) = 1..(Len(q) + 1)
  BY <1>2, SMT
<1>4. \A i \in 1..(Len(q) + 1) : Append(q, x)[i] = IF i <= Len(q) THEN q[i] ELSE x
  BY <1>1, SMT
<1> QED
  BY <1>1, <1>2, <1>3, <1>4, SMT

-----------------------------------------------------------------------------
(* References. *)

\* A flow that gets a reference becomes one more owner of that buffer.
LEMMA OwnersAdd ==
    ASSUME PType, NEW f \in Flows, NEW b \in Items, b \notin holds[f],
           holds' = [holds EXCEPT ![f] = @ \cup {b}]
    PROVE  /\ holds' \in [Flows -> SUBSET Items]
           /\ Owners(b)' = Owners(b) \cup {f}
           /\ Cardinality(Owners(b)') = Cardinality(Owners(b)) + 1
           /\ \A c \in Items : c # b => Owners(c)' = Owners(c)
<1>1. Owners(b)' = Owners(b) \cup {f} /\ f \notin Owners(b)
  BY Zenon DEF PType, Owners
<1>2. \A c \in Items : c # b => Owners(c)' = Owners(c)
  BY Zenon DEF PType, Owners
<1>3. IsFiniteSet(Owners(b))
  BY PoolsAssumption, FS_Subset, Zenon DEF Owners
<1>4. Cardinality(Owners(b) \cup {f}) = Cardinality(Owners(b)) + 1
  BY <1>1, <1>3, FS_AddElement, Zenon
<1> QED
  BY <1>1, <1>2, <1>4, Zenon DEF PType

\* A flow that drops a reference is one owner less.
LEMMA OwnersRemove ==
    ASSUME PType, NEW f \in Flows, NEW b \in holds[f],
           holds' = [holds EXCEPT ![f] = @ \ {b}]
    PROVE  /\ b \in Items /\ holds' \in [Flows -> SUBSET Items]
           /\ Owners(b)' = Owners(b) \ {f} /\ f \in Owners(b)
           /\ Cardinality(Owners(b)') = Cardinality(Owners(b)) - 1
           /\ Cardinality(Owners(b)) \in Nat
           /\ Cardinality(Owners(b)) = 1 <=> Owners(b)' = {}
           /\ \A c \in Items : c # b => Owners(c)' = Owners(c)
<1>1. Owners(b)' = Owners(b) \ {f} /\ f \in Owners(b) /\ b \in Items
  BY Zenon DEF PType, Owners
<1>2. \A c \in Items : c # b => Owners(c)' = Owners(c)
  BY Zenon DEF PType, Owners
<1>3. IsFiniteSet(Owners(b))
  BY PoolsAssumption, FS_Subset, Zenon DEF Owners
<1>4. Cardinality(Owners(b) \ {f}) = Cardinality(Owners(b)) - 1
  BY <1>1, <1>3, FS_RemoveElement, Zenon
<1>5. Cardinality(Owners(b)) \in Nat
  BY <1>3, FS_CardinalityType, Zenon
<1>6. Cardinality(Owners(b) \ {f}) = 0 <=> Owners(b) \ {f} = {}
  BY <1>3, FS_RemoveElement, FS_EmptySet, Zenon
<1> QED
  BY <1>1, <1>2, <1>4, <1>5, <1>6 DEF PType

\* A buffer nobody owns has no owner to count.
LEMMA NoOwner ==
    ASSUME OnePlace, NEW b \in Items
    PROVE  /\ Owners(b) = {} => Cardinality(Owners(b)) = 0
           /\ Destroyers(b) # {} => Owners(b) = {} /\ ~InPool(b)
           /\ InPool(b) => Owners(b) = {} /\ Destroyers(b) = {}
BY FS_EmptySet, Zenon DEF OnePlace

\* What OnePlace says of one buffer.
Place(b) ==
    /\ count[b] = Cardinality(Owners(b))
    /\ Owners(b) # {} => Destroyers(b) = {} /\ ~InPool(b)
    /\ Destroyers(b) # {} => ~InPool(b)
    /\ \A f, g \in Destroyers(b) : f = g
    /\ Owners(b) = {} /\ Destroyers(b) = {} => InPool(b)

LEMMA Places1 == OnePlace <=> \A b \in Items : Place(b)
BY Zenon DEF OnePlace, Place

LEMMA Places2 == OnePlace' <=> \A b \in Items : Place(b)'
BY Zenon DEF OnePlace, Place

\* A buffer the step does not touch stays in its place; one it touches is in
\* one of three.
LEMMA PlaceSame ==
    ASSUME NEW b, Place(b), Owners(b)' = Owners(b), Destroyers(b)' = Destroyers(b),
           InPool(b)' <=> InPool(b), count'[b] = count[b]
    PROVE  Place(b)'
BY Zenon DEF Place

LEMMA PlaceOwned ==
    ASSUME NEW b, Owners(b)' # {}, Destroyers(b)' = {}, ~InPool(b)',
           count'[b] = Cardinality(Owners(b)')
    PROVE  Place(b)'
BY Zenon DEF Place

LEMMA PlaceDestroyed ==
    ASSUME NEW b, NEW f, Owners(b)' = {}, Destroyers(b)' = {f}, ~InPool(b)',
           count'[b] = 0
    PROVE  Place(b)'
<1>1. Cardinality(Owners(b)') = 0
  BY FS_EmptySet, Zenon
<1> QED
  BY <1>1, Zenon DEF Place

LEMMA PlaceFree ==
    ASSUME NEW b, Owners(b)' = {}, Destroyers(b)' = {}, InPool(b)', count'[b] = 0
    PROVE  Place(b)'
<1>1. Cardinality(Owners(b)') = 0
  BY FS_EmptySet, Zenon
<1> QED
  BY <1>1, Zenon DEF Place

\* A step that moves no buffer.
LEMMA NoneMoves ==
    ASSUME OnePlace, UNCHANGED <<holds, count, item, queue, heap>>
    PROVE  OnePlace'
<1>1. \A c \in Items : /\ Owners(c)' = Owners(c) /\ Destroyers(c)' = Destroyers(c)
                       /\ (InPool(c)' <=> InPool(c)) /\ count'[c] = count[c]
  BY Zenon DEF Owners, Destroyers, InPool
<1> QED
  BY <1>1, PlaceSame, Places1, Places2, Zenon

\* A buffer nobody owns is given to a flow.
LEMMA Given ==
    ASSUME PType, OnePlace, NEW g \in Flows, NEW b \in Items, Owners(b) = {},
           holds' = [holds EXCEPT ![g] = @ \cup {b}],
           count' = [count EXCEPT ![b] = 1],
           Destroyers(b)' = {}, ~InPool(b)',
           \A c \in Items : c # b => Destroyers(c)' = Destroyers(c)
                                    /\ (InPool(c)' <=> InPool(c))
    PROVE  OnePlace' /\ holds' \in [Flows -> SUBSET Items] /\ count' \in [Items -> Nat]
<1>1. b \notin holds[g]
  BY Zenon DEF Owners
<1>2. /\ holds' \in [Flows -> SUBSET Items]
      /\ Owners(b)' = Owners(b) \cup {g}
      /\ Cardinality(Owners(b)') = Cardinality(Owners(b)) + 1
      /\ \A c \in Items : c # b => Owners(c)' = Owners(c)
  BY <1>1, OwnersAdd, Zenon
<1>3. Cardinality(Owners(b)') = 1
  BY <1>2, FS_EmptySet
<1>4. count' \in [Items -> Nat] /\ count'[b] = 1 /\ \A c \in Items : c # b => count'[c] = count[c]
  BY Zenon DEF PType
<1>5. Owners(b)' # {} /\ count'[b] = Cardinality(Owners(b)')
  BY <1>2, <1>3, <1>4, Zenon
<1>6. Place(b)'
  BY <1>5, PlaceOwned, Zenon
<1>7. \A c \in Items : c # b => Place(c)'
  BY <1>2, <1>4, PlaceSame, Places1, Zenon
<1> QED
  BY <1>2, <1>4, <1>6, <1>7, Places2, Zenon

-----------------------------------------------------------------------------
(* The pools keep PoolInv. *)

\* FixedPool gives a free buffer to a flow.
LEMMA FixedGives ==
    ASSUME PoolInv, NEW f \in Flows, pc[f] = "run",
           ~empty, queue # <<>>, alloc_result(f, Head(queue)),
           queue' = Tail(queue), UNCHANGED <<empty, freeCount, waitingQueue, heap, item>>,
           UNCHANGED barrierVars
    PROVE  PoolInv'
<1>0. PICK b : b = Head(queue)
  BY Zenon
<1>1. b \in FixedItems /\ b \in Items /\ b = queue[1] /\ 1 \in DOMAIN queue
  BY <1>0, TailFacts DEF PoolInv, PType, KindsApart, Items
<1>2. InPool(b) /\ Owners(b) = {} /\ Destroyers(b) = {}
  BY <1>1, NoOwner, Zenon DEF InPool, PoolInv
<1>3. /\ Tail(queue) \in Seq(Flows \cup FixedItems)
      /\ \A i \in DOMAIN Tail(queue) : i + 1 \in DOMAIN queue /\ Tail(queue)[i] = queue[i + 1] /\ i \in Nat
      /\ \A i \in DOMAIN queue : i # 1 => i - 1 \in DOMAIN Tail(queue)
                                          /\ queue[i] = Tail(queue)[i - 1] /\ i \in Nat
  BY TailFacts, Zenon DEF PoolInv, PType
<1>4. \A c \in Items : Destroyers(c)' = Destroyers(c)
  BY Zenon DEF Destroyers
<1>5. \A c \in Items : c # b => (InPool(c)' <=> InPool(c))
  BY <1>1, <1>3 DEF InPool
<1>6. ~InPool(b)'
  <2>1. \A i \in DOMAIN Tail(queue) : Tail(queue)[i] # b
    BY <1>1, <1>3 DEF PoolInv, KindsApart
  <2> QED
    BY <1>1, <2>1, PoolsAssumption, Zenon DEF InPool
<1>7. OnePlace' /\ holds' \in [Flows -> SUBSET Items] /\ count' \in [Items -> Nat]
  BY <1>0, <1>1, <1>2, <1>4, <1>5, <1>6, Given, Zenon DEF PoolInv, alloc_result
<1>8. pc' = pc /\ PType'
  BY <1>0, <1>1, <1>3, <1>7, Zenon DEF PoolInv, PType, alloc_result, barrierVars
<1>9. KindsApart'
  BY <1>3, <1>8, SMTT(30) DEF PoolInv, KindsApart, PType
<1>10. LimitedWaits' /\ InUnref'
  BY <1>3, <1>8 DEF PoolInv, LimitedWaits, InUnref, PType
<1> QED
  BY <1>7, <1>8, <1>9, <1>10, Zenon DEF PoolInv

\* FixedPool has none free and queues the flow.
LEMMA FixedQueues ==
    ASSUME PoolInv, NEW f \in Flows, pc[f] = "run",
           empty \/ queue = <<>>, empty' = TRUE, queue' = Append(queue, f),
           pc' = [pc EXCEPT ![f] = "wait"], UNCHANGED bufVars,
           UNCHANGED <<freeCount, waitingQueue, heap, item>>, UNCHANGED barrierVars
    PROVE  PoolInv'
<1>1. /\ Append(queue, f) \in Seq(Flows \cup FixedItems)
      /\ DOMAIN Append(queue, f) = DOMAIN queue \cup {Len(queue) + 1}
      /\ Len(queue) + 1 \notin DOMAIN queue
      /\ Append(queue, f)[Len(queue) + 1] = f
      /\ \A i \in DOMAIN queue : Append(queue, f)[i] = queue[i]
  BY AppendFacts DEF PoolInv, PType
<1>2. PType'
  BY <1>1, Zenon DEF PoolInv, PType, bufVars, barrierVars, Places
<1>3. \A i \in DOMAIN queue : queue[i] \in Flows /\ pc[queue[i]] = "wait" /\ queue[i] # f
  <2>1. queue = <<>> => DOMAIN queue = {}
    OBVIOUS
  <2> QED
    BY <2>1, Zenon DEF PoolInv, KindsApart
<1>4. KindsApart'
  BY <1>1, <1>3 DEF PoolInv, KindsApart, PType
<1>5. InUnref'
  BY Zenon DEF PoolInv, PType, InUnref
<1>6. LimitedWaits'
  BY <1>1 DEF PoolInv, PType, LimitedWaits
<1>7. \A c \in Items : Destroyers(c)' = Destroyers(c) /\ Owners(c)' = Owners(c) /\ count'[c] = count[c]
  BY Zenon DEF Destroyers, Owners, bufVars
<1>8. \A c \in Items : InPool(c)' <=> InPool(c)
  <2>1. \A c \in Items : c # f
    BY PoolsAssumption, Zenon
  <2> QED
    BY <1>1, <2>1, Zenon DEF InPool
<1>9. OnePlace'
  BY <1>7, <1>8, PlaceSame, Places1, Places2, Zenon DEF PoolInv
<1> QED
  BY <1>2, <1>4, <1>5, <1>6, <1>9, Zenon DEF PoolInv

\* A flow about to free a buffer is its only destroyer.
LEMMA Freeing ==
    ASSUME PoolInv, NEW f \in Flows, pc[f] \in {"free", "base_free"},
           item' = [item EXCEPT ![f] = NULL]
    PROVE  /\ item[f] \in Items /\ Destroyers(item[f]) = {f}
           /\ Owners(item[f]) = {} /\ ~InPool(item[f]) /\ count[item[f]] = 0
           /\ \A c \in Items : c # item[f] => {g \in Flows : item'[g] = c} = Destroyers(c)
           /\ {g \in Flows : item'[g] = item[f]} = {}
<1>1. item[f] \in Items /\ f \in Destroyers(item[f]) /\ NULL \notin Items
  BY PoolsAssumption, Zenon DEF PoolInv, PType, InUnref, Destroyers
<1>2. Destroyers(item[f]) = {f}
  BY <1>1 DEF PoolInv, OnePlace
<1>3. Owners(item[f]) = {} /\ ~InPool(item[f])
  BY <1>1, NoOwner, Zenon DEF PoolInv
<1>4. count[item[f]] = 0
  BY <1>1, <1>3, NoOwner, Zenon DEF PoolInv, OnePlace
<1>5. \A c \in Items : c # item[f] => {g \in Flows : item'[g] = c} = Destroyers(c)
  BY <1>1, Zenon DEF PoolInv, PType, Destroyers
<1>6. \A g \in Flows : item'[g] # item[f]
  <2>1. \A g \in Flows : item[g] = item[f] => g = f
    BY <1>2, Zenon DEF Destroyers
  <2> QED
    BY <1>1, <2>1, Zenon DEF PoolInv, PType
<1> QED
  BY <1>1, <1>2, <1>3, <1>4, <1>5, <1>6, Zenon

\* FixedPool hands the buffer on to the flow that waits longest.
LEMMA FixedHandsOn ==
    ASSUME PoolInv, NEW f \in Flows, FixedPool_free(f), empty, queue # <<>>
    PROVE  PoolInv'
<1>0. PICK b, g : b = item[f] /\ g = Head(queue)
  BY Zenon
<1>1. pc[f] = "free" /\ b \in FixedItems /\ item' = [item EXCEPT ![f] = NULL]
  BY <1>0, Zenon DEF FixedPool_free
<1>2. /\ b \in Items /\ Owners(b) = {} /\ ~InPool(b)
      /\ \A c \in Items : c # b => {h \in Flows : item'[h] = c} = Destroyers(c)
      /\ {h \in Flows : item'[h] = b} = {}
  BY <1>0, <1>1, Freeing, Zenon
<1>3. g \in Flows /\ g = queue[1] /\ 1 \in DOMAIN queue /\ pc[g] = "wait" /\ g # f
  BY <1>0, <1>1, TailFacts DEF PoolInv, PType, KindsApart
<1>4. /\ Tail(queue) \in Seq(Flows \cup FixedItems)
      /\ \A i \in DOMAIN Tail(queue) : i + 1 \in DOMAIN queue /\ Tail(queue)[i] = queue[i + 1] /\ i \in Nat
      /\ \A i \in DOMAIN queue : i # 1 => i - 1 \in DOMAIN Tail(queue)
                                          /\ queue[i] = Tail(queue)[i - 1] /\ i \in Nat
  BY TailFacts, Zenon DEF PoolInv, PType
<1>5. /\ queue' = Tail(queue) /\ empty' = (Tail(queue) # <<>>)
      /\ pc' = [pc EXCEPT ![f] = "run", ![g] = "run"]
      /\ holds' = [holds EXCEPT ![g] = @ \cup {b}]
      /\ count' = [count EXCEPT ![b] = 1]
      /\ UNCHANGED <<freeCount, waitingQueue, heap, done, barrier, parent, joined, told>>
  BY <1>0, Zenon DEF FixedPool_free, barrierVars
<1>6. \A i \in DOMAIN queue : queue[i] \in Flows /\ queue[i] \notin Items
  BY PoolsAssumption, Zenon DEF PoolInv, KindsApart
<1>7. \A c \in Items : c # b => Destroyers(c)' = Destroyers(c) /\ (InPool(c)' <=> InPool(c))
  BY <1>2, <1>4, <1>5, <1>6 DEF Destroyers, InPool
<1>8. Destroyers(b)' = {} /\ ~InPool(b)'
  BY <1>2, <1>4, <1>5, <1>6 DEF Destroyers, InPool
<1>9. OnePlace' /\ holds' \in [Flows -> SUBSET Items] /\ count' \in [Items -> Nat]
  BY <1>2, <1>3, <1>5, <1>7, <1>8, Given, Zenon DEF PoolInv
<1>10. pc' \in [Flows -> Places] /\ item' \in [Flows -> Items \cup {NULL}]
  BY <1>1, <1>3, <1>5, Zenon DEF PoolInv, PType, Places
<1>11. PType'
  BY <1>4, <1>5, <1>9, <1>10, Zenon DEF PoolInv, PType
<1>12. \A i \in DOMAIN Tail(queue) : Tail(queue)[i] # g /\ Tail(queue)[i] # f
                                      /\ Tail(queue)[i] \in Flows /\ pc[Tail(queue)[i]] = "wait"
  BY <1>1, <1>3, <1>4, SMTT(30) DEF PoolInv, KindsApart
<1>13. \A h \in Flows : h # f /\ h # g => pc'[h] = pc[h]
  BY <1>5, Zenon DEF PoolInv, PType
<1>14. KindsApart'
  <2>1. \A i, j \in DOMAIN Tail(queue) : Tail(queue)[i] = Tail(queue)[j] => i = j
    BY <1>4 DEF PoolInv, KindsApart
  <2>2. Tail(queue) = <<>> => DOMAIN Tail(queue) = {}
    OBVIOUS
  <2> QED
    BY <1>5, <1>12, <1>13, <2>1, <2>2, Zenon DEF KindsApart
<1>15. InUnref'
  <2>1. item[g] = NULL /\ item'[f] = NULL /\ \A h \in Flows : h # f => item'[h] = item[h]
    BY <1>1, <1>3, Zenon DEF PoolInv, PType, InUnref
  <2>2. pc'[f] = "run" /\ pc'[g] = "run"
    BY <1>3, <1>5, Zenon DEF PoolInv, PType
  <2> QED
    BY <1>3, <1>13, <2>1, <2>2, Zenon DEF PoolInv, InUnref
<1>16. LimitedWaits'
  <2>1. \A i \in DOMAIN waitingQueue : /\ waitingQueue[i] # g /\ waitingQueue[i] # f
                                        /\ waitingQueue[i] \in Flows
    BY <1>1, <1>3 DEF PoolInv, LimitedWaits, PType
  <2> QED
    BY <1>4, <1>5, <1>13, <2>1, ZenonT(60) DEF PoolInv, LimitedWaits
<1> QED
  BY <1>9, <1>11, <1>14, <1>15, <1>16, Zenon DEF PoolInv

\* A buffer nobody owns any more is back with its pool.
LEMMA Returned ==
    ASSUME PType, OnePlace, NEW b \in Items, Owners(b) = {}, count[b] = 0,
           UNCHANGED <<holds, count>>, Destroyers(b)' = {}, InPool(b)',
           \A c \in Items : c # b => Destroyers(c)' = Destroyers(c)
                                    /\ (InPool(c)' <=> InPool(c))
    PROVE  OnePlace'
<1>1. \A c \in Items : Owners(c)' = Owners(c) /\ count'[c] = count[c]
  BY Zenon DEF Owners
<1>2. Place(b)'
  BY <1>1, PlaceFree, Zenon
<1>3. \A c \in Items : c # b => Place(c)'
  BY <1>1, PlaceSame, Places1, Zenon
<1> QED
  BY <1>2, <1>3, Places2, Zenon

\* FixedPool keeps the buffer.
LEMMA FixedKeeps ==
    ASSUME PoolInv, NEW f \in Flows, FixedPool_free(f), ~(empty /\ queue # <<>>)
    PROVE  PoolInv'
<1>0. PICK b : b = item[f]
  BY Zenon
<1>1. pc[f] = "free" /\ b \in FixedItems /\ item' = [item EXCEPT ![f] = NULL]
  BY <1>0, Zenon DEF FixedPool_free
<1>2. /\ b \in Items /\ Owners(b) = {} /\ ~InPool(b) /\ count[b] = 0
      /\ \A c \in Items : c # b => {h \in Flows : item'[h] = c} = Destroyers(c)
      /\ {h \in Flows : item'[h] = b} = {}
  BY <1>0, <1>1, Freeing, Zenon
<1>3. /\ queue' = Append(queue, b) /\ empty' = FALSE
      /\ pc' = [pc EXCEPT ![f] = "run"]
      /\ UNCHANGED <<holds, count, freeCount, waitingQueue, heap, done, barrier, parent, joined, told>>
  BY <1>0, Zenon DEF FixedPool_free, barrierVars
<1>4. /\ Append(queue, b) \in Seq(Flows \cup FixedItems)
      /\ DOMAIN Append(queue, b) = DOMAIN queue \cup {Len(queue) + 1}
      /\ Len(queue) + 1 \notin DOMAIN queue
      /\ Append(queue, b)[Len(queue) + 1] = b
      /\ \A i \in DOMAIN queue : Append(queue, b)[i] = queue[i]
  BY <1>1, AppendFacts DEF PoolInv, PType
<1>5. \A i \in DOMAIN queue : queue[i] \in FixedItems /\ queue[i] # b
  <2>1. queue = <<>> => DOMAIN queue = {}
    OBVIOUS
  <2> QED
    BY <1>2, <2>1, Zenon DEF PoolInv, KindsApart, InPool
<1>6. KindsApart'
  BY <1>1, <1>3, <1>4, <1>5 DEF PoolInv, KindsApart
<1>7. \A c \in Items : c # b => Destroyers(c)' = Destroyers(c) /\ (InPool(c)' <=> InPool(c))
  BY <1>2, <1>3, <1>4, Zenon DEF Destroyers, InPool
<1>8. Destroyers(b)' = {} /\ InPool(b)'
  BY <1>2, <1>3, <1>4, Zenon DEF Destroyers, InPool
<1>9. OnePlace'
  BY <1>2, <1>3, <1>7, <1>8, Returned, Zenon DEF PoolInv
<1>10. PType'
  BY <1>1, <1>3, <1>4, Zenon DEF PoolInv, PType, Places
<1>11. InUnref'
  BY <1>1, <1>3, Zenon DEF PoolInv, PType, InUnref
<1>12. LimitedWaits'
  <2>1. \A i \in DOMAIN waitingQueue : /\ waitingQueue[i] # f /\ waitingQueue[i] # b
                                        /\ waitingQueue[i] \in Flows
    BY <1>1, <1>2, PoolsAssumption DEF PoolInv, LimitedWaits, PType
  <2> QED
    BY <1>3, <1>4, <2>1 DEF PoolInv, LimitedWaits, PType
<1> QED
  BY <1>6, <1>9, <1>10, <1>11, <1>12, Zenon DEF PoolInv

\* LimitedPool takes a block from the pool below for the flow, or sends the
\* flow to the queue.
LEMMA LimitedAllocates ==
    ASSUME PoolInv, NEW f \in Flows, LimitedPool_alloc(f)
    PROVE  PoolInv'
<1>0. /\ pc[f] = "run"
      /\ UNCHANGED <<queue, empty, waitingQueue, item, barrier, parent, joined, told>>
  BY Zenon DEF LimitedPool_alloc, MayAllocate, barrierVars
<1>1. CASE freeCount > 0
  <2>1. PICK b \in HeapItems \ heap :
           freeCount' = freeCount - 1 /\ heap' = heap \cup {b} /\ alloc_result(f, b)
    BY <1>1, Zenon DEF LimitedPool_alloc
  <2>2. b \in Items /\ InPool(b) /\ b \notin FixedItems /\ b \notin Flows
    BY PoolsAssumption, Zenon DEF Items, InPool
  <2>3. Owners(b) = {} /\ Destroyers(b) = {}
    BY <2>2, NoOwner, Zenon DEF PoolInv
  <2>4. \A c \in Items : Destroyers(c)' = Destroyers(c)
    BY <1>0, Zenon DEF Destroyers
  <2>5. \A c \in Items : c # b => (InPool(c)' <=> InPool(c))
    BY <1>0, <2>1, Zenon DEF InPool
  <2>6. ~InPool(b)'
    <3>1. \A i \in DOMAIN queue : queue[i] \in Flows \cup FixedItems
      BY DEF PoolInv, PType
    <3> QED
      BY <1>0, <2>1, <2>2, <3>1, Zenon DEF InPool
  <2>7. OnePlace' /\ holds' \in [Flows -> SUBSET Items] /\ count' \in [Items -> Nat]
    BY <2>1, <2>2, <2>3, <2>4, <2>5, <2>6, Given, Zenon DEF PoolInv, alloc_result
  <2>8. pc' = pc /\ done' \in [Items -> BOOLEAN]
    BY <1>0, <2>1, Zenon DEF PoolInv, PType, alloc_result
  <2>9. PType'
    BY <1>0, <1>1, <2>1, <2>7, <2>8 DEF PoolInv, PType
  <2>10. KindsApart' /\ InUnref' /\ LimitedWaits'
    BY <1>0, <2>8, Zenon DEF PoolInv, KindsApart, InUnref, LimitedWaits
  <2> QED
    BY <2>7, <2>9, <2>10, Zenon DEF PoolInv
<1>2. CASE ~(freeCount > 0)
  <2>1. pc' = [pc EXCEPT ![f] = "insert"] /\ UNCHANGED <<freeCount, heap, count, done, holds>>
    BY <1>2, Zenon DEF LimitedPool_alloc, bufVars
  <2>2. PType'
    BY <1>0, <2>1, Zenon DEF PoolInv, PType, Places
  <2>3. KindsApart' /\ InUnref' /\ LimitedWaits'
    BY <1>0, <2>1 DEF PoolInv, PType, KindsApart, InUnref, LimitedWaits
  <2>4. OnePlace'
    BY <1>0, <2>1, NoneMoves, Zenon DEF PoolInv
  <2> QED
    BY <2>2, <2>3, <2>4, Zenon DEF PoolInv
<1> QED
  BY <1>1, <1>2, Zenon

\* The flow goes to sleep in the queue of the LimitedPool.
LEMMA LimitedInserts ==
    ASSUME PoolInv, NEW f \in Flows, LimitedPool_insert(f)
    PROVE  PoolInv'
<1>1. /\ pc[f] = "insert" /\ waitingQueue' = Append(waitingQueue, f)
      /\ pc' = [pc EXCEPT ![f] = "wait"]
      /\ UNCHANGED <<queue, empty, freeCount, heap, count, done, holds, item,
                     barrier, parent, joined, told>>
  BY Zenon DEF LimitedPool_insert, bufVars, barrierVars
<1>2. /\ Append(waitingQueue, f) \in Seq(Flows)
      /\ DOMAIN Append(waitingQueue, f) = DOMAIN waitingQueue \cup {Len(waitingQueue) + 1}
      /\ Len(waitingQueue) + 1 \notin DOMAIN waitingQueue
      /\ Append(waitingQueue, f)[Len(waitingQueue) + 1] = f
      /\ \A i \in DOMAIN waitingQueue : Append(waitingQueue, f)[i] = waitingQueue[i]
  BY AppendFacts DEF PoolInv, PType
<1>3. PType'
  BY <1>1, <1>2, Zenon DEF PoolInv, PType, Places
<1>4. KindsApart' /\ InUnref'
  BY <1>1, Zenon DEF PoolInv, PType, KindsApart, InUnref
<1>5. \A i \in DOMAIN queue : queue[i] # f
  <2>1. f \notin FixedItems
    BY PoolsAssumption, Zenon DEF Items
  <2> QED
    BY <1>1, <2>1, Zenon DEF PoolInv, KindsApart
<1>6. \A i \in DOMAIN waitingQueue : waitingQueue[i] # f /\ waitingQueue[i] \in Flows
  BY <1>1 DEF PoolInv, PType, LimitedWaits
<1>7. LimitedWaits'
  BY <1>1, <1>2, <1>5, <1>6 DEF PoolInv, PType, LimitedWaits
<1>8. OnePlace'
  BY <1>1, NoneMoves, Zenon DEF PoolInv
<1> QED
  BY <1>3, <1>4, <1>7, <1>8, Zenon DEF PoolInv

\* LimitedPool hands the buffer on to the flow that waits longest.
LEMMA LimitedHandsOn ==
    ASSUME PoolInv, NEW f \in Flows, LimitedPool_free(f), waitingQueue # <<>>
    PROVE  PoolInv'
<1>0. PICK b, g : b = item[f] /\ g = Head(waitingQueue)
  BY Zenon
<1>1. /\ pc[f] = "free" /\ b \in HeapItems /\ item' = [item EXCEPT ![f] = NULL]
      /\ waitingQueue' = Tail(waitingQueue)
      /\ pc' = [pc EXCEPT ![f] = "run", ![g] = "run"]
      /\ holds' = [holds EXCEPT ![g] = @ \cup {b}]
      /\ count' = [count EXCEPT ![b] = 1]
      /\ UNCHANGED <<queue, empty, freeCount, heap, done, barrier, parent, joined, told>>
  BY <1>0, Zenon DEF LimitedPool_free, barrierVars
<1>2. /\ b \in Items /\ Owners(b) = {} /\ ~InPool(b)
      /\ \A c \in Items : c # b => {h \in Flows : item'[h] = c} = Destroyers(c)
      /\ {h \in Flows : item'[h] = b} = {}
  BY <1>0, <1>1, Freeing, Zenon
<1>3. /\ g = waitingQueue[1] /\ 1 \in DOMAIN waitingQueue /\ g \in Flows
      /\ Tail(waitingQueue) \in Seq(Flows)
      /\ \A i \in DOMAIN Tail(waitingQueue) :
           i + 1 \in DOMAIN waitingQueue /\ Tail(waitingQueue)[i] = waitingQueue[i + 1] /\ i \in Nat
  BY <1>0, TailFacts, Zenon DEF PoolInv, PType
<1>4. pc[g] = "wait" /\ g # f /\ \A j \in DOMAIN queue : queue[j] # g
  BY <1>1, <1>3, Zenon DEF PoolInv, LimitedWaits
<1>5. \A c \in Items : c # b => Destroyers(c)' = Destroyers(c) /\ (InPool(c)' <=> InPool(c))
  BY <1>1, <1>2, Zenon DEF Destroyers, InPool
<1>6. Destroyers(b)' = {} /\ ~InPool(b)'
  BY <1>1, <1>2, Zenon DEF Destroyers, InPool
<1>7. OnePlace' /\ holds' \in [Flows -> SUBSET Items] /\ count' \in [Items -> Nat]
  BY <1>1, <1>2, <1>3, <1>5, <1>6, Given, Zenon DEF PoolInv
<1>8. pc' \in [Flows -> Places] /\ item' \in [Flows -> Items \cup {NULL}]
  BY <1>1, <1>3, Zenon DEF PoolInv, PType, Places
<1>9. PType'
  BY <1>1, <1>3, <1>7, <1>8, Zenon DEF PoolInv, PType
<1>10. \A h \in Flows : h # f /\ h # g => pc'[h] = pc[h]
  BY <1>1, Zenon DEF PoolInv, PType
<1>11. KindsApart'
  <2>1. f \notin FixedItems /\ \A i \in DOMAIN queue : queue[i] \in Flows => queue[i] # g
    BY <1>4, PoolsAssumption, Zenon DEF Items
  <2>2. \A i \in DOMAIN queue : empty => queue[i] # f
    BY <1>1, Zenon DEF PoolInv, KindsApart
  <2> QED
    BY <1>1, <1>10, <2>1, <2>2, Zenon DEF PoolInv, KindsApart
<1>12. InUnref'
  <2>1. item[g] = NULL /\ item'[f] = NULL /\ \A h \in Flows : h # f => item'[h] = item[h]
    BY <1>1, <1>3, <1>4, Zenon DEF PoolInv, PType, InUnref
  <2>2. pc'[f] = "run" /\ pc'[g] = "run"
    BY <1>1, <1>3, Zenon DEF PoolInv, PType
  <2> QED
    BY <1>4, <1>10, <2>1, <2>2, Zenon DEF PoolInv, InUnref
<1>13. \A i \in DOMAIN Tail(waitingQueue) :
          /\ Tail(waitingQueue)[i] # g /\ Tail(waitingQueue)[i] # f
          /\ Tail(waitingQueue)[i] \in Flows /\ pc[Tail(waitingQueue)[i]] = "wait"
          /\ \A j \in DOMAIN queue : queue[j] # Tail(waitingQueue)[i]
  BY <1>1, <1>3 DEF PoolInv, LimitedWaits, PType
<1>14. \A i, j \in DOMAIN Tail(waitingQueue) : Tail(waitingQueue)[i] = Tail(waitingQueue)[j] => i = j
  BY <1>3 DEF PoolInv, LimitedWaits
<1>15. LimitedWaits'
  BY <1>1, <1>10, <1>13, <1>14, Zenon DEF LimitedWaits
<1> QED
  BY <1>7, <1>9, <1>11, <1>12, <1>15, Zenon DEF PoolInv

\* LimitedPool counts the buffer as free; the flow still has the block.
LEMMA LimitedCounts ==
    ASSUME PoolInv, NEW f \in Flows, LimitedPool_free(f), waitingQueue = <<>>
    PROVE  PoolInv'
<1>1. /\ pc[f] = "free" /\ item[f] \in HeapItems /\ freeCount' = freeCount + 1
      /\ pc' = [pc EXCEPT ![f] = "base_free"]
      /\ UNCHANGED <<waitingQueue, holds, count, item, queue, empty, heap, done,
                     barrier, parent, joined, told>>
  BY Zenon DEF LimitedPool_free, barrierVars
<1>2. OnePlace'
  BY <1>1, NoneMoves, Zenon DEF PoolInv
<1>3. PType'
  BY <1>1 DEF PoolInv, PType, Places
<1>4. KindsApart' /\ InUnref' /\ LimitedWaits'
  BY <1>1 DEF PoolInv, PType, KindsApart, InUnref, LimitedWaits
<1> QED
  BY <1>2, <1>3, <1>4, Zenon DEF PoolInv

\* The block goes back to the pool below.
LEMMA BaseFrees ==
    ASSUME PoolInv, NEW f \in Flows, base_pool_free(f), item[f] \in HeapItems
    PROVE  PoolInv'
<1>0. PICK b : b = item[f]
  BY Zenon
<1>1. /\ pc[f] = "base_free" /\ b \in HeapItems /\ item' = [item EXCEPT ![f] = NULL]
      /\ heap' = heap \ {b} /\ pc' = [pc EXCEPT ![f] = "run"]
      /\ UNCHANGED <<freeCount, waitingQueue, holds, count, queue, empty, done,
                     barrier, parent, joined, told>>
  BY <1>0, Zenon DEF base_pool_free, barrierVars, bufVars
<1>2. /\ b \in Items /\ Owners(b) = {} /\ ~InPool(b) /\ count[b] = 0
      /\ \A c \in Items : c # b => {h \in Flows : item'[h] = c} = Destroyers(c)
      /\ {h \in Flows : item'[h] = b} = {}
  BY <1>0, <1>1, Freeing, Zenon
<1>3. \A c \in Items : c # b => Destroyers(c)' = Destroyers(c) /\ (InPool(c)' <=> InPool(c))
  BY <1>1, <1>2, Zenon DEF Destroyers, InPool
<1>4. Destroyers(b)' = {} /\ InPool(b)'
  BY <1>1, <1>2, Zenon DEF Destroyers, InPool
<1>5. OnePlace'
  BY <1>1, <1>2, <1>3, <1>4, Returned, Zenon DEF PoolInv
<1>6. PType'
  BY <1>1, Zenon DEF PoolInv, PType, Places
<1>7. KindsApart' /\ InUnref' /\ LimitedWaits'
  BY <1>1 DEF PoolInv, PType, KindsApart, InUnref, LimitedWaits
<1> QED
  BY <1>5, <1>6, <1>7, Zenon DEF PoolInv

\* ref() adds an owner.
LEMMA RefAdds ==
    ASSUME PoolInv, NEW f \in Flows, NEW g \in Flows, NEW b \in Items, ref(f, g, b)
    PROVE  PoolInv' /\ Owners(b)' = Owners(b) \cup {g}
           /\ \A c \in Items : c # b => Owners(c)' = Owners(c)
<1>1. /\ b \in holds[f] /\ b \notin holds[g]
      /\ count' = [count EXCEPT ![b] = @ + 1]
      /\ holds' = [holds EXCEPT ![g] = @ \cup {b}]
      /\ UNCHANGED <<queue, empty, freeCount, waitingQueue, heap, done, pc, item,
                     barrier, parent, joined, told>>
  BY Zenon DEF ref, poolVars, barrierVars
<1>2. /\ holds' \in [Flows -> SUBSET Items]
      /\ Owners(b)' = Owners(b) \cup {g}
      /\ Cardinality(Owners(b)') = Cardinality(Owners(b)) + 1
      /\ \A c \in Items : c # b => Owners(c)' = Owners(c)
  BY <1>1, OwnersAdd, Zenon DEF PoolInv
<1>3. \A c \in Items : Destroyers(c)' = Destroyers(c) /\ (InPool(c)' <=> InPool(c))
  BY <1>1, Zenon DEF Destroyers, InPool
<1>4. /\ count' \in [Items -> Nat] /\ count'[b] = count[b] + 1
      /\ \A c \in Items : c # b => count'[c] = count[c]
  BY <1>1 DEF PoolInv, PType
<1>5. count[b] = Cardinality(Owners(b)) /\ Destroyers(b) = {} /\ ~InPool(b)
  <2>1. f \in Owners(b)
    BY <1>1, Zenon DEF Owners
  <2> QED
    BY <2>1, Zenon DEF PoolInv, OnePlace
<1>6. Owners(b)' # {} /\ count'[b] = Cardinality(Owners(b)')
  BY <1>2, <1>4, <1>5, Zenon
<1>7. OnePlace'
  <2>1. Place(b)'
    BY <1>3, <1>5, <1>6, PlaceOwned, Zenon
  <2>2. \A c \in Items : c # b => Place(c)'
    BY <1>2, <1>3, <1>4, PlaceSame, Places1, Zenon DEF PoolInv
  <2> QED
    BY <2>1, <2>2, Places2, Zenon
<1>8. PType' /\ KindsApart' /\ InUnref' /\ LimitedWaits'
  BY <1>1, <1>2, <1>4, Zenon DEF PoolInv, PType, KindsApart, InUnref, LimitedWaits
<1> QED
  BY <1>2, <1>7, <1>8, Zenon DEF PoolInv

\* unref() removes an owner; the last one becomes the destroyer.
LEMMA UnrefDrops ==
    ASSUME PoolInv, NEW f \in Flows, NEW b \in Items, unref(f, b)
    PROVE  /\ PoolInv'
           /\ Owners(b)' # {} \/ (pc'[f] = "destroy" /\ item'[f] = b)
           /\ \A c \in Items : c # b => Owners(c)' = Owners(c)
<1>1. /\ pc[f] = "run" /\ b \in holds[f]
      /\ holds' = [holds EXCEPT ![f] = @ \ {b}]
      /\ count' = [count EXCEPT ![b] = @ - 1]
      /\ UNCHANGED <<queue, empty, freeCount, waitingQueue, heap, done,
                     barrier, parent, joined, told>>
  BY Zenon DEF unref, poolVars, barrierVars
<1>2. /\ holds' \in [Flows -> SUBSET Items]
      /\ Owners(b)' = Owners(b) \ {f} /\ f \in Owners(b)
      /\ Cardinality(Owners(b)') = Cardinality(Owners(b)) - 1
      /\ Cardinality(Owners(b)) \in Nat
      /\ Cardinality(Owners(b)) = 1 <=> Owners(b)' = {}
      /\ \A c \in Items : c # b => Owners(c)' = Owners(c)
  BY <1>1, OwnersRemove, Zenon DEF PoolInv
<1>3. count[b] = Cardinality(Owners(b)) /\ Destroyers(b) = {} /\ ~InPool(b)
  BY <1>2, Zenon DEF PoolInv, OnePlace
<1>4. count[b] # 0
  <2>1. IsFiniteSet(Owners(b))
    BY PoolsAssumption, FS_Subset, Zenon DEF Owners
  <2> QED
    BY <1>2, <1>3, <2>1, FS_EmptySet, Zenon
<1>5. /\ count' \in [Items -> Nat] /\ count'[b] = count[b] - 1
      /\ \A c \in Items : c # b => count'[c] = count[c]
  BY <1>1, <1>4 DEF PoolInv, PType
<1>6. \A c \in Items : InPool(c)' <=> InPool(c)
  BY <1>1, Zenon DEF InPool
<1>7. KindsApart' /\ LimitedWaits'
  <2>1. \A h \in Flows : pc[h] = "wait" => pc'[h] = "wait"
    BY <1>1, Zenon DEF unref, PoolInv, PType
  <2>2. \A i \in DOMAIN waitingQueue : waitingQueue[i] \in Flows
    BY DEF PoolInv, PType
  <2> QED
    BY <1>1, <2>1, <2>2, Zenon DEF PoolInv, KindsApart, LimitedWaits
<1>8. CASE count[b] = 1
  <2>1. pc' = [pc EXCEPT ![f] = "destroy"] /\ item' = [item EXCEPT ![f] = b]
    BY <1>8, Zenon DEF unref
  <2>2. item[f] = NULL /\ NULL \notin Items
    BY <1>1, PoolsAssumption, Zenon DEF PoolInv, InUnref
  <2>3. PType' /\ InUnref'
    BY <1>1, <1>2, <1>5, <2>1, <2>2 DEF PoolInv, PType, InUnref, Places
  <2>4. Destroyers(b)' = {f} /\ \A c \in Items : c # b => Destroyers(c)' = Destroyers(c)
    BY <1>3, <2>1, <2>2 DEF PoolInv, PType, Destroyers
  <2>5. Place(b)'
    <3>1. Owners(b)' = {} /\ ~InPool(b)' /\ count'[b] = 0
      BY <1>2, <1>3, <1>5, <1>6, <1>8
    <3> QED
      BY <2>4, <3>1, PlaceDestroyed, Zenon
  <2>6. \A c \in Items : c # b => Place(c)'
    BY <1>2, <1>5, <1>6, <2>4, PlaceSame, Places1, Zenon DEF PoolInv
  <2>7. pc'[f] = "destroy" /\ item'[f] = b
    BY <2>1, Zenon DEF PoolInv, PType
  <2> QED
    BY <1>2, <1>7, <2>3, <2>5, <2>6, <2>7, Places2, Zenon DEF PoolInv
<1>9. CASE count[b] # 1
  <2>1. UNCHANGED <<pc, item>>
    BY <1>9, Zenon DEF unref
  <2>2. PType' /\ InUnref'
    BY <1>1, <1>2, <1>5, <2>1, Zenon DEF PoolInv, PType, InUnref
  <2>3. \A c \in Items : Destroyers(c)' = Destroyers(c)
    BY <2>1, Zenon DEF Destroyers
  <2>4. Owners(b)' # {} /\ ~InPool(b)' /\ count'[b] = Cardinality(Owners(b)')
    BY <1>2, <1>3, <1>5, <1>6, <1>9, Zenon
  <2>5. Place(b)'
    BY <1>3, <2>3, <2>4, PlaceOwned, Zenon
  <2>6. \A c \in Items : c # b => Place(c)'
    BY <1>2, <1>5, <1>6, <2>3, PlaceSame, Places1, Zenon DEF PoolInv
  <2> QED
    BY <1>2, <1>7, <2>2, <2>4, <2>5, <2>6, Places2, Zenon DEF PoolInv
<1> QED
  BY <1>8, <1>9, Zenon

\* A step of the destructor or of the barrier: it moves no buffer, and the
\* flow that takes it neither waits nor wakes another.
LEMMA BarrierSteps ==
    ASSUME PoolInv, NEW f \in Flows, NEW p \in {"run", "call_done", "free"},
           pc[f] \in {"run", "destroy", "call_done"}, pc' = [pc EXCEPT ![f] = p],
           p = "run" => item[f] = NULL, p = "free" => item[f] # NULL,
           UNCHANGED <<poolVars, count, holds, item>>, done' \in [Items -> BOOLEAN],
           barrier' \in Nat, parent' \in Flows \cup {NULL}, joined' \in BOOLEAN, told' \in Nat
    PROVE  PoolInv'
<1>1. PType'
  BY Zenon DEF PoolInv, PType, Places, poolVars
<1>2. \A h \in Flows : h # f => pc'[h] = pc[h]
  BY Zenon DEF PoolInv, PType
<1>3. pc'[f] = p /\ pc[f] # "wait"
  BY Zenon DEF PoolInv, PType
<1>4. InUnref'
  BY <1>2, <1>3, Zenon DEF PoolInv, InUnref
<1>5. \A i \in DOMAIN waitingQueue : waitingQueue[i] \in Flows
  BY DEF PoolInv, PType
<1>6. KindsApart' /\ LimitedWaits'
  BY <1>2, <1>3, <1>5 DEF PoolInv, KindsApart, LimitedWaits, poolVars
<1>7. OnePlace'
  BY NoneMoves, Zenon DEF PoolInv, poolVars
<1> QED
  BY <1>1, <1>4, <1>6, <1>7, Zenon DEF PoolInv

-----------------------------------------------------------------------------
(* The barrier. *)

Children == {b \in Items : done[b]}

\* The children are finitely many, and none when they count 0.
LEMMA ChildrenFinite ==
    ASSUME PType
    PROVE  /\ IsFiniteSet(Children) /\ Cardinality(Children) \in Nat
           /\ Cardinality(Children) = 0 <=> \A b \in Items : ~done[b]
<1>1. IsFiniteSet(Items)
  BY PoolsAssumption, FS_Union, Zenon DEF Items
<1>2. IsFiniteSet(Children)
  BY <1>1, FS_Subset, Zenon DEF Children
<1>3. Cardinality(Children) \in Nat /\ (Cardinality(Children) = 0 <=> Children = {})
  BY <1>2, FS_CardinalityType, FS_EmptySet, Zenon
<1> QED
  BY <1>2, <1>3, Zenon DEF Children

\* A step that leaves the barrier and its children alone.
LEMMA BarrierKept ==
    ASSUME BarrierInv, done' = done, UNCHANGED <<barrier, parent, joined, told>>,
           \A h \in Flows : pc'[h] = "call_done" => pc[h] = "call_done",
           \A c \in Items : done[c] => Owners(c)' # {}
                              \/ \E h \in Flows : pc'[h] = "destroy" /\ item'[h] = c
    PROVE  BarrierInv'
<1>1. JoinsAll'
  BY Zenon DEF BarrierInv, JoinsAll
<1>2. ChildInUse'
  BY Zenon DEF ChildInUse
<1>3. OneCall'
  BY DEF BarrierInv, OneCall
<1> QED
  BY <1>1, <1>2, <1>3, Zenon DEF BarrierInv

\* The steps of the pools, and ref() and unref().
LEMMA PoolSteps ==
    ASSUME IInv, NEW f \in Flows,
           \/ FixedPool_alloc(f) \/ FixedPool_try(f) \/ FixedPool_free(f)
           \/ LimitedPool_alloc(f) \/ LimitedPool_insert(f) \/ LimitedPool_free(f)
           \/ base_pool_free(f)
    PROVE  IInv'
<1>0. PType /\ OnePlace /\ KindsApart /\ InUnref /\ LimitedWaits /\ PoolInv /\ BarrierInv
  BY Zenon DEF IInv, PoolInv
<1> USE <1>0
<1>1. ASSUME NEW b \in Items, InPool(b), alloc_result(f, b), pc[f] = "run",
             UNCHANGED <<item, barrier, parent, joined, told>>
      PROVE  BarrierInv'
  <2>1. ~done[b]
    <3>1. Owners(b) = {} /\ Destroyers(b) = {}
      BY <1>1, NoOwner, Zenon
    <3> QED
      BY <3>1, Zenon DEF BarrierInv, ChildInUse, Destroyers
  <2>2. done' = done /\ pc' = pc
    BY <1>1, <2>1, Zenon DEF alloc_result, PType
  <2>3. \A c \in Items : Owners(c) # {} => Owners(c)' # {}
    BY <1>1, Zenon DEF alloc_result, Owners, PType
  <2> QED
    BY <1>1, <2>2, <2>3, BarrierKept, Zenon DEF BarrierInv, ChildInUse
<1>2. ASSUME NEW p \in {"run", "insert", "wait"}, pc[f] \in {"run", "insert"},
             pc' = [pc EXCEPT ![f] = p],
             UNCHANGED <<done, holds, item, barrier, parent, joined, told>>
      PROVE  BarrierInv'
  <2>1. \A h \in Flows : h # f => pc'[h] = pc[h]
    BY <1>2, Zenon DEF PType
  <2>2. pc'[f] = p
    BY <1>2, Zenon DEF PType
  <2>3. \A c \in Items : Owners(c)' = Owners(c)
    BY <1>2, Zenon DEF Owners
  <2>4. \A h \in Flows : pc'[h] = "call_done" => pc[h] = "call_done"
    BY <1>2, <2>1, <2>2, Zenon
  <2>5. \A h \in Flows : pc[h] = "destroy" => pc'[h] = "destroy" /\ item'[h] = item[h]
    BY <1>2, <2>1, Zenon
  <2>6. \A c \in Items : done[c] => Owners(c)' # {}
                           \/ \E h \in Flows : pc'[h] = "destroy" /\ item'[h] = c
    BY <2>3, <2>5 DEF BarrierInv, ChildInUse
  <2>7. done' = done /\ UNCHANGED <<barrier, parent, joined, told>>
    BY <1>2, Zenon
  <2> QED
    BY <2>4, <2>6, <2>7, BarrierKept, Zenon
<1>3. ASSUME NEW g \in Flows, pc[f] \in {"free", "base_free"},
             pc[g] \in {"wait", "free", "base_free"},
             pc' = [pc EXCEPT ![f] = "run", ![g] = "run"],
             item' = [item EXCEPT ![f] = NULL],
             \A c \in Items : Owners(c) # {} => Owners(c)' # {},
             UNCHANGED <<done, barrier, parent, joined, told>>
      PROVE  BarrierInv'
  <2>1. \A h \in Flows : h # f /\ h # g => pc'[h] = pc[h] /\ item'[h] = item[h]
    BY <1>3, Zenon DEF PType
  <2>2. pc'[f] = "run" /\ pc'[g] = "run"
    BY <1>3, Zenon DEF PType
  <2>3. \A h \in Flows : pc'[h] = "call_done" => pc[h] = "call_done"
    BY <2>1, <2>2, Zenon
  <2>4. \A h \in Flows : pc[h] = "destroy" => pc'[h] = "destroy" /\ item'[h] = item[h]
    BY <1>3, <2>1, Zenon
  <2>5. \A c \in Items : done[c] => Owners(c)' # {}
                           \/ \E h \in Flows : pc'[h] = "destroy" /\ item'[h] = c
    <3> SUFFICES ASSUME NEW c \in Items, done[c], Owners(c)' = {}
                 PROVE  \E h \in Flows : pc'[h] = "destroy" /\ item'[h] = c
      BY Zenon
    <3>1. Owners(c) = {}
      BY <1>3, Zenon
    <3>2. PICK h \in Flows : pc[h] = "destroy" /\ item[h] = c
      BY <3>1, Zenon DEF BarrierInv, ChildInUse
    <3> QED
      BY <2>4, <3>2, Zenon
  <2> QED
    BY <1>3, <2>3, <2>5, BarrierKept, Zenon
<1>4. CASE FixedPool_alloc(f) \/ FixedPool_try(f)
  <2>1. CASE ~empty /\ queue # <<>>
    <3>1. /\ pc[f] = "run" /\ alloc_result(f, Head(queue)) /\ queue' = Tail(queue)
          /\ UNCHANGED <<empty, freeCount, waitingQueue, heap, item>>
          /\ UNCHANGED barrierVars
      BY <1>4, <2>1, Zenon DEF FixedPool_alloc, FixedPool_try, MayAllocate
    <3>2. PoolInv'
      BY <2>1, <3>1, FixedGives, Zenon
    <3>3. Head(queue) = queue[1] /\ 1 \in DOMAIN queue
      BY <2>1, TailFacts, Zenon DEF PType
    <3>4. Head(queue) \in Items /\ InPool(Head(queue))
      BY <2>1, <3>3, Zenon DEF KindsApart, InPool, Items
    <3> QED
      BY <1>1, <3>1, <3>2, <3>4, Zenon DEF IInv, barrierVars
  <2>2. CASE FixedPool_alloc(f) /\ ~(~empty /\ queue # <<>>)
    <3>1. /\ pc[f] = "run" /\ empty' = TRUE /\ queue' = Append(queue, f)
          /\ pc' = [pc EXCEPT ![f] = "wait"] /\ UNCHANGED bufVars
          /\ UNCHANGED <<freeCount, waitingQueue, heap, item>> /\ UNCHANGED barrierVars
      BY <2>2, Zenon DEF FixedPool_alloc, MayAllocate
    <3>2. PoolInv'
      BY <2>2, <3>1, FixedQueues, Zenon
    <3> QED
      BY <1>2, <3>1, <3>2, Zenon DEF IInv, barrierVars, bufVars
  <2>3. CASE FixedPool_try(f) /\ ~(~empty /\ queue # <<>>)
    <3>1. /\ empty' = TRUE
          /\ UNCHANGED <<queue, pc, count, done, holds, freeCount, waitingQueue, heap, item,
                         barrier, parent, joined, told>>
      BY <2>3, Zenon DEF FixedPool_try, bufVars, barrierVars
    <3>2. PType' /\ InUnref' /\ LimitedWaits'
      BY <3>1, Zenon DEF PoolInv, PType, InUnref, LimitedWaits
    <3>3. KindsApart'
      <4>1. queue = <<>> => DOMAIN queue = {}
        OBVIOUS
      <4> QED
        BY <2>3, <3>1, <4>1, Zenon DEF KindsApart, PType
    <3>4. OnePlace'
      BY <3>1, NoneMoves, Zenon
    <3>5. BarrierInv'
      <4>1. \A c \in Items : Owners(c)' = Owners(c)
        BY <3>1, Zenon DEF Owners
      <4> QED
        BY <3>1, <4>1, BarrierKept, Zenon DEF BarrierInv, ChildInUse
    <3> QED
      BY <3>2, <3>3, <3>4, <3>5, Zenon DEF IInv, PoolInv
  <2> QED
    BY <1>4, <2>1, <2>2, <2>3, Zenon
<1>5. CASE FixedPool_free(f)
  <2>1. CASE empty /\ queue # <<>>
    <3>1. /\ pc[f] = "free" /\ item' = [item EXCEPT ![f] = NULL]
          /\ pc' = [pc EXCEPT ![f] = "run", ![Head(queue)] = "run"]
          /\ holds' = [holds EXCEPT ![Head(queue)] = @ \cup {item[f]}]
          /\ UNCHANGED <<done, barrier, parent, joined, told>>
      BY <1>5, <2>1, Zenon DEF FixedPool_free, barrierVars
    <3>2. Head(queue) = queue[1] /\ 1 \in DOMAIN queue
      BY <2>1, TailFacts, Zenon DEF PType
    <3>3. Head(queue) \in Flows /\ pc[Head(queue)] = "wait"
      BY <2>1, <3>2, Zenon DEF KindsApart
    <3>4. \A c \in Items : Owners(c) # {} => Owners(c)' # {}
      BY <3>1, <3>3, Zenon DEF Owners, PType
    <3>5. PoolInv'
      BY <1>5, <2>1, FixedHandsOn, Zenon
    <3> QED
      BY <1>3, <3>1, <3>3, <3>4, <3>5, Zenon DEF IInv
  <2>2. CASE ~(empty /\ queue # <<>>)
    <3>1. /\ pc[f] = "free" /\ item' = [item EXCEPT ![f] = NULL]
          /\ pc' = [pc EXCEPT ![f] = "run"]
          /\ UNCHANGED <<holds, done, barrier, parent, joined, told>>
      BY <1>5, <2>2, Zenon DEF FixedPool_free, barrierVars
    <3>2. \A c \in Items : Owners(c) # {} => Owners(c)' # {}
      BY <3>1, Zenon DEF Owners
    <3>3. pc' = [pc EXCEPT ![f] = "run", ![f] = "run"]
      BY <3>1, Zenon DEF PType
    <3>4. PoolInv'
      BY <1>5, <2>2, FixedKeeps, Zenon
    <3> QED
      BY <1>3, <3>1, <3>2, <3>3, <3>4, Zenon DEF IInv
  <2> QED
    BY <2>1, <2>2, Zenon
<1>6. CASE LimitedPool_alloc(f)
  <2>1. PoolInv'
    BY <1>6, LimitedAllocates, Zenon
  <2>2. CASE freeCount > 0
    <3>1. PICK b \in HeapItems \ heap : alloc_result(f, b)
      BY <1>6, <2>2, Zenon DEF LimitedPool_alloc
    <3>2. b \in Items /\ InPool(b)
      BY Zenon DEF Items, InPool
    <3>3. pc[f] = "run" /\ UNCHANGED <<item, barrier, parent, joined, told>>
      BY <1>6, Zenon DEF LimitedPool_alloc, MayAllocate, barrierVars
    <3> QED
      BY <1>1, <2>1, <3>1, <3>2, <3>3, Zenon DEF IInv
  <2>3. CASE ~(freeCount > 0)
    <3>1. /\ pc[f] = "run" /\ pc' = [pc EXCEPT ![f] = "insert"]
          /\ UNCHANGED <<done, holds, item, barrier, parent, joined, told>>
      BY <1>6, <2>3, Zenon DEF LimitedPool_alloc, MayAllocate, bufVars, barrierVars
    <3> QED
      BY <1>2, <2>1, <3>1, Zenon DEF IInv
  <2> QED
    BY <2>2, <2>3, Zenon
<1>7. CASE LimitedPool_insert(f)
  <2>1. /\ pc[f] = "insert" /\ pc' = [pc EXCEPT ![f] = "wait"]
        /\ UNCHANGED <<done, holds, item, barrier, parent, joined, told>>
    BY <1>7, Zenon DEF LimitedPool_insert, bufVars, barrierVars
  <2>2. PoolInv'
    BY <1>7, LimitedInserts, Zenon
  <2> QED
    BY <1>2, <2>1, <2>2, Zenon DEF IInv
<1>8. CASE LimitedPool_free(f)
  <2>1. CASE waitingQueue # <<>>
    <3>1. /\ pc[f] = "free" /\ item' = [item EXCEPT ![f] = NULL]
          /\ pc' = [pc EXCEPT ![f] = "run", ![Head(waitingQueue)] = "run"]
          /\ holds' = [holds EXCEPT ![Head(waitingQueue)] = @ \cup {item[f]}]
          /\ UNCHANGED <<done, barrier, parent, joined, told>>
      BY <1>8, <2>1, Zenon DEF LimitedPool_free, barrierVars
    <3>2. Head(waitingQueue) = waitingQueue[1] /\ 1 \in DOMAIN waitingQueue
          /\ Head(waitingQueue) \in Flows
      BY <2>1, TailFacts, Zenon DEF PType
    <3>3. pc[Head(waitingQueue)] = "wait"
      BY <3>2, Zenon DEF LimitedWaits
    <3>4. \A c \in Items : Owners(c) # {} => Owners(c)' # {}
      BY <3>1, <3>2, Zenon DEF Owners, PType
    <3>5. PoolInv'
      BY <1>8, <2>1, LimitedHandsOn, Zenon
    <3> QED
      BY <1>3, <3>1, <3>2, <3>3, <3>4, <3>5, Zenon DEF IInv
  <2>2. CASE waitingQueue = <<>>
    <3>1. /\ pc[f] = "free" /\ pc' = [pc EXCEPT ![f] = "base_free"]
          /\ UNCHANGED <<holds, item, done, barrier, parent, joined, told>>
      BY <1>8, <2>2, Zenon DEF LimitedPool_free, barrierVars
    <3>2. PoolInv'
      BY <1>8, <2>2, LimitedCounts, Zenon
    <3>3. pc'[f] = "base_free" /\ \A h \in Flows : h # f => pc'[h] = pc[h]
      BY <3>1, Zenon DEF PType
    <3>4. \A c \in Items : Owners(c)' = Owners(c)
      BY <3>1, Zenon DEF Owners
    <3> QED
      BY <3>1, <3>2, <3>3, <3>4, BarrierKept, SMTT(30) DEF IInv, BarrierInv, ChildInUse
  <2> QED
    BY <2>1, <2>2, Zenon
<1>9. CASE base_pool_free(f)
  <2>1. /\ pc[f] = "base_free" /\ item' = [item EXCEPT ![f] = NULL]
        /\ pc' = [pc EXCEPT ![f] = "run"]
        /\ UNCHANGED <<holds, done, barrier, parent, joined, told>>
    BY <1>9, Zenon DEF base_pool_free, barrierVars, bufVars
  <2>2. \A c \in Items : Owners(c) # {} => Owners(c)' # {}
    BY <2>1, Zenon DEF Owners
  <2>3. pc' = [pc EXCEPT ![f] = "run", ![f] = "run"]
    BY <2>1, Zenon DEF PType
  <2>4. PoolInv'
    BY <1>9, <2>1, BaseFrees, Zenon DEF InUnref
  <2> QED
    BY <1>3, <2>1, <2>2, <2>3, <2>4, Zenon DEF IInv
<1> QED
  BY <1>4, <1>5, <1>6, <1>7, <1>8, <1>9, Zenon

\* Shared ownership.
LEMMA RefSteps ==
    ASSUME IInv, NEW f \in Flows, NEW g \in Flows, NEW b \in Items,
           ref(f, g, b) \/ unref(f, b)
    PROVE  IInv'
<1>0. PType /\ PoolInv /\ BarrierInv /\ ChildInUse
  BY Zenon DEF IInv, PoolInv, BarrierInv
<1> USE <1>0
<1>1. CASE ref(f, g, b)
  <2>1. UNCHANGED <<done, pc, item, barrier, parent, joined, told>>
    BY <1>1, Zenon DEF ref, barrierVars
  <2>2. PoolInv' /\ \A c \in Items : Owners(c) # {} => Owners(c)' # {}
    BY <1>1, RefAdds
  <2>3. \A c \in Items : done[c] => Owners(c)' # {}
                           \/ \E h \in Flows : pc'[h] = "destroy" /\ item'[h] = c
    BY <2>1, <2>2, Zenon DEF ChildInUse
  <2> QED
    BY <2>1, <2>2, <2>3, BarrierKept, Zenon DEF IInv
<1>2. CASE unref(f, b)
  <2>1. pc[f] = "run" /\ UNCHANGED <<done, barrier, parent, joined, told>>
    BY <1>2, Zenon DEF unref, barrierVars
  <2>2. /\ PoolInv'
        /\ Owners(b)' # {} \/ (pc'[f] = "destroy" /\ item'[f] = b)
        /\ \A c \in Items : c # b => Owners(c)' = Owners(c)
    BY <1>2, UnrefDrops, Zenon
  <2>3. \A h \in Flows : h # f => pc'[h] = pc[h] /\ item'[h] = item[h]
    BY <1>2, Zenon DEF unref, PType
  <2>4. pc'[f] # "call_done"
    BY <1>2, Zenon DEF unref, PType
  <2>5. \A h \in Flows : pc'[h] = "call_done" => pc[h] = "call_done"
    BY <2>3, <2>4, Zenon
  <2>6. \A h \in Flows : pc[h] = "destroy" => pc'[h] = "destroy" /\ item'[h] = item[h]
    BY <2>1, <2>3, Zenon
  <2>7. \A c \in Items : done[c] => Owners(c)' # {}
                           \/ \E h \in Flows : pc'[h] = "destroy" /\ item'[h] = c
    BY <2>2, <2>6 DEF ChildInUse
  <2> QED
    BY <2>1, <2>2, <2>5, <2>7, BarrierKept, Zenon DEF IInv
<1> QED
  BY <1>1, <1>2, Zenon

\* The destructor tells the barrier; with the last child gone, its flow is
\* the one that calls done_.
LEMMA DestroyStep ==
    ASSUME IInv, NEW f \in Flows, destroy(f)
    PROVE  IInv'
<1>0. /\ PType /\ PoolInv /\ BarrierInv /\ OnePlace /\ InUnref
      /\ JoinsAll /\ ChildInUse /\ OneCall
  BY Zenon DEF IInv, PoolInv, BarrierInv
<1> USE <1>0
<1>1. PICK b : b = item[f]
  BY Zenon
<1>2. /\ pc[f] = "destroy" /\ b \in Items /\ item[f] # NULL
      /\ UNCHANGED <<poolVars, count, holds, item, parent, joined, told>>
  BY <1>1, PoolsAssumption, Zenon DEF destroy, InUnref, PType
<1>3. \A c \in Items : Owners(c)' = Owners(c)
  BY <1>2, Zenon DEF Owners
<1>4. \A h \in Flows : item[h] = b => h = f
  BY <1>1, <1>2, Zenon DEF OnePlace, Destroyers
<1>5. CASE ~done[b]
  <2>1. pc' = [pc EXCEPT ![f] = "free"] /\ UNCHANGED <<done, barrier>>
    BY <1>1, <1>5, Zenon DEF destroy
  <2>2. PoolInv'
    BY <1>2, <2>1, BarrierSteps, Zenon DEF PType
  <2>3. pc'[f] = "free" /\ \A h \in Flows : h # f => pc'[h] = pc[h]
    BY <2>1, Zenon DEF PType
  <2>4. \A c \in Items : done[c] => Owners(c)' # {}
                           \/ \E h \in Flows : pc'[h] = "destroy" /\ item'[h] = c
    BY <1>1, <1>2, <1>3, <1>5, <2>3 DEF ChildInUse
  <2>5. \A h \in Flows : pc'[h] = "call_done" => pc[h] = "call_done"
    BY <2>3, Zenon
  <2> QED
    BY <1>2, <2>1, <2>2, <2>4, <2>5, BarrierKept, Zenon DEF IInv
<1>6. CASE done[b]
  <2>1. /\ barrier' = barrier - 1 /\ done' = [done EXCEPT ![b] = FALSE]
        /\ pc' = [pc EXCEPT ![f] = IF barrier = 1 THEN "call_done" ELSE "free"]
    BY <1>1, <1>6, Zenon DEF destroy, notify
  <2>2. /\ IsFiniteSet(Children) /\ Cardinality(Children) \in Nat
        /\ Cardinality(Children) # 0 /\ b \in Children
    BY <1>2, <1>6, ChildrenFinite, Zenon DEF Children
  <2>3. Children' = Children \ {b}
    BY <1>2, <2>1, Zenon DEF Children, PType
  <2>4. Cardinality(Children') = Cardinality(Children) - 1
    BY <2>2, <2>3, FS_RemoveElement, Zenon
  <2>5. barrier = Cardinality(Children) + (IF parent # NULL /\ ~joined THEN 1 ELSE 0)
    BY Zenon DEF JoinsAll, Children
  <2>6. barrier \in Nat /\ barrier > 0 /\ barrier' \in Nat /\ parent # NULL /\ told = 0
    <3>1. barrier \in Nat /\ barrier > 0
      BY <2>2, <2>5 DEF PType
    <3>2. parent # NULL /\ told = 0
      BY <1>2, <1>6, <3>1 DEF JoinsAll, PType
    <3> QED
      BY <2>1, <3>1, <3>2
  <2>7. barrier = 1 => joined
    BY <2>2, <2>5, <2>6
  <2>8. done' \in [Items -> BOOLEAN] /\ ~done'[b] /\ \A c \in Items : c # b => done'[c] = done[c]
    BY <1>2, <2>1, Zenon DEF PType
  <2>9. PoolInv'
    <3>1. parent' \in Flows \cup {NULL} /\ joined' \in BOOLEAN /\ told' \in Nat
      BY <1>2, Zenon DEF PType
    <3>2. CASE barrier = 1
      BY <1>2, <2>1, <2>6, <2>8, <3>1, <3>2, BarrierSteps, Zenon
    <3>3. CASE barrier # 1
      BY <1>2, <2>1, <2>6, <2>8, <3>1, <3>3, BarrierSteps, Zenon
    <3> QED
      BY <3>2, <3>3, Zenon
  <2>10. JoinsAll'
    <3>1. barrier' = Cardinality(Children') + (IF parent' # NULL /\ ~joined' THEN 1 ELSE 0)
      BY <1>2, <2>1, <2>2, <2>4, <2>5
    <3> QED
      BY <1>2, <2>6, <3>1 DEF JoinsAll, Children
  <2>11. /\ pc'[f] = (IF barrier = 1 THEN "call_done" ELSE "free")
         /\ \A h \in Flows : h # f => pc'[h] = pc[h] /\ pc[h] # "call_done"
    BY <2>1, <2>6 DEF PType, OneCall
  <2>12. OneCall'
    <3>1. \A h \in Flows : pc'[h] = "call_done" => h = f /\ barrier = 1
      BY <2>11, Zenon
    <3>2. barrier = 1 => joined' /\ barrier' = 0 /\ told' = 0 /\ parent' # NULL
      BY <1>2, <2>1, <2>6, <2>7
    <3> QED
      BY <3>1, <3>2, Zenon DEF OneCall
  <2>13. ChildInUse'
    BY <1>1, <1>2, <1>3, <2>8, <2>11 DEF ChildInUse
  <2> QED
    BY <2>9, <2>10, <2>12, <2>13, Zenon DEF IInv, BarrierInv
<1> QED
  BY <1>5, <1>6, Zenon

\* The other steps of the barrier.
LEMMA BarrierStep ==
    ASSUME IInv, NEW f \in Flows,
           \/ call_done(f) \/ reset(f) \/ maybe_done(f)
           \/ abort_if_almost_done(f) \/ proceed(f)
           \/ \E b \in Items : new_child(f, b)
    PROVE  IInv'
<1>0. /\ PType /\ PoolInv /\ BarrierInv /\ OnePlace /\ InUnref
      /\ JoinsAll /\ ChildInUse /\ OneCall
  BY Zenon DEF IInv, PoolInv, BarrierInv
<1> USE <1>0
<1>1. UNCHANGED <<poolVars, count, holds, item>>
  BY Zenon DEF call_done, reset, maybe_done, abort_if_almost_done, proceed, new_child, bufVars
<1>2. \A c \in Items : Owners(c)' = Owners(c)
  BY <1>1, Zenon DEF Owners
<1>3. barrier = Cardinality(Children) + (IF parent # NULL /\ ~joined THEN 1 ELSE 0)
  BY Zenon DEF JoinsAll, Children
<1>4. /\ IsFiniteSet(Children) /\ Cardinality(Children) \in Nat
      /\ Cardinality(Children) = 0 <=> \A b \in Items : ~done[b]
  BY ChildrenFinite, Zenon
<1>5. parent \in Flows => parent # NULL
  BY PoolsAssumption, Zenon
<1>6. \A p \in {"run", "call_done", "free"} : pc' = [pc EXCEPT ![f] = p]
         => pc'[f] = p /\ \A h \in Flows : h # f => pc'[h] = pc[h]
  BY Zenon DEF PType
<1>7. ASSUME UNCHANGED <<pc, done>> PROVE ChildInUse'
  BY <1>1, <1>2, <1>7, Zenon DEF ChildInUse
<1>8. ASSUME UNCHANGED done PROVE Children' = Children
  BY <1>8, Zenon DEF Children
<1>9. CASE call_done(f)
  <2>1. /\ pc[f] = "call_done" /\ told' = told + 1
        /\ pc' = [pc EXCEPT ![f] = IF item[f] = NULL THEN "run" ELSE "free"]
        /\ UNCHANGED <<done, barrier, parent, joined>>
    BY <1>9, Zenon DEF call_done, bufVars
  <2>2. joined /\ barrier = 0 /\ told = 0 /\ parent # NULL
    BY <2>1, Zenon DEF OneCall
  <2>3. PoolInv'
    <3>1. /\ done' \in [Items -> BOOLEAN] /\ barrier' \in Nat /\ told' \in Nat
          /\ parent' \in Flows \cup {NULL} /\ joined' \in BOOLEAN
      BY <2>1, <2>2 DEF PType
    <3>2. CASE item[f] = NULL
      <4>1. pc' = [pc EXCEPT ![f] = "run"]
        BY <2>1, <3>2, Zenon
      <4> QED
        BY <1>1, <2>1, <3>1, <3>2, <4>1, BarrierSteps, Zenon
    <3>3. CASE item[f] # NULL
      <4>1. pc' = [pc EXCEPT ![f] = "free"]
        BY <2>1, <3>3, Zenon
      <4> QED
        BY <1>1, <2>1, <3>1, <3>3, <4>1, BarrierSteps, Zenon
    <3> QED
      BY <3>2, <3>3, Zenon
  <2>4. \A b \in Items : ~done[b]
    BY <1>3, <1>4, <2>2
  <2>5. JoinsAll'
    <3>1. barrier' = Cardinality({b \in Items : done'[b]})
                       + (IF parent' # NULL /\ ~joined' THEN 1 ELSE 0)
      BY <2>1, Zenon DEF JoinsAll
    <3> QED
      BY <2>1, <2>2, <2>4, <3>1 DEF JoinsAll
  <2>6. \A h \in Flows : pc'[h] # "call_done"
    BY <1>6, <2>1, Zenon DEF OneCall
  <2>7. OneCall' /\ ChildInUse'
    BY <2>1, <2>4, <2>6, Zenon DEF OneCall, ChildInUse
  <2> QED
    BY <2>3, <2>5, <2>7, Zenon DEF IInv, BarrierInv
<1>10. CASE reset(f)
  <2>1. /\ pc[f] = "run" /\ parent = NULL /\ barrier' = 1 /\ parent' = f
        /\ joined' = FALSE /\ told' = 0 /\ UNCHANGED <<pc, done>>
    BY <1>10, Zenon DEF reset, bufVars
  <2>2. item[f] = NULL /\ pc' = [pc EXCEPT ![f] = "run"] /\ f # NULL
    BY <2>1, PoolsAssumption, Zenon DEF InUnref, PType
  <2>3. PoolInv'
    BY <1>1, <2>1, <2>2, BarrierSteps, Zenon DEF PType
  <2>4. Cardinality(Children) = 0 /\ Children' = Children
    BY <1>3, <1>4, <1>8, <2>1 DEF JoinsAll
  <2>5. JoinsAll'
    BY <2>1, <2>2, <2>4, SMTT(30) DEF JoinsAll, Children
  <2>6. OneCall'
    BY <2>1, Zenon DEF OneCall
  <2> QED
    BY <1>7, <2>1, <2>3, <2>5, <2>6, Zenon DEF IInv, BarrierInv
<1>11. CASE maybe_done(f)
  <2>1. /\ pc[f] = "run" /\ parent = f /\ ~joined /\ barrier' = barrier - 1
        /\ pc' = [pc EXCEPT ![f] = IF barrier = 1 THEN "call_done" ELSE "run"]
        /\ joined' = TRUE /\ UNCHANGED <<done, parent, told>>
    BY <1>11, Zenon DEF maybe_done, notify, bufVars
  <2>2. parent # NULL /\ item[f] = NULL /\ told = 0 /\ barrier = Cardinality(Children) + 1
    BY <1>3, <1>5, <2>1 DEF InUnref, JoinsAll, PType
  <2>3. barrier' \in Nat /\ barrier' = Cardinality(Children)
    <3>1. barrier' = barrier - 1
      BY <2>1, Zenon
    <3>2. barrier = Cardinality(Children) + 1
      BY <2>2, Zenon
    <3>3. Cardinality(Children) \in Nat
      BY <1>4, Zenon
    <3> QED
      BY <3>1, <3>2, <3>3
  <2>4. PoolInv'
    <3>1. CASE barrier = 1
      BY <1>1, <2>1, <2>2, <2>3, <3>1, BarrierSteps, Zenon DEF PType
    <3>2. CASE barrier # 1
      BY <1>1, <2>1, <2>2, <2>3, <3>2, BarrierSteps, Zenon DEF PType
    <3> QED
      BY <3>1, <3>2, Zenon
  <2>5. JoinsAll'
    <3>1. joined' = TRUE /\ parent' = parent /\ told' = 0 /\ parent # NULL
      BY <2>1, <2>2, Zenon
    <3>2. barrier' = Cardinality(Children')
      BY <1>8, <2>1, <2>3, Zenon
    <3>3. barrier' = Cardinality(Children') + (IF parent' # NULL /\ ~joined' THEN 1 ELSE 0)
      BY <2>3, <3>1, <3>2
    <3> QED
      BY <3>1, <3>3 DEF JoinsAll, Children
  <2>6. \A h \in Flows : pc'[h] = "call_done" => h = f /\ barrier = 1
    BY <1>6, <2>1, Zenon DEF OneCall
  <2>7. OneCall'
    <3>1. joined' = TRUE /\ parent' # NULL /\ told' = 0
      BY <2>1, <2>2, Zenon
    <3>2. barrier = 1 => barrier' = 0
      BY <2>1
    <3> QED
      BY <2>6, <3>1, <3>2, Zenon DEF OneCall
  <2>8. \A h \in Flows : pc[h] = "destroy" => pc'[h] = "destroy" /\ item'[h] = item[h]
    BY <1>1, <1>6, <2>1, Zenon
  <2>9. ChildInUse'
    <3>1. done' = done
      BY <2>1, Zenon
    <3> QED
      BY <1>2, <2>8, <3>1, Zenon DEF ChildInUse
  <2> QED
    BY <2>4, <2>5, <2>7, <2>9, Zenon DEF IInv, BarrierInv
<1>12. CASE abort_if_almost_done(f) \/ proceed(f)
  <2>1. /\ pc[f] = "run" /\ parent = f /\ parent' = NULL
        /\ UNCHANGED <<pc, done, joined, told>>
    BY <1>12, Zenon DEF abort_if_almost_done, proceed, bufVars
  <2>2. Cardinality(Children) = 0 /\ barrier' = 0
    <3>1. CASE abort_if_almost_done(f)
      BY <1>3, <1>4, <1>5, <3>1 DEF abort_if_almost_done
    <3>2. CASE proceed(f)
      <4>1. told = 1 /\ joined /\ barrier' = barrier
        BY <3>2 DEF proceed, JoinsAll, PType
      <4> QED
        BY <1>3, <1>4, <4>1 DEF JoinsAll
    <3> QED
      BY <1>12, <3>1, <3>2, Zenon
  <2>3. item[f] = NULL /\ pc' = [pc EXCEPT ![f] = "run"]
    BY <2>1, Zenon DEF InUnref, PType
  <2>4. PoolInv'
    BY <1>1, <2>1, <2>2, <2>3, BarrierSteps, Zenon DEF PType
  <2>5. JoinsAll'
    BY <1>8, <2>1, <2>2 DEF JoinsAll, Children
  <2>6. \A h \in Flows : pc[h] # "call_done"
    BY <1>12, <2>1 DEF OneCall, abort_if_almost_done, proceed
  <2>7. OneCall'
    BY <2>1, <2>6, Zenon DEF OneCall
  <2> QED
    BY <1>7, <2>1, <2>4, <2>5, <2>7, Zenon DEF IInv, BarrierInv
<1>13. ASSUME NEW b \in Items, new_child(f, b) PROVE IInv'
  <2>1. /\ pc[f] = "run" /\ b \in holds[f] /\ ~done[b]
        /\ barrier' = barrier + 1 /\ done' = [done EXCEPT ![b] = TRUE]
        /\ UNCHANGED <<pc, parent, joined, told>>
    BY <1>13, Zenon DEF new_child
  <2>2. (parent = f /\ ~joined) \/ \E c \in Items : done[c]
    BY <1>13, Zenon DEF new_child, PType
  <2>3. parent # NULL /\ told = 0 /\ barrier # 0
    <3>1. CASE parent = f /\ ~joined
      BY <1>3, <1>4, <1>5, <3>1 DEF JoinsAll, PType
    <3>2. CASE \E c \in Items : done[c]
      <4>1. Cardinality(Children) # 0
        BY <1>4, <3>2, Zenon
      <4>2. barrier # 0
        BY <1>3, <1>4, <4>1
      <4> QED
        BY <3>2, <4>2 DEF JoinsAll, PType
    <3> QED
      BY <2>2, <3>1, <3>2, Zenon
  <2>4. Children' = Children \cup {b} /\ b \notin Children
    BY <2>1, Zenon DEF Children, PType
  <2>5. Cardinality(Children') = Cardinality(Children) + 1
    BY <1>4, <2>4, FS_AddElement, Zenon
  <2>6. item[f] = NULL /\ pc' = [pc EXCEPT ![f] = "run"]
    BY <2>1, Zenon DEF InUnref, PType
  <2>7. done' \in [Items -> BOOLEAN] /\ barrier' \in Nat /\ \A c \in Items : c # b => done'[c] = done[c]
    BY <2>1 DEF PType
  <2>8. PoolInv'
    BY <1>1, <2>1, <2>6, <2>7, BarrierSteps, Zenon DEF PType
  <2>9. JoinsAll'
    <3>1. barrier' = Cardinality(Children') + (IF parent' # NULL /\ ~joined' THEN 1 ELSE 0)
      BY <1>3, <1>4, <2>1, <2>5
    <3>2. parent' # NULL /\ told' = 0
      BY <2>1, <2>3, Zenon
    <3> QED
      BY <3>1, <3>2 DEF JoinsAll, Children
  <2>10. OneCall'
    BY <2>1, <2>3, Zenon DEF OneCall
  <2>11. ChildInUse'
    <3>1. Owners(b)' # {}
      BY <1>2, <2>1, Zenon DEF Owners
    <3> QED
      BY <1>1, <1>2, <2>1, <2>7, <3>1, Zenon DEF ChildInUse
  <2> QED
    BY <2>8, <2>9, <2>10, <2>11, Zenon DEF IInv, BarrierInv
<1> QED
  BY <1>9, <1>10, <1>11, <1>12, <1>13, Zenon

-----------------------------------------------------------------------------
(* The theorems. *)

LEMMA InitInv == Init => IInv
<1> SUFFICES ASSUME Init PROVE IInv
  BY Zenon
<1>1. Cardinality(FixedItems) \in Nat
  BY PoolsAssumption, FS_CardinalityType, Zenon
<1>2. /\ queue \in [1..Cardinality(FixedItems) -> FixedItems]
      /\ \A i, j \in DOMAIN queue : queue[i] = queue[j] => i = j
  BY Zenon DEF Init
<1>3. queue \in Seq(Flows \cup FixedItems)
  BY <1>1, <1>2, SMT
<1>4. PType
  <2>1. /\ freeCount \in Nat /\ waitingQueue \in Seq(Flows)
        /\ heap \subseteq HeapItems /\ barrier \in Nat /\ parent \in Flows \cup {NULL}
        /\ told \in Nat
    BY PoolsAssumption, SMT DEF Init
  <2>2. /\ count \in [Items -> Nat] /\ done \in [Items -> BOOLEAN]
        /\ holds \in [Flows -> SUBSET Items]
        /\ pc \in [Flows -> Places] /\ item \in [Flows -> Items \cup {NULL}]
    BY Zenon DEF Init, Places
  <2>3. empty \in BOOLEAN /\ joined \in BOOLEAN
    BY Zenon DEF Init
  <2> QED
    BY <1>3, <2>1, <2>2, <2>3, Zenon DEF PType
<1>5. KindsApart /\ InUnref /\ LimitedWaits
  BY <1>2 DEF Init, KindsApart, InUnref, LimitedWaits
<1>7. \A b \in FixedItems : \E i \in DOMAIN queue : queue[i] = b
  <2>1. DOMAIN queue = 1..Cardinality(FixedItems)
    BY <1>2, Zenon
  <2>2. queue \in Injection(1..Cardinality(FixedItems), FixedItems)
    BY <1>2, <2>1, Zenon DEF Injection, IsInjective
  <2>3. Cardinality(1..Cardinality(FixedItems)) = Cardinality(FixedItems)
    BY <1>1, FS_Interval, SMT
  <2>4. queue \in Surjection(1..Cardinality(FixedItems), FixedItems)
    BY <2>2, <2>3, PoolsAssumption, FS_Injection, Zenon
  <2> QED
    BY <2>1, <2>4, Zenon DEF Surjection
<1>8. OnePlace
  <2> SUFFICES ASSUME NEW b \in Items PROVE Place(b)
    BY Places1, Zenon
  <2>1. Owners(b) = {} /\ Destroyers(b) = {}
    BY PoolsAssumption, Zenon DEF Init, Owners, Destroyers
  <2>2. InPool(b)
    BY <1>7, Zenon DEF Init, InPool, Items
  <2>3. count[b] = 0 /\ Cardinality(Owners(b)) = 0
    BY <2>1, FS_EmptySet, Zenon DEF Init
  <2> QED
    BY <2>1, <2>2, <2>3, Zenon DEF Place
<1>9. BarrierInv
  <2>1. Cardinality(Children) = 0
    BY <1>4, ChildrenFinite, Zenon DEF Init
  <2>2. JoinsAll
    BY <2>1 DEF Init, JoinsAll, Children
  <2> QED
    BY <2>2, Zenon DEF Init, BarrierInv, ChildInUse, OneCall
<1> QED
  BY <1>4, <1>5, <1>8, <1>9, Zenon DEF IInv, PoolInv

LEMMA NextInv == IInv /\ [Next]_vars => IInv'
<1> SUFFICES ASSUME IInv, [Next]_vars PROVE IInv'
  BY Zenon
<1>1. CASE UNCHANGED vars
  <2>1. /\ UNCHANGED <<queue, empty, freeCount, waitingQueue, heap, count, done, holds,
                       pc, item, barrier, parent, joined, told>>
    BY <1>1, Zenon DEF vars, poolVars, bufVars, barrierVars
  <2>2. PType' /\ KindsApart' /\ InUnref' /\ LimitedWaits'
    BY <2>1, Zenon DEF IInv, PoolInv, PType, KindsApart, InUnref, LimitedWaits
  <2>3. OnePlace'
    BY <2>1, NoneMoves, Zenon DEF IInv, PoolInv
  <2>4. \A c \in Items : Owners(c)' = Owners(c)
    BY <2>1, Zenon DEF Owners
  <2>5. BarrierInv'
    BY <2>1, <2>4, BarrierKept, Zenon DEF IInv, BarrierInv, ChildInUse
  <2> QED
    BY <2>2, <2>3, <2>5, Zenon DEF IInv, PoolInv
<1>2. CASE Next
  BY <1>2, PoolSteps, RefSteps, DestroyStep, BarrierStep, Zenon DEF Next
<1> QED
  BY <1>1, <1>2, Zenon

\* A step that neither takes, counts nor gives back a block.
LEMMA LimitedKept ==
    ASSUME Limited, UNCHANGED <<freeCount, heap>>,
           \A h \in Flows : pc'[h] = "base_free" <=> pc[h] = "base_free",
           \A h \in Flows : pc[h] = "base_free" => item'[h] = item[h]
    PROVE  Limited'
<1>1. Returning' = Returning
  BY Zenon DEF Returning
<1> QED
  BY <1>1, Zenon DEF Limited

\* The count of the LimitedPool.
LEMMA LimitedNext == IInv /\ Limited /\ [Next]_vars => Limited'
<1> SUFFICES ASSUME IInv, Limited, [Next]_vars PROVE Limited'
  BY Zenon
<1>0. PType /\ OnePlace /\ KindsApart /\ InUnref /\ LimitedWaits
  BY Zenon DEF IInv, PoolInv
<1> USE <1>0
<1>1. IsFiniteSet(heap \ Returning) /\ Cardinality(heap \ Returning) \in Nat
  <2>1. IsFiniteSet(heap)
    BY PoolsAssumption, FS_Subset, Zenon DEF PType
  <2>2. IsFiniteSet(heap \ Returning)
    BY <2>1, FS_Subset, Zenon
  <2> QED
    BY <2>2, FS_CardinalityType, Zenon
<1>2. ASSUME NEW f \in Flows, NEW p \in Places \ {"base_free"},
             pc[f] # "base_free", pc' = [pc EXCEPT ![f] = p],
             \A h \in Flows : h # f => item'[h] = item[h], UNCHANGED <<freeCount, heap>>
      PROVE  Limited'
  <2>1. pc'[f] = p /\ \A h \in Flows : h # f => pc'[h] = pc[h]
    BY <1>2, Zenon DEF PType
  <2> QED
    BY <1>2, <2>1, LimitedKept, Zenon
<1>3. ASSUME NEW f \in Flows, NEW g \in Flows, pc[f] # "base_free", pc[g] # "base_free",
             pc' = [pc EXCEPT ![f] = "run", ![g] = "run"],
             \A h \in Flows : h # f => item'[h] = item[h], UNCHANGED <<freeCount, heap>>
      PROVE  Limited'
  <2>1. pc'[f] = "run" /\ pc'[g] = "run" /\ \A h \in Flows : h # f /\ h # g => pc'[h] = pc[h]
    BY <1>3, Zenon DEF PType
  <2> QED
    BY <1>3, <2>1, LimitedKept, Zenon
<1>4. ASSUME UNCHANGED <<pc, item, freeCount, heap>> PROVE Limited'
  BY <1>4, LimitedKept, Zenon
<1>5. CASE UNCHANGED vars
  BY <1>4, <1>5, Zenon DEF vars, poolVars
<1>6. ASSUME NEW f \in Flows, FixedPool_alloc(f) \/ FixedPool_try(f) PROVE Limited'
  <2>1. pc[f] = "run" /\ UNCHANGED <<item, freeCount, heap>>
    BY <1>6, Zenon DEF FixedPool_alloc, FixedPool_try, MayAllocate
  <2>2. pc' = [pc EXCEPT ![f] = "run"] \/ pc' = [pc EXCEPT ![f] = "wait"] \/ pc' = pc
    BY <1>6, Zenon DEF FixedPool_alloc, FixedPool_try, alloc_result
  <2> QED
    BY <1>2, <1>4, <2>1, <2>2, Zenon DEF Places
<1>7. ASSUME NEW f \in Flows, FixedPool_free(f) PROVE Limited'
  <2>1. pc[f] = "free" /\ item' = [item EXCEPT ![f] = NULL] /\ UNCHANGED <<freeCount, heap>>
    BY <1>7, Zenon DEF FixedPool_free
  <2>2. \A h \in Flows : h # f => item'[h] = item[h]
    BY <2>1, Zenon DEF PType
  <2>3. CASE empty /\ queue # <<>>
    <3>1. Head(queue) \in Flows /\ pc[Head(queue)] = "wait"
      BY <2>3, TailFacts DEF KindsApart, PType
    <3>2. pc' = [pc EXCEPT ![f] = "run", ![Head(queue)] = "run"]
      BY <1>7, <2>3, Zenon DEF FixedPool_free
    <3> QED
      BY <1>3, <2>1, <2>2, <3>1, <3>2, Zenon
  <2>4. CASE ~(empty /\ queue # <<>>)
    BY <1>2, <1>7, <2>1, <2>2, <2>4, Zenon DEF FixedPool_free, Places
  <2> QED
    BY <2>3, <2>4, Zenon
<1>8. ASSUME NEW f \in Flows, LimitedPool_alloc(f) PROVE Limited'
  <2>1. CASE freeCount > 0
    <3>1. PICK b \in HeapItems \ heap :
             freeCount' = freeCount - 1 /\ heap' = heap \cup {b} /\ alloc_result(f, b)
      BY <1>8, <2>1, Zenon DEF LimitedPool_alloc
    <3>2. pc[f] = "run" /\ UNCHANGED item
      BY <1>8, Zenon DEF LimitedPool_alloc, MayAllocate
    <3>3. pc' = pc
      BY <3>1, <3>2, Zenon DEF alloc_result, PType
    <3>4. Returning' = Returning
      BY <3>2, <3>3, Zenon DEF Returning
    <3>5. Destroyers(b) = {}
      BY NoOwner, Zenon DEF Items, InPool
    <3>6. b \notin Returning
      BY <3>5, Zenon DEF Returning, Destroyers
    <3>7. heap' \ Returning' = (heap \ Returning) \cup {b} /\ b \notin heap \ Returning
      BY <3>1, <3>4, <3>6, Zenon
    <3>8. Cardinality((heap \ Returning) \cup {b}) = Cardinality(heap \ Returning) + 1
      BY <1>1, <3>7, FS_AddElement, Zenon
    <3>9. freeCount + Cardinality(heap \ Returning) = entry_count /\ freeCount \in Nat
      BY Zenon DEF Limited, PType
    <3>10. Cardinality(heap' \ Returning') = Cardinality(heap \ Returning) + 1
      BY ONLY <3>7, <3>8, Zenon
    <3>11. freeCount' = freeCount - 1
      BY <3>1, Zenon
    <3>12. freeCount' + Cardinality(heap' \ Returning') = entry_count
      BY ONLY <1>1, <3>9, <3>10, <3>11
    <3> QED
      BY ONLY <3>12, Zenon DEF Limited
  <2>2. CASE ~(freeCount > 0)
    <3>1. /\ pc[f] = "run" /\ pc' = [pc EXCEPT ![f] = "insert"]
          /\ UNCHANGED <<item, freeCount, heap>>
      BY <1>8, <2>2, Zenon DEF LimitedPool_alloc, MayAllocate
    <3> QED
      BY <1>2, <3>1, Zenon DEF Places
  <2> QED
    BY <2>1, <2>2, Zenon
<1>9. ASSUME NEW f \in Flows, LimitedPool_insert(f) PROVE Limited'
  BY <1>2, <1>9, Zenon DEF LimitedPool_insert, Places
<1>10. ASSUME NEW f \in Flows, LimitedPool_free(f) PROVE Limited'
  <2>1. CASE waitingQueue # <<>>
    <3>1. /\ pc[f] = "free" /\ item' = [item EXCEPT ![f] = NULL]
          /\ pc' = [pc EXCEPT ![f] = "run", ![Head(waitingQueue)] = "run"]
          /\ UNCHANGED <<freeCount, heap>>
      BY <1>10, <2>1, Zenon DEF LimitedPool_free
    <3>2. Head(waitingQueue) \in Flows /\ pc[Head(waitingQueue)] = "wait"
      BY <2>1, TailFacts DEF LimitedWaits, PType
    <3>3. \A h \in Flows : h # f => item'[h] = item[h]
      BY <3>1, Zenon DEF PType
    <3> QED
      BY <1>3, <3>1, <3>2, <3>3, Zenon
  <2>2. CASE waitingQueue = <<>>
    <3>1. PICK b : b = item[f]
      BY Zenon
    <3>2. /\ pc[f] = "free" /\ b \in HeapItems /\ freeCount' = freeCount + 1
          /\ pc' = [pc EXCEPT ![f] = "base_free"] /\ UNCHANGED <<item, heap>>
      BY <1>10, <2>2, <3>1, Zenon DEF LimitedPool_free
    <3>3. Destroyers(b) # {} /\ \A h \in Flows : item[h] = b => h = f
      BY <3>1, <3>2, Zenon DEF OnePlace, Destroyers, Items
    <3>4. b \in heap
      BY <3>2, <3>3, Zenon DEF OnePlace, InPool, Items
    <3>5. b \notin Returning
      BY <3>2, <3>3, Zenon DEF Returning
    <3>6. pc'[f] = "base_free" /\ \A h \in Flows : h # f => pc'[h] = pc[h]
      BY <3>2, Zenon DEF PType
    <3>7. Returning' = Returning \cup {b}
      BY <3>1, <3>2, <3>6, Zenon DEF Returning
    <3>8. heap' \ Returning' = (heap \ Returning) \ {b} /\ b \in heap \ Returning
      BY <3>2, <3>4, <3>5, <3>7, Zenon
    <3>9. Cardinality((heap \ Returning) \ {b}) = Cardinality(heap \ Returning) - 1
      BY <1>1, <3>8, FS_RemoveElement, Zenon
    <3>10. freeCount + Cardinality(heap \ Returning) = entry_count /\ freeCount \in Nat
      BY Zenon DEF Limited, PType
    <3>11. Cardinality(heap' \ Returning') = Cardinality(heap \ Returning) - 1
      BY ONLY <3>8, <3>9, Zenon
    <3>12. freeCount' = freeCount + 1
      BY <3>2, Zenon
    <3>13. freeCount' + Cardinality(heap' \ Returning') = entry_count
      BY ONLY <1>1, <3>10, <3>11, <3>12
    <3> QED
      BY ONLY <3>13, Zenon DEF Limited
  <2> QED
    BY <2>1, <2>2, Zenon
<1>11. ASSUME NEW f \in Flows, base_pool_free(f) PROVE Limited'
  <2>1. PICK b : b = item[f]
    OBVIOUS
  <2>2. /\ pc[f] = "base_free" /\ heap' = heap \ {b} /\ item' = [item EXCEPT ![f] = NULL]
        /\ pc' = [pc EXCEPT ![f] = "run"] /\ UNCHANGED freeCount
    BY <1>11, <2>1, Zenon DEF base_pool_free
  <2>3. b \in HeapItems /\ b \in Items /\ \A h \in Flows : item[h] = b => h = f
    BY <2>1, <2>2, Zenon DEF InUnref, OnePlace, Destroyers, Items
  <2>4. /\ pc'[f] = "run"
        /\ \A h \in Flows : h # f => pc'[h] = pc[h] /\ item'[h] = item[h]
    BY <2>2, Zenon DEF PType
  <2>5. Returning' = Returning \ {b} /\ b \in Returning
    BY <2>1, <2>2, <2>3, <2>4 DEF Returning
  <2>6. heap' \ Returning' = heap \ Returning
    BY <2>2, <2>5, Zenon
  <2> QED
    BY <2>2, <2>6, Zenon DEF Limited
<1>12. ASSUME NEW f \in Flows, NEW b \in Items, unref(f, b) PROVE Limited'
  <2>1. pc[f] = "run" /\ UNCHANGED <<freeCount, heap>>
    BY <1>12, Zenon DEF unref, poolVars
  <2>2. CASE count[b] = 1
    <3>1. pc' = [pc EXCEPT ![f] = "destroy"] /\ item' = [item EXCEPT ![f] = b]
      BY <1>12, <2>2, Zenon DEF unref
    <3>2. \A h \in Flows : h # f => item'[h] = item[h]
      BY <3>1, Zenon DEF PType
    <3> QED
      BY <1>2, <2>1, <3>1, <3>2, Zenon DEF Places
  <2>3. CASE count[b] # 1
    BY <1>4, <1>12, <2>1, <2>3, Zenon DEF unref
  <2> QED
    BY <2>2, <2>3, Zenon
<1>13. ASSUME NEW f \in Flows, destroy(f) \/ call_done(f) \/ maybe_done(f) PROVE Limited'
  <2>1. /\ pc[f] \in {"destroy", "call_done", "run"} /\ UNCHANGED <<item, freeCount, heap>>
    BY <1>13, Zenon DEF destroy, call_done, maybe_done, poolVars
  <2>2. \E p \in {"run", "free", "call_done"} : pc' = [pc EXCEPT ![f] = p]
    BY <1>13, Zenon DEF destroy, call_done, maybe_done, notify
  <2> QED
    BY <1>2, <2>1, <2>2, Zenon DEF Places
<1>14. ASSUME NEW f \in Flows, reset(f) \/ abort_if_almost_done(f) \/ proceed(f) PROVE Limited'
  BY <1>4, <1>14, Zenon DEF reset, abort_if_almost_done, proceed, poolVars
<1>15. ASSUME NEW f \in Flows, NEW g \in Flows, NEW b \in Items,
              new_child(f, b) \/ ref(f, g, b)
       PROVE  Limited'
  BY <1>4, <1>15, Zenon DEF new_child, ref, poolVars
<1> QED
  BY <1>5, <1>6, <1>7, <1>8, <1>9, <1>10, <1>11, <1>12, <1>13, <1>14, <1>15, Zenon DEF Next

LEMMA Invariance == Spec => [](IInv /\ Limited)
<1>1. Init => Limited
  <2> SUFFICES ASSUME Init PROVE Limited
    OBVIOUS
  <2>1. heap \ Returning = {} /\ freeCount = entry_count
    BY Zenon DEF Init
  <2> QED
    BY <2>1, PoolsAssumption, FS_EmptySet DEF Limited
<1> QED
  BY <1>1, InitInv, NextInv, LimitedNext, PTL DEF Spec

\* Reference counting is exact: a buffer is owned, or destroyed by one flow, or
\* with its pool, and never two of these (Buffer<T>::unref, the pools).
THEOREM OnePlaceHolds == Spec => []OnePlace
<1>1. IInv => OnePlace
  BY Zenon DEF IInv, PoolInv
<1> QED
  BY <1>1, Invariance, PTL

\* FixedPool's queue never mixes buffers and flows, whatever calls find it
\* empty (FixedPool::alloc_untyped, FixedPool::free).
THEOREM KindsApartHolds == Spec => []KindsApart
<1>1. IInv => KindsApart
  BY Zenon DEF IInv, PoolInv
<1> QED
  BY <1>1, Invariance, PTL

\* LimitedPool never exceeds entry_count blocks (LimitedPool::alloc_untyped,
\* LimitedPool::free).
THEOREM LimitedHolds == Spec => []Limited
BY Invariance, PTL

\* A barrier tells its parent once, and after the last child
\* (BarrierNotifiable::notify, ~BufferBase).
THEOREM JoinsAllHolds == Spec => []JoinsAll
<1>1. IInv => JoinsAll
  BY Zenon DEF IInv, BarrierInv
<1> QED
  BY <1>1, Invariance, PTL
=============================================================================
