-------------------------- MODULE DispatcherProofs --------------------------
(***************************************************************************)
(* Proofs about Dispatcher, for any number of handlers, keys and slots and *)
(* any number of registration calls during a dispatch.                     *)
(***************************************************************************)
EXTENDS Dispatcher, NaturalsInduction, WellFoundedInduction, TLAPS

\* Registration r is the one in slot i.
At(r, i) == i < size /\ slot[i].handler = r[1] /\ slot[i].key = r[2]

\* Where the flow stands in the vector and what it holds while it dispatches.
Position ==
    /\ pc \in {"clone", "sent", "clone_done"} => currentIndex \in Slots
    /\ pc # "idle" => last \in Handlers \cup {NULL}

\* A handler in slot i has no other slot.
Single ==
    \A i, j \in Slots :
        /\ i < size /\ j < size
        /\ slot[i].handler = slot[j].handler /\ slot[i].handler # NULL
        => i = j

\* A registration in place since the dispatch began has a slot.
SteadyHasSlot == pc # "idle" => \A r \in steady : \E i \in Slots : At(r, i)

Done(r) == calls[r[1]] >= 1
DoneOrNext(r) == calls[r[1]] >= 1 \/ last = r[1]

\* The walk over the slots has left nothing behind: the handler of each slot
\* before currentIndex_ was called, or is the one to be called next.
Walked ==
    /\ pc \in {"iterate", "iterated", "clone"} =>
         \A r \in steady, i \in Slots :
             At(r, i) /\ Matching(r[2]) /\ i < currentIndex => DoneOrNext(r)
    /\ pc \in {"sent", "clone_done"} =>
         \A r \in steady, i \in Slots :
             At(r, i) /\ Matching(r[2]) /\ i < currentIndex => Done(r)
    /\ pc = "done" => \A r \in steady : Matching(r[2]) => DoneOrNext(r)
    /\ pc = "idle" => \A r \in steady : Matching(r[2]) => Done(r)

WalkInv == TypeOK /\ Position /\ Single /\ SteadyHasSlot /\ Walked

\* The slots past the end of the vector hold no handler, and the handler to
\* be called next is registered.
NextRegistered ==
    /\ \A i \in Slots : i >= size => slot[i].handler = NULL
    /\ pc # "idle" /\ last # NULL => last \in RegisteredHandlers

-----------------------------------------------------------------------------
\* The smallest element of a non-empty set of slots.
LEMMA LeastIn ==
  ASSUME NEW S \in SUBSET Nat, S # {}
  PROVE  Least(S) \in S /\ \A j \in S : Least(S) <= j
<1> DEFINE R == {ss \in Nat \X Nat : ss[1] < ss[2]}
<1>1. IsWellFoundedOn(R, Nat)
  BY NatLessThanWellFounded, Zenon DEF OpToRel
<1>2. PICK x \in S : \A y \in S : ~(<<y, x>> \in R)
  <2> HIDE DEF R
  <2> QED
    BY <1>1, WFMin, Zenon
<1>3. ASSUME NEW y \in S PROVE x <= y
  <2>1. x \in Nat /\ y \in Nat /\ ~(<<y, x>> \in R)
    BY <1>2, Zenon
  <2>2. ~(y < x)
    BY <2>1
  <2> QED
    BY ONLY <2>1, <2>2
<1> QED
  BY <1>3, Zenon DEF Least

\* Where iterate() leaves currentIndex_ and lastHandlerToCall_: it passes only
\* slots it need not stop at, and at most one that it takes as the next call.
LEMMA IterateStops ==
  ASSUME TypeOK, iterate
  PROVE  /\ currentIndex' \in 0..MaxSlots
         /\ last' \in Handlers \cup {last}
         /\ last # NULL => last' = last
         /\ last' # last => \E i \in Slots : i < size /\ slot[i].handler = last'
         /\ \A i \in Slots :
              i < size /\ i < currentIndex' /\ currentIndex <= i
              /\ slot[i].handler # NULL /\ Matching(slot[i].key)
              => last' = slot[i].handler
<1> DEFINE S == Selected(currentIndex)
           f == Least(S)
           T == S \ {f}
           c == currentIndex
<1>s. S \in SUBSET Slots /\ T \in SUBSET Slots /\ S \in SUBSET Nat /\ T \in SUBSET Nat
  BY ConstantsOK DEF Selected, Slots
<1>c. c \in 0..MaxSlots /\ size \in 0..MaxSlots /\ MaxSlots \in Nat
  BY ConstantsOK DEF TypeOK
<1>h. \A i \in Slots : slot[i].handler \in Handlers \cup {NULL}
  BY DEF TypeOK, SlotValue
<1>m. \A i \in Slots : i \in S <=> c <= i /\ i < size /\ slot[i].handler # NULL
                                   /\ Matching(slot[i].key)
  BY DEF Selected
<1>1. ASSUME NEW U \in SUBSET Slots, U \in SUBSET Nat, U \subseteq S
      PROVE  /\ StopsAt(U) \in 0..MaxSlots
             /\ \A i \in Slots : i < size /\ i < StopsAt(U) => i \notin U
  <2>1. CASE U # {}
    <3>1. Least(U) \in U /\ \A j \in U : Least(U) <= j
      BY <1>1, <2>1, LeastIn
    <3>2. StopsAt(U) = Least(U)
      BY <2>1 DEF StopsAt
    <3> DEFINE l == Least(U)
    <3>3. l \in Slots /\ l \in Nat
      BY <1>1, <3>1, Zenon
    <3>4. l \in 0..MaxSlots
      BY <1>c, <3>3 DEF Slots
    <3>5. ASSUME NEW i \in Slots, i < l PROVE i \notin U
      <4> HIDE DEF l
      <4>1. i \in Nat
        BY <1>c DEF Slots
      <4>2. \A j \in U : l <= j
        BY <3>1 DEF l
      <4> QED
        BY <3>3, <3>5, <4>1, <4>2
    <3> QED
      BY <3>2, <3>4, <3>5
  <2>2. CASE U = {}
    BY <1>c, <2>2 DEF StopsAt
  <2> QED
    BY <2>1, <2>2
<1>2. CASE last = NULL /\ S # {}
  <2>1. last' = slot[f].handler /\ currentIndex' = StopsAt(T)
    BY <1>2 DEF iterate
  <2>2. f \in S
    BY <1>2, <1>s, LeastIn
  <2>3. /\ StopsAt(T) \in 0..MaxSlots
        /\ \A i \in Slots : i < size /\ i < StopsAt(T) => i \notin T
    BY <1>1, <1>s
  <2> HIDE DEF S, T, f
  <2>4. slot[f].handler \in Handlers
    BY <1>h, <1>m, <1>s, <2>2
  <2>5. \A i \in Slots : i \in S => i = f \/ i \in T
    BY DEF T
  <2> QED
    BY <1>2, <1>m, <1>s, <2>1, <2>2, <2>3, <2>4, <2>5
<1>3. CASE ~(last = NULL /\ S # {})
  <2>1. last' = last /\ currentIndex' = StopsAt(S)
    BY <1>3 DEF iterate
  <2>2. /\ StopsAt(S) \in 0..MaxSlots
        /\ \A i \in Slots : i < size /\ i < StopsAt(S) => i \notin S
    BY <1>1, <1>s
  <2> QED
    BY <1>m, <2>1, <2>2
<1> QED
  BY <1>2, <1>3

-----------------------------------------------------------------------------
(* Type correctness. *)

LEMMA InitType == Init => TypeOK /\ Position
<1> SUFFICES ASSUME Init PROVE TypeOK /\ Position
  OBVIOUS
<1>1. slot \in [Slots -> SlotValue]
  BY DEF Init, SlotValue
<1> QED
  <2>1. calls \in [Handlers -> Nat] /\ ever \in [Regs -> Nat]
    BY DEF Init
  <2>2. /\ size \in 0..MaxSlots /\ currentIndex \in 0..MaxSlots /\ mid \in 0..MaxMid
    BY ConstantsOK DEF Init
  <2> QED
    BY <1>1, <2>1, <2>2, Zenon DEF Init, TypeOK, Position

\* A registration call that is counted keeps the count within its bound.
LEMMA MidType ==
  ASSUME TypeOK, NEW op, MayCall(op), CountCall
  PROVE  mid' \in 0..MaxMid
BY ConstantsOK DEF TypeOK, MayCall, CountCall

\* The registration calls change the vector, and lastHandlerToCall_ at
\* most to NULL.
LEMMA RegistryType ==
  ASSUME TypeOK, Position, NEW h \in Handlers, NEW k \in Keys,
         register_handler(h, k) \/ unregister_handler(h, k)
  PROVE  TypeOK' /\ Position'
<1>n. h \in Handlers \cup {NULL} /\ NULL \in Handlers \cup {NULL} /\ <<h, k>> \in Regs
  BY DEF Regs
<1>1. CASE register_handler(h, k)
  <2>1. PICK i \in Slots :
            /\ FreeSlot(i)
            /\ slot' = [slot EXCEPT ![i] = [handler |-> h, key |-> k]]
            /\ size' = IF i < size THEN size ELSE i + 1
    BY <1>1, Zenon DEF register_handler
  <2>2. slot' \in [Slots -> SlotValue]
    BY <1>n, <2>1 DEF TypeOK, SlotValue
  <2>3. size' \in 0..MaxSlots
    BY <2>1, ConstantsOK DEF TypeOK, Slots
  <2>4. ever' \in [Regs -> Nat]
    BY <1>1, <1>n DEF register_handler, TypeOK
  <2>5. mid' \in 0..MaxMid
    BY <1>1, MidType DEF register_handler
  <2> QED
    BY <1>1, <2>2, <2>3, <2>4, <2>5 DEF register_handler, TypeOK, Position, flow
<1>2. CASE unregister_handler(h, k)
  <2>1. PICK i \in Slots :
            /\ i < size
            /\ slot' = [slot EXCEPT ![i].handler = NULL]
            /\ size' = IF i = size - 1 THEN size - 1 ELSE size
    BY <1>2, Zenon DEF unregister_handler
  <2>2. slot' \in [Slots -> SlotValue]
    BY <1>n, <2>1 DEF TypeOK, SlotValue
  <2>3. size' \in 0..MaxSlots
    BY <2>1, ConstantsOK DEF TypeOK, Slots
  <2>4. mid' \in 0..MaxMid
    BY <1>2, MidType DEF unregister_handler
  <2>5. steady' \subseteq Regs /\ last' \in {last, NULL}
    BY <1>2 DEF unregister_handler, TypeOK
  <2> QED
    BY <1>2, <2>2, <2>3, <2>4, <2>5 DEF unregister_handler, TypeOK, Position
<1> QED
  BY <1>1, <1>2

LEMMA RemoveAllType ==
  ASSUME TypeOK, Position, NEW h \in Handlers, unregister_handler_all(h)
  PROVE  TypeOK' /\ Position'
<1>1. slot' \in [Slots -> SlotValue]
  <2>1. \A i \in Slots : slot[i] \in SlotValue /\ [slot[i] EXCEPT !.handler = NULL] \in SlotValue
    BY DEF TypeOK, SlotValue
  <2> QED
    BY <2>1 DEF unregister_handler_all
<1>2. size' \in 0..MaxSlots
  BY ConstantsOK DEF unregister_handler_all, TypeOK
<1>3. mid' \in 0..MaxMid
  BY MidType DEF unregister_handler_all
<1>4. steady' \subseteq Regs
  BY DEF unregister_handler_all, TypeOK
<1> QED
  BY <1>1, <1>2, <1>3, <1>4 DEF unregister_handler_all, TypeOK, Position, flow

LEMMA StepType ==
  ASSUME TypeOK, Position, Step
  PROVE  TypeOK' /\ Position'
<1>1. CASE iterate
  BY <1>1, IterateStops DEF iterate, TypeOK, Position, registry, history
<1>2. CASE allocate_and_clone
  <2>1. currentIndex < size => currentIndex \in Slots
    BY ConstantsOK DEF TypeOK, Slots
  <2>2. currentIndex >= size \/ currentIndex < size
    BY DEF TypeOK
  <2> QED
    BY <1>2, <2>1, <2>2 DEF allocate_and_clone, TypeOK, Position, registry, history
<1>3. CASE clone
  <2>1. last # NULL => last \in Handlers
    BY <1>3 DEF clone, Position
  <2>2. calls' \in [Handlers -> Nat]
    BY <1>3, <2>1 DEF clone, TypeOK
  <2> QED
    BY <1>3, <2>2 DEF clone, TypeOK, Position, registry
<1>4. CASE clone_done
  <2>1. currentIndex \in Slots
    BY <1>4 DEF clone_done, Position
  <2>2. slot[currentIndex].handler \in Handlers \cup {NULL}
    BY <2>1 DEF TypeOK, SlotValue
  <2>3. currentIndex + 1 \in 0..MaxSlots
    BY <2>1, ConstantsOK DEF Slots
  <2> QED
    BY <1>4, <2>2, <2>3 DEF clone_done, TypeOK, Position, registry, history
<1>5. CASE iteration_done
  <2> DEFINE g == IF last # NULL THEN last ELSE fallbackHandler
  <2>1. GiveTo(g) /\ g \in Handlers \cup {NULL, fallbackHandler}
    BY <1>5 DEF iteration_done, Position
  <2> HIDE DEF g
  <2>2. calls' \in [Handlers -> Nat]
    BY <2>1 DEF GiveTo, TypeOK
  <2> QED
    BY <2>1, <2>2 DEF GiveTo, TypeOK, Position, registry
<1> QED
  BY <1>1, <1>2, <1>3, <1>4, <1>5 DEF Step

LEMMA EntryType ==
  ASSUME TypeOK, Position, NEW m \in Msgs, entry(m)
  PROVE  TypeOK' /\ Position'
<1>1. Registered \subseteq Regs
  BY DEF Registered
<1>2. ever' \in [Regs -> Nat] /\ calls' \in [Handlers -> Nat]
  BY DEF entry
<1>3. currentIndex' \in 0..MaxSlots /\ mid' \in 0..MaxMid
  BY ConstantsOK DEF entry
<1> QED
  BY <1>1, <1>2, <1>3, ZenonT(30) DEF entry, TypeOK, Position, registry

LEMMA TypeNext ==
  ASSUME TypeOK, Position, [Next]_vars
  PROVE  TypeOK' /\ Position'
<1>1. CASE UNCHANGED vars
  BY <1>1 DEF vars, flow, registry, history, TypeOK, Position
<1> QED
  BY <1>1, EntryType, StepType, RegistryType, RemoveAllType, Zenon DEF Next

-----------------------------------------------------------------------------
(* Nothing is left behind. *)

\* The registrations of handlers other than h keep their slots.
OthersStay(h) ==
    \A r \in Regs, j \in Slots : r[1] # h => (At(r, j)' <=> At(r, j))

\* A call that touches only the registrations of h, none of which is steady
\* afterwards, and that makes at most h no longer the next to be called.
LEMMA RegistryStep ==
  ASSUME TypeOK, SteadyHasSlot, Walked, NEW h \in Handlers, OthersStay(h),
         UNCHANGED <<currentIndex, pc, msg, calls>>,
         steady' \subseteq steady, pc # "idle" => \A r \in steady' : r[1] # h,
         last' = last \/ last = h
  PROVE  SteadyHasSlot' /\ Walked'
<1>1. CASE pc = "idle"
  BY <1>1 DEF SteadyHasSlot, Walked, Done, Matching
<1>2. CASE pc # "idle"
  <2>1. \A r \in steady' : r \in steady /\ r \in Regs /\ r[1] # h
    BY <1>2 DEF TypeOK
  <2>2. \A r \in steady', j \in Slots : At(r, j)' <=> At(r, j)
    BY <2>1 DEF OthersStay
  <2>3. \A r \in steady' : (Done(r) => Done(r)') /\ (DoneOrNext(r) => DoneOrNext(r)')
    BY <2>1 DEF Done, DoneOrNext
  <2>4. \A k : Matching(k)' <=> Matching(k)
    BY DEF Matching
  <2>5. SteadyHasSlot'
    BY <1>2, <2>1, <2>2 DEF SteadyHasSlot
  <2>6. Walked'
    BY <1>2, <2>1, <2>2, <2>3, <2>4 DEF Walked
  <2> QED
    BY <2>5, <2>6
<1> QED
  BY <1>1, <1>2

LEMMA RegisterWalk ==
  ASSUME WalkInv, ~MultiKey, NEW h \in Handlers, NEW k \in Keys, register_handler(h, k)
  PROVE  Single' /\ SteadyHasSlot' /\ Walked'
<1>t. TypeOK /\ Position /\ Single /\ SteadyHasSlot /\ Walked
  BY DEF WalkInv
<1>1. PICK i \in Slots :
          /\ FreeSlot(i)
          /\ slot' = [slot EXCEPT ![i] = [handler |-> h, key |-> k]]
          /\ size' = IF i < size THEN size ELSE i + 1
  BY Zenon DEF register_handler
<1>2. h \notin RegisteredHandlers /\ h # NULL
  BY ConstantsOK DEF register_handler
<1>3. \A j \in Slots : j < size => slot[j].handler # h
  BY <1>2 DEF RegisteredHandlers
<1>4. /\ i <= size /\ (i < size => slot[i].handler = NULL)
      /\ i \in Nat /\ size \in Nat /\ \A j \in Slots : j \in Nat
  BY <1>1, <1>t, ConstantsOK DEF FreeSlot, Slots, TypeOK
<1>5. /\ slot'[i] = [handler |-> h, key |-> k]
      /\ \A j \in Slots : j # i => slot'[j] = slot[j]
  BY <1>1, <1>t DEF TypeOK
<1>6. \A j \in Slots : (j < size' <=> j < size \/ j = i)
  BY <1>1, <1>4
<1>7. Single'
  BY <1>t, <1>3, <1>5, <1>6 DEF Single
<1>8. OthersStay(h)
  <2> SUFFICES ASSUME NEW r \in Regs, NEW j \in Slots, r[1] # h
               PROVE  At(r, j)' <=> At(r, j)
    BY DEF OthersStay
  <2>1. r[1] # NULL
    BY ConstantsOK DEF Regs
  <2>2. CASE j = i
    BY <1>4, <1>5, <2>1, <2>2 DEF At
  <2>3. CASE j # i
    BY <1>5, <1>6, <2>3 DEF At
  <2> QED
    BY <2>2, <2>3
<1>9. pc # "idle" => \A r \in steady : r[1] # h
  BY <1>t, <1>3 DEF SteadyHasSlot, At
<1>10. UNCHANGED <<currentIndex, pc, msg, calls, steady, last>>
  BY DEF register_handler, flow
<1> QED
  BY <1>t, <1>7, <1>8, <1>9, <1>10, RegistryStep

LEMMA UnregisterWalk ==
  ASSUME WalkInv, NEW h \in Handlers, NEW k \in Keys, unregister_handler(h, k)
  PROVE  Single' /\ SteadyHasSlot' /\ Walked'
<1>t. TypeOK /\ Position /\ Single /\ SteadyHasSlot /\ Walked
  BY DEF WalkInv
<1>1. PICK i \in Slots :
          /\ i < size
          /\ slot[i].handler = h /\ slot[i].key = k
          /\ slot' = [slot EXCEPT ![i].handler = NULL]
          /\ size' = IF i = size - 1 THEN size - 1 ELSE size
  BY Zenon DEF unregister_handler
<1>2. h # NULL /\ i \in Nat /\ size \in Nat /\ \A j \in Slots : j \in Nat
  BY <1>t, ConstantsOK DEF Slots, TypeOK
<1>3. /\ slot'[i].handler = NULL
      /\ \A j \in Slots : j # i => slot'[j] = slot[j]
  BY <1>1, <1>t DEF TypeOK, SlotValue
<1>4. \A j \in Slots : j # i => (j < size' <=> j < size)
  BY <1>1, <1>2
<1>5. \A j \in Slots : j < size' => j < size
  BY <1>1, <1>2
<1>6. Single'
  <2> SUFFICES ASSUME NEW x \in Slots, NEW y \in Slots, x < size', y < size',
                      slot'[x].handler = slot'[y].handler, slot'[x].handler # NULL
               PROVE  x = y
    BY DEF Single
  <2>1. x # i /\ y # i
    BY <1>3
  <2> QED
    BY <1>t, <1>3, <1>5, <2>1 DEF Single
<1>7. OthersStay(h)
  <2> SUFFICES ASSUME NEW r \in Regs, NEW j \in Slots, r[1] # h
               PROVE  At(r, j)' <=> At(r, j)
    BY DEF OthersStay
  <2>1. r[1] # NULL
    BY ConstantsOK DEF Regs
  <2>2. CASE j = i
    BY <1>1, <1>3, <2>1, <2>2 DEF At
  <2>3. CASE j # i
    BY <1>3, <1>4, <2>3 DEF At
  <2> QED
    BY <2>2, <2>3
<1>8. ASSUME pc # "idle", NEW r \in steady' PROVE r[1] # h
  <2>1. r \in steady /\ r # <<h, k>> /\ r \in Regs
    BY <1>8, <1>t DEF unregister_handler, TypeOK
  <2>2. PICK j \in Slots : At(r, j)
    BY <1>t, <1>8, <2>1 DEF SteadyHasSlot
  <2>3. SUFFICES ASSUME r[1] = h PROVE FALSE
    OBVIOUS
  <2>4. j = i
    BY <1>t, <1>1, <1>2, <2>2, <2>3 DEF Single, At
  <2>5. r[2] = k
    BY <1>1, <2>2, <2>4 DEF At
  <2> QED
    BY <2>1, <2>3, <2>5 DEF Regs
<1>9. /\ UNCHANGED <<currentIndex, pc, msg, calls>>
      /\ steady' \subseteq steady /\ (last' = last \/ last = h)
  BY DEF unregister_handler
<1> QED
  BY <1>t, <1>6, <1>7, <1>8, <1>9, RegistryStep

LEMMA RemoveAllWalk ==
  ASSUME WalkInv, NEW h \in Handlers, unregister_handler_all(h)
  PROVE  Single' /\ SteadyHasSlot' /\ Walked'
<1>t. TypeOK /\ Position /\ Single /\ SteadyHasSlot /\ Walked
  BY DEF WalkInv
<1>1. h # NULL /\ size \in Nat /\ size' \in 0..size /\ \A j \in Slots : j \in Nat
  BY <1>t, ConstantsOK DEF unregister_handler_all, Slots, TypeOK
<1>2. \A j \in Slots :
        /\ slot'[j].key = slot[j].key
        /\ slot'[j].handler = IF j < size /\ slot[j].handler = h THEN NULL
                              ELSE slot[j].handler
  BY <1>t DEF unregister_handler_all, TypeOK, SlotValue
<1>3. \A j \in Slots : size' <= j /\ j < size => slot'[j].handler = NULL
  BY DEF unregister_handler_all
<1>4. \A j \in Slots : j < size' => j < size
  BY <1>1
<1>5. \A j \in Slots : j < size /\ ~(j < size') => slot'[j].handler = NULL
  BY <1>1, <1>3
<1>6. Single'
  BY <1>t, <1>2, <1>4 DEF Single
<1>7. OthersStay(h)
  <2> SUFFICES ASSUME NEW r \in Regs, NEW j \in Slots, r[1] # h
               PROVE  At(r, j)' <=> At(r, j)
    BY DEF OthersStay
  <2>1. r[1] # NULL
    BY ConstantsOK DEF Regs
  <2> QED
    BY <1>2, <1>4, <1>5, <2>1 DEF At
<1>8. pc # "idle" => \A r \in steady' : r[1] # h
  BY DEF unregister_handler_all
<1>9. /\ UNCHANGED <<currentIndex, pc, msg, calls, last>>
      /\ steady' \subseteq steady
  BY DEF unregister_handler_all, flow
<1> QED
  BY <1>t, <1>6, <1>7, <1>8, <1>9, RegistryStep

LEMMA StepWalk ==
  ASSUME WalkInv, Step
  PROVE  Single' /\ SteadyHasSlot' /\ Walked'
<1>t. TypeOK /\ Position /\ Single /\ SteadyHasSlot /\ Walked
  BY DEF WalkInv
<1>u. UNCHANGED <<slot, size, steady, msg>> /\ pc # "idle"
  BY DEF Step, iterate, allocate_and_clone, clone, clone_done, iteration_done, GiveTo,
         registry, history
<1>1. Single' /\ SteadyHasSlot'
  BY <1>t, <1>u DEF Single, SteadyHasSlot, At
<1>2. \A r \in steady, i \in Slots : At(r, i)' <=> At(r, i)
  BY <1>u DEF At
<1>3. \A k : Matching(k)' <=> Matching(k)
  BY <1>u DEF Matching
<1>4. \A r \in steady : r[1] \in Handlers /\ r[1] # NULL
  BY <1>t, ConstantsOK DEF TypeOK, Regs
<1>n. /\ currentIndex \in Nat /\ size \in Nat /\ \A i \in Slots : i \in Nat
  BY <1>t, ConstantsOK DEF Slots, TypeOK
<1>5. CASE iterate
  <2>1. /\ last # NULL => last' = last
        /\ \A i \in Slots :
              i < size /\ i < currentIndex' /\ currentIndex <= i
              /\ slot[i].handler # NULL /\ Matching(slot[i].key)
              => last' = slot[i].handler
    BY <1>t, <1>5, IterateStops
  <2>2. /\ pc = "iterate" /\ pc' = "iterated" /\ calls' = calls
    BY <1>5 DEF iterate, history
  <2>3. ASSUME NEW r \in steady, NEW i \in Slots, At(r, i), Matching(r[2]), i < currentIndex'
        PROVE  DoneOrNext(r)'
    <3>1. CASE i < currentIndex
      <4>1. DoneOrNext(r)
        BY <1>t, <2>2, <2>3, <3>1 DEF Walked
      <4> QED
        BY <1>4, <2>1, <2>2, <4>1 DEF DoneOrNext
    <3>2. CASE ~(i < currentIndex)
      <4>1. currentIndex <= i
        BY <1>n, <3>2
      <4>2. last' = r[1]
        BY <1>4, <2>1, <2>3, <4>1 DEF At
      <4> QED
        BY <4>2 DEF DoneOrNext
    <3> QED
      BY <3>1, <3>2
  <2> QED
    BY <1>1, <1>2, <1>3, <1>u, <2>2, <2>3 DEF Walked
<1>6. CASE allocate_and_clone
  <2>1. pc = "iterated" /\ UNCHANGED <<calls, last, currentIndex>>
    BY <1>6 DEF allocate_and_clone, history
  <2>2. \A r \in steady, i \in Slots :
           At(r, i) /\ Matching(r[2]) /\ i < currentIndex => DoneOrNext(r)
    BY <1>t, <2>1 DEF Walked
  <2>3. \A r \in steady : (Done(r)' <=> Done(r)) /\ (DoneOrNext(r)' <=> DoneOrNext(r))
    BY <2>1 DEF Done, DoneOrNext
  <2>4. CASE pc' = "done"
    <3>1. currentIndex >= size
      BY <1>6, <2>4 DEF allocate_and_clone
    <3>2. ASSUME NEW r \in steady, Matching(r[2]) PROVE DoneOrNext(r)
      <4>1. PICK i \in Slots : At(r, i)
        BY <1>t, <1>u DEF SteadyHasSlot
      <4>2. i < currentIndex
        BY <1>n, <3>1, <4>1 DEF At
      <4> QED
        BY <2>2, <3>2, <4>1, <4>2
    <3> QED
      BY <1>1, <1>3, <1>u, <2>3, <2>4, <3>2 DEF Walked
  <2>5. CASE pc' = "clone_done"
    <3>1. last = NULL
      BY <1>6, <2>5 DEF allocate_and_clone
    <3>2. \A r \in steady : DoneOrNext(r) => Done(r)
      BY <1>4, <3>1 DEF Done, DoneOrNext
    <3> QED
      BY <1>1, <1>2, <1>3, <1>u, <2>1, <2>2, <2>3, <2>5, <3>2 DEF Walked
  <2>6. CASE pc' = "clone"
    BY <1>1, <1>2, <1>3, <1>u, <2>1, <2>2, <2>3, <2>6 DEF Walked
  <2> QED
    BY <1>6, <2>4, <2>5, <2>6 DEF allocate_and_clone
<1>7. CASE clone
  <2>1. /\ pc = "clone" /\ pc' \in {"sent", "clone_done"}
        /\ UNCHANGED <<currentIndex, last>>
    BY <1>7 DEF clone
  <2>2. \A r \in steady : DoneOrNext(r) => Done(r)'
    <3> SUFFICES ASSUME NEW r \in steady, DoneOrNext(r) PROVE Done(r)'
      OBVIOUS
    <3>1. calls \in [Handlers -> Nat] /\ last \in Handlers \cup {NULL}
      BY <1>t, <1>u DEF TypeOK, Position
    <3>2. calls' = IF last = NULL THEN calls ELSE [calls EXCEPT ![last] = @ + 1]
      BY <1>7 DEF clone
    <3> QED
      BY <1>4, <3>1, <3>2 DEF Done, DoneOrNext
  <2> QED
    BY <1>1, <1>2, <1>3, <1>t, <1>u, <2>1, <2>2 DEF Walked
<1>8. CASE clone_done
  <2>1. /\ pc \in {"sent", "clone_done"} /\ pc' = "iterate" /\ calls' = calls
        /\ last' = slot[currentIndex].handler /\ currentIndex' = currentIndex + 1
    BY <1>8 DEF clone_done, history
  <2>2. ASSUME NEW r \in steady, NEW i \in Slots, At(r, i), Matching(r[2]), i < currentIndex'
        PROVE  DoneOrNext(r)'
    <3>1. CASE i < currentIndex
      <4>1. Done(r)
        BY <1>t, <2>1, <2>2, <3>1 DEF Walked
      <4> QED
        BY <2>1, <4>1 DEF Done, DoneOrNext
    <3>2. CASE i = currentIndex
      BY <2>1, <2>2, <3>2 DEF At, DoneOrNext
    <3> QED
      BY <1>n, <2>1, <2>2, <3>1, <3>2
  <2> QED
    BY <1>1, <1>2, <1>3, <1>u, <2>1, <2>2 DEF Walked
<1>9. CASE iteration_done
  <2> DEFINE g == IF last # NULL THEN last ELSE fallbackHandler
  <2>1. pc = "done" /\ GiveTo(g)
    BY <1>9 DEF iteration_done
  <2>2. ASSUME NEW r \in steady, DoneOrNext(r) PROVE Done(r)'
    <3>1. calls \in [Handlers -> Nat] /\ r[1] \in Handlers /\ (last = r[1] => g = r[1])
      BY <1>t, <1>4 DEF TypeOK
    <3>2. calls' = IF g \in Handlers THEN [calls EXCEPT ![g] = @ + 1] ELSE calls
      BY <2>1 DEF GiveTo
    <3> HIDE DEF g
    <3> QED
      BY <2>2, <3>1, <3>2 DEF Done, DoneOrNext
  <2>3. pc' = "idle"
    BY <2>1 DEF GiveTo
  <2> QED
    BY <1>1, <1>3, <1>t, <1>u, <2>1, <2>2, <2>3 DEF Walked
<1> QED
  BY <1>5, <1>6, <1>7, <1>8, <1>9 DEF Step

LEMMA EntryWalk ==
  ASSUME WalkInv, NEW m \in Msgs, entry(m)
  PROVE  Single' /\ SteadyHasSlot' /\ Walked'
<1>t. TypeOK /\ Position /\ Single
  BY DEF WalkInv
<1>1. /\ UNCHANGED <<slot, size>> /\ steady' = Registered
      /\ pc' = "iterate" /\ currentIndex' = 0
  BY DEF entry, registry
<1>2. Single'
  BY <1>t, <1>1 DEF Single
<1>3. SteadyHasSlot'
  BY <1>1 DEF SteadyHasSlot, Registered, At
<1>4. \A i \in Slots : ~(i < 0)
  BY ConstantsOK DEF Slots
<1> QED
  BY <1>1, <1>2, <1>3, <1>4 DEF Walked

LEMMA WalkNext ==
  ASSUME WalkInv, ~MultiKey, [Next]_vars
  PROVE  WalkInv'
<1>1. TypeOK' /\ Position'
  BY TypeNext DEF WalkInv
<1>2. Single' /\ SteadyHasSlot' /\ Walked'
  <2>1. CASE UNCHANGED vars
    BY <2>1 DEF vars, flow, registry, history, WalkInv, Single, SteadyHasSlot, Walked, At,
                Matching, Done, DoneOrNext
  <2>2. CASE Next
    BY <2>2, EntryWalk, StepWalk, RegisterWalk, UnregisterWalk, RemoveAllWalk, Zenon DEF Next
  <2> QED
    BY <2>1, <2>2
<1> QED
  BY <1>1, <1>2 DEF WalkInv

LEMMA InitWalk == Init => WalkInv
<1> SUFFICES ASSUME Init PROVE WalkInv
  OBVIOUS
<1>1. size = 0 /\ \A i \in Slots : ~(i < size)
  BY ConstantsOK DEF Init, Slots
<1>2. steady = {} /\ pc = "idle"
  BY DEF Init
<1> QED
  BY <1>1, <1>2, InitType DEF WalkInv, Single, SteadyHasSlot, Walked

\* The state of DispatchFlow always has its type: the walk stays within the
\* vector whatever is registered and unregistered under it.
THEOREM DispatcherTypeOK == Spec => []TypeOK
<1>1. Init => TypeOK /\ Position
  BY InitType
<1>2. TypeOK /\ Position /\ [Next]_vars => TypeOK' /\ Position'
  BY TypeNext
<1> QED
  BY <1>1, <1>2, PTL DEF Spec

\* Every matching handler that is registered throughout a dispatch is called,
\* for any registration calls from any thread meanwhile, as long as a handler
\* is registered once (dispatch_multi shows that the condition is needed).
THEOREM DispatcherAllMatchingCalled ==
  ASSUME ~MultiKey
  PROVE  Spec => []AllMatchingCalled
<1>1. Init => WalkInv
  BY InitWalk
<1>2. WalkInv /\ [Next]_vars => WalkInv'
  BY WalkNext
<1>3. WalkInv => AllMatchingCalled
  BY DEF WalkInv, Walked, AllMatchingCalled, Done
<1> QED
  BY <1>1, <1>2, <1>3, PTL DEF Spec

-----------------------------------------------------------------------------
(* Only registered handlers are called. *)

LEMMA RegisteredNext ==
  ASSUME TypeOK, Position, NextRegistered, "unregister_all" \notin MidOps, Next
  PROVE  NextRegistered'
<1>n. /\ size \in 0..MaxSlots /\ MaxSlots \in Nat /\ \A i \in Slots : i \in Nat
      /\ NULL \notin Handlers
  BY ConstantsOK DEF Slots, TypeOK
<1>f. /\ slot \in [Slots -> SlotValue]
      /\ \A i \in Slots : i >= size => slot[i].handler = NULL
  BY DEF NextRegistered, TypeOK
<1>r. pc # "idle" /\ last # NULL =>
          last \in Handlers /\ \E j \in Slots : j < size /\ slot[j].handler = last
  BY DEF NextRegistered, RegisteredHandlers
<1>0. SUFFICES /\ \A i \in Slots : i >= size' => slot'[i].handler = NULL
               /\ pc' # "idle" /\ last' # NULL =>
                    last' \in Handlers /\ \E j \in Slots : j < size' /\ slot'[j].handler = last'
  BY DEF NextRegistered, RegisteredHandlers
<1>1. ASSUME NEW h \in Handlers, NEW k \in Keys, register_handler(h, k)
      PROVE  /\ \A i \in Slots : i >= size' => slot'[i].handler = NULL
             /\ pc' # "idle" /\ last' # NULL =>
                  last' \in Handlers /\ \E j \in Slots : j < size' /\ slot'[j].handler = last'
  <2>1. PICK i \in Slots :
            /\ FreeSlot(i)
            /\ slot' = [slot EXCEPT ![i] = [handler |-> h, key |-> k]]
            /\ size' = IF i < size THEN size ELSE i + 1
    BY <1>1, Zenon DEF register_handler
  <2>2. /\ i <= size /\ (i < size => slot[i].handler = NULL)
    BY <2>1 DEF FreeSlot
  <2>3. /\ slot'[i] = [handler |-> h, key |-> k]
        /\ \A j \in Slots : j # i => slot'[j] = slot[j]
    BY <2>1, <1>f
  <2>4. \A j \in Slots : (j < size' <=> j < size \/ j = i) /\ (j >= size' => j >= size /\ j # i)
    BY <1>n, <2>1, <2>2
  <2>5. UNCHANGED <<pc, last>>
    BY <1>1 DEF register_handler, flow
  <2> QED
    BY <1>f, <1>r, <2>2, <2>3, <2>4, <2>5
<1>2. ASSUME NEW h \in Handlers, NEW k \in Keys, unregister_handler(h, k)
      PROVE  /\ \A i \in Slots : i >= size' => slot'[i].handler = NULL
             /\ pc' # "idle" /\ last' # NULL =>
                  last' \in Handlers /\ \E j \in Slots : j < size' /\ slot'[j].handler = last'
  <2>1. PICK i \in Slots :
            /\ i < size /\ slot[i].handler = h
            /\ slot' = [slot EXCEPT ![i].handler = NULL]
            /\ size' = IF i = size - 1 THEN size - 1 ELSE size
    BY <1>2, Zenon DEF unregister_handler
  <2>2. /\ slot'[i].handler = NULL
        /\ \A j \in Slots : j # i => slot'[j] = slot[j]
    BY <2>1, <1>f DEF SlotValue
  <2>3. \A j \in Slots : j # i => (j < size' <=> j < size) /\ (j >= size' <=> j >= size)
    BY <1>n, <2>1
  <2>4. pc' = pc /\ last' = IF last = h THEN NULL ELSE last
    BY <1>2 DEF unregister_handler
  <2> QED
    BY <1>f, <1>r, <2>1, <2>2, <2>3, <2>4
<1>3. ASSUME NEW h \in Handlers, unregister_handler_all(h)
      PROVE  /\ \A i \in Slots : i >= size' => slot'[i].handler = NULL
             /\ pc' = "idle"
  <2>1. pc' = "idle"
    BY <1>3 DEF unregister_handler_all, MayCall, flow
  <2>2. \A j \in Slots : slot'[j].handler = IF j < size /\ slot[j].handler = h THEN NULL
                                            ELSE slot[j].handler
    BY <1>3, <1>f DEF unregister_handler_all, SlotValue
  <2>3. \A j \in Slots : size' <= j /\ j < size => slot'[j].handler = NULL
    BY <1>3 DEF unregister_handler_all
  <2>4. size' \in 0..size
    BY <1>3 DEF unregister_handler_all
  <2>5. \A j \in Slots : j >= size' => (j >= size \/ (size' <= j /\ j < size))
    BY <1>n, <2>4
  <2>6. \A j \in Slots : j >= size => ~(j < size)
    BY <1>n
  <2> QED
    BY <1>f, <2>1, <2>2, <2>3, <2>5, <2>6
<1>4. ASSUME NEW m \in Msgs, entry(m)
      PROVE  UNCHANGED <<slot, size>> /\ last' = NULL
  BY <1>4 DEF entry, registry
<1>5. CASE Step
  <2>u. UNCHANGED <<slot, size>> /\ pc # "idle"
    BY <1>5 DEF Step, iterate, allocate_and_clone, clone, clone_done, iteration_done,
                GiveTo, registry
  <2>1. CASE iterate
    <3>1. /\ last' \in Handlers \cup {last}
          /\ last' # last => \E i \in Slots : i < size /\ slot[i].handler = last'
      BY <2>1, IterateStops
    <3> QED
      BY <1>f, <1>r, <2>u, <3>1
  <2>2. CASE allocate_and_clone \/ clone
    BY <1>f, <1>r, <2>2, <2>u DEF allocate_and_clone, clone
  <2>3. CASE clone_done
    <3>1. last' = slot[currentIndex].handler /\ currentIndex \in Slots
      BY <2>3 DEF clone_done, Position
    <3>2. slot[currentIndex].handler \in Handlers \cup {NULL}
      BY <3>1, <1>f DEF SlotValue
    <3>3. currentIndex >= size \/ currentIndex < size
      BY <1>n, <3>1
    <3> QED
      BY <1>f, <2>u, <3>1, <3>2, <3>3
  <2>4. CASE iteration_done
    BY <1>f, <2>4, <2>u DEF iteration_done, GiveTo
  <2> QED
    BY <1>5, <2>1, <2>2, <2>3, <2>4 DEF Step
<1> QED
  BY <1>1, <1>2, <1>3, <1>4, <1>5, <1>f, Zenon DEF Next

LEMMA RegisteredCalled ==
  ASSUME TypeOK, Position, NextRegistered, Next, NEW h \in Handlers, calls'[h] > calls[h]
  PROVE  h \in RegisteredHandlers
<1>t. calls \in [Handlers -> Nat]
  BY DEF TypeOK
<1>1. CASE clone \/ iteration_done
  <2>1. pc # "idle" /\ last \in Handlers \cup {NULL}
    BY <1>1 DEF clone, iteration_done, Position
  <2>2. \/ calls' = calls
        \/ last # NULL /\ calls' = [calls EXCEPT ![last] = @ + 1]
    BY <1>1, <2>1, ConstantsOK DEF clone, iteration_done, GiveTo
  <2>3. last = h
    BY <1>t, <2>1, <2>2
  <2> QED
    BY <2>1, <2>3, ConstantsOK DEF NextRegistered
<1>2. ASSUME NEW m \in Msgs, entry(m) PROVE FALSE
  <2>1. calls'[h] = 0 /\ calls[h] \in Nat
    BY <1>2, <1>t DEF entry
  <2> QED
    BY <2>1
<1>3. CASE iterate \/ allocate_and_clone \/ clone_done
  BY <1>3, <1>t DEF iterate, allocate_and_clone, clone_done, history
<1>4. ASSUME NEW g \in Handlers, NEW k \in Keys,
             register_handler(g, k) \/ unregister_handler(g, k)
      PROVE  FALSE
  BY <1>4, <1>t DEF register_handler, unregister_handler
<1>5. ASSUME NEW g \in Handlers, unregister_handler_all(g) PROVE FALSE
  BY <1>5, <1>t DEF unregister_handler_all
<1> QED
  BY <1>1, <1>2, <1>3, <1>4, <1>5, Zenon DEF Next, Step

\* No handler is called after it was removed, whatever unregister_handler and
\* register_handler do while the flow waits for a buffer, as long as nobody
\* uses unregister_handler_all meanwhile (dispatch_remove_all shows that the
\* condition is needed).
THEOREM DispatcherCalledWhileRegistered ==
  ASSUME "unregister_all" \notin MidOps
  PROVE  Spec => CalledWhileRegistered
<1> DEFINE CInv == TypeOK /\ Position /\ NextRegistered
           Quiet == \A h \in Handlers : calls'[h] > calls[h] => h \in RegisteredHandlers
<1>1. Init => CInv
  <2>1. Init => NextRegistered
    BY DEF Init, NextRegistered
  <2> QED
    BY <2>1, InitType
<1>2. CInv /\ [Next]_vars => CInv'
  <2>1. CInv /\ Next => CInv'
    BY TypeNext, RegisteredNext
  <2>2. CInv /\ UNCHANGED vars => CInv'
    BY TypeNext DEF vars, flow, registry, history, NextRegistered, RegisteredHandlers
  <2> QED
    BY <2>1, <2>2
<1>3. CInv /\ [Next]_vars => [Quiet]_calls
  <2>1. CInv /\ Next => Quiet
    BY RegisteredCalled
  <2>2. UNCHANGED vars => UNCHANGED calls
    BY DEF vars, history
  <2> QED
    BY <2>1, <2>2
<1> QED
  BY <1>1, <1>2, <1>3, PTL DEF Spec, CalledWhileRegistered

=============================================================================
