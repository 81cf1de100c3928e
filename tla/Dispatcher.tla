----------------------------- MODULE Dispatcher -----------------------------
(***************************************************************************)
(* DispatchFlow (executor/Dispatcher.hxx): one state flow that hands every *)
(* incoming message to all the handlers registered for it.  Handlers live  *)
(* in a vector of slots; the flow walks the vector, keeps the handler it   *)
(* found last in lastHandlerToCall_, and gives a clone of the message to   *)
(* it when it finds another one.  The clone needs a buffer, and while the  *)
(* flow waits for the buffer other code registers and unregisters.         *)
(*                                                                         *)
(* A registration key k stands for an (id, mask) pair together with        *)
(* negateMatch_: Match[k] is the set of message ids it selects.            *)
(***************************************************************************)
EXTENDS Integers, FiniteSets, FiniteSetsExt

CONSTANTS
    Handlers,      \* the flows that may be registered
    NULL,          \* the null handler pointer
    Keys,          \* (id, mask) pairs
    Match,         \* Match[k] = the message ids that key k selects
    Msgs,          \* message ids
    MaxSlots,      \* bound on the size of the handler vector
    MidOps,        \* the registration calls made while a message is dispatched
    MaxMid,        \* bound on the number of those calls per message
    MultiKey,      \* may a handler be registered under several keys?
    OnExecutor,    \* are the registration calls made on the executor's thread?
    fallbackHandler \* the fallback handler, or NULL

ASSUME ConstantsOK ==
    /\ NULL \notin Handlers
    /\ Match \in [Keys -> SUBSET Msgs]
    /\ MaxSlots \in Nat
    /\ MaxMid \in Nat
    /\ MidOps \subseteq {"register", "unregister", "unregister_all"}
    /\ MultiKey \in BOOLEAN
    /\ OnExecutor \in BOOLEAN
    /\ fallbackHandler \notin Handlers

VARIABLES
    slot,          \* the memory of handlers_, also past its current size
    size,          \* handlers_.size()
    currentIndex,  \* currentIndex_
    last,          \* lastHandlerToCall_
    pc,            \* the state of the flow
    msg,           \* the message being dispatched
    mid,           \* registration calls made during this dispatch
    calls,         \* calls[h]: how often h was given this message
    fell,          \* was this message given to the fallback handler?
    steady,        \* registrations in place since this dispatch began
    ever           \* ever[r]: times registration r was in place during it

flow == <<currentIndex, last, pc, msg>>
registry == <<slot, size>>
history == <<mid, calls, fell, steady, ever>>
vars == <<flow, registry, history>>

Slots == 0..(MaxSlots - 1)
Regs == Handlers \X Keys
SlotValue == [handler : Handlers \cup {NULL}, key : Keys]

\* The registrations in place.
Registered ==
    {r \in Regs : \E i \in Slots :
        i < size /\ slot[i].handler = r[1] /\ slot[i].key = r[2]}

RegisteredHandlers ==
    {h \in Handlers : \E i \in Slots : i < size /\ slot[i].handler = h}

Matching(k) == msg \in Match[k]

Least(S) == CHOOSE i \in S : \A j \in S : i <= j

Init ==
    /\ slot \in [Slots -> {[handler |-> NULL, key |-> k] : k \in Keys}]
    /\ \A i, j \in Slots : slot[i] = slot[j]
    /\ size = 0
    /\ currentIndex = 0
    /\ last = NULL
    /\ pc = "idle"
    /\ msg \in Msgs
    /\ mid = 0
    /\ calls = [h \in Handlers |-> 0]
    /\ fell = FALSE
    /\ steady = {}
    /\ ever = [r \in Regs |-> 0]

-----------------------------------------------------------------------------
(* Registration calls.  On the executor's thread they run only where the   *)
(* flow has returned to the executor (idle, or waiting for a buffer), or   *)
(* inside the send() of a handler that runs inline.  Other threads make    *)
(* them between any two sections that hold lock_.                          *)

MayCall(op) ==
    \/ pc = "idle"
    \/ /\ op \in MidOps
       /\ mid < MaxMid
       /\ OnExecutor => pc \in {"clone", "sent"}

CountCall == mid' = IF pc = "idle" THEN mid ELSE mid + 1

\* The vector grows by one when no slot is free.
FreeSlot(i) ==
    /\ i <= size
    /\ i < size => slot[i].handler = NULL
    /\ \A j \in Slots : j < i => slot[j].handler # NULL

register_handler(h, k) ==
    /\ MayCall("register")
    /\ <<h, k>> \notin Registered
    /\ ~MultiKey => h \notin RegisteredHandlers
    /\ \E i \in Slots :
        /\ FreeSlot(i)
        /\ slot' = [slot EXCEPT ![i] = [handler |-> h, key |-> k]]
        /\ size' = IF i < size THEN size ELSE i + 1
    /\ CountCall
    /\ ever' = IF pc = "idle" THEN ever ELSE [ever EXCEPT ![<<h, k>>] = @ + 1]
    /\ UNCHANGED <<flow, calls, fell, steady>>

unregister_handler_keeps_last(h, k) ==
    /\ MayCall("unregister")
    /\ \E i \in Slots :
        /\ i < size
        /\ slot[i].handler = h /\ slot[i].key = k
        /\ slot' = [slot EXCEPT ![i].handler = NULL]
        /\ size' = IF i = size - 1 THEN size - 1 ELSE size
    /\ CountCall
    /\ steady' = IF pc = "idle" THEN steady ELSE steady \ {<<h, k>>}
    /\ UNCHANGED <<flow, calls, fell, ever>>

\* Only the last slot is given up, even when the one before it is free too.
unregister_handler(h, k) ==
    /\ MayCall("unregister")
    /\ \E i \in Slots :
        /\ i < size
        /\ slot[i].handler = h /\ slot[i].key = k
        /\ \A j \in Slots : j < i => ~(slot[j].handler = h /\ slot[j].key = k)
        /\ slot' = [slot EXCEPT ![i].handler = NULL]
        /\ size' = IF i = size - 1 THEN size - 1 ELSE size
    /\ last' = IF last = h THEN NULL ELSE last
    /\ CountCall
    /\ steady' = IF pc = "idle" THEN steady ELSE steady \ {<<h, k>>}
    /\ UNCHANGED <<currentIndex, pc, msg, calls, fell, ever>>

\* All free slots at the end are given up; lastHandlerToCall_ is left alone.
unregister_handler_all(h) ==
    /\ MayCall("unregister_all")
    /\ slot' = [i \in Slots |->
                    IF i < size /\ slot[i].handler = h
                    THEN [slot[i] EXCEPT !.handler = NULL] ELSE slot[i]]
    /\ size' \in 0..size
    /\ \A i \in Slots : size' <= i /\ i < size => slot'[i].handler = NULL
    /\ size' > 0 => slot'[size' - 1].handler # NULL
    /\ CountCall
    /\ steady' = IF pc = "idle" THEN steady ELSE {r \in steady : r[1] # h}
    /\ UNCHANGED <<flow, calls, fell, ever>>

-----------------------------------------------------------------------------
(* The flow.                                                               *)

\* A message arrives from the queue of the flow.
entry(m) ==
    /\ pc = "idle"
    /\ msg' = m
    /\ currentIndex' = 0
    /\ last' = NULL
    /\ pc' = "iterate"
    /\ mid' = 0
    /\ calls' = [h \in Handlers |-> 0]
    /\ fell' = FALSE
    /\ steady' = Registered
    /\ ever' = [r \in Regs |-> IF r \in Registered THEN 1 ELSE 0]
    /\ UNCHANGED registry

\* The slots the loop of iterate() does not skip, from index i on.
Selected(i) ==
    {j \in Slots : i <= j /\ j < size /\ slot[j].handler # NULL
                   /\ Matching(slot[j].key)}

\* Where the loop stops when the slots it stops at are S.
StopsAt(S) ==
    IF S # {} THEN Least(S)
    ELSE IF currentIndex < size THEN size ELSE currentIndex

\* A loop that does not break at the second match.
iterate_to_end ==
    /\ pc = "iterate"
    /\ LET S == Selected(currentIndex)
       IN  IF last = NULL /\ S # {}
           THEN /\ last' = slot[Least(S)].handler
                /\ currentIndex' = size
           ELSE /\ last' = last
                /\ currentIndex' = StopsAt(S)
    /\ pc' = "iterated"
    /\ UNCHANGED <<msg, registry, history>>

\* The loop of iterate(), which holds lock_.
iterate ==
    /\ pc = "iterate"
    /\ LET S == Selected(currentIndex)
       IN  IF last = NULL /\ S # {}
           THEN /\ last' = slot[Least(S)].handler
                /\ currentIndex' = StopsAt(S \ {Least(S)})
           ELSE /\ last' = last
                /\ currentIndex' = StopsAt(S)
    /\ pc' = "iterated"
    /\ UNCHANGED <<msg, registry, history>>

\* iterate() after the lock, and allocate_and_clone().
allocate_and_clone ==
    /\ pc = "iterated"
    /\ pc' = IF currentIndex >= size THEN "done"
             ELSE IF last = NULL THEN "clone_done" ELSE "clone"
    /\ UNCHANGED <<currentIndex, last, msg, registry, history>>

\* A clone that asks for a buffer again when the handler is gone.
clone_again ==
    /\ pc = "clone"
    /\ pc' = IF last = NULL THEN "clone" ELSE "sent"
    /\ calls' = IF last = NULL THEN calls ELSE [calls EXCEPT ![last] = @ + 1]
    /\ UNCHANGED <<currentIndex, last, msg, registry, mid, fell, steady, ever>>

\* The buffer arrives.  The handler may have been unregistered meanwhile.
clone ==
    /\ pc = "clone"
    /\ IF last = NULL
       THEN /\ pc' = "clone_done"
            /\ UNCHANGED calls
       ELSE /\ pc' = "sent"
            /\ calls' = [calls EXCEPT ![last] = @ + 1]
    /\ UNCHANGED <<currentIndex, last, msg, registry, mid, fell, steady, ever>>

\* handlers_[currentIndex_] may be past the end of the vector by now: the
\* read then finds what the slot held when it was given up.
clone_done ==
    /\ pc \in {"clone_done", "sent"}
    /\ last' = slot[currentIndex].handler
    /\ currentIndex' = currentIndex + 1
    /\ pc' = "iterate"
    /\ UNCHANGED <<msg, registry, history>>

\* The message itself goes to the last handler, or to the fallback handler.
GiveTo(h) ==
    /\ calls' = IF h \in Handlers THEN [calls EXCEPT ![h] = @ + 1] ELSE calls
    /\ fell' = (h # NULL /\ h \notin Handlers)
    /\ last' = h
    /\ pc' = "idle"
    /\ UNCHANGED <<currentIndex, msg, registry, mid, steady, ever>>

iteration_done ==
    /\ pc = "done"
    /\ GiveTo(IF last # NULL THEN last ELSE fallbackHandler)

-----------------------------------------------------------------------------
Step == iterate \/ allocate_and_clone \/ clone \/ clone_done \/ iteration_done

Next ==
    \/ \E m \in Msgs : entry(m)
    \/ Step
    \/ \E h \in Handlers, k \in Keys : register_handler(h, k)
    \/ \E h \in Handlers, k \in Keys : unregister_handler(h, k)
    \/ \E h \in Handlers : unregister_handler_all(h)

Spec == Init /\ [][Next]_vars

\* The executor runs a flow that is ready, and the pool of a handler hands
\* out a buffer in the end (FlowInterface::alloc_async).
FairSpec == Spec /\ WF_vars(Step)

-----------------------------------------------------------------------------
TypeOK ==
    /\ slot \in [Slots -> SlotValue]
    /\ size \in 0..MaxSlots
    /\ currentIndex \in 0..MaxSlots
    /\ last \in Handlers \cup {NULL, fallbackHandler}
    /\ pc \in {"idle", "iterate", "iterated", "clone", "sent", "clone_done",
               "done"}
    /\ msg \in Msgs
    /\ mid \in 0..MaxMid
    /\ calls \in [Handlers -> Nat]
    /\ fell \in BOOLEAN
    /\ steady \subseteq Regs
    /\ ever \in [Regs -> Nat]

\* "When a message shows up, all the Flows that match that message will be
\* invoked" (Dispatcher.hxx:44): when a dispatch ends, every handler with a
\* matching registration that was in place all along has been given the
\* message, whatever was registered or unregistered while the flow waited.
AllMatchingCalled ==
    pc = "idle" => \A r \in steady : Matching(r[2]) => calls[r[1]] >= 1

\* "A handler will be called if incoming_id & mask == id & mask"
\* (Dispatcher.hxx:77): a handler is given the message at most once for each
\* matching registration it had during the dispatch, and not at all without.
OnlyMatchingCalled ==
    \A h \in Handlers :
        calls[h] <= MapThenSumSet(LAMBDA r : ever[r],
                        {r \in Regs : r[1] = h /\ Matching(r[2])})

\* "It must stay alive so long as *this is alive or the handler is removed"
\* (Dispatcher.hxx:84): a removed handler may be gone, so every call is of a
\* handler that is registered when the call is made.
CalledWhileRegistered ==
    [][\A h \in Handlers : calls'[h] > calls[h] => h \in RegisteredHandlers]_calls

\* "Sets one handler to receive all messages that no other handler has
\* matched" (Dispatcher.hxx:101): the fallback handler never gets a message
\* that a registered handler was given too.
FallbackOnlyUnmatched ==
    fell => \A h \in Handlers : calls[h] = 0

\* Every message taken from the queue is dispatched to the end: the walk over
\* the slots makes progress although slots come and go under it.
DispatchEnds == pc # "idle" ~> pc = "idle"
=============================================================================
