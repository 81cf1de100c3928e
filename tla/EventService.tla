---------------------------- MODULE EventService ----------------------------
(***************************************************************************)
(* The event service of a node: the registry of event handlers             *)
(* (openlcb/EventHandlerContainer and EventHandler) and the flows that     *)
(* call the matching handlers for an incoming message                      *)
(* (openlcb/EventService.cxx, EventServiceImpl.hxx).  All of them run on    *)
(* one executor, and so do the calls that change the registry: they come   *)
(* between two steps of the flows, or from inside a handler.               *)
(*                                                                         *)
(* A mask is represented by the number of events it covers: a block of b   *)
(* events is a range that begins at a multiple of b.                       *)
(***************************************************************************)
EXTENDS Integers, Sequences, FiniteSetsExt

CONSTANTS
  Blocks,         \* the sizes of aligned ranges: the powers of two
  IdSpace,        \* the number of event IDs, the largest block
  Registrations,  \* what may be registered: [handler, user_arg, event, size]
  InlineFlows,    \* InlineEventIteratorFlow of each interface
  IdentifyFlows,  \* EventIteratorFlow: identify events, global and addressed
  EventIds,       \* the event IDs in messages
  NoCall,         \* the step called no handler
  MaxChanges,     \* bound: changes of the registry
  MaxMessages     \* bound: incoming messages

Flows == InlineFlows \cup IdentifyFlows
Events == 0 .. IdSpace - 1

ASSUME BlocksAssumption ==
  /\ IdSpace \in Blocks
  /\ Blocks \subseteq Nat \ {0}
  /\ 1 \in Blocks
  /\ IdSpace # 1
  /\ \A b \in Blocks : b <= IdSpace

ASSUME RegistrationsAssumption ==
  \A r \in Registrations :
    r.event \in Events /\ r.size \in Nat /\ r.event + r.size <= IdSpace

ASSUME InputAssumption == EventIds \subseteq Events /\ InlineFlows \cap IdentifyFlows = {}

VARIABLES
  registry,      \* handlers_: what is registered
  dirtyCounter,  \* the epoch of the registry
  pc,            \* where a flow is: "idle" waits for a message, "queued" will
                 \* run iterate_next, "immediately" runs it now, "wait" waits
                 \* for a handler or for the caller flow
  eventReport,   \* the events the message of a flow is about
  todo,          \* iterator_: the registrations still to come
  epoch,         \* eventRegistryEpoch_ of a flow
  calls,         \* the queue of callerFlow_; the first one is being processed
  caller,        \* the state of callerFlow_: "idle", "wait", "call_done"
  busy,          \* the handlers that have not notified the done they got with
                 \* the report of a flow
  call,          \* history: the call that the last step made
  served,        \* history: registrations called for the report of a flow
  steady,        \* history: registrations there since the message came
  messages       \* how many messages have come

registryVars == <<registry, dirtyCounter, steady>>
flowVars == <<pc, eventReport, todo, epoch>>
callerVars == <<calls, caller>>
vars == <<registryVars, flowVars, callerVars, busy, call, served, messages>>

-----------------------------------------------------------------------------
(* Event ranges.                                                           *)

Round(e, b) == e - (e % b)

Reports == [event : Events, size : Blocks]

\* The blocks that align_mask() accepts for [e, e + n), and the one it takes.
Fitting(e, n) == {b \in Blocks : b >= n /\ (b = IdSpace \/ Round(e, b) + b >= e + n)}
AlignedSize(r) == IF r.size <= 1 THEN 1 ELSE Min(Fitting(r.event, r.size))
AlignedEvent(r) == Round(r.event, AlignedSize(r))

\* The trailing zeros or ones of e tell how long a range it stands for.
DecodeRange(e) ==
  LET up == IF e % 2 = 1 THEN e + 1 ELSE e
      b  == Max({c \in Blocks \ {IdSpace} : up % c = 0})
  IN  [event |-> Round(e, b), size |-> b]

\* setup_current_mask(): what lies between the lower and the upper bound.
Selects(rep, r) ==
  \/ AlignedSize(r) = IdSpace
  \/ /\ Round(rep.event, AlignedSize(r)) <= AlignedEvent(r)
     /\ AlignedEvent(r) <= rep.event + rep.size - 1

Selected(R, rep) == {r \in R : Selects(rep, r)}

\* next_entry(): by mask, then by event; equal events are in no given order.
Before(r, s) ==
  \/ AlignedSize(r) < AlignedSize(s)
  \/ AlignedSize(r) = AlignedSize(s) /\ AlignedEvent(r) < AlignedEvent(s)
Firsts(R) == {r \in R : \A s \in R : ~Before(s, r)}

-----------------------------------------------------------------------------
TypeOK ==
  /\ registry \subseteq Registrations
  /\ dirtyCounter \in Nat
  /\ pc \in [Flows -> {"idle", "queued", "immediately", "wait"}]
  /\ eventReport \in [Flows -> Reports]
  /\ todo \in [Flows -> SUBSET Registrations]
  /\ epoch \in [Flows -> Nat]
  /\ calls \in Seq([flow : IdentifyFlows, entry : Registrations, epoch : Nat])
  /\ caller \in {"idle", "wait", "call_done"}
  /\ busy \in [Flows -> SUBSET Registrations]
  /\ call \in [flow : Flows, entry : Registrations] \cup {NoCall}
  /\ served \in [Flows -> SUBSET Registrations]
  /\ steady \in [Flows -> SUBSET Registrations]
  /\ messages \in Nat

Init ==
  /\ registry \in SUBSET Registrations
  /\ dirtyCounter = 0
  /\ pc = [f \in Flows |-> "idle"]
  /\ eventReport = [f \in Flows |-> [event |-> 0, size |-> 1]]
  /\ todo = [f \in Flows |-> {}]
  /\ epoch = [f \in Flows |-> 0]
  /\ calls = <<>>
  /\ caller = "idle"
  /\ busy = [f \in Flows |-> {}]
  /\ call = NoCall
  /\ served = [f \in Flows |-> {}]
  /\ steady = [f \in Flows |-> {}]
  /\ messages = 0

-----------------------------------------------------------------------------
(* The registry.                                                           *)

Changed(R) ==
  /\ dirtyCounter < MaxChanges
  /\ dirtyCounter' = dirtyCounter + 1
  /\ registry' = R
  /\ steady' = [f \in Flows |-> steady[f] \cap R]

register_handler(r) == r \notin registry /\ Changed(registry \cup {r})

\* Removes all registrations of the handler, or those with the user argument.
unregister_handler(r, all) ==
  Changed({s \in registry : s.handler # r.handler \/ ~(all \/ s.user_arg = r.user_arg)})

Change == \E r \in Registrations :
            register_handler(r) \/ \E all \in BOOLEAN : unregister_handler(r, all)

\* Code on the executor changes the registry between two steps of the flows.
Other == \A f \in Flows : pc[f] # "immediately"

application ==
  /\ Other
  /\ Change
  /\ call' = NoCall
  /\ UNCHANGED <<flowVars, callerVars, busy, served, messages>>

-----------------------------------------------------------------------------
(* The flows.                                                              *)

\* A handler is called with the report of flow f; it may change the registry.
CallHandler(f, r) ==
  /\ call' = [flow |-> f, entry |-> r]
  /\ served' = [served EXCEPT ![f] = @ \cup {r}]
  /\ Change \/ UNCHANGED registryVars

\* EventIteratorFlow::entry() for a message about the events rep.
Begin(f, rep) ==
  /\ eventReport' = [eventReport EXCEPT ![f] = rep]
  /\ epoch' = [epoch EXCEPT ![f] = dirtyCounter]
  /\ todo' = [todo EXCEPT ![f] = Selected(registry, rep)]
  /\ pc' = [pc EXCEPT ![f] = "queued"]
  /\ served' = [served EXCEPT ![f] = {}]
  /\ steady' = [steady EXCEPT ![f] = registry]
  /\ UNCHANGED <<registry, dirtyCounter>>

\* A message without a valid event, an unknown destination or another MTI.
Refused == UNCHANGED <<registryVars, flowVars, served>>

entry(f) ==
  /\ Other
  /\ pc[f] = "idle"
  /\ messages < MaxMessages
  /\ messages' = messages + 1
  /\ \/ Refused
     \/ f \in InlineFlows /\ \E e \in EventIds : \/ Begin(f, [event |-> e, size |-> 1])
                                                 \/ Begin(f, DecodeRange(e))
     \/ f \in IdentifyFlows /\ Begin(f, [event |-> 0, size |-> IdSpace])
  /\ call' = NoCall
  /\ UNCHANGED <<callerVars, busy>>

\* dispatch_event() of an identify flow: the call is left to callerFlow_.
send_call(f, r) ==
  /\ calls' = Append(calls, [flow |-> f, entry |-> r, epoch |-> dirtyCounter])
  /\ pc' = [pc EXCEPT ![f] = "wait"]
  /\ call' = NoCall
  /\ UNCHANGED <<registryVars, caller, busy, served>>

\* A flow that does not wait for the handler.
call_inline_ahead(f, r) ==
  /\ CallHandler(f, r)
  /\ pc' = [pc EXCEPT ![f] = "immediately"]
  /\ busy' = [busy EXCEPT ![f] = {r}] \/ busy' = busy
  /\ UNCHANGED callerVars

\* dispatch_event() of an inline flow: the handler is called at once, and the
\* flow goes on when the handler has notified done before it returned.
call_inline(f, r) ==
  /\ CallHandler(f, r)
  /\ \/ pc' = [pc EXCEPT ![f] = "immediately"] /\ busy' = busy
     \/ /\ pc' = [pc EXCEPT ![f] = "wait"]
        /\ busy' = [busy EXCEPT ![f] = {r}]
  /\ UNCHANGED callerVars

\* An iterator that only leaves out what is gone when the registry has changed.
ToCome_kept(f) == todo[f] \cap registry

\* The iterator, started over when the registry has changed.
ToCome(f) ==
  IF epoch[f] # dirtyCounter THEN Selected(registry, eventReport[f]) ELSE todo[f]

iterate_next(f) ==
  /\ pc[f] = "immediately" \/ (pc[f] = "queued" /\ Other)
  /\ epoch' = [epoch EXCEPT ![f] = dirtyCounter]
  /\ \/ /\ ToCome(f) = {}
        /\ todo' = [todo EXCEPT ![f] = {}]
        /\ pc' = [pc EXCEPT ![f] = "idle"]
        /\ call' = NoCall
        /\ served' = [served EXCEPT ![f] = {}]
        /\ steady' = [steady EXCEPT ![f] = {}]
        /\ UNCHANGED <<registry, dirtyCounter, callerVars, busy>>
     \/ \E r \in Firsts(ToCome(f)) :
          /\ todo' = [todo EXCEPT ![f] = ToCome(f) \ {r}]
          /\ IF f \in InlineFlows THEN call_inline(f, r) ELSE send_call(f, r)
  /\ UNCHANGED <<eventReport, messages>>

\* A handler that an inline flow waits for notifies done.
handler_done(f) ==
  /\ Other
  /\ f \in InlineFlows
  /\ pc[f] = "wait"
  /\ pc' = [pc EXCEPT ![f] = "queued"]
  /\ busy' = [busy EXCEPT ![f] = {}]
  /\ call' = NoCall
  /\ UNCHANGED <<registryVars, eventReport, todo, epoch, callerVars, served, messages>>

\* EventCallerFlow::call_done(): the buffer is freed, its done is notified.
Release ==
  /\ calls' = Tail(calls)
  /\ pc' = [pc EXCEPT ![Head(calls).flow] = "queued"]
  /\ caller' = "idle"

\* A caller flow that does not look at the epoch.
caller_entry_unchecked ==
  /\ Other
  /\ caller = "idle"
  /\ calls # <<>>
  /\ LET c == Head(calls)
     IN  /\ CallHandler(c.flow, c.entry)
         /\ busy' = [busy EXCEPT ![c.flow] = @ \cup {c.entry}]
  /\ caller' = "wait"
  /\ UNCHANGED <<calls, pc, eventReport, todo, epoch, messages>>

\* One that ignores a stale call and keeps its buffer.
caller_entry_kept ==
  /\ Other
  /\ caller = "idle"
  /\ calls # <<>>
  /\ LET c == Head(calls)
     IN  IF c.epoch # dirtyCounter
         THEN /\ calls' = Tail(calls)
              /\ call' = NoCall
              /\ UNCHANGED <<registryVars, busy, served, caller, pc>>
         ELSE /\ CallHandler(c.flow, c.entry)
              /\ busy' = [busy EXCEPT ![c.flow] = @ \cup {c.entry}]
              /\ caller' = "wait"
              /\ UNCHANGED <<calls, pc>>
  /\ UNCHANGED <<eventReport, todo, epoch, messages>>

caller_entry ==
  /\ Other
  /\ caller = "idle"
  /\ calls # <<>>
  /\ LET c == Head(calls)
     IN  IF c.epoch # dirtyCounter
         THEN Release /\ call' = NoCall /\ UNCHANGED <<registryVars, busy, served>>
         ELSE /\ CallHandler(c.flow, c.entry)
              /\ busy' = [busy EXCEPT ![c.flow] = @ \cup {c.entry}]
              /\ caller' = "wait"
              /\ UNCHANGED <<calls, pc>>
  /\ UNCHANGED <<eventReport, todo, epoch, messages>>

caller_handler_done ==
  /\ Other
  /\ caller = "wait"
  /\ caller' = "call_done"
  /\ busy' = [busy EXCEPT ![Head(calls).flow] = {}]
  /\ call' = NoCall
  /\ UNCHANGED <<registryVars, flowVars, calls, served, messages>>

call_done ==
  /\ Other
  /\ caller = "call_done"
  /\ Release
  /\ call' = NoCall
  /\ UNCHANGED <<registryVars, eventReport, todo, epoch, busy, served, messages>>

-----------------------------------------------------------------------------
FlowStep(f) == iterate_next(f) \/ handler_done(f)
CallerStep == caller_entry \/ caller_handler_done \/ call_done

Next == application \/ CallerStep \/ \E f \in Flows : entry(f) \/ FlowStep(f)

Spec == Init /\ [][Next]_vars

\* The executor runs something that is queued, and handlers notify done, as they
\* must.
Fairness == WF_vars(CallerStep \/ \E f \in Flows : FlowStep(f))

FairSpec == Spec /\ Fairness

-----------------------------------------------------------------------------
(* Properties.                                                             *)

\* The events of the message of f meet the range that r was registered for.
Overlaps(rep, r) ==
  rep.event < r.event + r.size /\ r.event <= rep.event + rep.size - 1

\* ... or the aligned range that align_mask() made of it.
OverlapsAligned(rep, r) ==
  /\ rep.event <= AlignedEvent(r) + AlignedSize(r) - 1
  /\ AlignedEvent(r) <= rep.event + rep.size - 1

\* The epoch check before a call and at each step of an iteration keeps the
\* flows from an entry that is gone, whose memory may be reused: a handler is
\* called only while it is registered, for an entry that covers the event.
CalledLive ==
  [][call' # NoCall => /\ call'.entry \in registry
                       /\ OverlapsAligned(eventReport[call'.flow], call'.entry)]_vars

\* "Iterators are invalidated. We need to start over.": when a flow is done with
\* a message, every handler that was registered for one of its events when the
\* message came, and has stayed so, has been called for it, whatever else was
\* registered and unregistered on the way, by the handlers too.
AllServed ==
  [][\A f \in Flows : pc[f] # "idle" /\ pc'[f] = "idle" =>
       \A r \in steady[f] : Overlaps(eventReport[f], r) => r \in served[f]]_vars

\* The report of a flow and its write helpers "are always available at the
\* entry to an event handler function": one handler at a time has them, and
\* the flow goes to no other handler and no other message before it is done.
HelpersAvailable ==
  \A f \in Flows : busy[f] # {} => Cardinality(busy[f]) = 1 /\ pc[f] = "wait"

\* iterate_next() ends for every message, and the message is released, once
\* the registry no longer changes.
ProcessingEnds == \A f \in Flows : pc[f] # "idle" ~> pc[f] = "idle"
=============================================================================
