------------------------- MODULE EventServiceProofs -------------------------
(* Proofs about the event service, for any numbers of events, flows,       *)
(* registrations, changes and messages.                                    *)
EXTENDS EventService, TLAPS, FiniteSetTheorems, WellFoundedInduction

-----------------------------------------------------------------------------
(* Event ranges.                                                           *)

\* A set of naturals has a least element.
LEMMA LeastElement ==
  ASSUME NEW S, S \subseteq Nat, S # {}
  PROVE  \E x \in S : \A y \in S : x <= y
  <1>1. PICK x \in S : \A y \in S : ~(<<y, x>> \in OpToRel(<, Nat))
    BY NatLessThanWellFounded, WFMin, Zenon
  <1>2. \A y \in S : ~(y < x)
    BY <1>1, Zenon DEF OpToRel
  <1> QED BY <1>2

\* Min() of align_mask() is one of the blocks that fit.
LEMMA MinMember ==
  ASSUME NEW S, S \subseteq Nat, S # {}
  PROVE  Min(S) \in S
  BY LeastElement, Zenon DEF Min

\* Max() of DecodeRange() is a block, since all blocks are bounded.
LEMMA MaxMember ==
  ASSUME NEW S, NEW n \in Nat, S \subseteq 0 .. n, S # {}
  PROVE  Max(S) \in S
  <1> DEFINE T == {n - x : x \in S}
  <1>a. \A x \in S : x \in Nat /\ x <= n /\ n - x \in Nat
    OBVIOUS
  <1>b. T \subseteq Nat
    BY <1>a, Zenon
  <1>1. T # {}
    BY Zenon
  <1>2. PICK t \in T : \A u \in T : t <= u
    BY <1>b, <1>1, LeastElement, Zenon
  <1>3. PICK x \in S : t = n - x
    BY Zenon
  <1>4. \A y \in S : x >= y
    <2> SUFFICES ASSUME NEW y \in S PROVE x >= y
      BY Zenon
    <2>1. n - y \in T
      BY Zenon
    <2>2. n - x <= n - y
      BY <1>2, <1>3, <2>1, Zenon
    <2> QED BY <1>a, <2>2
  <1> QED BY <1>4, Zenon DEF Max

\* What rounding an event down to a block does.
LEMMA Rounded ==
  ASSUME NEW e \in Nat, NEW b \in Nat \ {0}
  PROVE  /\ Round(e, b) \in Nat
         /\ Round(e, b) <= e
         /\ e <= Round(e, b) + b - 1
         /\ \E q \in Nat : Round(e, b) = b * q
  <1>1. e = b * (e \div b) + (e % b) /\ e \div b \in Nat /\ e % b \in 0 .. b - 1
    BY Z3
  <1>2. Round(e, b) = b * (e \div b)
    BY <1>1, SMTT(30) DEF Round
  <1>3. Round(e, b) = e - (e % b)
    BY Zenon DEF Round
  <1>4. Round(e, b) \in Nat /\ Round(e, b) <= e /\ e <= Round(e, b) + b - 1
    <2> DEFINE m == e % b
               d == Round(e, b)
    <2>1. d = e - m /\ m \in 0 .. b - 1
      BY <1>1, <1>3, Zenon
    <2>2. d >= 0
      <3>1. b * (e \div b) >= 0
        BY <1>1, SMTT(30)
      <3> QED BY <1>2, <3>1, Zenon
    <2> HIDE DEF m, d
    <2>3. d \in Nat /\ d <= e /\ e <= d + b - 1
      BY <2>1, <2>2
    <2> QED BY <2>3, Zenon DEF d
  <1> QED BY <1>1, <1>2, <1>4, Zenon

\* A multiple of b less than b below another one is not below it.
LEMMA Multiples ==
  ASSUME NEW b \in Nat \ {0}, NEW p \in Nat, NEW q \in Nat, b * q <= b * p + b - 1
  PROVE  b * q <= b * p
  <1>1. CASE q <= p
    BY <1>1, SMTT(30)
  <1>2. CASE q >= p + 1
    <2>1. b * q >= b * (p + 1)
      BY <1>2, SMTT(30)
    <2>2. b * (p + 1) = b * p + b
      BY SMTT(30)
    <2> QED BY <2>1, <2>2, SMTT(30)
  <1> QED BY <1>1, <1>2

\* What align_mask() makes of a registration.
LEMMA Aligned ==
  ASSUME NEW r \in Registrations
  PROVE  /\ AlignedSize(r) \in Blocks
         /\ AlignedEvent(r) \in Nat
         /\ AlignedEvent(r) <= r.event
         /\ AlignedSize(r) = IdSpace \/ r.event + r.size <= AlignedEvent(r) + AlignedSize(r)
         /\ \E q \in Nat : AlignedEvent(r) = AlignedSize(r) * q
  <1>1. r.event \in Nat /\ r.size \in Nat /\ r.event + r.size <= IdSpace
    BY RegistrationsAssumption, BlocksAssumption DEF Events
  <1>2. CASE r.size <= 1
    <2>1. AlignedSize(r) = 1 /\ 1 \in Blocks
      BY <1>2, BlocksAssumption, Zenon DEF AlignedSize
    <2>2. /\ AlignedEvent(r) \in Nat /\ AlignedEvent(r) <= r.event
          /\ r.event <= AlignedEvent(r) + 1 - 1
          /\ \E q \in Nat : AlignedEvent(r) = 1 * q
      BY <1>1, <2>1, Rounded, 1 \in Nat \ {0}, ZenonT(60) DEF AlignedEvent
    <2>3. r.event + r.size <= AlignedEvent(r) + 1
      BY <1>1, <1>2, <2>2
    <2> QED BY <2>1, <2>2, <2>3, Zenon
  <1>3. CASE ~(r.size <= 1)
    <2>1. IdSpace \in Fitting(r.event, r.size)
      BY <1>1, BlocksAssumption DEF Fitting
    <2>2. Fitting(r.event, r.size) \subseteq Nat
      BY BlocksAssumption, Zenon DEF Fitting
    <2>3. AlignedSize(r) \in Fitting(r.event, r.size)
      BY <1>3, <2>1, <2>2, MinMember, Zenon DEF AlignedSize
    <2>4. /\ AlignedSize(r) \in Blocks
          /\ AlignedSize(r) = IdSpace
             \/ Round(r.event, AlignedSize(r)) + AlignedSize(r) >= r.event + r.size
      BY <2>3, Zenon DEF Fitting
    <2>5. AlignedSize(r) \in Nat \ {0}
      BY <2>4, BlocksAssumption, Zenon
    <2> QED BY <1>1, <2>4, <2>5, Rounded, Zenon DEF AlignedEvent
  <1> QED BY <1>2, <1>3, Zenon

\* The values in a message and in a registration.
LEMMA Values ==
  /\ IdSpace \in Nat \ {0}
  /\ \A rep \in Reports : /\ rep.event \in Nat /\ rep.event <= IdSpace - 1
                          /\ rep.size \in Nat \ {0}
  /\ \A r \in Registrations : /\ r.event \in Nat /\ r.event <= IdSpace - 1
                               /\ r.size \in Nat
  <1>1. IdSpace \in Nat \ {0}
    BY BlocksAssumption, Zenon
  <1>2. ASSUME NEW rep \in Reports
        PROVE  rep.event \in Events /\ rep.size \in Blocks
    BY Zenon DEF Reports
  <1>3. Blocks \subseteq Nat \ {0}
    BY BlocksAssumption, Zenon
  <1>4. \A e \in Events : e \in Nat /\ e <= IdSpace - 1
    BY <1>1 DEF Events
  <1> QED BY <1>1, <1>2, <1>3, <1>4, RegistrationsAssumption, Zenon

\* The lookup finds every registration that a message is about.
LEMMA SelectsAll ==
  ASSUME NEW r \in Registrations, NEW rep \in Reports, Overlaps(rep, r)
  PROVE  Selects(rep, r)
  <1> DEFINE b == AlignedSize(r)
             a == AlignedEvent(r)
  <1>1. rep.event \in Nat /\ rep.size \in Nat /\ r.event \in Nat /\ r.size \in Nat
    BY Values, Zenon
  <1>2. b \in Nat \ {0} /\ a \in Nat /\ a <= r.event
    BY Aligned, BlocksAssumption, Zenon
  <1>3. CASE b = IdSpace
    BY <1>3, Zenon DEF Selects
  <1>4. CASE b # IdSpace
    <2>1. r.event + r.size <= a + b
      BY <1>4, Aligned, Zenon
    <2>2. PICK p \in Nat : a = b * p
      BY Aligned, Zenon
    <2>3. PICK q \in Nat : Round(rep.event, b) = b * q
      BY <1>1, <1>2, Rounded, Zenon
    <2>4. Round(rep.event, b) \in Nat /\ Round(rep.event, b) <= rep.event
      BY <1>1, <1>2, Rounded, Zenon
    <2>5. rep.event < r.event + r.size /\ r.event <= rep.event + rep.size - 1
      BY Zenon DEF Overlaps
    <2>6. Round(rep.event, b) <= a + b - 1
      BY <1>1, <1>2, <2>1, <2>4, <2>5
    <2>7. Round(rep.event, b) <= a
      BY <1>2, <2>2, <2>3, <2>6, Multiples, Zenon
    <2>8. a <= rep.event + rep.size - 1
      BY <1>1, <1>2, <2>5
    <2> QED BY <2>7, <2>8, Zenon DEF Selects
  <1> QED BY <1>3, <1>4, Zenon

\* The lookup finds no registration whose aligned range the message misses.
LEMMA SelectsOnly ==
  ASSUME NEW r \in Registrations, NEW rep \in Reports, Selects(rep, r)
  PROVE  OverlapsAligned(rep, r)
  <1> DEFINE b == AlignedSize(r)
             a == AlignedEvent(r)
  <1>1. /\ rep.event \in Nat /\ rep.size \in Nat \ {0} /\ rep.event <= IdSpace - 1
        /\ IdSpace \in Nat \ {0} /\ r.event \in Nat /\ r.event <= IdSpace - 1
    BY Values, Zenon
  <1>2. b \in Nat \ {0} /\ a \in Nat /\ a <= r.event
    BY Aligned, BlocksAssumption
  <1>3. CASE b = IdSpace
    <2>1. PICK q \in Nat : a = b * q
      BY Aligned
    <2>2. 0 * b = 0 /\ b * 0 = 0 /\ b * 1 = b
      BY <1>2
    <2>3. q = 0
      <3> SUFFICES ASSUME q >= 1 PROVE FALSE
        OBVIOUS
      <3>1. b * q >= b
        BY <1>2, SMTT(30)
      <3> QED BY <1>1, <1>2, <1>3, <2>1, <3>1
    <2>4. a = 0
      BY <2>1, <2>2, <2>3, Zenon
    <2> QED BY <1>1, <1>3, <2>4 DEF OverlapsAligned
  <1>4. CASE b # IdSpace
    <2>1. Round(rep.event, b) <= a /\ a <= rep.event + rep.size - 1
      BY <1>4, Zenon DEF Selects
    <2>2. Round(rep.event, b) \in Nat /\ rep.event <= Round(rep.event, b) + b - 1
      BY <1>1, <1>2, Rounded, Zenon
    <2>3. rep.event <= a + b - 1
      BY <1>1, <1>2, <2>1, <2>2
    <2> QED BY <2>1, <2>3, Zenon DEF OverlapsAligned
  <1> QED BY <1>3, <1>4, Zenon

\* DecodeRange() yields a range of events.
LEMMA Decoded ==
  ASSUME NEW e \in Events
  PROVE  DecodeRange(e) \in Reports
  <1> DEFINE up == IF e % 2 = 1 THEN e + 1 ELSE e
             S  == {c \in Blocks \ {IdSpace} : up % c = 0}
             b  == Max(S)
  <1>1. e \in Nat /\ e <= IdSpace - 1 /\ IdSpace \in Nat
    BY Values DEF Events
  <1>2. up \in Nat
    BY <1>1
  <1>3. 1 \in S
    <2>1. up % 1 = 0
      BY <1>2
    <2> QED BY <2>1, BlocksAssumption, Zenon
  <1>4. S \subseteq 0 .. IdSpace
    <2>1. \A c \in Blocks : c \in Nat /\ c <= IdSpace
      BY BlocksAssumption, Zenon
    <2> QED BY <1>1, <2>1
  <1>5. b \in S
    <2> HIDE DEF S
    <2> QED BY <1>1, <1>3, <1>4, MaxMember, Zenon
  <1>6. b \in Blocks /\ b \in Nat \ {0}
    BY <1>5, BlocksAssumption, Zenon
  <1>7. DecodeRange(e) = [event |-> Round(e, b), size |-> b]
    BY Zenon DEF DecodeRange
  <1> HIDE DEF b
  <1>8. Round(e, b) \in Nat /\ Round(e, b) <= e
    BY <1>1, <1>6, Rounded, Zenon
  <1>9. Round(e, b) \in Events
    BY <1>1, <1>8 DEF Events
  <1> QED BY <1>6, <1>7, <1>9 DEF Reports

-----------------------------------------------------------------------------
(* The inductive invariant.                                                *)

\* The flow of the call at place i of the queue.
Caller(i) == calls[i].flow

\* A call in the queue belongs to a flow that waits for it and for no other,
\* and was made in the epoch of that flow's iteration.
Queued ==
  /\ \A i \in DOMAIN calls : pc[Caller(i)] = "wait" /\ calls[i].epoch = epoch[Caller(i)]
  /\ \A i, j \in DOMAIN calls : Caller(i) = Caller(j) => i = j

\* As long as the registry is as the flow has found it, a registration for the
\* message has been called, is still to come, or is in the queue ...
Complete ==
  \A f \in Flows : pc[f] # "idle" /\ epoch[f] = dirtyCounter =>
    \A r \in registry : Selects(eventReport[f], r) =>
      \/ r \in served[f]
      \/ r \in todo[f]
      \/ \E i \in DOMAIN calls : Caller(i) = f /\ calls[i].entry = r

\* ... and what is to come or in the queue is registered and for the message.
Live ==
  /\ \A f \in Flows : pc[f] # "idle" /\ epoch[f] = dirtyCounter =>
       todo[f] \subseteq Selected(registry, eventReport[f])
  /\ \A i \in DOMAIN calls : calls[i].epoch = dirtyCounter =>
       calls[i].entry \in Selected(registry, eventReport[Caller(i)])

\* The caller flow has made the first call of the queue while it waits.
Calling ==
  caller # "idle" => calls # <<>> /\ calls[1].entry \in served[Caller(1)]

\* Who has the report of a flow: the handler the flow waits for.
Lent ==
  /\ \A f \in InlineFlows : busy[f] # {} =>
       pc[f] = "wait" /\ \E r \in Registrations : busy[f] = {r}
  /\ \A f \in IdentifyFlows : busy[f] # {} =>
       caller = "wait" /\ Caller(1) = f /\ busy[f] = {calls[1].entry}

Past == \A f \in Flows : epoch[f] <= dirtyCounter
Steady == \A f \in Flows : steady[f] \subseteq registry

IInv ==
  /\ TypeOK
  /\ Past
  /\ Steady
  /\ Queued
  /\ Complete
  /\ Live
  /\ Calling
  /\ Lent

-----------------------------------------------------------------------------
(* Lemmas about the steps.                                                 *)

\* What a handler or the application may do to the registry.
LEMMA RegistryStep ==
  ASSUME TypeOK, \A f \in Flows : steady[f] \subseteq registry,
         Change \/ UNCHANGED registryVars
  PROVE  /\ registry' \subseteq Registrations
         /\ dirtyCounter' \in Nat
         /\ steady' \in [Flows -> SUBSET Registrations]
         /\ \A f \in Flows : steady'[f] \subseteq registry'
         /\ dirtyCounter' = dirtyCounter => registry' = registry
         /\ dirtyCounter' >= dirtyCounter
  <1>1. registry \subseteq Registrations /\ dirtyCounter \in Nat
        /\ steady \in [Flows -> SUBSET Registrations]
    BY Zenon DEF TypeOK
  <1>2. CASE UNCHANGED registryVars
    BY <1>1, <1>2 DEF registryVars
  <1>3. CASE Change
    <2>1. PICK R \in SUBSET Registrations : Changed(R)
      <3>1. PICK r \in Registrations :
              register_handler(r) \/ \E all \in BOOLEAN : unregister_handler(r, all)
        BY <1>3, Zenon DEF Change
      <3>2. CASE register_handler(r)
        BY <1>1, <3>2, Zenon DEF register_handler
      <3>3. CASE \E all \in BOOLEAN : unregister_handler(r, all)
        BY <1>1, <3>3, Zenon DEF unregister_handler
      <3> QED BY <3>1, <3>2, <3>3, Zenon
    <2>2. /\ dirtyCounter' = dirtyCounter + 1 /\ registry' = R
          /\ steady' = [f \in Flows |-> steady[f] \cap R]
      BY <2>1, Zenon DEF Changed
    <2> QED BY <1>1, <2>2
  <1> QED BY <1>2, <1>3, Zenon

\* The calls in the queue come from identify flows.
LEMMA CallFields ==
  ASSUME TypeOK
  PROVE  \A i \in DOMAIN calls : /\ Caller(i) \in IdentifyFlows /\ Caller(i) \in Flows
                                 /\ calls[i].entry \in Registrations
  <1> DEFINE C == [flow : IdentifyFlows, entry : Registrations, epoch : Nat]
  <1>1. calls \in Seq(C)
    BY Zenon DEF TypeOK
  <1>2. \A c \in C : c.flow \in IdentifyFlows /\ c.entry \in Registrations
    BY Zenon
  <1> HIDE DEF C
  <1>3. \A i \in DOMAIN calls : calls[i] \in C
    BY <1>1
  <1> QED BY <1>2, <1>3, Zenon DEF Caller, Flows

\* The calls that are left when the first one is done.
LEMMA TailCalls ==
  ASSUME TypeOK, calls # <<>>, calls' = Tail(calls)
  PROVE  /\ calls' \in Seq([flow : IdentifyFlows, entry : Registrations, epoch : Nat])
         /\ 1 \in DOMAIN calls /\ Head(calls) = calls[1]
         /\ \A i \in DOMAIN calls' : /\ i \in Nat /\ i + 1 \in DOMAIN calls /\ i + 1 # 1
                                    /\ calls'[i] = calls[i + 1]
         /\ \A i \in DOMAIN calls : i # 1 => /\ i - 1 \in DOMAIN calls'
                                           /\ calls'[i - 1] = calls[i]
         /\ Caller(1) \in IdentifyFlows /\ calls[1].entry \in Registrations
  <1> DEFINE C == [flow : IdentifyFlows, entry : Registrations, epoch : Nat]
  <1>1. calls \in Seq(C)
    BY Zenon DEF TypeOK
  <1> HIDE DEF C
  <1>2. /\ calls' \in Seq(C) /\ 1 \in DOMAIN calls /\ Head(calls) = calls[1]
        /\ DOMAIN calls = 1 .. Len(calls) /\ DOMAIN calls' = 1 .. Len(calls) - 1
        /\ Len(calls) \in Nat
    BY <1>1
  <1>3. \A i \in DOMAIN calls' : calls'[i] = calls[i + 1]
    BY <1>1, <1>2
  <1>4. calls[1] \in C
    BY <1>1, <1>2
  <1>5. \A i \in DOMAIN calls' : i \in Nat /\ i + 1 \in DOMAIN calls /\ i + 1 # 1
    BY <1>2
  <1>6. \A i \in DOMAIN calls : i # 1 => i - 1 \in DOMAIN calls' /\ (i - 1) + 1 = i
    BY <1>2
  <1> QED BY <1>2, <1>3, <1>4, <1>5, <1>6, Zenon DEF C, Caller

\* The calls with one more.
LEMMA MoreCalls ==
  ASSUME TypeOK, NEW c \in [flow : IdentifyFlows, entry : Registrations, epoch : Nat],
         calls' = Append(calls, c)
  PROVE  /\ calls' \in Seq([flow : IdentifyFlows, entry : Registrations, epoch : Nat])
         /\ \A i \in DOMAIN calls : i \in DOMAIN calls' /\ calls'[i] = calls[i]
         /\ \A i \in DOMAIN calls' : i \in DOMAIN calls \/ calls'[i] = c
         /\ \A i, j \in DOMAIN calls' : i \notin DOMAIN calls /\ j \notin DOMAIN calls => i = j
         /\ \E i \in DOMAIN calls' : i \notin DOMAIN calls /\ calls'[i] = c
         /\ calls' # <<>>
         /\ calls # <<>> => calls'[1] = calls[1]
  <1> DEFINE C == [flow : IdentifyFlows, entry : Registrations, epoch : Nat]
             n == Len(calls)
  <1>1. calls \in Seq(C) /\ c \in C
    BY Zenon DEF TypeOK
  <1> HIDE DEF C
  <1>2. /\ calls' \in Seq(C) /\ n \in Nat /\ DOMAIN calls = 1 .. n
        /\ DOMAIN calls' = 1 .. n + 1 /\ Len(calls') = n + 1
    BY <1>1
  <1>3. \A i \in 1 .. n : calls'[i] = calls[i]
    BY <1>1, <1>2
  <1>4. calls'[n + 1] = c
    BY <1>1, <1>2
  <1>5. calls' # <<>> /\ (calls # <<>> => 1 \in 1 .. n)
    BY <1>1, <1>2
  <1> HIDE DEF n
  <1> QED BY <1>2, <1>3, <1>4, <1>5 DEF C

-----------------------------------------------------------------------------
(* Every action preserves the invariant.                                   *)

\* The application changes the registry: every iteration is in a past epoch.
LEMMA ApplicationStep ==
  ASSUME IInv, application
  PROVE  IInv'
  <1>1. Change /\ UNCHANGED <<pc, eventReport, todo, epoch, calls, caller, busy, served, messages>>
        /\ call' = NoCall
    BY Zenon DEF application, flowVars, callerVars
  <1>2. /\ registry' \subseteq Registrations /\ dirtyCounter' \in Nat
        /\ steady' \in [Flows -> SUBSET Registrations]
        /\ \A f \in Flows : steady'[f] \subseteq registry'
        /\ dirtyCounter' = dirtyCounter => registry' = registry
        /\ dirtyCounter' >= dirtyCounter
    BY <1>1, RegistryStep, Zenon DEF IInv, Steady
  <1>3. \A f \in Flows : epoch[f] \in Nat /\ epoch[f] <= dirtyCounter
    BY Zenon DEF IInv, TypeOK, Past
  <1>4. dirtyCounter \in Nat
    BY Zenon DEF IInv, TypeOK
  <1>5. TypeOK'
    BY <1>1, <1>2, Zenon DEF IInv, TypeOK
  <1>6. Past' /\ Steady'
    BY <1>1, <1>2, <1>3, <1>4 DEF Past, Steady
  <1>7. Queued' /\ Calling' /\ Lent'
    BY <1>1, Zenon DEF IInv, Queued, Calling, Lent, Caller
  <1>8. \A f \in Flows : epoch[f] = dirtyCounter' => dirtyCounter' = dirtyCounter
    BY <1>2, <1>3, <1>4
  <1>9. Complete'
    BY <1>1, <1>2, <1>8 DEF IInv, Complete, Caller
  <1>10. \A i \in DOMAIN calls : Caller(i) \in Flows /\ calls[i].epoch = epoch[Caller(i)]
    BY CallFields, Zenon DEF IInv, Queued
  <1>11. Live'
    BY <1>1, <1>2, <1>8, <1>10 DEF IInv, Live, Caller, Selected
  <1> QED BY <1>5, <1>6, <1>7, <1>9, <1>11, Zenon DEF IInv

\* The first call of the queue is released: it was made, or the flow that
\* waits for it is in a past epoch.
LEMMA ReleaseStep ==
  ASSUME IInv, calls # <<>>, Release,
         UNCHANGED <<registryVars, eventReport, todo, epoch, busy, served, messages>>, call' = NoCall,
         caller # "wait",
         calls[1].epoch # dirtyCounter \/ caller = "call_done"
  PROVE  IInv'
  <1> DEFINE g == Caller(1)
  <1>1. /\ UNCHANGED <<registry, dirtyCounter, steady>>
        /\ calls' = Tail(calls) /\ caller' = "idle"
    BY Zenon DEF Release, registryVars
  <1>2. /\ calls' \in Seq([flow : IdentifyFlows, entry : Registrations, epoch : Nat])
        /\ 1 \in DOMAIN calls /\ Head(calls) = calls[1]
        /\ \A i \in DOMAIN calls' : /\ i \in Nat /\ i + 1 \in DOMAIN calls /\ i + 1 # 1
                                   /\ calls'[i] = calls[i + 1]
        /\ \A i \in DOMAIN calls : i # 1 => /\ i - 1 \in DOMAIN calls'
                                          /\ calls'[i - 1] = calls[i]
        /\ g \in IdentifyFlows /\ calls[1].entry \in Registrations
    BY <1>1, TailCalls, Zenon DEF IInv
  <1>3. pc' = [pc EXCEPT ![g] = "queued"] /\ g \in Flows
    BY <1>2, Zenon DEF Release, Caller, Flows
  <1>4. TypeOK'
    BY <1>1, <1>2, <1>3, Zenon DEF IInv, TypeOK
  <1>5. Past' /\ Steady' /\ Calling'
    BY <1>1, Zenon DEF IInv, Past, Steady, Calling
  <1>6. \A i \in DOMAIN calls : /\ i # 1 => Caller(i) # g
                                /\ pc[Caller(i)] = "wait" /\ calls[i].epoch = epoch[Caller(i)]
    BY <1>2, Zenon DEF IInv, Queued
  <1>7. pc \in [Flows -> {"idle", "queued", "immediately", "wait"}]
        /\ \A i \in DOMAIN calls : Caller(i) \in Flows
    BY CallFields, Zenon DEF IInv, TypeOK
  <1>8. \A i \in DOMAIN calls' : /\ Caller(i)' = Caller(i + 1) /\ Caller(i)' # g
                                 /\ i + 1 \in DOMAIN calls /\ calls'[i] = calls[i + 1]
    BY <1>2, <1>6 DEF Caller
  <1>9. Queued'
    <2>1. \A i \in DOMAIN calls' : pc'[Caller(i)'] = "wait" /\ calls'[i].epoch = epoch'[Caller(i)']
      BY <1>3, <1>6, <1>7, <1>8
    <2>2. \A i, j \in DOMAIN calls' : Caller(i)' = Caller(j)' => i = j
      BY <1>2, <1>8 DEF IInv, Queued
    <2> QED BY <2>1, <2>2, Zenon DEF Queued
  <1>10. calls[1].entry \in served[g] \/ epoch[g] # dirtyCounter
    BY <1>2, <1>6, Zenon DEF IInv, Calling
  <1>11. Complete'
    <2> SUFFICES ASSUME NEW f \in Flows, pc'[f] # "idle", epoch[f] = dirtyCounter,
                        NEW r \in registry, Selects(eventReport[f], r)
                 PROVE  \/ r \in served[f] \/ r \in todo[f]
                        \/ \E i \in DOMAIN calls' : Caller(i)' = f /\ calls'[i].entry = r
      BY <1>1, Zenon DEF Complete
    <2>1. pc[f] # "idle"
      BY <1>2, <1>3, <1>6, <1>7, Zenon
    <2>2. \/ r \in served[f] \/ r \in todo[f]
          \/ \E i \in DOMAIN calls : Caller(i) = f /\ calls[i].entry = r
      BY <2>1, Zenon DEF IInv, Complete
    <2>3. CASE r \in served[f] \/ r \in todo[f]
      BY <2>3, Zenon
    <2>4. ASSUME NEW i \in DOMAIN calls, Caller(i) = f, calls[i].entry = r
          PROVE  r \in served[f] \/ \E j \in DOMAIN calls' : Caller(j)' = f /\ calls'[j].entry = r
      <3>1. CASE i = 1
        BY <1>10, <2>4, <3>1, Zenon
      <3>2. CASE i # 1
        BY <1>2, <2>4, <3>2, Zenon DEF Caller
      <3> QED BY <3>1, <3>2, Zenon
    <2> QED BY <2>2, <2>3, <2>4, Zenon
  <1>12. Live'
    <2>1. \A f \in Flows : pc'[f] # "idle" => pc[f] # "idle"
      BY <1>2, <1>3, <1>6, <1>7, Zenon
    <2>2. \A i \in DOMAIN calls' : calls'[i].epoch = dirtyCounter =>
            calls'[i].entry \in Selected(registry, eventReport[Caller(i)'])
      BY <1>8 DEF IInv, Live
    <2> QED BY <1>1, <2>1, <2>2, Zenon DEF IInv, Live, Selected
  <1>13. Lent'
    <2>1. \A f \in IdentifyFlows : busy[f] = {}
      BY Zenon DEF IInv, Lent
    <2>2. \A f \in InlineFlows : f # g /\ f \in Flows
      BY <1>2, InputAssumption, Zenon DEF Flows
    <2>3. \A f \in InlineFlows : pc'[f] = pc[f]
      BY <1>3, <1>7, <2>2, Zenon
    <2> QED BY <2>1, <2>3, Zenon DEF IInv, Lent
  <1> QED BY <1>4, <1>5, <1>9, <1>11, <1>12, <1>13, Zenon DEF IInv

\* EventCallerFlow calls the first call of the queue, or drops a stale one.
LEMMA CallerEntryStep ==
  ASSUME IInv, caller_entry
  PROVE  IInv'
  <1>1. calls # <<>> /\ caller = "idle" /\ UNCHANGED <<eventReport, todo, epoch, messages>>
    BY Zenon DEF caller_entry
  <1>2. calls \in Seq([flow : IdentifyFlows, entry : Registrations, epoch : Nat])
    BY Zenon DEF IInv, TypeOK
  <1>3. 1 \in DOMAIN calls /\ Head(calls) = calls[1]
    BY <1>1, <1>2
  <1>4. CASE calls[1].epoch # dirtyCounter
    <2>1. Release /\ call' = NoCall /\ UNCHANGED <<registryVars, busy, served>>
      BY <1>3, <1>4, Zenon DEF caller_entry
    <2> QED BY <1>1, <1>4, <2>1, ReleaseStep, Zenon
  <1>5. CASE calls[1].epoch = dirtyCounter
    <2> DEFINE g == Caller(1)
               r == calls[1].entry
    <2>1. /\ CallHandler(g, r)
          /\ busy' = [busy EXCEPT ![g] = @ \cup {r}]
          /\ caller' = "wait" /\ UNCHANGED <<calls, pc>>
      BY <1>3, <1>5, Zenon DEF caller_entry, Caller
    <2>2. /\ call' = [flow |-> g, entry |-> r]
          /\ served' = [served EXCEPT ![g] = @ \cup {r}]
      BY <2>1, Zenon DEF CallHandler
    <2>3. /\ registry' \subseteq Registrations /\ dirtyCounter' \in Nat
          /\ steady' \in [Flows -> SUBSET Registrations]
          /\ \A f \in Flows : steady'[f] \subseteq registry'
          /\ dirtyCounter' = dirtyCounter => registry' = registry
          /\ dirtyCounter' >= dirtyCounter
      BY <2>1, RegistryStep, Zenon DEF IInv, Steady, CallHandler
    <2>4. g \in IdentifyFlows /\ g \in Flows /\ r \in Registrations
      BY <1>3, CallFields, Zenon DEF IInv
    <2>5. /\ dirtyCounter \in Nat /\ busy \in [Flows -> SUBSET Registrations]
          /\ served \in [Flows -> SUBSET Registrations]
          /\ \A f \in Flows : epoch[f] \in Nat /\ epoch[f] <= dirtyCounter
      BY Zenon DEF IInv, TypeOK, Past
    <2>6. \A f \in Flows : epoch[f] = dirtyCounter' => dirtyCounter' = dirtyCounter
      BY <2>3, <2>5
    <2>7. \A f \in Flows : served[f] \subseteq served'[f]
      BY <2>2, <2>5, Zenon
    <2>8. r \in served'[g]
      BY <2>2, <2>4, <2>5, Zenon
    <2>9. TypeOK'
      <3>1. busy' \in [Flows -> SUBSET Registrations] /\ served' \in [Flows -> SUBSET Registrations]
        BY <2>1, <2>2, <2>4, <2>5, Zenon
      <3>2. call' \in [flow : Flows, entry : Registrations]
        BY <2>2, <2>4, Zenon
      <3> QED BY <1>1, <2>1, <2>3, <3>1, <3>2, Zenon DEF IInv, TypeOK
    <2>10. Past' /\ Steady'
      BY <1>1, <2>3, <2>5 DEF Past, Steady
    <2>11. Queued'
      BY <1>1, <2>1, Zenon DEF IInv, Queued, Caller
    <2>12. Complete'
      BY <1>1, <2>1, <2>3, <2>6, <2>7 DEF IInv, Complete, Caller
    <2>13. \A i \in DOMAIN calls : Caller(i) \in Flows /\ calls[i].epoch = epoch[Caller(i)]
      BY CallFields DEF IInv, Queued
    <2>14. Live'
      BY <1>1, <2>1, <2>3, <2>6, <2>13, Zenon DEF IInv, Live, Caller, Selected
    <2>15. Calling'
      BY <1>1, <2>1, <2>8, Zenon DEF Calling, Caller
    <2>16. Lent'
      <3>1. \A f \in IdentifyFlows : busy[f] = {}
        BY <1>1, Zenon DEF IInv, Lent
      <3>2. \A f \in InlineFlows : f # g /\ f \in Flows
        BY <2>4, InputAssumption, Zenon DEF Flows
      <3>3. \A f \in InlineFlows : busy'[f] = busy[f]
        BY <2>1, <2>5, <3>2, Zenon
      <3>4. \A f \in IdentifyFlows : busy'[f] = IF f = g THEN {r} ELSE {}
        BY <2>1, <2>4, <2>5, <3>1, Zenon DEF Flows
      <3>5. \A f \in InlineFlows : busy'[f] # {} =>
              pc'[f] = "wait" /\ \E x \in Registrations : busy'[f] = {x}
        BY <2>1, <3>3, Zenon DEF IInv, Lent
      <3>6. \A f \in IdentifyFlows : busy'[f] # {} =>
              caller' = "wait" /\ Caller(1)' = f /\ busy'[f] = {calls'[1].entry}
        BY <2>1, <3>4, Zenon DEF Caller
      <3> QED BY <3>5, <3>6, Zenon DEF Lent
    <2> QED BY <2>9, <2>10, <2>11, <2>12, <2>14, <2>15, <2>16, Zenon DEF IInv
  <1> QED BY <1>4, <1>5, Zenon

\* The handler that the caller flow waits for is done, and then the caller.
LEMMA CallerDoneStep ==
  ASSUME IInv, caller_handler_done \/ call_done
  PROVE  IInv'
  <1>1. CASE caller_handler_done
    <2> DEFINE g == Caller(1)
    <2>1. /\ UNCHANGED <<registry, dirtyCounter, steady, pc, eventReport, todo, epoch, calls, served,
                        messages>>
          /\ caller = "wait" /\ caller' = "call_done" /\ call' = NoCall
          /\ busy' = [busy EXCEPT ![Head(calls).flow] = {}]
      BY <1>1, Zenon DEF caller_handler_done, registryVars, flowVars
    <2>2. calls # <<>> /\ calls \in Seq([flow : IdentifyFlows, entry : Registrations, epoch : Nat])
      BY <2>1, Zenon DEF IInv, TypeOK, Calling
    <2>3. 1 \in DOMAIN calls /\ Head(calls) = calls[1]
      BY <2>2
    <2>4. busy' = [busy EXCEPT ![g] = {}] /\ g \in IdentifyFlows /\ g \in Flows
      BY <2>1, <2>3, CallFields, Zenon DEF IInv, Caller
    <2>5. busy \in [Flows -> SUBSET Registrations]
      BY Zenon DEF IInv, TypeOK
    <2>6. TypeOK'
      BY <2>1, <2>4, <2>5, Zenon DEF IInv, TypeOK
    <2>7. Past' /\ Steady' /\ Queued' /\ Complete' /\ Live' /\ Calling'
      BY <2>1 DEF IInv, Past, Steady, Queued, Complete, Live, Calling, Caller
    <2>8. Lent'
      <3>1. \A f \in InlineFlows : f # g /\ f \in Flows
        BY <2>4, InputAssumption, Zenon DEF Flows
      <3>2. \A f \in InlineFlows : busy'[f] = busy[f]
        BY <2>4, <2>5, <3>1, Zenon
      <3>3. \A f \in IdentifyFlows : busy'[f] = {}
        BY <2>4, <2>5, Zenon DEF IInv, Lent, Flows
      <3> QED BY <2>1, <3>2, <3>3 DEF IInv, Lent
    <2> QED BY <2>6, <2>7, <2>8, Zenon DEF IInv
  <1>2. CASE call_done
    <2>1. /\ caller = "call_done" /\ Release /\ call' = NoCall
          /\ UNCHANGED <<registryVars, eventReport, todo, epoch, busy, served, messages>>
      BY <1>2, Zenon DEF call_done
    <2>2. calls # <<>>
      BY <2>1, Zenon DEF IInv, Calling
    <2> QED BY <2>1, <2>2, ReleaseStep, Zenon
  <1> QED BY <1>1, <1>2, Zenon

\* A message is refused, or an iteration begins with all that is selected.
LEMMA EntryStep ==
  ASSUME IInv, NEW f \in Flows, entry(f)
  PROVE  IInv'
  <1>1. /\ pc[f] = "idle" /\ messages' = messages + 1 /\ call' = NoCall
        /\ UNCHANGED <<calls, caller, busy>>
    BY Zenon DEF entry, callerVars
  <1>2. CASE Refused
    <2>1. UNCHANGED <<registry, dirtyCounter, steady, pc, eventReport, todo, epoch, served>>
      BY <1>2, Zenon DEF Refused, registryVars, flowVars
    <2>2. TypeOK'
      BY <1>1, <2>1 DEF IInv, TypeOK
    <2>3. Past' /\ Steady' /\ Queued' /\ Complete' /\ Live' /\ Calling' /\ Lent'
      BY <1>1, <2>1 DEF IInv, Past, Steady, Queued, Complete, Live, Calling, Lent, Caller
    <2> QED BY <2>2, <2>3, Zenon DEF IInv
  <1>3. ASSUME NEW rep \in Reports, Begin(f, rep)
        PROVE  IInv'
    <2>1. /\ eventReport' = [eventReport EXCEPT ![f] = rep]
          /\ epoch' = [epoch EXCEPT ![f] = dirtyCounter]
          /\ todo' = [todo EXCEPT ![f] = Selected(registry, rep)]
          /\ pc' = [pc EXCEPT ![f] = "queued"]
          /\ served' = [served EXCEPT ![f] = {}]
          /\ steady' = [steady EXCEPT ![f] = registry]
          /\ UNCHANGED <<registry, dirtyCounter>>
      BY <1>3, Zenon DEF Begin
    <2>2. /\ registry \subseteq Registrations /\ dirtyCounter \in Nat
          /\ pc \in [Flows -> {"idle", "queued", "immediately", "wait"}]
          /\ eventReport \in [Flows -> Reports]
          /\ todo \in [Flows -> SUBSET Registrations]
          /\ epoch \in [Flows -> Nat]
          /\ served \in [Flows -> SUBSET Registrations]
          /\ steady \in [Flows -> SUBSET Registrations]
          /\ messages \in Nat
      BY Zenon DEF IInv, TypeOK
    <2>3. Selected(registry, rep) \in SUBSET Registrations
      BY <2>2, Zenon DEF Selected
    <2>4. TypeOK'
      <3>1. /\ pc' \in [Flows -> {"idle", "queued", "immediately", "wait"}]
            /\ eventReport' \in [Flows -> Reports]
            /\ todo' \in [Flows -> SUBSET Registrations]
            /\ epoch' \in [Flows -> Nat]
            /\ served' \in [Flows -> SUBSET Registrations]
            /\ steady' \in [Flows -> SUBSET Registrations]
            /\ messages' \in Nat
        BY <1>1, <2>1, <2>2, <2>3
      <3> QED BY <1>1, <2>1, <3>1, Zenon DEF IInv, TypeOK
    <2>5. Past' /\ Steady'
      <3>1. \A x \in Flows : epoch'[x] = IF x = f THEN dirtyCounter ELSE epoch[x]
        BY <2>1, <2>2, Zenon
      <3>2. \A x \in Flows : steady'[x] = IF x = f THEN registry ELSE steady[x]
        BY <2>1, <2>2, Zenon
      <3> QED BY <2>1, <2>2, <3>1, <3>2 DEF IInv, Past, Steady
    <2>6. \A i \in DOMAIN calls : Caller(i) \in Flows /\ Caller(i) # f
      BY <1>1, CallFields, Zenon DEF IInv, Queued
    <2>7. \A x \in Flows : x # f => /\ pc'[x] = pc[x] /\ epoch'[x] = epoch[x]
                                    /\ eventReport'[x] = eventReport[x]
                                    /\ todo'[x] = todo[x] /\ served'[x] = served[x]
      BY <2>1, <2>2, Zenon
    <2>8. /\ epoch'[f] = dirtyCounter /\ eventReport'[f] = rep
          /\ todo'[f] = Selected(registry, rep)
      BY <2>1, <2>2, Zenon
    <2>9. Queued'
      BY <1>1, <2>6, <2>7 DEF IInv, Queued, Caller
    <2>10. Complete'
      <3> SUFFICES ASSUME NEW x \in Flows, pc'[x] # "idle", epoch'[x] = dirtyCounter,
                          NEW r \in registry, Selects(eventReport'[x], r)
                   PROVE  \/ r \in served'[x] \/ r \in todo'[x]
                          \/ \E i \in DOMAIN calls : Caller(i) = x /\ calls[i].entry = r
        BY <1>1, <2>1, Zenon DEF Complete, Caller
      <3>1. CASE x = f
        BY <2>8, <3>1, Zenon DEF Selected
      <3>2. CASE x # f
        BY <2>7, <3>2, Zenon DEF IInv, Complete
      <3> QED BY <3>1, <3>2, Zenon
    <2>11. Live'
      <3>1. ASSUME NEW x \in Flows, pc'[x] # "idle", epoch'[x] = dirtyCounter
            PROVE  todo'[x] \subseteq Selected(registry, eventReport'[x])
        <4>1. CASE x = f
          BY <2>8, <4>1, Zenon
        <4>2. CASE x # f
          BY <2>7, <3>1, <4>2, Zenon DEF IInv, Live
        <4> QED BY <4>1, <4>2, Zenon
      <3>2. ASSUME NEW i \in DOMAIN calls, calls[i].epoch = dirtyCounter
            PROVE  calls[i].entry \in Selected(registry, eventReport'[Caller(i)])
        BY <2>6, <2>7, <3>2, Zenon DEF IInv, Live
      <3> QED BY <1>1, <2>1, <3>1, <3>2, Zenon DEF Live, Caller, Selected
    <2>12. Calling'
      <3>1. caller # "idle" => calls # <<>> /\ 1 \in DOMAIN calls
        BY DEF IInv, TypeOK, Calling
      <3> QED BY <1>1, <2>6, <2>7, <3>1, Zenon DEF IInv, Calling, Caller
    <2>13. Lent'
      BY <1>1, <2>7, Zenon DEF IInv, Lent, Caller, Flows
    <2> QED BY <2>4, <2>5, <2>9, <2>10, <2>11, <2>12, <2>13, Zenon DEF IInv
  <1>4. Refused \/ \E rep \in Reports : Begin(f, rep)
    <2>1. CASE Refused
      BY <2>1, Zenon
    <2>2. CASE \E e \in EventIds : \/ Begin(f, [event |-> e, size |-> 1])
                                   \/ Begin(f, DecodeRange(e))
      <3>1. \A e \in EventIds : [event |-> e, size |-> 1] \in Reports /\ DecodeRange(e) \in Reports
        BY InputAssumption, BlocksAssumption, Decoded, Zenon DEF Reports
      <3> QED BY <2>2, <3>1, Zenon
    <2>3. CASE Begin(f, [event |-> 0, size |-> IdSpace])
      <3>1. [event |-> 0, size |-> IdSpace] \in Reports
        BY BlocksAssumption DEF Reports, Events
      <3> QED BY <2>3, <3>1, Zenon
    <2> QED BY <2>1, <2>2, <2>3, Zenon DEF entry
  <1> QED BY <1>2, <1>3, <1>4, Zenon

\* The handler of an inline flow is done.
LEMMA HandlerDoneStep ==
  ASSUME IInv, NEW f \in Flows, handler_done(f)
  PROVE  IInv'
  <1>1. /\ f \in InlineFlows /\ pc[f] = "wait" /\ pc' = [pc EXCEPT ![f] = "queued"]
        /\ busy' = [busy EXCEPT ![f] = {}] /\ call' = NoCall
        /\ UNCHANGED <<registry, dirtyCounter, steady, eventReport, todo, epoch, calls, caller, served,
                      messages>>
    BY Zenon DEF handler_done, registryVars, callerVars
  <1>2. /\ pc \in [Flows -> {"idle", "queued", "immediately", "wait"}]
        /\ busy \in [Flows -> SUBSET Registrations]
    BY Zenon DEF IInv, TypeOK
  <1>3. TypeOK'
    BY <1>1, <1>2, Zenon DEF IInv, TypeOK
  <1>4. f \notin IdentifyFlows
    BY <1>1, InputAssumption, Zenon
  <1>5. \A i \in DOMAIN calls : Caller(i) \in Flows /\ Caller(i) # f
    BY <1>4, CallFields, Zenon DEF IInv
  <1>6. \A x \in Flows : x # f => pc'[x] = pc[x] /\ busy'[x] = busy[x]
    BY <1>1, <1>2, Zenon
  <1>7. pc'[f] = "queued" /\ busy'[f] = {}
    BY <1>1, <1>2, Zenon
  <1>8. \A x \in Flows : pc'[x] # "idle" => pc[x] # "idle"
    BY <1>1, <1>6, <1>7, Zenon
  <1>9. Past' /\ Steady' /\ Calling'
    BY <1>1, Zenon DEF IInv, Past, Steady, Calling, Caller
  <1>10. Queued'
    BY <1>1, <1>5, <1>6, Zenon DEF IInv, Queued, Caller
  <1>11. Complete' /\ Live'
    BY <1>1, <1>8 DEF IInv, Complete, Live, Caller, Selected
  <1>12. Lent'
    BY <1>1, <1>4, <1>6, <1>7, SMTT(30) DEF IInv, Lent, Caller, Flows
  <1> QED BY <1>3, <1>9, <1>10, <1>11, <1>12, Zenon DEF IInv

\* What a flow still has to call is registered and for the message, and with
\* what it has called it is all of that.
LEMMA ToComeLive ==
  ASSUME IInv, NEW f \in Flows, pc[f] \in {"immediately", "queued"}
  PROVE  /\ ToCome(f) \subseteq Selected(registry, eventReport[f])
         /\ ToCome(f) \subseteq Registrations
         /\ Selected(registry, eventReport[f]) \subseteq served[f] \cup ToCome(f)
  <1>1. Selected(registry, eventReport[f]) \subseteq Registrations
    BY Zenon DEF IInv, TypeOK, Selected
  <1>2. CASE epoch[f] # dirtyCounter
    BY <1>1, <1>2, Zenon DEF ToCome
  <1>3. CASE epoch[f] = dirtyCounter
    <2>1. ToCome(f) = todo[f]
      BY <1>3, Zenon DEF ToCome
    <2>2. todo[f] \subseteq Selected(registry, eventReport[f])
      BY <1>3, Zenon DEF IInv, Live
    <2>3. \A i \in DOMAIN calls : Caller(i) # f
      BY Zenon DEF IInv, Queued
    <2>4. \A r \in registry : Selects(eventReport[f], r) => r \in served[f] \/ r \in todo[f]
      BY <1>3, <2>3, Zenon DEF IInv, Complete
    <2> QED BY <1>1, <2>1, <2>2, <2>4, Zenon DEF Selected
  <1> QED BY <1>2, <1>3, Zenon

\* A flow is done with a message, calls a handler, or sends a call.
LEMMA IterateStep ==
  ASSUME IInv, NEW f \in Flows, iterate_next(f)
  PROVE  IInv'
  <1>1. /\ pc[f] \in {"immediately", "queued"} /\ epoch' = [epoch EXCEPT ![f] = dirtyCounter]
        /\ UNCHANGED <<eventReport, messages>>
    BY Zenon DEF iterate_next
  <1>2. /\ registry \subseteq Registrations /\ dirtyCounter \in Nat
        /\ pc \in [Flows -> {"idle", "queued", "immediately", "wait"}]
        /\ todo \in [Flows -> SUBSET Registrations]
        /\ epoch \in [Flows -> Nat]
        /\ busy \in [Flows -> SUBSET Registrations]
        /\ served \in [Flows -> SUBSET Registrations]
        /\ steady \in [Flows -> SUBSET Registrations]
    BY Zenon DEF IInv, TypeOK
  <1>3. /\ ToCome(f) \subseteq Selected(registry, eventReport[f])
        /\ ToCome(f) \subseteq Registrations
        /\ Selected(registry, eventReport[f]) \subseteq served[f] \cup ToCome(f)
    BY <1>1, ToComeLive, Zenon
  <1>4. epoch' \in [Flows -> Nat] /\ epoch'[f] = dirtyCounter
        /\ \A x \in Flows : x # f => epoch'[x] = epoch[x]
    BY <1>1, <1>2, Zenon
  <1>5. \A x \in Flows : epoch'[x] <= dirtyCounter
    BY <1>2, <1>4 DEF IInv, Past
  <1>6. \A i \in DOMAIN calls : Caller(i) \in Flows /\ Caller(i) # f
    BY <1>1, CallFields, Zenon DEF IInv, Queued
  <1>7. \A i \in DOMAIN calls : pc[Caller(i)] = "wait" /\ calls[i].epoch = epoch[Caller(i)]
    BY Zenon DEF IInv, Queued
  <1>8. CASE /\ ToCome(f) = {}
             /\ todo' = [todo EXCEPT ![f] = {}]
             /\ pc' = [pc EXCEPT ![f] = "idle"]
             /\ call' = NoCall
             /\ served' = [served EXCEPT ![f] = {}]
             /\ steady' = [steady EXCEPT ![f] = {}]
             /\ UNCHANGED <<registry, dirtyCounter, callerVars, busy>>
    <2>1. UNCHANGED <<registry, dirtyCounter, calls, caller, busy>> /\ call' = NoCall
      BY <1>8, Zenon DEF callerVars
    <2>2. \A x \in Flows : x # f => /\ pc'[x] = pc[x] /\ todo'[x] = todo[x]
                                    /\ served'[x] = served[x] /\ steady'[x] = steady[x]
      BY <1>2, <1>8, Zenon
    <2>3. pc'[f] = "idle" /\ steady'[f] = {}
      BY <1>2, <1>8, Zenon
    <2>4. TypeOK'
      <3>1. /\ pc' \in [Flows -> {"idle", "queued", "immediately", "wait"}]
            /\ todo' \in [Flows -> SUBSET Registrations]
            /\ served' \in [Flows -> SUBSET Registrations]
            /\ steady' \in [Flows -> SUBSET Registrations]
        BY <1>2, <1>8, Zenon
      <3> QED BY <1>1, <1>4, <2>1, <3>1, Zenon DEF IInv, TypeOK
    <2>5. Past' /\ Steady'
      BY <1>5, <2>1, <2>2, <2>3, Zenon DEF IInv, Past, Steady
    <2>6. Queued'
      BY <1>4, <1>6, <2>1, <2>2 DEF IInv, Queued, Caller
    <2>7. Complete'
      BY <1>1, <1>4, <2>1, <2>2, <2>3 DEF IInv, Complete, Caller
    <2>8. Live'
      <3>1. \A x \in Flows : pc'[x] # "idle" /\ epoch'[x] = dirtyCounter =>
              todo'[x] \subseteq Selected(registry, eventReport[x])
        BY <1>4, <2>2, <2>3, Zenon DEF IInv, Live
      <3> QED BY <1>1, <2>1, <3>1, Zenon DEF IInv, Live, Caller, Selected
    <2>9. Calling'
      <3>1. caller # "idle" => calls # <<>> /\ 1 \in DOMAIN calls
        BY DEF IInv, TypeOK, Calling
      <3> QED BY <1>6, <2>1, <2>2, <3>1, Zenon DEF IInv, Calling, Caller
    <2>10. Lent'
      BY <1>1, <2>1, <2>2, Zenon DEF IInv, Lent, Caller, Flows
    <2> QED BY <2>4, <2>5, <2>6, <2>7, <2>8, <2>9, <2>10, Zenon DEF IInv
  <1>9. ASSUME NEW r \in ToCome(f), todo' = [todo EXCEPT ![f] = ToCome(f) \ {r}],
               f \in InlineFlows, call_inline(f, r)
        PROVE  IInv'
    <2>1. /\ call' = [flow |-> f, entry |-> r] /\ UNCHANGED <<calls, caller>>
          /\ served' = [served EXCEPT ![f] = @ \cup {r}]
          /\ Change \/ UNCHANGED registryVars
      BY <1>9, Zenon DEF call_inline, CallHandler, callerVars
    <2>2. \/ pc' = [pc EXCEPT ![f] = "immediately"] /\ busy' = busy
          \/ pc' = [pc EXCEPT ![f] = "wait"] /\ busy' = [busy EXCEPT ![f] = {r}]
      BY <1>9, Zenon DEF call_inline
    <2>3. /\ registry' \subseteq Registrations /\ dirtyCounter' \in Nat
          /\ steady' \in [Flows -> SUBSET Registrations]
          /\ \A x \in Flows : steady'[x] \subseteq registry'
          /\ dirtyCounter' = dirtyCounter => registry' = registry
          /\ dirtyCounter' >= dirtyCounter
      BY <2>1, RegistryStep, Zenon DEF IInv, Steady
    <2>4. \A x \in Flows : epoch'[x] = dirtyCounter' => dirtyCounter' = dirtyCounter
      BY <1>2, <1>4, <1>5, <2>3
    <2>5. \A x \in Flows : x # f => /\ pc'[x] = pc[x] /\ todo'[x] = todo[x]
                                    /\ served'[x] = served[x] /\ busy'[x] = busy[x]
      BY <1>2, <1>9, <2>1, <2>2, Zenon
    <2>6. /\ todo'[f] = ToCome(f) \ {r} /\ served'[f] = served[f] \cup {r} /\ r \in Registrations
          /\ todo' \in [Flows -> SUBSET Registrations]
          /\ served' \in [Flows -> SUBSET Registrations]
      BY <1>2, <1>3, <1>9, <2>1, Zenon
    <2>7. /\ pc' \in [Flows -> {"idle", "queued", "immediately", "wait"}]
          /\ busy' \in [Flows -> SUBSET Registrations]
      BY <1>2, <2>2, <2>6
    <2>8. TypeOK'
      <3>1. call' \in [flow : Flows, entry : Registrations]
        BY <2>1, <2>6, Zenon
      <3> QED BY <1>1, <1>4, <2>1, <2>3, <2>6, <2>7, <3>1, Zenon DEF IInv, TypeOK
    <2>9. Past' /\ Steady'
      BY <1>2, <1>4, <1>5, <2>3 DEF Past, Steady
    <2>10. Queued'
      BY <1>4, <1>6, <2>1, <2>5 DEF IInv, Queued, Caller
    <2>11. Complete'
      <3> SUFFICES ASSUME NEW x \in Flows, pc'[x] # "idle", epoch'[x] = dirtyCounter',
                          NEW s \in registry', Selects(eventReport[x], s)
                   PROVE  \/ s \in served'[x] \/ s \in todo'[x]
                          \/ \E i \in DOMAIN calls : Caller(i) = x /\ calls[i].entry = s
        BY <1>1, <2>1, Zenon DEF Complete, Caller
      <3>1. dirtyCounter' = dirtyCounter /\ s \in registry
        BY <2>3, <2>4, Zenon
      <3>2. CASE x = f
        <4>1. s \in served[f] \cup ToCome(f)
          BY <1>3, <3>1, <3>2, Zenon DEF Selected
        <4> QED BY <2>6, <3>2, <4>1, Zenon
      <3>3. CASE x # f
        BY <1>4, <2>5, <3>1, <3>3, Zenon DEF IInv, Complete
      <3> QED BY <3>2, <3>3, Zenon
    <2>12. Live'
      <3>1. ASSUME NEW x \in Flows, pc'[x] # "idle", epoch'[x] = dirtyCounter'
            PROVE  todo'[x] \subseteq Selected(registry', eventReport[x])
        <4>1. dirtyCounter' = dirtyCounter /\ registry' = registry
          BY <2>3, <2>4, <3>1, Zenon
        <4>2. CASE x = f
          BY <1>3, <2>6, <4>1, <4>2, Zenon
        <4>3. CASE x # f
          BY <1>4, <2>5, <3>1, <4>1, <4>3, Zenon DEF IInv, Live
        <4> QED BY <4>2, <4>3, Zenon
      <3>2. ASSUME NEW i \in DOMAIN calls, calls[i].epoch = dirtyCounter'
            PROVE  calls[i].entry \in Selected(registry', eventReport[Caller(i)])
        <4>1. epoch'[Caller(i)] = dirtyCounter'
          BY <1>4, <1>6, <1>7, <3>2, Zenon
        <4>2. dirtyCounter' = dirtyCounter /\ registry' = registry
          BY <1>6, <2>3, <2>4, <4>1, Zenon
        <4> QED BY <3>2, <4>2, Zenon DEF IInv, Live
      <3> QED BY <1>1, <2>1, <3>1, <3>2, Zenon DEF Live, Caller, Selected
    <2>13. Calling'
      <3>1. caller # "idle" => calls # <<>> /\ 1 \in DOMAIN calls
        BY DEF IInv, TypeOK, Calling
      <3> QED BY <1>6, <2>1, <2>5, <3>1, Zenon DEF IInv, Calling, Caller
    <2>14. Lent'
      <3>1. f \notin IdentifyFlows
        BY <1>9, InputAssumption, Zenon
      <3>2. busy[f] = {}
        BY <1>1, <1>9, Zenon DEF IInv, Lent
      <3>3. busy'[f] # {} => pc'[f] = "wait" /\ busy'[f] = {r}
        BY <1>2, <2>2, <3>2, Zenon
      <3>4. \A x \in InlineFlows : busy'[x] # {} =>
              pc'[x] = "wait" /\ \E y \in Registrations : busy'[x] = {y}
        BY <2>5, <2>6, <3>3, SMTT(30) DEF IInv, Lent, Flows
      <3>5. \A x \in IdentifyFlows : busy'[x] # {} =>
              caller' = "wait" /\ Caller(1)' = x /\ busy'[x] = {calls'[1].entry}
        BY <2>1, <2>5, <3>1, Zenon DEF IInv, Lent, Flows, Caller
      <3> QED BY <3>4, <3>5, Zenon DEF Lent
    <2> QED BY <2>8, <2>9, <2>10, <2>11, <2>12, <2>13, <2>14, Zenon DEF IInv
  <1>10. ASSUME NEW r \in ToCome(f), todo' = [todo EXCEPT ![f] = ToCome(f) \ {r}],
                f \in IdentifyFlows, send_call(f, r)
         PROVE  IInv'
    <2> DEFINE c == [flow |-> f, entry |-> r, epoch |-> dirtyCounter]
    <2>1. /\ calls' = Append(calls, c) /\ pc' = [pc EXCEPT ![f] = "wait"] /\ call' = NoCall
          /\ UNCHANGED <<registry, dirtyCounter, steady, caller, busy, served>>
      BY <1>10, Zenon DEF send_call, registryVars
    <2>2. c \in [flow : IdentifyFlows, entry : Registrations, epoch : Nat]
      BY <1>2, <1>3, <1>10, Zenon
    <2>3. /\ calls' \in Seq([flow : IdentifyFlows, entry : Registrations, epoch : Nat])
          /\ \A i \in DOMAIN calls : i \in DOMAIN calls' /\ calls'[i] = calls[i]
          /\ \A i \in DOMAIN calls' : i \in DOMAIN calls \/ calls'[i] = c
          /\ \A i, j \in DOMAIN calls' : i \notin DOMAIN calls /\ j \notin DOMAIN calls => i = j
          /\ \E i \in DOMAIN calls' : i \notin DOMAIN calls /\ calls'[i] = c
          /\ calls' # <<>>
          /\ calls # <<>> => calls'[1] = calls[1]
      BY <2>1, <2>2, MoreCalls, Zenon DEF IInv
    <2>4. c.flow = f /\ c.entry = r /\ c.epoch = dirtyCounter
      BY Zenon
    <2> HIDE DEF c
    <2>5. \A x \in Flows : x # f => pc'[x] = pc[x] /\ todo'[x] = todo[x]
      BY <1>2, <1>10, <2>1, Zenon
    <2>6. /\ pc'[f] = "wait" /\ todo'[f] = ToCome(f) \ {r}
          /\ pc' \in [Flows -> {"idle", "queued", "immediately", "wait"}]
          /\ todo' \in [Flows -> SUBSET Registrations]
      BY <1>2, <1>3, <1>10, <2>1, Zenon
    <2>7. TypeOK'
      BY <1>1, <1>4, <2>1, <2>3, <2>6, Zenon DEF IInv, TypeOK
    <2>8. Past' /\ Steady'
      BY <1>5, <2>1, Zenon DEF IInv, Past, Steady
    <2>9. \A i \in DOMAIN calls' :
            \/ i \in DOMAIN calls /\ calls'[i] = calls[i] /\ Caller(i)' = Caller(i)
            \/ i \notin DOMAIN calls /\ calls'[i] = c /\ Caller(i)' = f
      BY <2>3, <2>4, Zenon DEF Caller
    <2>10. Queued'
      <3>1. ASSUME NEW i \in DOMAIN calls'
            PROVE  pc'[Caller(i)'] = "wait" /\ calls'[i].epoch = epoch'[Caller(i)']
        <4>1. CASE i \in DOMAIN calls /\ calls'[i] = calls[i] /\ Caller(i)' = Caller(i)
          BY <1>4, <1>6, <1>7, <2>5, <4>1, Zenon
        <4>2. CASE calls'[i] = c /\ Caller(i)' = f
          BY <1>4, <2>4, <2>6, <4>2, Zenon
        <4> QED BY <2>9, <4>1, <4>2, Zenon
      <3>2. ASSUME NEW i \in DOMAIN calls', NEW j \in DOMAIN calls', Caller(i)' = Caller(j)'
            PROVE  i = j
        <4>1. CASE i \in DOMAIN calls /\ j \in DOMAIN calls
          BY <2>9, <3>2, <4>1, Zenon DEF IInv, Queued
        <4>2. CASE i \notin DOMAIN calls /\ j \notin DOMAIN calls
          BY <2>3, <4>2, Zenon
        <4>3. CASE i \in DOMAIN calls /\ j \notin DOMAIN calls
          BY <1>6, <2>9, <3>2, <4>3, Zenon
        <4>4. CASE i \notin DOMAIN calls /\ j \in DOMAIN calls
          BY <1>6, <2>9, <3>2, <4>4, Zenon
        <4> QED BY <4>1, <4>2, <4>3, <4>4, Zenon
      <3> QED BY <3>1, <3>2, Zenon DEF Queued
    <2>11. Complete'
      <3> SUFFICES ASSUME NEW x \in Flows, pc'[x] # "idle", epoch'[x] = dirtyCounter,
                          NEW s \in registry, Selects(eventReport[x], s)
                   PROVE  \/ s \in served[x] \/ s \in todo'[x]
                          \/ \E i \in DOMAIN calls' : Caller(i)' = x /\ calls'[i].entry = s
        BY <1>1, <2>1, Zenon DEF Complete
      <3>1. CASE x = f
        <4>1. s \in served[f] \cup ToCome(f)
          BY <1>3, <3>1, Zenon DEF Selected
        <4>2. \E i \in DOMAIN calls' : Caller(i)' = f /\ calls'[i].entry = r
          BY <2>3, <2>4, <2>9, Zenon
        <4> QED BY <2>6, <3>1, <4>1, <4>2, Zenon
      <3>2. CASE x # f
        <4>1. \/ s \in served[x] \/ s \in todo[x]
              \/ \E i \in DOMAIN calls : Caller(i) = x /\ calls[i].entry = s
          BY <1>4, <2>5, <3>2, Zenon DEF IInv, Complete
        <4>2. \A i \in DOMAIN calls : i \in DOMAIN calls' /\ calls'[i] = calls[i] /\ Caller(i)' = Caller(i)
          BY <2>3, Zenon DEF Caller
        <4> QED BY <2>5, <3>2, <4>1, <4>2, Zenon
      <3> QED BY <3>1, <3>2, Zenon
    <2>12. Live'
      <3>1. ASSUME NEW x \in Flows, pc'[x] # "idle", epoch'[x] = dirtyCounter
            PROVE  todo'[x] \subseteq Selected(registry, eventReport[x])
        <4>1. CASE x = f
          BY <1>3, <2>6, <4>1, Zenon
        <4>2. CASE x # f
          BY <1>4, <2>5, <3>1, <4>2, Zenon DEF IInv, Live
        <4> QED BY <4>1, <4>2, Zenon
      <3>2. ASSUME NEW i \in DOMAIN calls', calls'[i].epoch = dirtyCounter
            PROVE  calls'[i].entry \in Selected(registry, eventReport[Caller(i)'])
        <4>1. CASE i \in DOMAIN calls /\ calls'[i] = calls[i] /\ Caller(i)' = Caller(i)
          BY <3>2, <4>1, Zenon DEF IInv, Live
        <4>2. CASE calls'[i] = c /\ Caller(i)' = f
          BY <1>3, <1>10, <2>4, <4>2, Zenon
        <4> QED BY <2>9, <4>1, <4>2, Zenon
      <3> QED BY <1>1, <2>1, <3>1, <3>2, Zenon DEF Live, Selected
    <2>13. Calling'
      BY <2>1, <2>3, Zenon DEF IInv, Calling, Caller
    <2>14. Lent'
      <3>1. f \notin InlineFlows
        BY <1>10, InputAssumption, Zenon
      <3>2. \A x \in InlineFlows : pc'[x] = pc[x]
        BY <2>5, <3>1, Zenon DEF Flows
      <3>3. \A x \in IdentifyFlows : busy[x] # {} =>
              caller = "wait" /\ Caller(1)' = x /\ busy[x] = {calls'[1].entry}
        BY <2>3, Zenon DEF IInv, Lent, Calling, Caller
      <3> QED BY <2>1, <3>2, <3>3, Zenon DEF IInv, Lent
    <2> QED BY <2>7, <2>8, <2>10, <2>11, <2>12, <2>13, <2>14 DEF IInv
  <1>11. Firsts(ToCome(f)) \subseteq ToCome(f)
    BY Zenon DEF Firsts
  <1>12. \/ f \in InlineFlows \/ f \in IdentifyFlows
    BY Zenon DEF Flows
  <1> QED BY <1>8, <1>9, <1>10, <1>11, <1>12, Zenon DEF iterate_next

-----------------------------------------------------------------------------
(* The theorems.                                                           *)

LEMMA InitInv ==
  ASSUME Init
  PROVE  IInv
  <1>1. [event |-> 0, size |-> 1] \in Reports
    BY BlocksAssumption DEF Reports, Events
  <1>2. TypeOK
    BY <1>1 DEF Init, TypeOK
  <1>3. Past /\ Steady /\ Queued /\ Complete /\ Live /\ Calling /\ Lent
    BY SMTT(30) DEF Init, Past, Steady, Queued, Complete, Live, Calling, Lent, Flows
  <1> QED BY <1>2, <1>3, Zenon DEF IInv

LEMMA NextInv ==
  ASSUME IInv, [Next]_vars
  PROVE  IInv'
  <1>1. CASE UNCHANGED vars
    <2>1. UNCHANGED <<registry, dirtyCounter, steady, pc, eventReport, todo, epoch, calls, caller, busy,
                     call, served, messages>>
      BY <1>1, Zenon DEF vars, registryVars, flowVars, callerVars
    <2>2. TypeOK'
      BY <2>1, Zenon DEF IInv, TypeOK
    <2>3. Past' /\ Steady' /\ Queued' /\ Complete' /\ Live' /\ Calling' /\ Lent'
      BY <2>1, SMTT(30) DEF IInv, Past, Steady, Queued, Complete, Live, Calling, Lent, Caller, Selected
    <2> QED BY <2>2, <2>3, Zenon DEF IInv
  <1>2. CASE application
    BY <1>2, ApplicationStep, Zenon
  <1>3. CASE CallerStep
    BY <1>3, CallerEntryStep, CallerDoneStep, Zenon DEF CallerStep
  <1>4. ASSUME NEW f \in Flows, entry(f) \/ FlowStep(f)
        PROVE  IInv'
    BY <1>4, EntryStep, IterateStep, HandlerDoneStep, Zenon DEF FlowStep
  <1> QED BY <1>1, <1>2, <1>3, <1>4, Zenon DEF Next

\* The invariant holds in every state of the event service: an iteration
\* and its calls know of every change of the registry by its epoch.
THEOREM EventServiceInvariant == Spec => []IInv
  <1>1. Init => IInv
    BY InitInv, Zenon
  <1>2. IInv /\ [Next]_vars => IInv'
    BY NextInv, Zenon
  <1> QED BY <1>1, <1>2, PTL DEF Spec

\* The variables keep their types.
THEOREM EventServiceTypeOK == Spec => []TypeOK
  <1>1. IInv => TypeOK
    BY Zenon DEF IInv
  <1> QED BY <1>1, EventServiceInvariant, PTL

\* The report and its write helpers are with one handler at a time, which the
\* flow waits for (InlineEventIteratorFlow::dispatch_event(), EventCallerFlow).
THEOREM EventServiceHelpersAvailable == Spec => []HelpersAvailable
  <1>1. IInv => HelpersAvailable
    <2> SUFFICES ASSUME IInv, NEW f \in Flows, busy[f] # {}
                 PROVE  Cardinality(busy[f]) = 1 /\ pc[f] = "wait"
      BY Zenon DEF HelpersAvailable
    <2>1. CASE f \in InlineFlows
      <3>1. pc[f] = "wait" /\ \E r \in Registrations : busy[f] = {r}
        BY <2>1, Zenon DEF IInv, Lent
      <3>2. PICK r \in Registrations : busy[f] = {r}
        BY <3>1, Zenon
      <3>3. Cardinality({r}) = 1
        BY FS_Singleton, Zenon
      <3> QED BY <3>1, <3>2, <3>3, Zenon
    <2>2. CASE f \in IdentifyFlows
      <3>1. caller = "wait" /\ Caller(1) = f /\ busy[f] = {calls[1].entry}
        BY <2>2, Zenon DEF IInv, Lent
      <3>2. calls # <<>> /\ 1 \in DOMAIN calls
        BY <3>1 DEF IInv, TypeOK, Calling
      <3> QED BY <3>1, <3>2, FS_Singleton, Zenon DEF IInv, Queued
    <2> QED BY <2>1, <2>2, Zenon DEF Flows
  <1> QED BY <1>1, EventServiceInvariant, PTL

\* A handler that a step calls is registered then, for the events of the
\* message, by the epoch checks of iterate_next() and EventCallerFlow::entry().
THEOREM EventServiceCalledLive == Spec => CalledLive
  <1> DEFINE A == call' # NoCall =>
                    /\ call'.entry \in registry
                    /\ OverlapsAligned(eventReport[call'.flow], call'.entry)
  <1>1. IInv /\ [Next]_vars => [A]_vars
    <2> SUFFICES ASSUME IInv, Next, call' # NoCall
                 PROVE  A
      BY Zenon
    <2>1. ASSUME NEW f \in Flows, NEW r \in Selected(registry, eventReport[f]), CallHandler(f, r)
          PROVE  A
      <3>1. r \in registry /\ r \in Registrations /\ eventReport[f] \in Reports
            /\ Selects(eventReport[f], r)
        BY Zenon DEF IInv, TypeOK, Selected
      <3>2. call' = [flow |-> f, entry |-> r]
        BY <2>1, Zenon DEF CallHandler
      <3> QED BY <3>1, <3>2, SelectsOnly, Zenon
    <2>2. CASE caller_entry
      <3>1. calls # <<>> /\ calls \in Seq([flow : IdentifyFlows, entry : Registrations, epoch : Nat])
        BY <2>2, Zenon DEF IInv, TypeOK, caller_entry
      <3>2. 1 \in DOMAIN calls /\ Head(calls) = calls[1]
        BY <3>1
      <3>3. calls[1].epoch = dirtyCounter /\ CallHandler(Caller(1), calls[1].entry)
        BY <2>2, <3>2, Zenon DEF caller_entry, Caller
      <3>4. calls[1].entry \in Selected(registry, eventReport[Caller(1)])
        BY <3>2, <3>3, Zenon DEF IInv, Live
      <3>5. Caller(1) \in Flows
        BY <3>2, CallFields, Zenon DEF IInv
      <3> QED BY <2>1, <3>3, <3>4, <3>5, Zenon
    <2>3. ASSUME NEW f \in Flows, iterate_next(f)
          PROVE  A
      <3>1. pc[f] \in {"immediately", "queued"}
        BY <2>3, Zenon DEF iterate_next
      <3>2. PICK r \in Firsts(ToCome(f)) : CallHandler(f, r)
        BY <2>3, Zenon DEF iterate_next, call_inline, send_call
      <3>3. r \in Selected(registry, eventReport[f])
        BY <3>1, ToComeLive, Zenon DEF Firsts
      <3> QED BY <2>1, <3>2, <3>3, Zenon
    <2>4. CASE application \/ caller_handler_done \/ call_done
      BY <2>4, Zenon DEF application, caller_handler_done, call_done
    <2>5. ASSUME NEW f \in Flows, entry(f) \/ handler_done(f)
          PROVE  A
      BY <2>5, Zenon DEF entry, handler_done
    <2> QED BY <2>2, <2>3, <2>4, <2>5, Zenon DEF Next, CallerStep, FlowStep
  <1> QED BY <1>1, EventServiceInvariant, PTL DEF Spec, CalledLive

\* When a message is done, whoever was registered for it all the time has been
\* called: an iteration that starts over (iterate_next()) misses nobody.
THEOREM EventServiceAllServed == Spec => AllServed
  <1> DEFINE A == \A f \in Flows : pc[f] # "idle" /\ pc'[f] = "idle" =>
                    \A r \in steady[f] : Overlaps(eventReport[f], r) => r \in served[f]
  <1>1. IInv /\ [Next]_vars => [A]_vars
    <2> SUFFICES ASSUME IInv, Next, NEW f \in Flows, pc[f] # "idle", pc'[f] = "idle"
                 PROVE  \A r \in steady[f] : Overlaps(eventReport[f], r) => r \in served[f]
      BY Zenon
    <2>1. pc \in [Flows -> {"idle", "queued", "immediately", "wait"}]
      BY Zenon DEF IInv, TypeOK
    <2>2. iterate_next(f) /\ ToCome(f) = {}
      <3>1. ASSUME NEW x \in Flows, iterate_next(x)
            PROVE  iterate_next(f) /\ ToCome(f) = {}
        <4>1. \/ ToCome(x) = {} /\ pc' = [pc EXCEPT ![x] = "idle"]
              \/ pc' = [pc EXCEPT ![x] = "immediately"] \/ pc' = [pc EXCEPT ![x] = "wait"]
          BY <3>1, Zenon DEF iterate_next, call_inline, send_call
        <4>2. x = f
          BY <2>1, <4>1, Zenon
        <4>3. ToCome(x) = {}
          BY <2>1, <4>1, <4>2, Zenon
        <4> QED BY <3>1, <4>2, <4>3, Zenon
      <3>2. ASSUME NEW x \in Flows, entry(x)
            PROVE  FALSE
        <4>1. pc' = pc \/ pc' = [pc EXCEPT ![x] = "queued"]
          BY <3>2, Zenon DEF entry, Refused, Begin, flowVars
        <4> QED BY <2>1, <4>1, Zenon
      <3>3. ASSUME NEW x \in Flows, handler_done(x)
            PROVE  FALSE
        BY <2>1, <3>3, Zenon DEF handler_done
      <3>4. CASE CallerStep
        <4>1. pc' = pc \/ pc' = [pc EXCEPT ![Head(calls).flow] = "queued"]
          BY <3>4, Zenon DEF CallerStep, caller_entry, caller_handler_done, call_done, Release, flowVars
        <4> QED BY <2>1, <4>1, Zenon
      <3>5. CASE application
        BY <3>5, Zenon DEF application, flowVars
      <3> QED BY <3>1, <3>2, <3>3, <3>4, <3>5, Zenon DEF Next, FlowStep
    <2>3. Selected(registry, eventReport[f]) \subseteq served[f]
      BY <2>2, ToComeLive, Zenon DEF iterate_next
    <2>4. steady[f] \subseteq registry /\ registry \subseteq Registrations
          /\ eventReport[f] \in Reports
      BY Zenon DEF IInv, TypeOK, Steady
    <2> QED BY <2>3, <2>4, SelectsAll, Zenon DEF Selected
  <1> QED BY <1>1, EventServiceInvariant, PTL DEF Spec, AllServed
=============================================================================
