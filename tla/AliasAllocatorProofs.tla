------------------------ MODULE AliasAllocatorProofs ------------------------
(***************************************************************************)
(* Proofs about AliasAllocator, for any number of interfaces, nodes, write *)
(* flows and aliases: type correctness, the bookkeeping of waitingClients_ *)
(* and that a duplicate alias is never silent; when answers arrive in time,*)
(* that there is no duplicate, and that what the interfaces remember of    *)
(* each other's nodes is true.                                             *)
(***************************************************************************)
EXTENDS AliasAllocator, NaturalsInduction, WellFoundedInduction, TLAPS

USE AliasCountAssumption, SeedAssumption, CidAssumption, BoundAssumption

\* What the flows rely on while they are busy: the alias they work with is a
\* real alias, the node a real node, and a CID frame is still to be sent.
FlowBusy(f) ==
  /\ f.pc # "waiting" => f.alias \in Aliases
  /\ f.pc = "alloc_cid" => f.seq \in 1..CidFrames
HandlerBusy(h) == h.pc # "waiting" => h.alias \in Aliases
ClientBusy(c) ==
  /\ c.pc # "idle" => c.node \in NodeIDs
  /\ c.pc \in {"amd", "frame"} => c.alias \in Aliases
Busy ==
  /\ \A i \in Ifs : FlowBusy(flow[i]) /\ HandlerBusy(handler[i])
  /\ \A i \in Ifs, c \in Clients : ClientBusy(client[i][c])

\* The inductive invariant.  Busy needs WaitersWait: the client that
\* add_allocated_alias wakes has a node because it waits for an alias.
TInv == TypeOK /\ Busy /\ WaitersWait

-----------------------------------------------------------------------------
(* The operators. *)

\* The alias sequence stays within the width of an alias.
LEMMA SeedAfterType ==
  ASSUME TypeOK, NEW i \in Ifs, NEW k \in Nat
  PROVE  SeedAfter(i, k) \in 0..(AliasCount - 1)
<1>1. seed[i] \in Nat /\ Offset[i] \in Nat
  BY DEF TypeOK
<1>2. k * Offset[i] \in Nat
  BY <1>1
<1>3. seed[i] + k * Offset[i] \in Nat
  BY <1>1, <1>2
<1>4. \A x \in Nat : x % AliasCount \in 0..(AliasCount - 1)
  OBVIOUS
<1> QED
  BY <1>3, <1>4, Zenon DEF SeedAfter

\* The smallest element of a non-empty set of natural numbers is one of them.
LEMMA LowestIn ==
  ASSUME NEW S \in SUBSET Nat, S # {}
  PROVE  Lowest(S) \in S
<1> DEFINE R == {ss \in Nat \X Nat : ss[1] < ss[2]}
<1>1. IsWellFoundedOn(R, Nat)
  BY NatLessThanWellFounded, Zenon DEF OpToRel
<1>2. PICK x \in S : \A y \in S : ~(<<y, x>> \in R)
  <2> HIDE DEF R
  <2> QED
    BY <1>1, WFMin, Zenon
<1>3. ASSUME NEW y \in S PROVE x <= y
  <2>1. <<y, x>> \in R <=> y < x
    <3>1. <<y, x>> \in Nat \X Nat /\ <<y, x>>[1] = y /\ <<y, x>>[2] = x
      BY Zenon
    <3> QED
      BY <3>1, Zenon
  <2> HIDE DEF R
  <2>2. ~(y < x)
    BY <1>2, <2>1, Zenon
  <2> QED
    BY <2>2
<1> QED
  BY <1>3, Zenon DEF Lowest


\* What Broadcast does to each channel.
LEMMA BroadcastEffect ==
  ASSUME TypeOK, NEW i \in Ifs, NEW frame \in Frames, Broadcast(i, frame)
  PROVE  /\ inbox' \in [Ifs -> [Ifs -> Seq(Frames)]]
         /\ rest' \in [Ifs -> [Ifs -> Seq(Frames)]]
         /\ \A s, t \in Ifs :
              inbox'[s][t] = IF s = i /\ t # i THEN Append(inbox[s][t], frame)
                             ELSE inbox[s][t]
<1>1. /\ inbox \in [Ifs -> [Ifs -> Seq(Frames)]]
      /\ rest \in [Ifs -> [Ifs -> Seq(Frames)]]
  BY Zenon DEF TypeOK
<1>2. ASSUME NEW q \in Seq(Frames) PROVE Append(q, frame) \in Seq(Frames)
  OBVIOUS
<1>3. /\ inbox' = [inbox EXCEPT ![i] =
                    [j \in Ifs |-> IF j = i THEN @[j] ELSE Append(@[j], frame)]]
      /\ rest' = [rest EXCEPT ![i] =
                    [j \in Ifs |-> IF j = i THEN @[j] ELSE Append(@[j], frame)]]
  BY Zenon DEF Broadcast
<1> QED
  BY <1>1, <1>2, <1>3, Zenon

\* What the alias caches return.
LEMMA TableType ==
  ASSUME NEW table \in [Aliases -> Owners], NEW n \in Owners, NEW alias \in Aliases
  PROVE  /\ add(table, n, alias) \in [Aliases -> Owners]
         /\ remove(table, alias) \in [Aliases -> Owners]
         /\ \A b \in Aliases :
              /\ remove(table, alias)[b] # "nobody" => table[b] # "nobody" /\ b # alias
              /\ add(table, n, alias)[b] # "nobody" => table[b] # "nobody" \/ b = alias
<1>1. "nobody" \in Owners
  BY Zenon DEF Owners
<1> QED
  BY <1>1, Zenon DEF add, remove

\* lookup finds an alias of the cache, or nothing.
LEMMA LookupType ==
  ASSUME NEW table \in [Aliases -> Owners], NEW n
  PROVE  /\ lookup(table, n) \in 0..(AliasCount - 1)
         /\ lookup(table, n) # 0 => lookup(table, n) \in Aliases /\ table[lookup(table, n)] = n
<1>1. CASE \E a \in Aliases : table[a] = n
  <2>1. lookup(table, n) \in Aliases /\ table[lookup(table, n)] = n
    BY <1>1, Zenon DEF lookup
  <2> QED
    BY <2>1 DEF Aliases
<1>2. CASE ~\E a \in Aliases : table[a] = n
  BY <1>2 DEF lookup
<1> QED
  BY <1>1, <1>2, Zenon

\* The start of a reservation: a usable alias and a full CID sequence.
LEMMA BeginType ==
  ASSUME TInv, NEW i \in Ifs, Begin(i)
  PROVE  /\ flow' \in [Ifs -> Flows] /\ seed' \in [Ifs -> 0..(AliasCount - 1)]
         /\ flow'[i].pc = "alloc_cid" /\ flow'[i].alias \in Aliases
         /\ flow'[i].seq = CidFrames
         /\ \A j \in Ifs \ {i} : flow'[j] = flow[j]
<1> DEFINE k == Lowest(Usable(i))
           f == [pc |-> "alloc_cid", alias |-> SeedAfter(i, k), seq |-> CidFrames,
                 conflict |-> FALSE, triggered |-> FALSE]
<1>1. k \in Usable(i)
  <2>1. Usable(i) \in SUBSET Nat /\ Usable(i) # {}
    BY DEF Begin, Usable
  <2> QED
    BY <2>1, LowestIn, Zenon
<1>2. k \in Nat /\ k + 1 \in Nat /\ SeedAfter(i, k) # 0
  BY <1>1 DEF Usable
<1> HIDE DEF k
<1>3. /\ SeedAfter(i, k) \in 0..(AliasCount - 1)
      /\ SeedAfter(i, k + 1) \in 0..(AliasCount - 1)
  BY <1>2, SeedAfterType, Zenon DEF TInv
<1>4. SeedAfter(i, k) \in Aliases
  BY <1>2, <1>3 DEF Aliases
<1>5. f \in Flows
  BY <1>3 DEF Flows, FlowStates
<1>6. flow' = [flow EXCEPT ![i] = f] /\ seed' = [seed EXCEPT ![i] = SeedAfter(i, k + 1)]
  BY Zenon DEF Begin, k
<1>7. flow \in [Ifs -> Flows] /\ seed \in [Ifs -> 0..(AliasCount - 1)]
  BY Zenon DEF TInv, TypeOK
<1>8. f.pc = "alloc_cid" /\ f.alias = SeedAfter(i, k) /\ f.seq = CidFrames
  BY Zenon
<1> HIDE DEF f
<1> QED
  BY <1>3, <1>4, <1>5, <1>6, <1>7, <1>8, Zenon

-----------------------------------------------------------------------------
(* Type correctness. *)

\* Frames of the flows are frames.
LEMMA FrameType ==
  ASSUME NEW t \in FrameTypes, NEW a \in Aliases, NEW n \in NodeIDs \cup {NoNode}
  PROVE  Frame(t, a, n) \in Frames
BY Zenon DEF Frame, Frames

\* The initial state satisfies the inductive invariant.
LEMMA InitTyped == Init => TInv
<1> SUFFICES ASSUME Init PROVE TInv
  BY Zenon
<1>1. WaitingFlow \in Flows /\ WaitingFlow.pc = "waiting"
  BY DEF WaitingFlow, Flows, FlowStates
<1>2. IdleClient \in ClientRecords /\ IdleClient.pc = "idle"
  BY DEF IdleClient, ClientRecords, ClientStates
<1>3. NoHandling \in Handlers /\ NoHandling.pc = "waiting"
  BY DEF NoHandling, Handlers
<1>4. "nobody" \in Owners /\ 0 \in 0..(AliasCount - 1)
  BY DEF Owners
<1>5. TypeOK
  BY <1>1, <1>2, <1>3, <1>4 DEF Init, TypeOK
<1>6. Busy
  BY <1>1, <1>2, <1>3, Zenon DEF Init, Busy, FlowBusy, HandlerBusy, ClientBusy
<1>7. WaitersWait
  BY <1>2 DEF Init, WaitersWait, QueuedWait
<1> QED
  BY <1>5, <1>6, <1>7, Zenon DEF TInv

\* Updates of one flow, handler or client keep the types of all.
LEMMA FlowUpdate ==
  ASSUME TypeOK, Busy, NEW i \in Ifs, NEW f \in Flows, FlowBusy(f),
         flow' = [flow EXCEPT ![i] = f]
  PROVE  /\ flow' \in [Ifs -> Flows] /\ \A j \in Ifs : FlowBusy(flow'[j])
         /\ flow'[i] = f /\ \A j \in Ifs \ {i} : flow'[j] = flow[j]
BY Zenon DEF TypeOK, Busy

\* The same for a handler.
LEMMA HandlerUpdate ==
  ASSUME TypeOK, Busy, NEW i \in Ifs, NEW h \in Handlers, HandlerBusy(h),
         handler' = [handler EXCEPT ![i] = h]
  PROVE  /\ handler' \in [Ifs -> Handlers] /\ \A j \in Ifs : HandlerBusy(handler'[j])
         /\ handler'[i] = h /\ \A j \in Ifs \ {i} : handler'[j] = handler[j]
BY Zenon DEF TypeOK, Busy

\* The same for a client.
LEMMA ClientUpdate ==
  ASSUME TypeOK, Busy, NEW i \in Ifs, NEW c \in Clients,
         NEW r \in ClientRecords, ClientBusy(r),
         client' = [client EXCEPT ![i][c] = r]
  PROVE  /\ client' \in [Ifs -> [Clients -> ClientRecords]]
         /\ \A j \in Ifs, d \in Clients :
              /\ ClientBusy(client'[j][d])
              /\ client'[j][d] = IF j = i /\ d = c THEN r ELSE client[j][d]
<1>1. client \in [Ifs -> [Clients -> ClientRecords]]
  BY Zenon DEF TypeOK
<1>2. \A j \in Ifs, d \in Clients :
        client'[j][d] = IF j = i /\ d = c THEN r ELSE client[j][d]
  BY <1>1, Zenon
<1> QED
  BY <1>1, <1>2, Zenon DEF Busy

\* Changing the state of a flow.
LEMMA FlowPc ==
  ASSUME NEW f \in Flows, NEW p \in FlowStates
  PROVE  /\ [f EXCEPT !.pc = p] \in Flows
         /\ [f EXCEPT !.pc = p].pc = p /\ [f EXCEPT !.pc = p].alias = f.alias
         /\ [f EXCEPT !.pc = p].seq = f.seq
BY Zenon DEF Flows

\* Marking a conflict in a flow.
LEMMA FlowConflict ==
  ASSUME NEW f \in Flows, NEW t \in BOOLEAN
  PROVE  /\ [f EXCEPT !.conflict = TRUE, !.triggered = t] \in Flows
         /\ [f EXCEPT !.conflict = TRUE, !.triggered = t].pc = f.pc
         /\ [f EXCEPT !.conflict = TRUE, !.triggered = t].alias = f.alias
         /\ [f EXCEPT !.conflict = TRUE, !.triggered = t].seq = f.seq
BY Zenon DEF Flows

\* Changing the state of a client.
LEMMA ClientFields ==
  ASSUME NEW r \in ClientRecords, NEW p \in ClientStates
  PROVE  /\ [r EXCEPT !.pc = p] \in ClientRecords
         /\ [r EXCEPT !.pc = p].pc = p /\ [r EXCEPT !.pc = p].node = r.node
         /\ [r EXCEPT !.pc = p].alias = r.alias
BY Zenon DEF ClientRecords

\* WaitersWait depends on the queues and the clients only.
LEMMA WaitersUnchanged ==
  ASSUME WaitersWait, UNCHANGED <<waiting, client>>
  PROVE  WaitersWait'
BY Zenon DEF WaitersWait

\* Waking the first waiting client, if there is one.
LEMMA Woken ==
  ASSUME NEW q \in Seq(Clients), q # <<>>, NEW cl \in [Clients -> ClientRecords],
         QueuedWait(q, cl)
  PROVE  LET h == Head(q)
             woken == [cl EXCEPT ![h].pc = "woken"]
         IN  /\ Tail(q) \in Seq(Clients) /\ h \in Clients /\ cl[h].pc = "wait"
             /\ woken \in [Clients -> ClientRecords]
             /\ woken[h].pc = "woken" /\ woken[h].node = cl[h].node
             /\ woken[h].alias = cl[h].alias
             /\ \A c \in Clients \ {h} : woken[c] = cl[c]
             /\ QueuedWait(Tail(q), woken)
<1> DEFINE h == Head(q)
           woken == [cl EXCEPT ![h].pc = "woken"]
           t == Tail(q)
<1>1. /\ h \in Clients /\ h = q[1] /\ Len(q) \in Nat /\ 1 \in 1..Len(q)
      /\ t \in Seq(Clients) /\ Len(t) = Len(q) - 1
      /\ \A k \in 1..Len(t) : t[k] = q[k + 1] /\ k + 1 \in 1..Len(q)
  OBVIOUS
<1>2. \A k \in 1..Len(q) : q[k] \in Clients
  OBVIOUS
<1>3. /\ \A k \in 1..Len(q) : cl[q[k]].pc = "wait"
      /\ \A k, l \in 1..Len(q) : q[k] = q[l] => k = l
      /\ \A c \in Clients : cl[c].pc = "wait" => \E k \in 1..Len(q) : q[k] = c
  BY Zenon DEF QueuedWait
<1>4. /\ woken[h] = [cl[h] EXCEPT !.pc = "woken"]
      /\ \A c \in Clients \ {h} : woken[c] = cl[c]
      /\ DOMAIN woken = Clients
  BY <1>1, Zenon
<1>5. "woken" \in ClientStates
  BY Zenon DEF ClientStates
<1>6. /\ woken[h] \in ClientRecords /\ woken[h].pc = "woken"
      /\ woken[h].node = cl[h].node /\ woken[h].alias = cl[h].alias
  BY <1>1, <1>4, <1>5, ClientFields
<1>7. woken \in [Clients -> ClientRecords]
  BY <1>1, <1>4, <1>6, Zenon
<1> HIDE DEF h, woken, t
<1>8. ASSUME NEW k \in 1..Len(t) PROVE woken[t[k]].pc = "wait"
  <2>1. k + 1 # 1 /\ k + 1 \in 1..Len(q) /\ t[k] = q[k + 1]
    BY <1>1
  <2>2. q[k + 1] # h /\ q[k + 1] \in Clients
    BY <1>1, <1>2, <1>3, <2>1, Zenon
  <2> QED
    BY <1>3, <1>4, <2>1, <2>2
<1>9. ASSUME NEW k \in 1..Len(t), NEW l \in 1..Len(t), t[k] = t[l] PROVE k = l
  <2>1. k + 1 = l + 1
    BY <1>1, <1>3, <1>9
  <2> QED
    BY <1>1, <2>1
<1>10. ASSUME NEW c \in Clients, woken[c].pc = "wait"
       PROVE  \E k \in 1..Len(t) : t[k] = c
  <2>1. c # h /\ cl[c].pc = "wait"
    BY <1>4, <1>6, <1>10, Zenon
  <2>2. PICK k \in 1..Len(q) : q[k] = c
    BY <1>3, <2>1, Zenon
  <2>3. k - 1 \in 1..Len(t) /\ (k - 1) + 1 = k
    BY <1>1, <2>1, <2>2
  <2> QED
    BY <1>1, <2>2, <2>3, Zenon
<1>11. QueuedWait(t, woken)
  BY <1>8, <1>9, <1>10, Zenon DEF QueuedWait
<1>12. cl[h].pc = "wait"
  BY <1>1, <1>3, Zenon
<1> QED
  BY <1>1, <1>4, <1>6, <1>7, <1>11, <1>12, Zenon DEF h, woken, t

\* The effect of add_allocated_alias.
LEMMA AddAllocated ==
  ASSUME TypeOK, Busy, WaitersWait, NEW i \in Ifs, NEW alias \in Aliases,
         add_allocated_alias(i, alias)
  PROVE  /\ local' \in [Ifs -> [Aliases -> Owners]] /\ waiting' \in [Ifs -> Seq(Clients)]
         /\ client' \in [Ifs -> [Clients -> ClientRecords]]
         /\ \A j \in Ifs, c \in Clients : ClientBusy(client'[j][c])
         /\ WaitersWait'
         /\ \A j \in Ifs : waiting'[j] = IF j = i /\ waiting[j] # <<>>
                                         THEN Tail(waiting[j]) ELSE waiting[j]
<1>1. local' \in [Ifs -> [Aliases -> Owners]]
  <2>1. local \in [Ifs -> [Aliases -> Owners]] /\ "reserved" \in Owners
    BY Zenon DEF TypeOK, Owners
  <2>2. add(local[i], "reserved", alias) \in [Aliases -> Owners]
    BY <2>1, TableType, Zenon
  <2> QED
    BY <2>1, <2>2, Zenon DEF add_allocated_alias
<1>2. CASE waiting[i] = <<>>
  <2>1. waiting' = waiting /\ client' = client
    BY <1>2, Zenon DEF add_allocated_alias
  <2>2. WaitersWait'
    BY <2>1, WaitersUnchanged, Zenon
  <2> QED
    BY <1>1, <1>2, <2>1, <2>2, Zenon DEF TypeOK, Busy
<1>3. CASE waiting[i] # <<>>
  <2> DEFINE h == Head(waiting[i])
             woken == [client[i] EXCEPT ![h].pc = "woken"]
  <2>1. waiting' = [waiting EXCEPT ![i] = Tail(@)] /\ client' = [client EXCEPT ![i] = woken]
    BY <1>3, Zenon DEF add_allocated_alias
  <2>2. waiting \in [Ifs -> Seq(Clients)] /\ client \in [Ifs -> [Clients -> ClientRecords]]
    BY Zenon DEF TypeOK
  <2>3. QueuedWait(waiting[i], client[i])
    BY Zenon DEF WaitersWait
  <2>4. /\ Tail(waiting[i]) \in Seq(Clients) /\ h \in Clients /\ client[i][h].pc = "wait"
        /\ woken \in [Clients -> ClientRecords]
        /\ woken[h].pc = "woken" /\ woken[h].node = client[i][h].node
        /\ \A c \in Clients \ {h} : woken[c] = client[i][c]
        /\ QueuedWait(Tail(waiting[i]), woken)
    <3> DEFINE q == waiting[i]
               cl == client[i]
    <3>1. q \in Seq(Clients) /\ q # <<>> /\ cl \in [Clients -> ClientRecords] /\ QueuedWait(q, cl)
      BY <1>3, <2>2, <2>3, Zenon
    <3> HIDE DEF q, cl
    <3>2. LET hd == Head(q)
              wk == [cl EXCEPT ![hd].pc = "woken"]
          IN  /\ Tail(q) \in Seq(Clients) /\ hd \in Clients /\ cl[hd].pc = "wait"
              /\ wk \in [Clients -> ClientRecords]
              /\ wk[hd].pc = "woken" /\ wk[hd].node = cl[hd].node
              /\ wk[hd].alias = cl[hd].alias
              /\ \A c \in Clients \ {hd} : wk[c] = cl[c]
              /\ QueuedWait(Tail(q), wk)
      BY <3>1, Woken, Zenon
    <3> QED
      BY <3>2, Zenon DEF q, cl
  <2> HIDE DEF h, woken
  <2>5. /\ waiting' \in [Ifs -> Seq(Clients)] /\ client' \in [Ifs -> [Clients -> ClientRecords]]
        /\ waiting'[i] = Tail(waiting[i]) /\ client'[i] = woken
        /\ \A j \in Ifs \ {i} : waiting'[j] = waiting[j] /\ client'[j] = client[j]
    BY <2>1, <2>2, <2>4, Zenon
  <2>6. ClientBusy(woken[h])
    BY <2>4, Zenon DEF Busy, ClientBusy
  <2>7. ASSUME NEW j \in Ifs, NEW c \in Clients PROVE ClientBusy(client'[j][c])
    BY <2>4, <2>5, <2>6, Zenon DEF Busy
  <2>8. WaitersWait'
    BY <2>4, <2>5, Zenon DEF WaitersWait
  <2> QED
    BY <1>1, <1>3, <2>5, <2>7, <2>8, Zenon
<1> QED
  BY <1>2, <1>3, Zenon

\* Every step of the AliasAllocator flow preserves the inductive invariant.
LEMMA AllocatorTyped ==
  ASSUME TInv, NEW i \in Ifs, AllocatorStep(i)
  PROVE  TInv'
<1>t. TypeOK /\ Busy /\ WaitersWait
  BY Zenon DEF TInv
<1>w. WaitingFlow \in Flows /\ WaitingFlow.pc = "waiting"
  BY DEF WaitingFlow, Flows, FlowStates
<1>f. flow[i].pc # "waiting" => \A t \in FrameTypes : Frame(t, flow[i].alias, NoNode) \in Frames
  BY <1>t, FrameType, Zenon DEF Busy, FlowBusy
<1>1. CASE entry(i)
  <2>1. queue' \in [Ifs -> Nat]
    BY <1>1, <1>t DEF entry, TypeOK
  <2>2. Begin(i)
    BY <1>1, Zenon DEF entry
  <2>3. TypeOK'
    BY <1>1, <1>t, <2>1, <2>2, BeginType, Zenon DEF entry, TypeOK
  <2>4. Busy'
    BY <1>1, <1>t, <2>2, BeginType DEF entry, Busy, FlowBusy
  <2>w. WaitersWait'
    BY <1>1, <1>t, WaitersUnchanged, Zenon DEF entry
  <2> QED
    BY <2>3, <2>4, <2>w, Zenon DEF TInv
<1>2. CASE handle_allocate_for_cid_frame(i)
  <2> DEFINE p == IF flow[i].seq > 0 THEN "alloc_cid" ELSE "sleep"
  <2>1. flow' = [flow EXCEPT ![i] = [flow[i] EXCEPT !.pc = p]]
    BY <1>2, Zenon DEF handle_allocate_for_cid_frame
  <2>2. p \in FlowStates /\ p # "waiting" /\ (p = "alloc_cid" => flow[i].seq > 0)
    BY Zenon DEF FlowStates
  <2> HIDE DEF p
  <2>3. flow[i].seq > 0 => flow[i].seq \in 1..CidFrames
    BY <1>t, SMTT(30) DEF TypeOK, Flows
  <2>4. flow[i] \in Flows /\ flow[i].alias \in Aliases
    BY <1>2, <1>t, Zenon DEF TypeOK, Busy, FlowBusy, handle_allocate_for_cid_frame
  <2> DEFINE f == [flow[i] EXCEPT !.pc = p]
  <2>5. f \in Flows /\ f.pc = p /\ f.alias = flow[i].alias /\ f.seq = flow[i].seq
    BY <2>2, <2>4, FlowPc, Zenon
  <2> HIDE DEF f
  <2>f. FlowBusy(f)
    BY <2>2, <2>3, <2>4, <2>5, Zenon DEF FlowBusy
  <2>6. flow' \in [Ifs -> Flows] /\ \A j \in Ifs : FlowBusy(flow'[j])
    BY <1>t, <2>1, <2>5, <2>f, FlowUpdate, Zenon DEF f
  <2>7. TypeOK' /\ Busy'
    BY <1>2, <1>t, <2>6, Zenon DEF handle_allocate_for_cid_frame, TypeOK, Busy
  <2>w. WaitersWait'
    BY <1>2, <1>t, WaitersUnchanged, Zenon DEF handle_allocate_for_cid_frame
  <2> QED
    BY <2>7, <2>w, Zenon DEF TInv
<1>3. CASE send_cid_frame(i) /\ ~flow[i].conflict
  <2>1. Broadcast(i, Frame("CID", flow[i].alias, NoNode))
    BY <1>3, Zenon DEF send_cid_frame
  <2>2. /\ inbox' \in [Ifs -> [Ifs -> Seq(Frames)]]
        /\ rest' \in [Ifs -> [Ifs -> Seq(Frames)]]
    BY <1>3, <1>t, <1>f, <2>1, BroadcastEffect, Zenon DEF send_cid_frame, FrameTypes
  <2>3. flow[i].seq \in 1..CidFrames
    BY <1>3, <1>t, Zenon DEF send_cid_frame, Busy, FlowBusy
  <2> DEFINE n == flow[i].seq - 1
             f == [flow[i] EXCEPT !.pc = "cid_sent", !.seq = n]
  <2>4. flow' = [flow EXCEPT ![i] = f] /\ seed' = seed
    BY <1>3, <1>t, Zenon DEF send_cid_frame, TypeOK, Flows
  <2>5. f \in Flows /\ FlowBusy(f)
    <3>1. flow[i] \in Flows /\ flow[i].alias \in Aliases
      BY <1>3, <1>t, Zenon DEF TypeOK, Busy, FlowBusy, send_cid_frame
    <3>2. n \in 0..CidFrames /\ "cid_sent" \in FlowStates
      BY <2>3 DEF FlowStates
    <3> HIDE DEF n
    <3>3. f \in Flows /\ f.pc = "cid_sent" /\ f.alias = flow[i].alias
      <4> DEFINE fl == flow[i]
      <4>1. fl \in Flows
        BY <3>1, Zenon
      <4> HIDE DEF fl
      <4>2. [fl EXCEPT !.pc = "cid_sent", !.seq = n] \in Flows
        BY <3>2, <4>1, Zenon DEF Flows
      <4>3. /\ [fl EXCEPT !.pc = "cid_sent", !.seq = n].pc = "cid_sent"
            /\ [fl EXCEPT !.pc = "cid_sent", !.seq = n].alias = fl.alias
        BY <3>2, <4>1, Zenon DEF Flows
      <4> QED
        BY <4>2, <4>3, Zenon DEF fl
    <3> HIDE DEF f
    <3> QED
      BY <3>1, <3>3, Zenon DEF FlowBusy
  <2> HIDE DEF f
  <2>6. flow' \in [Ifs -> Flows] /\ \A j \in Ifs : FlowBusy(flow'[j])
    BY <1>t, <2>4, <2>5, FlowUpdate, Zenon
  <2>7. TypeOK' /\ Busy'
    BY <1>3, <1>t, <2>2, <2>4, <2>6, Zenon DEF send_cid_frame, TypeOK, Busy
  <2>w. WaitersWait'
    BY <1>3, <1>t, WaitersUnchanged, Zenon DEF send_cid_frame
  <2> QED
    BY <2>7, <2>w DEF TInv
<1>4. CASE /\ flow[i].conflict
           /\ send_cid_frame(i) \/ wait_done(i) \/ send_rid_frame(i)
  <2>1. Begin(i) /\ UNCHANGED <<local, remote, queue, waiting, client, handler,
                                inbox, rest, sent, deletes, restarts>>
    BY <1>4, Zenon DEF send_cid_frame, wait_done, send_rid_frame, handle_alias_conflict
  <2>2. TypeOK'
    BY <1>t, <2>1, BeginType, Zenon DEF TypeOK
  <2>3. Busy'
    BY <1>t, <2>1, BeginType DEF Busy, FlowBusy
  <2>w. WaitersWait'
    BY <1>t, <2>1, WaitersUnchanged, Zenon
  <2> QED
    BY <2>2, <2>3, <2>w DEF TInv
<1>5. CASE wait_done(i) /\ ~flow[i].conflict
  <2> DEFINE f == [flow[i] EXCEPT !.pc = "alloc_rid"]
  <2>1. flow' = [flow EXCEPT ![i] = f] /\ seed' = seed
    BY <1>5, Zenon DEF wait_done
  <2>2. f \in Flows /\ FlowBusy(f)
    <3>1. flow[i] \in Flows /\ flow[i].alias \in Aliases /\ "alloc_rid" \in FlowStates
      BY <1>5, <1>t, Zenon DEF TypeOK, Busy, FlowBusy, wait_done, FlowStates
    <3>2. f \in Flows /\ f.pc = "alloc_rid" /\ f.alias = flow[i].alias
      BY <3>1, FlowPc, Zenon
    <3> HIDE DEF f
    <3> QED
      BY <3>1, <3>2, Zenon DEF FlowBusy
  <2> HIDE DEF f
  <2>3. flow' \in [Ifs -> Flows] /\ \A j \in Ifs : FlowBusy(flow'[j])
    BY <1>t, <2>1, <2>2, FlowUpdate, Zenon
  <2>4. TypeOK' /\ Busy'
    BY <1>5, <1>t, <2>1, <2>3, Zenon DEF wait_done, TypeOK, Busy
  <2>w. WaitersWait'
    BY <1>5, <1>t, WaitersUnchanged, Zenon DEF wait_done
  <2> QED
    BY <2>4, <2>w DEF TInv
<1>6. CASE send_rid_frame(i) /\ ~flow[i].conflict
  <2>1. /\ Broadcast(i, Frame("RID", flow[i].alias, NoNode))
        /\ add_allocated_alias(i, flow[i].alias)
        /\ flow' = [flow EXCEPT ![i] = WaitingFlow] /\ seed' = seed
    BY <1>6, Zenon DEF send_rid_frame
  <2>2. /\ inbox' \in [Ifs -> [Ifs -> Seq(Frames)]]
        /\ rest' \in [Ifs -> [Ifs -> Seq(Frames)]]
    BY <1>6, <1>t, <1>f, <2>1, BroadcastEffect, Zenon DEF send_rid_frame, FrameTypes
  <2>3. flow[i].alias \in Aliases
    BY <1>6, <1>t, Zenon DEF send_rid_frame, Busy, FlowBusy
  <2>4. /\ local' \in [Ifs -> [Aliases -> Owners]] /\ waiting' \in [Ifs -> Seq(Clients)]
        /\ client' \in [Ifs -> [Clients -> ClientRecords]]
        /\ \A j \in Ifs, c \in Clients : ClientBusy(client'[j][c])
        /\ WaitersWait'
    BY <1>t, <2>1, <2>3, AddAllocated, Zenon
  <2>5. flow' \in [Ifs -> Flows] /\ \A j \in Ifs : FlowBusy(flow'[j])
    BY <1>t, <1>w, <2>1, FlowUpdate, Zenon DEF FlowBusy
  <2>6. TypeOK' /\ Busy'
    BY <1>6, <1>t, <2>1, <2>2, <2>4, <2>5, Zenon DEF send_rid_frame, TypeOK, Busy
  <2> QED
    BY <2>4, <2>6, Zenon DEF TInv
<1> QED
  BY <1>1, <1>2, <1>3, <1>4, <1>5, <1>6, Zenon DEF AllocatorStep

\* Every step of the AliasConflictHandler preserves it.
LEMMA HandlerTyped ==
  ASSUME TInv, NEW i \in Ifs, HandlerStep(i)
  PROVE  TInv'
<1>t. TypeOK /\ Busy /\ WaitersWait
  BY DEF TInv
<1>n. NoHandling \in Handlers /\ HandlerBusy(NoHandling)
  BY DEF NoHandling, Handlers, HandlerBusy
<1>1. ASSUME NEW j \in Ifs, ConflictEntry(i, j) PROVE TInv'
  <2> DEFINE q == inbox[j][i]
             h == IF local[i][Head(q).src] = "nobody" THEN handler[i]
                  ELSE [pc |-> IF Head(q).type = "CID" THEN "rid" ELSE "release",
                        alias |-> Head(q).src]
  <2>1. q \in Seq(Frames) /\ q # <<>>
    BY <1>1, <1>t DEF ConflictEntry, TypeOK
  <2>2. Tail(q) \in Seq(Frames) /\ Head(q) \in Frames
    BY <2>1
  <2>3. Head(q).src \in Aliases
    BY <2>2, Zenon DEF Frames
  <2>4. inbox' \in [Ifs -> [Ifs -> Seq(Frames)]]
    BY <1>1, <1>t, <2>2, Zenon DEF ConflictEntry, TypeOK
  <2>5. handler' = [handler EXCEPT ![i] = h]
    BY <1>1, Zenon DEF ConflictEntry
  <2>6. h \in Handlers /\ HandlerBusy(h)
    <3>1. handler[i] \in Handlers /\ HandlerBusy(handler[i])
      BY <1>t, Zenon DEF TypeOK, Busy
    <3>2. \A p \in {"rid", "release"}, a \in Aliases :
            [pc |-> p, alias |-> a] \in Handlers /\ HandlerBusy([pc |-> p, alias |-> a])
      BY DEF Handlers, HandlerBusy, Aliases
    <3> QED
      BY <2>3, <3>1, <3>2, Zenon
  <2> HIDE DEF h
  <2>7. handler' \in [Ifs -> Handlers] /\ \A k \in Ifs : HandlerBusy(handler'[k])
    BY <1>t, <2>5, <2>6, HandlerUpdate, Zenon
  <2>8. TypeOK' /\ Busy'
    BY <1>1, <1>t, <2>4, <2>7, Zenon DEF ConflictEntry, TypeOK, Busy
  <2>9. WaitersWait'
    BY <1>1, <1>t, WaitersUnchanged, Zenon DEF ConflictEntry
  <2> QED
    BY <2>8, <2>9, Zenon DEF TInv
<1>2. CASE send_reserved_alias(i)
  <2>1. handler[i].alias \in Aliases
    BY <1>2, <1>t, Zenon DEF send_reserved_alias, Busy, HandlerBusy
  <2>2. Frame("RID", handler[i].alias, NoNode) \in Frames
    BY <2>1, FrameType, Zenon DEF FrameTypes
  <2>3. /\ inbox' \in [Ifs -> [Ifs -> Seq(Frames)]]
        /\ rest' \in [Ifs -> [Ifs -> Seq(Frames)]]
    BY <1>2, <1>t, <2>2, BroadcastEffect, Zenon DEF send_reserved_alias
  <2>4. handler' \in [Ifs -> Handlers] /\ \A k \in Ifs : HandlerBusy(handler'[k])
    BY <1>2, <1>n, <1>t, HandlerUpdate, Zenon DEF send_reserved_alias
  <2>5. TypeOK' /\ Busy'
    BY <1>2, <1>t, <2>3, <2>4, Zenon DEF send_reserved_alias, TypeOK, Busy
  <2>6. WaitersWait'
    BY <1>2, <1>t, WaitersUnchanged, Zenon DEF send_reserved_alias
  <2> QED
    BY <2>5, <2>6 DEF TInv
<1>3. CASE send_release_alias(i)
  <2> DEFINE a == handler[i].alias
             owner == local[i][a]
  <2>1. a \in Aliases /\ local \in [Ifs -> [Aliases -> Owners]]
    BY <1>3, <1>t, Zenon DEF send_release_alias, Busy, HandlerBusy, TypeOK
  <2>2. local' \in [Ifs -> [Aliases -> Owners]]
    <3>1. remove(local[i], a) \in [Aliases -> Owners]
      BY <2>1, Zenon DEF remove, Owners
    <3>2. local' = [local EXCEPT ![i] = remove(local[i], a)]
      BY <1>3, Zenon DEF send_release_alias
    <3> QED
      BY <2>1, <3>1, <3>2, Zenon
  <2>3. owner \in NodeIDs => Frame("AMR", a, owner) \in Frames
    BY <2>1, FrameType, Zenon DEF FrameTypes
  <2>4. IF owner \in NodeIDs THEN Broadcast(i, Frame("AMR", a, owner))
        ELSE UNCHANGED <<inbox, rest>>
    BY <1>3, Zenon DEF send_release_alias
  <2>5. /\ inbox' \in [Ifs -> [Ifs -> Seq(Frames)]]
        /\ rest' \in [Ifs -> [Ifs -> Seq(Frames)]]
    <3>1. CASE owner \in NodeIDs
      BY <1>t, <2>3, <2>4, <3>1, BroadcastEffect, Zenon
    <3>2. CASE owner \notin NodeIDs
      BY <1>t, <2>4, <3>2, Zenon DEF TypeOK
    <3> QED
      BY <3>1, <3>2, Zenon
  <2>6. handler' \in [Ifs -> Handlers] /\ \A k \in Ifs : HandlerBusy(handler'[k])
    BY <1>3, <1>n, <1>t, HandlerUpdate, Zenon DEF send_release_alias
  <2>7. UNCHANGED <<remote, seed, queue, flow, waiting, client, sent, deletes, restarts>>
    BY <1>3, Zenon DEF send_release_alias
  <2>8. TypeOK' /\ Busy'
    BY <1>t, <2>2, <2>5, <2>6, <2>7, Zenon DEF TypeOK, Busy
  <2>9. WaitersWait'
    BY <1>t, <2>7, WaitersUnchanged, Zenon
  <2> QED
    BY <2>8, <2>9 DEF TInv
<1> QED
  BY <1>1, <1>2, <1>3, Zenon DEF HandlerStep

\* So does the delivery of a frame to the other frame handlers.
LEMMA DispatchTyped ==
  ASSUME TInv, NEW i \in Ifs, NEW j \in Ifs, Dispatch(i, j)
  PROVE  TInv'
<1>t. TypeOK /\ Busy /\ WaitersWait
  BY Zenon DEF TInv
<1> DEFINE frame == Head(rest[j][i])
<1>1. rest[j][i] \in Seq(Frames) /\ rest[j][i] # <<>>
  BY <1>t DEF Dispatch, TypeOK
<1>2. Tail(rest[j][i]) \in Seq(Frames) /\ frame \in Frames
  BY <1>1
<1>5. /\ flow' = [flow EXCEPT ![i] = ConflictSeen(flow[i], frame)]
      /\ remote' = [remote EXCEPT ![i] = RemoteUpdated(remote[i], frame)]
      /\ UNCHANGED <<local, seed, queue, waiting, client, handler, inbox, sent,
                     deletes, restarts>>
  BY Zenon DEF Dispatch
<1> HIDE DEF frame
<1>3. frame.src \in Aliases /\ frame.src \in 0..(AliasCount - 1)
  BY <1>2 DEF Frames, Aliases
<1>4. rest' \in [Ifs -> [Ifs -> Seq(Frames)]]
  BY <1>t, <1>2, Zenon DEF Dispatch, TypeOK
<1>6. ConflictSeen(flow[i], frame) \in Flows /\ FlowBusy(ConflictSeen(flow[i], frame))
  <2>1. flow[i] \in Flows /\ FlowBusy(flow[i])
    BY <1>t, Zenon DEF TypeOK, Busy
  <2> DEFINE f == flow[i]
             t == (f.pc = "sleep")
             g == [f EXCEPT !.conflict = TRUE, !.triggered = t]
  <2>2. t \in BOOLEAN /\ f \in Flows
    BY <2>1, Zenon
  <2>3. ConflictSeen(f, frame) = f \/ ConflictSeen(f, frame) = g
    BY Zenon DEF ConflictSeen
  <2> HIDE DEF f, t
  <2>4. g \in Flows /\ g.pc = f.pc /\ g.alias = f.alias /\ g.seq = f.seq
    BY <2>2, FlowConflict, Zenon
  <2> HIDE DEF g
  <2>5. FlowBusy(f) => FlowBusy(g)
    BY <2>4, Zenon DEF FlowBusy
  <2> QED
    BY <2>1, <2>3, <2>4, <2>5, Zenon DEF f
<1>7. flow' \in [Ifs -> Flows] /\ \A k \in Ifs : FlowBusy(flow'[k])
  BY <1>t, <1>5, <1>6, FlowUpdate, Zenon
<1>8. RemoteUpdated(remote[i], frame) \in [NodeIDs -> 0..(AliasCount - 1)]
  <2> DEFINE r == remote[i]
  <2>1. r \in [NodeIDs -> 0..(AliasCount - 1)]
    BY <1>t, Zenon DEF TypeOK
  <2> HIDE DEF r
  <2>2. /\ remote_add(r, frame.node, frame.src) \in [NodeIDs -> 0..(AliasCount - 1)]
        /\ remote_remove(r, frame.node, frame.src) \in [NodeIDs -> 0..(AliasCount - 1)]
    BY <1>3, <2>1 DEF remote_add, remote_remove
  <2>3. RemoteUpdated(r, frame) \in {remote_add(r, frame.node, frame.src),
                                     remote_remove(r, frame.node, frame.src), r}
    BY Zenon DEF RemoteUpdated
  <2> QED
    BY <2>1, <2>2, <2>3, Zenon DEF r
<1>9. remote' \in [Ifs -> [NodeIDs -> 0..(AliasCount - 1)]]
  BY <1>t, <1>5, <1>8, Zenon DEF TypeOK
<1>10. TypeOK' /\ Busy'
  BY <1>t, <1>4, <1>5, <1>7, <1>9, Zenon DEF TypeOK, Busy
<1>11. WaitersWait'
  BY <1>t, <1>5, WaitersUnchanged, Zenon
<1> QED
  BY <1>10, <1>11, Zenon DEF TInv

\* A client that starts to wait is appended.
LEMMA QueuedAppend ==
  ASSUME NEW q \in Seq(Clients), NEW old, NEW new, NEW c \in Clients,
         QueuedWait(q, old), old[c].pc # "wait", new[c].pc = "wait",
         \A d \in Clients \ {c} : new[d] = old[d]
  PROVE  QueuedWait(Append(q, c), new)
<1> DEFINE a == Append(q, c)
           m == Len(q)
<1>1. /\ m \in Nat /\ Len(a) = m + 1 /\ a[m + 1] = c
      /\ \A k \in 1..m : a[k] = q[k] /\ q[k] \in Clients
  OBVIOUS
<1>2. /\ \A k \in 1..m : old[q[k]].pc = "wait" /\ q[k] # c
      /\ \A k, l \in 1..m : q[k] = q[l] => k = l
      /\ \A d \in Clients : old[d].pc = "wait" => \E k \in 1..m : q[k] = d
  BY Zenon DEF QueuedWait
<1> HIDE DEF a, m
<1>3. ASSUME NEW k \in 1..(m + 1) PROVE k = m + 1 \/ k \in 1..m
  BY <1>1
<1>4. ASSUME NEW k \in 1..(m + 1) PROVE new[a[k]].pc = "wait"
  <2>1. CASE k = m + 1
    BY <1>1, <2>1, Zenon
  <2>2. CASE k \in 1..m
    <3>1. a[k] = q[k] /\ q[k] \in Clients /\ q[k] # c /\ old[q[k]].pc = "wait"
      BY <1>1, <1>2, <2>2, Zenon
    <3> QED
      BY <3>1, Zenon
  <2> QED
    BY <1>3, <2>1, <2>2, Zenon
<1>5. ASSUME NEW k \in 1..(m + 1), NEW l \in 1..(m + 1), a[k] = a[l] PROVE k = l
  <2>1. \A j \in 1..m : a[j] = q[j] /\ q[j] # c
    BY <1>1, <1>2, Zenon
  <2>2. (k = m + 1 \/ k \in 1..m) /\ (l = m + 1 \/ l \in 1..m)
    BY <1>3, Zenon
  <2>3. CASE k \in 1..m /\ l \in 1..m
    BY <1>2, <1>5, <2>1, <2>3
  <2>4. ~(k \in 1..m /\ l = m + 1) /\ ~(k = m + 1 /\ l \in 1..m)
    BY <1>1, <1>5, <2>1, Zenon
  <2> QED
    BY <2>2, <2>3, <2>4, Zenon
<1>6. ASSUME NEW d \in Clients, new[d].pc = "wait" PROVE \E k \in 1..(m + 1) : a[k] = d
  <2>1. CASE d = c
    <3>1. m + 1 \in 1..(m + 1)
      BY <1>1
    <3> QED
      BY <1>1, <2>1, <3>1, Zenon
  <2>2. CASE d # c
    <3>1. PICK k \in 1..m : q[k] = d
      BY <1>2, <1>6, <2>2, Zenon
    <3>2. k \in 1..(m + 1)
      BY <1>1
    <3> QED
      BY <1>1, <3>1, <3>2, Zenon
  <2> QED
    BY <2>1, <2>2, Zenon
<1> QED
  BY <1>1, <1>4, <1>5, <1>6, Zenon DEF QueuedWait, a

\* A client that is not waiting stays out of the queue when it changes.
LEMMA WaitersSame ==
  ASSUME TypeOK, WaitersWait, waiting' = waiting, NEW i \in Ifs, NEW c \in Clients,
         client[i][c].pc # "wait", client'[i][c].pc # "wait",
         \A j \in Ifs, d \in Clients : j # i \/ d # c => client'[j][d] = client[j][d]
  PROVE  WaitersWait'
<1>1. ASSUME NEW j \in Ifs PROVE QueuedWait(waiting[j], client'[j])
  <2>1. waiting[j] \in Seq(Clients) /\ QueuedWait(waiting[j], client[j])
    BY Zenon DEF TypeOK, WaitersWait
  <2>2. \A k \in 1..Len(waiting[j]) : waiting[j][k] \in Clients
    BY <2>1
  <2>3. CASE j = i
    <3>1. \A d \in Clients : client'[j][d].pc = "wait" <=> client[j][d].pc = "wait"
      BY <2>3, Zenon
    <3> QED
      BY <2>1, <2>2, <3>1, Zenon DEF QueuedWait
  <2>4. CASE j # i
    BY <2>1, <2>2, <2>4, ZenonT(40) DEF QueuedWait
  <2> QED
    BY <2>3, <2>4, Zenon
<1> QED
  BY <1>1, Zenon DEF WaitersWait

\* What get_allocated_alias leaves behind, with or without a free alias.
LEMMA GetAllocatedTyped ==
  ASSUME TInv, NEW i \in Ifs, NEW c \in Clients, NEW n \in NodeIDs,
         client[i][c].pc # "wait", get_allocated_alias(i, c, n)
  PROVE  /\ local' \in [Ifs -> [Aliases -> Owners]] /\ queue' \in [Ifs -> Nat]
         /\ waiting' \in [Ifs -> Seq(Clients)]
         /\ client' \in [Ifs -> [Clients -> ClientRecords]]
         /\ \A j \in Ifs, d \in Clients : ClientBusy(client'[j][d])
         /\ WaitersWait'
<1>t. TypeOK /\ Busy /\ WaitersWait
  BY Zenon DEF TInv
<1> DEFINE free == Unused(local[i])
           low == Lowest(free)
           more == [queue EXCEPT ![i] = @ + 1]
<1>q. queue \in [Ifs -> Nat] /\ more \in [Ifs -> Nat]
  BY <1>t DEF TypeOK
<1>1. CASE free # {}
  <2>1. /\ local' = [local EXCEPT ![i] = add(local[i], n, low)]
        /\ queue' = more \/ queue' = queue
        /\ client' = [client EXCEPT ![i][c] = [pc |-> "amd", node |-> n, alias |-> low]]
        /\ waiting' = waiting
    BY <1>1, Zenon DEF get_allocated_alias
  <2>2. low \in Aliases
    <3>1. free \in SUBSET Nat
      BY DEF Unused, Aliases
    <3> QED
      BY <1>1, <3>1, LowestIn, Zenon DEF Unused
  <2> HIDE DEF low, free, more
  <2>3. local' \in [Ifs -> [Aliases -> Owners]]
    <3>1. local \in [Ifs -> [Aliases -> Owners]] /\ n \in Owners
      BY <1>t, Zenon DEF TypeOK, Owners
    <3>2. add(local[i], n, low) \in [Aliases -> Owners]
      BY <2>2, <3>1, TableType, Zenon
    <3> QED
      BY <2>1, <3>1, <3>2, Zenon
  <2> DEFINE r == [pc |-> "amd", node |-> n, alias |-> low]
  <2>4. r \in ClientRecords /\ ClientBusy(r) /\ r.pc = "amd"
    BY <2>2 DEF ClientRecords, ClientStates, ClientBusy, Aliases
  <2>5. client' = [client EXCEPT ![i][c] = r]
    BY <2>1, Zenon
  <2> HIDE DEF r
  <2>6. /\ client' \in [Ifs -> [Clients -> ClientRecords]]
        /\ \A j \in Ifs, d \in Clients :
             /\ ClientBusy(client'[j][d])
             /\ client'[j][d] = IF j = i /\ d = c THEN r ELSE client[j][d]
    BY <1>t, <2>4, <2>5, ClientUpdate, ZenonT(40)
  <2>7. WaitersWait'
    <3>1. client'[i][c].pc # "wait" /\ waiting' = waiting
      BY <2>1, <2>4, <2>6, Zenon
    <3>2. \A j \in Ifs, d \in Clients : j # i \/ d # c => client'[j][d] = client[j][d]
      BY <2>6, Zenon
    <3> QED
      BY <1>t, <3>1, <3>2, WaitersSame, Zenon
  <2> QED
    BY <1>t, <1>q, <2>1, <2>3, <2>6, <2>7, Zenon DEF TypeOK
<1>2. CASE free = {}
  <2>1. /\ queue' = more /\ local' = local
        /\ waiting' = [waiting EXCEPT ![i] = Append(@, c)]
        /\ client' = [client EXCEPT ![i][c] = [pc |-> "wait", node |-> n, alias |-> 0]]
    BY <1>2, Zenon DEF get_allocated_alias
  <2> DEFINE r == [pc |-> "wait", node |-> n, alias |-> 0]
  <2>2. r \in ClientRecords /\ ClientBusy(r) /\ r.pc = "wait"
    BY DEF ClientRecords, ClientStates, ClientBusy
  <2>3. client' = [client EXCEPT ![i][c] = r]
    BY <2>1, Zenon
  <2> HIDE DEF r
  <2>4. /\ client' \in [Ifs -> [Clients -> ClientRecords]]
        /\ \A j \in Ifs, d \in Clients :
             /\ ClientBusy(client'[j][d])
             /\ client'[j][d] = IF j = i /\ d = c THEN r ELSE client[j][d]
    BY <1>t, <2>2, <2>3, ClientUpdate, ZenonT(40)
  <2>5. waiting \in [Ifs -> Seq(Clients)]
    BY <1>t, Zenon DEF TypeOK
  <2>6. /\ waiting' \in [Ifs -> Seq(Clients)] /\ waiting'[i] = Append(waiting[i], c)
        /\ \A j \in Ifs \ {i} : waiting'[j] = waiting[j]
    BY <2>1, <2>5
  <2>7. QueuedWait(Append(waiting[i], c), client'[i])
    <3>1. QueuedWait(waiting[i], client[i])
      BY <1>t, Zenon DEF WaitersWait
    <3>2. /\ \A d \in Clients \ {c} : client'[i][d] = client[i][d]
          /\ client'[i][c].pc = "wait"
      BY <2>2, <2>4, Zenon
    <3> DEFINE q == waiting[i]
               old == client[i]
               new == client'[i]
    <3>3. /\ q \in Seq(Clients) /\ QueuedWait(q, old)
          /\ old[c].pc # "wait" /\ new[c].pc = "wait"
          /\ \A d \in Clients \ {c} : new[d] = old[d]
      BY <2>5, <3>1, <3>2, Zenon
    <3> HIDE DEF q, old, new
    <3>4. QueuedWait(Append(q, c), new)
      BY <3>3, QueuedAppend, Zenon
    <3> QED
      BY <3>4, Zenon DEF q, new
  <2>8. ASSUME NEW j \in Ifs PROVE QueuedWait(waiting'[j], client'[j])
    <3>1. CASE j = i
      BY <2>6, <2>7, <3>1, Zenon
    <3>2. CASE j # i
      <4>1. client'[j] = client[j]
        BY <1>t, <2>3, <3>2, Zenon DEF TypeOK
      <4> QED
        BY <1>t, <2>6, <3>2, <4>1, Zenon DEF WaitersWait
    <3> QED
      BY <3>1, <3>2, Zenon
  <2>9. WaitersWait'
    BY <2>8, Zenon DEF WaitersWait
  <2> QED
    BY <1>t, <1>q, <2>1, <2>4, <2>6, <2>9, Zenon DEF TypeOK
<1> QED
  BY <1>1, <1>2, Zenon

\* Every step of a write flow preserves the inductive invariant.
LEMMA ClientTyped ==
  ASSUME TInv, NEW i \in Ifs, NEW c \in Clients,
         ClientStep(i, c) \/ \E n \in NodesOf[i] : find_local_alias(i, c, n)
  PROVE  TInv'
<1>t. TypeOK /\ Busy /\ WaitersWait
  BY Zenon DEF TInv
<1>c. client[i][c] \in ClientRecords /\ ClientBusy(client[i][c])
  BY <1>t, Zenon DEF TypeOK, Busy
<1>1. ASSUME NEW n \in NodesOf[i], find_local_alias(i, c, n) PROVE TInv'
  <2> DEFINE alias == lookup(local[i], n)
  <2>1. n \in NodeIDs
    BY Zenon DEF NodeIDs
  <2>2. alias \in 0..(AliasCount - 1) /\ (alias # 0 => alias \in Aliases)
    BY <1>t, LookupType, Zenon DEF TypeOK
  <2>3. sent' \in [Ifs -> Nat]
    <3>1. sent \in [Ifs -> Nat] /\ i \in Ifs
      BY <1>t, Zenon DEF TypeOK
    <3>2. sent' = [sent EXCEPT ![i] = @ + 1]
      BY <1>1, Zenon DEF find_local_alias
    <3> QED
      BY ONLY <3>1, <3>2
  <2>4. UNCHANGED <<remote, seed, flow, handler, inbox, rest, deletes, restarts>>
    BY <1>1, Zenon DEF find_local_alias
  <2>5. client[i][c].pc # "wait"
    BY <1>1, Zenon DEF find_local_alias
  <2>6. CASE alias = 0
    <3>1. get_allocated_alias(i, c, n)
      BY <1>1, <2>6, Zenon DEF find_local_alias
    <3>2. /\ local' \in [Ifs -> [Aliases -> Owners]] /\ queue' \in [Ifs -> Nat]
          /\ waiting' \in [Ifs -> Seq(Clients)]
          /\ client' \in [Ifs -> [Clients -> ClientRecords]]
          /\ \A j \in Ifs, d \in Clients : ClientBusy(client'[j][d])
          /\ WaitersWait'
      BY <2>1, <2>5, <3>1, GetAllocatedTyped, ZenonT(40)
    <3> QED
      BY <1>t, <2>3, <2>4, <3>2, Zenon DEF TInv, TypeOK, Busy
  <2>7. CASE alias # 0
    <3> DEFINE r == [pc |-> "frame", node |-> n, alias |-> alias]
    <3>1. client' = [client EXCEPT ![i][c] = r] /\ UNCHANGED <<local, queue, waiting>>
      BY <1>1, <2>7, Zenon DEF find_local_alias
    <3> HIDE DEF alias
    <3>2. r \in ClientRecords /\ ClientBusy(r) /\ r.pc = "frame"
      BY <2>1, <2>2, <2>7, Zenon DEF ClientRecords, ClientStates, ClientBusy
    <3> HIDE DEF r
    <3>3. /\ client' \in [Ifs -> [Clients -> ClientRecords]]
          /\ \A j \in Ifs, d \in Clients :
               /\ ClientBusy(client'[j][d])
               /\ client'[j][d] = IF j = i /\ d = c THEN r ELSE client[j][d]
      BY <1>t, <3>1, <3>2, ClientUpdate, ZenonT(40)
    <3>4. client'[i][c].pc # "wait" /\ waiting' = waiting
      BY <3>1, <3>2, <3>3, Zenon
    <3>5. WaitersWait'
      <4>1. \A j \in Ifs, d \in Clients : j # i \/ d # c => client'[j][d] = client[j][d]
        BY <3>3, Zenon
      <4> QED
        BY <1>t, <2>5, <3>4, <4>1, WaitersSame, Zenon
    <3> QED
      BY <1>t, <2>3, <2>4, <3>1, <3>3, <3>5, Zenon DEF TInv, TypeOK, Busy
  <2> QED
    BY <2>6, <2>7, Zenon
<1>2. CASE allocate_new_alias(i, c)
  <2>1. /\ client[i][c].pc = "woken" /\ get_allocated_alias(i, c, client[i][c].node)
        /\ UNCHANGED <<remote, seed, flow, handler, inbox, rest, sent, deletes, restarts>>
    BY <1>2, ZenonT(40) DEF allocate_new_alias
  <2>2. client[i][c].pc # "wait" /\ client[i][c].node \in NodeIDs
    BY <1>c, <2>1, ZenonT(40) DEF ClientBusy
  <2>3. /\ local' \in [Ifs -> [Aliases -> Owners]] /\ queue' \in [Ifs -> Nat]
        /\ waiting' \in [Ifs -> Seq(Clients)]
        /\ client' \in [Ifs -> [Clients -> ClientRecords]]
        /\ \A j \in Ifs, d \in Clients : ClientBusy(client'[j][d])
        /\ WaitersWait'
    BY <2>1, <2>2, GetAllocatedTyped, ZenonT(40)
  <2> QED
    BY <1>t, <2>1, <2>3, Zenon DEF TInv, TypeOK, Busy
<1>3. ASSUME NEW type \in {"AMD", "MSG"}, NEW r \in ClientRecords, ClientBusy(r),
             r.pc # "wait", client[i][c].pc \in {"amd", "frame"}, SendFrame(i, c, type, r)
      PROVE  TInv'
  <2>1. /\ Broadcast(i, Frame(type, client[i][c].alias, client[i][c].node))
        /\ client' = [client EXCEPT ![i][c] = r]
        /\ UNCHANGED <<local, remote, seed, queue, flow, waiting, handler, sent, deletes, restarts>>
    BY <1>3, Zenon DEF SendFrame
  <2>2. client[i][c].alias \in Aliases /\ client[i][c].node \in NodeIDs
    BY <1>3, <1>c, Zenon DEF ClientBusy
  <2>3. Frame(type, client[i][c].alias, client[i][c].node) \in Frames
    BY <2>2, FrameType, Zenon DEF FrameTypes
  <2>4. /\ inbox' \in [Ifs -> [Ifs -> Seq(Frames)]]
        /\ rest' \in [Ifs -> [Ifs -> Seq(Frames)]]
    BY <1>t, <2>1, <2>3, BroadcastEffect, Zenon
  <2>5. /\ client' \in [Ifs -> [Clients -> ClientRecords]]
        /\ \A j \in Ifs, d \in Clients :
             /\ ClientBusy(client'[j][d])
             /\ client'[j][d] = IF j = i /\ d = c THEN r ELSE client[j][d]
    BY <1>t, <1>3, <2>1, ClientUpdate, ZenonT(40)
  <2>6. client[i][c].pc # "wait" /\ client'[i][c].pc # "wait" /\ waiting' = waiting
    BY <1>3, <2>1, <2>5, Zenon
  <2>7. WaitersWait'
    <3>1. \A j \in Ifs, d \in Clients : j # i \/ d # c => client'[j][d] = client[j][d]
      BY <2>5, ZenonT(40)
    <3> QED
      BY <1>t, <2>6, <3>1, WaitersSame, Zenon
  <2> QED
    BY <1>t, <2>1, <2>4, <2>5, <2>7, Zenon DEF TInv, TypeOK, Busy
<1>4. CASE send_amd_frame(i, c)
  <2> DEFINE r == [client[i][c] EXCEPT !.pc = "frame"]
  <2>1. client[i][c].pc = "amd" /\ SendFrame(i, c, "AMD", r)
    BY <1>4, Zenon DEF send_amd_frame
  <2>2. "frame" \in ClientStates
    BY Zenon DEF ClientStates
  <2>3. /\ r \in ClientRecords /\ r.pc = "frame"
        /\ r.node = client[i][c].node /\ r.alias = client[i][c].alias
    BY <1>c, <2>2, ClientFields, Zenon
  <2> HIDE DEF r
  <2>4. ClientBusy(r)
    BY <1>c, <2>1, <2>3, Zenon DEF ClientBusy
  <2> QED
    BY <1>3, <2>1, <2>3, <2>4, Zenon
<1>5. CASE fill_can_frame_buffer(i, c)
  <2>1. IdleClient \in ClientRecords /\ ClientBusy(IdleClient) /\ IdleClient.pc # "wait"
    BY DEF IdleClient, ClientRecords, ClientStates, ClientBusy
  <2> QED
    BY <1>3, <1>5, <2>1, Zenon DEF fill_can_frame_buffer
<1> QED
  BY <1>1, <1>2, <1>4, <1>5, Zenon DEF ClientStep

\* Node deletion, restart and clearing preserve it.
LEMMA AdminTyped ==
  ASSUME TInv, NEW i \in Ifs,
         \/ \E n \in NodesOf[i] : delete_local_node(i, n)
         \/ start_iface(i) \/ clear_reserved_aliases(i)
  PROVE  TInv'
<1>t. TypeOK /\ Busy /\ WaitersWait
  BY Zenon DEF TInv
<1>o. "nobody" \in Owners
  BY Zenon DEF Owners
<1>1. ASSUME NEW n \in NodesOf[i], delete_local_node(i, n) PROVE TInv'
  <2> DEFINE alias == lookup(local[i], n)
  <2>1. n \in NodeIDs
    BY Zenon DEF NodeIDs
  <2>2. alias # 0 => alias \in Aliases
    BY <1>t, LookupType, ZenonT(40) DEF TypeOK
  <2>3. /\ deletes' = deletes + 1 /\ alias # 0
        /\ Broadcast(i, Frame("AMR", alias, n)) /\ add_allocated_alias(i, alias)
        /\ UNCHANGED <<remote, seed, queue, flow, handler, sent, restarts>>
    BY <1>1, Zenon DEF delete_local_node
  <2> HIDE DEF alias
  <2>4. Frame("AMR", alias, n) \in Frames
    BY <2>1, <2>2, <2>3, FrameType, Zenon DEF FrameTypes
  <2>5. /\ inbox' \in [Ifs -> [Ifs -> Seq(Frames)]]
        /\ rest' \in [Ifs -> [Ifs -> Seq(Frames)]]
    BY <1>t, <2>3, <2>4, BroadcastEffect, Zenon
  <2>6. /\ local' \in [Ifs -> [Aliases -> Owners]] /\ waiting' \in [Ifs -> Seq(Clients)]
        /\ client' \in [Ifs -> [Clients -> ClientRecords]]
        /\ \A j \in Ifs, c \in Clients : ClientBusy(client'[j][c])
        /\ WaitersWait'
    BY <1>t, <2>2, <2>3, AddAllocated, ZenonT(40)
  <2> QED
    <3>1. deletes' \in Nat
      <4>1. deletes \in Nat
        BY <1>t, Zenon DEF TypeOK
      <4> QED
        BY ONLY <2>3, <4>1
    <3>2. TypeOK'
      BY <1>t, <2>3, <2>5, <2>6, <3>1, ZenonT(40) DEF TypeOK
    <3>3. Busy'
      BY <1>t, <2>3, <2>6, Zenon DEF Busy
    <3> QED
      BY <2>6, <3>2, <3>3, Zenon DEF TInv
<1>2. CASE start_iface(i)
  <2>1. /\ local' \in [Ifs -> [Aliases -> Owners]]
        /\ remote' \in [Ifs -> [NodeIDs -> 0..(AliasCount - 1)]]
        /\ seed' \in [Ifs -> 0..(AliasCount - 1)] /\ queue' \in [Ifs -> Nat]
        /\ restarts' \in Nat
    <3>1. /\ local \in [Ifs -> [Aliases -> Owners]]
          /\ remote \in [Ifs -> [NodeIDs -> 0..(AliasCount - 1)]]
          /\ seed \in [Ifs -> 0..(AliasCount - 1)] /\ queue \in [Ifs -> Nat]
          /\ restarts \in Nat
      BY <1>t, Zenon DEF TypeOK
    <3>2. InitialSeed[i] \in 0..(AliasCount - 1) /\ 0 \in 0..(AliasCount - 1)
      BY AliasCountAssumption, SeedAssumption
    <3>3. local' \in [Ifs -> [Aliases -> Owners]]
      <4>1. local' = [local EXCEPT ![i] = [a \in Aliases |-> "nobody"]]
        BY <1>2, Zenon DEF start_iface
      <4> QED
        BY ONLY <1>o, <3>1, <4>1, Zenon
    <3>4. remote' \in [Ifs -> [NodeIDs -> 0..(AliasCount - 1)]]
      <4>1. remote' = [remote EXCEPT ![i] = [n \in NodeIDs |-> 0]]
        BY <1>2, Zenon DEF start_iface
      <4> QED
        BY ONLY <3>1, <3>2, <4>1, Zenon
    <3>5. seed' \in [Ifs -> 0..(AliasCount - 1)]
      <4>1. seed' = [seed EXCEPT ![i] = InitialSeed[i]]
        BY <1>2, Zenon DEF start_iface
      <4> QED
        BY ONLY <3>1, <3>2, <4>1, Zenon
    <3>6. queue' \in [Ifs -> Nat] /\ restarts' \in Nat
      <4>1. queue' = [queue EXCEPT ![i] = @ + 1] /\ restarts' = restarts + 1
        BY <1>2, Zenon DEF start_iface
      <4> QED
        BY ONLY <3>1, <4>1
    <3> QED
      BY <3>3, <3>4, <3>5, <3>6, Zenon
  <2>2. UNCHANGED <<flow, waiting, client, handler, inbox, rest, sent, deletes>>
    BY <1>2, Zenon DEF start_iface
  <2>3. WaitersWait'
    BY <1>t, <2>2, WaitersUnchanged, Zenon
  <2> QED
    BY <1>t, <2>1, <2>2, <2>3, ZenonT(40) DEF TInv, TypeOK, Busy
<1>3. CASE clear_reserved_aliases(i)
  <2>1. local' \in [Ifs -> [Aliases -> Owners]] /\ restarts' \in Nat
    <3>1. local \in [Ifs -> [Aliases -> Owners]] /\ restarts \in Nat
      BY <1>t, Zenon DEF TypeOK
    <3> DEFINE cleared == [a \in Aliases |-> IF local[i][a] = "reserved" THEN "nobody"
                                             ELSE local[i][a]]
    <3>2. local' = [local EXCEPT ![i] = cleared] /\ restarts' = restarts + 1
      BY <1>3, <3>1, Zenon DEF clear_reserved_aliases
    <3>3. cleared \in [Aliases -> Owners]
      BY ONLY <1>o, <3>1, i \in Ifs, Zenon
    <3> HIDE DEF cleared
    <3> QED
      BY ONLY <3>1, <3>2, <3>3
  <2>2. UNCHANGED <<remote, seed, queue, flow, waiting, client, handler, inbox,
                    rest, sent, deletes>>
    BY <1>3, Zenon DEF clear_reserved_aliases
  <2>3. WaitersWait'
    BY <1>t, <2>2, WaitersUnchanged, Zenon
  <2> QED
    BY <1>t, <2>1, <2>2, <2>3, Zenon DEF TInv, TypeOK, Busy
<1> QED
  BY <1>1, <1>2, <1>3, Zenon

\* TInv is inductive.
LEMMA TInvNext == TInv /\ [Next]_vars => TInv'
<1>1. ASSUME TInv, Next PROVE TInv'
  BY <1>1, AllocatorTyped, HandlerTyped, DispatchTyped, ClientTyped, AdminTyped, Zenon DEF Next
<1>2. ASSUME TInv, UNCHANGED vars PROVE TInv'
  <2>1. WaitersWait'
    BY <1>2, WaitersUnchanged, Zenon DEF TInv, vars
  <2> QED
    BY <1>2, <2>1, Zenon DEF TInv, TypeOK, Busy, vars
<1> QED
  BY <1>1, <1>2, Zenon

\* The allocator, its conflict handler and the write flows never leave their
\* types: aliases stay 12 bits wide and no frame is sent with source alias 0.
THEOREM AllocatorTypeOK == Spec => []TypeOK
<1>1. Spec => []TInv
  BY InitTyped, TInvNext, PTL DEF Spec
<1>2. TInv => TypeOK
  BY Zenon DEF TInv
<1> QED
  BY <1>1, <1>2, PTL

\* Only waiting write flows are in waitingClients_, each once, so a wakeup of
\* add_allocated_alias always reaches a flow that waits for it.
THEOREM AllocatorWaitersWait == Spec => []WaitersWait
<1>1. Spec => []TInv
  BY InitTyped, TInvNext, PTL DEF Spec
<1>2. TInv => WaitersWait
  BY Zenon DEF TInv
<1> QED
  BY <1>1, <1>2, PTL

-----------------------------------------------------------------------------
(* Every waiting write flow has an allocation queued or running for it. *)

Running(f) == IF f.pc = "waiting" THEN 0 ELSE 1

\* Pending counts the queued and the running allocation.
LEMMA PendingIs ==
  ASSUME NEW j \in Ifs
  PROVE  Pending(j) = queue[j] + Running(flow[j]) /\ Running(flow[j]) \in 0..1
BY DEF Pending, Running

\* Waking a client takes exactly one client off the queue.
LEMMA WaitingShrinks ==
  ASSUME TypeOK, NEW i \in Ifs,
         \A j \in Ifs : waiting'[j] = IF j = i /\ waiting[j] # <<>>
                                     THEN Tail(waiting[j]) ELSE waiting[j]
  PROVE  /\ Len(waiting'[i]) <= Len(waiting[i]) /\ Len(waiting'[i]) \in Nat
         /\ waiting[i] # <<>> => Len(waiting'[i]) = Len(waiting[i]) - 1
<1> DEFINE q == waiting[i]
           p == waiting'[i]
<1>1. q \in Seq(Clients)
  <2>1. waiting \in [Ifs -> Seq(Clients)]
    BY Zenon DEF TypeOK
  <2> QED
    BY ONLY <2>1, i \in Ifs, Zenon
<1>2. (q # <<>> => p = Tail(q)) /\ (q = <<>> => p = q)
  BY Zenon
<1> HIDE DEF p, q
<1>3. /\ Len(p) <= Len(q) /\ Len(p) \in Nat
      /\ q # <<>> => Len(p) = Len(q) - 1
  BY ONLY <1>1, <1>2
<1> QED
  BY <1>3, Zenon DEF p, q

\* The length of a sequence is a number.
LEMMA LenNat ==
  ASSUME NEW S, NEW s \in Seq(S)
  PROVE  Len(s) \in Nat
OBVIOUS

\* One interface changes, and its queue of clients grows no more than the
\* work of its allocator.
LEMMA CoveredStep ==
  ASSUME TypeOK, TypeOK', WaitersCovered, NEW i \in Ifs,
         \A j \in Ifs \ {i} : /\ waiting'[j] = waiting[j] /\ queue'[j] = queue[j]
                              /\ Running(flow'[j]) = Running(flow[j]),
         \/ waiting'[i] = <<>>
         \/ /\ Len(waiting'[i]) <= Len(waiting[i]) /\ queue'[i] >= queue[i]
            /\ Running(flow'[i]) = Running(flow[i])
         \/ /\ Len(waiting'[i]) = Len(waiting[i]) + 1 /\ queue'[i] = queue[i] + 1
            /\ Running(flow'[i]) = Running(flow[i])
         \/ /\ waiting'[i] = waiting[i] /\ queue'[i] = queue[i] - 1
            /\ Running(flow'[i]) = 1 /\ Running(flow[i]) = 0
         \/ /\ Len(waiting'[i]) = Len(waiting[i]) - 1 /\ queue'[i] = queue[i]
            /\ Running(flow'[i]) = 0 /\ Running(flow[i]) = 1
  PROVE  WaitersCovered'
<1>1. ASSUME NEW j \in Ifs PROVE Len(waiting'[j]) <= queue'[j] + Running(flow'[j])
  <2>0. /\ waiting[j] \in Seq(Clients) /\ waiting'[j] \in Seq(Clients)
        /\ queue[j] \in Nat /\ queue'[j] \in Nat
    BY Zenon DEF TypeOK
  <2> DEFINE w == Len(waiting[j])
             ww == Len(waiting'[j])
             q == queue[j]
             qq == queue'[j]
             r == Running(flow[j])
             rr == Running(flow'[j])
  <2>1. w \in Nat /\ ww \in Nat /\ q \in Nat /\ qq \in Nat
    <3>1. Len(waiting[j]) \in Nat /\ Len(waiting'[j]) \in Nat
      BY ONLY <2>0, LenNat, Zenon
    <3> QED
      BY ONLY <2>0, <3>1, Zenon
  <2>2. r \in {0, 1} /\ rr \in {0, 1}
    BY Zenon DEF Running
  <2>3. w <= q + r
    BY PendingIs, Zenon DEF WaitersCovered
  <2>4. \/ ww = 0 \/ (ww = w /\ qq = q /\ rr = r)
        \/ (ww <= w /\ qq >= q /\ rr = r) \/ (ww = w + 1 /\ qq = q + 1 /\ rr = r)
        \/ (ww = w /\ qq = q - 1 /\ rr = 1 /\ r = 0)
        \/ (ww = w - 1 /\ qq = q /\ rr = 0 /\ r = 1)
    <3>1. CASE j # i
      BY <3>1, Zenon
    <3>2. CASE j = i
      BY <3>2, Zenon
    <3> QED
      BY <3>1, <3>2, Zenon
  <2> HIDE DEF w, ww, q, qq, r, rr
  <2>5. ww <= qq + rr
    BY <2>1, <2>2, <2>3, <2>4, SMTT(30)
  <2> QED
    BY <2>5, Zenon DEF ww, qq, rr
<1> QED
  BY <1>1, Zenon DEF WaitersCovered, Pending, Running

\* Every step keeps the waiting clients covered.
LEMMA CoveredNext ==
  ASSUME TInv, TInv', WaitersCovered, Next
  PROVE  WaitersCovered'
<1>t. TypeOK /\ TypeOK' /\ Busy /\ WaitersWait
  BY Zenon DEF TInv
<1>s. \A j \in Ifs : /\ waiting[j] \in Seq(Clients) /\ waiting'[j] \in Seq(Clients)
                     /\ queue[j] \in Nat /\ queue'[j] \in Nat
  BY <1>t, Zenon DEF TypeOK
<1>l. \A j \in Ifs : /\ Len(waiting[j]) \in Nat /\ Len(waiting'[j]) \in Nat
                     /\ queue[j] \in Nat /\ queue'[j] \in Nat
                     /\ Running(flow[j]) \in {0, 1} /\ Running(flow'[j]) \in {0, 1}
  BY <1>s DEF Running
<1>1. ASSUME NEW i \in Ifs, AllocatorStep(i) PROVE WaitersCovered'
  <2>1. ASSUME Begin(i)
        PROVE  /\ Running(flow'[i]) = 1
               /\ \A j \in Ifs \ {i} : Running(flow'[j]) = Running(flow[j])
    BY <2>1, BeginType, Zenon DEF Running
  <2>2. CASE entry(i)
    <3>1. /\ Running(flow[i]) = 0 /\ queue'[i] = queue[i] - 1 /\ waiting' = waiting
          /\ \A j \in Ifs \ {i} : queue'[j] = queue[j]
      BY <2>2, <1>t, Zenon DEF entry, TypeOK, Running
    <3>2. Begin(i)
      BY <2>2, ZenonT(40) DEF entry
    <3> QED
      BY <1>t, <2>1, <3>1, <3>2, CoveredStep, Zenon
  <2>3. ASSUME waiting' = waiting, queue' = queue,
               \A j \in Ifs : Running(flow'[j]) = Running(flow[j])
        PROVE  WaitersCovered'
    <3>1. Len(waiting'[i]) <= Len(waiting[i]) /\ queue'[i] >= queue[i]
      BY <1>l, <2>3
    <3> QED
      BY <1>t, <2>3, <3>1, CoveredStep, ZenonT(40)
  <2>4. CASE handle_allocate_for_cid_frame(i)
    <3>1. waiting' = waiting /\ queue' = queue /\ flow[i].pc = "cid_sent"
      BY <2>4, Zenon DEF handle_allocate_for_cid_frame
    <3>2. flow'[i].pc # "waiting" /\ \A j \in Ifs \ {i} : flow'[j] = flow[j]
      <4> DEFINE p == IF flow[i].seq > 0 THEN "alloc_cid" ELSE "sleep"
      <4>1. flow' = [flow EXCEPT ![i].pc = p] /\ p # "waiting"
        BY <2>4, Zenon DEF handle_allocate_for_cid_frame
      <4> HIDE DEF p
      <4> QED
        BY <4>1, <1>t DEF TypeOK, Flows
    <3> QED
      BY <2>3, <3>1, <3>2, Zenon DEF Running
  <2>5. CASE send_cid_frame(i) /\ ~flow[i].conflict
    <3>1. waiting' = waiting /\ queue' = queue /\ flow[i].pc = "alloc_cid"
      BY <2>5, Zenon DEF send_cid_frame
    <3>2. flow'[i].pc # "waiting" /\ \A j \in Ifs \ {i} : flow'[j] = flow[j]
      <4>1. flow' = [flow EXCEPT ![i].pc = "cid_sent", ![i].seq = @ - 1]
        BY <2>5, Zenon DEF send_cid_frame
      <4>2. flow[i] \in Flows /\ flow \in [Ifs -> Flows]
        BY <1>t, Zenon DEF TypeOK
      <4> DEFINE n == flow[i].seq - 1
                 g == [flow[i] EXCEPT !.pc = "cid_sent", !.seq = n]
      <4>3. flow'[i] = g /\ \A j \in Ifs \ {i} : flow'[j] = flow[j]
        BY <4>1, <4>2, Zenon DEF Flows
      <4> HIDE DEF n
      <4>4. g.pc = "cid_sent"
        BY <4>2, Zenon DEF Flows
      <4> QED
        BY <4>3, <4>4, Zenon
    <3> QED
      BY <2>3, <3>1, <3>2, Zenon DEF Running
  <2>6. CASE wait_done(i) /\ ~flow[i].conflict
    <3>1. waiting' = waiting /\ queue' = queue /\ flow[i].pc = "sleep"
      BY <2>6, Zenon DEF wait_done
    <3>2. flow'[i].pc # "waiting" /\ \A j \in Ifs \ {i} : flow'[j] = flow[j]
      <4>1. flow' = [flow EXCEPT ![i].pc = "alloc_rid"]
        BY <2>6, Zenon DEF wait_done
      <4> QED
        BY <4>1, <1>t DEF TypeOK, Flows
    <3> QED
      BY <2>3, <3>1, <3>2, Zenon DEF Running
  <2>7. CASE /\ flow[i].conflict
             /\ send_cid_frame(i) \/ wait_done(i) \/ send_rid_frame(i)
    <3>1. Begin(i) /\ waiting' = waiting /\ queue' = queue /\ flow[i].pc # "waiting"
      BY <2>7, Zenon DEF send_cid_frame, wait_done, send_rid_frame, handle_alias_conflict
    <3> QED
      BY <2>1, <2>3, <3>1, Zenon DEF Running
  <2>8. CASE send_rid_frame(i) /\ ~flow[i].conflict
    <3>1. /\ flow[i].pc = "alloc_rid" /\ add_allocated_alias(i, flow[i].alias)
          /\ flow' = [flow EXCEPT ![i] = WaitingFlow] /\ queue' = queue
      BY <2>8, Zenon DEF send_rid_frame
    <3>2. flow[i].alias \in Aliases
      BY <1>t, <3>1, Zenon DEF Busy, FlowBusy
    <3>3. \A j \in Ifs : waiting'[j] = IF j = i /\ waiting[j] # <<>>
                                       THEN Tail(waiting[j]) ELSE waiting[j]
      BY <1>t, <3>1, <3>2, AddAllocated, Zenon
    <3>4. /\ Running(flow[i]) = 1 /\ Running(flow'[i]) = 0
          /\ \A j \in Ifs \ {i} : flow'[j] = flow[j]
      BY <1>t, <3>1, Zenon DEF TypeOK, Running, WaitingFlow
    <3>5. waiting[i] # <<>> => Len(waiting'[i]) = Len(waiting[i]) - 1
      BY <1>t, <3>3, WaitingShrinks, Zenon
    <3>6. \/ waiting'[i] = <<>>
          \/ Len(waiting'[i]) = Len(waiting[i]) - 1 /\ queue'[i] = queue[i]
      BY <3>1, <3>3, <3>5, Zenon
    <3> QED
      BY <1>t, <3>1, <3>3, <3>4, <3>6, CoveredStep, Zenon
  <2> QED
    BY <1>1, <2>2, <2>4, <2>5, <2>6, <2>7, <2>8, Zenon DEF AllocatorStep
<1>2. ASSUME UNCHANGED <<waiting, queue>>,
             \A j \in Ifs : flow'[j].pc = flow[j].pc
      PROVE  WaitersCovered'
  BY <1>2, Zenon DEF WaitersCovered, Pending
<1>3. ASSUME NEW i \in Ifs, HandlerStep(i) PROVE WaitersCovered'
  <2>1. UNCHANGED <<waiting, queue, flow>>
    BY <1>3, Zenon DEF HandlerStep, ConflictEntry, send_reserved_alias, send_release_alias
  <2> QED
    BY <1>2, <2>1, Zenon
<1>4. ASSUME NEW i \in Ifs, NEW j \in Ifs, Dispatch(i, j) PROVE WaitersCovered'
  <2> DEFINE f == flow[i]
             frame == Head(rest[j][i])
  <2>1. /\ waiting' = waiting /\ queue' = queue
        /\ flow' = [flow EXCEPT ![i] = ConflictSeen(f, frame)]
    BY <1>4, Zenon DEF Dispatch
  <2>2. f \in Flows
    BY <1>t, Zenon DEF TypeOK
  <2> HIDE DEF f, frame
  <2>3. ConflictSeen(f, frame).pc = f.pc
    <3> DEFINE t == (f.pc = "sleep")
               g == [f EXCEPT !.conflict = TRUE, !.triggered = t]
    <3>1. ConflictSeen(f, frame) = f \/ ConflictSeen(f, frame) = g
      BY Zenon DEF ConflictSeen
    <3>2. t \in BOOLEAN
      BY Zenon
    <3> HIDE DEF t
    <3>3. g.pc = f.pc
      BY <2>2, <3>2, FlowConflict, Zenon
    <3> QED
      BY <3>1, <3>3, Zenon
  <2>4. \A k \in Ifs : flow'[k].pc = flow[k].pc
    BY <1>t, <2>1, <2>3, Zenon DEF TypeOK, f
  <2> QED
    BY <1>2, <2>1, <2>4, Zenon
<1>5. ASSUME NEW i \in Ifs, NEW c \in Clients, NEW n, get_allocated_alias(i, c, n),
             flow' = flow
      PROVE  WaitersCovered'
  <2>1. CASE Unused(local[i]) # {}
    <3>1. waiting' = waiting
      BY <1>5, <2>1, Zenon DEF get_allocated_alias
    <3>2. queue'[i] >= queue[i] /\ \A j \in Ifs \ {i} : queue'[j] = queue[j]
      <4>1. queue' = queue \/ queue' = [queue EXCEPT ![i] = @ + 1]
        BY <1>5, <2>1, Zenon DEF get_allocated_alias
      <4>2. queue \in [Ifs -> Nat]
        BY <1>t, Zenon DEF TypeOK
      <4> QED
        BY <4>1, <4>2
    <3>3. queue'[i] \in Nat
      BY <1>t, Zenon DEF TypeOK
    <3>4. Len(waiting'[i]) <= Len(waiting[i])
      BY <1>l, <3>1, SMTT(30)
    <3> QED
      BY <1>5, <1>t, <3>1, <3>2, <3>4, CoveredStep, Zenon
  <2>2. CASE Unused(local[i]) = {}
    <3>1. waiting' = [waiting EXCEPT ![i] = Append(@, c)] /\ queue' = [queue EXCEPT ![i] = @ + 1]
      BY <1>5, <2>2, Zenon DEF get_allocated_alias
    <3>2. /\ Len(waiting'[i]) = Len(waiting[i]) + 1 /\ queue'[i] = queue[i] + 1
          /\ \A j \in Ifs \ {i} : waiting'[j] = waiting[j] /\ queue'[j] = queue[j]
      BY <1>t, <3>1 DEF TypeOK
    <3> QED
      BY <1>5, <1>t, <3>2, CoveredStep, Zenon
  <2> QED
    BY <2>1, <2>2, Zenon
<1>6. ASSUME NEW i \in Ifs, NEW c \in Clients, ClientStep(i, c) PROVE WaitersCovered'
  <2>1. CASE allocate_new_alias(i, c)
    BY <1>5, <2>1, Zenon DEF allocate_new_alias
  <2>2. CASE send_amd_frame(i, c) \/ fill_can_frame_buffer(i, c)
    <3>1. UNCHANGED <<waiting, queue, flow>>
      BY <2>2, Zenon DEF send_amd_frame, fill_can_frame_buffer, SendFrame
    <3> QED
      BY <1>2, <3>1, Zenon
  <2> QED
    BY <1>6, <2>1, <2>2, Zenon DEF ClientStep
<1>7. ASSUME NEW i \in Ifs, NEW c \in Clients, NEW n, find_local_alias(i, c, n)
      PROVE  WaitersCovered'
  <2>1. CASE lookup(local[i], n) = 0
    BY <1>5, <1>7, <2>1, Zenon DEF find_local_alias
  <2>2. CASE lookup(local[i], n) # 0
    <3>1. UNCHANGED <<waiting, queue, flow>>
      BY <1>7, <2>2, Zenon DEF find_local_alias
    <3> QED
      BY <1>2, <3>1
  <2> QED
    BY <2>1, <2>2, Zenon
<1>8. ASSUME NEW i \in Ifs, NEW n \in NodesOf[i], delete_local_node(i, n)
      PROVE  WaitersCovered'
  <2> DEFINE alias == lookup(local[i], n)
  <2>1. /\ alias # 0 /\ add_allocated_alias(i, alias) /\ queue' = queue /\ flow' = flow
    BY <1>8, Zenon DEF delete_local_node
  <2>2. alias \in Aliases
    BY <1>t, <2>1, LookupType, ZenonT(40) DEF TypeOK
  <2>3. \A j \in Ifs : waiting'[j] = IF j = i /\ waiting[j] # <<>>
                                     THEN Tail(waiting[j]) ELSE waiting[j]
    BY <1>t, <2>1, <2>2, AddAllocated, ZenonT(40)
  <2>4. Len(waiting'[i]) <= Len(waiting[i]) /\ Len(waiting'[i]) \in Nat
    BY <1>t, <2>3, WaitingShrinks, Zenon
  <2>5. queue'[i] >= queue[i]
    BY <1>l, <2>1, SMTT(30)
  <2> QED
    BY <1>t, <2>1, <2>3, <2>4, <2>5, CoveredStep, Zenon
<1>9. ASSUME NEW i \in Ifs, start_iface(i) PROVE WaitersCovered'
  <2>1. /\ waiting' = waiting /\ flow' = flow /\ queue'[i] = queue[i] + 1
        /\ \A j \in Ifs \ {i} : queue'[j] = queue[j]
    BY <1>9, <1>t, Zenon DEF start_iface, TypeOK
  <2>2. Len(waiting'[i]) \in Nat /\ Len(waiting'[i]) = Len(waiting[i])
        /\ queue[i] \in Nat
    BY ONLY <1>l, <1>9, <2>1, Zenon
  <2>3. Len(waiting'[i]) <= Len(waiting[i]) /\ queue'[i] >= queue[i]
    BY ONLY <2>1, <2>2
  <2> QED
    BY <1>t, <2>1, <2>3, CoveredStep, Zenon
<1>10. ASSUME NEW i \in Ifs, clear_reserved_aliases(i) PROVE WaitersCovered'
  BY <1>2, <1>10, Zenon DEF clear_reserved_aliases
<1> QED
  BY <1>1, <1>3, <1>4, <1>6, <1>7, <1>8, <1>9, <1>10, Zenon DEF Next

\* No write flow is stranded in waitingClients_: whatever other flows take,
\* return or lose, each waiting one has an allocation queued or running.
THEOREM AllocatorWaitersCovered == Spec => []WaitersCovered
<1>1. Init => WaitersCovered
  BY DEF Init, WaitersCovered, Pending, WaitingFlow
<1>2. TInv /\ TInv' /\ WaitersCovered /\ [Next]_vars => WaitersCovered'
  <2>1. ASSUME UNCHANGED vars, WaitersCovered PROVE WaitersCovered'
    BY <2>1, ZenonT(40) DEF vars, WaitersCovered, Pending
  <2> QED
    BY <2>1, CoveredNext, Zenon
<1>3. Spec => []TInv
  BY InitTyped, TInvNext, PTL DEF Spec
<1> QED
  BY <1>1, <1>2, <1>3, PTL DEF Spec

-----------------------------------------------------------------------------
(* Duplicate aliases are never silent. *)

Holds(i, a) == local[i][a] # "nobody"

\* A broadcast only adds to the frames under way.
LEMMA UnderwayKept ==
  ASSUME TypeOK, NEW i \in Ifs, NEW frame \in Frames, Broadcast(i, frame),
         NEW s \in Ifs, NEW t \in Ifs, NEW a \in Aliases, Underway(s, t, a),
         handler[s].pc = "release" /\ handler[s].alias = a
           => handler'[s].pc = "release" /\ handler'[s].alias = a
  PROVE  Underway(s, t, a)'
<1> DEFINE q == inbox[t][s]
           p == inbox'[t][s]
<1>0. \A u, v \in Ifs : inbox'[u][v] = IF u = i /\ v # i THEN Append(inbox[u][v], frame)
                                       ELSE inbox[u][v]
  <2>1. TypeOK /\ i \in Ifs /\ frame \in Frames /\ Broadcast(i, frame)
    BY ZenonT(40)
  <2> QED
    BY ONLY <2>1, BroadcastEffect, Zenon
<1>1. p = q \/ p = Append(q, frame)
  BY <1>0, Zenon
<1>2. q \in Seq(Frames)
  <2>1. inbox \in [Ifs -> [Ifs -> Seq(Frames)]]
    BY Zenon DEF TypeOK
  <2> QED
    BY ONLY <2>1, s \in Ifs, t \in Ifs, Zenon
<1>3. CASE \E k \in 1..Len(q) : q[k].src = a /\ q[k].type # "CID"
  <2>1. PICK k \in 1..Len(q) : q[k].src = a /\ q[k].type # "CID"
    BY ONLY <1>3, Zenon
  <2>2. k \in 1..Len(p) /\ p[k] = q[k]
    <3> HIDE DEF p, q
    <3>1. CASE p = q
      BY <3>1, Zenon
    <3>2. CASE p = Append(q, frame)
      BY <1>2, <3>2
    <3> QED
      BY <1>1, <3>1, <3>2, Zenon
  <2> QED
    BY <2>1, <2>2, Zenon DEF Underway
<1>4. CASE handler[s].pc = "release" /\ handler[s].alias = a
  BY <1>4, Zenon DEF Underway
<1> QED
  BY <1>3, <1>4, Zenon DEF Underway

\* A frame that was just sent with source alias a and is no CID frame.
LEMMA UnderwaySent ==
  ASSUME TypeOK, NEW i \in Ifs, NEW frame \in Frames, Broadcast(i, frame),
         NEW s \in Ifs, s # i, NEW a \in Aliases, frame.src = a, frame.type # "CID"
  PROVE  Underway(s, i, a)'
<1> DEFINE q == inbox[i][s]
           p == inbox'[i][s]
<1>0. \A u, v \in Ifs : inbox'[u][v] = IF u = i /\ v # i THEN Append(inbox[u][v], frame)
                                       ELSE inbox[u][v]
  BY BroadcastEffect, Zenon
<1>1. p = Append(q, frame)
  BY <1>0, Zenon
<1>2. q \in Seq(Frames)
  BY DEF TypeOK
<1>3. Len(q) + 1 \in 1..Len(p) /\ p[Len(q) + 1] = frame
  BY <1>1, <1>2, SMTT(30)
<1> QED
  BY <1>3, Zenon DEF Underway

\* The step of one interface i that broadcasts, or changes nothing others see.
LEMMA SilentBroadcast ==
  ASSUME TypeOK, NoSilentDuplicate, NEW i \in Ifs, NEW frame \in Frames,
         Broadcast(i, frame),
         \A s \in Ifs, a \in Aliases : Holds(s, a)' => Holds(s, a),
         \A s \in Ifs, a \in Aliases :
           Holds(s, a)' /\ handler[s].pc = "release" /\ handler[s].alias = a
             => handler'[s].pc = "release" /\ handler'[s].alias = a
  PROVE  NoSilentDuplicate'
<1>1. ASSUME NEW s \in Ifs, NEW t \in Ifs, NEW a \in Aliases,
             s # t, Holds(s, a)', Holds(t, a)'
      PROVE  Underway(s, t, a)' \/ Underway(t, s, a)'
  <2>1. Underway(s, t, a) \/ Underway(t, s, a)
    BY <1>1, Zenon DEF NoSilentDuplicate, Holds
  <2> QED
    BY <1>1, <2>1, UnderwayKept, Zenon
<1> QED
  BY <1>1, Zenon DEF NoSilentDuplicate, Holds

\* The same for a step that sends nothing.
LEMMA SilentUnchanged ==
  ASSUME NoSilentDuplicate, inbox' = inbox,
         \A s \in Ifs, a \in Aliases : Holds(s, a)' => Holds(s, a),
         \A s \in Ifs, a \in Aliases :
           Holds(s, a)' /\ handler[s].pc = "release" /\ handler[s].alias = a
             => handler'[s].pc = "release" /\ handler'[s].alias = a
  PROVE  NoSilentDuplicate'
<1>1. ASSUME NEW s \in Ifs, NEW t \in Ifs, NEW a \in Aliases,
             s # t, Holds(s, a)', Holds(t, a)'
      PROVE  Underway(s, t, a)' \/ Underway(t, s, a)'
  <2>1. Underway(s, t, a) \/ Underway(t, s, a)
    BY <1>1, Zenon DEF NoSilentDuplicate, Holds
  <2> QED
    BY <1>1, <2>1, Zenon DEF Underway
<1> QED
  BY <1>1, Zenon DEF NoSilentDuplicate, Holds

\* Every step preserves NoSilentDuplicate.
LEMMA SilentNext ==
  ASSUME TInv, NoSilentDuplicate, Next
  PROVE  NoSilentDuplicate'
<1>t. TypeOK /\ Busy
  BY Zenon DEF TInv
<1>l. \A j \in Ifs : local[j] \in [Aliases -> Owners]
  BY <1>t, Zenon DEF TypeOK
<1>1. ASSUME UNCHANGED <<local, inbox, handler>> PROVE NoSilentDuplicate'
  BY <1>1, SilentUnchanged, Zenon DEF Holds
<1>2. ASSUME NEW i \in Ifs, AllocatorStep(i) PROVE NoSilentDuplicate'
  <2>1. CASE entry(i) \/ handle_allocate_for_cid_frame(i) \/ wait_done(i)
    BY <1>1, <2>1, Zenon DEF entry, handle_allocate_for_cid_frame, wait_done
  <2>2. CASE flow[i].conflict /\ (send_cid_frame(i) \/ send_rid_frame(i))
    BY <1>1, <2>2, Zenon DEF send_cid_frame, send_rid_frame
  <2>3. flow[i].pc # "waiting" => flow[i].alias \in Aliases
    BY <1>t, Zenon DEF Busy, FlowBusy
  <2>4. CASE ~flow[i].conflict /\ send_cid_frame(i)
    <3>1. /\ Broadcast(i, Frame("CID", flow[i].alias, NoNode)) /\ local' = local
          /\ handler' = handler /\ flow[i].pc = "alloc_cid"
      BY <2>4, Zenon DEF send_cid_frame
    <3>2. Frame("CID", flow[i].alias, NoNode) \in Frames
      BY <2>3, <3>1, FrameType, Zenon DEF FrameTypes
    <3> QED
      BY <1>t, <3>1, <3>2, SilentBroadcast, Zenon DEF Holds
  <2>5. CASE ~flow[i].conflict /\ send_rid_frame(i)
    <3> DEFINE alias == flow[i].alias
               frame == Frame("RID", alias, NoNode)
    <3>1. /\ Broadcast(i, frame) /\ handler' = handler /\ flow[i].pc = "alloc_rid"
          /\ local' = [local EXCEPT ![i] = add(local[i], "reserved", alias)]
      BY <2>5, Zenon DEF send_rid_frame, add_allocated_alias
    <3>2. frame \in Frames /\ alias \in Aliases /\ frame.type # "CID" /\ frame.src = alias
      BY <2>3, <3>1, FrameType, Zenon DEF FrameTypes, Frame
    <3> HIDE DEF alias, frame
    <3>3. \A s \in Ifs, a \in Aliases :
            Holds(s, a)' => Holds(s, a) \/ (s = i /\ a = alias)
      <4>1. "reserved" \in Owners
        BY Zenon DEF Owners
      <4>2. \A a \in Aliases : add(local[i], "reserved", alias)[a] # "nobody" =>
                                 local[i][a] # "nobody" \/ a = alias
        BY Zenon DEF add
      <4>3. \A s \in Ifs \ {i} : local'[s] = local[s]
        BY <3>1, <1>t, Zenon DEF TypeOK
      <4>4. local'[i] = add(local[i], "reserved", alias)
        BY <3>1, <1>t, Zenon DEF TypeOK
      <4> QED
        BY <4>2, <4>3, <4>4, Zenon DEF Holds
    <3>4. ASSUME NEW s \in Ifs, NEW u \in Ifs, NEW a \in Aliases,
                 s # u, Holds(s, a)', Holds(u, a)'
          PROVE  Underway(s, u, a)' \/ Underway(u, s, a)'
      <4>1. CASE Holds(s, a) /\ Holds(u, a)
        <5>1. Underway(s, u, a) \/ Underway(u, s, a)
          BY <3>4, <4>1, Zenon DEF NoSilentDuplicate, Holds
        <5> QED
          BY <1>t, <3>1, <3>2, <5>1, UnderwayKept, Zenon
      <4>2. CASE ~Holds(s, a)
        <5>1. s = i /\ a = alias /\ u # i
          BY <3>3, <3>4, <4>2, Zenon
        <5>2. frame.src = a
          BY <3>2, <5>1, Zenon
        <5>3. Underway(u, i, a)'
          BY <1>t, <3>1, <3>2, <5>1, <5>2, UnderwaySent, Zenon
        <5> QED
          BY <5>1, <5>3, Zenon
      <4>3. CASE ~Holds(u, a)
        <5>1. u = i /\ a = alias /\ s # i
          BY <3>3, <3>4, <4>3, Zenon
        <5>2. frame.src = a
          BY <3>2, <5>1, Zenon
        <5>3. Underway(s, i, a)'
          BY <1>t, <3>1, <3>2, <5>1, <5>2, UnderwaySent, Zenon
        <5> QED
          BY <5>1, <5>3, Zenon
      <4> QED
        BY <4>1, <4>2, <4>3, Zenon
    <3> QED
      BY <3>4, Zenon DEF NoSilentDuplicate, Holds
  <2> QED
    BY <1>2, <2>1, <2>2, <2>4, <2>5, Zenon DEF AllocatorStep
<1>3. ASSUME NEW i \in Ifs, NEW j \in Ifs, ConflictEntry(i, j) PROVE NoSilentDuplicate'
  <2> DEFINE q == inbox[j][i]
  <2>1. /\ handler[i].pc = "waiting" /\ q # <<>> /\ local' = local
        /\ inbox' = [inbox EXCEPT ![j][i] = Tail(@)]
        /\ handler' = [handler EXCEPT ![i] =
             IF local[i][Head(q).src] = "nobody" THEN handler[i]
             ELSE [pc |-> IF Head(q).type = "CID" THEN "rid" ELSE "release",
                   alias |-> Head(q).src]]
    BY <1>3, Zenon DEF ConflictEntry
  <2>2. q \in Seq(Frames)
    BY <1>t, SMTT(30) DEF TypeOK
  <2>3. /\ \A s \in Ifs \ {i} : handler'[s] = handler[s]
        /\ \A s, u \in Ifs : inbox'[u][s] = IF u = j /\ s = i THEN Tail(q) ELSE inbox[u][s]
    BY <1>t, <2>1, Zenon DEF TypeOK
  <2>4. ASSUME NEW s \in Ifs, NEW u \in Ifs, NEW a \in Aliases,
               Holds(s, a), Underway(s, u, a)
        PROVE  Underway(s, u, a)'
    <3>1. CASE u # j \/ s # i
      <4>1. inbox'[u][s] = inbox[u][s]
        BY <2>3, <3>1, Zenon
      <4>2. CASE handler[s].pc = "release" /\ handler[s].alias = a
        <5>1. handler'[s] = handler[s]
          BY <2>1, <2>3, <4>2, Zenon
        <5> QED
          BY <4>2, <5>1, Zenon DEF Underway
      <4> QED
        BY <2>4, <4>1, <4>2, Zenon DEF Underway
    <3>2. CASE u = j /\ s = i
      <4>1. PICK k \in 1..Len(q) : q[k].src = a /\ q[k].type # "CID"
        BY <2>1, <2>4, <3>2, Zenon DEF Underway
      <4>2. CASE k = 1
        <5>1. Head(q) = q[1]
          BY <2>1, <2>2, SMTT(30)
        <5>2. Head(q).src = a /\ Head(q).type # "CID" /\ local[i][Head(q).src] # "nobody"
          BY <2>4, <3>2, <4>1, <4>2, <5>1, Zenon DEF Holds
        <5>3. handler' = [handler EXCEPT ![i] = [pc |-> "release", alias |-> a]]
          BY <2>1, <5>2, Zenon
        <5>4. handler'[i] = [pc |-> "release", alias |-> a]
          BY <1>t, <5>3, Zenon DEF TypeOK
        <5> QED
          BY <3>2, <5>4 DEF Underway
      <4>3. CASE k # 1
        <5>1. k - 1 \in 1..Len(Tail(q)) /\ Tail(q)[k - 1] = q[k]
          <6> HIDE DEF q
          <6>1. Len(q) \in Nat /\ k \in 1..Len(q) /\ k # 1 /\ q # <<>>
            BY <2>1, <2>2, <4>1, <4>3
          <6>2. Len(Tail(q)) = Len(q) - 1 /\ \A m \in 1..(Len(q) - 1) : Tail(q)[m] = q[m + 1]
            BY <2>2, <6>1
          <6>3. k - 1 \in 1..(Len(q) - 1) /\ (k - 1) + 1 = k
            BY <6>1
          <6> QED
            BY <6>2, <6>3, Zenon
        <5>2. inbox'[u][s] = Tail(q)
          BY <2>3, <3>2, Zenon
        <5> QED
          BY <4>1, <5>1, <5>2, Zenon DEF Underway
      <4> QED
        BY <4>2, <4>3, Zenon
    <3> QED
      BY <3>1, <3>2, Zenon
  <2>5. ASSUME NEW s \in Ifs, NEW u \in Ifs, NEW a \in Aliases,
               s # u, Holds(s, a)', Holds(u, a)'
        PROVE  Underway(s, u, a)' \/ Underway(u, s, a)'
    <3>1. Holds(s, a) /\ Holds(u, a)
      BY <2>1, <2>5, Zenon DEF Holds
    <3>2. Underway(s, u, a) \/ Underway(u, s, a)
      BY <2>5, <3>1, Zenon DEF NoSilentDuplicate, Holds
    <3> QED
      BY <2>4, <3>1, <3>2, Zenon
  <2> QED
    BY <2>5, Zenon DEF NoSilentDuplicate, Holds
<1>4. ASSUME NEW i \in Ifs, send_reserved_alias(i) PROVE NoSilentDuplicate'
  <2>1. /\ handler[i].pc = "rid" /\ local' = local
        /\ Broadcast(i, Frame("RID", handler[i].alias, NoNode))
        /\ handler' = [handler EXCEPT ![i] = NoHandling]
    BY <1>4, Zenon DEF send_reserved_alias
  <2>2. Frame("RID", handler[i].alias, NoNode) \in Frames
    BY <1>t, <2>1, FrameType, Zenon DEF Busy, HandlerBusy, FrameTypes
  <2>3. \A s \in Ifs : handler[s].pc = "release" => handler'[s] = handler[s]
    BY <1>t, <2>1, Zenon DEF TypeOK
  <2> QED
    BY <1>t, <2>1, <2>2, <2>3, SilentBroadcast, Zenon DEF Holds
<1>5. ASSUME NEW i \in Ifs, send_release_alias(i) PROVE NoSilentDuplicate'
  <2> DEFINE alias == handler[i].alias
             owner == local[i][alias]
  <2>1. /\ local' = [local EXCEPT ![i] = remove(local[i], alias)]
        /\ handler' = [handler EXCEPT ![i] = NoHandling]
        /\ IF owner \in NodeIDs THEN Broadcast(i, Frame("AMR", alias, owner))
           ELSE UNCHANGED <<inbox, rest>>
        /\ handler[i].pc = "release"
    BY <1>5, Zenon DEF send_release_alias
  <2>2. alias \in Aliases
    BY <1>t, <2>1, ZenonT(40) DEF Busy, HandlerBusy
  <2>3. \A s \in Ifs, a \in Aliases :
          Holds(s, a)' => Holds(s, a) /\ (s # i \/ a # alias)
    BY <1>t, <2>1, <2>2, ZenonT(40) DEF TypeOK, remove, Holds
  <2>4. \A s \in Ifs \ {i} : handler'[s] = handler[s]
    BY <1>t, <2>1, Zenon DEF TypeOK
  <2>5. \A s \in Ifs, a \in Aliases :
          Holds(s, a)' /\ handler[s].pc = "release" /\ handler[s].alias = a
            => handler'[s].pc = "release" /\ handler'[s].alias = a
    BY <2>3, <2>4, Zenon
  <2>6. CASE owner \in NodeIDs
    <3>1. Frame("AMR", alias, owner) \in Frames
      BY <2>2, <2>6, FrameType, Zenon DEF FrameTypes
    <3>2. Broadcast(i, Frame("AMR", alias, owner))
      BY <2>1, <2>6, Zenon
    <3> QED
      BY <1>t, <2>3, <2>5, <3>1, <3>2, SilentBroadcast, ZenonT(40)
  <2>7. CASE owner \notin NodeIDs
    BY <2>1, <2>3, <2>5, <2>7, SilentUnchanged, Zenon
  <2> QED
    BY <2>6, <2>7, Zenon
<1>6. ASSUME NEW i \in Ifs, NEW j \in Ifs, Dispatch(i, j) PROVE NoSilentDuplicate'
  BY <1>1, <1>6, Zenon DEF Dispatch
<1>7. ASSUME NEW i \in Ifs, NEW c \in Clients, NEW n \in NodeIDs,
             get_allocated_alias(i, c, n), UNCHANGED <<inbox, handler>>
      PROVE  NoSilentDuplicate'
  <2>1. CASE Unused(local[i]) = {}
    BY <1>1, <1>7, <2>1, Zenon DEF get_allocated_alias
  <2>2. CASE Unused(local[i]) # {}
    <3> DEFINE low == Lowest(Unused(local[i]))
    <3>1. local' = [local EXCEPT ![i] = add(local[i], n, low)]
      BY <1>7, <2>2, Zenon DEF get_allocated_alias
    <3>2. low \in Aliases /\ local[i][low] = "reserved"
      <4>1. Unused(local[i]) \in SUBSET Nat
        BY DEF Unused, Aliases
      <4> QED
        BY <2>2, <4>1, LowestIn, Zenon DEF Unused
    <3> HIDE DEF low
    <3>3. n \in Owners
      BY Zenon DEF Owners
    <3>4. \A a \in Aliases : add(local[i], n, low)[a] # "nobody" =>
                               local[i][a] # "nobody" \/ a = low
      BY <1>l, <3>2, <3>3, TableType
    <3>5. /\ local'[i] = add(local[i], n, low)
          /\ \A s \in Ifs \ {i} : local'[s] = local[s]
      BY <1>t, <3>1, Zenon DEF TypeOK
    <3>6. \A s \in Ifs, a \in Aliases : Holds(s, a)' => Holds(s, a)
      BY <3>2, <3>4, <3>5, Zenon DEF Holds
    <3> QED
      BY <1>7, <3>6, SilentUnchanged, Zenon
  <2> QED
    BY <2>1, <2>2, Zenon
<1>8. ASSUME NEW i \in Ifs, NEW c \in Clients, NEW n \in NodesOf[i], find_local_alias(i, c, n)
      PROVE  NoSilentDuplicate'
  <2>1. n \in NodeIDs
    BY Zenon DEF NodeIDs
  <2>2. CASE lookup(local[i], n) = 0
    BY <1>7, <1>8, <2>1, <2>2, Zenon DEF find_local_alias
  <2>3. CASE lookup(local[i], n) # 0
    BY <1>1, <1>8, <2>3, Zenon DEF find_local_alias
  <2> QED
    BY <2>2, <2>3, Zenon
<1>9. ASSUME NEW i \in Ifs, NEW c \in Clients, ClientStep(i, c) PROVE NoSilentDuplicate'
  <2>1. ClientBusy(client[i][c])
    BY <1>t, Zenon DEF Busy
  <2>2. CASE allocate_new_alias(i, c)
    <3>1. client[i][c].node \in NodeIDs
      BY <2>1, <2>2, Zenon DEF ClientBusy, allocate_new_alias
    <3> QED
      BY <1>7, <2>2, <3>1, Zenon DEF allocate_new_alias
  <2>3. ASSUME NEW type \in {"AMD", "MSG"}, NEW next, client[i][c].pc \in {"amd", "frame"},
               SendFrame(i, c, type, next)
        PROVE  NoSilentDuplicate'
    <3>1. client[i][c].alias \in Aliases /\ client[i][c].node \in NodeIDs
      BY <2>1, <2>3, Zenon DEF ClientBusy
    <3>2. Frame(type, client[i][c].alias, client[i][c].node) \in Frames
      BY <3>1, FrameType, Zenon DEF FrameTypes
    <3>3. /\ Broadcast(i, Frame(type, client[i][c].alias, client[i][c].node))
          /\ UNCHANGED <<local, handler>>
      BY <2>3, Zenon DEF SendFrame
    <3> QED
      BY <1>t, <3>2, <3>3, SilentBroadcast, Zenon DEF Holds
  <2>4. CASE send_amd_frame(i, c)
    BY <2>3, <2>4 DEF send_amd_frame
  <2>5. CASE fill_can_frame_buffer(i, c)
    BY <2>3, <2>5, SMTT(30) DEF fill_can_frame_buffer
  <2> QED
    BY <1>9, <2>2, <2>4, <2>5, Zenon DEF ClientStep
<1>10. ASSUME NEW i \in Ifs, NEW n \in NodesOf[i], delete_local_node(i, n)
       PROVE  NoSilentDuplicate'
  <2> DEFINE alias == lookup(local[i], n)
  <2>1. n \in NodeIDs
    BY Zenon DEF NodeIDs
  <2>2. /\ alias # 0 /\ Broadcast(i, Frame("AMR", alias, n)) /\ handler' = handler
        /\ local' = [local EXCEPT ![i] = add(local[i], "reserved", alias)]
    BY <1>10, Zenon DEF delete_local_node, add_allocated_alias
  <2>3. alias \in Aliases /\ local[i][alias] = n
    BY <1>l, <2>2, LookupType, Zenon
  <2> HIDE DEF alias
  <2>4. n # "nobody" /\ "reserved" \in Owners
    BY <2>1, NodesAssumption, Zenon DEF Owners
  <2>5. \A a \in Aliases : add(local[i], "reserved", alias)[a] # "nobody" =>
                             local[i][a] # "nobody" \/ a = alias
    BY Zenon DEF add
  <2>6. /\ local'[i] = add(local[i], "reserved", alias)
        /\ \A s \in Ifs \ {i} : local'[s] = local[s]
    BY <1>t, <2>2, ZenonT(40) DEF TypeOK
  <2>7. \A s \in Ifs, a \in Aliases : Holds(s, a)' => Holds(s, a)
    BY <2>3, <2>4, <2>5, <2>6, Zenon DEF Holds
  <2>8. Frame("AMR", alias, n) \in Frames
    BY <2>1, <2>3, FrameType, Zenon DEF FrameTypes
  <2> QED
    BY <1>t, <2>2, <2>7, <2>8, SilentBroadcast, Zenon
<1>11. ASSUME NEW i \in Ifs, start_iface(i) \/ clear_reserved_aliases(i)
       PROVE  NoSilentDuplicate'
  <2>1. inbox' = inbox /\ handler' = handler
    BY <1>11, Zenon DEF start_iface, clear_reserved_aliases
  <2>2. \A s \in Ifs, a \in Aliases : Holds(s, a)' => Holds(s, a)
    <3>1. CASE start_iface(i)
      <4>1. local' = [local EXCEPT ![i] = [a \in Aliases |-> "nobody"]]
        BY <3>1, Zenon DEF start_iface
      <4> QED
        BY <1>t, <4>1, Zenon DEF TypeOK, Holds
    <3>2. CASE clear_reserved_aliases(i)
      <4>1. local' = [local EXCEPT ![i] =
              [a \in Aliases |-> IF local[i][a] = "reserved" THEN "nobody" ELSE local[i][a]]]
        BY <3>2, Zenon DEF clear_reserved_aliases
      <4> QED
        BY <1>t, <4>1, Zenon DEF TypeOK, Holds
    <3> QED
      BY <1>11, <3>1, <3>2, Zenon
  <2> QED
    BY <2>1, <2>2, SilentUnchanged, Zenon
<1> QED
  BY <1>2, <1>3, <1>4, <1>5, <1>6, <1>8, <1>9, <1>10, <1>11, Zenon DEF Next, HandlerStep

\* Whatever the delays on the bus, whenever two interfaces hold one alias a
\* frame is on its way (or already accepted) that makes one of them give it
\* up in AliasConflictHandler::send_release_alias.
THEOREM AllocatorNoSilentDuplicate == Spec => []NoSilentDuplicate
<1>1. Init => NoSilentDuplicate
  BY DEF Init, NoSilentDuplicate
<1>2. TInv /\ NoSilentDuplicate /\ [Next]_vars => NoSilentDuplicate'
  <2>1. ASSUME UNCHANGED vars, NoSilentDuplicate PROVE NoSilentDuplicate'
    BY <2>1, SilentUnchanged, Zenon DEF vars, Holds
  <2> QED
    BY <2>1, SilentNext, Zenon
<1>3. Spec => []TInv
  BY InitTyped, TInvNext, PTL DEF Spec
<1> QED
  BY <1>1, <1>2, <1>3, PTL DEF Spec

-----------------------------------------------------------------------------
(* On a timely bus no two interfaces hold an alias. *)

\* A frame with source alias a is in the queue.
Named(q, a) == \E k \in 1..Len(q) : q[k].src = a

\* The flow of i is busy with a and has seen no conflict.
Claims(i, a) == flow[i].pc # "waiting" /\ flow[i].alias = a /\ ~flow[i].conflict

\* The flow of i has waited for the answers to its CID frames.
Waited(i) == flow[i].pc = "alloc_rid"

\* The AliasConflictHandler of j is about to answer a frame with alias a.
Engaged(j, a) == handler[j].pc # "waiting" /\ handler[j].alias = a

\* The flow of j has not been told that i claims a.
Unseen(i, j, a) == flow[i].seq = CidFrames \/ Named(rest[i][j], a)

\* A holder j of a has not been asked by i, or the answer is on its way.
Unanswered(i, j, a) ==
  \/ flow[i].seq = CidFrames \/ Named(inbox[i][j], a) \/ Engaged(j, a)
  \/ Named(rest[j][i], a)

\* Of two claims one is still unknown to the other.  A claim that has waited
\* knows of no claim that has, and nobody holds its alias.
Race(i, j, a) ==
  /\ Claims(i, a) /\ Claims(j, a) => Unseen(i, j, a) \/ Unseen(j, i, a)
  /\ Claims(i, a) /\ Waited(i) /\ Claims(j, a) => ~Waited(j) /\ Unseen(j, i, a)
  /\ Claims(i, a) /\ Holds(j, a) => Unanswered(i, j, a)
  /\ Claims(i, a) /\ Waited(i) => ~Holds(j, a)
  /\ ~(Holds(i, a) /\ Holds(j, a))

\* The wait begins when all CID frames are sent and only a conflict cuts it short.
Phase(f) ==
  /\ f.pc \in {"sleep", "alloc_rid"} => f.seq = 0
  /\ f.triggered => f.conflict

RaceInv ==
  /\ \A i \in Ifs : Phase(flow[i])
  /\ \A i, j \in Ifs, a \in Aliases : i # j => Race(i, j, a)

\* What a step may do to the claims, the frames and the alias a of x, seen from
\* y: a claim starts before its first CID frame, has waited only when y owes no
\* answer, and becomes a hold with a frame to y; frames with a are read by a
\* flow that claims a only as a conflict, and by a holder only to answer.
Moves(x, y, a) ==
  /\ Claims(x, a)' =>
       \/ flow'[x].seq = CidFrames /\ flow'[x].pc # "alloc_rid"
       \/ /\ Claims(x, a)
          /\ flow[x].seq = CidFrames =>
               \/ flow'[x].seq = CidFrames
               \/ Named(rest'[x][y], a) /\ Named(inbox'[x][y], a)
          /\ flow'[x].pc = "alloc_rid" =>
               \/ flow[x].pc = "alloc_rid"
               \/ /\ flow[x].seq = 0 /\ ~Engaged(y, a)
                  /\ ~Named(inbox[x][y], a) /\ ~Named(rest[x][y], a)
                  /\ ~Named(rest[y][x], a)
  /\ Named(rest[x][y], a) /\ Claims(y, a)' => Named(rest'[x][y], a)
  /\ Named(inbox[x][y], a) /\ Holds(y, a)' => Named(inbox'[x][y], a) \/ Engaged(y, a)'
  /\ Engaged(x, a) /\ Holds(x, a)' => Engaged(x, a)' \/ Named(rest'[x][y], a)
  /\ Holds(x, a)' =>
       \/ Holds(x, a)
       \/ /\ Claims(x, a) /\ flow[x].pc = "alloc_rid"
          /\ Named(rest'[x][y], a) /\ ~Claims(x, a)'

\* Such steps keep Race.
LEMMA RaceStep ==
  ASSUME NEW x \in Ifs, NEW y \in Ifs, NEW a \in Aliases,
         Phase(flow[x]), Phase(flow[y]), Race(x, y, a), Race(y, x, a),
         Moves(x, y, a), Moves(y, x, a)
  PROVE  Race(x, y, a)'
<1>0. CidFrames # 0
  BY Zenon
<1>p. /\ flow[x].pc = "alloc_rid" => flow[x].seq # CidFrames
      /\ flow[y].pc = "alloc_rid" => flow[y].seq # CidFrames
      /\ flow[x].seq = 0 => flow[x].seq # CidFrames
      /\ flow[y].seq = 0 => flow[y].seq # CidFrames
  BY <1>0, Zenon DEF Phase
<1>1. ASSUME Claims(x, a)', Claims(y, a)' PROVE Unseen(x, y, a)' \/ Unseen(y, x, a)'
  BY <1>1, Zenon DEF Moves, Race, Unseen
<1>2. ASSUME Claims(x, a)', Waited(x)', Claims(y, a)'
      PROVE  ~Waited(y)' /\ Unseen(y, x, a)'
  <2>1. CASE flow[x].pc = "alloc_rid"
    BY <1>2, <1>p, <2>1, Zenon DEF Moves, Race, Unseen, Waited
  <2>2. CASE flow[x].pc # "alloc_rid"
    BY <1>2, <1>p, <2>2, Zenon DEF Moves, Race, Unseen, Waited
  <2> QED BY <2>1, <2>2, Zenon
<1>3. ASSUME Claims(x, a)', Waited(x)' PROVE ~Holds(y, a)'
  <2>1. CASE flow[x].pc = "alloc_rid"
    BY <1>3, <1>p, <2>1, Zenon DEF Moves, Race, Waited
  <2>2. CASE flow[x].pc # "alloc_rid"
    BY <1>3, <1>p, <2>2, Zenon DEF Moves, Race, Unseen, Unanswered, Waited
  <2> QED BY <2>1, <2>2, Zenon
<1>4. ASSUME Claims(x, a)', Holds(y, a)' PROVE Unanswered(x, y, a)'
  BY <1>4, Zenon DEF Moves, Race, Unanswered
<1>5. ~(Holds(x, a)' /\ Holds(y, a)')
  BY Zenon DEF Moves, Race, Waited
<1> QED BY <1>1, <1>2, <1>3, <1>4, <1>5, Zenon DEF Race

\* A frame that is sent.
LEMMA NamedAppend ==
  ASSUME NEW q \in Seq(Frames), NEW f \in Frames, NEW a
  PROVE  Named(Append(q, f), a) <=> Named(q, a) \/ f.src = a
<1> DEFINE p == Append(q, f)
<1>1. /\ Len(q) \in Nat /\ Len(p) = Len(q) + 1 /\ p[Len(q) + 1] = f
      /\ \A k \in 1..Len(q) : p[k] = q[k]
  OBVIOUS
<1> HIDE DEF p
<1>2. /\ Len(q) + 1 \in 1..Len(p)
      /\ \A k \in 1..Len(p) : k \in 1..Len(q) \/ k = Len(q) + 1
      /\ \A k \in 1..Len(q) : k \in 1..Len(p)
  BY <1>1
<1>3. Named(p, a) <=> Named(q, a) \/ f.src = a
  BY <1>1, <1>2, Zenon DEF Named
<1> QED BY <1>3, Zenon DEF p

\* A frame that is read.
LEMMA NamedTail ==
  ASSUME NEW q \in Seq(Frames), q # <<>>, NEW a, Named(q, a), Head(q).src # a
  PROVE  Named(Tail(q), a)
<1>1. PICK k \in 1..Len(q) : q[k].src = a
  BY Zenon DEF Named
<1>2. Head(q) = q[1] /\ Len(q) \in Nat /\ Len(Tail(q)) = Len(q) - 1
  OBVIOUS
<1>3. \A m \in 1..(Len(q) - 1) : Tail(q)[m] = q[m + 1]
  OBVIOUS
<1>4. k # 1
  BY <1>1, <1>2, Zenon
<1>5. k - 1 \in 1..Len(Tail(q)) /\ k - 1 \in 1..(Len(q) - 1) /\ (k - 1) + 1 = k
  BY ONLY k \in 1..Len(q), <1>2, <1>4
<1>6. Tail(q)[k - 1] = q[k]
  BY <1>3, <1>5, Zenon
<1> QED BY <1>1, <1>5, <1>6, Zenon DEF Named

\* What the others see of a broadcast.
LEMMA NamedBroadcast ==
  ASSUME TypeOK, NEW i \in Ifs, NEW frame \in Frames, Broadcast(i, frame)
  PROVE  /\ \A s, t \in Ifs, a \in Aliases :
              /\ Named(inbox[s][t], a) => Named(inbox'[s][t], a)
              /\ Named(rest[s][t], a) => Named(rest'[s][t], a)
         /\ \A t \in Ifs \ {i} : /\ Named(inbox'[i][t], frame.src)
                                 /\ Named(rest'[i][t], frame.src)
<1>1. /\ inbox \in [Ifs -> [Ifs -> Seq(Frames)]]
      /\ rest \in [Ifs -> [Ifs -> Seq(Frames)]]
  BY Zenon DEF TypeOK
<1>2. /\ inbox' = [inbox EXCEPT ![i] =
                    [j \in Ifs |-> IF j = i THEN @[j] ELSE Append(@[j], frame)]]
      /\ rest' = [rest EXCEPT ![i] =
                    [j \in Ifs |-> IF j = i THEN @[j] ELSE Append(@[j], frame)]]
  BY Zenon DEF Broadcast
<1>3. \A s, t \in Ifs :
        /\ inbox'[s][t] = IF s = i /\ t # i THEN Append(inbox[s][t], frame) ELSE inbox[s][t]
        /\ rest'[s][t] = IF s = i /\ t # i THEN Append(rest[s][t], frame) ELSE rest[s][t]
  BY <1>1, <1>2, Zenon
<1>4. \A s, t \in Ifs : inbox[s][t] \in Seq(Frames) /\ rest[s][t] \in Seq(Frames)
  BY <1>1, Zenon
<1>5. \A s, t \in Ifs, a \in Aliases :
        /\ Named(Append(inbox[s][t], frame), a) <=> Named(inbox[s][t], a) \/ frame.src = a
        /\ Named(Append(rest[s][t], frame), a) <=> Named(rest[s][t], a) \/ frame.src = a
  BY <1>4, NamedAppend, Zenon
<1>6. frame.src \in Aliases
  BY Zenon DEF Frames
<1>7. ASSUME NEW s \in Ifs, NEW t \in Ifs, NEW a \in Aliases
      PROVE  /\ Named(inbox[s][t], a) => Named(inbox'[s][t], a)
             /\ Named(rest[s][t], a) => Named(rest'[s][t], a)
             /\ s = i /\ t # i /\ a = frame.src => Named(inbox'[s][t], a) /\ Named(rest'[s][t], a)
  <2>1. CASE s = i /\ t # i
    <3>1. /\ inbox'[s][t] = Append(inbox[s][t], frame)
          /\ rest'[s][t] = Append(rest[s][t], frame)
      BY <1>3, <2>1, Zenon
    <3>2. /\ Named(inbox'[s][t], a) <=> Named(inbox[s][t], a) \/ frame.src = a
          /\ Named(rest'[s][t], a) <=> Named(rest[s][t], a) \/ frame.src = a
      BY <1>5, <3>1, Zenon
    <3> QED BY <3>2, Zenon
  <2>2. CASE ~(s = i /\ t # i)
    BY <1>3, <2>2, Zenon
  <2> QED BY <2>1, <2>2, Zenon
<1> QED BY <1>6, <1>7, Zenon

\* A step that keeps the flows and the handlers, adds no alias to a cache and
\* at most sends a frame.
Steady ==
  /\ flow' = flow /\ handler' = handler
  /\ \A s \in Ifs, a \in Aliases : Holds(s, a)' => Holds(s, a)
  /\ \A s, t \in Ifs, a \in Aliases :
       /\ Named(inbox[s][t], a) => Named(inbox'[s][t], a)
       /\ Named(rest[s][t], a) => Named(rest'[s][t], a)

\* Such a step keeps what RaceStep needs.
LEMMA SteadyMoves ==
  ASSUME Steady, NEW x \in Ifs, NEW y \in Ifs, NEW a \in Aliases
  PROVE  Moves(x, y, a)
<1>1. (Claims(x, a)' => Claims(x, a)) /\ (Engaged(x, a) => Engaged(x, a)')
  BY Zenon DEF Steady, Claims, Engaged
<1> QED BY <1>1, Zenon DEF Steady, Moves

\* What add_allocated_alias adds to a cache.
LEMMA AddHolds ==
  ASSUME TypeOK, NEW i \in Ifs, NEW alias \in Aliases, add_allocated_alias(i, alias)
  PROVE  \A s \in Ifs, a \in Aliases : Holds(s, a)' => Holds(s, a) \/ (s = i /\ a = alias)
<1>1. local' = [local EXCEPT ![i] = add(local[i], "reserved", alias)]
  BY Zenon DEF add_allocated_alias
<1>2. \A a \in Aliases : add(local[i], "reserved", alias)[a] # "nobody" =>
                           local[i][a] # "nobody" \/ a = alias
  BY Zenon DEF add
<1>3. /\ local'[i] = add(local[i], "reserved", alias)
      /\ \A s \in Ifs \ {i} : local'[s] = local[s]
  BY <1>1, Zenon DEF TypeOK
<1> QED BY <1>2, <1>3, Zenon DEF Holds

\* get_allocated_alias takes an alias that is in the cache.
LEMMA GetHolds ==
  ASSUME TypeOK, NEW i \in Ifs, NEW c \in Clients, NEW n \in NodeIDs,
         get_allocated_alias(i, c, n)
  PROVE  \A s \in Ifs, a \in Aliases : Holds(s, a)' => Holds(s, a)
<1>1. CASE Unused(local[i]) = {}
  BY <1>1, Zenon DEF get_allocated_alias, Holds
<1>2. CASE Unused(local[i]) # {}
  <2> DEFINE low == Lowest(Unused(local[i]))
  <2>1. local' = [local EXCEPT ![i] = add(local[i], n, low)]
    BY <1>2, Zenon DEF get_allocated_alias
  <2>2. low \in Aliases /\ local[i][low] = "reserved"
    <3>1. Unused(local[i]) \in SUBSET Nat
      BY DEF Unused, Aliases
    <3> QED BY <1>2, <3>1, LowestIn, Zenon DEF Unused
  <2> HIDE DEF low
  <2>3. \A a \in Aliases : add(local[i], n, low)[a] # "nobody" =>
                             local[i][a] # "nobody" \/ a = low
    BY Zenon DEF add
  <2>4. "reserved" # "nobody"
    BY Zenon
  <2>5. /\ local'[i] = add(local[i], n, low)
        /\ \A s \in Ifs \ {i} : local'[s] = local[s]
    BY <2>1, Zenon DEF TypeOK
  <2> QED BY <2>2, <2>3, <2>4, <2>5, Zenon DEF Holds
<1> QED BY <1>1, <1>2, Zenon

\* The write flows and the administrative operations are steady.
LEMMA SteadySteps ==
  ASSUME TInv, NEW i \in Ifs,
         \/ \E c \in Clients :
              ClientStep(i, c) \/ \E n \in NodesOf[i] : find_local_alias(i, c, n)
         \/ \E n \in NodesOf[i] : delete_local_node(i, n)
         \/ start_iface(i) \/ clear_reserved_aliases(i)
  PROVE  Steady
<1>t. TypeOK /\ Busy
  BY Zenon DEF TInv
<1>1. ASSUME NEW c \in Clients, NEW n \in NodeIDs, get_allocated_alias(i, c, n),
             UNCHANGED <<flow, handler, inbox, rest>>
      PROVE  Steady
  <2>1. \A s \in Ifs, a \in Aliases : Holds(s, a)' => Holds(s, a)
    BY <1>t, <1>1, GetHolds, Zenon
  <2> QED BY <1>1, <2>1, Zenon DEF Steady
<1>2. ASSUME NEW frame \in Frames, Broadcast(i, frame), UNCHANGED <<flow, handler>>,
             \A s \in Ifs, a \in Aliases : Holds(s, a)' => Holds(s, a)
      PROVE  Steady
  <2>1. \A s, t \in Ifs, a \in Aliases :
          /\ Named(inbox[s][t], a) => Named(inbox'[s][t], a)
          /\ Named(rest[s][t], a) => Named(rest'[s][t], a)
    BY <1>t, <1>2, NamedBroadcast, Zenon
  <2> QED BY <1>2, <2>1, Zenon DEF Steady
<1>3. ASSUME NEW c \in Clients, NEW n \in NodesOf[i], find_local_alias(i, c, n)
      PROVE  Steady
  <2>1. n \in NodeIDs
    BY Zenon DEF NodeIDs
  <2>2. CASE lookup(local[i], n) = 0
    BY <1>1, <1>3, <2>1, <2>2, Zenon DEF find_local_alias
  <2>3. CASE lookup(local[i], n) # 0
    BY <1>3, <2>3, Zenon DEF find_local_alias, Steady, Holds
  <2> QED BY <2>2, <2>3, Zenon
<1>4. ASSUME NEW c \in Clients, ClientStep(i, c) PROVE Steady
  <2>1. ClientBusy(client[i][c])
    BY <1>t, Zenon DEF Busy
  <2>2. CASE allocate_new_alias(i, c)
    <3>1. client[i][c].node \in NodeIDs
      BY <2>1, <2>2, Zenon DEF ClientBusy, allocate_new_alias
    <3> QED BY <1>1, <2>2, <3>1, Zenon DEF allocate_new_alias
  <2>3. ASSUME NEW type \in {"AMD", "MSG"}, NEW next, client[i][c].pc \in {"amd", "frame"},
               SendFrame(i, c, type, next)
        PROVE  Steady
    <3> DEFINE frame == Frame(type, client[i][c].alias, client[i][c].node)
    <3>1. client[i][c].alias \in Aliases /\ client[i][c].node \in NodeIDs
      BY <2>1, <2>3, Zenon DEF ClientBusy
    <3>2. frame \in Frames
      BY <3>1, FrameType, Zenon DEF FrameTypes
    <3>3. Broadcast(i, frame) /\ local' = local /\ UNCHANGED <<flow, handler>>
      BY <2>3, Zenon DEF SendFrame
    <3> HIDE DEF frame
    <3> QED BY <1>2, <3>2, <3>3, Zenon DEF Holds
  <2>4. CASE send_amd_frame(i, c)
    <3>1. /\ client[i][c].pc \in {"amd", "frame"} /\ "AMD" \in {"AMD", "MSG"}
          /\ \E next : SendFrame(i, c, "AMD", next)
      BY <2>4, Zenon DEF send_amd_frame
    <3> QED BY <2>3, <3>1
  <2>5. CASE fill_can_frame_buffer(i, c)
    <3>1. /\ client[i][c].pc \in {"amd", "frame"} /\ "MSG" \in {"AMD", "MSG"}
          /\ \E next : SendFrame(i, c, "MSG", next)
      BY <2>5, Zenon DEF fill_can_frame_buffer
    <3> QED BY <2>3, <3>1
  <2> QED BY <1>4, <2>2, <2>4, <2>5, Zenon DEF ClientStep
<1>5. ASSUME NEW n \in NodesOf[i], delete_local_node(i, n) PROVE Steady
  <2> DEFINE alias == lookup(local[i], n)
  <2>1. n \in NodeIDs
    BY Zenon DEF NodeIDs
  <2>2. /\ alias # 0 /\ Broadcast(i, Frame("AMR", alias, n)) /\ UNCHANGED <<flow, handler>>
        /\ add_allocated_alias(i, alias)
    BY <1>5, Zenon DEF delete_local_node
  <2>3. alias \in Aliases /\ local[i][alias] = n
    BY <1>t, <2>2, LookupType, Zenon DEF TypeOK
  <2> HIDE DEF alias
  <2>4. n # "nobody"
    BY <2>1, NodesAssumption, Zenon
  <2>5. \A s \in Ifs, a \in Aliases : Holds(s, a)' => Holds(s, a)
    <3>1. \A s \in Ifs, a \in Aliases : Holds(s, a)' => Holds(s, a) \/ (s = i /\ a = alias)
      BY <1>t, <2>2, <2>3, AddHolds, Zenon
    <3>2. Holds(i, alias)
      BY <2>3, <2>4, Zenon DEF Holds
    <3> QED BY <3>1, <3>2, Zenon
  <2>6. Frame("AMR", alias, n) \in Frames
    BY <2>1, <2>3, FrameType, Zenon DEF FrameTypes
  <2> QED BY <1>2, <2>2, <2>5, <2>6, Zenon
<1>6. ASSUME start_iface(i) \/ clear_reserved_aliases(i) PROVE Steady
  <2>1. UNCHANGED <<flow, handler, inbox, rest>>
    BY <1>6, Zenon DEF start_iface, clear_reserved_aliases
  <2>2. \A s \in Ifs, a \in Aliases : Holds(s, a)' => Holds(s, a)
    <3>1. CASE start_iface(i)
      <4>1. local' = [local EXCEPT ![i] = [a \in Aliases |-> "nobody"]]
        BY <3>1, Zenon DEF start_iface
      <4> QED BY <1>t, <4>1, Zenon DEF TypeOK, Holds
    <3>2. CASE clear_reserved_aliases(i)
      <4>1. local' = [local EXCEPT ![i] =
              [a \in Aliases |-> IF local[i][a] = "reserved" THEN "nobody" ELSE local[i][a]]]
        BY <3>2, Zenon DEF clear_reserved_aliases
      <4> QED BY <1>t, <4>1, Zenon DEF TypeOK, Holds
    <3> QED BY <1>6, <3>1, <3>2, Zenon
  <2> QED BY <2>1, <2>2, Zenon DEF Steady
<1> QED BY <1>3, <1>4, <1>5, <1>6, Zenon

\* Every step on a timely bus does what RaceStep allows, and keeps Phase.
LEMMA RaceMoves ==
  ASSUME TInv, \A i \in Ifs : Phase(flow[i]), Timely, Next
  PROVE  /\ \A x, y \in Ifs, a \in Aliases : x # y => Moves(x, y, a)
         /\ \A i \in Ifs : Phase(flow'[i])
<1> DEFINE Goal == /\ \A x, y \in Ifs, a \in Aliases : x # y => Moves(x, y, a)
                   /\ \A i \in Ifs : Phase(flow'[i])
<1>t. TypeOK /\ Busy
  BY Zenon DEF TInv
<1>f. flow \in [Ifs -> Flows]
  BY <1>t, Zenon DEF TypeOK
<1>1. ASSUME NEW i \in Ifs, Begin(i), UNCHANGED <<local, handler, inbox, rest>> PROVE Goal
  <2>1. /\ flow'[i].pc = "alloc_cid" /\ flow'[i].seq = CidFrames
        /\ \A j \in Ifs \ {i} : flow'[j] = flow[j]
    BY <1>1, BeginType, Zenon
  <2>2. ~flow'[i].triggered
    BY <1>1, <1>f, Zenon DEF Begin
  <2>3. \A x \in Ifs, a \in Aliases :
          Claims(x, a)' => x = i \/ (Claims(x, a) /\ flow'[x] = flow[x])
    BY <2>1, Zenon DEF Claims
  <2>4. \A x \in Ifs, a \in Aliases :
          /\ Holds(x, a)' <=> Holds(x, a)
          /\ Engaged(x, a)' <=> Engaged(x, a)
    BY <1>1, Zenon DEF Holds, Engaged
  <2>5. ASSUME NEW x \in Ifs, NEW y \in Ifs, NEW a \in Aliases PROVE Moves(x, y, a)
    BY <1>1, <2>1, <2>3, <2>4, Zenon DEF Moves
  <2>6. \A j \in Ifs : Phase(flow'[j])
    BY <2>1, <2>2, Zenon DEF Phase
  <2> QED BY <2>5, <2>6, Zenon
<1>2. ASSUME NEW i \in Ifs, AllocatorStep(i) PROVE Goal
  <2> DEFINE f == flow[i]
             g == flow'[i]
  <2>1. CASE /\ ~f.conflict
             /\ send_cid_frame(i)
    <3> DEFINE frame == Frame("CID", f.alias, NoNode)
    <3>1. /\ f.pc = "alloc_cid" /\ Broadcast(i, frame) /\ UNCHANGED <<local, handler>>
          /\ flow' = [flow EXCEPT ![i].pc = "cid_sent", ![i].seq = @ - 1]
      BY <2>1, Zenon DEF send_cid_frame
    <3>2. f.alias \in Aliases
      BY <1>t, <3>1, Zenon DEF Busy, FlowBusy
    <3>3. frame \in Frames /\ frame.src = f.alias
      BY <3>2, FrameType, Zenon DEF FrameTypes, Frame
    <3>4. /\ g.pc = "cid_sent" /\ g.alias = f.alias /\ g.conflict = f.conflict
          /\ g.triggered = f.triggered
          /\ \A j \in Ifs \ {i} : flow'[j] = flow[j]
      BY <1>f, <3>1, Zenon DEF Flows
    <3> HIDE DEF frame
    <3>5. /\ \A s, t \in Ifs, a \in Aliases :
               /\ Named(inbox[s][t], a) => Named(inbox'[s][t], a)
               /\ Named(rest[s][t], a) => Named(rest'[s][t], a)
          /\ \A t \in Ifs \ {i} : Named(inbox'[i][t], f.alias) /\ Named(rest'[i][t], f.alias)
      BY <1>t, <3>1, <3>3, NamedBroadcast, Zenon
    <3>6. \A x \in Ifs, a \in Aliases :
            /\ Holds(x, a)' <=> Holds(x, a)
            /\ Engaged(x, a)' <=> Engaged(x, a)
      BY <3>1, Zenon DEF Holds, Engaged
    <3>7. \A x \in Ifs, a \in Aliases :
            /\ Claims(x, a)' => Claims(x, a)
            /\ Claims(x, a)' /\ x # i => flow'[x] = flow[x]
            /\ Claims(i, a)' => a = f.alias
      BY <3>1, <3>4, Zenon DEF Claims
    <3>8. ASSUME NEW x \in Ifs, NEW y \in Ifs, NEW a \in Aliases, x # y PROVE Moves(x, y, a)
      <4>1. CASE x = i
        <5>1. y \in Ifs \ {i} /\ flow'[i].pc # "alloc_rid"
          BY <3>4, <3>8, <4>1, Zenon
        <5>2. Claims(i, a)' => Claims(i, a) /\ Named(inbox'[i][y], a) /\ Named(rest'[i][y], a)
          <6>1. Named(inbox'[i][y], f.alias) /\ Named(rest'[i][y], f.alias)
            BY <3>5, <5>1, Zenon
          <6>2. Claims(i, a)' => Claims(i, a) /\ a = f.alias
            BY <3>7, Zenon
          <6> HIDE DEF f
          <6> QED BY <6>1, <6>2, Zenon
        <5>3. Moves(i, y, a)
          BY <3>5, <3>6, <5>1, <5>2, Zenon DEF Moves
        <5> QED BY <4>1, <5>3, Zenon
      <4>2. CASE x # i
        BY <3>5, <3>6, <3>7, <4>2, Zenon DEF Moves
      <4> QED BY <4>1, <4>2, Zenon
    <3>9. \A j \in Ifs : Phase(flow'[j])
      BY <3>4, Zenon DEF Phase
    <3> QED BY <3>8, <3>9, Zenon
  <2>2. CASE handle_allocate_for_cid_frame(i)
    <3>1. /\ f.pc = "cid_sent" /\ UNCHANGED <<local, handler, inbox, rest>>
          /\ flow' = [flow EXCEPT ![i].pc = IF f.seq > 0 THEN "alloc_cid" ELSE "sleep"]
      BY <2>2, Zenon DEF handle_allocate_for_cid_frame
    <3>2. /\ g.pc = (IF f.seq > 0 THEN "alloc_cid" ELSE "sleep")
          /\ g.alias = f.alias /\ g.conflict = f.conflict
          /\ g.triggered = f.triggered /\ g.seq = f.seq
          /\ \A j \in Ifs \ {i} : flow'[j] = flow[j]
      BY <1>f, <3>1, Zenon DEF Flows
    <3>3. g.pc # "alloc_rid" /\ (g.pc = "sleep" => ~(f.seq > 0))
      BY <3>2, Zenon
    <3>4. ~(f.seq > 0) => f.seq = 0
      BY <1>f DEF Flows
    <3>5. \A x \in Ifs, a \in Aliases :
            /\ Holds(x, a)' <=> Holds(x, a)
            /\ Engaged(x, a)' <=> Engaged(x, a)
      BY <3>1, Zenon DEF Holds, Engaged
    <3>6. \A x \in Ifs, a \in Aliases :
            /\ Claims(x, a)' => Claims(x, a)
            /\ flow'[x].seq = flow[x].seq
            /\ flow'[x].pc = "alloc_rid" => flow[x].pc = "alloc_rid"
      <4>1. \A a \in Aliases : Claims(i, a)' => Claims(i, a)
        BY <3>1, <3>2, Zenon DEF Claims
      <4>2. \A x \in Ifs \ {i}, a \in Aliases : Claims(x, a)' => Claims(x, a)
        BY <3>2, Zenon DEF Claims
      <4> QED BY <3>2, <3>3, <4>1, <4>2, Zenon
    <3>7. ASSUME NEW x \in Ifs, NEW y \in Ifs, NEW a \in Aliases PROVE Moves(x, y, a)
      BY <3>1, <3>5, <3>6, Zenon DEF Moves
    <3>8. \A j \in Ifs : Phase(flow'[j])
      <4>1. Phase(g)
        BY <3>2, <3>3, <3>4, Zenon DEF Phase
      <4> QED BY <3>2, <4>1, Zenon
    <3> QED BY <3>7, <3>8, Zenon
  <2>3. CASE ~f.conflict /\ wait_done(i)
    <3>1. /\ f.pc = "sleep" /\ UNCHANGED <<local, handler, inbox, rest>>
          /\ f.triggered \/ ~Timely \/ ~AnswersDue(i)
          /\ flow' = [flow EXCEPT ![i].pc = "alloc_rid"]
      BY <2>3, Zenon DEF wait_done
    <3>2. Phase(f)
      BY Zenon
    <3>3. f.seq = 0 /\ ~AnswersDue(i)
      BY <2>3, <3>1, <3>2, Zenon DEF Phase
    <3>4. /\ g.pc = "alloc_rid" /\ g.alias = f.alias /\ g.conflict = f.conflict
          /\ g.triggered = f.triggered /\ g.seq = f.seq
          /\ \A j \in Ifs \ {i} : flow'[j] = flow[j]
      BY <1>f, <3>1, Zenon DEF Flows
    <3>5. \A y \in Ifs \ {i} :
            /\ ~Engaged(y, f.alias) /\ ~Named(inbox[i][y], f.alias)
            /\ ~Named(rest[i][y], f.alias) /\ ~Named(rest[y][i], f.alias)
      BY <3>3, Zenon DEF AnswersDue, Engaged, Named
    <3>6. \A x \in Ifs, a \in Aliases :
            /\ Holds(x, a)' <=> Holds(x, a)
            /\ Engaged(x, a)' <=> Engaged(x, a)
      BY <3>1, Zenon DEF Holds, Engaged
    <3>7. \A x \in Ifs, a \in Aliases :
            /\ Claims(x, a)' => Claims(x, a)
            /\ flow'[x].seq = flow[x].seq
            /\ x # i => flow'[x] = flow[x]
            /\ Claims(i, a)' => a = f.alias
      <4>1. \A a \in Aliases : Claims(i, a)' => Claims(i, a) /\ a = f.alias
        BY <3>1, <3>4, Zenon DEF Claims
      <4>2. \A x \in Ifs \ {i}, a \in Aliases : Claims(x, a)' => Claims(x, a)
        BY <3>4, Zenon DEF Claims
      <4> QED BY <3>4, <4>1, <4>2, Zenon
    <3>8. ASSUME NEW x \in Ifs, NEW y \in Ifs, NEW a \in Aliases, x # y PROVE Moves(x, y, a)
      <4>1. CASE x = i
        BY <3>1, <3>3, <3>5, <3>6, <3>7, <3>8, <4>1, Zenon DEF Moves
      <4>2. CASE x # i
        BY <3>1, <3>6, <3>7, <4>2, Zenon DEF Moves
      <4> QED BY <4>1, <4>2, Zenon
    <3>9. \A j \in Ifs : Phase(flow'[j])
      <4>1. Phase(g)
        BY <3>2, <3>3, <3>4, Zenon DEF Phase
      <4> QED BY <3>4, <4>1, Zenon
    <3> QED BY <3>8, <3>9, Zenon
  <2>4. CASE ~f.conflict /\ send_rid_frame(i)
    <3> DEFINE frame == Frame("RID", f.alias, NoNode)
    <3>1. /\ f.pc = "alloc_rid" /\ Broadcast(i, frame) /\ handler' = handler
          /\ add_allocated_alias(i, f.alias)
          /\ flow' = [flow EXCEPT ![i] = WaitingFlow]
      BY <2>4, Zenon DEF send_rid_frame
    <3>2. f.alias \in Aliases
      BY <1>t, <3>1, Zenon DEF Busy, FlowBusy
    <3>3. frame \in Frames /\ frame.src = f.alias
      BY <3>2, FrameType, Zenon DEF FrameTypes, Frame
    <3>4. /\ g.pc = "waiting" /\ ~g.triggered
          /\ \A j \in Ifs \ {i} : flow'[j] = flow[j]
      BY <1>f, <3>1, Zenon DEF WaitingFlow
    <3> HIDE DEF frame
    <3>5. /\ \A s, t \in Ifs, a \in Aliases :
               /\ Named(inbox[s][t], a) => Named(inbox'[s][t], a)
               /\ Named(rest[s][t], a) => Named(rest'[s][t], a)
          /\ \A t \in Ifs \ {i} : Named(inbox'[i][t], f.alias) /\ Named(rest'[i][t], f.alias)
      BY <1>t, <3>1, <3>3, NamedBroadcast, Zenon
    <3>6. \A x \in Ifs, a \in Aliases : Holds(x, a)' => Holds(x, a) \/ (x = i /\ a = f.alias)
      BY <1>t, <3>1, <3>2, AddHolds, Zenon
    <3>7. \A x \in Ifs, a \in Aliases :
            /\ Engaged(x, a)' <=> Engaged(x, a)
            /\ Claims(x, a)' => x # i /\ Claims(x, a) /\ flow'[x] = flow[x]
      BY <3>1, <3>4, Zenon DEF Engaged, Claims
    <3>8. Claims(i, f.alias) /\ \A a \in Aliases : ~Claims(i, a)'
      BY <2>4, <3>1, <3>7, Zenon DEF Claims
    <3>9. ASSUME NEW x \in Ifs, NEW y \in Ifs, NEW a \in Aliases, x # y PROVE Moves(x, y, a)
      <4>1. CASE x = i
        <5>1. y \in Ifs \ {i} /\ ~Claims(i, a)'
          BY <3>8, <3>9, <4>1, Zenon
        <5>2. Holds(i, a)' => \/ Holds(i, a)
                              \/ /\ Claims(i, a) /\ flow[i].pc = "alloc_rid"
                                 /\ Named(rest'[i][y], a)
          <6>1. Named(rest'[i][y], f.alias) /\ Claims(i, f.alias) /\ flow[i].pc = "alloc_rid"
            BY <3>1, <3>5, <3>8, <5>1, Zenon
          <6>2. Holds(i, a)' => Holds(i, a) \/ a = f.alias
            BY <3>6, Zenon
          <6> HIDE DEF f
          <6> QED BY <6>1, <6>2, Zenon
        <5>3. Moves(i, y, a)
          BY <3>5, <3>7, <5>1, <5>2, Zenon DEF Moves
        <5> QED BY <4>1, <5>3, Zenon
      <4>2. CASE x # i
        BY <3>5, <3>6, <3>7, <4>2, Zenon DEF Moves
      <4> QED BY <4>1, <4>2, Zenon
    <3>10. \A j \in Ifs : Phase(flow'[j])
      BY <3>4, Zenon DEF Phase
    <3> QED BY <3>9, <3>10, Zenon
  <2>5. CASE \/ entry(i)
             \/ f.conflict /\ (send_cid_frame(i) \/ wait_done(i) \/ send_rid_frame(i))
    BY <1>1, <2>5, Zenon DEF entry, send_cid_frame, wait_done, send_rid_frame,
                            handle_alias_conflict
  <2> QED BY <1>2, <2>1, <2>2, <2>3, <2>4, <2>5, Zenon DEF AllocatorStep
<1>3. ASSUME NEW i \in Ifs, NEW j \in Ifs, ConflictEntry(i, j) PROVE Goal
  <2> DEFINE q == inbox[j][i]
             h == Head(q)
  <2>1. /\ handler[i].pc = "waiting" /\ q # <<>> /\ UNCHANGED <<local, flow, rest>>
        /\ inbox' = [inbox EXCEPT ![j][i] = Tail(@)]
        /\ handler' = [handler EXCEPT ![i] =
             IF local[i][h.src] = "nobody" THEN handler[i]
             ELSE [pc |-> IF h.type = "CID" THEN "rid" ELSE "release", alias |-> h.src]]
    BY <1>3, Zenon DEF ConflictEntry
  <2>2. q \in Seq(Frames)
    <3>1. inbox \in [Ifs -> [Ifs -> Seq(Frames)]]
      BY <1>t, Zenon DEF TypeOK
    <3> QED BY <3>1, Zenon
  <2>3. /\ \A s \in Ifs \ {i} : handler'[s] = handler[s]
        /\ \A s, u \in Ifs : inbox'[u][s] = IF u = j /\ s = i THEN Tail(q) ELSE inbox[u][s]
        /\ local[i][h.src] # "nobody" => handler'[i].pc # "waiting" /\ handler'[i].alias = h.src
    BY <1>t, <2>1, Zenon DEF TypeOK
  <2>4. \A x \in Ifs, a \in Aliases :
          /\ Holds(x, a)' <=> Holds(x, a)
          /\ Claims(x, a)' <=> Claims(x, a)
          /\ Engaged(x, a) => Engaged(x, a)'
    BY <2>1, <2>3, Zenon DEF Holds, Claims, Engaged
  <2>5. ASSUME NEW a \in Aliases, Named(q, a), Holds(i, a)
        PROVE  Named(Tail(q), a) \/ Engaged(i, a)'
    <3>1. CASE h.src = a
      BY <2>3, <2>5, <3>1, Zenon DEF Holds, Engaged
    <3>2. CASE h.src # a
      BY <2>1, <2>2, <2>5, <3>2, NamedTail, Zenon
    <3> QED BY <3>1, <3>2, Zenon
  <2>6. ASSUME NEW x \in Ifs, NEW y \in Ifs, NEW a \in Aliases,
               Named(inbox[x][y], a), Holds(y, a)'
        PROVE  Named(inbox'[x][y], a) \/ Engaged(y, a)'
    BY <2>3, <2>4, <2>5, <2>6, Zenon
  <2>7. ASSUME NEW x \in Ifs, NEW y \in Ifs, NEW a \in Aliases PROVE Moves(x, y, a)
    BY <2>1, <2>4, <2>6, Zenon DEF Moves
  <2> QED BY <2>1, <2>7, Zenon
<1>4. ASSUME NEW i \in Ifs, send_reserved_alias(i) PROVE Goal
  <2> DEFINE alias == handler[i].alias
             frame == Frame("RID", alias, NoNode)
  <2>1. /\ handler[i].pc = "rid" /\ UNCHANGED <<local, flow>> /\ Broadcast(i, frame)
        /\ handler' = [handler EXCEPT ![i] = NoHandling]
    BY <1>4, Zenon DEF send_reserved_alias
  <2>2. alias \in Aliases
    BY <1>t, <2>1, Zenon DEF Busy, HandlerBusy
  <2>3. frame \in Frames /\ frame.src = alias
    BY <2>2, FrameType, Zenon DEF FrameTypes, Frame
  <2> HIDE DEF frame
  <2>4. /\ \A s, t \in Ifs, a \in Aliases :
             /\ Named(inbox[s][t], a) => Named(inbox'[s][t], a)
             /\ Named(rest[s][t], a) => Named(rest'[s][t], a)
        /\ \A t \in Ifs \ {i} : Named(inbox'[i][t], alias) /\ Named(rest'[i][t], alias)
    BY <1>t, <2>1, <2>3, NamedBroadcast, Zenon
  <2>5. \A s \in Ifs \ {i} : handler'[s] = handler[s]
    BY <1>t, <2>1, Zenon DEF TypeOK
  <2>6. \A x \in Ifs, a \in Aliases :
          /\ Holds(x, a)' <=> Holds(x, a)
          /\ Claims(x, a)' <=> Claims(x, a)
          /\ Engaged(x, a) => Engaged(x, a)' \/ (x = i /\ a = alias)
    BY <2>1, <2>5, Zenon DEF Holds, Claims, Engaged
  <2>7. ASSUME NEW x \in Ifs, NEW y \in Ifs, NEW a \in Aliases, x # y PROVE Moves(x, y, a)
    BY <2>1, <2>4, <2>6, <2>7, Zenon DEF Moves
  <2> QED BY <2>1, <2>7, Zenon
<1>5. ASSUME NEW i \in Ifs, send_release_alias(i) PROVE Goal
  <2> DEFINE alias == handler[i].alias
             owner == local[i][alias]
  <2>1. /\ handler[i].pc = "release" /\ flow' = flow
        /\ handler' = [handler EXCEPT ![i] = NoHandling]
        /\ local' = [local EXCEPT ![i] = remove(local[i], alias)]
        /\ IF owner \in NodeIDs THEN Broadcast(i, Frame("AMR", alias, owner))
           ELSE UNCHANGED <<inbox, rest>>
    BY <1>5, Zenon DEF send_release_alias
  <2>2. alias \in Aliases
    BY <1>t, <2>1, Zenon DEF Busy, HandlerBusy
  <2>3. \A s \in Ifs, a \in Aliases : Holds(s, a)' => Holds(s, a) /\ (s # i \/ a # alias)
    BY <1>t, <2>1, <2>2, Zenon DEF TypeOK, remove, Holds
  <2>4. \A s \in Ifs \ {i} : handler'[s] = handler[s]
    BY <1>t, <2>1, Zenon DEF TypeOK
  <2>5. \A s, t \in Ifs, a \in Aliases :
          /\ Named(inbox[s][t], a) => Named(inbox'[s][t], a)
          /\ Named(rest[s][t], a) => Named(rest'[s][t], a)
    <3>1. CASE owner \in NodeIDs
      <4>1. Frame("AMR", alias, owner) \in Frames
        BY <2>2, <3>1, FrameType, Zenon DEF FrameTypes
      <4> QED BY <1>t, <2>1, <3>1, <4>1, NamedBroadcast, Zenon
    <3>2. CASE owner \notin NodeIDs
      BY <2>1, <3>2, Zenon
    <3> QED BY <3>1, <3>2, Zenon
  <2>6. \A x \in Ifs, a \in Aliases :
          /\ Claims(x, a)' <=> Claims(x, a)
          /\ Engaged(x, a) => Engaged(x, a)' \/ (x = i /\ a = alias)
    BY <2>1, <2>4, Zenon DEF Claims, Engaged
  <2>7. ASSUME NEW x \in Ifs, NEW y \in Ifs, NEW a \in Aliases PROVE Moves(x, y, a)
    BY <2>1, <2>3, <2>5, <2>6, Zenon DEF Moves
  <2> QED BY <2>1, <2>7, Zenon
<1>6. ASSUME NEW i \in Ifs, NEW j \in Ifs, Dispatch(i, j) PROVE Goal
  <2> DEFINE q == rest[j][i]
             h == Head(q)
             f == flow[i]
             g == ConflictSeen(f, h)
  <2>1. /\ q # <<>> /\ UNCHANGED <<local, handler, inbox>>
        /\ rest' = [rest EXCEPT ![j][i] = Tail(@)]
        /\ flow' = [flow EXCEPT ![i] = g]
    BY <1>6, Zenon DEF Dispatch
  <2>2. q \in Seq(Frames) /\ f \in Flows
    <3>1. rest \in [Ifs -> [Ifs -> Seq(Frames)]] /\ flow \in [Ifs -> Flows]
      BY <1>t, Zenon DEF TypeOK
    <3> QED BY <3>1, Zenon
  <2>3. /\ g = f \/ (g.conflict /\ g.pc = f.pc /\ g.seq = f.seq)
        /\ f.pc # "waiting" /\ f.alias = h.src => g.conflict
    <3> DEFINE t == (f.pc = "sleep")
               e == [f EXCEPT !.conflict = TRUE, !.triggered = t]
    <3>1. /\ g = f \/ g = e
          /\ f.pc # "waiting" /\ f.alias = h.src /\ ~f.conflict => g = e
      BY Zenon DEF ConflictSeen
    <3>2. t \in BOOLEAN
      BY Zenon
    <3> HIDE DEF t
    <3>3. e.pc = f.pc /\ e.seq = f.seq /\ e.conflict
      BY <2>2, <3>2, Zenon DEF Flows
    <3> HIDE DEF e, f, g
    <3> QED BY <3>1, <3>3, Zenon
  <2>4. /\ flow'[i] = g /\ \A x \in Ifs \ {i} : flow'[x] = flow[x]
        /\ \A s, u \in Ifs : rest'[u][s] = IF u = j /\ s = i THEN Tail(q) ELSE rest[u][s]
    BY <1>t, <2>1, Zenon DEF TypeOK
  <2> HIDE DEF g
  <2>5. \A x \in Ifs, a \in Aliases :
          /\ Holds(x, a)' <=> Holds(x, a)
          /\ Engaged(x, a)' <=> Engaged(x, a)
    BY <2>1, Zenon DEF Holds, Engaged
  <2>6. \A x \in Ifs, a \in Aliases :
          /\ Claims(x, a)' => Claims(x, a) /\ flow'[x] = flow[x]
          /\ Claims(i, a)' => a # h.src
    <3>1. \A x \in Ifs \ {i}, a \in Aliases : Claims(x, a)' => Claims(x, a)
      BY <2>4, Zenon DEF Claims
    <3>2. \A a \in Aliases : Claims(i, a)' => g = f /\ Claims(i, a) /\ a # h.src
      BY <2>3, <2>4, Zenon DEF Claims
    <3> QED BY <2>4, <3>1, <3>2, Zenon
  <2>7. ASSUME NEW x \in Ifs, NEW y \in Ifs, NEW a \in Aliases,
               Named(rest[x][y], a), Claims(y, a)'
        PROVE  Named(rest'[x][y], a)
    <3>1. CASE x = j /\ y = i
      <4>1. Named(q, a) /\ h.src # a
        BY <2>6, <2>7, <3>1, Zenon
      <4>2. Named(Tail(q), a)
        BY <2>1, <2>2, <4>1, NamedTail, Zenon
      <4> QED BY <2>4, <3>1, <4>2, Zenon
    <3>2. CASE ~(x = j /\ y = i)
      BY <2>4, <2>7, <3>2, Zenon
    <3> QED BY <3>1, <3>2, Zenon
  <2>8. ASSUME NEW x \in Ifs, NEW y \in Ifs, NEW a \in Aliases PROVE Moves(x, y, a)
    BY <2>1, <2>5, <2>6, <2>7, Zenon DEF Moves
  <2>9. Phase(g)
    BY <2>3, Zenon DEF Phase
  <2> QED BY <2>4, <2>8, <2>9, Zenon
<1>7. ASSUME Steady PROVE Goal
  <2>1. \A x, y \in Ifs, a \in Aliases : Moves(x, y, a)
    BY <1>7, SteadyMoves, Zenon
  <2> QED BY <1>7, <2>1, Zenon DEF Steady
<1> HIDE DEF Goal
<1>8. Goal
  BY <1>2, <1>3, <1>4, <1>5, <1>6, <1>7, SteadySteps, Zenon DEF Next, HandlerStep
<1> QED BY <1>8, Zenon DEF Goal

\* There are no claims in the beginning.
LEMMA RaceInit == Init => RaceInv
<1> SUFFICES ASSUME Init PROVE RaceInv
  BY Zenon
<1>1. \A i \in Ifs : flow[i] = WaitingFlow /\ \A a \in Aliases : ~Holds(i, a) /\ ~Claims(i, a)
  BY Zenon DEF Init, Holds, Claims, WaitingFlow
<1>2. Phase(WaitingFlow)
  BY Zenon DEF Phase, WaitingFlow
<1>3. ASSUME NEW i \in Ifs, NEW j \in Ifs, NEW a \in Aliases PROVE Race(i, j, a)
  BY <1>1, Zenon DEF Race
<1> QED BY <1>1, <1>2, <1>3, Zenon DEF RaceInv

\* RaceInv is inductive on a timely bus.
LEMMA RaceNext ==
  ASSUME TInv, RaceInv, Timely, [Next]_vars
  PROVE  RaceInv'
<1>1. /\ \A x, y \in Ifs, a \in Aliases : x # y => Moves(x, y, a)
      /\ \A i \in Ifs : Phase(flow'[i])
  <2>1. CASE Next
    BY <2>1, RaceMoves, Zenon DEF RaceInv
  <2>2. CASE UNCHANGED vars
    <3>1. Steady
      BY <2>2, Zenon DEF vars, Steady, Holds
    <3>2. \A i \in Ifs : Phase(flow'[i])
      BY <2>2, Zenon DEF vars, RaceInv
    <3> QED BY <3>1, <3>2, SteadyMoves, Zenon
  <2> QED BY <2>1, <2>2, Zenon
<1>2. ASSUME NEW x \in Ifs, NEW y \in Ifs, NEW a \in Aliases, x # y PROVE Race(x, y, a)'
  BY <1>1, <1>2, RaceStep, Zenon DEF RaceInv
<1> QED BY <1>1, <1>2, Zenon DEF RaceInv

\* When answers to a CID frame arrive within the wait, no two interfaces ever
\* hold one alias, however often interfaces restart, nodes are deleted and
\* write flows go on to send with an alias their interface has lost.
THEOREM AllocatorUniqueAlias ==
  ASSUME Timely
  PROVE  Spec => []UniqueAlias
<1>1. Init => RaceInv
  BY RaceInit, Zenon
<1>2. TInv /\ RaceInv /\ [Next]_vars => RaceInv'
  BY RaceNext, Zenon
<1>3. Spec => []TInv
  BY InitTyped, TInvNext, PTL DEF Spec
<1>4. RaceInv => UniqueAlias
  BY Zenon DEF RaceInv, Race, Holds, UniqueAlias
<1> QED BY <1>1, <1>2, <1>3, <1>4, PTL DEF Spec

-----------------------------------------------------------------------------
(* What the others remember of a node. *)

\* A frame that changes what RemoteAliasCacheUpdater remembers of n.
Tells(frame, n) == frame.type \in {"AMD", "AMR"} /\ frame.node = n

\* Somebody who remembers cur of n, and still has the frames of q to see, ends
\* with no alias of n or one that n has in table: the last frame of q about n
\* decides, or cur if there is none.
Heard(q, n, cur, table) ==
  /\ \A k \in 1..Len(q) :
       Tells(q[k], n) /\ (\A m \in 1..Len(q) : k < m => ~Tells(q[m], n))
         => q[k].type = "AMR" \/ table[q[k].src] = n
  /\ (\A k \in 1..Len(q) : ~Tells(q[k], n)) => cur = 0 \/ table[cur] = n

\* An interface sends with aliases of its cache, and about its own nodes.
Honest(table, nodes, frame) ==
  /\ frame.type # "CID" => table[frame.src] # "nobody"
  /\ frame.type \in {"AMD", "AMR"} => frame.node \in nodes
AllHonest(table, nodes, q) == \A k \in 1..Len(q) : Honest(table, nodes, q[k])

\* The frames under way, and that each interface follows the others.
ChannelInv ==
  /\ \A i \in Ifs : inbox[i][i] = <<>> /\ rest[i][i] = <<>>
  /\ \A i, j \in Ifs : /\ AllHonest(local[i], NodesOf[i], inbox[i][j])
                        /\ AllHonest(local[i], NodesOf[i], rest[i][j])
  /\ \A i, j \in Ifs : i # j =>
       \A n \in NodesOf[i] : Heard(rest[i][j], n, remote[j][n], local[i])

\* The write flow works for a node of its interface, with the alias of that
\* node once it has one; a node whose write flow waits has none.
Uses(r, table, nodes) ==
  /\ r.pc # "idle" => r.node \in nodes
  /\ r.pc \in {"amd", "frame"} => table[r.alias] = r.node
  /\ r.pc \in {"wait", "woken"} => \A a \in Aliases : table[a] # r.node

\* A node of the interface has at most one alias.
OneEach(table, nodes) ==
  /\ \A a, b \in Aliases : table[a] \in NodeIDs /\ table[a] = table[b] => a = b
  /\ \A a \in Aliases : table[a] \in NodeIDs => table[a] \in nodes

\* Nothing is ever released: the flow works on an alias that is not in the
\* cache, the handler answers for one that is.
OwnerInv ==
  \A i \in Ifs :
    /\ handler[i].pc # "release" /\ (handler[i].pc = "rid" => Holds(i, handler[i].alias))
    /\ flow[i].pc # "waiting" => ~Holds(i, flow[i].alias)
    /\ OneEach(local[i], NodesOf[i])
    /\ \A c \in Clients : Uses(client[i][c], local[i], NodesOf[i])

RemoteInv == restarts = 0 /\ ChannelInv /\ OwnerInv

\* Frames have a source alias.
LEMMA SourceAlias ==
  ASSUME NEW q \in Seq(Frames), NEW k \in 1..Len(q)
  PROVE  q[k].src \in Aliases
<1>1. q[k] \in Frames
  OBVIOUS
<1> QED BY <1>1, Zenon DEF Frames

\* Frames stay honest as long as the aliases stay in the cache.
LEMMA HonestKept ==
  ASSUME NEW q \in Seq(Frames), NEW table, NEW after, NEW nodes, AllHonest(table, nodes, q),
         \A a \in Aliases : table[a] # "nobody" => after[a] # "nobody"
  PROVE  AllHonest(after, nodes, q)
BY SourceAlias, Zenon DEF AllHonest, Honest

\* A frame more or less.
LEMMA HonestChange ==
  ASSUME NEW q \in Seq(Frames), NEW table, NEW nodes, AllHonest(table, nodes, q)
  PROVE  /\ \A f \in Frames : Honest(table, nodes, f) => AllHonest(table, nodes, Append(q, f))
         /\ q # <<>> => Honest(table, nodes, Head(q)) /\ AllHonest(table, nodes, Tail(q))
<1>1. ASSUME NEW f \in Frames
      PROVE  \A k \in 1..Len(Append(q, f)) :
               Append(q, f)[k] = f \/ (k \in 1..Len(q) /\ Append(q, f)[k] = q[k])
  OBVIOUS
<1>2. q # <<>> => /\ 1 \in 1..Len(q) /\ Head(q) = q[1]
                  /\ \A k \in 1..Len(Tail(q)) : k + 1 \in 1..Len(q) /\ Tail(q)[k] = q[k + 1]
  OBVIOUS
<1> QED BY <1>1, <1>2, Zenon DEF AllHonest

\* One more frame.
LEMMA HeardAppend ==
  ASSUME NEW q \in Seq(Frames), NEW f \in Frames, NEW n, NEW cur \in 0..(AliasCount - 1),
         NEW table, NEW after, Heard(q, n, cur, table),
         Tells(f, n) => f.type = "AMR" \/ after[f.src] = n,
         ~Tells(f, n) => \A b \in Aliases : table[b] = n => after[b] = n
  PROVE  Heard(Append(q, f), n, cur, after)
<1> DEFINE p == Append(q, f)
<1>1. /\ Len(q) \in Nat /\ Len(p) = Len(q) + 1 /\ p[Len(q) + 1] = f
      /\ \A k \in 1..Len(q) : p[k] = q[k]
  OBVIOUS
<1> HIDE DEF p
<1>2. /\ Len(q) + 1 \in 1..Len(p)
      /\ \A k \in 1..Len(p) : k \in 1..Len(q) \/ k = Len(q) + 1
      /\ \A k \in 1..Len(q) : k \in 1..Len(p) /\ k < Len(q) + 1
  BY <1>1
<1>3. (\A k \in 1..Len(q) : q[k].src \in Aliases) /\ (cur = 0 \/ cur \in Aliases)
  <2>1. \A k \in 1..Len(q) : q[k].src \in Aliases
    BY SourceAlias, Zenon
  <2>2. cur = 0 \/ cur \in Aliases
    BY DEF Aliases
  <2> QED BY <2>1, <2>2, Zenon
<1>4. ASSUME NEW k \in 1..Len(p), Tells(p[k], n),
             \A m \in 1..Len(p) : k < m => ~Tells(p[m], n)
      PROVE  p[k].type = "AMR" \/ after[p[k].src] = n
  <2>1. CASE k = Len(q) + 1
    BY <1>1, <1>4, <2>1, Zenon
  <2>2. CASE k \in 1..Len(q)
    <3>1. ~Tells(f, n)
      BY <1>1, <1>2, <1>4, <2>2, Zenon
    <3>2. \A m \in 1..Len(q) : k < m => ~Tells(q[m], n)
      BY <1>1, <1>2, <1>4, Zenon
    <3>3. q[k].type = "AMR" \/ table[q[k].src] = n
      BY <1>1, <1>4, <2>2, <3>2, Zenon DEF Heard
    <3> QED BY <1>1, <1>3, <2>2, <3>1, <3>3, Zenon
  <2> QED BY <1>2, <2>1, <2>2, Zenon
<1>5. ASSUME \A k \in 1..Len(p) : ~Tells(p[k], n) PROVE cur = 0 \/ after[cur] = n
  <2>1. ~Tells(f, n) /\ \A k \in 1..Len(q) : ~Tells(q[k], n)
    BY <1>1, <1>2, <1>5, Zenon
  <2> QED BY <1>3, <2>1, Zenon DEF Heard
<1>6. Heard(p, n, cur, after)
  BY <1>4, <1>5, Zenon DEF Heard
<1> QED BY <1>6, Zenon DEF p

\* The first frame is seen.
LEMMA HeardTail ==
  ASSUME NEW q \in Seq(Frames), q # <<>>, NEW n, NEW cur, NEW table,
         Heard(q, n, cur, table), NEW new,
         Tells(Head(q), n) => new = 0 \/ (Head(q).type # "AMR" /\ new = Head(q).src),
         ~Tells(Head(q), n) => new = 0 \/ new = cur
  PROVE  Heard(Tail(q), n, new, table)
<1> DEFINE p == Tail(q)
<1>1. /\ Len(q) \in Nat /\ Len(p) = Len(q) - 1 /\ Head(q) = q[1] /\ 1 \in 1..Len(q)
      /\ \A k \in 1..(Len(q) - 1) : p[k] = q[k + 1]
  OBVIOUS
<1> HIDE DEF p
<1>2. /\ \A k \in 1..Len(p) : k + 1 \in 1..Len(q) /\ p[k] = q[k + 1]
      /\ \A m \in 1..Len(q) : 1 < m => m - 1 \in 1..Len(p) /\ p[m - 1] = q[m]
      /\ \A k \in 1..Len(p), m \in 1..Len(q) : k + 1 < m => 1 < m /\ k < m - 1
      /\ \A m \in 1..Len(q) : m = 1 \/ 1 < m
  BY <1>1
<1>3. ASSUME NEW k \in 1..Len(p), Tells(p[k], n),
             \A m \in 1..Len(p) : k < m => ~Tells(p[m], n)
      PROVE  p[k].type = "AMR" \/ table[p[k].src] = n
  <2>1. \A m \in 1..Len(q) : k + 1 < m => ~Tells(q[m], n)
    BY <1>2, <1>3, Zenon
  <2>2. k + 1 \in 1..Len(q) /\ p[k] = q[k + 1]
    BY <1>2, Zenon
  <2>3. q[k + 1].type = "AMR" \/ table[q[k + 1].src] = n
    BY <1>3, <2>1, <2>2, Zenon DEF Heard
  <2> QED BY <2>2, <2>3, Zenon
<1>4. ASSUME \A k \in 1..Len(p) : ~Tells(p[k], n) PROVE new = 0 \/ table[new] = n
  <2>1. \A m \in 1..Len(q) : 1 < m => ~Tells(q[m], n)
    BY <1>2, <1>4, Zenon
  <2>2. CASE Tells(q[1], n)
    <3>1. q[1].type = "AMR" \/ table[q[1].src] = n
      BY <1>1, <2>1, <2>2, Zenon DEF Heard
    <3> QED BY <1>1, <2>2, <3>1, Zenon
  <2>3. CASE ~Tells(q[1], n)
    <3>1. \A m \in 1..Len(q) : ~Tells(q[m], n)
      BY <1>2, <2>1, <2>3, Zenon
    <3> QED BY <1>1, <2>3, <3>1, Zenon DEF Heard
  <2> QED BY <2>2, <2>3, Zenon
<1>5. Heard(p, n, new, table)
  BY <1>3, <1>4, Zenon DEF Heard
<1> QED BY <1>5, Zenon DEF p

\* Nothing is seen of n, and n keeps its alias.
LEMMA HeardKept ==
  ASSUME NEW q \in Seq(Frames), NEW n, NEW cur \in 0..(AliasCount - 1), NEW table, NEW after,
         Heard(q, n, cur, table), NEW new, new = 0 \/ new = cur,
         \A b \in Aliases : table[b] = n => after[b] = n
  PROVE  Heard(q, n, new, after)
<1>1. (\A k \in 1..Len(q) : q[k].src \in Aliases) /\ (cur = 0 \/ cur \in Aliases)
  <2>1. \A k \in 1..Len(q) : q[k].src \in Aliases
    BY SourceAlias, Zenon
  <2>2. cur = 0 \/ cur \in Aliases
    BY DEF Aliases
  <2> QED BY <2>1, <2>2, Zenon
<1> QED BY <1>1, Zenon DEF Heard

\* Aliases that are held stay held, and nodes keep theirs, except the node that
\* the frame sent by i is about.
Keeps(i, frame) ==
  /\ \A s \in Ifs, a \in Aliases : Holds(s, a) => Holds(s, a)'
  /\ \A s \in Ifs : \A n \in NodesOf[s], a \in Aliases :
       local[s][a] = n => local'[s][a] = n \/ (s = i /\ Tells(frame, n))

\* A frame is sent.
LEMMA ChannelSend ==
  ASSUME TypeOK, ChannelInv, NEW i \in Ifs, NEW frame \in Frames, Broadcast(i, frame),
         remote' = remote, Keeps(i, frame),
         frame.type # "CID" => local'[i][frame.src] # "nobody",
         frame.type \in {"AMD", "AMR"} => frame.node \in NodesOf[i],
         frame.type = "AMD" => local'[i][frame.src] = frame.node
  PROVE  ChannelInv'
<1>1. /\ inbox \in [Ifs -> [Ifs -> Seq(Frames)]]
      /\ rest \in [Ifs -> [Ifs -> Seq(Frames)]]
      /\ remote \in [Ifs -> [NodeIDs -> 0..(AliasCount - 1)]]
  BY Zenon DEF TypeOK
<1>2. /\ inbox' = [inbox EXCEPT ![i] =
                    [j \in Ifs |-> IF j = i THEN @[j] ELSE Append(@[j], frame)]]
      /\ rest' = [rest EXCEPT ![i] =
                    [j \in Ifs |-> IF j = i THEN @[j] ELSE Append(@[j], frame)]]
  BY Zenon DEF Broadcast
<1>3. \A s, t \in Ifs :
        /\ inbox'[s][t] = IF s = i /\ t # i THEN Append(inbox[s][t], frame) ELSE inbox[s][t]
        /\ rest'[s][t] = IF s = i /\ t # i THEN Append(rest[s][t], frame) ELSE rest[s][t]
  BY <1>1, <1>2, Zenon
<1>4. \A s, t \in Ifs : inbox[s][t] \in Seq(Frames) /\ rest[s][t] \in Seq(Frames)
  BY <1>1, Zenon
<1>5. \A s \in Ifs : inbox'[s][s] = <<>> /\ rest'[s][s] = <<>>
  BY <1>3, Zenon DEF ChannelInv
<1>6. Honest(local'[i], NodesOf[i], frame)
  BY Zenon DEF Honest
<1>7. ASSUME NEW s \in Ifs, NEW q \in Seq(Frames), AllHonest(local[s], NodesOf[s], q)
      PROVE  AllHonest(local'[s], NodesOf[s], q)
  <2>1. \A a \in Aliases : local[s][a] # "nobody" => local'[s][a] # "nobody"
    BY Zenon DEF Keeps, Holds
  <2> QED BY <1>7, <2>1, HonestKept, Zenon
<1>8. ASSUME NEW s \in Ifs, NEW t \in Ifs
      PROVE  /\ AllHonest(local'[s], NodesOf[s], inbox'[s][t])
             /\ AllHonest(local'[s], NodesOf[s], rest'[s][t])
  <2>1. /\ AllHonest(local'[s], NodesOf[s], inbox[s][t])
        /\ AllHonest(local'[s], NodesOf[s], rest[s][t])
    BY <1>4, <1>7, Zenon DEF ChannelInv
  <2>2. CASE s = i /\ t # i
    BY <1>3, <1>4, <1>6, <2>1, <2>2, HonestChange
  <2>3. CASE ~(s = i /\ t # i)
    BY <1>3, <2>1, <2>3, Zenon
  <2> QED BY <2>2, <2>3, Zenon
<1>9. ASSUME NEW s \in Ifs, NEW t \in Ifs, s # t, NEW n \in NodesOf[s]
      PROVE  Heard(rest'[s][t], n, remote'[t][n], local'[s])
  <2>1. n \in NodeIDs
    BY Zenon DEF NodeIDs
  <2>2. /\ Heard(rest[s][t], n, remote[t][n], local[s])
        /\ remote[t][n] \in 0..(AliasCount - 1) /\ remote'[t][n] = remote[t][n]
        /\ rest[s][t] \in Seq(Frames)
    BY <1>1, <1>9, <2>1, Zenon DEF ChannelInv
  <2>3. CASE s = i
    <3>1. rest'[s][t] = Append(rest[s][t], frame)
      BY <1>3, <1>9, <2>3, Zenon
    <3>2. Tells(frame, n) => frame.type = "AMR" \/ local'[s][frame.src] = n
      BY <2>3, Zenon DEF Tells
    <3>3. ~Tells(frame, n) => \A b \in Aliases : local[s][b] = n => local'[s][b] = n
      BY Zenon DEF Keeps
    <3>4. Heard(Append(rest[s][t], frame), n, remote[t][n], local'[s])
      BY <2>2, <3>2, <3>3, HeardAppend, Zenon
    <3> QED BY <2>2, <3>1, <3>4, Zenon
  <2>4. CASE s # i
    <3>1. rest'[s][t] = rest[s][t]
      BY <1>3, <2>4, Zenon
    <3>2. \A b \in Aliases : local[s][b] = n => local'[s][b] = n
      BY <2>4, Zenon DEF Keeps
    <3> QED BY <2>2, <3>1, <3>2, HeardKept, Zenon
  <2> QED BY <2>3, <2>4, Zenon
<1> QED BY <1>5, <1>8, <1>9, Zenon DEF ChannelInv

\* Nothing is sent, and nobody loses an alias.
Kept ==
  /\ \A s \in Ifs, a \in Aliases : Holds(s, a) => Holds(s, a)'
  /\ \A s \in Ifs : \A n \in NodesOf[s], a \in Aliases : local[s][a] = n => local'[s][a] = n

LEMMA ChannelStill ==
  ASSUME TypeOK, ChannelInv, UNCHANGED <<inbox, rest, remote>>, Kept
  PROVE  ChannelInv'
<1>1. /\ inbox \in [Ifs -> [Ifs -> Seq(Frames)]]
      /\ rest \in [Ifs -> [Ifs -> Seq(Frames)]]
      /\ remote \in [Ifs -> [NodeIDs -> 0..(AliasCount - 1)]]
  BY Zenon DEF TypeOK
<1>2. \A s \in Ifs, a \in Aliases : local[s][a] # "nobody" => local'[s][a] # "nobody"
  BY Zenon DEF Kept, Holds
<1>s. inbox' = inbox /\ rest' = rest /\ remote' = remote
  BY Zenon
<1>3. ASSUME NEW s \in Ifs, NEW t \in Ifs
      PROVE  /\ AllHonest(local'[s], NodesOf[s], inbox'[s][t])
             /\ AllHonest(local'[s], NodesOf[s], rest'[s][t])
  <2>1. inbox[s][t] \in Seq(Frames) /\ rest[s][t] \in Seq(Frames)
    BY <1>1, Zenon
  <2>2. AllHonest(local[s], NodesOf[s], inbox[s][t]) /\ AllHonest(local[s], NodesOf[s], rest[s][t])
    BY Zenon DEF ChannelInv
  <2>3. /\ AllHonest(local'[s], NodesOf[s], inbox[s][t])
        /\ AllHonest(local'[s], NodesOf[s], rest[s][t])
    BY <1>2, <2>1, <2>2, HonestKept, Zenon
  <2> QED BY <1>s, <2>3, Zenon
<1>4. ASSUME NEW s \in Ifs, NEW t \in Ifs, s # t, NEW n \in NodesOf[s]
      PROVE  Heard(rest'[s][t], n, remote'[t][n], local'[s])
  <2>1. n \in NodeIDs
    BY Zenon DEF NodeIDs
  <2>2. /\ Heard(rest[s][t], n, remote[t][n], local[s])
        /\ remote[t][n] \in 0..(AliasCount - 1) /\ rest[s][t] \in Seq(Frames)
    <3>1. Heard(rest[s][t], n, remote[t][n], local[s])
      BY <1>4, Zenon DEF ChannelInv
    <3> QED BY <1>1, <2>1, <3>1, Zenon
  <2>3. \A b \in Aliases : local[s][b] = n => local'[s][b] = n
    BY Zenon DEF Kept
  <2>4. Heard(rest[s][t], n, remote[t][n], local'[s])
    BY <2>2, <2>3, HeardKept, Zenon
  <2> QED BY <1>s, <2>4, Zenon
<1>5. \A s \in Ifs : inbox'[s][s] = <<>> /\ rest'[s][s] = <<>>
  BY <1>s, Zenon DEF ChannelInv
<1> QED BY <1>3, <1>4, <1>5, Zenon DEF ChannelInv

\* A frame is seen by the AliasConflictHandler.
LEMMA ChannelEntry ==
  ASSUME TypeOK, ChannelInv, NEW i \in Ifs, NEW j \in Ifs, inbox[j][i] # <<>>,
         inbox' = [inbox EXCEPT ![j][i] = Tail(@)], UNCHANGED <<rest, remote, local>>
  PROVE  ChannelInv'
<1>1. \A s, t \in Ifs : inbox'[s][t] = IF s = j /\ t = i THEN Tail(inbox[j][i]) ELSE inbox[s][t]
  BY Zenon DEF TypeOK
<1>2. i # j
  BY Zenon DEF ChannelInv
<1>3. \A s, t \in Ifs : inbox[s][t] \in Seq(Frames)
  BY DEF TypeOK
<1>s. rest' = rest /\ remote' = remote /\ local' = local
  BY Zenon
<1>4. ASSUME NEW s \in Ifs, NEW t \in Ifs PROVE AllHonest(local'[s], NodesOf[s], inbox'[s][t])
  <2>1. AllHonest(local[s], NodesOf[s], inbox[s][t])
    BY Zenon DEF ChannelInv
  <2>2. CASE s = j /\ t = i
    <3>1. AllHonest(local[s], NodesOf[s], Tail(inbox[s][t]))
      BY <1>3, <2>1, <2>2, HonestChange, Zenon
    <3>2. inbox'[s][t] = Tail(inbox[s][t])
      BY <1>1, <2>2, Zenon
    <3> QED BY <1>s, <3>1, <3>2, Zenon
  <2>3. CASE ~(s = j /\ t = i)
    <3>1. inbox'[s][t] = inbox[s][t]
      BY <1>1, <2>3, Zenon
    <3> QED BY <1>s, <2>1, <3>1, Zenon
  <2> QED BY <2>2, <2>3, Zenon
<1>5. \A s \in Ifs : inbox'[s][s] = <<>> /\ rest'[s][s] = <<>>
  <2>1. ASSUME NEW s \in Ifs PROVE inbox'[s][s] = inbox[s][s]
    <3>1. ~(s = j /\ s = i)
      BY <1>2, Zenon
    <3>2. inbox'[s][s] = IF s = j /\ s = i THEN Tail(inbox[j][i]) ELSE inbox[s][s]
      BY <1>1, Zenon
    <3> QED BY <3>1, <3>2, Zenon
  <2> QED BY <1>s, <2>1, Zenon DEF ChannelInv
<1>6. \A s, t \in Ifs : AllHonest(local'[s], NodesOf[s], rest'[s][t])
  BY <1>s, Zenon DEF ChannelInv
<1>7. \A s, t \in Ifs : s # t =>
        \A n \in NodesOf[s] : Heard(rest'[s][t], n, remote'[t][n], local'[s])
  BY <1>s, Zenon DEF ChannelInv
<1> QED BY <1>4, <1>5, <1>6, <1>7, Zenon DEF ChannelInv

\* What RemoteAliasCacheUpdater remembers of n after a frame.
LEMMA RemoteSeen ==
  ASSUME NEW table \in [NodeIDs -> 0..(AliasCount - 1)], NEW frame, NEW n \in NodeIDs
  PROVE  /\ Tells(frame, n) =>
              \/ RemoteUpdated(table, frame)[n] = 0
              \/ frame.type # "AMR" /\ RemoteUpdated(table, frame)[n] = frame.src
         /\ ~Tells(frame, n) => RemoteUpdated(table, frame)[n] \in {0, table[n]}
<1>1. CASE frame.type = "AMD"
  BY <1>1, Zenon DEF RemoteUpdated, remote_add, Tells
<1>2. CASE frame.type = "AMR"
  <2>1. RemoteUpdated(table, frame) = remote_remove(table, frame.node, frame.src)
    BY <1>2, Zenon DEF RemoteUpdated
  <2> QED BY <1>2, <2>1, Zenon DEF remote_remove, Tells
<1>3. CASE frame.type \notin {"AMD", "AMR"}
  <2>1. RemoteUpdated(table, frame) = table
    BY <1>3, Zenon DEF RemoteUpdated
  <2> QED BY <1>3, <2>1, Zenon DEF Tells
<1> QED BY <1>1, <1>2, <1>3, Zenon

\* A frame is seen by the other handlers.
LEMMA ChannelDispatch ==
  ASSUME TypeOK, ChannelInv, NEW i \in Ifs, NEW j \in Ifs, Dispatch(i, j),
         \A s, t \in Ifs : s # t => NodesOf[s] \cap NodesOf[t] = {}
  PROVE  ChannelInv'
<1> DEFINE q == rest[j][i]
           h == Head(q)
           new == RemoteUpdated(remote[i], h)
<1>1. /\ q # <<>> /\ UNCHANGED <<local, inbox>>
      /\ rest' = [rest EXCEPT ![j][i] = Tail(@)]
      /\ remote' = [remote EXCEPT ![i] = new]
  BY Zenon DEF Dispatch
<1>2. /\ \A s, t \in Ifs : rest[s][t] \in Seq(Frames)
      /\ \A s, t \in Ifs : rest'[s][t] = IF s = j /\ t = i THEN Tail(q) ELSE rest[s][t]
      /\ remote \in [Ifs -> [NodeIDs -> 0..(AliasCount - 1)]]
      /\ remote'[i] = new /\ \A t \in Ifs \ {i} : remote'[t] = remote[t]
  <2>1. /\ rest \in [Ifs -> [Ifs -> Seq(Frames)]]
        /\ remote \in [Ifs -> [NodeIDs -> 0..(AliasCount - 1)]]
    BY Zenon DEF TypeOK
  <2> HIDE DEF new
  <2>2. \A s, t \in Ifs : rest[s][t] \in Seq(Frames)
    BY <2>1
  <2>3. \A s, t \in Ifs : rest'[s][t] = IF s = j /\ t = i THEN Tail(q) ELSE rest[s][t]
    BY <1>1, <2>1, Zenon
  <2>4. remote'[i] = new /\ \A t \in Ifs \ {i} : remote'[t] = remote[t]
    BY <1>1, <2>1, Zenon
  <2> QED BY <2>1, <2>2, <2>3, <2>4, Zenon
<1>3. i # j
  BY <1>1, Zenon DEF ChannelInv
<1>5. Honest(local[j], NodesOf[j], h)
  BY <1>1, <1>2, HonestChange, Zenon DEF ChannelInv
<1>6. ASSUME NEW n \in NodeIDs
      PROVE  /\ Tells(h, n) => new[n] = 0 \/ (h.type # "AMR" /\ new[n] = h.src)
             /\ ~Tells(h, n) => new[n] = 0 \/ new[n] = remote[i][n]
  <2>1. remote[i] \in [NodeIDs -> 0..(AliasCount - 1)]
    BY <1>2, Zenon
  <2> QED BY <2>1, RemoteSeen
<1> HIDE DEF new, h
<1>s. local' = local /\ inbox' = inbox
  BY <1>1, Zenon
<1>8. ASSUME NEW s \in Ifs, NEW t \in Ifs PROVE AllHonest(local'[s], NodesOf[s], rest'[s][t])
  <2>1. AllHonest(local[s], NodesOf[s], rest[s][t])
    BY Zenon DEF ChannelInv
  <2>2. CASE s = j /\ t = i
    <3>1. AllHonest(local[s], NodesOf[s], Tail(rest[s][t]))
      BY <1>1, <1>2, <2>1, <2>2, HonestChange, Zenon
    <3>2. rest'[s][t] = Tail(rest[s][t])
      BY <1>2, <2>2, Zenon
    <3> QED BY <1>s, <3>1, <3>2, Zenon
  <2>3. CASE ~(s = j /\ t = i)
    <3>1. rest'[s][t] = rest[s][t]
      BY <1>2, <2>3, Zenon
    <3> QED BY <1>s, <2>1, <3>1, Zenon
  <2> QED BY <2>2, <2>3, Zenon
<1>9. ASSUME NEW s \in Ifs, NEW t \in Ifs, s # t, NEW n \in NodesOf[s]
      PROVE  Heard(rest'[s][t], n, remote'[t][n], local'[s])
  <2>1. n \in NodeIDs
    BY Zenon DEF NodeIDs
  <2>2. /\ Heard(rest[s][t], n, remote[t][n], local[s])
        /\ remote[t][n] \in 0..(AliasCount - 1) /\ rest[s][t] \in Seq(Frames)
    <3>1. Heard(rest[s][t], n, remote[t][n], local[s])
      BY <1>9, Zenon DEF ChannelInv
    <3>2. remote[t] \in [NodeIDs -> 0..(AliasCount - 1)] /\ rest[s][t] \in Seq(Frames)
      BY <1>2, Zenon
    <3> QED BY <2>1, <3>1, <3>2, Zenon
  <2>3. CASE s = j /\ t = i
    <3>1. Heard(Tail(q), n, new[n], local[s])
      BY <1>1, <1>6, <2>1, <2>2, <2>3, HeardTail, Zenon DEF h
    <3> QED BY <1>1, <1>2, <2>3, <3>1
  <2>4. CASE s # j /\ t = i
    <3>1. ~Tells(h, n)
      BY <1>5, <2>4, Zenon DEF Tells, Honest
    <3>2. new[n] = 0 \/ new[n] = remote[t][n]
      BY <1>6, <2>1, <2>4, <3>1, Zenon
    <3>3. Heard(rest[s][t], n, new[n], local[s])
      BY <2>2, <3>2, HeardKept, Zenon
    <3> QED BY <1>1, <1>2, <2>4, <3>3
  <2>5. CASE t # i
    <3>1. rest'[s][t] = rest[s][t] /\ remote'[t] = remote[t]
      BY <1>2, <2>5, Zenon
    <3> QED BY <1>s, <2>2, <3>1, Zenon
  <2> QED BY <2>3, <2>4, <2>5, Zenon
<1>10. \A s \in Ifs : inbox'[s][s] = <<>> /\ rest'[s][s] = <<>>
  BY <1>2, <1>3, <1>s, Zenon DEF ChannelInv
<1>11. \A s, t \in Ifs : AllHonest(local'[s], NodesOf[s], inbox'[s][t])
  BY <1>s, Zenon DEF ChannelInv
<1> QED BY <1>8, <1>9, <1>10, <1>11, Zenon DEF ChannelInv

\* A reservation begins with an alias that is not in the cache.
LEMMA BeginFree ==
  ASSUME TypeOK, NEW i \in Ifs, Begin(i)
  PROVE  flow'[i].alias \in Aliases /\ ~Holds(i, flow'[i].alias)
<1> DEFINE k == Lowest(Usable(i))
<1>1. k \in Usable(i)
  <2>1. Usable(i) \in SUBSET Nat /\ Usable(i) # {}
    BY DEF Begin, Usable
  <2> QED BY <2>1, LowestIn, Zenon
<1>2. k \in Nat
  BY <1>1 DEF Usable
<1>3. SeedAfter(i, k) # 0 /\ local[i][SeedAfter(i, k)] = "nobody"
  BY <1>1, Zenon DEF Usable
<1>4. flow'[i].alias = SeedAfter(i, k)
  BY Zenon DEF Begin, TypeOK
<1> HIDE DEF k
<1>5. SeedAfter(i, k) \in 0..(AliasCount - 1)
  BY <1>2, SeedAfterType, Zenon
<1>6. SeedAfter(i, k) \in Aliases
  BY <1>3, <1>5 DEF Aliases
<1> QED BY <1>3, <1>4, <1>6, Zenon DEF Holds

\* add_allocated_alias changes one entry of the cache and wakes at most a
\* client that waits.
LEMMA AddEffect ==
  ASSUME TypeOK, WaitersWait, NEW i \in Ifs, NEW alias \in Aliases,
         add_allocated_alias(i, alias)
  PROVE  /\ \A s \in Ifs, a \in Aliases :
              local'[s][a] = IF s = i /\ a = alias THEN "reserved" ELSE local[s][a]
         /\ \A s \in Ifs, c \in Clients :
              \/ client'[s][c] = client[s][c]
              \/ /\ client[s][c].pc = "wait" /\ client'[s][c].pc = "woken"
                 /\ client'[s][c].node = client[s][c].node
<1>1. \A s \in Ifs, a \in Aliases :
        local'[s][a] = IF s = i /\ a = alias THEN "reserved" ELSE local[s][a]
  <2>1. local' = [local EXCEPT ![i] = add(local[i], "reserved", alias)]
    BY Zenon DEF add_allocated_alias
  <2>2. \A a \in Aliases : add(local[i], "reserved", alias)[a] =
                             IF a = alias THEN "reserved" ELSE local[i][a]
    BY Zenon DEF add
  <2>3. /\ local'[i] = add(local[i], "reserved", alias)
        /\ \A s \in Ifs \ {i} : local'[s] = local[s]
    BY <2>1, Zenon DEF TypeOK
  <2> QED BY <2>2, <2>3, Zenon
<1>2. CASE waiting[i] = <<>>
  BY <1>1, <1>2, Zenon DEF add_allocated_alias
<1>3. CASE waiting[i] # <<>>
  <2> DEFINE q == waiting[i]
             h == Head(q)
  <2>1. q \in Seq(Clients) /\ q # <<>> /\ client \in [Ifs -> [Clients -> ClientRecords]]
    BY <1>3, Zenon DEF TypeOK
  <2>2. 1 \in 1..Len(q) /\ h = q[1] /\ h \in Clients
    BY <2>1
  <2>3. client[i][h].pc = "wait"
    BY <2>2 DEF WaitersWait, QueuedWait
  <2>4. client' = [client EXCEPT ![i][h].pc = "woken"]
    BY <1>3, Zenon DEF add_allocated_alias
  <2> HIDE DEF q, h
  <2>5. /\ \A s \in Ifs, c \in Clients : s # i \/ c # h => client'[s][c] = client[s][c]
        /\ client'[i][h] = [client[i][h] EXCEPT !.pc = "woken"]
    BY <2>1, <2>2, <2>4, Zenon
  <2>6. client'[i][h].pc = "woken" /\ client'[i][h].node = client[i][h].node
    <3>1. client[i][h] \in ClientRecords
      BY <2>1, <2>2, Zenon
    <3> QED BY <2>5, <3>1, Zenon DEF ClientRecords
  <2> QED BY <1>1, <2>3, <2>5, <2>6, ZenonT(60)
<1> QED BY <1>2, <1>3, Zenon

\* get_allocated_alias for a node without alias changes one entry of the cache.
LEMMA GetEffect ==
  ASSUME TypeOK, NEW i \in Ifs, NEW c \in Clients, NEW n \in NodeIDs,
         \A a \in Aliases : local[i][a] # n, get_allocated_alias(i, c, n)
  PROVE  \/ /\ local' = local
            /\ client' = [client EXCEPT ![i][c] = [pc |-> "wait", node |-> n, alias |-> 0]]
         \/ \E low \in Aliases :
              /\ local[i][low] = "reserved"
              /\ \A s \in Ifs, a \in Aliases :
                   local'[s][a] = IF s = i /\ a = low THEN n ELSE local[s][a]
              /\ client' = [client EXCEPT ![i][c] = [pc |-> "amd", node |-> n, alias |-> low]]
<1>1. CASE Unused(local[i]) = {}
  BY <1>1, Zenon DEF get_allocated_alias
<1>2. CASE Unused(local[i]) # {}
  <2> DEFINE low == Lowest(Unused(local[i]))
  <2>1. /\ local' = [local EXCEPT ![i] = add(local[i], n, low)]
        /\ client' = [client EXCEPT ![i][c] = [pc |-> "amd", node |-> n, alias |-> low]]
    BY <1>2, Zenon DEF get_allocated_alias
  <2>2. low \in Aliases /\ local[i][low] = "reserved"
    <3>1. Unused(local[i]) \in SUBSET Nat
      BY DEF Unused, Aliases
    <3> QED BY <1>2, <3>1, LowestIn, Zenon DEF Unused
  <2> HIDE DEF low
  <2>3. \A a \in Aliases : add(local[i], n, low)[a] = IF a = low THEN n ELSE local[i][a]
    BY Zenon DEF add
  <2>4. /\ local'[i] = add(local[i], n, low)
        /\ \A s \in Ifs \ {i} : local'[s] = local[s]
    BY <2>1, Zenon DEF TypeOK
  <2>5. \A s \in Ifs, a \in Aliases :
          local'[s][a] = IF s = i /\ a = low THEN n ELSE local[s][a]
    BY <2>3, <2>4, Zenon
  <2> QED BY <2>1, <2>2, <2>5, Zenon
<1> QED BY <1>1, <1>2, Zenon

\* An alias that no write flow uses becomes reserved.
LEMMA OwnerReserve ==
  ASSUME TInv, OwnerInv, NEW i \in Ifs, NEW alias \in Aliases,
         add_allocated_alias(i, alias), handler' = handler,
         \A c \in Clients : client[i][c].pc # "idle" => client[i][c].node # local[i][alias],
         \A s \in Ifs : flow'[s].pc # "waiting" =>
                          flow'[s] = flow[s] /\ (s = i => flow[s].alias # alias)
  PROVE  OwnerInv'
<1>t. TypeOK /\ Busy /\ WaitersWait
  BY Zenon DEF TInv
<1>1. /\ \A s \in Ifs, a \in Aliases :
           local'[s][a] = IF s = i /\ a = alias THEN "reserved" ELSE local[s][a]
      /\ \A s \in Ifs, c \in Clients :
           \/ client'[s][c] = client[s][c]
           \/ /\ client[s][c].pc = "wait" /\ client'[s][c].pc = "woken"
              /\ client'[s][c].node = client[s][c].node
  BY <1>t, AddEffect, Zenon
<1>2. "reserved" # "nobody" /\ "reserved" \notin NodeIDs
  BY NodesAssumption, Zenon
<1>3. \A s \in Ifs, a \in Aliases :
        /\ local[s][a] # "nobody" => local'[s][a] # "nobody"
        /\ local'[s][a] # "nobody" => local[s][a] # "nobody" \/ (s = i /\ a = alias)
  BY <1>1, <1>2, SMTT(20)
<1>4. ASSUME NEW s \in Ifs
      PROVE  /\ handler'[s].pc # "release"
             /\ handler'[s].pc = "rid" => local'[s][handler'[s].alias] # "nobody"
  <2>1. handler[s].pc = "rid" => handler[s].alias \in Aliases
    BY <1>t, Zenon DEF Busy, HandlerBusy
  <2>2. /\ handler[s].pc # "release"
        /\ handler[s].pc = "rid" => local[s][handler[s].alias] # "nobody"
    BY Zenon DEF OwnerInv, Holds
  <2>3. handler[s].pc = "rid" => local'[s][handler[s].alias] # "nobody"
    BY <1>3, <2>1, <2>2, Zenon
  <2> QED BY <2>2, <2>3, Zenon
<1>5. ASSUME NEW s \in Ifs, flow'[s].pc # "waiting" PROVE local'[s][flow'[s].alias] = "nobody"
  <2>1. flow'[s] = flow[s] /\ (s = i => flow[s].alias # alias)
    BY <1>5, Zenon
  <2>2. flow[s].alias \in Aliases
    BY <1>5, <1>t, <2>1, Zenon DEF Busy, FlowBusy
  <2>3. local[s][flow[s].alias] = "nobody"
    BY <1>5, <2>1, Zenon DEF OwnerInv, Holds
  <2>4. local'[s][flow[s].alias] = "nobody"
    BY <1>3, <2>1, <2>2, <2>3, Zenon
  <2> QED BY <2>1, <2>4, Zenon
<1>6. ASSUME NEW s \in Ifs PROVE OneEach(local'[s], NodesOf[s])
  <2>1. OneEach(local[s], NodesOf[s])
    BY Zenon DEF OwnerInv
  <2>2. \A a \in Aliases : local'[s][a] \in NodeIDs => local'[s][a] = local[s][a]
    BY <1>1, <1>2
  <2> QED BY <2>1, <2>2, Zenon DEF OneEach
<1>7. ASSUME NEW s \in Ifs, NEW c \in Clients PROVE Uses(client'[s][c], local'[s], NodesOf[s])
  <2> DEFINE r == client[s][c]
             u == client'[s][c]
  <2>1. Uses(r, local[s], NodesOf[s])
    BY Zenon DEF OwnerInv
  <2>2. \/ u = r
        \/ r.pc = "wait" /\ u.pc = "woken" /\ u.node = r.node
    BY <1>1, Zenon
  <2>3. r.pc # "idle" => r.node \in NodeIDs
    BY <2>1, Zenon DEF Uses, NodeIDs
  <2>4. r.pc \in {"amd", "frame"} => r.alias \in Aliases
    BY <1>t, Zenon DEF Busy, ClientBusy
  <2>5. s = i /\ r.pc # "idle" => r.node # local[i][alias]
    BY Zenon
  <2> HIDE DEF r, u
  <2>6. r.pc \in {"amd", "frame"} => local'[s][r.alias] = r.node
    BY <1>1, <2>1, <2>4, <2>5 DEF Uses
  <2>7. r.pc \in {"wait", "woken"} => \A a \in Aliases : local'[s][a] # r.node
    BY <1>1, <1>2, <2>1, <2>3 DEF Uses
  <2>8. Uses(u, local'[s], NodesOf[s])
    BY <2>1, <2>2, <2>6, <2>7, Zenon DEF Uses
  <2> QED BY <2>8, Zenon DEF u
<1> QED BY <1>4, <1>5, <1>6, <1>7, Zenon DEF OwnerInv, Holds

\* When caches can follow: answers are timely, the interfaces share no node and
\* do not restart, and each has one write flow.
Undisturbed ==
  /\ Timely /\ MaxRestarts = 0
  /\ \A c, d \in Clients : c = d
  /\ \A s, t \in Ifs : s # t => NodesOf[s] \cap NodesOf[t] = {}

\* Every step keeps RemoteInv.
LEMMA RemoteNext ==
  ASSUME TInv, RaceInv, RemoteInv, Undisturbed, Next
  PROVE  RemoteInv'
<1>t. TypeOK /\ Busy /\ WaitersWait /\ restarts = 0 /\ ChannelInv /\ OwnerInv
  BY Zenon DEF TInv, RemoteInv
<1>0. "reserved" # "nobody" /\ "reserved" \notin NodeIDs /\ "nobody" \notin NodeIDs
  BY NodesAssumption, Zenon
<1>1. ASSUME UNCHANGED <<local, handler, client>>,
             \A s \in Ifs : flow'[s].pc # "waiting" => ~Holds(s, flow'[s].alias)
      PROVE  OwnerInv'
  BY <1>1, <1>t, Zenon DEF OwnerInv, Holds
<1>2. ASSUME UNCHANGED <<local, inbox, rest, remote>> PROVE ChannelInv'
  <2>1. Kept
    BY <1>2, Zenon DEF Kept, Holds
  <2> QED BY <1>2, <1>t, <2>1, ChannelStill, Zenon
<1>3. ASSUME local' = local, NEW i \in Ifs, NEW frame PROVE Keeps(i, frame)
  BY <1>3, Zenon DEF Keeps, Holds
<1>4. ASSUME NEW i \in Ifs, Begin(i),
             UNCHANGED <<local, remote, client, handler, inbox, rest, restarts>>
      PROVE  RemoteInv'
  <2>1. ~Holds(i, flow'[i].alias)
    BY <1>4, <1>t, BeginFree, Zenon
  <2>2. \A j \in Ifs \ {i} : flow'[j] = flow[j]
    BY <1>4, BeginType, Zenon
  <2>3. OwnerInv'
    BY <1>1, <1>4, <1>t, <2>1, <2>2, Zenon DEF OwnerInv
  <2> QED BY <1>2, <1>4, <1>t, <2>3, Zenon DEF RemoteInv
<1>5. ASSUME NEW i \in Ifs, AllocatorStep(i) PROVE RemoteInv'
  <2> DEFINE f == flow[i]
             g == flow'[i]
  <2>1. CASE \/ entry(i)
             \/ f.conflict /\ (send_cid_frame(i) \/ wait_done(i) \/ send_rid_frame(i))
    BY <1>4, <2>1, Zenon DEF entry, send_cid_frame, wait_done, send_rid_frame,
                            handle_alias_conflict
  <2>2. ASSUME NEW p, NEW k, flow' = [flow EXCEPT ![i].pc = p, ![i].seq = k],
               f.pc # "waiting", UNCHANGED <<local, handler, client>>
        PROVE  OwnerInv'
    <3>1. g.alias = f.alias /\ \A j \in Ifs \ {i} : flow'[j] = flow[j]
      BY <1>t, <2>2 DEF TypeOK, Flows
    <3> QED BY <1>1, <1>t, <2>2, <3>1, Zenon DEF OwnerInv
  <2>3. CASE handle_allocate_for_cid_frame(i) \/ (~f.conflict /\ wait_done(i))
    <3>1. /\ UNCHANGED <<local, remote, client, handler, inbox, rest, restarts>>
          /\ f.pc # "waiting" /\ \E p : flow' = [flow EXCEPT ![i].pc = p]
      BY <2>3, Zenon DEF handle_allocate_for_cid_frame, wait_done
    <3>2. g.alias = f.alias /\ \A j \in Ifs \ {i} : flow'[j] = flow[j]
      BY <1>t, <3>1 DEF TypeOK, Flows
    <3>3. OwnerInv'
      BY <1>1, <1>t, <3>1, <3>2, Zenon DEF OwnerInv
    <3> QED BY <1>2, <1>t, <3>1, <3>3, Zenon DEF RemoteInv
  <2>4. CASE ~f.conflict /\ send_cid_frame(i)
    <3> DEFINE frame == Frame("CID", f.alias, NoNode)
    <3>1. /\ f.pc = "alloc_cid" /\ Broadcast(i, frame)
          /\ UNCHANGED <<local, remote, client, handler, restarts>>
          /\ flow' = [flow EXCEPT ![i].pc = "cid_sent", ![i].seq = @ - 1]
      BY <2>4, Zenon DEF send_cid_frame
    <3>2. f.alias \in Aliases
      BY <1>t, <3>1, Zenon DEF Busy, FlowBusy
    <3>3. frame \in Frames /\ frame.type = "CID"
      BY <3>2, FrameType, Zenon DEF FrameTypes, Frame
    <3> HIDE DEF frame
    <3>4. ChannelInv'
      BY <1>3, <1>t, <3>1, <3>3, ChannelSend, Zenon
    <3>5. OwnerInv'
      BY <2>2, <3>1, Zenon
    <3> QED BY <1>t, <3>1, <3>4, <3>5, Zenon DEF RemoteInv
  <2>5. CASE ~f.conflict /\ send_rid_frame(i)
    <3> DEFINE frame == Frame("RID", f.alias, NoNode)
    <3>1. /\ f.pc = "alloc_rid" /\ Broadcast(i, frame)
          /\ UNCHANGED <<remote, handler, restarts>>
          /\ add_allocated_alias(i, f.alias)
          /\ flow' = [flow EXCEPT ![i] = WaitingFlow]
      BY <2>5, Zenon DEF send_rid_frame
    <3>2. f.alias \in Aliases
      BY <1>t, <3>1, Zenon DEF Busy, FlowBusy
    <3>3. frame \in Frames /\ frame.type = "RID" /\ frame.src = f.alias
      BY <3>2, FrameType, Zenon DEF FrameTypes, Frame
    <3> HIDE DEF frame
    <3>4. local[i][f.alias] = "nobody"
      BY <1>t, <3>1, Zenon DEF OwnerInv, Holds
    <3>5. \A s \in Ifs, a \in Aliases :
            local'[s][a] = IF s = i /\ a = f.alias THEN "reserved" ELSE local[s][a]
      BY <1>t, <3>1, <3>2, AddEffect
    <3>6. Keeps(i, frame) /\ local'[i][f.alias] # "nobody"
      <4>1. \A s \in Ifs, a \in Aliases : Holds(s, a) => Holds(s, a)'
        BY <1>0, <3>5, Zenon DEF Holds
      <4>2. \A s \in Ifs : \A n \in NodesOf[s] : n # "nobody"
        BY <1>0, Zenon DEF NodeIDs
      <4>3. \A s \in Ifs : \A n \in NodesOf[s], a \in Aliases :
              local[s][a] = n => local'[s][a] = n
        BY <3>4, <3>5, <4>2, Zenon
      <4>4. Keeps(i, frame)
        BY <4>1, <4>3, Zenon DEF Keeps
      <4>5. local'[i][f.alias] # "nobody"
        BY <1>0, <3>2, <3>5, Zenon
      <4> QED BY <4>4, <4>5, Zenon
    <3>7. ChannelInv'
      <4>1. /\ frame.type # "CID" => local'[i][frame.src] # "nobody"
            /\ frame.type \notin {"AMD", "AMR"} /\ remote' = remote
        BY <3>1, <3>3, <3>6, Zenon
      <4> QED BY <1>t, <3>1, <3>3, <3>6, <4>1, ChannelSend, Zenon
    <3>8. flow'[i].pc = "waiting" /\ \A s \in Ifs \ {i} : flow'[s] = flow[s]
      BY <1>t, <3>1, Zenon DEF TypeOK, WaitingFlow
    <3>9. \A c \in Clients : client[i][c].pc # "idle" => client[i][c].node # local[i][f.alias]
      BY <1>0, <1>t, <3>4, Zenon DEF Busy, ClientBusy
    <3>10. OwnerInv'
      BY <1>t, <3>1, <3>2, <3>8, <3>9, OwnerReserve, SMTT(20)
    <3> QED BY <1>t, <3>1, <3>7, <3>10, Zenon DEF RemoteInv
  <2> QED BY <1>5, <2>1, <2>3, <2>4, <2>5, Zenon DEF AllocatorStep
<1>6. ASSUME NEW i \in Ifs, NEW j \in Ifs, ConflictEntry(i, j) PROVE RemoteInv'
  <2> DEFINE q == inbox[j][i]
             h == Head(q)
  <2>1. /\ handler[i].pc = "waiting" /\ q # <<>>
        /\ UNCHANGED <<local, flow, client, rest, remote, restarts>>
        /\ inbox' = [inbox EXCEPT ![j][i] = Tail(@)]
        /\ handler' = [handler EXCEPT ![i] =
             IF local[i][h.src] = "nobody" THEN handler[i]
             ELSE [pc |-> IF h.type = "CID" THEN "rid" ELSE "release", alias |-> h.src]]
    BY <1>6, Zenon DEF ConflictEntry
  <2>2. i # j
    BY <1>t, <2>1, Zenon DEF ChannelInv
  <2>3. 1 \in 1..Len(q) /\ h = q[1] /\ q \in Seq(Frames)
    <3>1. q \in Seq(Frames)
      BY <1>t DEF TypeOK
    <3> QED BY <2>1, <3>1, SMTT(20)
  <2>4. h.src \in Aliases /\ Honest(local[j], NodesOf[j], h)
    BY <1>t, <2>1, <2>3, SourceAlias, HonestChange, Zenon DEF ChannelInv
  <2>5. h.type = "CID" \/ local[i][h.src] = "nobody"
    BY <2>2, <2>4, Zenon DEF Honest, RaceInv, Race, Holds
  <2>6. /\ \A s \in Ifs \ {i} : handler'[s] = handler[s]
        /\ \/ handler'[i] = handler[i]
           \/ handler'[i].pc = "rid" /\ handler'[i].alias = h.src /\ local[i][h.src] # "nobody"
    BY <1>t, <2>1, <2>5, Zenon DEF TypeOK
  <2>7. \A s \in Ifs : /\ handler'[s].pc # "release"
                       /\ handler'[s].pc = "rid" => Holds(s, handler'[s].alias)
    BY <1>t, <2>6, ZenonT(60) DEF OwnerInv, Holds
  <2>8. OwnerInv'
    BY <1>t, <2>1, <2>7, Zenon DEF OwnerInv, Holds
  <2>9. ChannelInv'
    BY <1>t, <2>1, ChannelEntry, Zenon
  <2> QED BY <1>t, <2>1, <2>8, <2>9, Zenon DEF RemoteInv
<1>7. ASSUME NEW i \in Ifs, send_reserved_alias(i) PROVE RemoteInv'
  <2> DEFINE alias == handler[i].alias
             frame == Frame("RID", alias, NoNode)
  <2>1. /\ handler[i].pc = "rid" /\ UNCHANGED <<local, flow, client, remote, restarts>>
        /\ Broadcast(i, frame) /\ handler' = [handler EXCEPT ![i] = NoHandling]
    BY <1>7, Zenon DEF send_reserved_alias
  <2>2. alias \in Aliases /\ Holds(i, alias)
    BY <1>t, <2>1, Zenon DEF Busy, HandlerBusy, OwnerInv
  <2>3. frame \in Frames /\ frame.type = "RID" /\ frame.src = alias
    BY <2>2, FrameType, Zenon DEF FrameTypes, Frame
  <2> HIDE DEF frame
  <2>4. local'[i][frame.src] # "nobody" /\ remote' = remote /\ local' = local
    BY <2>1, <2>2, <2>3, Zenon DEF Holds
  <2>5. ChannelInv'
    <3>1. frame.type \notin {"AMD", "AMR"} /\ Keeps(i, frame)
      BY <1>3, <2>3, <2>4, Zenon
    <3> QED BY <1>t, <2>1, <2>3, <2>4, <3>1, ChannelSend, Zenon
  <2>6. handler'[i].pc = "waiting" /\ \A s \in Ifs \ {i} : handler'[s] = handler[s]
    BY <1>t, <2>1, Zenon DEF TypeOK, NoHandling
  <2>7. OwnerInv'
    BY <1>t, <2>1, <2>6, Zenon DEF OwnerInv, Holds
  <2> QED BY <1>t, <2>1, <2>5, <2>7, Zenon DEF RemoteInv
<1>8. ASSUME NEW i \in Ifs, send_release_alias(i) PROVE FALSE
  BY <1>8, <1>t, Zenon DEF send_release_alias, OwnerInv
<1>9. ASSUME NEW i \in Ifs, NEW j \in Ifs, Dispatch(i, j) PROVE RemoteInv'
  <2> DEFINE f == flow[i]
             g == ConflictSeen(f, Head(rest[j][i]))
  <2>1. /\ UNCHANGED <<local, handler, client, restarts>>
        /\ flow' = [flow EXCEPT ![i] = g]
    BY <1>9, Zenon DEF Dispatch
  <2>2. f \in Flows /\ flow \in [Ifs -> Flows]
    BY <1>t, Zenon DEF TypeOK
  <2>3. g.pc = f.pc /\ g.alias = f.alias
    <3> DEFINE t == (f.pc = "sleep")
               e == [f EXCEPT !.conflict = TRUE, !.triggered = t]
    <3>1. g = f \/ g = e
      BY Zenon DEF ConflictSeen
    <3>2. t \in BOOLEAN
      BY Zenon
    <3> HIDE DEF t
    <3>3. e.pc = f.pc /\ e.alias = f.alias
      BY <2>2, <3>2, Zenon DEF Flows
    <3> HIDE DEF e, f, g
    <3> QED BY <3>1, <3>3, Zenon
  <2> HIDE DEF g
  <2>4. \A s \in Ifs : flow'[s].pc = flow[s].pc /\ flow'[s].alias = flow[s].alias
    BY <2>1, <2>2, <2>3, Zenon
  <2>5. OwnerInv'
    BY <1>1, <1>t, <2>1, <2>4, Zenon DEF OwnerInv
  <2>6. ChannelInv'
    BY <1>9, <1>t, ChannelDispatch, Zenon DEF Undisturbed
  <2> QED BY <1>t, <2>1, <2>5, <2>6, Zenon DEF RemoteInv
<1>10. ASSUME NEW i \in Ifs, NEW c \in Clients, NEW r \in ClientRecords,
              client' = [client EXCEPT ![i][c] = r], UNCHANGED <<flow, handler>>,
              \A s \in Ifs, a \in Aliases : Holds(s, a)' <=> Holds(s, a),
              \A s \in Ifs : OneEach(local'[s], NodesOf[s]),
              \A s \in Ifs \ {i} : \A a \in Aliases : local'[s][a] = local[s][a],
              Uses(r, local'[i], NodesOf[i])
       PROVE  OwnerInv'
  <2>1. client'[i][c] = r /\ \A s \in Ifs \ {i}, d \in Clients : client'[s][d] = client[s][d]
    BY <1>10, <1>t, Zenon DEF TypeOK
  <2>2. ASSUME NEW s \in Ifs, NEW d \in Clients PROVE Uses(client'[s][d], local'[s], NodesOf[s])
    <3>1. CASE s = i
      <4>1. d = c
        BY Zenon DEF Undisturbed
      <4> QED BY <1>10, <2>1, <3>1, <4>1, Zenon
    <3>2. CASE s # i
      <4>1. Uses(client[s][d], local[s], NodesOf[s])
        BY <1>t, Zenon DEF OwnerInv
      <4>2. client[s][d].pc \in {"amd", "frame"} => client[s][d].alias \in Aliases
        BY <1>t, Zenon DEF Busy, ClientBusy
      <4> QED BY <1>10, <2>1, <3>2, <4>1, <4>2 DEF Uses
    <3> QED BY <3>1, <3>2, Zenon
  <2>3. \A s \in Ifs : handler[s].pc = "rid" => handler[s].alias \in Aliases
    BY <1>t, Zenon DEF Busy, HandlerBusy
  <2>4. \A s \in Ifs : flow[s].pc # "waiting" => flow[s].alias \in Aliases
    BY <1>t, Zenon DEF Busy, FlowBusy
  <2> QED BY <1>10, <1>t, <2>2, <2>3, <2>4, Zenon DEF OwnerInv
<1>11. ASSUME NEW i \in Ifs, NEW c \in Clients, NEW n \in NodesOf[i],
              \A a \in Aliases : local[i][a] # n, get_allocated_alias(i, c, n),
              UNCHANGED <<flow, handler, inbox, rest, remote, restarts>>
       PROVE  RemoteInv'
  <2>1. n \in NodeIDs
    BY Zenon DEF NodeIDs
  <2>2. CASE /\ local' = local
             /\ client' = [client EXCEPT ![i][c] = [pc |-> "wait", node |-> n, alias |-> 0]]
    <3> DEFINE r == [pc |-> "wait", node |-> n, alias |-> 0]
    <3>1. r \in ClientRecords
      BY <2>1 DEF ClientRecords, ClientStates
    <3>2. Uses(r, local'[i], NodesOf[i])
      BY <1>11, <2>2, Zenon DEF Uses
    <3> HIDE DEF r
    <3>3. OwnerInv'
      BY <1>10, <1>11, <1>t, <2>2, <3>1, <3>2, Zenon DEF r, OwnerInv, Holds
    <3> QED BY <1>2, <1>11, <1>t, <2>2, <3>3, Zenon DEF RemoteInv
  <2>3. ASSUME NEW low \in Aliases, local[i][low] = "reserved",
               \A s \in Ifs, a \in Aliases :
                 local'[s][a] = IF s = i /\ a = low THEN n ELSE local[s][a],
               client' = [client EXCEPT ![i][c] = [pc |-> "amd", node |-> n, alias |-> low]]
        PROVE  RemoteInv'
    <3> DEFINE r == [pc |-> "amd", node |-> n, alias |-> low]
    <3>1. r \in ClientRecords
      BY <2>1 DEF ClientRecords, ClientStates, Aliases
    <3>2. Uses(r, local'[i], NodesOf[i])
      BY <2>3, Zenon DEF Uses
    <3> HIDE DEF r
    <3>3. \A s \in Ifs, a \in Aliases : Holds(s, a)' <=> Holds(s, a)
      BY <1>0, <2>1, <2>3, Zenon DEF Holds
    <3>4. ASSUME NEW s \in Ifs PROVE OneEach(local'[s], NodesOf[s])
      <4>1. OneEach(local[s], NodesOf[s])
        BY <1>t, Zenon DEF OwnerInv
      <4>2. CASE s = i
        BY <1>0, <1>11, <2>1, <2>3, <4>1, <4>2, ZenonT(60) DEF OneEach
      <4>3. CASE s # i
        BY <2>3, <4>1, <4>3, Zenon DEF OneEach
      <4> QED BY <4>2, <4>3, Zenon
    <3>5. \A s \in Ifs \ {i} : \A a \in Aliases : local'[s][a] = local[s][a]
      BY <2>3, Zenon
    <3>6. OwnerInv'
      BY <1>10, <1>11, <2>3, <3>1, <3>2, <3>3, <3>4, <3>5, Zenon DEF r
    <3>7. \A s \in Ifs : \A m \in NodesOf[s], a \in Aliases :
            local[s][a] = m => local'[s][a] = m
      <4>1. \A s \in Ifs : \A m \in NodesOf[s] : m \in NodeIDs
        BY Zenon DEF NodeIDs
      <4> QED BY <1>0, <2>3, <4>1, Zenon
    <3>8. ChannelInv'
      <4>1. Kept
        BY <3>3, <3>7, Zenon DEF Kept
      <4> QED BY <1>11, <1>t, <4>1, ChannelStill, Zenon
    <3> QED BY <1>11, <1>t, <3>6, <3>8, Zenon DEF RemoteInv
  <2> QED BY <1>11, <1>t, <2>1, <2>2, <2>3, GetEffect
<1>12. ASSUME NEW i \in Ifs, NEW c \in Clients, NEW n \in NodesOf[i], find_local_alias(i, c, n)
       PROVE  RemoteInv'
  <2> DEFINE alias == lookup(local[i], n)
  <2>1. local[i] \in [Aliases -> Owners]
    BY <1>t, Zenon DEF TypeOK
  <2>2. CASE alias = 0
    <3>1. \A a \in Aliases : local[i][a] # n
      <4>1. 0 \notin Aliases
        BY DEF Aliases
      <4> QED BY <2>2, <4>1, Zenon DEF lookup
    <3> QED BY <1>11, <1>12, <2>2, <3>1, Zenon DEF find_local_alias
  <2>3. CASE alias # 0
    <3> DEFINE r == [pc |-> "frame", node |-> n, alias |-> alias]
    <3>1. /\ client' = [client EXCEPT ![i][c] = r]
          /\ UNCHANGED <<local, remote, flow, handler, inbox, rest, restarts>>
      BY <1>12, <2>3, Zenon DEF find_local_alias
    <3>2. alias \in Aliases /\ local[i][alias] = n /\ alias \in 0..(AliasCount - 1)
      BY <2>1, <2>3, LookupType, Zenon
    <3> HIDE DEF alias
    <3>3. n \in NodeIDs
      BY Zenon DEF NodeIDs
    <3>4. r \in ClientRecords
      BY <3>2, <3>3, Zenon DEF ClientRecords, ClientStates
    <3>5. Uses(r, local'[i], NodesOf[i])
      BY <3>1, <3>2, Zenon DEF Uses
    <3> HIDE DEF r
    <3>6. OwnerInv'
      BY <1>10, <1>t, <3>1, <3>4, <3>5, Zenon DEF OwnerInv, Holds
    <3> QED BY <1>2, <1>t, <3>1, <3>6, Zenon DEF RemoteInv
  <2> QED BY <2>2, <2>3, Zenon
<1>13. ASSUME NEW i \in Ifs, NEW c \in Clients, ClientStep(i, c) PROVE RemoteInv'
  <2> DEFINE r == client[i][c]
  <2>1. Uses(r, local[i], NodesOf[i]) /\ ClientBusy(r) /\ r \in ClientRecords
    BY <1>t, Zenon DEF OwnerInv, Busy, TypeOK
  <2>2. CASE allocate_new_alias(i, c)
    <3>1. r.node \in NodesOf[i] /\ \A a \in Aliases : local[i][a] # r.node
      BY <2>1, <2>2, Zenon DEF Uses, allocate_new_alias
    <3> QED BY <1>11, <2>2, <3>1, Zenon DEF allocate_new_alias
  <2>3. ASSUME NEW type \in {"AMD", "MSG"}, NEW next \in ClientRecords,
               r.pc \in {"amd", "frame"}, SendFrame(i, c, type, next),
               Uses(next, local[i], NodesOf[i])
        PROVE  RemoteInv'
    <3> DEFINE frame == Frame(type, r.alias, r.node)
    <3>1. /\ r.alias \in Aliases /\ r.node \in NodeIDs
          /\ r.node \in NodesOf[i] /\ local[i][r.alias] = r.node
      BY <2>1, <2>3, Zenon DEF ClientBusy, Uses
    <3>2. /\ frame \in Frames /\ frame.type = type /\ frame.src = r.alias
          /\ frame.node = r.node
      BY <3>1, FrameType, Zenon DEF FrameTypes, Frame
    <3>3. /\ Broadcast(i, frame) /\ client' = [client EXCEPT ![i][c] = next]
          /\ UNCHANGED <<local, remote, flow, handler, restarts>>
      BY <2>3, Zenon DEF SendFrame
    <3> HIDE DEF frame, r
    <3>4. /\ local' = local /\ remote' = remote /\ frame.node \in NodesOf[i]
          /\ local'[i][frame.src] = frame.node /\ frame.node # "nobody"
      BY <1>0, <3>1, <3>2, <3>3, Zenon
    <3>5. ChannelInv'
      <4>1. Keeps(i, frame) /\ local'[i][frame.src] # "nobody"
        BY <1>3, <3>4, Zenon
      <4> QED BY <1>t, <3>2, <3>3, <3>4, <4>1, ChannelSend, Zenon
    <3>6. OwnerInv'
      BY <1>10, <1>t, <2>3, <3>3, Zenon DEF OwnerInv, Holds
    <3> QED BY <1>t, <3>3, <3>5, <3>6, Zenon DEF RemoteInv
  <2>4. CASE send_amd_frame(i, c)
    <3> DEFINE next == [r EXCEPT !.pc = "frame"]
    <3>1. SendFrame(i, c, "AMD", next) /\ r.pc = "amd"
      BY <2>4, Zenon DEF send_amd_frame
    <3>2. /\ next \in ClientRecords /\ next.pc = "frame"
          /\ next.node = r.node /\ next.alias = r.alias
      BY <2>1, ClientFields, Zenon DEF ClientStates
    <3> HIDE DEF next
    <3>3. Uses(next, local[i], NodesOf[i])
      BY <2>1, <3>1, <3>2, Zenon DEF Uses
    <3> QED BY <2>3, <3>1, <3>2, <3>3, Zenon
  <2>5. CASE fill_can_frame_buffer(i, c)
    <3>1. SendFrame(i, c, "MSG", IdleClient) /\ r.pc = "frame"
      BY <2>5, Zenon DEF fill_can_frame_buffer
    <3>2. IdleClient \in ClientRecords
      BY DEF IdleClient, ClientRecords, ClientStates
    <3>3. Uses(IdleClient, local[i], NodesOf[i])
      BY Zenon DEF Uses, IdleClient
    <3> QED BY <2>3, <3>1, <3>2, <3>3, Zenon
  <2> QED BY <1>13, <2>2, <2>4, <2>5, Zenon DEF ClientStep
<1>14. ASSUME NEW i \in Ifs, NEW n \in NodesOf[i], delete_local_node(i, n) PROVE RemoteInv'
  <2> DEFINE alias == lookup(local[i], n)
             frame == Frame("AMR", alias, n)
  <2>1. /\ alias # 0 /\ Broadcast(i, frame) /\ add_allocated_alias(i, alias)
        /\ \A c \in Clients : client[i][c].node # n
        /\ UNCHANGED <<remote, flow, handler, restarts>>
    BY <1>14, Zenon DEF delete_local_node
  <2>2. alias \in Aliases /\ local[i][alias] = n /\ n \in NodeIDs
    BY <1>t, <2>1, LookupType, Zenon DEF TypeOK, NodeIDs
  <2> HIDE DEF alias
  <2>3. frame \in Frames /\ frame.type = "AMR" /\ frame.src = alias /\ frame.node = n
    BY <2>2, FrameType, Zenon DEF FrameTypes, Frame
  <2> HIDE DEF frame
  <2>4. \A s \in Ifs, a \in Aliases :
          local'[s][a] = IF s = i /\ a = alias THEN "reserved" ELSE local[s][a]
    BY <1>t, <2>1, <2>2, AddEffect
  <2>5. Keeps(i, frame) /\ local'[i][frame.src] # "nobody"
    <3>1. \A s \in Ifs, a \in Aliases : Holds(s, a) => Holds(s, a)'
      BY <1>0, <2>4, Zenon DEF Holds
    <3>2. Tells(frame, n)
      BY <2>3, Zenon DEF Tells
    <3>3. \A s \in Ifs : \A m \in NodesOf[s], a \in Aliases :
            local[s][a] = m => local'[s][a] = m \/ (s = i /\ Tells(frame, m))
      BY <2>2, <2>4, <3>2, Zenon
    <3>4. local'[i][alias] # "nobody"
      BY <1>0, <2>2, <2>4, Zenon
    <3>5. Keeps(i, frame)
      BY <3>1, <3>3, Zenon DEF Keeps
    <3> QED BY <2>3, <3>4, <3>5, Zenon
  <2>6. ChannelInv'
    <3>1. remote' = remote /\ frame.type # "AMD" /\ frame.node \in NodesOf[i]
      BY <2>1, <2>3, Zenon
    <3> QED BY <1>t, <2>1, <2>3, <2>5, <3>1, ChannelSend, Zenon
  <2>7. ASSUME NEW s \in Ifs, flow'[s].pc # "waiting"
        PROVE  flow'[s] = flow[s] /\ (s = i => flow[s].alias # alias)
    <3>1. flow'[s] = flow[s] /\ ~Holds(s, flow[s].alias)
      BY <1>t, <2>1, <2>7, Zenon DEF OwnerInv
    <3>2. Holds(i, alias)
      BY <1>0, <2>2, Zenon DEF Holds
    <3> QED BY <3>1, <3>2, Zenon
  <2>8. OwnerInv'
    BY <1>t, <2>1, <2>2, <2>7, OwnerReserve
  <2> QED BY <1>t, <2>1, <2>6, <2>8, Zenon DEF RemoteInv
<1>15. ASSUME NEW i \in Ifs, start_iface(i) \/ clear_reserved_aliases(i) PROVE FALSE
  <2>1. restarts < MaxRestarts /\ MaxRestarts = 0
    BY <1>15, Zenon DEF start_iface, clear_reserved_aliases, Undisturbed
  <2> QED BY <1>t, <2>1
<1> QED
  BY <1>5, <1>6, <1>7, <1>8, <1>9, <1>12, <1>13, <1>14, <1>15, Zenon DEF Next, HandlerStep

\* On a timely bus, without restarts and with one write flow per interface, an
\* interface that has seen every frame remembers of a node of another one either
\* nothing or the alias that the node has, although nodes are deleted, aliases
\* pass from node to node and several interfaces compete for them.
THEOREM AllocatorRemoteFaithful ==
  ASSUME Undisturbed
  PROVE  Spec => []RemoteFaithful
<1>1. Init => RaceInv
  BY RaceInit, Zenon
<1>2. TInv /\ RaceInv /\ [Next]_vars => RaceInv'
  BY RaceNext, Zenon DEF Undisturbed
<1>3. Init => RemoteInv
  <2> SUFFICES ASSUME Init PROVE RemoteInv
    BY Zenon
  <2>1. ASSUME NEW i \in Ifs
        PROVE  /\ handler[i].pc = "waiting" /\ flow[i].pc = "waiting"
               /\ \A a \in Aliases : local[i][a] = "nobody"
               /\ \A c \in Clients : client[i][c].pc = "idle"
    BY Zenon DEF Init, NoHandling, WaitingFlow, IdleClient
  <2>2. "nobody" \notin NodeIDs
    BY NodesAssumption, Zenon
  <2>3. OwnerInv
    BY <2>1, <2>2 DEF OwnerInv, OneEach, Uses
  <2>4. \A i, j \in Ifs : inbox[i][j] = <<>> /\ rest[i][j] = <<>>
    BY Zenon DEF Init
  <2>5. \A j \in Ifs, n \in NodeIDs : remote[j][n] = 0
    BY Zenon DEF Init
  <2>6. \A i \in Ifs : \A n \in NodesOf[i] : n \in NodeIDs
    BY Zenon DEF NodeIDs
  <2>7. \A k \in 1..Len(<<>>) : FALSE
    OBVIOUS
  <2>8. ChannelInv
    BY <2>4, <2>5, <2>6, <2>7, Zenon DEF ChannelInv, AllHonest, Heard
  <2> QED BY <2>3, <2>8, Zenon DEF RemoteInv, Init
<1>4. TInv /\ RaceInv /\ RemoteInv /\ [Next]_vars => RemoteInv'
  <2>1. ASSUME RemoteInv, UNCHANGED vars PROVE RemoteInv'
    BY <2>1, Zenon DEF vars, RemoteInv, ChannelInv, OwnerInv, Holds
  <2> QED BY <2>1, RemoteNext, Zenon
<1>5. Spec => []TInv
  BY InitTyped, TInvNext, PTL DEF Spec
<1>6. TInv /\ RemoteInv => RemoteFaithful
  <2> SUFFICES ASSUME TInv, RemoteInv, Quiet,
                      NEW i \in Ifs, NEW j \in Ifs, i # j, NEW n \in NodesOf[i],
                      remote[j][n] # 0
               PROVE  local[i][remote[j][n]] = n
    BY Zenon DEF RemoteFaithful
  <2>1. rest[i][j] = <<>>
    BY Zenon DEF Quiet
  <2>2. Heard(<<>>, n, remote[j][n], local[i])
    BY <2>1 DEF RemoteInv, ChannelInv
  <2>3. \A k \in 1..Len(<<>>) : FALSE
    OBVIOUS
  <2> QED BY <2>2, <2>3, Zenon DEF Heard
<1> QED BY <1>1, <1>2, <1>3, <1>4, <1>5, <1>6, PTL DEF Spec
=============================================================================
