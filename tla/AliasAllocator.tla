--------------------------- MODULE AliasAllocator ---------------------------
(***************************************************************************)
(* Alias reservation and use on a CAN bus: several interfaces, each with   *)
(* an AliasAllocator flow, the AliasConflictHandler and                    *)
(* RemoteAliasCacheUpdater flows of IfCan, and the message write flows     *)
(* that need an alias for their source node.                               *)
(*                                                                         *)
(* Every flow of an interface runs on one executor; an action is what a    *)
(* flow does between two of its waits.  The alias caches are the bounded   *)
(* tables of module AliasCache, here without their bound: local[i] maps an *)
(* alias to the node that holds it, "reserved" when it is assigned to the  *)
(* reserved node ID of that alias, "nobody" when it is not in the cache.   *)
(***************************************************************************)
EXTENDS Integers, Sequences, FiniteSets

CONSTANTS Ifs,          \* the interfaces on the bus
          NodesOf,      \* the virtual nodes of each interface
          Clients,      \* the write flows of an interface
          AliasCount,   \* number of alias values (2^12 in the code)
          InitialSeed,  \* value of seed_ after reinit_seed, per interface
          Offset,       \* what next_seed adds to seed_, per interface
          CidFrames,    \* number of CID frames (sequence 7 down to 4)
          Reserve,      \* reserveUnusedAliases_
          Requests,     \* aliases requested by start_iface at startup
          Timely,       \* do answers to a CID arrive within the 200 ms wait
          MaxMessages,  \* bound: messages sent, per interface
          MaxDeletes,   \* bound: node deletions
          MaxRestarts   \* bound: restarts and clears

Aliases == 1..(AliasCount - 1)
NodeIDs == UNION {NodesOf[i] : i \in Ifs}
Owners == NodeIDs \cup {"reserved", "nobody"}

ASSUME AliasCountAssumption == AliasCount \in Nat \ {0, 1}
ASSUME NodesAssumption == {"reserved", "nobody"} \cap NodeIDs = {}
ASSUME SeedAssumption ==
  /\ InitialSeed \in [Ifs -> 0..(AliasCount - 1)]
  /\ Offset \in [Ifs -> Nat]
ASSUME CidAssumption == CidFrames \in Nat \ {0}
ASSUME BoundAssumption ==
  /\ Requests \in [Ifs -> Nat] /\ MaxMessages \in [Ifs -> Nat]
  /\ MaxDeletes \in Nat /\ MaxRestarts \in Nat

VARIABLES
  local,    \* IfCan::localAliases_
  remote,   \* IfCan::remoteAliases_, as node -> alias (0: not known)
  seed,     \* AliasAllocator::seed_
  queue,    \* number of AliasInfo buffers queued at the allocator
  flow,     \* state of the AliasAllocator flow
  waiting,  \* AliasAllocator::waitingClients_
  client,   \* state of the write flows
  handler,  \* state of the AliasConflictHandler
  inbox,    \* frames sent by i that the AliasConflictHandler of j has not seen
  rest,     \* frames sent by i that the other frame handlers of j have not seen
  sent,     \* messages sent so far
  deletes,  \* node deletions so far
  restarts  \* restarts and clears so far

vars == <<local, remote, seed, queue, flow, waiting, client, handler, inbox,
          rest, sent, deletes, restarts>>

FrameTypes == {"CID", "RID", "AMD", "AMR", "MSG"}
NoNode == "none"
Frame(t, a, n) == [type |-> t, src |-> a, node |-> n]
Frames == [type : FrameTypes, src : Aliases, node : NodeIDs \cup {NoNode}]

FlowStates == {"waiting", "alloc_cid", "cid_sent", "sleep", "alloc_rid"}
Flows == [pc : FlowStates, alias : 0..(AliasCount - 1), seq : 0..CidFrames,
          conflict : BOOLEAN, triggered : BOOLEAN]
ClientStates == {"idle", "wait", "woken", "amd", "frame"}
ClientRecords == [pc : ClientStates, alias : 0..(AliasCount - 1),
                  node : NodeIDs \cup {NoNode}]
Handlers == [pc : {"waiting", "rid", "release"}, alias : 0..(AliasCount - 1)]
IdleClient == [pc |-> "idle", node |-> NoNode, alias |-> 0]
WaitingFlow == [pc |-> "waiting", alias |-> 0, seq |-> 0,
                conflict |-> FALSE, triggered |-> FALSE]

-----------------------------------------------------------------------------
(* The alias caches. *)

lookup(table, n) ==
  IF \E a \in Aliases : table[a] = n
  THEN CHOOSE a \in Aliases : table[a] = n
  ELSE 0

add(table, n, alias) ==
  [a \in Aliases |-> IF a = alias THEN n
                     ELSE IF table[a] = n /\ n # "reserved" THEN "nobody"
                     ELSE table[a]]

remove(table, alias) == [table EXCEPT ![alias] = "nobody"]

\* The aliases assigned to reserved node IDs, found with next_entry.
Unused(table) == {a \in Aliases : table[a] = "reserved"}
Lowest(S) == CHOOSE a \in S : \A b \in S : a <= b

remote_add(table, n, alias) ==
  [m \in NodeIDs |-> IF m = n THEN alias
                     ELSE IF table[m] = alias THEN 0 ELSE table[m]]

remote_remove(table, n, alias) ==
  [m \in NodeIDs |-> IF m = n \/ table[m] = alias THEN 0 ELSE table[m]]

-----------------------------------------------------------------------------
(* The AliasAllocator flow. *)

SeedAfter(i, k) == (seed[i] + k * Offset[i]) % AliasCount

\* How many values of the sequence get_new_seed looks at before one that is
\* valid and in neither cache.  The code loops for ever when there is none.
Usable(i) ==
  {k \in 0..(AliasCount - 1) :
     LET a == SeedAfter(i, k)
     IN  /\ a # 0
         /\ local[i][a] = "nobody"
         /\ \A n \in NodeIDs : remote[i][n] # a}

\* get_new_seed, then the start of the reservation with a full CID sequence.
Begin(i) ==
  /\ Usable(i) # {}
  /\ LET k == Lowest(Usable(i))
     IN  /\ flow' = [flow EXCEPT ![i] =
                       [pc |-> "alloc_cid", alias |-> SeedAfter(i, k),
                        seq |-> CidFrames, conflict |-> FALSE,
                        triggered |-> FALSE]]
         /\ seed' = [seed EXCEPT ![i] = SeedAfter(i, k + 1)]

\* frame_write_flow()->send: the frame goes to every other interface.  Each
\* of them has a dispatcher that hands it to the AliasConflictHandler and to
\* the other handlers with waits in between.
Broadcast(i, frame) ==
  LET sendTo(chan) ==
        [chan EXCEPT ![i] = [j \in Ifs |-> IF j = i THEN @[j]
                                           ELSE Append(@[j], frame)]]
  IN  inbox' = sendTo(inbox) /\ rest' = sendTo(rest)

entry(i) ==
  /\ flow[i].pc = "waiting" /\ queue[i] > 0
  /\ queue' = [queue EXCEPT ![i] = @ - 1]
  /\ Begin(i)
  /\ UNCHANGED <<local, remote, waiting, client, handler, inbox, rest, sent,
                 deletes, restarts>>

handle_alias_conflict(i) == Begin(i)

send_cid_frame(i) ==
  /\ flow[i].pc = "alloc_cid"
  /\ \/ /\ flow[i].conflict
        /\ handle_alias_conflict(i)
        /\ UNCHANGED <<inbox, rest>>
     \/ /\ ~flow[i].conflict
        /\ Broadcast(i, Frame("CID", flow[i].alias, NoNode))
        /\ flow' = [flow EXCEPT ![i].pc = "cid_sent", ![i].seq = @ - 1]
        /\ UNCHANGED seed
  /\ UNCHANGED <<local, remote, queue, waiting, client, handler, sent, deletes, restarts>>

\* The CID frame is on the bus and the flow is notified.
handle_allocate_for_cid_frame(i) ==
  /\ flow[i].pc = "cid_sent"
  /\ flow' = [flow EXCEPT ![i].pc =
                IF flow[i].seq > 0 THEN "alloc_cid" ELSE "sleep"]
  /\ UNCHANGED <<local, remote, seed, queue, waiting, client, handler, inbox,
                 rest, sent, deletes, restarts>>

\* On a timely bus the 200 ms are over only when every CID frame of this
\* reservation was looked at by its receivers and their answers are here.
AnswersDue(i) ==
  \E j \in Ifs \ {i} :
    LET about(q) == \E k \in 1..Len(q) : q[k].src = flow[i].alias
    IN  \/ about(inbox[i][j]) \/ about(rest[i][j]) \/ about(rest[j][i])
        \/ handler[j].pc # "waiting" /\ handler[j].alias = flow[i].alias

wait_done(i) ==
  /\ flow[i].pc = "sleep"
  /\ flow[i].triggered \/ ~Timely \/ ~AnswersDue(i)
  /\ \/ flow[i].conflict /\ handle_alias_conflict(i)
     \/ /\ ~flow[i].conflict
        /\ flow' = [flow EXCEPT ![i].pc = "alloc_rid"]
        /\ UNCHANGED seed
  /\ UNCHANGED <<local, remote, queue, waiting, client, handler, inbox, rest,
                 sent, deletes, restarts>>

\* Mutant: the alias is kept and nobody is woken.
add_allocated_alias_unwoken(i, alias) ==
  /\ local' = [local EXCEPT ![i] = add(@, "reserved", alias)]
  /\ UNCHANGED <<waiting, client>>

\* Marks an alias as reserved and wakes the first waiting client.
add_allocated_alias(i, alias) ==
  /\ local' = [local EXCEPT ![i] = add(@, "reserved", alias)]
  /\ IF waiting[i] = <<>>
     THEN UNCHANGED <<waiting, client>>
     ELSE /\ waiting' = [waiting EXCEPT ![i] = Tail(@)]
          /\ client' = [client EXCEPT ![i][Head(waiting[i])].pc = "woken"]

send_rid_frame(i) ==
  /\ flow[i].pc = "alloc_rid"
  /\ \/ /\ flow[i].conflict
        /\ handle_alias_conflict(i)
        /\ UNCHANGED <<local, waiting, client, inbox, rest>>
     \/ /\ ~flow[i].conflict
        /\ Broadcast(i, Frame("RID", flow[i].alias, NoNode))
        /\ add_allocated_alias(i, flow[i].alias)
        /\ flow' = [flow EXCEPT ![i] = WaitingFlow]
        /\ UNCHANGED seed
  /\ UNCHANGED <<remote, queue, handler, sent, deletes, restarts>>

-----------------------------------------------------------------------------
(* The frame handlers of an interface. *)

\* ConflictHandler::send, registered from entry until the RID or the conflict.
ConflictSeen(f, frame) ==
  IF f.pc # "waiting" /\ f.alias = frame.src /\ ~f.conflict
  THEN [f EXCEPT !.conflict = TRUE, !.triggered = (f.pc = "sleep")]
  ELSE f

\* Mutant: AMR frames are ignored.
RemoteUpdated_no_amr(table, frame) ==
  IF frame.type = "AMD" THEN remote_add(table, frame.node, frame.src) ELSE table

\* RemoteAliasCacheUpdater::entry
RemoteUpdated(table, frame) ==
  CASE frame.type = "AMD" -> remote_add(table, frame.node, frame.src)
    [] frame.type = "AMR" -> remote_remove(table, frame.node, frame.src)
    [] OTHER -> table

Dispatch(i, j) ==
  /\ rest[j][i] # <<>>
  /\ rest' = [rest EXCEPT ![j][i] = Tail(@)]
  /\ flow' = [flow EXCEPT ![i] = ConflictSeen(@, Head(rest[j][i]))]
  /\ remote' = [remote EXCEPT ![i] = RemoteUpdated(@, Head(rest[j][i]))]
  /\ UNCHANGED <<local, seed, queue, waiting, client, handler, inbox, sent,
                 deletes, restarts>>

\* Mutant: CID frames are not answered.
ConflictEntry_silent(i, j) ==
  /\ handler[i].pc = "waiting" /\ inbox[j][i] # <<>>
  /\ inbox' = [inbox EXCEPT ![j][i] = Tail(@)]
  /\ LET frame == Head(inbox[j][i])
     IN  handler' = [handler EXCEPT ![i] =
           IF local[i][frame.src] = "nobody" \/ frame.type = "CID" THEN @
           ELSE [pc |-> "release", alias |-> frame.src]]
  /\ UNCHANGED <<local, remote, seed, queue, flow, waiting, client, rest,
                 sent, deletes, restarts>>

\* AliasConflictHandler::entry
ConflictEntry(i, j) ==
  /\ handler[i].pc = "waiting" /\ inbox[j][i] # <<>>
  /\ inbox' = [inbox EXCEPT ![j][i] = Tail(@)]
  /\ LET frame == Head(inbox[j][i])
     IN  handler' = [handler EXCEPT ![i] =
           IF local[i][frame.src] = "nobody" THEN @
           ELSE [pc |-> IF frame.type = "CID" THEN "rid" ELSE "release",
                 alias |-> frame.src]]
  /\ UNCHANGED <<local, remote, seed, queue, flow, waiting, client, rest,
                 sent, deletes, restarts>>

NoHandling == [pc |-> "waiting", alias |-> 0]

send_reserved_alias(i) ==
  /\ handler[i].pc = "rid"
  /\ Broadcast(i, Frame("RID", handler[i].alias, NoNode))
  /\ handler' = [handler EXCEPT ![i] = NoHandling]
  /\ UNCHANGED <<local, remote, seed, queue, flow, waiting, client, sent, deletes, restarts>>

\* Mutant: the alias is announced as released and stays in the cache.
send_release_alias_kept(i) ==
  /\ handler[i].pc = "release"
  /\ handler' = [handler EXCEPT ![i] = NoHandling]
  /\ LET owner == local[i][handler[i].alias]
     IN  IF owner \in NodeIDs
         THEN Broadcast(i, Frame("AMR", handler[i].alias, owner))
         ELSE UNCHANGED <<inbox, rest>>
  /\ UNCHANGED <<local, remote, seed, queue, flow, waiting, client, sent,
                 deletes, restarts>>

send_release_alias(i) ==
  /\ handler[i].pc = "release"
  /\ handler' = [handler EXCEPT ![i] = NoHandling]
  /\ local' = [local EXCEPT ![i] = remove(@, handler[i].alias)]
  /\ LET owner == local[i][handler[i].alias]
     IN  IF owner \in NodeIDs
         THEN Broadcast(i, Frame("AMR", handler[i].alias, owner))
         ELSE UNCHANGED <<inbox, rest>>
  /\ UNCHANGED <<remote, seed, queue, flow, waiting, client, sent, deletes, restarts>>

-----------------------------------------------------------------------------
(* The write flows. *)

\* Mutant: a client that waits does not request a new alias.
get_allocated_alias_unrequested(i, c, n) ==
  LET free == Unused(local[i])
  IN  IF free # {}
      THEN /\ local' = [local EXCEPT ![i] = add(@, n, Lowest(free))]
           /\ client' = [client EXCEPT ![i][c] =
                           [pc |-> "amd", node |-> n, alias |-> Lowest(free)]]
           /\ UNCHANGED <<waiting, queue>>
      ELSE /\ waiting' = [waiting EXCEPT ![i] = Append(@, c)]
           /\ client' = [client EXCEPT ![i][c] =
                           [pc |-> "wait", node |-> n, alias |-> 0]]
           /\ UNCHANGED <<local, queue>>

get_allocated_alias(i, c, n) ==
  LET free == Unused(local[i])
      more == [queue EXCEPT ![i] = @ + 1]
  IN  IF free # {}
      THEN /\ local' = [local EXCEPT ![i] = add(@, n, Lowest(free))]
           /\ queue' = IF Reserve > 0 /\ free = {Lowest(free)} THEN more ELSE queue
           /\ client' = [client EXCEPT ![i][c] =
                           [pc |-> "amd", node |-> n, alias |-> Lowest(free)]]
           /\ UNCHANGED waiting
      ELSE /\ queue' = more
           /\ waiting' = [waiting EXCEPT ![i] = Append(@, c)]
           /\ client' = [client EXCEPT ![i][c] =
                           [pc |-> "wait", node |-> n, alias |-> 0]]
           /\ UNCHANGED local

\* A message of node n arrives at an idle write flow.
find_local_alias(i, c, n) ==
  /\ client[i][c].pc = "idle" /\ sent[i] < MaxMessages[i]
  /\ sent' = [sent EXCEPT ![i] = @ + 1]
  /\ LET alias == lookup(local[i], n)
     IN  IF alias = 0
         THEN get_allocated_alias(i, c, n)
         ELSE /\ client' = [client EXCEPT ![i][c] =
                              [pc |-> "frame", node |-> n, alias |-> alias]]
              /\ UNCHANGED <<local, queue, waiting>>
  /\ UNCHANGED <<remote, seed, flow, handler, inbox, rest, deletes, restarts>>

allocate_new_alias(i, c) ==
  /\ client[i][c].pc = "woken"
  /\ get_allocated_alias(i, c, client[i][c].node)
  /\ UNCHANGED <<remote, seed, flow, handler, inbox, rest, sent, deletes, restarts>>

SendFrame(i, c, type, next) ==
  /\ Broadcast(i, Frame(type, client[i][c].alias, client[i][c].node))
  /\ client' = [client EXCEPT ![i][c] = next]
  /\ UNCHANGED <<local, remote, seed, queue, flow, waiting, handler, sent, deletes, restarts>>

send_amd_frame(i, c) ==
  /\ client[i][c].pc = "amd"
  /\ SendFrame(i, c, "AMD", [client[i][c] EXCEPT !.pc = "frame"])

fill_can_frame_buffer(i, c) ==
  /\ client[i][c].pc = "frame"
  /\ SendFrame(i, c, "MSG", IdleClient)

-----------------------------------------------------------------------------
(* Administrative operations. *)

\* IfCan::delete_local_node with AliasAllocator::return_alias, called when
\* the application sends nothing more from the node.
delete_local_node(i, n) ==
  LET alias == lookup(local[i], n)
  IN  /\ deletes < MaxDeletes /\ \A c \in Clients : client[i][c].node # n
      /\ deletes' = deletes + 1
      /\ alias # 0
      /\ Broadcast(i, Frame("AMR", alias, n))
      /\ add_allocated_alias(i, alias)
      /\ UNCHANGED <<remote, seed, queue, flow, handler, sent, restarts>>

\* SimpleCanStackBase::start_iface after a connection restart
start_iface(i) ==
  /\ restarts < MaxRestarts
  /\ restarts' = restarts + 1
  /\ seed' = [seed EXCEPT ![i] = InitialSeed[i]]
  /\ local' = [local EXCEPT ![i] = [a \in Aliases |-> "nobody"]]
  /\ remote' = [remote EXCEPT ![i] = [n \in NodeIDs |-> 0]]
  /\ queue' = [queue EXCEPT ![i] = @ + 1]
  /\ UNCHANGED <<flow, waiting, client, handler, inbox, rest, sent, deletes>>

clear_reserved_aliases(i) ==
  /\ restarts < MaxRestarts
  /\ restarts' = restarts + 1
  /\ local' = [local EXCEPT ![i] =
                 [a \in Aliases |-> IF @[a] = "reserved" THEN "nobody" ELSE @[a]]]
  /\ UNCHANGED <<remote, seed, queue, flow, waiting, client, handler, inbox,
                 rest, sent, deletes>>

-----------------------------------------------------------------------------
Init ==
  /\ local = [i \in Ifs |-> [a \in Aliases |-> "nobody"]]
  /\ remote = [i \in Ifs |-> [n \in NodeIDs |-> 0]]
  /\ seed = InitialSeed
  /\ queue = Requests
  /\ flow = [i \in Ifs |-> WaitingFlow]
  /\ waiting = [i \in Ifs |-> <<>>]
  /\ client = [i \in Ifs |-> [c \in Clients |-> IdleClient]]
  /\ handler = [i \in Ifs |-> NoHandling]
  /\ inbox = [i \in Ifs |-> [j \in Ifs |-> <<>>]]
  /\ rest = [i \in Ifs |-> [j \in Ifs |-> <<>>]]
  /\ sent = [i \in Ifs |-> 0]
  /\ deletes = 0 /\ restarts = 0

AllocatorStep(i) ==
  \/ entry(i) \/ handle_allocate_for_cid_frame(i) \/ send_cid_frame(i)
  \/ wait_done(i) \/ send_rid_frame(i)

HandlerStep(i) ==
  \/ \E j \in Ifs : ConflictEntry(i, j)
  \/ send_reserved_alias(i) \/ send_release_alias(i)

ClientStep(i, c) ==
  \/ allocate_new_alias(i, c) \/ send_amd_frame(i, c)
  \/ fill_can_frame_buffer(i, c)

Next ==
  \E i \in Ifs :
    \/ AllocatorStep(i)
    \/ HandlerStep(i)
    \/ \E j \in Ifs : Dispatch(i, j)
    \/ \E c \in Clients :
         ClientStep(i, c) \/ \E n \in NodesOf[i] : find_local_alias(i, c, n)
    \/ \E n \in NodesOf[i] : delete_local_node(i, n)
    \/ start_iface(i) \/ clear_reserved_aliases(i)

Spec == Init /\ [][Next]_vars

\* The executor runs every flow that is ready; the bus delivers every frame.
Fairness ==
  \A i \in Ifs :
    /\ WF_vars(AllocatorStep(i))
    /\ WF_vars(HandlerStep(i))
    /\ \A j \in Ifs : WF_vars(Dispatch(i, j))
    /\ \A c \in Clients : WF_vars(ClientStep(i, c))

FairSpec == Spec /\ Fairness

-----------------------------------------------------------------------------
(* Properties. *)

\* Every variable has its type; queues hold frames of existing aliases.
TypeOK ==
  /\ local \in [Ifs -> [Aliases -> Owners]]
  /\ remote \in [Ifs -> [NodeIDs -> 0..(AliasCount - 1)]]
  /\ seed \in [Ifs -> 0..(AliasCount - 1)]
  /\ queue \in [Ifs -> Nat]
  /\ flow \in [Ifs -> Flows]
  /\ waiting \in [Ifs -> Seq(Clients)]
  /\ client \in [Ifs -> [Clients -> ClientRecords]]
  /\ handler \in [Ifs -> Handlers]
  /\ inbox \in [Ifs -> [Ifs -> Seq(Frames)]]
  /\ rest \in [Ifs -> [Ifs -> Seq(Frames)]]
  /\ sent \in [Ifs -> Nat]
  /\ deletes \in Nat /\ restarts \in Nat

Pending(i) == queue[i] + (IF flow[i].pc = "waiting" THEN 0 ELSE 1)

\* add_allocated_alias wakes exactly one client for each alias: no client is
\* stranded in waitingClients_ because for each of them an allocation is
\* queued or running, whoever else takes or loses the aliases meanwhile.
WaitersCovered == \A i \in Ifs : Len(waiting[i]) <= Pending(i)

QueuedWait(q, cl) ==
  /\ \A k \in 1..Len(q) : cl[q[k]].pc = "wait"
  /\ \A k, l \in 1..Len(q) : q[k] = q[l] => k = l
  /\ \A c \in Clients : cl[c].pc = "wait" => \E k \in 1..Len(q) : q[k] = c

\* A client is in waitingClients_ exactly while its flow waits there: it is
\* never queued twice and never notified when it is not waiting.
WaitersWait == \A i \in Ifs : QueuedWait(waiting[i], client[i])

\* CID, wait and RID with the ConflictHandler and AliasConflictHandler: when
\* answers arrive within the wait, no two interfaces ever hold an alias.
UniqueAlias ==
  \A i, j \in Ifs, a \in Aliases :
    i # j => local[i][a] = "nobody" \/ local[j][a] = "nobody"

\* A frame sent with source alias a that has not reached the release step
\* of the AliasConflictHandler of i.
Underway(i, j, a) ==
  \/ \E k \in 1..Len(inbox[j][i]) :
       inbox[j][i][k].src = a /\ inbox[j][i][k].type # "CID"
  \/ handler[i].pc = "release" /\ handler[i].alias = a

\* However late frames are, two interfaces hold the same alias only while a
\* frame is under way that makes one of them release it.
NoSilentDuplicate ==
  \A i, j \in Ifs, a \in Aliases :
    i # j /\ local[i][a] # "nobody" /\ local[j][a] # "nobody"
      => Underway(i, j, a) \/ Underway(j, i, a)

Quiet ==
  \A i \in Ifs :
    /\ \A j \in Ifs : inbox[i][j] = <<>> /\ rest[i][j] = <<>>
    /\ handler[i].pc = "waiting"
    /\ \A c \in Clients : client[i][c].pc # "amd"

\* AMD and AMR keep RemoteAliasCacheUpdater in step: once every frame is
\* handled, what another interface remembers of a node is its current alias.
RemoteFaithful ==
  Quiet => \A i, j \in Ifs : i # j =>
    \A n \in NodesOf[i] :
      remote[j][n] # 0 => local[i][remote[j][n]] = n

\* A duplicate alias is always given up by one of its holders.
DuplicateResolved ==
  \A i, j \in Ifs, a \in Aliases :
    i # j => (local[i][a] # "nobody" /\ local[j][a] # "nobody")
               ~> (local[i][a] = "nobody" \/ local[j][a] = "nobody")

\* A write flow that had to wait for an alias gets one.
ClientServed ==
  \A i \in Ifs, c \in Clients :
    client[i][c].pc = "wait" ~> client[i][c].pc = "amd"
=============================================================================
