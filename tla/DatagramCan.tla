---------------------------- MODULE DatagramCan ----------------------------
(***************************************************************************)
(* Datagrams on a CAN bus: the flow that looks up the alias of the         *)
(* destination and cuts a datagram into frames (CanDatagramWriteFlow in    *)
(* DatagramCan.cxx on top of AddressedCanMessageWriteFlow in               *)
(* IfCanImpl.hxx), the frames and answers in flight, and the destinations  *)
(* with their parser of incoming datagrams (CanDatagramParser) and the     *)
(* service that answers them (Datagram.cxx).                               *)
(*                                                                         *)
(* A frame carries the number of its datagram, its position and the length *)
(* of the datagram, so that one can say what a reassembled datagram is     *)
(* made of.  Frames between two nodes are not reordered, but one may be    *)
(* lost, and a destination may be down and restart with its buffers gone.  *)
(***************************************************************************)
EXTENDS DatagramClient

CONSTANT MaxFrames     \* frames in a datagram of DatagramDefs::MAX_SIZE bytes

ASSUME CanAssumption == MaxFrames \in Nat \ {0}

VARIABLES sendQueue,   \* datagrams given to the write flow, the current one first
          wf,          \* state of the write flow
          wtimer,      \* its timer: idle, active or expired
          listening,   \* aliasListener_ is registered
          found,       \* dstAlias_ is known
          dataOffset,  \* frames of the current datagram already sent
          remote,      \* remote_aliases: unknown, known, not_responding
          lookupDead,  \* the assertion in timer_.trigger() has failed
          wire,        \* frames on the way to each destination
          back,        \* what each destination has sent, not yet received
          up,          \* the destination is running
          pendingBuffers, \* CanDatagramParser: partly received datagrams
          inbox        \* datagrams complete, not yet answered

writeVars == <<sendQueue, wf, wtimer, listening, found, dataOffset, remote,
               lookupDead>>
peerVars == <<up, pendingBuffers, inbox>>
canVars == <<writeVars, wire, back, peerVars>>

FrameType(k, n) ==
  CASE n = 1 -> "one" [] n > 1 /\ k = 1 -> "first"
    [] n > 1 /\ k = n -> "final" [] OTHER -> "middle"

Frames == [type : {"one", "first", "middle", "final"}, src : Srcs,
           id : Nat, k : Nat, n : Nat]

Enquiries == [type : {"AME", "VERIFY_NODE_ID_GLOBAL"}]

Answers == [type : {"AMD", "VERIFIED_NODE_ID", "INITIALIZATION_COMPLETE"}]
             \cup [type : {"DATAGRAM_OK", "DATAGRAM_REJECTED"}, dst : Srcs,
                   code : SUBSET {"PERMANENT_ERROR", "RESEND_OK"}]

CanTypeOK ==
  /\ sendQueue \in Seq([src : Srcs, dst : Dsts, frames : Nat, id : Nat])
  /\ wf \in {"idle", "send_ame_frame", "send_verify_nodeid_global",
             "fill_verify_nodeid_global", "wait_looking_for_dst",
             "fill_can_frame_buffer"}
  /\ wtimer \in {"idle", "active", "expired"}
  /\ listening \in BOOLEAN /\ found \in BOOLEAN /\ lookupDead \in BOOLEAN
  /\ dataOffset \in Nat
  /\ remote \in [Dsts -> {"unknown", "known", "not_responding"}]
  /\ wire \in [Dsts -> Seq(Frames \cup Enquiries)]
  /\ back \in [Dsts -> Seq(Answers)]
  /\ up \in [Dsts -> BOOLEAN]
  /\ pendingBuffers \in [Srcs \X Dsts -> Seq(Frames)]
  /\ inbox \in [Dsts -> Seq(Seq(Frames))]

CanInit ==
  /\ sendQueue = <<>> /\ wf = "idle" /\ wtimer = "idle"
  /\ listening = FALSE /\ found = FALSE /\ dataOffset = 0 /\ lookupDead = FALSE
  /\ remote = [d \in Dsts |-> "unknown"]
  /\ wire = [d \in Dsts |-> <<>>]
  /\ back = [d \in Dsts |-> <<>>]
  /\ up = [d \in Dsts |-> TRUE]
  /\ pendingBuffers = [p \in Srcs \X Dsts |-> <<>>]
  /\ inbox = [d \in Dsts |-> <<>>]

-----------------------------------------------------------------------------
(***************************************************************************)
(* The write flow.                                                         *)
(***************************************************************************)

\* A client gives a datagram to the flow.
Submit(m) ==
  /\ sendQueue' = Append(sendQueue, m)
  /\ UNCHANGED <<wf, wtimer, listening, found, dataOffset, remote, lookupDead,
                 wire, back, peerVars>>

cur == Head(sendQueue)

\* send_to_hardware() for the next datagram, up to the next wait.  A
\* destination known not to respond costs the datagram; an unknown one is
\* looked up, with an AME frame unless the source has no alias either.
send_to_hardware ==
  /\ wf = "idle" /\ sendQueue # <<>>
  /\ dataOffset' = 0 /\ found' = FALSE
  /\ \/ /\ remote[cur.dst] = "not_responding"
        /\ sendQueue' = Tail(sendQueue)
        /\ UNCHANGED <<wf, listening>>
     \/ /\ remote[cur.dst] = "known"
        /\ wf' = "fill_can_frame_buffer"
        /\ UNCHANGED <<sendQueue, listening>>
     \/ /\ remote[cur.dst] = "unknown"
        /\ listening' = TRUE
        /\ wf' \in {"send_ame_frame", "fill_verify_nodeid_global"}
        /\ UNCHANGED sendQueue
  /\ UNCHANGED <<wtimer, remote, lookupDead, wire, back, peerVars>>

\* A buffer has come: the AME frame goes out and the flow sleeps.
send_ame_frame ==
  /\ wf = "send_ame_frame"
  /\ wire' = [wire EXCEPT ![cur.dst] = Append(@, [type |-> "AME"])]
  /\ wtimer' = "active"
  /\ wf' = "send_verify_nodeid_global"
  /\ UNCHANGED <<sendQueue, listening, found, dataOffset, remote, lookupDead,
                 back, peerVars>>

\* The executor finds the timer of the flow due, or triggered.
wtimer_expires ==
  /\ wtimer = "active"
  /\ wtimer' = "expired"
  /\ UNCHANGED <<sendQueue, wf, listening, found, dataOffset, remote, lookupDead,
                 wire, back, peerVars>>

\* The timer runs and notifies the flow.
wtimer_run ==
  /\ wtimer = "expired"
  /\ wtimer' = "idle"
  /\ UNCHANGED <<sendQueue, wf, listening, found, dataOffset, remote, lookupDead,
                 wire, back, peerVars>>

\* The flow runs after the first sleep.
send_verify_nodeid_global ==
  /\ wf = "send_verify_nodeid_global" /\ wtimer = "idle"
  /\ wf' = IF found THEN "fill_can_frame_buffer" ELSE "fill_verify_nodeid_global"
  /\ UNCHANGED <<sendQueue, wtimer, listening, found, dataOffset, remote,
                 lookupDead, wire, back, peerVars>>

\* A buffer has come: the global enquiry goes out and the flow sleeps again.
fill_verify_nodeid_global ==
  /\ wf = "fill_verify_nodeid_global"
  /\ wire' = [wire EXCEPT ![cur.dst] = Append(@, [type |-> "VERIFY_NODE_ID_GLOBAL"])]
  /\ wtimer' = "active"
  /\ wf' = "wait_looking_for_dst"
  /\ UNCHANGED <<sendQueue, listening, found, dataOffset, remote, lookupDead,
                 back, peerVars>>

\* The flow runs after the second sleep: without an alias the datagram is
\* dropped and the destination remembered as not responding.
wait_looking_for_dst ==
  /\ wf = "wait_looking_for_dst" /\ wtimer = "idle"
  /\ \/ /\ found
        /\ wf' = "fill_can_frame_buffer"
        /\ UNCHANGED <<sendQueue, listening, remote>>
     \/ /\ ~found
        /\ listening' = FALSE
        /\ remote' = [remote EXCEPT ![cur.dst] = "not_responding"]
        /\ sendQueue' = Tail(sendQueue)
        /\ wf' = "idle"
  /\ UNCHANGED <<wtimer, found, dataOffset, lookupDead, wire, back, peerVars>>

\* The next frame of the datagram goes out.
fill_can_frame_buffer ==
  /\ wf = "fill_can_frame_buffer"
  /\ LET k == dataOffset + 1
         f == [type |-> FrameType(k, cur.frames), src |-> cur.src,
               id |-> cur.id, k |-> k, n |-> cur.frames]
     IN /\ wire' = [wire EXCEPT ![cur.dst] = Append(@, f)]
        /\ dataOffset' = k
        /\ IF k < cur.frames
           THEN UNCHANGED <<wf, sendQueue>>
           ELSE wf' = "idle" /\ sendQueue' = Tail(sendQueue)
  /\ UNCHANGED <<wtimer, listening, found, remote, lookupDead, back, peerVars>>

-----------------------------------------------------------------------------
(***************************************************************************)
(* What the interface does with what a destination has sent.               *)
(***************************************************************************)

Received(d) == back' = [back EXCEPT ![d] = Tail(@)]

\* The listener is interested in the definition of d.
Awaited(d) == listening /\ sendQueue # <<>> /\ cur.dst = d

\* A definition of the alias of d: the listener takes it and triggers the
\* timer.  An AMD frame also goes to the RemoteAliasCacheUpdater.
alias_definition(d, type) ==
  /\ remote' = IF Awaited(d) \/ type = "AMD"
               THEN [remote EXCEPT ![d] = "known"] ELSE remote
  /\ found' = (found \/ Awaited(d))
  /\ listening' = (listening /\ ~Awaited(d))
  /\ lookupDead' = (Awaited(d) /\ wtimer = "idle")
  /\ UNCHANGED <<sendQueue, wf, wtimer, dataOffset, wire, peerVars>>

-----------------------------------------------------------------------------
(***************************************************************************)
(* The destinations.                                                       *)
(***************************************************************************)

Reject(d, s, code) ==
  back' = [back EXCEPT ![d] = Append(@, [type |-> "DATAGRAM_REJECTED",
                                         dst |-> s, code |-> code])]

Deliver(d, datagram) == inbox' = [inbox EXCEPT ![d] = Append(@, datagram)]

\* Mutant: the size is compared after the frame has been added.
parse_overlong(d, f) ==
  LET p == <<f.src, d>>
      buf == pendingBuffers[p]
  IN CASE f.type = "one" ->
            Deliver(d, <<f>>) /\ UNCHANGED <<back, pendingBuffers>>
       [] f.type = "first" /\ buf # <<>> ->
            /\ Reject(d, f.src, {"RESEND_OK"})
            /\ pendingBuffers' = [pendingBuffers EXCEPT ![p] = <<>>]
            /\ UNCHANGED inbox
       [] f.type = "first" /\ buf = <<>> ->
            /\ pendingBuffers' = [pendingBuffers EXCEPT ![p] = <<f>>]
            /\ UNCHANGED <<back, inbox>>
       [] f.type \in {"middle", "final"} /\ buf = <<>> ->
            Reject(d, f.src, {"RESEND_OK"}) /\ UNCHANGED <<pendingBuffers, inbox>>
       [] f.type \in {"middle", "final"} /\ buf # <<>> /\ Len(buf) > MaxFrames ->
            /\ Reject(d, f.src, {"PERMANENT_ERROR"})
            /\ pendingBuffers' = [pendingBuffers EXCEPT ![p] = <<>>]
            /\ UNCHANGED inbox
       [] f.type = "middle" /\ buf # <<>> /\ Len(buf) <= MaxFrames ->
            /\ pendingBuffers' = [pendingBuffers EXCEPT ![p] = Append(buf, f)]
            /\ UNCHANGED <<back, inbox>>
       [] f.type = "final" /\ buf # <<>> /\ Len(buf) <= MaxFrames ->
            /\ Deliver(d, Append(buf, f))
            /\ pendingBuffers' = [pendingBuffers EXCEPT ![p] = <<>>]
            /\ UNCHANGED back

\* CanDatagramParser::entry(), with send_rejection() or datagram_complete().
\* A first frame while a datagram from the same source is unfinished discards
\* that one and is itself rejected.
parse(d, f) ==
  LET p == <<f.src, d>>
      buf == pendingBuffers[p]
  IN CASE f.type = "one" ->
            Deliver(d, <<f>>) /\ UNCHANGED <<back, pendingBuffers>>
       [] f.type = "first" /\ buf # <<>> ->
            /\ Reject(d, f.src, {"RESEND_OK"})
            /\ pendingBuffers' = [pendingBuffers EXCEPT ![p] = <<>>]
            /\ UNCHANGED inbox
       [] f.type = "first" /\ buf = <<>> ->
            /\ pendingBuffers' = [pendingBuffers EXCEPT ![p] = <<f>>]
            /\ UNCHANGED <<back, inbox>>
       [] f.type \in {"middle", "final"} /\ buf = <<>> ->
            Reject(d, f.src, {"RESEND_OK"}) /\ UNCHANGED <<pendingBuffers, inbox>>
       [] f.type \in {"middle", "final"} /\ buf # <<>> /\ Len(buf) >= MaxFrames ->
            /\ Reject(d, f.src, {"PERMANENT_ERROR"})
            /\ pendingBuffers' = [pendingBuffers EXCEPT ![p] = <<>>]
            /\ UNCHANGED inbox
       [] f.type = "middle" /\ buf # <<>> /\ Len(buf) < MaxFrames ->
            /\ pendingBuffers' = [pendingBuffers EXCEPT ![p] = Append(buf, f)]
            /\ UNCHANGED <<back, inbox>>
       [] f.type = "final" /\ buf # <<>> /\ Len(buf) < MaxFrames ->
            /\ Deliver(d, Append(buf, f))
            /\ pendingBuffers' = [pendingBuffers EXCEPT ![p] = <<>>]
            /\ UNCHANGED back

\* A frame arrives at d, or is lost because d is down.
peer_receive(d) ==
  /\ wire[d] # <<>>
  /\ wire' = [wire EXCEPT ![d] = Tail(@)]
  /\ LET f == Head(wire[d])
     IN \/ ~up[d] /\ UNCHANGED <<back, peerVars>>
        \/ /\ up[d] /\ f \in Enquiries
           /\ back' = [back EXCEPT ![d] = Append(@, [type |->
                         IF f.type = "AME" THEN "AMD" ELSE "VERIFIED_NODE_ID"])]
           /\ UNCHANGED peerVars
        \/ up[d] /\ f \notin Enquiries /\ parse(d, f) /\ UNCHANGED up
  /\ UNCHANGED writeVars

\* DatagramDispatcher and the handler of a complete datagram: the answer is OK,
\* a rejection because there is no handler, a rejection by the handler (with an
\* error code that need not have either of the two error bits), or never comes.
peer_handle(d, answer) ==
  /\ inbox[d] # <<>>
  /\ LET s == Head(inbox[d])[1].src
     IN CASE answer = "respond_ok" ->
               back' = [back EXCEPT ![d] = Append(@, [type |-> "DATAGRAM_OK",
                                                      dst |-> s, code |-> {}])]
          [] answer = "respond_rejection" -> Reject(d, s, {"PERMANENT_ERROR"})
          [] answer = "respond_reject" -> Reject(d, s, {})
          [] answer = "none" -> UNCHANGED back
  /\ inbox' = [inbox EXCEPT ![d] = Tail(@)]
  /\ UNCHANGED <<writeVars, wire, up, pendingBuffers>>

\* The destination stops; its datagrams are gone.
peer_down(d) ==
  /\ up[d]
  /\ up' = [up EXCEPT ![d] = FALSE]
  /\ pendingBuffers' = [p \in Srcs \X Dsts |-> IF p[2] = d THEN <<>> ELSE pendingBuffers[p]]
  /\ inbox' = [inbox EXCEPT ![d] = <<>>]
  /\ UNCHANGED <<writeVars, wire, back>>

\* It starts again: defines its alias and says that it is initialized.
peer_start(d) ==
  /\ ~up[d]
  /\ up' = [up EXCEPT ![d] = TRUE]
  /\ back' = [back EXCEPT ![d] = @ \o <<[type |-> "AMD"],
                                        [type |-> "INITIALIZATION_COMPLETE"]>>]
  /\ UNCHANGED <<writeVars, wire, pendingBuffers, inbox>>

=============================================================================
