------------------------------ MODULE Datagram ------------------------------
(***************************************************************************)
(* The datagram service: the clients (DatagramClient) on top of the write  *)
(* flow, the bus and the destinations (DatagramCan).                       *)
(***************************************************************************)
EXTENDS DatagramCan

CONSTANTS FrameCounts,  \* lengths of the datagrams written, in frames
          MaxWrites,    \* bound: datagrams written
          MaxFaults     \* bound: frames lost and destinations going down

ASSUME FrameCountsAssumption == FrameCounts \subseteq Nat \ {0}

VARIABLES writes,       \* datagrams written so far; numbers the datagrams
          downs,        \* times a destination has gone down
          lost,         \* frames lost on the way to a running destination
          accepted,     \* history: how often d has said OK to s
          succeeded     \* history: how often success from s to d was reported

vars == <<clientVars, canVars, writes, downs, lost, accepted, succeeded>>

Pairs == Srcs \X Dsts

\* The type of every variable.
TypeOK ==
  /\ ClientTypeOK
  /\ CanTypeOK
  /\ writes \in Nat /\ downs \in Nat /\ lost \in Nat
  /\ accepted \in [Pairs -> Nat] /\ succeeded \in [Pairs -> Nat]

Init ==
  /\ ClientInit
  /\ CanInit
  /\ writes = 0 /\ downs = 0 /\ lost = 0
  /\ accepted = [p \in Pairs |-> 0] /\ succeeded = [p \in Pairs |-> 0]

Running == assertion = "none" /\ ~lookupDead

-----------------------------------------------------------------------------

Write(c) ==
  /\ Running
  /\ writes < MaxWrites
  /\ \E s \in Srcs, d \in Dsts, n \in FrameCounts :
       write_datagram(c, [src |-> s, dst |-> d, frames |-> n, id |-> writes])
  /\ writes' = writes + 1
  /\ UNCHANGED <<canVars, downs, lost, accepted, succeeded>>

Wait(c) ==
  /\ Running
  /\ wait_for_lock(c)
  /\ UNCHANGED <<canVars, writes, downs, lost, accepted, succeeded>>

Send(c) ==
  /\ Running
  /\ do_send(c) /\ Submit(msg[c])
  /\ UNCHANGED <<writes, downs, lost, accepted, succeeded>>

ClientStep(c) ==
  /\ Running
  /\ timer_expires(c) \/ timer_run(c)
  /\ UNCHANGED <<canVars, writes, downs, lost, accepted, succeeded>>

\* A client is done; its user looks at the result.
Done(c) ==
  /\ Running
  /\ timeout_waiting_for_dg_response(c) \/ datagram_finalize(c)
  /\ succeeded' = IF "OPERATION_SUCCESS" \in result'[c]
                  THEN [succeeded EXCEPT ![<<msg[c].src, msg[c].dst>>] = @ + 1]
                  ELSE succeeded
  /\ UNCHANGED <<canVars, writes, downs, lost, accepted>>

WriteFlowStep ==
  /\ Running
  /\ \/ send_to_hardware
     \/ send_ame_frame
     \/ wtimer_expires
     \/ wtimer_run
     \/ send_verify_nodeid_global
     \/ fill_verify_nodeid_global
     \/ wait_looking_for_dst
     \/ fill_can_frame_buffer
  /\ UNCHANGED <<clientVars, writes, downs, lost, accepted, succeeded>>

PeerReceive(d) ==
  /\ Running
  /\ peer_receive(d)
  /\ UNCHANGED <<clientVars, writes, downs, lost, accepted, succeeded>>

PeerHandle(d) ==
  /\ Running
  /\ \E answer \in {"respond_ok", "respond_rejection", "respond_reject", "none"} :
       /\ peer_handle(d, answer)
       /\ accepted' = IF answer = "respond_ok"
                      THEN [accepted EXCEPT ![<<Head(inbox[d])[1].src, d>>] = @ + 1]
                      ELSE accepted
  /\ UNCHANGED <<clientVars, writes, downs, lost, succeeded>>

PeerDown(d) ==
  /\ Running
  /\ downs + lost < MaxFaults
  /\ peer_down(d)
  /\ downs' = downs + 1
  /\ UNCHANGED <<clientVars, writes, lost, accepted, succeeded>>

FrameLost(d) ==
  /\ Running
  /\ downs + lost < MaxFaults
  /\ up[d] /\ wire[d] # <<>>
  /\ wire' = [wire EXCEPT ![d] = Tail(@)]
  /\ lost' = lost + 1
  /\ UNCHANGED <<clientVars, writeVars, back, peerVars, writes, downs, accepted, succeeded>>

PeerStart(d) ==
  /\ Running
  /\ peer_start(d)
  /\ UNCHANGED <<clientVars, writes, downs, lost, accepted, succeeded>>

\* An alias definition of d arrives.
ReceiveDefinition(d) ==
  /\ Running
  /\ back[d] # <<>> /\ Head(back[d]).type \in {"AMD", "VERIFIED_NODE_ID"}
  /\ Received(d)
  /\ alias_definition(d, Head(back[d]).type)
  /\ UNCHANGED <<clientVars, writes, downs, lost, accepted, succeeded>>

\* The clients that send to d.
SendersTo(d) == {c \in Clients : sendPending[c] /\ msg[c].dst = d}

\* The initialization message of d arrives: it defines the alias, and ends the
\* datagrams to d, one client after the other.
ReceiveReboot(d) ==
  /\ Running
  /\ back[d] # <<>> /\ Head(back[d]).type = "INITIALIZATION_COMPLETE"
  /\ \/ SendersTo(d) = {} /\ UNCHANGED clientVars
     \/ \E c \in SendersTo(d) : handle_reboot(c, d)
  /\ IF \E c \in SendersTo(d) : SendersTo(d) # {c}
     THEN UNCHANGED canVars
     ELSE Received(d) /\ alias_definition(d, "INITIALIZATION_COMPLETE")
  /\ UNCHANGED <<writes, downs, lost, accepted, succeeded>>

\* An answer of d to a datagram arrives; it may find nobody waiting.
ReceiveResponse(d) ==
  /\ Running
  /\ back[d] # <<>> /\ Head(back[d]).type \in {"DATAGRAM_OK", "DATAGRAM_REJECTED"}
  /\ LET a == Head(back[d])
         Awaiting == {c \in SendersTo(d) : msg[c].src = a.dst}
     IN \/ Awaiting = {} /\ UNCHANGED clientVars
        \/ \E c \in Awaiting : handle_response(c, a.dst, d, a.type, a.code)
  /\ Received(d)
  /\ UNCHANGED <<writeVars, wire, peerVars, writes, downs, lost, accepted, succeeded>>

Next ==
  \/ \E c \in Clients : Write(c) \/ Wait(c) \/ Send(c) \/ ClientStep(c) \/ Done(c)
  \/ WriteFlowStep
  \/ \E d \in Dsts : \/ PeerReceive(d) \/ PeerHandle(d) \/ PeerDown(d)
                     \/ FrameLost(d) \/ PeerStart(d) \/ ReceiveDefinition(d)
                     \/ ReceiveReboot(d) \/ ReceiveResponse(d)

Spec == Init /\ [][Next]_vars

\* The executor runs what is queued and what is due, the write flow gets its
\* buffers, frames arrive.  Nothing makes a destination answer, or come back.
Fairness ==
  /\ \A c \in Clients : WF_vars(Wait(c) \/ Send(c) \/ ClientStep(c) \/ Done(c))
  /\ WF_vars(WriteFlowStep)
  /\ \A d \in Dsts : /\ WF_vars(PeerReceive(d))
                     /\ WF_vars(ReceiveDefinition(d) \/ ReceiveReboot(d)
                                  \/ ReceiveResponse(d))

FairSpec == Spec /\ Fairness

-----------------------------------------------------------------------------
(***************************************************************************)
(* Properties.                                                             *)
(***************************************************************************)

\* "Ensures that there is no other datagram client with the same src:dst pair":
\* two clients never wait for the answer of the same destination to the same
\* source, so that an answer has only one client it can belong to.
Exclusive ==
  Running =>
    \A c, x \in Clients :
      c # x /\ sendPending[c] /\ sendPending[x] => ~SamePair(c, x)

\* A client that waits for its turn.
Waits(c) == state[c] = "start_send" /\ ~queued[c]

\* No waiting client is lost in a hand-off: it is in the list of exactly one
\* client, once, and that one is sending or about to try; and only waiting
\* clients for the same pair are in a list.
Covered ==
  Running =>
    /\ \A c \in Clients : Waits(c) =>
         \E x \in Clients : \E i \in DOMAIN waitingClients[x] :
           waitingClients[x][i] = c
    /\ \A x, y \in Clients :
         \A i \in DOMAIN waitingClients[x], j \in DOMAIN waitingClients[y] :
           /\ Waits(waitingClients[x][i]) /\ SamePair(waitingClients[x][i], x)
           /\ state[x] \in {"start_send", "timeout_waiting_for_dg_response"}
           /\ waitingClients[x][i] = waitingClients[y][j] => x = y /\ i = j

\* A sleeping client has its timer running or is queued because the timer ran,
\* never both and never neither: it is woken exactly once, also when the answer
\* and the timeout meet.
WokenOnce ==
  Running =>
    \A c \in Clients :
      CASE state[c] \in {"timeout_waiting_for_dg_response", "datagram_finalize"} ->
             queued[c] <=> timer[c] = "idle"
        [] state[c] = "start_send" -> timer[c] = "idle"
        [] state[c] = "terminated" -> timer[c] = "idle" /\ ~queued[c]

\* The result a user sees is one outcome: success or an error, not both and not
\* neither, whatever raced with the answer.
OneOutcome ==
  Running =>
    \A c \in Clients :
      state[c] = "terminated" /\ msg[c] # NoMsg =>
        /\ "OPERATION_PENDING" \notin result[c]
        /\ "OPERATION_SUCCESS" \in result[c] <=> result[c] \cap Errors = {}

\* Success is reported no more often than destinations have accepted: also with
\* late answers, timeouts and restarts no acknowledgement is counted twice.
SuccessBacked == \A p \in Pairs : succeeded[p] <= accepted[p]

\* A datagram the parser hands over is made of frames of one datagram, from its
\* first to its last, in order, and fits, unless two frames have been lost; it is
\* complete if none has.  What is left of a datagram cut short by a restart, a
\* lost frame or its length never becomes part of another.
Reassembled ==
  \A d \in Dsts : \A i \in DOMAIN inbox[d] :
    LET b == inbox[d][i]
    IN /\ Len(b) <= MaxFrames
       /\ lost = 0 => Len(b) = b[1].n
       /\ lost <= 1 =>
            /\ b[1].k = 1 /\ b[Len(b)].k = b[1].n
            /\ \A k \in 2 .. Len(b) : b[k].id = b[1].id /\ b[k - 1].k < b[k].k

\* Every datagram written is reported done, whether or not the destination
\* answers, answers late, or restarts, and whoever else sends to it.
WriteEnds ==
  \A c \in Clients :
    state[c] = "start_send" ~> (state[c] = "terminated" \/ ~Running)

\* HASSERT(c->waitingClients_.empty()) in unregister_response_handler(): the
\* client that is handed the list has none of its own.
HandOffAsserted == assertion # "hand_off"

=============================================================================
