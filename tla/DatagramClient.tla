--------------------------- MODULE DatagramClient ---------------------------
(***************************************************************************)
(* The datagram clients of one interface (openlcb/DatagramImpl.hxx).       *)
(*                                                                         *)
(* A client sends one datagram at a time and waits for the answer of the   *)
(* destination or for its timer.  Clients that have the same source and    *)
(* destination exclude each other: the later ones wait in the list         *)
(* waitingClients_ of the one that is sending, and the whole list is       *)
(* handed on when that one is done.                                        *)
(*                                                                         *)
(* All of this runs on the executor of the interface.  A client that has   *)
(* been notified is queued there and runs some time later; what else is    *)
(* queued may run first, because clients have different priorities.  The   *)
(* operators below are the client's part of a step; module Datagram joins  *)
(* them with the transport.                                                *)
(***************************************************************************)
EXTENDS Naturals, Sequences

CONSTANTS Clients,   \* the DatagramClientImpl objects of the service
          Srcs,      \* local nodes that send datagrams
          Dsts,      \* nodes they are sent to
          NoMsg      \* the value of message_ before the first datagram

ASSUME ClientsAssumption == NoMsg \notin [src : Srcs, dst : Dsts, frames : Nat, id : Nat]

VARIABLES state,          \* state_ of the flow
          queued,         \* the flow is in the queue of the executor
          waitingClients, \* the clients that wait for this one
          timer,          \* timer_: idle, active, or expired (in the queue)
          isSleeping,     \* isSleeping_
          sendPending,    \* sendPending_: the handlers are registered
          msg,            \* src_, dst_ and the datagram
          result,         \* the flags of result_
          assertion       \* the assertion that has failed and ended the program

clientVars == <<state, queued, waitingClients, timer, isSleeping, sendPending,
                msg, result, assertion>>

Messages == [src : Srcs, dst : Dsts, frames : Nat, id : Nat]

States == {"terminated", "start_send", "timeout_waiting_for_dg_response",
           "datagram_finalize"}

Errors == {"PERMANENT_ERROR", "RESEND_OK", "TIMEOUT", "DST_REBOOT"}

Flags == Errors \cup {"OPERATION_PENDING", "OPERATION_SUCCESS"}

ClientTypeOK ==
  /\ state \in [Clients -> States]
  /\ queued \in [Clients -> BOOLEAN]
  /\ waitingClients \in [Clients -> Seq(Clients)]
  /\ timer \in [Clients -> {"idle", "active", "expired"}]
  /\ isSleeping \in [Clients -> BOOLEAN]
  /\ sendPending \in [Clients -> BOOLEAN]
  /\ msg \in [Clients -> Messages \cup {NoMsg}]
  /\ result \in [Clients -> SUBSET Flags]
  /\ assertion \in {"none", "hand_off", "trigger"}

ClientInit ==
  /\ state = [c \in Clients |-> "terminated"]
  /\ queued = [c \in Clients |-> FALSE]
  /\ waitingClients = [c \in Clients |-> <<>>]
  /\ timer = [c \in Clients |-> "idle"]
  /\ isSleeping = [c \in Clients |-> FALSE]
  /\ sendPending = [c \in Clients |-> FALSE]
  /\ msg = [c \in Clients |-> NoMsg]
  /\ result = [c \in Clients |-> {}]
  /\ assertion = "none"

-----------------------------------------------------------------------------

\* c and x send from the same source to the same destination.
SamePair(c, x) == msg[c].src = msg[x].src /\ msg[c].dst = msg[x].dst

\* The clients that hold the lock on the pair of c.
Holders(c) == {x \in Clients : sendPending[x] /\ SamePair(c, x)}

\* A user starts a client that is not in use.
write_datagram(c, m) ==
  /\ state[c] = "terminated"
  /\ state' = [state EXCEPT ![c] = "start_send"]
  /\ queued' = [queued EXCEPT ![c] = TRUE]
  /\ msg' = [msg EXCEPT ![c] = m]
  /\ result' = [result EXCEPT ![c] = {"OPERATION_PENDING"}]
  /\ UNCHANGED <<waitingClients, timer, isSleeping, sendPending, assertion>>

\* acquire_srcdst_lock() while another client sends to the same destination.
wait_for_lock(c) ==
  /\ state[c] = "start_send" /\ queued[c]
  /\ \E x \in Holders(c) :
       waitingClients' = [waitingClients EXCEPT ![x] = <<c>> \o @]
  /\ queued' = [queued EXCEPT ![c] = FALSE]
  /\ UNCHANGED <<state, timer, isSleeping, sendPending, msg, result, assertion>>

\* Mutant: the pending clients are not looked at.
do_send_unlocked(c) ==
  /\ state[c] = "start_send" /\ queued[c]
  /\ queued' = [queued EXCEPT ![c] = FALSE]
  /\ sendPending' = [sendPending EXCEPT ![c] = TRUE]
  /\ isSleeping' = [isSleeping EXCEPT ![c] = TRUE]
  /\ timer' = [timer EXCEPT ![c] = "active"]
  /\ state' = [state EXCEPT ![c] = "timeout_waiting_for_dg_response"]
  /\ UNCHANGED <<waitingClients, msg, result, assertion>>

\* Nobody else does: registers the handlers, gives the datagram to the send
\* flow and goes to sleep.
do_send(c) ==
  /\ state[c] = "start_send" /\ queued[c]
  /\ Holders(c) = {}
  /\ queued' = [queued EXCEPT ![c] = FALSE]
  /\ sendPending' = [sendPending EXCEPT ![c] = TRUE]
  /\ isSleeping' = [isSleeping EXCEPT ![c] = TRUE]
  /\ timer' = [timer EXCEPT ![c] = "active"]
  /\ state' = [state EXCEPT ![c] = "timeout_waiting_for_dg_response"]
  /\ UNCHANGED <<waitingClients, msg, result, assertion>>

\* Mutant: a timer that was triggered is not made due.
timer_expires_untriggered(c) ==
  /\ timer[c] = "active" /\ isSleeping[c]
  /\ timer' = [timer EXCEPT ![c] = "expired"]
  /\ UNCHANGED <<state, queued, waitingClients, isSleeping, sendPending, msg,
                 result, assertion>>

\* The executor finds the timer due: its time has come, or it was triggered.
timer_expires(c) ==
  /\ timer[c] = "active"
  /\ timer' = [timer EXCEPT ![c] = "expired"]
  /\ UNCHANGED <<state, queued, waitingClients, isSleeping, sendPending, msg,
                 result, assertion>>

\* The executor runs the timer, which notifies the flow.
timer_run(c) ==
  /\ timer[c] = "expired"
  /\ timer' = [timer EXCEPT ![c] = "idle"]
  /\ queued' = [queued EXCEPT ![c] = TRUE]
  /\ UNCHANGED <<state, waitingClients, isSleeping, sendPending, msg, result, assertion>>

-----------------------------------------------------------------------------

\* The first of the waiting clients still has a list of its own: the assertion
\* of unregister_response_handler() fails.
HandOffFails(c) ==
  waitingClients[c] # <<>> /\ waitingClients[Head(waitingClients[c])] # <<>>

\* The lists after the hand-off by c.
HandedOn(c) ==
  IF waitingClients[c] = <<>> THEN waitingClients
  ELSE [waitingClients EXCEPT ![c] = <<>>,
                              ![Head(waitingClients[c])] = Tail(waitingClients[c])]

\* The clients woken by the hand-off.
Woken(c) == IF waitingClients[c] = <<>> THEN {} ELSE {Head(waitingClients[c])}

\* Mutant: the list stays with the client that is done.
unregister_response_handler_keeps(c) ==
  /\ sendPending' = [sendPending EXCEPT ![c] = FALSE]
  /\ waitingClients' = waitingClients

\* The lock is given up and the list handed on to the first waiting client.
unregister_response_handler(c) ==
  /\ sendPending' = [sendPending EXCEPT ![c] = FALSE]
  /\ waitingClients' = HandedOn(c)

\* The flow runs because its timer did; no answer has come.
timeout_waiting_for_dg_response(c) ==
  /\ state[c] = "timeout_waiting_for_dg_response" /\ queued[c]
  /\ isSleeping' = [isSleeping EXCEPT ![c] = FALSE]
  /\ unregister_response_handler(c)
  /\ queued' = [x \in Clients |-> IF x = c THEN FALSE ELSE queued[x] \/ x \in Woken(c)]
  /\ result' = [result EXCEPT ![c] = (@ \cup {"PERMANENT_ERROR", "TIMEOUT"})
                                       \ {"OPERATION_PENDING"}]
  /\ state' = [state EXCEPT ![c] = "terminated"]
  /\ assertion' = IF HandOffFails(c) THEN "hand_off" ELSE "none"
  /\ UNCHANGED <<timer, msg>>

\* The flow runs after an answer: the user is notified.
datagram_finalize(c) ==
  /\ state[c] = "datagram_finalize" /\ queued[c]
  /\ queued' = [queued EXCEPT ![c] = FALSE]
  /\ result' = [result EXCEPT ![c] = @ \ {"OPERATION_PENDING"}]
  /\ state' = [state EXCEPT ![c] = "terminated"]
  /\ UNCHANGED <<waitingClients, timer, isSleeping, sendPending, msg, assertion>>

\* Mutant: the flow keeps its state, so that the timeout is reported as well.
stop_waiting_for_response_no_reset(c, flags) ==
  /\ unregister_response_handler(c)
  /\ queued' = [x \in Clients |-> queued[x] \/ x \in Woken(c)]
  /\ result' = [result EXCEPT ![c] = flags]
  /\ isSleeping' = [isSleeping EXCEPT ![c] = FALSE]
  /\ assertion' = IF HandOffFails(c) THEN "hand_off"
                  ELSE IF isSleeping[c] /\ timer[c] = "idle" THEN "trigger"
                  ELSE "none"
  /\ UNCHANGED <<timer, msg, state>>

\* Mutant: the flow is also notified directly.
stop_waiting_for_response_notifies(c, flags) ==
  /\ unregister_response_handler(c)
  /\ queued' = [x \in Clients |-> queued[x] \/ x \in Woken(c) \/ x = c]
  /\ result' = [result EXCEPT ![c] = flags]
  /\ isSleeping' = [isSleeping EXCEPT ![c] = FALSE]
  /\ state' = [state EXCEPT ![c] = "datagram_finalize"]
  /\ assertion' = IF HandOffFails(c) THEN "hand_off"
                  ELSE IF isSleeping[c] /\ timer[c] = "idle" THEN "trigger"
                  ELSE "none"
  /\ UNCHANGED <<timer, msg>>

\* An answer ends the wait: the timer is triggered, which asserts that it is
\* active unless it is expired, and the flow will finish when the timer runs.
stop_waiting_for_response(c, flags) ==
  /\ unregister_response_handler(c)
  /\ queued' = [x \in Clients |-> queued[x] \/ x \in Woken(c)]
  /\ result' = [result EXCEPT ![c] = flags]
  /\ isSleeping' = [isSleeping EXCEPT ![c] = FALSE]
  /\ state' = [state EXCEPT ![c] = "datagram_finalize"]
  /\ assertion' = IF HandOffFails(c) THEN "hand_off"
                  ELSE IF isSleeping[c] /\ timer[c] = "idle" THEN "trigger"
                  ELSE "none"
  /\ UNCHANGED <<timer, msg>>

\* The destination restarted.
handle_reboot(c, d) ==
  /\ sendPending[c] /\ msg[c].dst = d
  /\ stop_waiting_for_response(c, result[c] \cup {"DST_REBOOT"})

\* Mutant: every answer is taken for an acknowledgement.
handle_response_any(c, s, d, mti, code) ==
  /\ sendPending[c] /\ msg[c].src = s /\ msg[c].dst = d
  /\ stop_waiting_for_response(c, result[c] \cup {"OPERATION_SUCCESS"})

\* An answer from d to s.  A rejection replaces the low 16 bits of the result
\* and always leaves one of the two error flags.
handle_response(c, s, d, mti, code) ==
  /\ sendPending[c] /\ msg[c].src = s /\ msg[c].dst = d
  /\ LET low == {"PERMANENT_ERROR", "RESEND_OK"}
         error_code == code \cap low
     IN stop_waiting_for_response(c,
          IF mti = "DATAGRAM_OK" THEN result[c] \cup {"OPERATION_SUCCESS"}
          ELSE (result[c] \ low)
                 \cup (IF error_code = {} THEN {"PERMANENT_ERROR"} ELSE error_code))

=============================================================================
