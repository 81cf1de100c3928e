----------------------------- MODULE StreamRead -----------------------------
(***************************************************************************)
(* Reading a memory space through a stream: the client                     *)
(* (openlcb/MemoryConfigClient.hxx) with its stream receiver, the server   *)
(* (openlcb/MemoryConfigStream.hxx) with its stream sender, and the bus.   *)
(*                                                                         *)
(* The client opens its receiver and asks for the stream with a datagram;  *)
(* the server starts a stream, and answers the datagram when the stream    *)
(* has started or failed.  Messages keep their order in each direction.    *)
(* Data frames keep theirs, but have a lower priority on the CAN bus than  *)
(* messages, so a close message may overtake them.  By the time the next   *)
(* stream is initiated they have arrived.                                  *)
(***************************************************************************)
EXTENDS StreamSender, StreamReceiver, SequencesExt

CONSTANTS Reads         \* bound: the reads of the client, with address and size

ASSUME FrameAssumption ==
  /\ Reads \in Seq([addr : Addrs, size : 0..MaxSize])
  /\ FrameBytes <= RawSize
  /\ MaxBytes = RawSize
  /\ NoStream = INVALID_STREAM_ID

VARIABLES toServer, toClient, \* messages on their way
          data,         \* data frames on their way to the client
          client,       \* the state of the client's flow
          address,      \* the address of its request
          dg,           \* what is known of its datagram
          response,     \* responseCode_ and responsePayload_
          isWaitingForTimer,
          clientTimer,  \* timer_ of the client
          done,         \* count_ of the barrier of streamRecvRequest_
          clientQueued, \* the barrier has notified the client
          outcome,      \* how the last read has ended
          reads,        \* reads so far
          requests,     \* datagrams the server has not handled
          handler,      \* the state of MemoryConfigStreamHandler
          handled,      \* the address in the datagram it handles
          started,      \* streamErrorCode_: the stream has started
          closed        \* history: the streams closed, with address and length

busVars == <<toServer, toClient, data>>
clientVars == <<client, address, dg, response, isWaitingForTimer, clientTimer, done,
                clientQueued, outcome, reads>>
handlerFlowVars == <<requests, handler, handled, started>>
vars == <<senderVars, receiverVars, busVars, clientVars, handlerFlowVars, closed>>

NoResponse == [type |-> "OPERATION_PENDING", addr |-> AnyAddr]

Init ==
  /\ SenderInit
  /\ ReceiverInit
  /\ toServer = <<>> /\ toClient = <<>> /\ data = <<>>
  /\ client = "idle"
  /\ address = AnyAddr
  /\ dg = "none"
  /\ response = NoResponse
  /\ isWaitingForTimer = FALSE
  /\ clientTimer = "off"
  /\ done = 0
  /\ clientQueued = FALSE
  /\ outcome = "none"
  /\ reads = 0
  /\ requests = <<>>
  /\ handler = "idle"
  /\ handled = AnyAddr
  /\ started = FALSE
  /\ closed = {}

Running == sndAssertion = "none" /\ rcvAssertion = "none"

-----------------------------------------------------------------------------
(* The client.                                                             *)

do_stream_read ==
  /\ client = "idle"
  /\ reads < Len(Reads)
  /\ reads' = reads + 1
  /\ address' = Reads[reads'].addr
  /\ announced_stream
  /\ done' = 2
  /\ outcome' = "none"
  /\ client' = "send_stream_read_datagram"
  /\ UNCHANGED <<senderVars, busVars, dg, response, isWaitingForTimer, clientTimer, clientQueued,
                 handlerFlowVars, closed>>

send_stream_read_datagram ==
  /\ client = "send_stream_read_datagram"
  /\ isWaitingForTimer' = FALSE
  /\ response' = NoResponse
  /\ dg' = "pending"
  /\ toServer' = Append(toServer, [type |-> "READ_STREAM", addr |-> address,
                                   size |-> Reads[reads].size])
  /\ client' = "stream_read_dg_complete"
  /\ UNCHANGED <<senderVars, receiverVars, toClient, data, address, clientTimer, done,
                 clientQueued, outcome, reads, handlerFlowVars, closed>>

\* done.notify(), with the count at d.
DoneNotify(d) ==
  /\ done' = d - 1
  /\ clientQueued' = (clientQueued \/ d = 1)

\* The read fails: the receiver is told to give up.
handle_read_error ==
  /\ DoneNotify(done)
  /\ cancel_request
  /\ client' = "cleanup_after_error"
  /\ UNCHANGED outcome

\* The stream has started: the client waits for the receiver, unless that is
\* done already.
wait_for_stream_complete ==
  /\ done' = done - 1
  /\ client' = IF done = 1 THEN "idle" ELSE "recv_stream_closed"
  /\ outcome' = IF done = 1 THEN "OK" ELSE outcome
  /\ UNCHANGED <<clientQueued, receiverVars>>

\* The client looks at the response, or the time for it is over.
check_response ==
  IF response.type = "READ_STREAM_REPLY" /\ response.addr = address
  THEN wait_for_stream_complete
  ELSE handle_read_error

stream_read_dg_complete ==
  /\ client = "stream_read_dg_complete"
  /\ dg \in {"OPERATION_SUCCESS", "failed"}
  /\ dg' = "none"
  /\ IF dg = "OPERATION_SUCCESS" /\ response = NoResponse
     THEN /\ isWaitingForTimer' = TRUE
          /\ clientTimer' = "active"
          /\ client' = "stream_read_response_timeout"
          /\ UNCHANGED <<done, clientQueued, outcome, receiverVars>>
     ELSE /\ IF dg = "failed" THEN handle_read_error ELSE check_response
          /\ UNCHANGED <<isWaitingForTimer, clientTimer>>
  /\ UNCHANGED <<senderVars, busVars, address, response, reads, handlerFlowVars, closed>>

stream_read_response_timeout ==
  /\ client = "stream_read_response_timeout"
  /\ clientTimer = "ran"
  /\ clientTimer' = "off"
  /\ check_response
  /\ UNCHANGED <<senderVars, busVars, address, dg, response, isWaitingForTimer, reads,
                 handlerFlowVars, closed>>

\* The receiver has returned the request: the read is over.
recv_stream_closed ==
  /\ client \in {"recv_stream_closed", "cleanup_after_error"}
  /\ clientQueued
  /\ clientQueued' = FALSE
  /\ client' = "idle"
  /\ outcome' = IF client = "recv_stream_closed" THEN "OK" ELSE "error"
  /\ UNCHANGED <<senderVars, receiverVars, busVars, address, dg, response, isWaitingForTimer,
                 clientTimer, done, reads, handlerFlowVars, closed>>

\* The datagram client gives up; the datagram may have arrived all the same.
datagram_times_out ==
  /\ dg = "pending"
  /\ dg' = "failed"
  /\ UNCHANGED <<senderVars, receiverVars, busVars, client, address, response, isWaitingForTimer,
                 clientTimer, done, clientQueued, outcome, reads, handlerFlowVars, closed>>

client_timer ==
  /\ \/ clientTimer = "active" /\ clientTimer' = "expired"
     \/ clientTimer = "expired" /\ clientTimer' = "ran"
  /\ UNCHANGED <<senderVars, receiverVars, busVars, client, address, dg, response,
                 isWaitingForTimer, done, clientQueued, outcome, reads, handlerFlowVars, closed>>

\* ResponseFlow: the response datagram m arrives.
response_arrives(m) ==
  IF client = "idle" THEN UNCHANGED <<clientVars, receiverVars>>
  ELSE /\ response' = m
       /\ IF isWaitingForTimer /\ clientTimer \in {"off", "ran"}
          THEN rcvAssertion' = "trigger" /\ UNCHANGED clientTimer
          ELSE /\ clientTimer' = IF isWaitingForTimer THEN "expired" ELSE clientTimer
               /\ UNCHANGED rcvAssertion
       /\ UNCHANGED <<client, address, dg, isWaitingForTimer, done, clientQueued, outcome, reads,
                      request, rcvFlow, rcvQueued, streamClosed, pendingInit, pendingCancel,
                      isWaiting, handlerVars, srcStreamId, rcvWindow, rx, lastFree, result>>

-----------------------------------------------------------------------------
(* The server.                                                             *)

\* The handler takes a datagram, and refuses it or starts a read flow.
handle_read_stream ==
  /\ handler = "idle"
  /\ requests # <<>>
  /\ requests' = Tail(requests)
  /\ handled' = Head(requests).addr
  /\ \/ /\ toClient' = Append(toClient, [type |-> "DATAGRAM_REJECTED"])
        /\ UNCHANGED <<handler, readers>>
     \/ /\ readers' = Append(readers, Head(requests))
        /\ handler' = "wait"
        /\ UNCHANGED toClient
  /\ UNCHANGED <<inUseSendStreamIds, nextSendStreamId, reader, from, ofs, len, sendBuffer, flowVars,
                 streamVars, waitVars, queue, sndRemaining, sndAssertion, receiverVars, toServer,
                 data, clientVars, started, closed>>

\* stream_start_cb(): the read flow tells the handler how its start went.
reader_started ==
  /\ stream_started \/ stream_failed
  /\ started' = (state = "RUNNING")
  /\ handler' = "read_started"
  /\ UNCHANGED <<receiverVars, busVars, clientVars, requests, handled, closed>>

\* The datagram is acknowledged, then the response is sent.
read_started ==
  /\ handler \in {"read_started", "send_response_datagram"}
  /\ handler' = IF handler = "read_started" THEN "send_response_datagram" ELSE "idle"
  /\ toClient' = Append(toClient,
       IF handler = "read_started" THEN [type |-> "DATAGRAM_OK"]
       ELSE [type |-> IF started THEN "READ_STREAM_REPLY" ELSE "READ_STREAM_FAILED",
             addr |-> handled])
  /\ UNCHANGED <<senderVars, receiverVars, toServer, data, clientVars, requests, handled, started,
                 closed>>

read_flow ==
  /\ \/ start_stream
     \/ have_raw_buffer_to_send
     \/ \E n \in 0..RawSize, o \in {"on", "again", "stop"} : try_read(n, o)
     \/ wait_for_close
  /\ UNCHANGED <<receiverVars, busVars, clientVars, handlerFlowVars, closed>>

sender_flow ==
  /\ wait_for_message \/ received_init_stream \/ stream_proceed_timeout
  /\ UNCHANGED <<receiverVars, busVars, clientVars, handlerFlowVars, closed>>

sender_initiates ==
  /\ send_init_stream
  /\ toClient' = Append(toClient, [type |-> "INITIATE_REQUEST", id |-> localStreamId,
                                   window |-> sndWindow])
  /\ UNCHANGED <<receiverVars, toServer, data, clientVars, handlerFlowVars, closed>>

sender_sends ==
  /\ LET n == compute_next_can_length
     IN got_frame(n) /\ data' = Append(data, SubSeq(message.bytes, 1, n))
  /\ UNCHANGED <<receiverVars, toServer, toClient, clientVars, handlerFlowVars, closed>>

sender_closes ==
  /\ send_close_stream
  /\ toClient' = Append(toClient, [type |-> "COMPLETE", id |-> localStreamId,
                                   total |-> sndTotal])
  /\ closed' = closed \cup {[id |-> localStreamId, addr |-> from, total |-> sndTotal]}
  /\ UNCHANGED <<receiverVars, toServer, data, clientVars, handlerFlowVars>>

\* Frames are on the bus for much less than the 20 seconds of the timer.
sender_timer ==
  /\ \/ timer_expires /\ toServer = <<>> /\ toClient = <<>> /\ data = <<>>
     \/ timer_run
  /\ UNCHANGED <<receiverVars, busVars, clientVars, handlerFlowVars, closed>>

-----------------------------------------------------------------------------
(* The receiver, and what arrives.                                         *)

\* The flow of the receiver runs; a request that ends notifies the barrier.
receiver_wakeup ==
  /\ wakeup
  /\ IF request' THEN UNCHANGED <<done, clientQueued>> ELSE DoneNotify(done)
  /\ UNCHANGED <<senderVars, busVars, client, address, dg, response, isWaitingForTimer,
                 clientTimer, outcome, reads, handlerFlowVars, closed>>

receiver_buffer ==
  /\ \/ /\ init_buffer_ready
        /\ toServer' = Append(toServer, [type |-> "INITIATE_REPLY", id |-> srcStreamId,
                                         flags |-> "ACCEPT", window |-> rcvWindow])
     \/ /\ have_raw_buffer
        /\ toServer' = Append(toServer, [type |-> "PROCEED", id |-> srcStreamId])
  /\ IF request' THEN UNCHANGED <<done, clientQueued>> ELSE DoneNotify(done)
  /\ UNCHANGED <<senderVars, toClient, data, client, address, dg, response, isWaitingForTimer,
                 clientTimer, outcome, reads, handlerFlowVars, closed>>

receiver_sink ==
  /\ sink_frees
  /\ UNCHANGED <<senderVars, busVars, clientVars, handlerFlowVars, closed>>

data_arrives ==
  /\ data # <<>>
  /\ data' = Tail(data)
  /\ IF dataHandler THEN handle_bytes_received(Head(data)) ELSE UNCHANGED receiverVars
  /\ UNCHANGED <<senderVars, toServer, toClient, clientVars, handlerFlowVars, closed>>

\* A message arrives at the client's node.
client_receives ==
  /\ toClient # <<>>
  /\ toClient' = Tail(toClient)
  /\ LET m == Head(toClient) IN
     \/ /\ m.type = "INITIATE_REQUEST"
        /\ data = <<>>
        /\ \/ accept_initiate(m.id, m.window) /\ UNCHANGED toServer
           \/ /\ refuse_initiate(m.id, m.window)
              /\ toServer' = Append(toServer, [type |-> "INITIATE_REPLY", id |-> m.id,
                                               flags |-> "PERMANENT_ERROR", window |-> 0])
           \/ ~initiateHandler /\ UNCHANGED <<receiverVars, toServer>>
        /\ UNCHANGED clientVars
     \/ /\ m.type = "COMPLETE"
        /\ \/ handle_stream_complete(m.id, m.total)
           \/ ~(completeHandler /\ m.id = srcStreamId) /\ UNCHANGED receiverVars
        /\ UNCHANGED <<clientVars, toServer>>
     \/ /\ m.type \in {"READ_STREAM_REPLY", "READ_STREAM_FAILED"}
        /\ response_arrives(m)
        /\ UNCHANGED toServer
     \/ /\ m.type \in {"DATAGRAM_OK", "DATAGRAM_REJECTED"}
        /\ dg' = IF dg # "pending" THEN dg
                 ELSE IF m.type = "DATAGRAM_OK" THEN "OPERATION_SUCCESS" ELSE "failed"
        /\ UNCHANGED <<receiverVars, toServer, client, address, response, isWaitingForTimer,
                       clientTimer, done, clientQueued, outcome, reads>>
  /\ UNCHANGED <<senderVars, data, handlerFlowVars, closed>>

\* A message arrives at the server's node.
server_receives ==
  /\ toServer # <<>>
  /\ toServer' = Tail(toServer)
  /\ LET m == Head(toServer) IN
     \/ /\ m.type = "READ_STREAM"
        /\ requests' = Append(requests, [addr |-> m.addr, size |-> m.size])
        /\ UNCHANGED senderVars
     \/ /\ m.type = "INITIATE_REPLY"
        /\ stream_initiate_replied(m.id, m.flags, m.window)
        /\ UNCHANGED requests
     \/ /\ m.type = "PROCEED"
        /\ stream_proceed_received(m.id)
        /\ UNCHANGED requests
  /\ UNCHANGED <<receiverVars, toClient, data, clientVars, handler, handled, started, closed>>

-----------------------------------------------------------------------------

ClientStep == send_stream_read_datagram \/ stream_read_dg_complete
              \/ stream_read_response_timeout \/ recv_stream_closed
ServerStep == handle_read_stream \/ reader_started \/ read_started
SenderStep == sender_flow \/ sender_initiates \/ sender_sends \/ sender_closes
ReceiverStep == receiver_wakeup \/ receiver_buffer

\* Everything but a new request of the user.
Progress ==
  \/ ClientStep
  \/ datagram_times_out
  \/ client_timer
  \/ ServerStep
  \/ read_flow
  \/ SenderStep
  \/ sender_timer
  \/ ReceiverStep
  \/ receiver_sink
  \/ data_arrives
  \/ client_receives
  \/ server_receives

Next == Running /\ (do_stream_read \/ Progress)

Spec == Init /\ [][Next]_vars

-----------------------------------------------------------------------------

\* The type of every variable.
TypeOK ==
  /\ SenderTypeOK
  /\ rcvFlow \in {"wait_for_message", "wakeup", "init_buffer_ready", "have_raw_buffer"}
  /\ lastFree \in 0..LastBuffers
  /\ rx.remaining \in Nat /\ rx.total \in Nat
  /\ rx.payload \in Seq(Bytes)
  /\ done \in 0..2

\* The bytes in a sequence of frames or chunks.
Total(lengths) == FoldSeq(LAMBDA n, sum : n + sum, 0, lengths)

InFlight == Total([i \in 1..Len(data) |-> Len(data[i])])

Proceeds == Len(SelectSeq(toServer, LAMBDA m : m.type = "PROCEED" /\ m.id = localStreamId))

\* Sender and receiver have the same stream open.
Connected ==
  /\ request /\ dataHandler
  /\ srcStreamId = localStreamId
  /\ state \in {"RUNNING", "FULL", "CLOSING"}

\* The window the receiver counts down is the window the sender has, the bytes
\* on their way and the windows granted by proceed messages on their way: the
\* sender never sends a byte the receiver has not made room for, and neither
\* side waits for credit that does not exist (advance(), handle_bytes_received(),
\* have_raw_buffer(), stream_proceed_received()).  After the close message only
\* the bytes on their way count.
Credit ==
  Running /\ Connected =>
    IF streamClosed THEN rx.remaining = InFlight
    ELSE rx.remaining = sndRemaining + InFlight + Proceeds * rcvWindow

\* A read that returns OK has given its user the bytes from the address it
\* asked for, in order, all of those the server sent in one stream that it
\* closed; whatever was cancelled, late or overtaken before.
ReadFaithful ==
  Running /\ client = "idle" /\ outcome = "OK" =>
    \E n \in 0..MaxSize :
      /\ rx.payload = [i \in 1..n |-> <<address, i>>]
      /\ [id |-> srcStreamId, addr |-> address, total |-> n] \in closed

\* Of one request the receiver and its sink hold at most two windows of data
\* (lastBufferPool_: "we are allowing ourselves to load 2x the stream window
\* size into our RAM"), and the last buffer of a window is there when the bytes
\* for it arrive.
RamBound ==
  /\ rcvAssertion # "append"
  /\ Len(rx.current.bytes)
       + Smaller(Total([i \in 1..Len(rx.sink) |-> Len(rx.sink[i].bytes)]), Len(rx.payload))
       <= LastBuffers * Window

\* A receiver without a request has no handler registered: a message that
\* arrived would make request() abort the program.
NoStaleHandlers ==
  Running /\ ~request => ~initiateHandler /\ ~completeHandler /\ ~dataHandler

\* No read waits for what cannot come: as long as a read flow has the sender, a
\* closed stream is still open at the receiver, or a failed read has not been
\* reported to its user, some flow can run, a timer is set, a message is on its
\* way or the sink holds a buffer.  A read has finitely many steps, so each of
\* these waits ends (wait_for_close(), wakeup(), cleanup_after_error()).
NoneStuck ==
  /\ Running
  /\ \/ reader # "none"
     \/ Connected /\ state = "CLOSING"
     \/ client = "cleanup_after_error"
  => ENABLED Progress

\* A sender that was cleared after an error can be used for the next stream:
\* "Sets the stream sender to be available for reuse after a stream has been
\* closed or reached error." (StreamSender.hxx:165).
Reusable == sndAssertion # "start_stream"
=============================================================================
