---------------------------- MODULE StreamSender ----------------------------
(***************************************************************************)
(* The sending side of a stream: the flow that reads a memory space into   *)
(* a stream (openlcb/MemoryConfigStream.hxx), the stream IDs               *)
(* (openlcb/StreamTransport.hxx) and the stream sender it uses             *)
(* (openlcb/StreamSender.hxx).                                             *)
(*                                                                         *)
(* There is one stream sender in the allocator; read flows wait for it in  *)
(* turn.  A byte is <<a, k>>: the k-th byte read from address a.  Each     *)
(* operator below is a step of the executor of the interface up to the     *)
(* next wait; module StreamRead joins them with the bus.                   *)
(***************************************************************************)
EXTENDS Naturals, Sequences, FiniteSets

CONSTANTS Addrs,        \* addresses streams are read from
          MaxSize,      \* bound: bytes asked for
          RawSize,      \* RawData::MAX_SIZE
          SendBuffers,  \* raw buffers of sendBufferPool_
          FrameBytes,   \* MAX_BYTES_PAYLOAD_PER_CAN_FRAME
          MaxPayload,   \* StreamDefs::MAX_PAYLOAD, the window proposed
          MaxStreamId,  \* MAX_SEND_STREAM_ID
          EarlierReads  \* how many reads the server may have served before

ASSUME SenderAssumption ==
  /\ MaxSize \in Nat
  /\ RawSize \in Nat \ {0}
  /\ SendBuffers \in Nat \ {0}
  /\ FrameBytes \in Nat \ {0}
  /\ MaxPayload \in Nat \ {0}
  /\ MaxStreamId \in 1..254
  /\ EarlierReads \subseteq 0..MaxStreamId

VARIABLES inUseSendStreamIds, nextSendStreamId, \* of the StreamTransport
          readers,      \* the read flows that wait for the sender
          reader,       \* state of the read flow that has the sender
          from,         \* the address it reads from
          ofs,          \* ofs_: bytes it has read
          len,          \* len_: bytes it still has to read
          sendBuffer,   \* the bytes in sendBuffer_
          rawFree,      \* free buffers of sendBufferPool_
          state,        \* state_ of the sender
          flow,         \* the state its flow is in
          message,      \* the message the flow works on
          queue,        \* the messages sent to the flow
          requestInit, requestClose, sleeping,
          timer,        \* timer_: off, active, expired (queued), or ran
          streamFlags,  \* the answer to the initiate request
          sndWindow,    \* streamWindowSize_
          sndRemaining, \* streamWindowRemaining_
          sndTotal,     \* totalByteCount_
          localStreamId,
          proceedHandlers, \* registrations of streamProceedHandler_
          sndAssertion  \* the assertion that has failed and ended the program

readVars == <<inUseSendStreamIds, nextSendStreamId, readers, reader, from, ofs, len, sendBuffer>>
flowVars == <<rawFree, flow, message, requestClose, proceedHandlers>>
streamVars == <<requestInit, streamFlags, sndWindow, sndTotal, localStreamId>>
waitVars == <<state, sleeping, timer>>
senderVars == <<readVars, flowVars, streamVars, waitVars, queue, sndRemaining, sndAssertion>>

INVALID_STREAM_ID == 255

AnyAddr == CHOOSE a \in Addrs : TRUE

Bytes == Addrs \X (1..MaxSize)

\* A message to the sender: the bytes of a raw buffer, or no buffer at all.
Trigger == [raw |-> FALSE, bytes |-> <<>>]
Chunk(b) == [raw |-> TRUE, bytes |-> b]

SenderTypeOK ==
  /\ inUseSendStreamIds \subseteq 0..MaxStreamId
  /\ nextSendStreamId \in 0..MaxStreamId
  /\ readers \in Seq([addr : Addrs, size : 0..MaxSize])
  /\ reader \in {"none", "wait_for_started", "alloc_buffer", "try_read", "wait_for_close"}
  /\ from \in Addrs
  /\ ofs \in 0..MaxSize
  /\ len \in 0..MaxSize
  /\ sendBuffer \in Seq(Bytes)
  /\ rawFree \in 0..SendBuffers
  /\ state \in {"IDLE", "STARTED", "INITIATING", "RUNNING", "FULL", "CLOSING", "STATE_ERROR"}
  /\ flow \in {"wait_for_message", "send_init_stream", "received_init_stream", "got_frame",
               "stream_proceed_timeout", "send_close_stream"}
  /\ message.bytes \in Seq(Bytes)
  /\ \A i \in 1..Len(queue) : queue[i].bytes \in Seq(Bytes)
  /\ requestInit \in BOOLEAN /\ requestClose \in BOOLEAN /\ sleeping \in BOOLEAN
  /\ timer \in {"off", "active", "expired", "ran"}
  /\ streamFlags \in {"none", "ACCEPT", "PERMANENT_ERROR"}
  /\ sndWindow \in Nat /\ sndRemaining \in Nat /\ sndTotal \in Nat
  /\ localStreamId \in 0..MaxStreamId \cup {INVALID_STREAM_ID}
  /\ proceedHandlers \in Nat
  /\ sndAssertion \in {"none", "start_stream", "trigger", "entry"}

\* Earlier reads have taken the first stream IDs.
SenderInit ==
  /\ nextSendStreamId \in EarlierReads
  /\ inUseSendStreamIds = 0..nextSendStreamId - 1
  /\ readers = <<>>
  /\ reader = "none"
  /\ from = AnyAddr
  /\ ofs = 0
  /\ len = 0
  /\ sendBuffer = <<>>
  /\ rawFree = SendBuffers
  /\ state = "IDLE"
  /\ flow = "wait_for_message"
  /\ message = Trigger
  /\ queue = <<>>
  /\ requestInit = FALSE /\ requestClose = FALSE /\ sleeping = FALSE
  /\ timer = "off"
  /\ streamFlags = "none"
  /\ sndWindow = MaxPayload /\ sndRemaining = 0 /\ sndTotal = 0
  /\ localStreamId = INVALID_STREAM_ID
  /\ proceedHandlers = 0
  /\ sndAssertion = "none"

Smaller(a, b) == IF a < b THEN a ELSE b

-----------------------------------------------------------------------------
(* The sender's flow.                                                      *)

\* The message is released; its raw buffer goes back to the pool.
release_and_exit(m) ==
  /\ flow' = "wait_for_message"
  /\ message' = Trigger
  /\ rawFree' = IF m.raw THEN rawFree + 1 ELSE rawFree

\* The flow looks at message m, in state st, with win bytes of window left and
\* hs registrations of the proceed handler.
entry(m, st, win, hs) ==
  LET full    == st = "RUNNING" /\ win = 0
      empty   == st = "RUNNING" /\ win # 0 /\ m.bytes = <<>>
      closing == empty /\ requestClose /\ queue' = <<>>
  IN /\ sndRemaining' = win
     /\ sndAssertion' = IF st \in {"RUNNING", "CLOSING", "STATE_ERROR"} THEN "none" ELSE "entry"
     /\ IF st # "RUNNING" \/ (empty /\ ~closing)
        THEN release_and_exit(m)
        ELSE /\ flow' = IF full THEN "stream_proceed_timeout"
                        ELSE IF closing THEN "send_close_stream" ELSE "got_frame"
             /\ message' = m
             /\ rawFree' = rawFree
     /\ IF full
        THEN state' = "FULL" /\ sleeping' = TRUE /\ timer' = "active"
        ELSE state' = st /\ sleeping' = sleeping /\ timer' = "off"
     /\ requestClose' = (requestClose /\ ~closing)
     /\ proceedHandlers' = IF closing THEN hs - 1 ELSE hs

\* The flow takes the next message.
wait_for_message ==
  /\ flow = "wait_for_message"
  /\ queue # <<>>
  /\ queue' = Tail(queue)
  /\ requestInit' = FALSE
  /\ IF requestInit
     THEN /\ flow' = "send_init_stream"
          /\ message' = Head(queue)
          /\ UNCHANGED <<rawFree, requestClose, proceedHandlers, waitVars, sndRemaining,
                         sndAssertion>>
     ELSE entry(Head(queue), state, sndRemaining, proceedHandlers)
  /\ UNCHANGED <<readVars, streamFlags, sndWindow, sndTotal, localStreamId>>

\* The initiate request goes out, with the window proposed.
send_init_stream ==
  /\ flow = "send_init_stream"
  /\ flow' = "received_init_stream"
  /\ state' = "INITIATING"
  /\ sleeping' = TRUE
  /\ timer' = "active"
  /\ UNCHANGED <<readVars, rawFree, message, requestClose, proceedHandlers, streamVars, queue,
                 sndRemaining, sndAssertion>>

\* timer_.trigger().
trigger_timer ==
  IF timer \in {"active", "expired"}
  THEN timer' = "expired" /\ sndAssertion' = sndAssertion
  ELSE timer' = timer /\ sndAssertion' = "trigger"

\* The reply to the initiate request of stream id arrives.
stream_initiate_replied(id, flags, window) ==
  IF flow = "received_init_stream" /\ id = localStreamId
  THEN /\ streamFlags' = flags
       /\ sndWindow' = window
       /\ sleeping' = FALSE
       /\ trigger_timer
       /\ UNCHANGED <<readVars, flowVars, requestInit, sndTotal, localStreamId, state, queue,
                      sndRemaining>>
  ELSE UNCHANGED senderVars

timer_expires ==
  /\ timer = "active"
  /\ timer' = "expired"
  /\ UNCHANGED <<readVars, flowVars, streamVars, state, sleeping, queue, sndRemaining, sndAssertion>>

\* Timer::run(): the flow is notified.
timer_run ==
  /\ timer = "expired"
  /\ timer' = "ran"
  /\ UNCHANGED <<readVars, flowVars, streamVars, state, sleeping, queue, sndRemaining, sndAssertion>>

return_error ==
  /\ state' = "STATE_ERROR"
  /\ timer' = "off"
  /\ release_and_exit(message)
  /\ UNCHANGED <<requestClose, proceedHandlers, sleeping, sndRemaining, sndAssertion>>

\* The reply has arrived, or the time for it is over.
received_init_stream ==
  /\ flow = "received_init_stream"
  /\ timer = "ran"
  /\ UNCHANGED queue
  /\ IF streamFlags # "ACCEPT" \/ sndWindow = 0
     THEN return_error
     ELSE entry(message, "RUNNING", sndWindow, proceedHandlers + 1)
  /\ UNCHANGED <<readVars, streamVars>>

\* How many bytes fit into the next frame.
compute_next_can_length ==
  Smaller(Smaller(Len(message.bytes), FrameBytes), sndRemaining)

\* A frame of n bytes goes out.
got_frame(n) ==
  /\ flow = "got_frame"
  /\ sndTotal' = sndTotal + n
  /\ UNCHANGED queue
  /\ entry([message EXCEPT !.bytes = SubSeq(@, n + 1, Len(@))], state, sndRemaining - n,
           proceedHandlers)
  /\ UNCHANGED <<readVars, requestInit, streamFlags, sndWindow, localStreamId>>

\* A proceed message for stream id arrives.
stream_proceed_received(id) ==
  IF proceedHandlers # 0 /\ id = localStreamId
  THEN /\ sndRemaining' = (sndRemaining + proceedHandlers * sndWindow) % 65536
       /\ sleeping' = FALSE
       /\ IF sleeping THEN trigger_timer ELSE UNCHANGED <<timer, sndAssertion>>
       /\ UNCHANGED <<readVars, flowVars, streamVars, state, queue>>
  ELSE UNCHANGED senderVars

stream_proceed_timeout ==
  /\ flow = "stream_proceed_timeout"
  /\ timer = "ran"
  /\ UNCHANGED queue
  /\ IF sndRemaining = 0
     THEN return_error
     ELSE entry(message, "RUNNING", sndRemaining, proceedHandlers)
  /\ UNCHANGED <<readVars, streamVars>>

\* The close message goes out, with the number of bytes sent.
send_close_stream ==
  /\ flow = "send_close_stream"
  /\ UNCHANGED queue
  /\ entry(message, "CLOSING", sndRemaining, proceedHandlers)
  /\ UNCHANGED <<readVars, streamVars>>

-----------------------------------------------------------------------------
(* The read flow.                                                          *)

\* Probe i of get_send_stream_id().
Probe(i) == (nextSendStreamId + i) % (MaxStreamId + 1)

\* The probes that find an ID that is not in use.
Hits == {i \in 0..MaxStreamId - 1 : Probe(i) \notin inUseSendStreamIds}

get_send_stream_id ==
  IF Hits = {}
  THEN /\ localStreamId' = INVALID_STREAM_ID
       /\ nextSendStreamId' = Probe(MaxStreamId)
       /\ UNCHANGED inUseSendStreamIds
  ELSE LET i == CHOOSE i \in Hits : \A j \in Hits : i <= j
       IN /\ localStreamId' = Probe(i)
          /\ nextSendStreamId' = Probe(i + 1)
          /\ inUseSendStreamIds' = inUseSendStreamIds \cup {Probe(i)}

\* The next read flow gets the sender and starts a stream.
start_stream ==
  /\ reader = "none"
  /\ readers # <<>>
  /\ readers' = Tail(readers)
  /\ from' = Head(readers).addr
  /\ ofs' = 0
  /\ len' = Head(readers).size
  /\ reader' = "wait_for_started"
  /\ get_send_stream_id
  /\ state' = "STARTED"
  /\ sndTotal' = 0
  /\ sndAssertion' = IF sleeping \/ requestClose THEN "start_stream" ELSE sndAssertion
  /\ requestInit' = TRUE
  /\ queue' = Append(queue, Trigger)
  /\ streamFlags' = "none"
  /\ sndWindow' = MaxPayload
  /\ sndRemaining' = 0
  /\ rawFree' = SendBuffers
  /\ UNCHANGED <<sendBuffer, flow, message, requestClose, proceedHandlers, sleeping, timer>>

\* The read flow is done: clear() and the sender goes back to the allocator.
done_stream ==
  /\ state' = "IDLE"
  /\ reader' = "none"
  /\ UNCHANGED <<inUseSendStreamIds, nextSendStreamId, readers, from, ofs, len, sendBuffer, flowVars,
                 streamVars, sleeping, timer, queue, sndRemaining, sndAssertion>>

\* The read flow sees that the stream has started.
stream_started ==
  /\ reader = "wait_for_started"
  /\ state = "RUNNING"
  /\ reader' = "alloc_buffer"
  /\ UNCHANGED <<inUseSendStreamIds, nextSendStreamId, readers, from, ofs, len, sendBuffer, flowVars,
                 streamVars, waitVars, queue, sndRemaining, sndAssertion>>

\* The read flow sees that the stream could not be started.
stream_failed ==
  /\ reader = "wait_for_started"
  /\ state = "STATE_ERROR"
  /\ done_stream

have_raw_buffer_to_send ==
  /\ reader = "alloc_buffer"
  /\ rawFree > 0
  /\ rawFree' = rawFree - 1
  /\ sendBuffer' = <<>>
  /\ reader' = "try_read"
  /\ UNCHANGED <<inUseSendStreamIds, nextSendStreamId, readers, from, ofs, len, flow, message,
                 requestClose, proceedHandlers, streamVars, waitVars, queue, sndRemaining,
                 sndAssertion>>

\* The next n bytes of the memory space.
NextBytes(n) == [i \in 1..n |-> <<from, ofs + i>>]

\* n more bytes are read, until the buffer is full, all is read, the space
\* asks to be called again, or it reports its end or an error.
try_read(n, outcome) ==
  LET buffer == sendBuffer \o NextBytes(n)
      last   == n = len \/ outcome = "stop"
      full   == Len(buffer) = RawSize
  IN /\ reader = "try_read"
     /\ n <= len /\ Len(buffer) <= RawSize
     /\ outcome = "on" => last \/ full
     /\ outcome = "again" => n # 0 /\ ~last /\ ~full
     /\ ofs' = ofs + n
     /\ len' = len - n
     /\ IF outcome = "again"
        THEN sendBuffer' = buffer /\ UNCHANGED <<reader, queue, requestClose>>
        ELSE /\ sendBuffer' = <<>>
             /\ queue' = IF last THEN queue \o <<Chunk(buffer), Trigger>>
                                 ELSE Append(queue, Chunk(buffer))
             /\ requestClose' = (requestClose \/ last)
             /\ reader' = IF last THEN "wait_for_close" ELSE "alloc_buffer"
     /\ UNCHANGED <<inUseSendStreamIds, nextSendStreamId, readers, from, rawFree, flow, message,
                    proceedHandlers, streamVars, waitVars, sndRemaining, sndAssertion>>

\* Mutant: only a stream that was closed ends the read flow.
wait_for_close_closed ==
  /\ reader = "wait_for_close"
  /\ state = "CLOSING"
  /\ flow = "wait_for_message" /\ queue = <<>>
  /\ done_stream

\* The read flow sees that the stream has ended, by its close message or by an
\* error.
wait_for_close ==
  /\ reader = "wait_for_close"
  /\ state \in {"CLOSING", "STATE_ERROR"}
  /\ flow = "wait_for_message" /\ queue = <<>>
  /\ done_stream
=============================================================================
