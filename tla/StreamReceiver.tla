--------------------------- MODULE StreamReceiver ---------------------------
(***************************************************************************)
(* The receiving side of a stream (openlcb/StreamReceiver.cxx): a flow     *)
(* that is woken by the handlers of the initiate request, the data frames  *)
(* and the close message, and the raw buffers it gives to the sink.        *)
(*                                                                         *)
(* Bytes are collected in currentBuffer_.  The last raw buffer of every    *)
(* window comes from a pool of two, which stops the sender when the sink   *)
(* does not keep up.  The handlers run between the steps of the flow, on   *)
(* the same executor.                                                      *)
(***************************************************************************)
EXTENDS Integers, Sequences

CONSTANTS Window,       \* config_stream_receiver_default_window_size()
          MaxBytes,     \* RawData::MAX_SIZE
          LastBuffers,  \* raw buffers of lastBufferPool_
          NoStream      \* StreamDefs::INVALID_STREAM_ID

ASSUME ReceiverAssumption ==
  /\ Window \in 1..65535
  /\ MaxBytes \in Nat \ {0}
  /\ LastBuffers \in Nat \ {0}

VARIABLES request,      \* the flow has a request
          rcvFlow,      \* the state the flow is in
          rcvQueued,    \* the flow has been notified
          streamClosed, pendingInit, pendingCancel, isWaiting,
          initiateHandler, completeHandler, dataHandler, \* what is registered
          srcStreamId,  \* the stream ID of the sender
          rcvWindow,    \* streamWindowSize_ of the request
          rx,           \* the data received, see NoData
          lastFree,     \* free buffers of lastBufferPool_
          result,       \* resultCode of the request
          rcvAssertion  \* the assertion that has failed and ended the program

handlerVars == <<initiateHandler, completeHandler, dataHandler>>
receiverVars == <<request, rcvFlow, rcvQueued, streamClosed, pendingInit, pendingCancel,
                  isWaiting, handlerVars, srcStreamId, rcvWindow, rx, lastFree, result,
                  rcvAssertion>>

\* currentBuffer_ when it is null.
NoBuffer == [last |-> FALSE, bytes |-> <<>>]

\* The buffers: currentBuffer_ and whether there is one, lastBuffer_, the
\* window left, the bytes counted, the chunks at the sink, and all the bytes
\* the sink was given in this request.
NoData == [open |-> FALSE, current |-> NoBuffer, lastBuffer |-> FALSE, remaining |-> 0,
           total |-> 0, sink |-> <<>>, payload |-> <<>>, failed |-> FALSE]

ReceiverInit ==
  /\ request = FALSE
  /\ rcvFlow = "wait_for_message"
  /\ rcvQueued = FALSE
  /\ streamClosed = FALSE /\ pendingInit = FALSE /\ pendingCancel = FALSE /\ isWaiting = FALSE
  /\ initiateHandler = FALSE /\ completeHandler = FALSE /\ dataHandler = FALSE
  /\ srcStreamId = NoStream
  /\ rcvWindow = Window
  /\ rx = NoData
  /\ lastFree = LastBuffers
  /\ result = "none"
  /\ rcvAssertion = "none"

-----------------------------------------------------------------------------

\* notify(): the flow goes to the executor's queue, where it must not be yet;
\* nor may it be waiting for a buffer.
notify ==
  IF rcvFlow = "wakeup" /\ ~rcvQueued
  THEN rcvQueued' = TRUE /\ rcvAssertion' = rcvAssertion
  ELSE rcvQueued' = rcvQueued /\ rcvAssertion' = "notify"

\* The request of a user arrives and is announced.
announced_stream ==
  /\ ~request
  /\ request' = TRUE
  /\ streamClosed' = FALSE /\ pendingInit' = FALSE /\ pendingCancel' = FALSE
  /\ isWaiting' = TRUE
  /\ rcvFlow' = "wakeup"
  /\ initiateHandler' = TRUE
  /\ srcStreamId' = NoStream
  /\ rcvWindow' = Window
  /\ rx' = [rx EXCEPT !.remaining = 0, !.payload = <<>>]
  /\ result' = "none"
  /\ UNCHANGED <<rcvQueued, completeHandler, dataHandler, lastFree, rcvAssertion>>

\* An initiate request with an ID and a window that can be used.
accept_initiate(id, window) ==
  /\ initiateHandler
  /\ id # NoStream /\ window # 0
  /\ srcStreamId' = id
  /\ rcvWindow' = IF window < rcvWindow THEN window ELSE rcvWindow
  /\ rx' = [rx EXCEPT !.remaining = rcvWindow', !.total = 0]
  /\ completeHandler' = TRUE
  /\ initiateHandler' = FALSE
  /\ pendingInit' = TRUE
  /\ notify
  /\ UNCHANGED <<request, rcvFlow, streamClosed, pendingCancel, isWaiting, dataHandler, lastFree,
                 result>>

\* An initiate request that is refused at once.
refuse_initiate(id, window) ==
  /\ initiateHandler
  /\ id = NoStream \/ window = 0
  /\ initiateHandler' = FALSE
  /\ srcStreamId' = id
  /\ UNCHANGED <<request, rcvFlow, rcvQueued, streamClosed, pendingInit, pendingCancel, isWaiting,
                 completeHandler, dataHandler, rcvWindow, rx, lastFree, result, rcvAssertion>>

\* Sends currentBuffer_ to the sink.
SendOff(r) ==
  [r EXCEPT !.open = FALSE, !.current = NoBuffer, !.sink = Append(@, r.current),
            !.payload = @ \o r.current.bytes]

\* currentBuffer_ is there: a new one takes the last buffer of the window, or
\* any other buffer when the window has more bytes left than fit into one.
Opened(r) ==
  IF r.open THEN r
  ELSE IF r.remaining <= MaxBytes
  THEN [r EXCEPT !.open = TRUE, !.current = [last |-> TRUE, bytes |-> <<>>],
                 !.lastBuffer = FALSE, !.failed = ~r.lastBuffer]
  ELSE [r EXCEPT !.open = TRUE, !.current = [last |-> FALSE, bytes |-> <<>>]]

\* One turn of the loop over the bytes b of a frame; n of them are copied.
Copied(r, b, n) ==
  LET o == Opened(r)
      c == [o EXCEPT !.current.bytes = @ \o SubSeq(b, 1, n),
                     !.total = @ + n,
                     !.remaining = IF n <= @ THEN @ - n ELSE 0]
  IN IF Len(c.current.bytes) = MaxBytes \/ c.remaining = 0 THEN SendOff(c) ELSE c

\* How many of the bytes b fit into currentBuffer_.
Fits(r, b) ==
  LET space == MaxBytes - Len(Opened(r).current.bytes)
  IN IF Len(b) < space THEN Len(b) ELSE space

\* The whole loop: a frame is never longer than a raw buffer, so it goes into
\* two buffers at most.
AfterBytes(r, b) ==
  LET n  == Fits(r, b)
      r1 == Copied(r, b, n)
      b1 == SubSeq(b, n + 1, Len(b))
  IN IF b1 = <<>> THEN r1 ELSE Copied(r1, b1, Len(b1))

handle_bytes_received(b) ==
  /\ dataHandler
  /\ rx' = AfterBytes(rx, b)
  /\ IF rx'.failed THEN rcvAssertion' = "append" /\ UNCHANGED rcvQueued
     ELSE IF rx'.remaining = 0 THEN notify
     ELSE UNCHANGED <<rcvQueued, rcvAssertion>>
  /\ UNCHANGED <<request, rcvFlow, streamClosed, pendingInit, pendingCancel, isWaiting,
                 handlerVars, srcStreamId, rcvWindow, lastFree, result>>

\* Mutant: the bytes that have arrived are not subtracted from the total.
handle_stream_complete_total(id, total) ==
  /\ completeHandler
  /\ id = srcStreamId
  /\ streamClosed' = TRUE
  /\ rx' = [rx EXCEPT !.remaining = total % 65536]
  /\ IF rx'.remaining = 0 THEN notify ELSE UNCHANGED <<rcvQueued, rcvAssertion>>
  /\ completeHandler' = FALSE
  /\ UNCHANGED <<request, rcvFlow, pendingInit, pendingCancel, isWaiting, initiateHandler,
                 dataHandler, srcStreamId, rcvWindow, lastFree, result>>

\* The close message of stream id arrives; total bytes were sent.
handle_stream_complete(id, total) ==
  /\ completeHandler
  /\ id = srcStreamId
  /\ streamClosed' = TRUE
  /\ rx' = [rx EXCEPT !.remaining = (total - rx.total) % 65536]
  /\ IF rx'.remaining = 0 THEN notify ELSE UNCHANGED <<rcvQueued, rcvAssertion>>
  /\ completeHandler' = FALSE
  /\ UNCHANGED <<request, rcvFlow, pendingInit, pendingCancel, isWaiting, initiateHandler,
                 dataHandler, srcStreamId, rcvWindow, lastFree, result>>

cancel_request ==
  /\ pendingCancel' = TRUE
  /\ isWaiting' = FALSE
  /\ IF isWaiting THEN notify ELSE UNCHANGED <<rcvQueued, rcvAssertion>>
  /\ UNCHANGED <<request, rcvFlow, streamClosed, pendingInit, handlerVars, srcStreamId, rcvWindow,
                 rx, lastFree, result>>

-----------------------------------------------------------------------------
(* The flow.                                                               *)

\* Mutant: what is left in currentBuffer_ is not sent to the sink.
return_with_dropped(code, r) ==
  /\ rx' = [r EXCEPT !.open = FALSE, !.current = NoBuffer]
  /\ request' = FALSE
  /\ result' = code
  /\ rcvFlow' = "wait_for_message"

\* The request goes back to the user, with what is left in currentBuffer_.
return_with(code, r) ==
  /\ rx' = IF r.open THEN SendOff(r) ELSE r
  /\ request' = FALSE
  /\ result' = code
  /\ rcvFlow' = "wait_for_message"

\* wakeup() after cancel_request().
wakeup_cancel(r) ==
  /\ initiateHandler' = FALSE /\ completeHandler' = FALSE /\ dataHandler' = FALSE
  /\ isWaiting' = FALSE
  /\ return_with("ERROR_CANCELED", r)

\* wakeup() after the initiate request.
wakeup_init ==
  /\ pendingInit' = FALSE
  /\ rcvFlow' = "init_buffer_ready"
  /\ UNCHANGED <<request, streamClosed, dataHandler, rx, result>>

\* Mutant: the data handler stays registered.
wakeup_closed_registered ==
  /\ streamClosed' = FALSE
  /\ return_with("OK", rx)
  /\ UNCHANGED <<pendingInit, dataHandler>>

\* wakeup() when the stream has been closed and all bytes are there.
wakeup_closed ==
  /\ streamClosed' = FALSE
  /\ dataHandler' = FALSE
  /\ return_with("OK", rx)
  /\ UNCHANGED pendingInit

\* wakeup() at the end of a window; otherwise there is nothing to do.
wakeup_window ==
  /\ rcvFlow' = IF rx.remaining = 0 THEN "have_raw_buffer" ELSE "wakeup"
  /\ UNCHANGED <<request, streamClosed, pendingInit, dataHandler, rx, result>>

wakeup ==
  /\ rcvFlow = "wakeup"
  /\ rcvQueued
  /\ rcvQueued' = FALSE
  /\ \/ /\ pendingCancel
        /\ wakeup_cancel(rx)
        /\ UNCHANGED <<streamClosed, pendingInit>>
     \/ /\ ~pendingCancel
        /\ isWaiting' = FALSE
        /\ CASE pendingInit -> wakeup_init
             [] ~pendingInit /\ rx.remaining = 0 /\ streamClosed -> wakeup_closed
             [] OTHER -> wakeup_window
        /\ UNCHANGED <<initiateHandler, completeHandler>>
  /\ UNCHANGED <<pendingCancel, srcStreamId, rcvWindow, lastFree, rcvAssertion>>

\* Mutant: the buffer comes from the pool of all other buffers.
take_last_buffer_unlimited ==
  lastFree' = IF rx.lastBuffer \/ lastFree = 0 THEN lastFree ELSE lastFree - 1

\* A buffer from lastBufferPool_ replaces lastBuffer_.
take_last_buffer ==
  /\ lastFree > 0
  /\ lastFree' = IF rx.lastBuffer THEN lastFree ELSE lastFree - 1

\* wait_for_wakeup() with the buffers r; a cancel request that came in the
\* meantime is seen at once.
wait_for_wakeup(r) ==
  IF pendingCancel
  THEN wakeup_cancel(r)
  ELSE /\ rcvFlow' = "wakeup"
       /\ isWaiting' = TRUE
       /\ rx' = r
       /\ dataHandler' = TRUE
       /\ UNCHANGED <<request, result, initiateHandler, completeHandler>>

\* The first last buffer is there; the reply to the initiate request goes out.
init_buffer_ready ==
  /\ rcvFlow = "init_buffer_ready"
  /\ take_last_buffer
  /\ wait_for_wakeup([rx EXCEPT !.lastBuffer = TRUE])
  /\ UNCHANGED <<rcvQueued, streamClosed, pendingInit, pendingCancel, srcStreamId, rcvWindow,
                 rcvAssertion>>

\* The last buffer of the next window is there; the proceed message goes out.
have_raw_buffer ==
  /\ rcvFlow = "have_raw_buffer"
  /\ take_last_buffer
  /\ wait_for_wakeup([rx EXCEPT !.lastBuffer = TRUE, !.remaining = rcvWindow])
  /\ UNCHANGED <<rcvQueued, streamClosed, pendingInit, pendingCancel, srcStreamId, rcvWindow,
                 rcvAssertion>>

\* The sink is done with a chunk.
sink_frees ==
  /\ rx.sink # <<>>
  /\ rx' = [rx EXCEPT !.sink = Tail(@)]
  /\ lastFree' = IF Head(rx.sink).last THEN lastFree + 1 ELSE lastFree
  /\ UNCHANGED <<request, rcvFlow, rcvQueued, streamClosed, pendingInit, pendingCancel, isWaiting,
                 handlerVars, srcStreamId, rcvWindow, result, rcvAssertion>>
=============================================================================
