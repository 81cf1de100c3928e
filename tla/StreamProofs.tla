---------------------------- MODULE StreamProofs ----------------------------
(***************************************************************************)
(* What holds of reads through streams whatever the constants are: a       *)
(* receiver without a request has no handler registered.                   *)
(***************************************************************************)
EXTENDS StreamRead, TLAPS

\* The flow of the receiver and its handlers: the flow has a request unless it
\* waits for one, it is queued only in wakeup(), and the handlers follow one
\* another - the initiate request first, then the close message.  While the
\* initiate request is awaited only cancel_request() wakes the flow.
HandlerInv ==
  /\ request \in BOOLEAN /\ rcvQueued \in BOOLEAN
  /\ streamClosed \in BOOLEAN /\ pendingInit \in BOOLEAN /\ pendingCancel \in BOOLEAN
  /\ initiateHandler \in BOOLEAN /\ completeHandler \in BOOLEAN /\ dataHandler \in BOOLEAN
  /\ request <=> rcvFlow # "wait_for_message"
  /\ rcvQueued => rcvFlow = "wakeup"
  /\ ~request => ~initiateHandler /\ ~completeHandler /\ ~dataHandler
  /\ initiateHandler => /\ ~completeHandler /\ ~dataHandler /\ ~streamClosed /\ ~pendingInit
                        /\ rcvFlow = "wakeup"
                        /\ rcvQueued => pendingCancel
  /\ streamClosed => ~completeHandler

\* What HandlerInv is about.
handlerState == <<request, rcvFlow, rcvQueued, streamClosed, pendingInit, pendingCancel,
                  initiateHandler, completeHandler, dataHandler>>

\* A step that leaves these variables alone preserves HandlerInv.
LEMMA HandlerStutter == HandlerInv /\ UNCHANGED handlerState => HandlerInv'
  BY DEF HandlerInv, handlerState

LEMMA ReceiverStutter == HandlerInv /\ UNCHANGED receiverVars => HandlerInv'
  BY HandlerStutter, Zenon DEF handlerState, receiverVars, handlerVars

\* A new request registers the handler of the initiate request.
LEMMA AnnouncedHandlers == HandlerInv /\ announced_stream => HandlerInv'
<1> SUFFICES ASSUME HandlerInv, announced_stream PROVE HandlerInv'
  BY Zenon
<1>1. /\ ~request /\ request' = TRUE /\ rcvFlow' = "wakeup"
      /\ streamClosed' = FALSE /\ pendingInit' = FALSE /\ pendingCancel' = FALSE
      /\ initiateHandler' = TRUE
      /\ UNCHANGED <<rcvQueued, completeHandler, dataHandler>>
  BY Zenon DEF announced_stream
<1>2. QED
  BY <1>1, Zenon DEF HandlerInv

\* The initiate request is accepted: its handler gives way to the next one.
LEMMA AcceptHandlers ==
  ASSUME NEW id, NEW window, HandlerInv, accept_initiate(id, window)
  PROVE  HandlerInv'
  BY Zenon DEF HandlerInv, accept_initiate, notify

LEMMA RefuseHandlers ==
  ASSUME NEW id, NEW window, HandlerInv, refuse_initiate(id, window)
  PROVE  HandlerInv'
  BY Zenon DEF HandlerInv, refuse_initiate

\* Data wakes the flow at the end of a window.
LEMMA BytesHandlers ==
  ASSUME NEW b, HandlerInv, handle_bytes_received(b)
  PROVE  HandlerInv'
  BY Zenon DEF HandlerInv, handle_bytes_received, notify, handlerVars

LEMMA CompleteHandlers ==
  ASSUME NEW id, NEW total, HandlerInv, handle_stream_complete(id, total)
  PROVE  HandlerInv'
<1>1. /\ completeHandler /\ streamClosed' = TRUE /\ completeHandler' = FALSE
      /\ UNCHANGED <<request, rcvFlow, pendingInit, pendingCancel, initiateHandler, dataHandler>>
  BY DEF handle_stream_complete
<1>2. rcvQueued' = rcvQueued \/ (rcvFlow = "wakeup" /\ rcvQueued' = TRUE)
  BY DEF handle_stream_complete, notify
<1>3. CASE rcvQueued' = rcvQueued
  BY <1>1, <1>3, Zenon DEF HandlerInv
<1>4. CASE rcvFlow = "wakeup" /\ rcvQueued' = TRUE
  BY <1>1, <1>4, Zenon DEF HandlerInv
<1>5. QED
  BY <1>2, <1>3, <1>4

LEMMA CancelHandlers == HandlerInv /\ cancel_request => HandlerInv'
<1> SUFFICES ASSUME HandlerInv, cancel_request PROVE HandlerInv'
  OBVIOUS
<1>1. /\ pendingCancel' = TRUE
      /\ UNCHANGED <<request, rcvFlow, streamClosed, pendingInit, initiateHandler,
                     completeHandler, dataHandler>>
  BY Zenon DEF cancel_request, handlerVars
<1>2. rcvQueued' = rcvQueued \/ (rcvFlow = "wakeup" /\ rcvQueued' = TRUE)
  BY Zenon DEF cancel_request, notify
<1>3. CASE rcvQueued' = rcvQueued
  BY <1>1, <1>3, Zenon DEF HandlerInv
<1>4. CASE rcvFlow = "wakeup" /\ rcvQueued' = TRUE
  BY <1>1, <1>4, Zenon DEF HandlerInv
<1>5. QED
  BY <1>2, <1>3, <1>4, Zenon

\* The flow of the receiver runs.
LEMMA WakeupHandlers == HandlerInv /\ wakeup => HandlerInv'
<1> SUFFICES ASSUME HandlerInv, wakeup PROVE HandlerInv'
  OBVIOUS
<1>1. CASE pendingCancel
  <2>1. /\ initiateHandler' = FALSE /\ completeHandler' = FALSE /\ dataHandler' = FALSE
        /\ request' = FALSE /\ rcvFlow' = "wait_for_message" /\ rcvQueued' = FALSE
        /\ UNCHANGED <<streamClosed, pendingInit, pendingCancel>>
    BY <1>1, Zenon DEF wakeup, wakeup_cancel, return_with
  <2>2. QED
    BY <2>1, Zenon DEF HandlerInv
<1>2. CASE ~pendingCancel /\ pendingInit
  <2>1. /\ pendingInit' = FALSE /\ rcvFlow' = "init_buffer_ready" /\ rcvQueued' = FALSE
        /\ rcvFlow = "wakeup"
        /\ UNCHANGED <<request, streamClosed, pendingCancel, initiateHandler, completeHandler,
                       dataHandler>>
    BY <1>2, Zenon DEF wakeup, wakeup_init
  <2>2. QED
    BY <1>2, <2>1, Zenon DEF HandlerInv
<1>3. CASE ~pendingCancel /\ ~pendingInit /\ rx.remaining = 0 /\ streamClosed
  <2>1. /\ streamClosed' = FALSE /\ dataHandler' = FALSE /\ request' = FALSE
        /\ rcvFlow' = "wait_for_message" /\ rcvQueued' = FALSE
        /\ UNCHANGED <<pendingInit, pendingCancel, initiateHandler, completeHandler>>
    BY <1>3, Zenon DEF wakeup, wakeup_closed, return_with
  <2>2. QED
    BY <1>3, <2>1, Zenon DEF HandlerInv
<1>4. CASE ~pendingCancel /\ ~pendingInit /\ ~(rx.remaining = 0 /\ streamClosed)
  <2>1. /\ rcvFlow = "wakeup" /\ rcvQueued /\ rcvQueued' = FALSE
        /\ rcvFlow' \in {"wakeup", "have_raw_buffer"}
        /\ UNCHANGED <<request, streamClosed, pendingInit, pendingCancel, initiateHandler,
                       completeHandler, dataHandler>>
    BY <1>4, Zenon DEF wakeup, wakeup_window
  <2>2. QED
    BY <1>4, <2>1, Zenon DEF HandlerInv
<1>5. QED
  BY <1>1, <1>2, <1>3, <1>4 DEF HandlerInv

\* A last buffer is there: the data handler is registered, or the request
\* that was cancelled ends.
LEMMA BufferHandlers ==
  HandlerInv /\ (init_buffer_ready \/ have_raw_buffer) => HandlerInv'
<1> SUFFICES ASSUME HandlerInv, NEW r, wait_for_wakeup(r),
                    rcvFlow \in {"init_buffer_ready", "have_raw_buffer"},
                    UNCHANGED <<rcvQueued, streamClosed, pendingInit, pendingCancel>>
             PROVE  HandlerInv'
  BY Zenon DEF init_buffer_ready, have_raw_buffer
<1>1. CASE pendingCancel
  BY <1>1, Zenon DEF HandlerInv, wait_for_wakeup, wakeup_cancel, return_with
<1>2. CASE ~pendingCancel
  BY <1>2, Zenon DEF HandlerInv, wait_for_wakeup
<1>3. QED
  BY <1>1, <1>2, Zenon

\* The client looks at its response, or gives up.
LEMMA CheckResponseHandlers == HandlerInv /\ check_response => HandlerInv'
  BY CancelHandlers, ReceiverStutter, Zenon
  DEF check_response, wait_for_stream_complete, handle_read_error

LEMMA ClientHandlers ==
  HandlerInv /\ (do_stream_read \/ ClientStep \/ datagram_times_out \/ client_timer)
    => HandlerInv'
<1> SUFFICES ASSUME HandlerInv,
                    do_stream_read \/ ClientStep \/ datagram_times_out \/ client_timer
             PROVE  HandlerInv'
  BY Zenon
<1>1. CASE do_stream_read
  BY <1>1, AnnouncedHandlers, Zenon DEF do_stream_read
<1>2. CASE send_stream_read_datagram
  BY <1>2, ReceiverStutter, Zenon DEF send_stream_read_datagram
<1>3. CASE stream_read_dg_complete
  BY <1>3, ReceiverStutter, CancelHandlers, CheckResponseHandlers
  DEF stream_read_dg_complete, handle_read_error
<1>4. CASE stream_read_response_timeout
  BY <1>4, CheckResponseHandlers, Zenon DEF stream_read_response_timeout
<1>5. CASE recv_stream_closed
  BY <1>5, ReceiverStutter, Zenon DEF recv_stream_closed
<1>6. CASE datagram_times_out
  BY <1>6, ReceiverStutter, Zenon DEF datagram_times_out
<1>7. CASE client_timer
  BY <1>7, ReceiverStutter, Zenon DEF client_timer
<1>8. QED
  BY <1>1, <1>2, <1>3, <1>4, <1>5, <1>6, <1>7 DEF ClientStep

\* No step of the server touches the receiver.
LEMMA ServerHandlers ==
  HandlerInv /\ (ServerStep \/ read_flow \/ SenderStep \/ sender_timer \/ server_receives)
    => HandlerInv'
<1>1. ServerStep => UNCHANGED receiverVars
  BY Zenon DEF ServerStep, handle_read_stream, reader_started, read_started
<1>2. read_flow => UNCHANGED receiverVars
  BY Zenon DEF read_flow
<1>3. SenderStep => UNCHANGED receiverVars
  BY Zenon DEF SenderStep, sender_flow, sender_initiates, sender_sends, sender_closes
<1>4. sender_timer => UNCHANGED receiverVars
  BY Zenon DEF sender_timer
<1>5. server_receives => UNCHANGED receiverVars
  BY Zenon DEF server_receives
<1>6. QED
  BY <1>1, <1>2, <1>3, <1>4, <1>5, ReceiverStutter

\* A message arrives at the client's node.
LEMMA ReceivesHandlers == HandlerInv /\ client_receives => HandlerInv'
<1> SUFFICES ASSUME HandlerInv, client_receives PROVE HandlerInv'
  OBVIOUS
<1>1. CASE UNCHANGED receiverVars
  BY <1>1, ReceiverStutter, Zenon
<1>2. CASE \E id, window : accept_initiate(id, window) \/ refuse_initiate(id, window)
  BY <1>2, AcceptHandlers, RefuseHandlers, Zenon
<1>3. CASE \E id, total : handle_stream_complete(id, total)
  BY <1>3, CompleteHandlers, Zenon
<1>4. CASE \E m : response_arrives(m)
  BY <1>4, HandlerStutter, ReceiverStutter, Zenon DEF response_arrives, handlerState, handlerVars
<1>5. QED
  BY <1>1, <1>2, <1>3, <1>4 DEF client_receives

\* Every step preserves HandlerInv.
LEMMA NextHandlers == HandlerInv /\ [Next]_vars => HandlerInv'
<1> SUFFICES ASSUME HandlerInv, [Next]_vars PROVE HandlerInv'
  BY Zenon
<1>1. CASE receiver_wakeup
  BY <1>1, WakeupHandlers, Zenon DEF receiver_wakeup
<1>2. CASE receiver_buffer
  BY <1>2, BufferHandlers, Zenon DEF receiver_buffer
<1>3. CASE receiver_sink
  BY <1>3, HandlerStutter, Zenon DEF receiver_sink, sink_frees, handlerState, handlerVars
<1>4. CASE data_arrives
  BY <1>4, BytesHandlers, ReceiverStutter, Zenon DEF data_arrives
<1>5. CASE UNCHANGED vars
  BY <1>5, ReceiverStutter, Zenon DEF vars
<1>6. QED
  BY <1>1, <1>2, <1>3, <1>4, <1>5, ClientHandlers, ServerHandlers, ReceivesHandlers, Zenon
  DEF Next, Progress, ReceiverStep

\* NoStaleHandlers for every window, pool, frame size and sequence of reads:
\* when the receiver has returned a request, whether it was closed or cancelled
\* and whatever arrives later, none of its handlers is left in the dispatcher.
THEOREM StreamNoStaleHandlers == Spec => []NoStaleHandlers
<1>1. Init => HandlerInv
  BY Zenon DEF Init, ReceiverInit, HandlerInv
<1>2. HandlerInv => NoStaleHandlers
  BY Zenon DEF HandlerInv, NoStaleHandlers
<1>3. QED
  BY <1>1, <1>2, NextHandlers, PTL DEF Spec
=============================================================================
