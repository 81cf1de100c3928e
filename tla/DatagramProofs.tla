--------------------------- MODULE DatagramProofs ---------------------------
(***************************************************************************)
(* The datagram clients exclude each other, lose no waiting client, are    *)
(* woken once, report one outcome and no success without an                *)
(* acknowledgement, and what a destination reassembles is a datagram that  *)
(* was sent, for every number of clients, sources and destinations, any    *)
(* lengths and any faults.                                                 *)
(***************************************************************************)
EXTENDS Datagram, TLAPS

Sends(c) == state[c] = "timeout_waiting_for_dg_response"

\* The flow of each client by itself.
Flows ==
  \A c \in Clients :
    /\ sendPending[c] <=> Sends(c)
    /\ isSleeping[c] <=> Sends(c)
    /\ state[c] # "terminated" => msg[c] # NoMsg
    /\ Sends(c) \/ state[c] = "datagram_finalize" => (queued[c] <=> timer[c] = "idle")
    /\ state[c] = "start_send" \/ state[c] = "terminated" => timer[c] = "idle"
    /\ state[c] = "terminated" => ~queued[c]

\* The result of each client.
Results ==
  \A c \in Clients :
    /\ state[c] = "start_send" \/ Sends(c) => result[c] = {"OPERATION_PENDING"}
    /\ state[c] = "datagram_finalize" \/ (state[c] = "terminated" /\ msg[c] # NoMsg) =>
         ("OPERATION_SUCCESS" \in result[c] <=> result[c] \cap Errors = {})
    /\ state[c] = "terminated" => "OPERATION_PENDING" \notin result[c]

\* x has c at place i of its list.
At(x, i, c) == i \in 1 .. Len(waitingClients[x]) /\ waitingClients[x][i] = c

\* Who is in a list, and whose list it is.
Members ==
  \A x, c \in Clients, i \in Nat :
    At(x, i, c) => /\ Waits(c) /\ SamePair(c, x)
                   /\ state[x] = "start_send" \/ Sends(x)

\* Nobody is in two places.
Once ==
  \A x, y, c \in Clients, i, j \in Nat :
    At(x, i, c) /\ At(y, j, c) => x = y /\ i = j

\* Nobody who waits is missing.
Listed == \A c \in Clients : Waits(c) => \E x \in Clients, i \in Nat : At(x, i, c)

\* Two senders never have the same pair.
Apart ==
  \A c, x \in Clients : c # x /\ Sends(c) /\ Sends(x) => ~SamePair(c, x)

Core == Flows /\ Results /\ Apart /\ Members /\ Once /\ Listed

\* The inductive invariant: after a failed assertion nothing happens any more.
IInv == ClientTypeOK /\ writes \in Nat /\ (assertion = "none" => Core)

-----------------------------------------------------------------------------
(***************************************************************************)
(* Lists.                                                                  *)
(***************************************************************************)

\* The rest of a list that is not empty.
LEMMA TailFacts ==
  ASSUME NEW S, NEW s \in Seq(S), s # <<>>
  PROVE  /\ Head(s) \in S /\ Tail(s) \in Seq(S) /\ Len(s) \in Nat /\ Len(s) >= 1
         /\ Len(Tail(s)) = Len(s) - 1 /\ s[1] = Head(s)
         /\ \A i \in 1 .. Len(s) - 1 : Tail(s)[i] = s[i + 1]
OBVIOUS

\* A list with one more at the end.
LEMMA AppendFacts ==
  ASSUME NEW S, NEW s \in Seq(S), NEW e \in S
  PROVE  /\ Append(s, e) \in Seq(S) /\ Append(s, e) # <<>>
         /\ Len(Append(s, e)) = Len(s) + 1 /\ Append(s, e)[Len(s) + 1] = e
         /\ \A i \in 1 .. Len(s) : Append(s, e)[i] = s[i]
OBVIOUS

\* An empty list.
LEMMA EmptyFacts ==
  ASSUME NEW S, NEW s \in Seq(S)
  PROVE  s = <<>> <=> Len(s) = 0
OBVIOUS

\* A list with one more in front.
LEMMA FrontFacts ==
  ASSUME NEW S, NEW s \in Seq(S), NEW e \in S
  PROVE  /\ <<e>> \o s \in Seq(S) /\ Len(s) \in Nat
         /\ Len(<<e>> \o s) = Len(s) + 1 /\ (<<e>> \o s)[1] = e
         /\ \A i \in 2 .. Len(s) + 1 : (<<e>> \o s)[i] = s[i - 1]
OBVIOUS

\* What push_front() in acquire_srcdst_lock() does to the places.
LEMMA AtPushed ==
  ASSUME NEW c \in Clients, NEW x \in Clients,
         waitingClients \in [Clients -> Seq(Clients)],
         waitingClients' = [waitingClients EXCEPT ![x] = <<c>> \o @],
         NEW y \in Clients, NEW z \in Clients, NEW i \in Nat
  PROVE  At(y, i, z)' <=> \/ y # x /\ At(y, i, z)
                          \/ y = x /\ i = 1 /\ z = c
                          \/ y = x /\ i > 1 /\ At(x, i - 1, z)
<1>1. waitingClients'[y] = IF y = x THEN <<c>> \o waitingClients[x] ELSE waitingClients[y]
  BY Zenon
<1>2. CASE y # x
  BY <1>1, <1>2, Zenon DEF At
<1>3. CASE y = x
  <2> DEFINE s == waitingClients[x]
             t == <<c>> \o s
  <2>1. /\ Len(s) \in Nat /\ Len(t) = Len(s) + 1 /\ t[1] = c
        /\ \A k \in 2 .. Len(s) + 1 : t[k] = s[k - 1]
    <3>1. s \in Seq(Clients)
      BY Zenon
    <3> HIDE DEF s
    <3> QED BY <3>1, FrontFacts
  <2>2. waitingClients'[y] = t
    BY <1>1, <1>3, Zenon
  <2>3. At(y, i, z)' <=> i \in 1 .. Len(t) /\ t[i] = z
    BY <2>2, Zenon DEF At
  <2>4. At(x, i - 1, z) <=> i - 1 \in 1 .. Len(s) /\ s[i - 1] = z
    BY Zenon DEF At
  <2> HIDE DEF s, t
  <2>5. CASE i > 1
    BY <2>1, <2>3, <2>4, <2>5, <1>3
  <2>6. CASE i = 1
    BY <2>1, <2>3, <2>6, <1>3
  <2>7. CASE i = 0
    BY <2>1, <2>3, <2>7, <1>3
  <2> QED BY <2>5, <2>6, <2>7
<1> QED BY <1>2, <1>3, Zenon

\* What the hand-off in unregister_response_handler() does to the places.
LEMMA AtHandedOn ==
  ASSUME NEW c \in Clients,
         waitingClients \in [Clients -> Seq(Clients)],
         waitingClients[c] # <<>>, Head(waitingClients[c]) # c,
         waitingClients[Head(waitingClients[c])] = <<>>,
         waitingClients' = HandedOn(c),
         NEW y \in Clients, NEW z \in Clients, NEW i \in Nat
  PROVE  LET h == Head(waitingClients[c])
         IN  /\ h \in Clients /\ At(c, 1, h)
             /\ At(y, i, z)' <=> \/ y # c /\ y # h /\ At(y, i, z)
                                 \/ y = h /\ i >= 1 /\ At(c, i + 1, z)
<1> DEFINE s == waitingClients[c]
           h == Head(s)
<1>1. /\ h \in Clients /\ Tail(s) \in Seq(Clients) /\ Len(s) \in Nat /\ Len(s) >= 1
      /\ Len(Tail(s)) = Len(s) - 1 /\ s[1] = h
      /\ \A k \in 1 .. Len(s) - 1 : Tail(s)[k] = s[k + 1]
  <2>1. s \in Seq(Clients) /\ s # <<>>
    BY Zenon
  <2> HIDE DEF s
  <2> QED BY <2>1, TailFacts, Zenon
<1>2. At(c, 1, h)
  BY <1>1 DEF At
<1>3. waitingClients'[y] = IF y = h THEN Tail(s) ELSE IF y = c THEN <<>> ELSE waitingClients[y]
  BY <1>1, Zenon DEF HandedOn
<1> SUFFICES At(y, i, z)' <=> \/ y # c /\ y # h /\ At(y, i, z)
                              \/ y = h /\ i >= 1 /\ At(c, i + 1, z)
  BY <1>1, <1>2, Zenon
<1>4. CASE y # c /\ y # h
  BY <1>3, <1>4, Zenon DEF At
<1>5. CASE y = c
  <2>1. ~At(y, i, z)'
    BY <1>3, <1>5 DEF At
  <2> QED BY <2>1, <1>5, Zenon
<1>6. CASE y = h
  <2>1. At(y, i, z)' <=> i \in 1 .. Len(Tail(s)) /\ Tail(s)[i] = z
    BY <1>3, <1>6, Zenon DEF At
  <2>2. At(c, i + 1, z) <=> i + 1 \in 1 .. Len(s) /\ s[i + 1] = z
    BY Zenon DEF At
  <2> HIDE DEF s
  <2> QED BY <1>1, <1>6, <2>1, <2>2
<1> QED BY <1>4, <1>5, <1>6, Zenon

\* A list that did not change has everybody where they were.
LEMMA AtUnchanged ==
  ASSUME UNCHANGED waitingClients
  PROVE  \A y, z, i : At(y, i, z)' <=> At(y, i, z)
BY Zenon DEF At

-----------------------------------------------------------------------------
(***************************************************************************)
(* The steps of a client.                                                  *)
(***************************************************************************)

\* write_datagram(): the client was not in use, so it is in no list.
LEMMA WriteCore ==
  ASSUME NEW c \in Clients, NEW m \in Messages, ClientTypeOK, Core, write_datagram(c, m)
  PROVE  Core'
<1>1. /\ state[c] = "terminated" /\ state'[c] = "start_send" /\ queued'[c] /\ msg'[c] = m
      /\ result'[c] = {"OPERATION_PENDING"}
      /\ \A x \in Clients : x # c => /\ state'[x] = state[x] /\ queued'[x] = queued[x]
                                     /\ msg'[x] = msg[x] /\ result'[x] = result[x]
      /\ UNCHANGED <<waitingClients, timer, isSleeping, sendPending>>
  BY Zenon DEF ClientTypeOK, write_datagram
<1>2. m # NoMsg
  BY ClientsAssumption, Zenon DEF Messages
<1>3. Flows'
  BY <1>1, <1>2 DEF Core, Flows, Sends
<1>4. Results'
  BY <1>1 DEF Core, Results, Sends
<1>5. Apart'
  BY <1>1 DEF Core, Apart, Sends, SamePair
<1>6. \A y, z, i : At(y, i, z)' <=> At(y, i, z)
  BY <1>1, AtUnchanged, Zenon
<1>7. \A x \in Clients : Waits(x)' <=> Waits(x)
  BY <1>1, Zenon DEF Waits
<1>8. \A x, z \in Clients, i \in Nat : At(x, i, z) => x # c /\ z # c
  BY <1>1 DEF Core, Members, Waits, Sends
<1>9. Members'
  <2> SUFFICES ASSUME NEW x \in Clients, NEW z \in Clients, NEW i \in Nat, At(x, i, z)'
               PROVE  Waits(z)' /\ SamePair(z, x)' /\ (state'[x] = "start_send" \/ Sends(x)')
    BY Zenon DEF Members
  <2>1. At(x, i, z) /\ x # c /\ z # c
    BY <1>6, <1>8, Zenon
  <2>2. Waits(z) /\ SamePair(z, x) /\ (state[x] = "start_send" \/ Sends(x))
    BY <2>1, Zenon DEF Core, Members
  <2> QED BY <1>1, <1>7, <2>1, <2>2, Zenon DEF SamePair, Sends
<1>10. Once'
  BY <1>6, Zenon DEF Core, Once
<1>11. Listed'
  BY <1>6, <1>7, Zenon DEF Core, Listed
<1> QED BY <1>3, <1>4, <1>5, <1>9, <1>10, <1>11, Zenon DEF Core

\* acquire_srcdst_lock(): the client that has to wait goes into one list.
LEMMA WaitCore ==
  ASSUME NEW c \in Clients, ClientTypeOK, Core, wait_for_lock(c)
  PROVE  Core'
<1>1. PICK h \in Holders(c) :
        waitingClients' = [waitingClients EXCEPT ![h] = <<c>> \o @]
  BY Zenon DEF wait_for_lock
<1>2. h \in Clients /\ sendPending[h] /\ SamePair(c, h)
  BY Zenon DEF Holders
<1>3. /\ state[c] = "start_send" /\ queued[c] /\ ~queued'[c]
      /\ \A x \in Clients : x # c => queued'[x] = queued[x]
      /\ UNCHANGED <<state, timer, isSleeping, sendPending, msg, result>>
  BY Zenon DEF ClientTypeOK, wait_for_lock
<1>4. Flows'
  BY <1>3, Zenon DEF Core, Flows, Sends
<1>5. Results' /\ Apart'
  BY <1>3, Zenon DEF Core, Results, Apart, Sends, SamePair
<1>6. Waits(c)' /\ ~Waits(c) /\ \A x \in Clients : x # c => (Waits(x)' <=> Waits(x))
  BY <1>3, Zenon DEF Waits
<1>7. \A y, z \in Clients, i \in Nat :
        At(y, i, z)' <=> \/ y # h /\ At(y, i, z)
                         \/ y = h /\ i = 1 /\ z = c
                         \/ y = h /\ i > 1 /\ At(h, i - 1, z)
  BY <1>1, <1>2, AtPushed, Zenon DEF ClientTypeOK
<1>8. Sends(h)
  BY <1>2, Zenon DEF Core, Flows
<1>9. \A y \in Clients, i \in Nat : ~At(y, i, c)
  BY <1>6, Zenon DEF Core, Members
<1>10. Members'
  <2> SUFFICES ASSUME NEW x \in Clients, NEW z \in Clients, NEW i \in Nat, At(x, i, z)'
               PROVE  Waits(z)' /\ SamePair(z, x)' /\ (state'[x] = "start_send" \/ Sends(x)')
    BY Zenon DEF Members
  <2>1. CASE x # h /\ At(x, i, z)
    <3>1. Waits(z) /\ SamePair(z, x) /\ (state[x] = "start_send" \/ Sends(x))
      BY <2>1, Zenon DEF Core, Members
    <3> QED BY <1>3, <1>6, <3>1, Zenon DEF SamePair, Sends
  <2>2. CASE x = h /\ i = 1 /\ z = c
    BY <1>2, <1>3, <1>6, <1>8, <2>2, Zenon DEF SamePair, Sends
  <2>3. CASE x = h /\ i > 1 /\ At(h, i - 1, z)
    <3>1. i - 1 \in Nat
      BY <2>3
    <3>2. Waits(z) /\ SamePair(z, x) /\ (state[x] = "start_send" \/ Sends(x))
      BY <2>3, <3>1, Zenon DEF Core, Members
    <3> QED BY <1>3, <1>6, <3>2 DEF SamePair, Sends
  <2> QED BY <1>7, <2>1, <2>2, <2>3, Zenon
<1>11. Once'
  <2> SUFFICES ASSUME NEW x \in Clients, NEW y \in Clients, NEW z \in Clients,
                      NEW i \in Nat, NEW k \in Nat, At(x, i, z)', At(y, k, z)'
               PROVE  x = y /\ i = k
    BY Zenon DEF Once
  <2>1. \A n \in Nat : n > 1 => n - 1 \in Nat
    OBVIOUS
  <2>2. CASE z = c
    BY <1>2, <1>7, <1>9, <2>1, <2>2
  <2>3. CASE z # c
    <3>1. /\ \A a, b \in Clients, n, q \in Nat : At(a, n, z) /\ At(b, q, z) => a = b /\ n = q
      BY Zenon DEF Core, Once
    <3>2. (x # h /\ At(x, i, z)) \/ (x = h /\ i > 1 /\ i - 1 \in Nat /\ At(h, i - 1, z))
      BY <1>7, <2>1, <2>3, Zenon
    <3>3. (y # h /\ At(y, k, z)) \/ (y = h /\ k > 1 /\ k - 1 \in Nat /\ At(h, k - 1, z))
      BY <1>7, <2>1, <2>3, Zenon
    <3>4. x = y
      BY <1>2, <3>1, <3>2, <3>3
    <3>5. CASE x # h
      BY <3>1, <3>2, <3>3, <3>4, <3>5, Zenon
    <3>6. CASE x = h
      <4>1. i - 1 = k - 1
        BY <1>2, <3>1, <3>2, <3>3, <3>4, <3>6
      <4> QED BY <4>1, <3>4
    <3> QED BY <3>5, <3>6, Zenon
  <2> QED BY <2>2, <2>3, Zenon
<1>12. Listed'
  <2> SUFFICES ASSUME NEW z \in Clients, Waits(z)'
               PROVE  \E x \in Clients, i \in Nat : At(x, i, z)'
    BY Zenon DEF Listed
  <2>1. CASE z = c
    BY <1>2, <1>7, <2>1, Zenon
  <2>2. CASE z # c
    <3>1. PICK x \in Clients, i \in Nat : At(x, i, z)
      BY <1>6, <2>2, Zenon DEF Core, Listed
    <3>2. i + 1 \in Nat /\ i + 1 - 1 = i /\ (At(h, i, z) => i + 1 > 1)
      BY DEF At
    <3> QED BY <1>2, <1>7, <3>1, <3>2
  <2> QED BY <2>1, <2>2, Zenon
<1> QED BY <1>4, <1>5, <1>10, <1>11, <1>12, Zenon DEF Core

\* do_send(): nobody holds the lock, so the sender is apart from all others.
LEMMA SendCore ==
  ASSUME NEW c \in Clients, ClientTypeOK, Core, do_send(c)
  PROVE  Core'
<1>1. /\ state[c] = "start_send" /\ queued[c] /\ ~queued'[c]
      /\ state'[c] = "timeout_waiting_for_dg_response"
      /\ sendPending'[c] /\ isSleeping'[c] /\ timer'[c] = "active"
      /\ \A x \in Clients : x # c => /\ state'[x] = state[x] /\ queued'[x] = queued[x]
                                     /\ sendPending'[x] = sendPending[x]
                                     /\ isSleeping'[x] = isSleeping[x]
                                     /\ timer'[x] = timer[x]
      /\ UNCHANGED <<waitingClients, msg, result>>
  BY Zenon DEF ClientTypeOK, do_send
<1>2. \A x \in Clients : sendPending[x] => ~SamePair(c, x)
  BY Zenon DEF do_send, Holders
<1>3. Flows'
  BY <1>1 DEF Core, Flows, Sends
<1>4. Results'
  BY <1>1 DEF Core, Results, Sends
<1>5. Apart'
  <2> SUFFICES ASSUME NEW x \in Clients, NEW y \in Clients, x # y, Sends(x)', Sends(y)'
               PROVE  ~SamePair(x, y)'
    BY Zenon DEF Apart
  <2>1. SamePair(x, y)' <=> SamePair(x, y)
    BY <1>1, Zenon DEF SamePair
  <2>2. \A z \in Clients : z # c /\ Sends(z)' => Sends(z) /\ sendPending[z]
    BY <1>1, Zenon DEF Core, Flows, Sends
  <2>3. CASE x = c
    BY <1>2, <2>1, <2>2, <2>3, Zenon
  <2>4. CASE y = c
    BY <1>2, <2>1, <2>2, <2>4, Zenon DEF SamePair
  <2>5. CASE x # c /\ y # c
    BY <2>1, <2>2, <2>5, Zenon DEF Core, Apart
  <2> QED BY <2>3, <2>4, <2>5, Zenon
<1>6. \A y, z, i : At(y, i, z)' <=> At(y, i, z)
  BY <1>1, AtUnchanged, Zenon
<1>7. \A x \in Clients : Waits(x)' <=> Waits(x)
  BY <1>1, Zenon DEF Waits
<1>8. \A x \in Clients : state[x] = "start_send" \/ Sends(x) =>
                           state'[x] = "start_send" \/ Sends(x)'
  BY <1>1, Zenon DEF Sends
<1>9. \A x, y : SamePair(x, y)' <=> SamePair(x, y)
  BY <1>1, Zenon DEF SamePair
<1>10. Members'
  BY <1>6, <1>7, <1>8, <1>9, Zenon DEF Core, Members
<1>11. Once' /\ Listed'
  BY <1>6, <1>7 DEF Core, Once, Listed
<1> QED BY <1>3, <1>4, <1>5, <1>10, <1>11, Zenon DEF Core

\* The timer comes due and runs; a client that waits for its turn has none.
LEMMA TimerCore ==
  ASSUME NEW c \in Clients, ClientTypeOK, Core, timer_expires(c) \/ timer_run(c)
  PROVE  Core'
<1>1. /\ timer[c] # "idle"
      /\ \A x \in Clients : x # c => queued'[x] = queued[x] /\ timer'[x] = timer[x]
      /\ \/ timer'[c] = "expired" /\ queued'[c] = queued[c]
         \/ timer'[c] = "idle" /\ queued'[c]
      /\ UNCHANGED <<state, waitingClients, isSleeping, sendPending, msg, result>>
  BY Zenon DEF ClientTypeOK, timer_expires, timer_run
<1>2. Sends(c) \/ state[c] = "datagram_finalize"
  BY <1>1, Zenon DEF Core, Flows, ClientTypeOK, States, Sends
<1>3. Flows'
  BY <1>1, <1>2, Zenon DEF Core, Flows, Sends
<1>4. Results' /\ Apart'
  BY <1>1, Zenon DEF Core, Results, Apart, Sends, SamePair
<1>5. \A y, z, i : At(y, i, z)' <=> At(y, i, z)
  BY <1>1, AtUnchanged, Zenon
<1>6. \A x \in Clients : Waits(x)' <=> Waits(x)
  BY <1>1, <1>2, Zenon DEF Waits, Sends
<1>7. \A x, y : (SamePair(x, y)' <=> SamePair(x, y)) /\ (Sends(x)' <=> Sends(x))
  BY <1>1, Zenon DEF SamePair, Sends
<1>8. Members'
  BY <1>1, <1>5, <1>6, <1>7, Zenon DEF Core, Members
<1>9. Once' /\ Listed'
  BY <1>5, <1>6 DEF Core, Once, Listed
<1> QED BY <1>3, <1>4, <1>8, <1>9, Zenon DEF Core

\* datagram_finalize() after an answer.
LEMMA FinalizeCore ==
  ASSUME NEW c \in Clients, ClientTypeOK, Core, datagram_finalize(c)
  PROVE  Core'
<1>1. /\ state[c] = "datagram_finalize" /\ queued[c] /\ ~queued'[c]
      /\ state'[c] = "terminated" /\ result'[c] = result[c] \ {"OPERATION_PENDING"}
      /\ \A x \in Clients : x # c => /\ state'[x] = state[x] /\ queued'[x] = queued[x]
                                     /\ result'[x] = result[x]
      /\ UNCHANGED <<waitingClients, timer, isSleeping, sendPending, msg>>
  BY Zenon DEF ClientTypeOK, datagram_finalize
<1>2. Flows'
  BY <1>1 DEF Core, Flows, Sends
<1>3. Results'
  BY <1>1 DEF Core, Results, Sends, Errors
<1>4. Apart'
  BY <1>1 DEF Core, Apart, Sends, SamePair
<1>5. \A y, z, i : At(y, i, z)' <=> At(y, i, z)
  BY <1>1, AtUnchanged, Zenon
<1>6. \A x \in Clients : Waits(x)' <=> Waits(x)
  BY <1>1, Zenon DEF Waits
<1>7. /\ \A x, y : SamePair(x, y)' <=> SamePair(x, y)
      /\ \A x \in Clients : state[x] = "start_send" \/ Sends(x) =>
                              state'[x] = "start_send" \/ Sends(x)'
  BY <1>1, Zenon DEF SamePair, Sends
<1>8. Members'
  BY <1>5, <1>6, <1>7, Zenon DEF Core, Members
<1>9. Once' /\ Listed'
  BY <1>5, <1>6 DEF Core, Once, Listed
<1> QED BY <1>2, <1>3, <1>4, <1>8, <1>9 DEF Core

\* The end of a sending client's wait: the lists are handed on.  The first
\* waiting client takes over the others, and is woken itself.
LEMMA HandOff ==
  ASSUME NEW c \in Clients, ClientTypeOK, Core, Sends(c), ~HandOffFails(c),
         unregister_response_handler(c),
         state'[c] = "terminated" \/ state'[c] = "datagram_finalize",
         \A x \in Clients : x # c => state'[x] = state[x],
         \A x \in Clients : x # c => (queued'[x] <=> queued[x] \/ x \in Woken(c)),
         UNCHANGED msg
  PROVE  Members' /\ Once' /\ Listed'
<1>1. /\ waitingClients \in [Clients -> Seq(Clients)]
      /\ waitingClients' = HandedOn(c)
  BY Zenon DEF ClientTypeOK, unregister_response_handler
<1>2. ~Waits(c) /\ ~Waits(c)'
  BY Zenon DEF Sends, Waits
<1>3. \A x, y : SamePair(x, y)' <=> SamePair(x, y)
  BY Zenon DEF SamePair
<1>4. CASE waitingClients[c] = <<>>
  <2>1. \A y, z, i : At(y, i, z)' <=> At(y, i, z)
    BY <1>1, <1>4, AtUnchanged, Zenon DEF HandedOn
  <2>2. \A x \in Clients : Waits(x)' <=> Waits(x)
    BY <1>2, <1>4, Zenon DEF Waits, Woken
  <2>3. \A x, z \in Clients, i \in Nat : At(x, i, z) => x # c
    BY <1>4 DEF At
  <2>4. \A x \in Clients : x # c => (Sends(x)' <=> Sends(x))
    BY Zenon DEF Sends
  <2>5. Members'
    BY <1>3, <2>1, <2>2, <2>3, <2>4, Zenon DEF Core, Members
  <2>6. Once' /\ Listed'
    BY <2>1, <2>2 DEF Core, Once, Listed
  <2> QED BY <2>5, <2>6, Zenon
<1>5. CASE waitingClients[c] # <<>>
  <2>0. waitingClients[c] \in Seq(Clients)
    BY <1>1, Zenon
  <2> PICK h \in Clients : h = Head(waitingClients[c])
    BY <1>5, <2>0, TailFacts, Zenon
  <2>1. At(c, 1, h)
    <3>1. /\ waitingClients[c][1] = h
          /\ Len(waitingClients[c]) \in Nat /\ Len(waitingClients[c]) >= 1
      BY <1>5, <2>0, TailFacts, Zenon
    <3> QED BY <3>1 DEF At
  <2>2. waitingClients[h] = <<>>
    BY <1>5, Zenon DEF HandOffFails
  <2>3. Waits(h) /\ SamePair(h, c) /\ state[h] = "start_send" /\ h # c
    BY <2>1, <1>2, Zenon DEF Core, Members, Waits
  <2>4. \A y, z \in Clients, i \in Nat :
          At(y, i, z)' <=> \/ y # c /\ y # h /\ At(y, i, z)
                           \/ y = h /\ i >= 1 /\ At(c, i + 1, z)
    BY <1>1, <1>5, <2>2, <2>3, AtHandedOn, Zenon
  <2>5. \A y \in Clients, i \in Nat : At(y, i, h) => y = c /\ i = 1
    BY <2>1 DEF Core, Once
  <2>6. h \in Woken(c) /\ \A x \in Clients : x # h => x \notin Woken(c)
    BY <1>5, Zenon DEF Woken
  <2>7. \A y, i, z : At(y, i, z) => y # h
    BY <2>2 DEF At
  <2>8. ~Waits(h)' /\ \A x \in Clients : x # h => (Waits(x)' <=> Waits(x))
    BY <1>2, <2>1, <2>3, <2>6, Zenon DEF Waits
  <2>9. Members'
    <3> SUFFICES ASSUME NEW x \in Clients, NEW z \in Clients, NEW i \in Nat, At(x, i, z)'
                 PROVE  Waits(z)' /\ SamePair(z, x)' /\ (state'[x] = "start_send" \/ Sends(x)')
      BY Zenon DEF Members
    <3>1. CASE x # c /\ x # h /\ At(x, i, z)
      <4>1. Waits(z) /\ SamePair(z, x) /\ (state[x] = "start_send" \/ Sends(x))
        BY <3>1, Zenon DEF Core, Members
      <4>2. z # h
        BY <2>5, <3>1, Zenon
      <4> QED BY <1>3, <2>8, <3>1, <4>1, <4>2, Zenon DEF Sends
    <3>2. CASE x = h /\ i >= 1 /\ At(c, i + 1, z)
      <4>1. i + 1 \in Nat /\ i + 1 # 1
        BY <3>2, SMTT(30)
      <4>2. Waits(z) /\ SamePair(z, c) /\ z # h
        BY <2>5, <3>2, <4>1, Zenon DEF Core, Members
      <4>3. SamePair(z, h)
        BY <2>3, <4>2, Zenon DEF SamePair
      <4> QED BY <1>3, <2>3, <2>8, <3>2, <4>2, <4>3, Zenon
    <3> QED BY <2>4, <3>1, <3>2, Zenon
  <2>10. Once'
    <3> SUFFICES ASSUME NEW x \in Clients, NEW y \in Clients, NEW z \in Clients,
                        NEW i \in Nat, NEW k \in Nat, At(x, i, z)', At(y, k, z)'
                 PROVE  x = y /\ i = k
      BY Zenon DEF Once
    <3>1. \A a, b \in Clients, n, q \in Nat : At(a, n, z) /\ At(b, q, z) => a = b /\ n = q
      BY Zenon DEF Core, Once
    <3>2. (x # c /\ x # h /\ At(x, i, z)) \/ (x = h /\ At(c, i + 1, z))
      BY <2>4, Zenon
    <3>3. (y # c /\ y # h /\ At(y, k, z)) \/ (y = h /\ At(c, k + 1, z))
      BY <2>4, Zenon
    <3>4. i + 1 \in Nat /\ k + 1 \in Nat /\ (i + 1 = k + 1 => i = k)
      OBVIOUS
    <3> QED BY <3>1, <3>2, <3>3, <3>4
  <2>11. Listed'
    <3> SUFFICES ASSUME NEW z \in Clients, Waits(z)'
                 PROVE  \E x \in Clients, i \in Nat : At(x, i, z)'
      BY Zenon DEF Listed
    <3>1. z # h /\ Waits(z)
      BY <2>8, Zenon
    <3>2. PICK x \in Clients, i \in Nat : At(x, i, z)
      BY <3>1, Zenon DEF Core, Listed
    <3>3. CASE x = c
      <4>1. i >= 1
        BY <3>2 DEF At
      <4>2. i # 1
        BY <2>1, <3>1, <3>2, <3>3, Zenon DEF At
      <4>3. i - 1 \in Nat /\ i - 1 >= 1 /\ (i - 1) + 1 = i
        BY <4>1, <4>2
      <4>4. At(h, i - 1, z)'
        BY <2>1, <2>4, <3>2, <3>3, <4>3, Zenon
      <4> QED BY <2>1, <4>3, <4>4, Zenon
    <3>4. CASE x # c
      BY <2>4, <2>7, <3>2, <3>4, Zenon
    <3> QED BY <3>3, <3>4, Zenon
  <2> QED BY <2>9, <2>10, <2>11, Zenon
<1> QED BY <1>4, <1>5, Zenon

\* The client that is woken was waiting.
LEMMA WokenWaits ==
  ASSUME NEW c \in Clients, ClientTypeOK, Core, NEW x \in Clients, x \in Woken(c)
  PROVE  state[x] = "start_send"
<1>1. waitingClients[c] \in Seq(Clients) /\ waitingClients[c] # <<>> /\ x = Head(waitingClients[c])
  BY Zenon DEF Woken, ClientTypeOK
<1>2. waitingClients[c][1] = x /\ 1 \in 1 .. Len(waitingClients[c])
  BY <1>1, TailFacts
<1>3. At(c, 1, x)
  BY <1>2, Zenon DEF At
<1> QED BY <1>3, Zenon DEF Core, Members, Waits

\* timeout_waiting_for_dg_response(), unless its assertion fails.
LEMMA TimeoutCore ==
  ASSUME NEW c \in Clients, ClientTypeOK, Core, timeout_waiting_for_dg_response(c),
         assertion' = "none"
  PROVE  Core'
<1>1. /\ Sends(c) /\ queued[c] /\ ~queued'[c] /\ state'[c] = "terminated"
      /\ ~sendPending'[c] /\ ~isSleeping'[c]
      /\ result'[c] = (result[c] \cup {"PERMANENT_ERROR", "TIMEOUT"}) \ {"OPERATION_PENDING"}
      /\ \A x \in Clients : x # c => /\ state'[x] = state[x] /\ result'[x] = result[x]
                                     /\ sendPending'[x] = sendPending[x]
                                     /\ isSleeping'[x] = isSleeping[x]
                                     /\ (queued'[x] <=> queued[x] \/ x \in Woken(c))
      /\ UNCHANGED <<timer, msg>>
      /\ unregister_response_handler(c) /\ ~HandOffFails(c)
  BY Zenon DEF ClientTypeOK, timeout_waiting_for_dg_response, unregister_response_handler, Sends
<1>2. Members' /\ Once' /\ Listed'
  BY <1>1, HandOff, Zenon
<1>3. \A x \in Clients : x \in Woken(c) => state[x] = "start_send"
  BY WokenWaits, Zenon
<1>4. Flows'
  BY <1>1, <1>3, SMTT(30) DEF Core, Flows, Sends
<1>5. Results'
  BY <1>1 DEF Core, Results, Sends, Errors
<1>6. Apart'
  BY <1>1, SMTT(30) DEF Core, Apart, Sends, SamePair
<1> QED BY <1>2, <1>4, <1>5, <1>6, Zenon DEF Core

\* stop_waiting_for_response() with one outcome, unless an assertion fails.
LEMMA StopCore ==
  ASSUME NEW c \in Clients, NEW flags \in SUBSET Flags, ClientTypeOK, Core,
         sendPending[c], stop_waiting_for_response(c, flags), assertion' = "none",
         "OPERATION_SUCCESS" \in flags <=> flags \cap Errors = {}
  PROVE  Core'
<1>1. /\ Sends(c) /\ state'[c] = "datagram_finalize"
      /\ (queued'[c] <=> queued[c] \/ c \in Woken(c))
      /\ ~sendPending'[c] /\ ~isSleeping'[c] /\ result'[c] = flags
      /\ \A x \in Clients : x # c => /\ state'[x] = state[x] /\ result'[x] = result[x]
                                     /\ sendPending'[x] = sendPending[x]
                                     /\ isSleeping'[x] = isSleeping[x]
                                     /\ (queued'[x] <=> queued[x] \/ x \in Woken(c))
      /\ UNCHANGED <<timer, msg>>
      /\ unregister_response_handler(c) /\ ~HandOffFails(c)
  BY DEF Core, Flows, ClientTypeOK, stop_waiting_for_response, unregister_response_handler, Sends
<1>2. Members' /\ Once' /\ Listed'
  BY <1>1, HandOff, Zenon
<1>3. \A x \in Clients : x \in Woken(c) => state[x] = "start_send"
  BY WokenWaits, Zenon
<1>4. c \notin Woken(c)
  BY <1>1, <1>3, Zenon DEF Sends
<1>5. Flows'
  BY <1>1, <1>3, <1>4 DEF Core, Flows, Sends
<1>6. Results'
  BY <1>1, SMTT(30) DEF Core, Results, Sends, Errors
<1>7. Apart'
  BY <1>1 DEF Core, Apart, Sends, SamePair
<1> QED BY <1>2, <1>5, <1>6, <1>7, Zenon DEF Core

-----------------------------------------------------------------------------
(***************************************************************************)
(* The invariant.                                                          *)
(***************************************************************************)

\* The flags handle_reboot() and handle_response() leave: one outcome.
LEMMA OutcomeFlags ==
  ASSUME NEW code
  PROVE  LET p == {"OPERATION_PENDING"}
             low == {"PERMANENT_ERROR", "RESEND_OK"}
             One(f) == f \in SUBSET Flags /\ ("OPERATION_SUCCESS" \in f <=> f \cap Errors = {})
         IN  /\ One(p \cup {"DST_REBOOT"})
             /\ One(p \cup {"OPERATION_SUCCESS"})
             /\ One((p \ low) \cup (IF code \cap low = {} THEN {"PERMANENT_ERROR"}
                                    ELSE code \cap low))
BY Zenon DEF Flags, Errors

\* Handing the list on keeps its type.
LEMMA HandedOnType ==
  ASSUME NEW c \in Clients, waitingClients \in [Clients -> Seq(Clients)]
  PROVE  HandedOn(c) \in [Clients -> Seq(Clients)]
<1>1. CASE waitingClients[c] = <<>>
  BY <1>1, Zenon DEF HandedOn
<1>2. CASE waitingClients[c] # <<>>
  <2>1. waitingClients[c] \in Seq(Clients)
    BY Zenon
  <2>2. Head(waitingClients[c]) \in Clients /\ Tail(waitingClients[c]) \in Seq(Clients)
    BY <1>2, <2>1, TailFacts, Zenon
  <2>3. <<>> \in Seq(Clients)
    OBVIOUS
  <2> QED BY <1>2, <2>2, <2>3, Zenon DEF HandedOn
<1> QED BY <1>1, <1>2, Zenon

\* An answer or a restart ends one client's wait.
LEMMA StopInv ==
  ASSUME NEW c \in Clients, NEW flags \in SUBSET Flags, ClientTypeOK, Core,
         writes' \in Nat,
         sendPending[c], stop_waiting_for_response(c, flags),
         "OPERATION_SUCCESS" \in flags <=> flags \cap Errors = {}
  PROVE  IInv'
<1>1. waitingClients' \in [Clients -> Seq(Clients)]
  BY HandedOnType, Zenon DEF ClientTypeOK, stop_waiting_for_response, unregister_response_handler
<1>2. ClientTypeOK'
  BY <1>1, Zenon DEF ClientTypeOK, stop_waiting_for_response, unregister_response_handler, States
<1> QED BY <1>2, StopCore, Zenon DEF IInv

\* The initial states.
LEMMA InitInv == Init => IInv
<1> SUFFICES ASSUME Init PROVE IInv
  BY Zenon
<1>1. ClientTypeOK
  BY DEF Init, ClientInit, ClientTypeOK, States
<1>2. \A x, c \in Clients, i \in Nat : ~At(x, i, c)
  BY DEF Init, ClientInit, At
<1>3. \A c \in Clients : ~Waits(c)
  BY Zenon DEF Init, ClientInit, Waits
<1>4. Flows /\ Results /\ Apart
  BY Zenon DEF Init, ClientInit, Flows, Results, Apart, Sends
<1>5. writes \in Nat
  BY Zenon DEF Init
<1> QED BY <1>1, <1>2, <1>3, <1>4, <1>5, Zenon DEF IInv, Core, Members, Once, Listed

\* What does not touch the clients.
LEMMA OthersInv ==
  ASSUME IInv, UNCHANGED clientVars, writes' \in Nat
  PROVE  IInv'
<1>1. UNCHANGED <<state, queued, waitingClients, timer, isSleeping, sendPending,
                  msg, result, assertion>>
  BY Zenon DEF clientVars
<1>2. ClientTypeOK'
  BY <1>1, Zenon DEF IInv, ClientTypeOK
<1>3. /\ \A y, z, i : At(y, i, z)' <=> At(y, i, z)
      /\ \A x : (Waits(x)' <=> Waits(x)) /\ (Sends(x)' <=> Sends(x))
      /\ \A x, y : SamePair(x, y)' <=> SamePair(x, y)
  BY <1>1, AtUnchanged, Zenon DEF Waits, Sends, SamePair
<1>4. Core => Flows'
  BY <1>1, <1>3, Zenon DEF Core, Flows
<1>5. Core => Results'
  BY <1>1, <1>3, Zenon DEF Core, Results
<1>6. Core => Apart'
  BY <1>3, Zenon DEF Core, Apart
<1>7. Core => Members'
  BY <1>1, <1>3, Zenon DEF Core, Members
<1>8. Core => Once' /\ Listed'
  BY <1>3 DEF Core, Once, Listed
<1> QED BY <1>1, <1>2, <1>4, <1>5, <1>6, <1>7, <1>8, Zenon DEF IInv, Core

\* Every step keeps the invariant.
LEMMA NextInv == IInv /\ [Next]_vars => IInv'
<1> SUFFICES ASSUME IInv, [Next]_vars PROVE IInv'
  BY Zenon
<1>t. ClientTypeOK /\ (Running => Core)
  BY Zenon DEF IInv, Running
<1>w. writes' \in Nat
  <2>1. writes' = writes \/ writes' = writes + 1
    BY Zenon DEF Next, vars, Write, Wait, Send, ClientStep, Done, WriteFlowStep, PeerReceive,
           PeerHandle, PeerDown, FrameLost, PeerStart, ReceiveDefinition, ReceiveReboot,
           ReceiveResponse
  <2> QED BY <2>1 DEF IInv
<1>1. ASSUME NEW c \in Clients, Write(c) PROVE IInv'
  <2>1. PICK m \in Messages : write_datagram(c, m)
    <3>1. PICK s \in Srcs, d \in Dsts, n \in FrameCounts :
            write_datagram(c, [src |-> s, dst |-> d, frames |-> n, id |-> writes])
      BY <1>1, Zenon DEF Write
    <3>2. n \in Nat /\ writes \in Nat
      BY FrameCountsAssumption, Zenon DEF IInv
    <3> QED BY <3>1, <3>2, Zenon DEF Messages
  <2>2. Core'
    BY <1>1, <1>t, <2>1, WriteCore, Zenon DEF Write
  <2>3. ClientTypeOK'
    BY <1>t, <2>1, Zenon DEF ClientTypeOK, write_datagram, States, Flags
  <2> QED BY <2>2, <2>3, <1>w, Zenon DEF IInv
<1>2. ASSUME NEW c \in Clients, Wait(c) PROVE IInv'
  <2>1. Core'
    BY <1>2, <1>t, WaitCore, Zenon DEF Wait
  <2>2. PICK h \in Holders(c) :
          waitingClients' = [waitingClients EXCEPT ![h] = <<c>> \o @]
    BY <1>2, Zenon DEF Wait, wait_for_lock
  <2>3. h \in Clients
    BY Zenon DEF Holders
  <2>4. waitingClients' \in [Clients -> Seq(Clients)]
    <3>1. waitingClients \in [Clients -> Seq(Clients)] /\ waitingClients[h] \in Seq(Clients)
      BY <1>t, <2>3, Zenon DEF ClientTypeOK
    <3>2. <<c>> \o waitingClients[h] \in Seq(Clients)
      BY <3>1, FrontFacts, Zenon
    <3> QED BY <2>2, <3>1, <3>2, Zenon
  <2>5. ClientTypeOK'
    BY <1>2, <1>t, <2>4, Zenon DEF ClientTypeOK, Wait, wait_for_lock
  <2> QED BY <2>1, <2>5, <1>w, Zenon DEF IInv
<1>3. ASSUME NEW c \in Clients, Send(c) PROVE IInv'
  <2>1. Core'
    BY <1>3, <1>t, SendCore, Zenon DEF Send
  <2>2. ClientTypeOK'
    BY <1>3, <1>t, Zenon DEF ClientTypeOK, Send, do_send, States
  <2> QED BY <2>1, <2>2, <1>w, Zenon DEF IInv
<1>4. ASSUME NEW c \in Clients, ClientStep(c) PROVE IInv'
  <2>1. Core'
    BY <1>4, <1>t, TimerCore, Zenon DEF ClientStep
  <2>2. ClientTypeOK'
    BY <1>4, <1>t, Zenon DEF ClientTypeOK, ClientStep, timer_expires, timer_run
  <2> QED BY <2>1, <2>2, <1>w DEF IInv
<1>5. ASSUME NEW c \in Clients, Done(c) PROVE IInv'
  <2>1. CASE datagram_finalize(c)
    <3>1. Core'
      BY <1>5, <1>t, <2>1, FinalizeCore, Zenon DEF Done
    <3>2. ClientTypeOK'
      BY <1>t, <2>1, Zenon DEF ClientTypeOK, datagram_finalize, States
    <3> QED BY <3>1, <3>2, <1>w DEF IInv
  <2>2. CASE timeout_waiting_for_dg_response(c)
    <3>1. assertion' = "none" => Core'
      BY <1>5, <1>t, <2>2, TimeoutCore, Zenon DEF Done
    <3>2. waitingClients' \in [Clients -> Seq(Clients)]
      BY <1>t, <2>2, HandedOnType, Zenon
      DEF ClientTypeOK, timeout_waiting_for_dg_response, unregister_response_handler
    <3>3. ClientTypeOK'
      BY <1>t, <2>2, <3>2, Zenon
      DEF ClientTypeOK, timeout_waiting_for_dg_response, unregister_response_handler,
          States, Flags, Errors
    <3> QED BY <3>1, <3>3, <1>w, Zenon DEF IInv
  <2> QED BY <1>5, <2>1, <2>2, Zenon DEF Done
<1>6. ASSUME NEW d \in Dsts, ReceiveReboot(d) PROVE IInv'
  <2>1. CASE UNCHANGED clientVars
    BY <2>1, OthersInv, <1>w, Zenon
  <2>2. ASSUME NEW c \in SendersTo(d), handle_reboot(c, d) PROVE IInv'
    <3>1. c \in Clients /\ sendPending[c] /\ Core
      BY <1>6, <1>t, Zenon DEF SendersTo, ReceiveReboot
    <3>2. result[c] = {"OPERATION_PENDING"}
      BY <3>1, Zenon DEF Core, Flows, Results
    <3>3. stop_waiting_for_response(c, {"OPERATION_PENDING"} \cup {"DST_REBOOT"})
      BY <2>2, <3>2, Zenon DEF handle_reboot
    <3> QED BY <1>t, <3>1, <3>3, OutcomeFlags, StopInv, <1>w, Zenon
  <2> QED BY <1>6, <2>1, <2>2, Zenon DEF ReceiveReboot
<1>7. ASSUME NEW d \in Dsts, ReceiveResponse(d) PROVE IInv'
  <2>1. CASE UNCHANGED clientVars
    BY <2>1, OthersInv, <1>w
  <2>2. ASSUME NEW c \in SendersTo(d), NEW s, NEW mti, NEW code,
               handle_response(c, s, d, mti, code)
        PROVE  IInv'
    <3>1. c \in Clients /\ sendPending[c] /\ Core
      BY <1>7, <1>t, Zenon DEF SendersTo, ReceiveResponse
    <3>2. result[c] = {"OPERATION_PENDING"}
      BY <3>1 DEF Core, Flows, Results
    <3> DEFINE low == {"PERMANENT_ERROR", "RESEND_OK"}
               p == {"OPERATION_PENDING"}
               flags == IF mti = "DATAGRAM_OK" THEN p \cup {"OPERATION_SUCCESS"}
                        ELSE (p \ low) \cup (IF code \cap low = {} THEN {"PERMANENT_ERROR"}
                                             ELSE code \cap low)
    <3>3. stop_waiting_for_response(c, flags)
      BY <2>2, <3>2, Zenon DEF handle_response
    <3>4. flags \in SUBSET Flags /\ ("OPERATION_SUCCESS" \in flags <=> flags \cap Errors = {})
      BY OutcomeFlags, Zenon
    <3> HIDE DEF flags
    <3> QED BY <1>t, <3>1, <3>3, <3>4, StopInv, <1>w, Zenon
  <2> QED BY <1>7, <2>1, <2>2, Zenon DEF ReceiveResponse
<1>8. CASE WriteFlowStep
  BY <1>8, OthersInv, <1>w, Zenon DEF WriteFlowStep
<1>9. ASSUME NEW d \in Dsts,
             \/ PeerReceive(d) \/ PeerHandle(d) \/ PeerDown(d) \/ FrameLost(d)
             \/ PeerStart(d) \/ ReceiveDefinition(d)
      PROVE  IInv'
  BY <1>9, OthersInv, <1>w, Zenon
  DEF PeerReceive, PeerHandle, PeerDown, FrameLost, PeerStart, ReceiveDefinition
<1>10. CASE UNCHANGED vars
  BY <1>10, OthersInv, <1>w, Zenon DEF vars
<1> QED BY <1>1, <1>2, <1>3, <1>4, <1>5, <1>6, <1>7, <1>8, <1>9, <1>10, Zenon DEF Next

\* The invariant holds throughout.
LEMMA Invariance == Spec => []IInv
BY InitInv, NextInv, PTL DEF Spec

-----------------------------------------------------------------------------
(***************************************************************************)
(* The types of the transport.                                             *)
(***************************************************************************)

\* A datagram that was written has at least one frame.
Sendable == [src : Srcs, dst : Dsts, frames : Nat \ {0}, id : Nat]

WriteFlowStates ==
  {"idle", "send_ame_frame", "send_verify_nodeid_global",
   "fill_verify_nodeid_global", "wait_looking_for_dst", "fill_can_frame_buffer"}

\* The types of the transport, a little stronger than CanTypeOK: the write flow
\* has a datagram while it works, and a complete datagram has a frame.
BusType ==
  /\ sendQueue \in Seq(Sendable)
  /\ \A c \in Clients : state[c] # "terminated" => msg[c] \in Sendable
  /\ wf \in WriteFlowStates
  /\ wf # "idle" => sendQueue # <<>>
  /\ wtimer \in {"idle", "active", "expired"}
  /\ listening \in BOOLEAN /\ found \in BOOLEAN /\ lookupDead \in BOOLEAN
  /\ dataOffset \in Nat
  /\ remote \in [Dsts -> {"unknown", "known", "not_responding"}]
  /\ wire \in [Dsts -> Seq(Frames \cup Enquiries)]
  /\ back \in [Dsts -> Seq(Answers)]
  /\ up \in [Dsts -> BOOLEAN]
  /\ pendingBuffers \in [Srcs \X Dsts -> Seq(Frames)]
  /\ inbox \in [Dsts -> Seq(Seq(Frames) \ {<<>>})]
  /\ downs \in Nat /\ lost \in Nat
  /\ accepted \in [Pairs -> Nat] /\ succeeded \in [Pairs -> Nat]

Frame(s, id, n, k) ==
  [type |-> FrameType(k, n), src |-> s, id |-> id, k |-> k, n |-> n]

\* The frames the write flow makes.
LEMMA FrameFacts ==
  ASSUME NEW s \in Srcs, NEW id \in Nat, NEW n \in Nat \ {0}, NEW k \in Nat
  PROVE  /\ Frame(s, id, n, k) \in Frames
         /\ Frame(s, id, n, k).src = s /\ Frame(s, id, n, k).id = id
         /\ Frame(s, id, n, k).n = n /\ Frame(s, id, n, k).k = k
         /\ Frame(s, id, n, k).type = FrameType(k, n)
<1>1. FrameType(k, n) \in {"one", "first", "middle", "final"}
  BY Zenon DEF FrameType
<1> QED BY <1>1, Zenon DEF Frame, Frames

\* A frame is not an enquiry.
LEMMA FrameOrEnquiry ==
  ASSUME NEW f \in Frames PROVE f \notin Enquiries
<1>1. "src" \in DOMAIN f
  BY Zenon DEF Frames
<1>2. f \in Enquiries => DOMAIN f = {"type"}
  BY Zenon DEF Enquiries
<1> QED BY <1>1, <1>2

\* What parse() may do with a frame.
LEMMA ParseCases ==
  ASSUME NEW d \in Dsts, NEW f \in Frames, parse(d, f), BusType
  PROVE  LET p == <<f.src, d>>
             buf == pendingBuffers[p]
         IN  /\ p \in Srcs \X Dsts /\ buf \in Seq(Frames)
             /\ \/ f.type = "one" /\ Deliver(d, <<f>>) /\ UNCHANGED <<back, pendingBuffers>>
                \/ /\ f.type = "first" /\ buf = <<>>
                   /\ pendingBuffers' = [pendingBuffers EXCEPT ![p] = <<f>>]
                   /\ UNCHANGED <<back, inbox>>
                \/ /\ f.type = "middle" /\ buf # <<>> /\ Len(buf) < MaxFrames
                   /\ pendingBuffers' = [pendingBuffers EXCEPT ![p] = Append(buf, f)]
                   /\ UNCHANGED <<back, inbox>>
                \/ /\ f.type = "final" /\ buf # <<>> /\ Len(buf) < MaxFrames
                   /\ Deliver(d, Append(buf, f))
                   /\ pendingBuffers' = [pendingBuffers EXCEPT ![p] = <<>>]
                   /\ UNCHANGED back
                \/ /\ f.type # "one" /\ (f.type = "first" => buf # <<>>)
                   /\ \E code \in {{"RESEND_OK"}, {"PERMANENT_ERROR"}} : Reject(d, f.src, code)
                   /\ pendingBuffers' = [pendingBuffers EXCEPT ![p] = <<>>]
                   /\ UNCHANGED inbox
<1> DEFINE p == <<f.src, d>>
           buf == pendingBuffers[p]
<1>1. /\ f.src \in Srcs /\ f.type \in {"one", "first", "middle", "final"}
  BY Zenon DEF Frames
<1>2. p \in Srcs \X Dsts /\ buf \in Seq(Frames) /\ pendingBuffers \in [Srcs \X Dsts -> Seq(Frames)]
  BY <1>1, Zenon DEF BusType
<1>3. Len(buf) \in Nat /\ MaxFrames \in Nat
  BY <1>2, CanAssumption
<1> DEFINE L == Len(buf)
           E == buf = <<>>
           Cut == pendingBuffers' = [pendingBuffers EXCEPT ![p] = <<>>]
<1>4. E /\ UNCHANGED pendingBuffers => Cut
  BY <1>2, Zenon
<1>5. (L < MaxFrames) \/ (L >= MaxFrames)
  BY <1>3
<1>6. CASE f.type = "one"
  BY <1>2, <1>6, Zenon DEF parse
<1>7. CASE f.type = "first"
  <2>1. CASE E
    BY <1>2, <1>7, <2>1, Zenon DEF parse
  <2>2. CASE ~E
    BY <1>2, <1>7, <2>2, Zenon DEF parse
  <2> QED BY <2>1, <2>2, Zenon
<1>8. CASE f.type = "middle"
  <2>1. CASE E
    BY <1>2, <1>4, <1>8, <2>1, Zenon DEF parse
  <2>2. CASE ~E /\ L < MaxFrames
    BY <1>2, <1>3, <1>8, <2>2, Zenon DEF parse
  <2>3. CASE ~E /\ L >= MaxFrames
    BY <1>2, <1>3, <1>8, <2>3, Zenon DEF parse
  <2> QED BY <1>5, <2>1, <2>2, <2>3, Zenon
<1>9. CASE f.type = "final"
  <2>1. CASE E
    BY <1>2, <1>4, <1>9, <2>1, Zenon DEF parse
  <2>2. CASE ~E /\ L < MaxFrames
    BY <1>2, <1>3, <1>9, <2>2, Zenon DEF parse
  <2>3. CASE ~E /\ L >= MaxFrames
    BY <1>2, <1>3, <1>9, <2>3, Zenon DEF parse
  <2> QED BY <1>5, <2>1, <2>2, <2>3
<1> QED BY <1>1, <1>6, <1>7, <1>8, <1>9, Zenon

\* The initial states.
LEMMA BusInit == Init => BusType
<1> SUFFICES ASSUME Init PROVE BusType
  OBVIOUS
<1>1. /\ wire = [d \in Dsts |-> <<>>] /\ back = [d \in Dsts |-> <<>>]
      /\ inbox = [d \in Dsts |-> <<>>] /\ pendingBuffers = [p \in Srcs \X Dsts |-> <<>>]
      /\ sendQueue = <<>>
  BY Zenon DEF Init, CanInit
<1>2. /\ wire \in [Dsts -> Seq(Frames \cup Enquiries)] /\ back \in [Dsts -> Seq(Answers)]
      /\ inbox \in [Dsts -> Seq(Seq(Frames) \ {<<>>})]
      /\ pendingBuffers \in [Srcs \X Dsts -> Seq(Frames)] /\ sendQueue \in Seq(Sendable)
  BY <1>1
<1>3. \A c \in Clients : state[c] = "terminated"
  BY Zenon DEF Init, ClientInit
<1> QED BY <1>2, <1>3, Zenon DEF Init, CanInit, BusType, WriteFlowStates

\* What touches neither the transport nor what is to be sent.
LEMMA BusQuiet ==
  ASSUME BusType, UNCHANGED <<canVars, downs, lost>>,
         accepted' \in [Pairs -> Nat], succeeded' \in [Pairs -> Nat],
         \A c \in Clients : state'[c] # "terminated" => msg'[c] \in Sendable
  PROVE  BusType'
BY Zenon DEF BusType, canVars, writeVars, peerVars

\* The client that sends next has something to send.
LEMMA CurFacts ==
  ASSUME BusType, sendQueue # <<>>
  PROVE  /\ cur \in Sendable /\ Tail(sendQueue) \in Seq(Sendable)
         /\ cur.dst \in Dsts /\ cur.src \in Srcs /\ cur.frames \in Nat \ {0} /\ cur.id \in Nat
<1>1. cur \in Sendable /\ Tail(sendQueue) \in Seq(Sendable)
  BY DEF BusType, cur
<1> QED BY <1>1, Zenon DEF Sendable

\* One more item in one of the channels.
LEMMA AppendedType ==
  ASSUME NEW D, NEW S, NEW ch \in [D -> Seq(S)], NEW d \in D, NEW x \in S
  PROVE  [ch EXCEPT ![d] = Append(@, x)] \in [D -> Seq(S)]
<1>1. ch[d] \in Seq(S)
  BY Zenon
<1>2. Append(ch[d], x) \in Seq(S)
  BY <1>1
<1> QED BY <1>2, Zenon

\* One item less.
LEMMA TailType ==
  ASSUME NEW D, NEW S, NEW ch \in [D -> Seq(S)], NEW d \in D, ch[d] # <<>>
  PROVE  /\ [ch EXCEPT ![d] = Tail(@)] \in [D -> Seq(S)]
         /\ Head(ch[d]) \in S
<1>1. ch[d] \in Seq(S) /\ ch[d] # <<>>
  BY Zenon
<1>2. Tail(ch[d]) \in Seq(S) /\ Head(ch[d]) \in S
  BY <1>1
<1> QED BY <1>2, Zenon

\* The write flow keeps the types.
LEMMA WriteFlowType ==
  ASSUME BusType, WriteFlowStep
  PROVE  BusType'
<1>c. /\ UNCHANGED clientVars /\ UNCHANGED <<downs, lost, accepted, succeeded>>
  BY Zenon DEF WriteFlowStep
<1>m. \A c \in Clients : state'[c] # "terminated" => msg'[c] \in Sendable
  BY <1>c, Zenon DEF clientVars, BusType
<1>1. CASE send_to_hardware
  <2>1. sendQueue # <<>> /\ Tail(sendQueue) \in Seq(Sendable)
    BY <1>1, CurFacts, Zenon DEF send_to_hardware
  <2> QED BY <1>1, <1>c, <1>m, <2>1, Zenon DEF send_to_hardware, BusType, WriteFlowStates, peerVars
<1>2. CASE send_ame_frame
  <2>1. cur.dst \in Dsts
    BY <1>2, CurFacts, Zenon DEF send_ame_frame, BusType
  <2>2. [type |-> "AME"] \in Frames \cup Enquiries
    BY Zenon DEF Enquiries
  <2>3. wire' \in [Dsts -> Seq(Frames \cup Enquiries)]
    BY <1>2, <2>1, <2>2, AppendedType DEF send_ame_frame, BusType
  <2> QED BY <1>2, <1>c, <1>m, <2>3, Zenon DEF send_ame_frame, BusType, WriteFlowStates, peerVars
<1>3. CASE wtimer_expires \/ wtimer_run \/ send_verify_nodeid_global
  BY <1>3, <1>c, <1>m, Zenon
  DEF wtimer_expires, wtimer_run, send_verify_nodeid_global, BusType, WriteFlowStates, peerVars
<1>4. CASE fill_verify_nodeid_global
  <2>1. cur.dst \in Dsts
    BY <1>4, CurFacts, Zenon DEF fill_verify_nodeid_global, BusType
  <2>2. [type |-> "VERIFY_NODE_ID_GLOBAL"] \in Frames \cup Enquiries
    BY Zenon DEF Enquiries
  <2>3. wire' \in [Dsts -> Seq(Frames \cup Enquiries)]
    BY <1>4, <2>1, <2>2, AppendedType DEF fill_verify_nodeid_global, BusType
  <2> QED BY <1>4, <1>c, <1>m, <2>3, Zenon
          DEF fill_verify_nodeid_global, BusType, WriteFlowStates, peerVars
<1>5. CASE wait_looking_for_dst
  <2>1. sendQueue # <<>> /\ Tail(sendQueue) \in Seq(Sendable)
    BY <1>5, CurFacts, Zenon DEF wait_looking_for_dst, BusType
  <2> QED BY <1>5, <1>c, <1>m, <2>1, Zenon
          DEF wait_looking_for_dst, BusType, WriteFlowStates, peerVars
<1>6. CASE fill_can_frame_buffer
  <2>1. /\ cur.dst \in Dsts /\ cur.src \in Srcs /\ cur.frames \in Nat \ {0} /\ cur.id \in Nat
        /\ Tail(sendQueue) \in Seq(Sendable) /\ dataOffset + 1 \in Nat
    BY <1>6, CurFacts DEF fill_can_frame_buffer, BusType
  <2> DEFINE f == Frame(cur.src, cur.id, cur.frames, dataOffset + 1)
  <2>2. f \in Frames \cup Enquiries
    BY <2>1, FrameFacts, Zenon
  <2>3. wire' = [wire EXCEPT ![cur.dst] = Append(@, f)]
    BY <1>6, Zenon DEF fill_can_frame_buffer, Frame
  <2> HIDE DEF f
  <2>4. wire' \in [Dsts -> Seq(Frames \cup Enquiries)]
    BY <2>1, <2>2, <2>3, AppendedType DEF BusType
  <2>5. /\ dataOffset' \in Nat
        /\ \/ UNCHANGED <<wf, sendQueue>>
           \/ wf' = "idle" /\ sendQueue' = Tail(sendQueue)
        /\ UNCHANGED <<wtimer, listening, found, remote, lookupDead, back, peerVars>>
    BY <1>6, <2>1, Zenon DEF fill_can_frame_buffer
  <2> QED BY <1>c, <1>m, <2>1, <2>4, <2>5, Zenon DEF BusType, WriteFlowStates, peerVars
<1> QED BY <1>1, <1>2, <1>3, <1>4, <1>5, <1>6, Zenon DEF WriteFlowStep

\* So does a destination that takes what arrives.
LEMMA PeerReceiveType ==
  ASSUME BusType, NEW d \in Dsts, PeerReceive(d)
  PROVE  BusType'
<1>c. UNCHANGED <<clientVars, writeVars, writes, downs, lost, accepted, succeeded>>
  BY Zenon DEF PeerReceive, peer_receive
<1>1. wire' \in [Dsts -> Seq(Frames \cup Enquiries)] /\ Head(wire[d]) \in Frames \cup Enquiries
  BY TailType DEF PeerReceive, peer_receive, BusType
<1> SUFFICES /\ back' \in [Dsts -> Seq(Answers)] /\ up' \in [Dsts -> BOOLEAN]
             /\ pendingBuffers' \in [Srcs \X Dsts -> Seq(Frames)]
             /\ inbox' \in [Dsts -> Seq(Seq(Frames) \ {<<>>})]
  BY <1>c, <1>1, Zenon DEF BusType, clientVars, writeVars
<1> DEFINE f == Head(wire[d])
<1>2. CASE UNCHANGED <<back, peerVars>>
  BY <1>2, Zenon DEF peerVars, BusType
<1>3. CASE /\ back' = [back EXCEPT ![d] = Append(@, [type |->
                         IF f.type = "AME" THEN "AMD" ELSE "VERIFIED_NODE_ID"])]
           /\ UNCHANGED peerVars
  <2>1. \A x \in {"AMD", "VERIFIED_NODE_ID"} : [type |-> x] \in Answers
    BY Zenon DEF Answers
  <2>2. [type |-> IF f.type = "AME" THEN "AMD" ELSE "VERIFIED_NODE_ID"] \in Answers
    BY <2>1, Zenon
  <2> QED BY <1>3, <2>2, AppendedType DEF peerVars, BusType
<1>4. CASE f \notin Enquiries /\ parse(d, f) /\ UNCHANGED up
  <2>1. f \in Frames
    BY <1>1, <1>4, Zenon
  <2> HIDE DEF f
  <2> DEFINE p == <<f.src, d>>
             buf == pendingBuffers[p]
  <2>2. /\ p \in Srcs \X Dsts /\ buf \in Seq(Frames)
        /\ \/ f.type = "one" /\ Deliver(d, <<f>>) /\ UNCHANGED <<back, pendingBuffers>>
           \/ /\ f.type = "first" /\ buf = <<>>
              /\ pendingBuffers' = [pendingBuffers EXCEPT ![p] = <<f>>]
              /\ UNCHANGED <<back, inbox>>
           \/ /\ f.type = "middle" /\ buf # <<>> /\ Len(buf) < MaxFrames
              /\ pendingBuffers' = [pendingBuffers EXCEPT ![p] = Append(buf, f)]
              /\ UNCHANGED <<back, inbox>>
           \/ /\ f.type = "final" /\ buf # <<>> /\ Len(buf) < MaxFrames
              /\ Deliver(d, Append(buf, f))
              /\ pendingBuffers' = [pendingBuffers EXCEPT ![p] = <<>>]
              /\ UNCHANGED back
           \/ /\ f.type # "one" /\ (f.type = "first" => buf # <<>>)
              /\ \E code \in {{"RESEND_OK"}, {"PERMANENT_ERROR"}} : Reject(d, f.src, code)
              /\ pendingBuffers' = [pendingBuffers EXCEPT ![p] = <<>>]
              /\ UNCHANGED inbox
    BY <1>4, <2>1, ParseCases, Zenon
  <2>3. /\ <<f>> \in Seq(Frames) \ {<<>>} /\ Append(buf, f) \in Seq(Frames) \ {<<>>}
        /\ <<>> \in Seq(Frames)
    <3>1. buf \in Seq(Frames)
      BY <2>2, Zenon
    <3> HIDE DEF buf
    <3>2. Append(buf, f) \in Seq(Frames) /\ Append(buf, f) # <<>>
      BY <2>1, <3>1, AppendFacts, Zenon
    <3>3. <<f>> \in Seq(Frames) \ {<<>>} /\ <<>> \in Seq(Frames)
      BY ONLY <2>1
    <3> QED BY <3>2, <3>3, Zenon
  <2>4. \A g \in Seq(Frames) : [pendingBuffers EXCEPT ![p] = g] \in [Srcs \X Dsts -> Seq(Frames)]
    BY <2>2, Zenon DEF BusType
  <2>5. \A g \in Seq(Frames) \ {<<>>} :
          [inbox EXCEPT ![d] = Append(@, g)] \in [Dsts -> Seq(Seq(Frames) \ {<<>>})]
    BY AppendedType, Zenon DEF BusType
  <2>6. \A code \in {{"RESEND_OK"}, {"PERMANENT_ERROR"}} :
          Reject(d, f.src, code) => back' \in [Dsts -> Seq(Answers)]
    <3>1. f.src \in Srcs
      BY <2>1, Zenon DEF Frames
    <3>2. \A code \in {{"RESEND_OK"}, {"PERMANENT_ERROR"}} :
            [type |-> "DATAGRAM_REJECTED", dst |-> f.src, code |-> code] \in Answers
      BY <3>1, Zenon DEF Answers
    <3>3. ASSUME NEW code \in {{"RESEND_OK"}, {"PERMANENT_ERROR"}}, Reject(d, f.src, code)
          PROVE  back' \in [Dsts -> Seq(Answers)]
      <4> DEFINE a == [type |-> "DATAGRAM_REJECTED", dst |-> f.src, code |-> code]
      <4>1. a \in Answers /\ back' = [back EXCEPT ![d] = Append(@, a)]
        BY <3>2, <3>3, Zenon DEF Reject
      <4> HIDE DEF a
      <4> QED BY <4>1, AppendedType, Zenon DEF BusType
    <3> QED BY <3>3, Zenon
  <2>7. /\ back \in [Dsts -> Seq(Answers)] /\ up \in [Dsts -> BOOLEAN]
        /\ pendingBuffers \in [Srcs \X Dsts -> Seq(Frames)]
        /\ inbox \in [Dsts -> Seq(Seq(Frames) \ {<<>>})]
    BY Zenon DEF BusType
  <2> HIDE DEF p, buf
  <2>8. up' = up
    BY <1>4, Zenon
  <2>9. CASE f.type = "one" /\ Deliver(d, <<f>>) /\ UNCHANGED <<back, pendingBuffers>>
    BY <2>9, <2>3, <2>5, <2>7, <2>8, Zenon DEF Deliver
  <2>10. CASE /\ \E g \in Seq(Frames) : pendingBuffers' = [pendingBuffers EXCEPT ![p] = g]
              /\ UNCHANGED <<back, inbox>>
    BY <2>10, <2>4, <2>7, <2>8, Zenon
  <2>11. CASE /\ Deliver(d, Append(buf, f)) /\ UNCHANGED back
              /\ pendingBuffers' = [pendingBuffers EXCEPT ![p] = <<>>]
    BY <2>11, <2>3, <2>4, <2>5, <2>7, <2>8, Zenon DEF Deliver
  <2>12. CASE /\ \E code \in {{"RESEND_OK"}, {"PERMANENT_ERROR"}} : Reject(d, f.src, code)
              /\ pendingBuffers' = [pendingBuffers EXCEPT ![p] = <<>>]
              /\ UNCHANGED inbox
    BY <2>12, <2>3, <2>4, <2>6, <2>7, <2>8, Zenon
  <2> QED BY <2>2, <2>3, <2>9, <2>10, <2>11, <2>12, Zenon
<1> QED BY <1>2, <1>3, <1>4, Zenon DEF PeerReceive, peer_receive

\* A client that is not done keeps its message.
LEMMA ClientsType ==
  ASSUME IInv, BusType, NEW c \in Clients,
         UNCHANGED msg,
         \E v : state' = [state EXCEPT ![c] = v] /\ (v = "terminated" \/ state[c] # "terminated")
  PROVE  \A x \in Clients : state'[x] # "terminated" => msg'[x] \in Sendable
BY Zenon DEF IInv, ClientTypeOK, BusType

\* Counting one up.
LEMMA CountType ==
  ASSUME NEW h \in [Pairs -> Nat], NEW q
  PROVE  [h EXCEPT ![q] = @ + 1] \in [Pairs -> Nat]
<1>1. CASE q \in Pairs
  BY <1>1
<1>2. CASE q \notin Pairs
  BY <1>2, Zenon
<1> QED BY <1>1, <1>2, Zenon

\* A client runs.
LEMMA ClientBusType ==
  ASSUME IInv, BusType, NEW c \in Clients, 
         Write(c) \/ Wait(c) \/ Send(c) \/ ClientStep(c) \/ Done(c)
  PROVE  BusType'
<1>h. accepted \in [Pairs -> Nat] /\ succeeded \in [Pairs -> Nat]
  BY Zenon DEF BusType
<1>1. CASE Write(c)
  <2>1. PICK s \in Srcs, e \in Dsts, n \in FrameCounts :
          write_datagram(c, [src |-> s, dst |-> e, frames |-> n, id |-> writes])
    BY <1>1, Zenon DEF Write
  <2>2. [src |-> s, dst |-> e, frames |-> n, id |-> writes] \in Sendable
    BY FrameCountsAssumption, Zenon DEF IInv, Sendable
  <2>3. \A x \in Clients : state'[x] # "terminated" => msg'[x] \in Sendable
    BY <2>1, <2>2, Zenon DEF write_datagram, IInv, ClientTypeOK, BusType
  <2> QED BY <1>1, <1>h, <2>3, BusQuiet, Zenon DEF Write
<1>2. CASE Wait(c) \/ ClientStep(c)
  <2>1. UNCHANGED <<state, msg, canVars, downs, lost, accepted, succeeded>>
    BY <1>2, Zenon DEF Wait, ClientStep, wait_for_lock, timer_expires, timer_run
  <2> QED BY <1>h, <2>1, BusQuiet, Zenon DEF BusType
<1>3. CASE Send(c)
  <2>1. /\ state[c] = "start_send" /\ UNCHANGED msg
        /\ state' = [state EXCEPT ![c] = "timeout_waiting_for_dg_response"]
    BY <1>3, Zenon DEF Send, do_send
  <2>2. \A x \in Clients : state'[x] # "terminated" => msg'[x] \in Sendable
    BY <2>1, ClientsType, Zenon
  <2>3. /\ sendQueue' = Append(sendQueue, msg[c])
        /\ UNCHANGED <<wf, wtimer, listening, found, dataOffset, remote, lookupDead,
                       wire, back, peerVars, downs, lost, accepted, succeeded>>
    BY <1>3, Zenon DEF Send, Submit
  <2>4. sendQueue \in Seq(Sendable) /\ msg[c] \in Sendable
    BY <2>1, Zenon DEF BusType
  <2>5. sendQueue' \in Seq(Sendable) /\ sendQueue' # <<>>
    BY <2>3, <2>4, AppendFacts
  <2> QED BY <2>2, <2>3, <2>5, Zenon DEF BusType, peerVars
<1>4. CASE Done(c)
  <2>1. UNCHANGED msg /\ state' = [state EXCEPT ![c] = "terminated"]
    BY <1>4, Zenon DEF Done, timeout_waiting_for_dg_response, datagram_finalize
  <2>2. \A x \in Clients : state'[x] # "terminated" => msg'[x] \in Sendable
    BY <2>1, ClientsType, Zenon
  <2>3. succeeded' \in [Pairs -> Nat]
    BY <1>4, <1>h, CountType, Zenon DEF Done
  <2> QED BY <1>4, <1>h, <2>2, <2>3, BusQuiet, Zenon DEF Done
<1> QED BY <1>1, <1>2, <1>3, <1>4, Zenon

\* What a destination does by itself.
LEMMA PeerBusType ==
  ASSUME BusType, NEW d \in Dsts,
         PeerHandle(d) \/ PeerDown(d) \/ FrameLost(d) \/ PeerStart(d)
  PROVE  BusType'
<1>t. /\ accepted \in [Pairs -> Nat] /\ succeeded \in [Pairs -> Nat]
      /\ wire \in [Dsts -> Seq(Frames \cup Enquiries)]
      /\ back \in [Dsts -> Seq(Answers)]
      /\ up \in [Dsts -> BOOLEAN]
      /\ pendingBuffers \in [Srcs \X Dsts -> Seq(Frames)]
      /\ inbox \in [Dsts -> Seq(Seq(Frames) \ {<<>>})]
      /\ downs \in Nat /\ lost \in Nat
  BY Zenon DEF BusType
<1>m. \A c \in Clients : state'[c] # "terminated" => msg'[c] \in Sendable
  BY Zenon DEF BusType, PeerHandle, PeerDown, FrameLost, PeerStart, clientVars
<1>w. UNCHANGED writeVars
  BY Zenon DEF PeerHandle, PeerDown, FrameLost, PeerStart, peer_handle, peer_down, peer_start
<1> SUFFICES /\ accepted' \in [Pairs -> Nat] /\ succeeded' \in [Pairs -> Nat]
             /\ wire' \in [Dsts -> Seq(Frames \cup Enquiries)]
             /\ back' \in [Dsts -> Seq(Answers)]
             /\ up' \in [Dsts -> BOOLEAN]
             /\ pendingBuffers' \in [Srcs \X Dsts -> Seq(Frames)]
             /\ inbox' \in [Dsts -> Seq(Seq(Frames) \ {<<>>})]
             /\ downs' \in Nat /\ lost' \in Nat
  BY <1>m, <1>w, Zenon DEF BusType, writeVars
<1>1. CASE PeerHandle(d)
  <2>1. PICK answer \in {"respond_ok", "respond_rejection", "respond_reject", "none"} :
          /\ peer_handle(d, answer)
          /\ accepted' = IF answer = "respond_ok"
                         THEN [accepted EXCEPT ![<<Head(inbox[d])[1].src, d>>] = @ + 1]
                         ELSE accepted
    BY <1>1, Zenon DEF PeerHandle
  <2> DEFINE s == Head(inbox[d])[1].src
  <2>2. inbox' \in [Dsts -> Seq(Seq(Frames) \ {<<>>})] /\ Head(inbox[d]) \in Seq(Frames) \ {<<>>}
    <3>1. inbox[d] # <<>> /\ inbox' = [inbox EXCEPT ![d] = Tail(@)]
      BY <2>1, Zenon DEF peer_handle
    <3> QED BY <3>1, <1>t, TailType, Zenon
  <2>3. s \in Srcs
    <3>1. Head(inbox[d])[1] \in Frames
      BY <2>2
    <3> QED BY <3>1, Zenon DEF Frames
  <2>4. accepted' \in [Pairs -> Nat]
    BY <2>1, <1>t, CountType, Zenon
  <2>5. \/ UNCHANGED back
        \/ \E a \in Answers : back' = [back EXCEPT ![d] = Append(@, a)]
    <3> HIDE DEF s
    <3>1. /\ [type |-> "DATAGRAM_OK", dst |-> s, code |-> {}] \in Answers
          /\ \A code \in {{"PERMANENT_ERROR"}, {}} :
               [type |-> "DATAGRAM_REJECTED", dst |-> s, code |-> code] \in Answers
      BY <2>3, Zenon DEF Answers
    <3>2. CASE answer = "respond_ok"
      BY <2>1, <3>1, <3>2, Zenon DEF peer_handle, s
    <3>3. CASE answer = "respond_rejection"
      BY <2>1, <3>1, <3>3, Zenon DEF peer_handle, s, Reject
    <3>4. CASE answer = "respond_reject"
      BY <2>1, <3>1, <3>4, Zenon DEF peer_handle, s, Reject
    <3>5. CASE answer = "none"
      BY <2>1, <3>5, Zenon DEF peer_handle
    <3> QED BY <3>2, <3>3, <3>4, <3>5, Zenon
  <2>6. back' \in [Dsts -> Seq(Answers)]
    <3>1. ASSUME NEW a \in Answers, back' = [back EXCEPT ![d] = Append(@, a)]
          PROVE  back' \in [Dsts -> Seq(Answers)]
      BY ONLY <3>1, <1>t, d \in Dsts, AppendedType, Zenon
    <3> QED BY <2>5, <3>1, <1>t, Zenon
  <2>7. UNCHANGED <<wire, up, pendingBuffers, downs, lost, succeeded>>
    BY <1>1, <2>1, Zenon DEF PeerHandle, peer_handle
  <2> QED BY <1>t, <2>2, <2>4, <2>6, <2>7, Zenon
<1>2. CASE PeerDown(d)
  <2>1. /\ up' = [up EXCEPT ![d] = FALSE] /\ downs' = downs + 1
        /\ pendingBuffers' = [p \in Srcs \X Dsts |-> IF p[2] = d THEN <<>> ELSE pendingBuffers[p]]
        /\ inbox' = [inbox EXCEPT ![d] = <<>>]
        /\ UNCHANGED <<wire, back, lost, accepted, succeeded>>
    BY <1>2, Zenon DEF PeerDown, peer_down
  <2>2. <<>> \in Seq(Frames) /\ <<>> \in Seq(Seq(Frames) \ {<<>>})
    OBVIOUS
  <2>3. pendingBuffers' \in [Srcs \X Dsts -> Seq(Frames)]
    BY <1>t, <2>1, <2>2, Zenon
  <2>4. inbox' \in [Dsts -> Seq(Seq(Frames) \ {<<>>})]
    BY <1>t, <2>1, <2>2, Zenon
  <2> QED BY <1>t, <2>1, <2>3, <2>4
<1>3. CASE FrameLost(d)
  <2>1. wire' \in [Dsts -> Seq(Frames \cup Enquiries)]
    BY <1>3, <1>t, TailType, Zenon DEF FrameLost
  <2> QED BY <1>3, <1>t, <2>1 DEF FrameLost, peerVars
<1>4. CASE PeerStart(d)
  <2> DEFINE two == <<[type |-> "AMD"], [type |-> "INITIALIZATION_COMPLETE"]>>
  <2>1. [type |-> "AMD"] \in Answers /\ [type |-> "INITIALIZATION_COMPLETE"] \in Answers
    BY Zenon DEF Answers
  <2>2. two \in Seq(Answers)
    BY <2>1
  <2>3. back' = [back EXCEPT ![d] = @ \o two]
    BY <1>4, Zenon DEF PeerStart, peer_start
  <2> HIDE DEF two
  <2>4. back[d] \o two \in Seq(Answers)
    BY <2>2, <1>t
  <2>5. back' \in [Dsts -> Seq(Answers)]
    BY <2>3, <2>4, <1>t, Zenon
  <2> QED BY <1>4, <1>t, <2>5, Zenon DEF PeerStart, peer_start
<1> QED BY <1>1, <1>2, <1>3, <1>4, Zenon

\* What a destination has sent arrives.
LEMMA ReceiveBusType ==
  ASSUME IInv, BusType, NEW d \in Dsts,
         ReceiveDefinition(d) \/ ReceiveReboot(d) \/ ReceiveResponse(d)
  PROVE  BusType'
<1>1. UNCHANGED <<sendQueue, wf, wtimer, dataOffset, wire, peerVars, downs, lost, accepted,
                  succeeded>>
  BY Zenon DEF ReceiveDefinition, ReceiveReboot, ReceiveResponse, alias_definition, canVars, writeVars
<1>2. back' \in [Dsts -> Seq(Answers)]
  <2>1. UNCHANGED back \/ back' = [back EXCEPT ![d] = Tail(@)]
    BY Zenon DEF ReceiveDefinition, ReceiveReboot, ReceiveResponse, Received, canVars
  <2>2. back[d] # <<>>
    BY Zenon DEF ReceiveDefinition, ReceiveReboot, ReceiveResponse
  <2>3. back \in [Dsts -> Seq(Answers)]
    BY Zenon DEF BusType
  <2>4. [back EXCEPT ![d] = Tail(@)] \in [Dsts -> Seq(Answers)]
    BY ONLY <2>2, <2>3, d \in Dsts, TailType, Zenon
  <2> QED BY <2>1, <2>3, <2>4, Zenon
<1>3. /\ remote' \in [Dsts -> {"unknown", "known", "not_responding"}]
      /\ listening' \in BOOLEAN /\ found' \in BOOLEAN /\ lookupDead' \in BOOLEAN
  <2>1. \/ UNCHANGED <<remote, listening, found, lookupDead>>
        \/ \E type : alias_definition(d, type)
    BY Zenon DEF ReceiveDefinition, ReceiveReboot, ReceiveResponse, canVars, writeVars
  <2> QED BY <2>1, Zenon DEF alias_definition, BusType, Awaited
<1>4. \A c \in Clients : state'[c] # "terminated" => msg'[c] \in Sendable
  <2>1. CASE UNCHANGED clientVars
    BY <2>1, Zenon DEF clientVars, BusType
  <2>2. ASSUME NEW c \in Clients, NEW flags, sendPending[c], stop_waiting_for_response(c, flags)
        PROVE  \A x \in Clients : state'[x] # "terminated" => msg'[x] \in Sendable
    <3>1. Running
      BY Zenon DEF ReceiveDefinition, ReceiveReboot, ReceiveResponse
    <3>2. state[c] # "terminated"
      BY <2>2, <3>1, Zenon DEF Running, IInv, Core, Flows, Sends
    <3>3. UNCHANGED msg /\ state' = [state EXCEPT ![c] = "datagram_finalize"]
      BY <2>2, Zenon DEF stop_waiting_for_response
    <3> QED BY <3>2, <3>3, ClientsType, Zenon
  <2>3. \/ UNCHANGED clientVars
        \/ \E c \in Clients : \E flags : sendPending[c] /\ stop_waiting_for_response(c, flags)
    <3>1. CASE ReceiveDefinition(d)
      BY <3>1, Zenon DEF ReceiveDefinition
    <3>2. CASE ReceiveReboot(d)
      BY <3>2, Zenon DEF ReceiveReboot, handle_reboot, SendersTo
    <3>3. CASE ReceiveResponse(d)
      BY <3>3, Zenon DEF ReceiveResponse, handle_response, SendersTo
    <3> QED BY <3>1, <3>2, <3>3, Zenon
  <2> QED BY <2>1, <2>2, <2>3, Zenon
<1> QED BY <1>1, <1>2, <1>3, <1>4, Zenon DEF BusType, peerVars

\* Every step keeps the types.
LEMMA BusStep == IInv /\ BusType /\ [Next]_vars => BusType'
<1> SUFFICES ASSUME IInv, BusType, [Next]_vars PROVE BusType'
  BY Zenon
<1>1. CASE UNCHANGED vars
  BY <1>1, Zenon DEF BusType, vars, clientVars, canVars, writeVars, peerVars
<1> QED BY <1>1, ClientBusType, WriteFlowType, PeerReceiveType, PeerBusType, ReceiveBusType, Zenon
        DEF Next

-----------------------------------------------------------------------------
(***************************************************************************)
(* The bus, and what the destinations have of it.                          *)
(***************************************************************************)

\* A frame as fill_can_frame_buffer() makes it.
Made(f) == f \in Frames /\ f.k \in 1 .. f.n /\ f.type = FrameType(f.k, f.n)

\* More frames of the same datagram come after f.
Open(f) == f \notin Enquiries /\ f.k < f.n

\* f belongs to nothing that came before.
Starts(f) == f \in Enquiries \/ f.k = 1

Succ(f) == Frame(f.src, f.id, f.n, f.k + 1)

\* The order of the bus: after f comes g.
Follows(f, g) == IF Open(f) THEN g = Succ(f) ELSE Starts(g)

\* The write flow is in the middle of a datagram to d; its last frame.
Midway(d) == wf = "fill_can_frame_buffer" /\ cur.dst = d /\ dataOffset > 0
LastSent == Frame(cur.src, cur.id, cur.frames, dataOffset)

InLine(w) ==
  /\ \A i \in 1 .. Len(w) : w[i] \in Enquiries \/ Made(w[i])
  /\ \A i \in 1 .. Len(w) - 1 : Follows(w[i], w[i + 1])

\* What is on the way to d has no gap, also not to what the write flow does next.
InOrder(d) ==
  /\ InLine(wire[d])
  /\ wire[d] # <<>> => /\ Midway(d) <=> Open(wire[d][Len(wire[d])])
                       /\ Midway(d) => wire[d][Len(wire[d])] = LastSent

WireInv ==
  /\ wf # "idle" /\ wf # "fill_can_frame_buffer" => dataOffset = 0
  /\ wf = "fill_can_frame_buffer" => dataOffset < cur.frames
  /\ \A d \in Dsts : InOrder(d)

NoFrame == [type |-> "none"]

\* The frame that comes next to d if it is not the first of its datagram.
Coming(d) ==
  IF wire[d] # <<>> THEN IF Starts(Head(wire[d])) THEN NoFrame ELSE Head(wire[d])
  ELSE IF Midway(d) THEN Succ(LastSent) ELSE NoFrame

\* The frames and their types.
LEMMA MadeFacts ==
  ASSUME NEW f, Made(f)
  PROVE  /\ f \in Frames /\ f.src \in Srcs /\ f.id \in Nat /\ f.n \in Nat \ {0} /\ f.k \in Nat
         /\ 1 <= f.k /\ f.k <= f.n /\ f \notin Enquiries /\ f # NoFrame
         /\ f.type = "one" <=> f.n = 1
         /\ f.type = "first" <=> f.n > 1 /\ f.k = 1
         /\ f.type = "final" <=> f.n > 1 /\ f.k = f.n
         /\ f.type = "middle" <=> 1 < f.k /\ f.k < f.n
<1>1. /\ f \in Frames /\ f.src \in Srcs /\ f.id \in Nat /\ f.n \in Nat /\ f.k \in Nat
      /\ f.type \in {"one", "first", "middle", "final"}
      /\ f.k \in 1 .. f.n /\ f.type = FrameType(f.k, f.n)
  BY Zenon DEF Made, Frames
<1>2. 1 <= f.k /\ f.k <= f.n /\ f.n \in Nat \ {0}
  BY <1>1
<1>3. f \notin Enquiries
  BY <1>1, FrameOrEnquiry, Zenon
<1>4. f # NoFrame
  BY <1>1 DEF NoFrame
<1>5. /\ f.type = "one" <=> f.n = 1
      /\ f.type = "first" <=> f.n > 1 /\ f.k = 1
      /\ f.type = "final" <=> f.n > 1 /\ f.k = f.n
      /\ f.type = "middle" <=> 1 < f.k /\ f.k < f.n
  BY <1>1, <1>2 DEF FrameType
<1> QED BY <1>1, <1>2, <1>3, <1>4, <1>5, Zenon

\* A frame is what its fields say.
LEMMA FrameMade ==
  ASSUME NEW s \in Srcs, NEW id \in Nat, NEW n \in Nat \ {0}, NEW k \in 1 .. n
  PROVE  /\ Made(Frame(s, id, n, k)) /\ Frame(s, id, n, k).src = s
         /\ Frame(s, id, n, k).id = id /\ Frame(s, id, n, k).n = n /\ Frame(s, id, n, k).k = k
<1>1. k \in Nat
  OBVIOUS
<1> QED BY <1>1, FrameFacts DEF Made

\* The frame after one that is not the last.
LEMMA SuccFacts ==
  ASSUME NEW f, Made(f), Open(f)
  PROVE  /\ Made(Succ(f)) /\ ~Starts(Succ(f)) /\ Succ(f) # NoFrame
         /\ Succ(f).src = f.src /\ Succ(f).id = f.id /\ Succ(f).n = f.n /\ Succ(f).k = f.k + 1
<1>1. /\ f.src \in Srcs /\ f.id \in Nat /\ f.n \in Nat \ {0} /\ f.k \in Nat /\ 1 <= f.k /\ f.k < f.n
  BY MadeFacts, Zenon DEF Open
<1>2. f.k + 1 \in 1 .. f.n
  BY <1>1
<1>3. /\ Made(Succ(f)) /\ Succ(f).src = f.src /\ Succ(f).id = f.id
      /\ Succ(f).n = f.n /\ Succ(f).k = f.k + 1
  BY <1>1, <1>2, FrameMade DEF Succ
<1>4. Succ(f) \notin Enquiries /\ Succ(f) # NoFrame
  BY <1>3, MadeFacts, Zenon
<1> QED BY <1>1, <1>3, <1>4 DEF Starts

\* What is left of an orderly bus is orderly.
LEMMA InLineTail ==
  ASSUME NEW S, NEW w \in Seq(S), w # <<>>, InLine(w)
  PROVE  /\ InLine(Tail(w)) /\ Len(w) \in Nat \ {0}
         /\ Tail(w) # <<>> => /\ Tail(w)[Len(Tail(w))] = w[Len(w)]
                              /\ Head(Tail(w)) = w[2] /\ Follows(w[1], w[2])
         /\ Tail(w) = <<>> => w[Len(w)] = Head(w)
         /\ Head(w) = w[1] /\ (w[1] \in Enquiries \/ Made(w[1]))
<1>1. /\ Tail(w) \in Seq(S) /\ Len(w) \in Nat /\ Len(w) >= 1
      /\ Len(Tail(w)) = Len(w) - 1 /\ w[1] = Head(w)
      /\ \A i \in 1 .. Len(w) - 1 : Tail(w)[i] = w[i + 1]
  BY TailFacts, Zenon
<1>2. Tail(w) # <<>> => Len(Tail(w)) >= 1 /\ Len(w) - 1 >= 1
  BY <1>1
<1>3. Tail(w) # <<>> => Tail(w)[1] = w[2] /\ Head(Tail(w)) = Tail(w)[1]
  BY <1>1, <1>2, TailFacts
<1>4. Tail(w) # <<>> => Tail(w)[Len(Tail(w))] = w[Len(w)]
  BY <1>1, <1>2
<1>5. Tail(w) = <<>> => Len(w) = 1
  <2>1. Tail(w) = <<>> => Len(Tail(w)) = 0
    BY <1>1, EmptyFacts, Zenon
  <2> QED BY ONLY <1>1, <2>1
<1> DEFINE t == Tail(w)
<1>6. InLine(t)
  <2> HIDE DEF t
  <2> SUFFICES /\ \A i \in 1 .. Len(t) : t[i] \in Enquiries \/ Made(t[i])
               /\ \A i \in 1 .. Len(t) - 1 : Follows(t[i], t[i + 1])
    BY Zenon DEF InLine
  <2>0. Len(t) = Len(w) - 1 /\ \A i \in 1 .. Len(w) - 1 : t[i] = w[i + 1]
    BY <1>1, Zenon DEF t
  <2>1. ASSUME NEW i \in 1 .. Len(t) PROVE t[i] \in Enquiries \/ Made(t[i])
    <3>1. t[i] = w[i + 1] /\ i + 1 \in 1 .. Len(w)
      BY <1>1, <2>0
    <3> QED BY <3>1, Zenon DEF InLine
  <2>2. ASSUME NEW i \in 1 .. Len(t) - 1 PROVE Follows(t[i], t[i + 1])
    <3>1. t[i] = w[i + 1] /\ t[i + 1] = w[(i + 1) + 1] /\ i + 1 \in 1 .. Len(w) - 1
      BY <1>1, <2>0
    <3>2. Follows(w[i + 1], w[(i + 1) + 1])
      BY <3>1, Zenon DEF InLine
    <3> QED BY <3>1, <3>2, Zenon
  <2> QED BY <2>1, <2>2, Zenon
<1>7. Tail(w) # <<>> => Follows(w[1], w[2])
  <2>1. Tail(w) # <<>> => 1 \in 1 .. Len(w) - 1 /\ 1 + 1 = 2
    BY <1>1, <1>2
  <2> QED BY <2>1, Zenon DEF InLine
<1>8. w[1] \in Enquiries \/ Made(w[1])
  BY <1>1 DEF InLine
<1> QED BY <1>1, <1>3, <1>4, <1>5, <1>6, <1>7, <1>8

\* What is put at the end of an orderly bus must follow.
LEMMA InLineAppend ==
  ASSUME NEW S, NEW w \in Seq(S), InLine(w), NEW g \in S, g \in Enquiries \/ Made(g),
         w # <<>> => Follows(w[Len(w)], g)
  PROVE  /\ InLine(Append(w, g)) /\ Append(w, g) # <<>>
         /\ Append(w, g)[Len(Append(w, g))] = g
         /\ Head(Append(w, g)) = IF w = <<>> THEN g ELSE Head(w)
<1> DEFINE r == Append(w, g)
<1>1. /\ Len(w) \in Nat /\ Len(r) = Len(w) + 1 /\ r[Len(w) + 1] = g
      /\ r # <<>> /\ r \in Seq(S) /\ (w = <<>> => Len(w) = 0)
      /\ \A i \in 1 .. Len(w) : r[i] = w[i]
  BY AppendFacts
<1>2. Head(r) = r[1] /\ (w # <<>> => Len(w) >= 1 /\ Head(w) = w[1])
  BY <1>1
<1> HIDE DEF r
<1>3. ASSUME NEW i \in 1 .. Len(r) PROVE r[i] \in Enquiries \/ Made(r[i])
  BY <1>1 DEF InLine
<1>4. ASSUME NEW i \in 1 .. Len(r) - 1 PROVE Follows(r[i], r[i + 1])
  <2>1. CASE i = Len(w)
    <3>1. w # <<>> /\ r[i] = w[Len(w)] /\ r[i + 1] = g
      BY <1>1, <2>1
    <3> QED BY <3>1, Zenon
  <2>2. CASE i # Len(w)
    <3>1. i \in 1 .. Len(w) - 1 /\ r[i] = w[i] /\ r[i + 1] = w[i + 1]
      BY <1>1, <2>2
    <3>2. Follows(w[i], w[i + 1])
      BY <3>1, Zenon DEF InLine
    <3> QED BY <3>1, <3>2, Zenon
  <2> QED BY <2>1, <2>2, Zenon
<1>5. InLine(r)
  BY <1>3, <1>4, Zenon DEF InLine
<1> QED BY <1>1, <1>2, <1>5 DEF r

\* A destination whose channel a step does not touch.
LEMMA Unmoved ==
  ASSUME NEW d \in Dsts, InOrder(d), wire'[d] = wire[d], Midway(d)' <=> Midway(d),
         Midway(d) => LastSent' = LastSent
  PROVE  InOrder(d)' /\ Coming(d)' = Coming(d)
<1>1. InOrder(d)'
  BY Zenon DEF InOrder
<1>2. Coming(d)' = Coming(d)
  BY Zenon DEF Coming
<1> QED BY <1>1, <1>2, Zenon

\* The write flow puts the next item on the way to d.
LEMMA PutOn ==
  ASSUME BusType, NEW d \in Dsts, InOrder(d), NEW g \in Frames \cup Enquiries,
         g \in Enquiries \/ Made(g), wire'[d] = Append(wire[d], g),
         IF Midway(d) THEN g = Succ(LastSent) /\ ~Starts(g) ELSE Starts(g),
         Midway(d)' <=> Open(g), Midway(d)' => LastSent' = g
  PROVE  InOrder(d)' /\ Coming(d)' = Coming(d)
<1> DEFINE w == wire[d]
           l == w[Len(w)]
<1>1. w \in Seq(Frames \cup Enquiries) /\ InLine(w)
  BY Zenon DEF BusType, InOrder
<1>2. w # <<>> => (Midway(d) <=> Open(l)) /\ (Midway(d) => l = LastSent)
  BY Zenon DEF InOrder
<1>3. w # <<>> => Follows(l, g)
  BY <1>2, Zenon DEF Follows
<1> DEFINE r == Append(w, g)
<1>4. /\ InLine(r) /\ r # <<>> /\ r[Len(r)] = g
      /\ Head(r) = IF w = <<>> THEN g ELSE Head(w)
  BY <1>1, <1>3, InLineAppend
<1>5. wire'[d] = r
  BY Zenon
<1> HIDE DEF r
<1>6. InOrder(d)'
  BY <1>4, <1>5, Zenon DEF InOrder
<1>7. Coming(d)' = Coming(d)
  BY <1>4, <1>5, Zenon DEF Coming
<1> QED BY <1>6, <1>7, Zenon

\* The first item on the way to d is gone.
LEMMA TakenOff ==
  ASSUME BusType, NEW d \in Dsts, InOrder(d), wire[d] # <<>>, wire'[d] = Tail(wire[d]),
         Midway(d)' <=> Midway(d), Midway(d) => LastSent' = LastSent
  PROVE  /\ InOrder(d)' /\ (Head(wire[d]) \in Enquiries \/ Made(Head(wire[d])))
         /\ Coming(d)' = IF Open(Head(wire[d])) THEN Succ(Head(wire[d])) ELSE NoFrame
<1> DEFINE w == wire[d]
           t == Tail(w)
           l == w[Len(w)]
           f == Head(w)
<1>1. w \in Seq(Frames \cup Enquiries) /\ InLine(w)
  BY Zenon DEF BusType, InOrder
<1>2. /\ InLine(t) /\ f = w[1] /\ (f \in Enquiries \/ Made(f))
      /\ t # <<>> => t[Len(t)] = l /\ Head(t) = w[2] /\ Follows(w[1], w[2])
      /\ t = <<>> => l = f
  BY <1>1, InLineTail, Zenon
<1>3. (Midway(d) <=> Open(l)) /\ (Midway(d) => l = LastSent)
  BY Zenon DEF InOrder
<1>4. wire'[d] = t
  BY Zenon
<1>5. Open(f) => ~Starts(Succ(f))
  <2>1. Open(f) => Made(f)
    BY <1>2, Zenon DEF Open
  <2> QED BY <2>1, SuccFacts, Zenon
<1> HIDE DEF t, l, f
<1>6. InOrder(d)'
  BY <1>2, <1>3, <1>4, Zenon DEF InOrder
<1>7. CASE t # <<>>
  BY <1>2, <1>4, <1>5, <1>6, <1>7, Zenon DEF Coming, Follows, f
<1>8. CASE t = <<>>
  BY <1>2, <1>3, <1>4, <1>6, <1>8, Zenon DEF Coming, f
<1> QED BY <1>7, <1>8, Zenon

\* A step that leaves the bus alone, and the datagram the write flow works on.
LEMMA WireQuiet ==
  ASSUME WireInv, UNCHANGED <<wf, dataOffset, wire>>, wf # "idle" => cur' = cur
  PROVE  WireInv' /\ \A d \in Dsts : Coming(d)' = Coming(d)
<1>1. ASSUME NEW d \in Dsts PROVE InOrder(d)' /\ Coming(d)' = Coming(d)
  <2>1. (Midway(d)' <=> Midway(d)) /\ (Midway(d) => LastSent' = LastSent)
    BY Zenon DEF Midway, LastSent
  <2> QED BY <2>1, Unmoved, Zenon DEF WireInv
<1>2. wf' = "fill_can_frame_buffer" => dataOffset' < cur'.frames
  BY Zenon DEF WireInv
<1> QED BY <1>1, <1>2, Zenon DEF WireInv

\* An item arrives or is lost.
LEMMA WireTaken ==
  ASSUME BusType, WireInv, NEW e \in Dsts, wire[e] # <<>>,
         wire' = [wire EXCEPT ![e] = Tail(@)], UNCHANGED writeVars
  PROVE  /\ WireInv' /\ (Head(wire[e]) \in Enquiries \/ Made(Head(wire[e])))
         /\ \A d \in Dsts : Coming(d)' =
              IF d # e THEN Coming(d)
              ELSE IF Open(Head(wire[e])) THEN Succ(Head(wire[e])) ELSE NoFrame
<1>1. ASSUME NEW d \in Dsts
      PROVE  /\ wire'[d] = IF d = e THEN Tail(wire[d]) ELSE wire[d]
             /\ (Midway(d)' <=> Midway(d)) /\ LastSent' = LastSent /\ InOrder(d)
  BY Zenon DEF BusType, writeVars, Midway, LastSent, cur, WireInv
<1>2. ASSUME NEW d \in Dsts, d # e PROVE InOrder(d)' /\ Coming(d)' = Coming(d)
  BY <1>1, <1>2, Unmoved, Zenon
<1>3. /\ InOrder(e)' /\ (Head(wire[e]) \in Enquiries \/ Made(Head(wire[e])))
      /\ Coming(e)' = IF Open(Head(wire[e])) THEN Succ(Head(wire[e])) ELSE NoFrame
  BY <1>1, TakenOff, Zenon
<1>4. /\ wf' # "idle" /\ wf' # "fill_can_frame_buffer" => dataOffset' = 0
      /\ wf' = "fill_can_frame_buffer" => dataOffset' < cur'.frames
  BY Zenon DEF writeVars, WireInv, cur
<1> QED BY <1>2, <1>3, <1>4, Zenon DEF WireInv

\* The write flow puts on the bus what belongs there, and what is coming to a
\* destination does not change by it.
LEMMA WireWritten ==
  ASSUME BusType, WireInv, WriteFlowStep
  PROVE  WireInv' /\ \A d \in Dsts : Coming(d)' = Coming(d)
<1> DEFINE Fill == wf = "fill_can_frame_buffer"
\* Steps of the search for the alias: none is in the middle of a datagram.
<1>1. ASSUME ~Fill, wf' # "idle" => dataOffset' = 0 /\ cur' = cur /\ sendQueue # <<>>,
             \/ UNCHANGED wire
             \/ /\ wf' # "fill_can_frame_buffer" /\ sendQueue # <<>>
                /\ \E g \in Enquiries : wire' = [wire EXCEPT ![cur.dst] = Append(@, g)]
      PROVE  WireInv' /\ \A d \in Dsts : Coming(d)' = Coming(d)
  <2>0. ASSUME NEW d \in Dsts PROVE ~Midway(d) /\ ~Midway(d)' /\ InOrder(d)
    <3>1. ~(wf' = "fill_can_frame_buffer" /\ dataOffset' > 0)
      BY <1>1
    <3> QED BY <1>1, <3>1, Zenon DEF Midway, WireInv
  <2>1. ASSUME NEW d \in Dsts, wire'[d] = wire[d] PROVE InOrder(d)' /\ Coming(d)' = Coming(d)
    BY <2>0, <2>1, Unmoved, Zenon
  <2>2. ASSUME NEW d \in Dsts PROVE InOrder(d)' /\ Coming(d)' = Coming(d)
    <3>1. CASE UNCHANGED wire
      BY <2>1, <3>1, Zenon
    <3>2. ASSUME sendQueue # <<>>, NEW g \in Enquiries, wire' = [wire EXCEPT ![cur.dst] = Append(@, g)]
          PROVE  InOrder(d)' /\ Coming(d)' = Coming(d)
      <4>1. cur.dst \in Dsts
        BY <3>2, CurFacts, Zenon
      <4>2. wire'[d] = IF d = cur.dst THEN Append(wire[d], g) ELSE wire[d]
        BY <3>2, <4>1, Zenon DEF BusType
      <4>3. CASE d = cur.dst
        <5>1. Starts(g) /\ ~Open(g) /\ g \in Frames \cup Enquiries
          BY Zenon DEF Starts, Open
        <5> QED BY <2>0, <4>2, <4>3, <5>1, PutOn, Zenon
      <4> QED BY <2>1, <4>2, <4>3, Zenon
    <3> QED BY <1>1, <3>1, <3>2, Zenon
  <2>3. wf' = "fill_can_frame_buffer" => dataOffset' < cur'.frames
    <3>1. wf' = "fill_can_frame_buffer" => cur.frames \in Nat \ {0} /\ dataOffset' = 0 /\ cur' = cur
      BY <1>1, CurFacts, Zenon
    <3> QED BY <3>1
  <2> QED BY <1>1, <2>2, <2>3, Zenon DEF WireInv
<1>2. CASE send_to_hardware
  <2>1. /\ ~Fill /\ UNCHANGED wire
        /\ wf' # "idle" => dataOffset' = 0 /\ cur' = cur /\ sendQueue # <<>>
    BY <1>2, Zenon DEF send_to_hardware, cur
  <2> QED BY <1>1, <2>1, Zenon
<1>3. CASE send_ame_frame
  <2>1. [type |-> "AME"] \in Enquiries
    BY Zenon DEF Enquiries
  <2>2. /\ ~Fill /\ wf' # "fill_can_frame_buffer" /\ sendQueue # <<>>
        /\ wire' = [wire EXCEPT ![cur.dst] = Append(@, [type |-> "AME"])]
        /\ dataOffset' = 0 /\ cur' = cur
    BY <1>3, Zenon DEF send_ame_frame, BusType, WireInv, cur
  <2> QED BY <1>1, <2>1, <2>2, Zenon
<1>4. CASE fill_verify_nodeid_global
  <2>1. [type |-> "VERIFY_NODE_ID_GLOBAL"] \in Enquiries
    BY Zenon DEF Enquiries
  <2>2. /\ ~Fill /\ wf' # "fill_can_frame_buffer" /\ sendQueue # <<>>
        /\ wire' = [wire EXCEPT ![cur.dst] = Append(@, [type |-> "VERIFY_NODE_ID_GLOBAL"])]
        /\ dataOffset' = 0 /\ cur' = cur
    BY <1>4, Zenon DEF fill_verify_nodeid_global, BusType, WireInv, cur
  <2> QED BY <1>1, <2>1, <2>2, Zenon
<1>5. CASE wtimer_expires \/ wtimer_run
  BY <1>5, WireQuiet, Zenon DEF wtimer_expires, wtimer_run, cur
<1>6. CASE send_verify_nodeid_global \/ wait_looking_for_dst
  <2>1. /\ ~Fill /\ UNCHANGED wire
        /\ wf' # "idle" => dataOffset' = 0 /\ cur' = cur /\ sendQueue # <<>>
    BY <1>6, Zenon DEF send_verify_nodeid_global, wait_looking_for_dst, BusType, WireInv, cur
  <2> QED BY <1>1, <2>1
<1>7. CASE fill_can_frame_buffer
  <2> DEFINE e == cur.dst
             k == dataOffset + 1
             g == Frame(cur.src, cur.id, cur.frames, k)
  <2>1. /\ e \in Dsts /\ cur.src \in Srcs /\ cur.id \in Nat /\ cur.frames \in Nat \ {0}
        /\ dataOffset \in Nat /\ dataOffset < cur.frames /\ Fill
    BY <1>7, CurFacts, Zenon DEF fill_can_frame_buffer, BusType, WireInv
  <2>2. /\ wire' = [wire EXCEPT ![e] = Append(@, g)] /\ dataOffset' = k
        /\ IF k < cur.frames THEN UNCHANGED <<wf, sendQueue>>
           ELSE wf' = "idle" /\ sendQueue' = Tail(sendQueue)
    BY <1>7, Zenon DEF fill_can_frame_buffer, Frame
  <2>3. k \in 1 .. cur.frames
    BY <2>1
  <2>4. /\ Made(g) /\ g.src = cur.src /\ g.id = cur.id /\ g.n = cur.frames /\ g.k = k
    BY <2>1, <2>3, FrameMade
  <2>5. g \notin Enquiries /\ g \in Frames
    BY <2>4, MadeFacts, Zenon
  <2>6. Open(g) <=> k < cur.frames
    BY <2>4, <2>5, Zenon DEF Open
  <2>7. LET h == LastSent IN dataOffset > 0 => h.src = cur.src /\ h.id = cur.id /\ h.n = cur.frames /\ h.k = dataOffset
    BY Zenon DEF LastSent, Frame
  <2>8. dataOffset > 0 => g = Succ(LastSent)
    BY <2>7, Zenon DEF Succ
  <2>9. Starts(g) <=> ~(dataOffset > 0)
    BY <2>1, <2>4, <2>5 DEF Starts
  <2>10. /\ \A d \in Dsts : Midway(d) <=> d = e /\ dataOffset > 0
         /\ \A d \in Dsts : Midway(d)' <=> d = e /\ k < cur.frames
         /\ k < cur.frames => LastSent' = g
    BY <2>1, <2>2, SMTT(20) DEF Midway, LastSent, cur
  <2> HIDE DEF g
  <2>11. ASSUME NEW d \in Dsts PROVE InOrder(d)' /\ Coming(d)' = Coming(d)
    <3>1. wire'[d] = IF d = e THEN Append(wire[d], g) ELSE wire[d]
      BY <2>1, <2>2, Zenon DEF BusType
    <3>2. InOrder(d)
      BY Zenon DEF WireInv
    <3>3. CASE d = e
      BY <2>4, <2>5, <2>6, <2>8, <2>9, <2>10, <3>1, <3>2, <3>3, PutOn, Zenon
    <3>4. CASE d # e
      BY <2>10, <3>1, <3>2, <3>4, Unmoved, Zenon
    <3> QED BY <3>3, <3>4, Zenon
  <2>12. /\ wf' # "idle" /\ wf' # "fill_can_frame_buffer" => dataOffset' = 0
         /\ wf' = "fill_can_frame_buffer" => dataOffset' < cur'.frames
    BY <2>1, <2>2, Zenon DEF cur
  <2> QED BY <2>11, <2>12, Zenon DEF WireInv
<1> QED BY <1>2, <1>3, <1>4, <1>5, <1>6, <1>7, Zenon DEF WriteFlowStep

\* Who gives a datagram to the write flow does not disturb the one it has.
LEMMA SubmitQuiet ==
  ASSUME BusType, WireInv, NEW m \in Sendable, Submit(m)
  PROVE  WireInv' /\ \A d \in Dsts : Coming(d)' = Coming(d)
<1>1. sendQueue # <<>> => cur' = cur
  BY SMTT(20) DEF Submit, cur, BusType
<1> QED BY <1>1, WireQuiet, Zenon DEF Submit, BusType

\* b is made of frames of one datagram from s, from the first on, in order.
Good(s, b) ==
  /\ b[1].k = 1
  /\ \A i \in 1 .. Len(b) : /\ Made(b[i]) /\ b[i].src = s
                            /\ b[i].id = b[1].id /\ b[i].n = b[1].n
  /\ \A i \in 2 .. Len(b) : b[i - 1].k < b[i].k

\* What comes next to d does not join what it should not: with e received last
\* from s, it is the next frame of the same datagram, after a loss a later one.
Ahead(s, d, e) ==
  /\ lost = 0 => Coming(d) = Succ(e)
  /\ \/ Coming(d) = NoFrame \/ Coming(d).src # s
     \/ Coming(d).id = e.id /\ Coming(d).n = e.n /\ Coming(d).k > e.k

\* A partly received datagram.
Partial(s, d) ==
  LET b == pendingBuffers[<<s, d>>]
      e == b[Len(b)]
  IN b # <<>> => /\ up[d] /\ Len(b) <= MaxFrames
                 /\ (lost <= 1 => Good(s, b) /\ Open(e) /\ Ahead(s, d, e))
                 /\ (lost = 0 => e.k = Len(b))

BufInv == \A s \in Srcs, d \in Dsts : Partial(s, d)

\* A complete datagram, when l frames have been lost.
Whole(b, l) ==
  /\ Len(b) <= MaxFrames
  /\ l = 0 => Len(b) = b[1].n
  /\ l <= 1 => Good(b[1].src, b) /\ b[Len(b)].k = b[1].n

InboxInv == \A d \in Dsts : \A i \in 1 .. Len(inbox[d]) : Whole(inbox[d][i], lost)

\* One frame.
LEMMA GoodOne ==
  ASSUME NEW f, Made(f), f.k = 1
  PROVE  /\ Good(f.src, <<f>>) /\ Len(<<f>>) = 1 /\ <<f>>[1] = f /\ <<f>>[Len(<<f>>)] = f
         /\ <<f>> \in Seq(Frames) \ {<<>>}
<1> DEFINE b == <<f>>
<1>1. f \in Frames
  BY MadeFacts, Zenon
<1>2. Len(b) = 1 /\ b[1] = f /\ b \in Seq(Frames) /\ b # <<>>
  BY <1>1
<1> HIDE DEF b
<1>3. Good(f.src, b)
  BY <1>2, SMTT(20) DEF Good
<1> QED BY <1>2, <1>3, Zenon DEF b

\* The buffers have a first and a last frame.
LEMMA BufferFacts ==
  ASSUME NEW b \in Seq(Frames), b # <<>>
  PROVE  /\ Len(b) \in Nat /\ Len(b) >= 1 /\ b[1] \in Frames /\ b[Len(b)] \in Frames
         /\ 1 \in 1 .. Len(b) /\ Len(b) \in 1 .. Len(b)
<1>1. Len(b) \in Nat /\ Len(b) >= 1
  BY TailFacts, Zenon
<1> QED BY <1>1

\* A frame more.
LEMMA GoodMore ==
  ASSUME NEW s, NEW b \in Seq(Frames), b # <<>>, Good(s, b), NEW f, Made(f), f.src = s,
         f.id = b[Len(b)].id, f.n = b[Len(b)].n, f.k > b[Len(b)].k
  PROVE  Good(s, Append(b, f))
<1> DEFINE r == Append(b, f)
<1>0. f \in Frames
  BY MadeFacts, Zenon
<1>1. /\ Len(b) \in Nat /\ Len(b) >= 1 /\ Len(r) = Len(b) + 1 /\ r[Len(b) + 1] = f
      /\ \A i \in 1 .. Len(b) : r[i] = b[i]
  BY <1>0, AppendFacts, BufferFacts
<1> HIDE DEF r
<1>2. /\ r[1] = b[1] /\ r[Len(b)] = b[Len(b)] /\ 1 \in 1 .. Len(b) /\ Len(b) \in 1 .. Len(b)
  BY <1>1
<1>3. f.id = r[1].id /\ f.n = r[1].n
  BY <1>2, Zenon DEF Good
<1>4. ASSUME NEW i \in 1 .. Len(r)
      PROVE  Made(r[i]) /\ r[i].src = s /\ r[i].id = r[1].id /\ r[i].n = r[1].n
  <2>1. CASE i = Len(b) + 1
    BY <1>1, <1>3, <2>1, Zenon
  <2>2. CASE i # Len(b) + 1
    <3>1. i \in 1 .. Len(b) /\ r[i] = b[i]
      BY <1>1, <2>2
    <3> QED BY <1>2, <3>1, Zenon DEF Good
  <2> QED BY <2>1, <2>2, Zenon
<1>5. ASSUME NEW i \in 2 .. Len(r) PROVE r[i - 1].k < r[i].k
  <2>1. CASE i = Len(b) + 1
    <3>1. r[i - 1] = b[Len(b)] /\ r[i] = f
      BY <1>1, <1>2, <2>1
    <3>2. b[Len(b)].k \in Nat /\ f.k \in Nat
      BY <1>0, BufferFacts, Zenon DEF Frames
    <3> QED BY <3>1, <3>2, Zenon
  <2>2. CASE i # Len(b) + 1
    <3>1. i \in 2 .. Len(b) /\ r[i] = b[i] /\ r[i - 1] = b[i - 1]
      BY <1>1, <2>2
    <3> QED BY <3>1, Zenon DEF Good
  <2> QED BY <2>1, <2>2, Zenon
<1> QED BY <1>2, <1>4, <1>5, Zenon DEF Good, r

\* Nothing happens to a partly received datagram.
LEMMA PartialQuiet ==
  ASSUME NEW s \in Srcs, NEW d \in Dsts, Partial(s, d),
         pendingBuffers'[<<s, d>>] = pendingBuffers[<<s, d>>],
         up[d] => up'[d], lost' = lost, Coming(d)' = Coming(d)
  PROVE  Partial(s, d)'
BY Zenon DEF Partial, Ahead

\* Nor to the complete ones, which are taken or dropped.
LEMMA InboxQuiet ==
  ASSUME BusType, InboxInv, lost' = lost,
         \A d \in Dsts : \/ inbox'[d] = inbox[d]
                         \/ inbox'[d] = <<>>
                         \/ inbox[d] # <<>> /\ inbox'[d] = Tail(inbox[d])
  PROVE  InboxInv'
<1> SUFFICES ASSUME NEW d \in Dsts, NEW i \in 1 .. Len(inbox'[d]) PROVE Whole(inbox'[d][i], lost)
  BY Zenon DEF InboxInv
<1>2. PICK j \in 1 .. Len(inbox[d]) : inbox'[d][i] = inbox[d][j]
  <2>1. inbox[d] \in Seq(Seq(Frames) \ {<<>>})
    BY Zenon DEF BusType
  <2>2. CASE inbox'[d] = inbox[d]
    BY <2>2, Zenon
  <2>3. CASE inbox'[d] = <<>>
    BY <2>3
  <2>4. CASE inbox[d] # <<>> /\ inbox'[d] = Tail(inbox[d])
    <3>1. /\ Len(inbox[d]) \in Nat /\ Len(inbox'[d]) = Len(inbox[d]) - 1
          /\ \A n \in 1 .. Len(inbox[d]) - 1 : inbox'[d][n] = inbox[d][n + 1]
      BY <2>1, <2>4, TailFacts
    <3>2. inbox'[d][i] = inbox[d][i + 1] /\ i + 1 \in 1 .. Len(inbox[d])
      BY ONLY <3>1, i \in 1 .. Len(inbox'[d])
    <3> QED BY <3>2, Zenon
  <2> QED BY <2>2, <2>3, <2>4, Zenon
<1>3. Whole(inbox[d][j], lost)
  BY Zenon DEF InboxInv
<1> QED BY <1>2, <1>3, Zenon

\* One more complete datagram.
LEMMA InboxMore ==
  ASSUME BusType, InboxInv, lost' = lost, NEW e \in Dsts,
         NEW b \in Seq(Frames) \ {<<>>}, Whole(b, lost), Deliver(e, b)
  PROVE  InboxInv'
<1> SUFFICES ASSUME NEW d \in Dsts, NEW i \in 1 .. Len(inbox'[d]) PROVE Whole(inbox'[d][i], lost)
  BY Zenon DEF InboxInv
<1>2. Whole(inbox'[d][i], lost)
  <2>0. inbox \in [Dsts -> Seq(Seq(Frames) \ {<<>>})]
    BY Zenon DEF BusType
  <2>1. inbox'[d] = IF d = e THEN Append(inbox[d], b) ELSE inbox[d]
    BY <2>0, Zenon DEF Deliver
  <2>2. CASE d # e
    BY <2>1, <2>2, Zenon DEF InboxInv
  <2>3. CASE d = e
    <3> DEFINE q == inbox[d]
               r == Append(q, b)
    <3>0. q \in Seq(Seq(Frames) \ {<<>>})
      BY <2>0, Zenon
    <3>1. /\ Len(q) \in Nat /\ Len(r) = Len(q) + 1 /\ r[Len(q) + 1] = b
          /\ \A n \in 1 .. Len(q) : r[n] = q[n]
      BY <3>0, AppendFacts
    <3>2. inbox'[d] = r
      BY <2>1, <2>3, Zenon
    <3> HIDE DEF r
    <3>3. i = Len(q) + 1 \/ i \in 1 .. Len(q)
      BY <3>1, <3>2
    <3>4. inbox'[d][i] = b \/ (i \in 1 .. Len(q) /\ inbox'[d][i] = q[i])
      BY <3>1, <3>2, <3>3, Zenon
    <3> QED BY <3>4, Zenon DEF InboxInv
  <2> QED BY <2>2, <2>3, Zenon
<1> QED BY <1>2, Zenon

\* What arrives first at a destination with a partly received datagram from s.
LEMMA HeadFits ==
  ASSUME BusType, NEW s \in Srcs, NEW d \in Dsts, Partial(s, d), wire[d] # <<>>,
         pendingBuffers[<<s, d>>] # <<>>, lost <= 1
  PROVE  LET b == pendingBuffers[<<s, d>>]
             e == b[Len(b)]
             f == Head(wire[d])
         IN  /\ Good(s, b) /\ Made(e) /\ e.src = s /\ Open(e) /\ Len(b) <= MaxFrames
             /\ b \in Seq(Frames) /\ b[1].id = e.id /\ b[1].n = e.n
             /\ lost = 0 => f = Succ(e) /\ e.k = Len(b)
             /\ ~Starts(f) /\ f.src = s => f.id = e.id /\ f.n = e.n /\ f.k > e.k
<1> DEFINE b == pendingBuffers[<<s, d>>]
           e == b[Len(b)]
           f == Head(wire[d])
<1>1. b \in Seq(Frames) /\ b # <<>>
  BY Zenon DEF BusType
<1>2. Good(s, b) /\ Open(e) /\ Ahead(s, d, e) /\ Len(b) <= MaxFrames /\ (lost = 0 => e.k = Len(b))
  BY Zenon DEF Partial
<1>3. Len(b) \in 1 .. Len(b)
  BY <1>1, BufferFacts, Zenon
<1>4. Made(e) /\ e.src = s /\ b[1].id = e.id /\ b[1].n = e.n
  BY <1>2, <1>3, Zenon DEF Good
<1>5. Coming(d) = IF Starts(f) THEN NoFrame ELSE f
  BY Zenon DEF Coming
<1>6. Succ(e) # NoFrame
  BY <1>2, <1>4, SuccFacts, Zenon
<1> HIDE DEF b, e, f
<1>7. lost = 0 => f = Succ(e)
  BY <1>2, <1>5, <1>6, Zenon DEF Ahead
<1>8. ~Starts(f) => f = NoFrame \/ f.src # s \/ (f.id = e.id /\ f.n = e.n /\ f.k > e.k)
  BY <1>2, <1>5, Zenon DEF Ahead
<1>9. f # NoFrame
  <2>1. f \in Frames \cup Enquiries
    <3>1. wire[d] \in Seq(Frames \cup Enquiries)
      BY Zenon DEF BusType
    <3> QED BY <3>1, TailFacts, Zenon DEF f
  <2> QED BY <2>1 DEF NoFrame, Frames, Enquiries
<1> QED BY <1>1, <1>2, <1>4, <1>7, <1>8, <1>9, Zenon DEF b, e, f

\* A partly received datagram when something else arrives.
LEMMA Bystander ==
  ASSUME BusType, WireInv, NEW s \in Srcs, NEW d \in Dsts, Partial(s, d), wire[d] # <<>>,
         wire' = [wire EXCEPT ![d] = Tail(@)], UNCHANGED writeVars, lost' = lost,
         pendingBuffers'[<<s, d>>] = pendingBuffers[<<s, d>>], up'[d] = up[d],
         \/ Starts(Head(wire[d])) /\ ~Open(Head(wire[d]))
         \/ Made(Head(wire[d])) /\ Head(wire[d]).src # s
  PROVE  Partial(s, d)'
<1> DEFINE b == pendingBuffers[<<s, d>>]
           e == b[Len(b)]
           f == Head(wire[d])
<1>1. CASE b = <<>>
  BY <1>1, Zenon DEF Partial
<1>2. CASE b # <<>> /\ ~(lost <= 1)
  <2>1. lost # 0
    BY <1>2
  <2> QED BY <1>2, <2>1, Zenon DEF Partial
<1>3. CASE b # <<>> /\ lost <= 1
  <2>1. /\ Good(s, b) /\ Made(e) /\ e.src = s /\ Open(e) /\ Len(b) <= MaxFrames
        /\ lost = 0 => f = Succ(e)
    BY <1>3, HeadFits, Zenon
  <2>2. Made(Succ(e)) /\ ~Starts(Succ(e)) /\ Succ(e).src = s
    BY <2>1, SuccFacts, Zenon
  <2>3. lost # 0
    BY <2>1, <2>2, Zenon
  <2>4. Coming(d)' = IF Open(f) THEN Succ(f) ELSE NoFrame
    BY WireTaken, Zenon
  <2>5. Coming(d)' = NoFrame \/ Coming(d)'.src # s
    BY <2>4, SuccFacts, Zenon
  <2>6. up[d]
    BY <1>3, Zenon DEF Partial
  <2> HIDE DEF f
  <2>7. Ahead(s, d, e)'
    <3>1. pendingBuffers'[<<s, d>>] = b
      BY Zenon
    <3> QED BY <2>3, <2>5, <3>1, Zenon DEF Ahead
  <2> QED BY <2>1, <2>3, <2>6, <2>7, Zenon DEF Partial
<1> QED BY <1>1, <1>2, <1>3, Zenon

\* The frame f joins, or begins, the partly received datagram of its source.
LEMMA Joins ==
  ASSUME BusType, WireInv, NEW d \in Dsts, NEW f, Made(f), Open(f), f = Head(wire[d]), wire[d] # <<>>,
         wire' = [wire EXCEPT ![d] = Tail(@)], UNCHANGED writeVars, lost' = lost, up'[d],
         NEW b \in Seq(Frames) \ {<<>>}, pendingBuffers'[<<f.src, d>>] = b, b[Len(b)] = f,
         Len(b) <= MaxFrames, lost <= 1 => Good(f.src, b), lost = 0 => f.k = Len(b)
  PROVE  Partial(f.src, d)'
<1>1. Coming(d)' = Succ(f)
  BY WireTaken, Zenon
<1>2. Succ(f).id = f.id /\ Succ(f).n = f.n /\ Succ(f).k > f.k
  <2>1. Succ(f).id = f.id /\ Succ(f).n = f.n /\ Succ(f).k = f.k + 1
    BY SuccFacts, Zenon
  <2>2. f.k \in Nat
    BY MadeFacts, Zenon
  <2> QED BY <2>1, <2>2
<1>3. Ahead(f.src, d, f)'
  BY <1>1, <1>2, Zenon DEF Ahead
<1> QED BY <1>3, Zenon DEF Partial

\* A frame, or an enquiry, arrives.
LEMMA ReceiveBuf ==
  ASSUME BusType, WireInv, BufInv, InboxInv, NEW e \in Dsts, PeerReceive(e)
  PROVE  BufInv' /\ InboxInv'
<1>0. PICK f : f = Head(wire[e])
  BY Zenon
<1>1. /\ wire[e] # <<>> /\ wire' = [wire EXCEPT ![e] = Tail(@)]
      /\ UNCHANGED writeVars /\ lost' = lost
  BY Zenon DEF PeerReceive, peer_receive
<1>2. /\ f \in Enquiries \/ Made(f)
      /\ \A d \in Dsts : d # e => Coming(d)' = Coming(d)
  BY <1>0, <1>1, WireTaken, Zenon
<1>3. \/ ~up[e] /\ UNCHANGED peerVars
      \/ up[e] /\ f \in Enquiries /\ UNCHANGED peerVars
      \/ up[e] /\ f \notin Enquiries /\ parse(e, f) /\ UNCHANGED up
  BY <1>0, Zenon DEF PeerReceive, peer_receive
\* The other destinations, and the other sources.
<1>4. ASSUME NEW s \in Srcs, NEW d \in Dsts, d # e, up' = up,
             pendingBuffers'[<<s, d>>] = pendingBuffers[<<s, d>>]
      PROVE  Partial(s, d)'
  <2>1. Partial(s, d) /\ Coming(d)' = Coming(d)
    BY <1>2, <1>4, Zenon DEF BufInv
  <2> QED BY <1>1, <1>4, <2>1, PartialQuiet, Zenon
<1>5. ASSUME NEW s \in Srcs, up' = up, pendingBuffers'[<<s, e>>] = pendingBuffers[<<s, e>>],
             (Starts(f) /\ ~Open(f)) \/ (Made(f) /\ f.src # s)
      PROVE  Partial(s, e)'
  <2>1. Partial(s, e)
    BY Zenon DEF BufInv
  <2> QED BY <1>0, <1>1, <1>5, <2>1, Bystander, Zenon
<1>6. CASE ~up[e] /\ UNCHANGED peerVars
  <2>0. UNCHANGED <<up, pendingBuffers, inbox>>
    BY <1>6, Zenon DEF peerVars
  <2>1. ASSUME NEW s \in Srcs, NEW d \in Dsts PROVE Partial(s, d)'
    <3>1. CASE d # e
      BY <1>4, <2>0, <3>1, Zenon
    <3>2. CASE d = e
      <4>1. pendingBuffers[<<s, d>>] = <<>>
        BY <1>6, <3>2, Zenon DEF BufInv, Partial
      <4> QED BY <2>0, <4>1, Zenon DEF Partial
    <3> QED BY <3>1, <3>2, Zenon
  <2>2. InboxInv'
    BY <1>1, <2>0, InboxQuiet, Zenon
  <2> QED BY <2>1, <2>2, Zenon DEF BufInv
<1>7. CASE f \in Enquiries /\ UNCHANGED peerVars
  <2>0. UNCHANGED <<up, pendingBuffers, inbox>> /\ Starts(f) /\ ~Open(f)
    BY <1>7, Zenon DEF peerVars, Starts, Open
  <2>1. ASSUME NEW s \in Srcs, NEW d \in Dsts PROVE Partial(s, d)'
    BY <1>4, <1>5, <2>0, Zenon
  <2>2. InboxInv'
    BY <1>1, <2>0, InboxQuiet, Zenon
  <2> QED BY <2>1, <2>2 DEF BufInv
<1>8. CASE up[e] /\ f \notin Enquiries /\ parse(e, f) /\ UNCHANGED up
  <2> DEFINE p == <<f.src, e>>
             buf == pendingBuffers[p]
             l == buf[Len(buf)]
  <2>1. Made(f)
    BY <1>2, <1>8, Zenon
  <2>2. /\ f \in Frames /\ f.src \in Srcs /\ f.n \in Nat \ {0} /\ f.k \in Nat
        /\ 1 <= f.k /\ f.k <= f.n /\ f \notin Enquiries
        /\ f.type = "one" <=> f.n = 1
        /\ f.type = "first" <=> f.n > 1 /\ f.k = 1
        /\ f.type = "final" <=> f.n > 1 /\ f.k = f.n
        /\ f.type = "middle" <=> 1 < f.k /\ f.k < f.n
    BY <2>1, MadeFacts, Zenon
  <2>3. /\ p \in Srcs \X Dsts /\ buf \in Seq(Frames)
        /\ pendingBuffers \in [Srcs \X Dsts -> Seq(Frames)]
    BY <2>2, Zenon DEF BusType
  <2>4. Partial(f.src, e)
    BY <2>2, Zenon DEF BufInv
  <2>m. MaxFrames \in Nat /\ MaxFrames >= 1
    BY CanAssumption
  \* Whatever becomes of the buffer of the source, the rest stays as it was.
  <2>5. ASSUME NEW v, pendingBuffers' = [pendingBuffers EXCEPT ![p] = v], Partial(f.src, e)'
        PROVE  BufInv'
    <3>1. ASSUME NEW s \in Srcs, NEW d \in Dsts PROVE Partial(s, d)'
      <4>1. CASE s = f.src /\ d = e
        BY <2>5, <4>1, Zenon
      <4>2. CASE ~(s = f.src /\ d = e)
        <5>1. pendingBuffers'[<<s, d>>] = pendingBuffers[<<s, d>>]
          BY <2>3, <2>5, <4>2, Zenon
        <5> QED BY <1>4, <1>5, <1>8, <2>1, <4>2, <5>1, Zenon
      <4> QED BY <4>1, <4>2, Zenon
    <3> QED BY <3>1, Zenon DEF BufInv
  <2>6. pendingBuffers' = [pendingBuffers EXCEPT ![p] = <<>>] => BufInv'
    <3>1. pendingBuffers' = [pendingBuffers EXCEPT ![p] = <<>>] => pendingBuffers'[p] = <<>>
      BY <2>3, Zenon
    <3>2. pendingBuffers' = [pendingBuffers EXCEPT ![p] = <<>>] => Partial(f.src, e)'
      BY <3>1, Zenon DEF Partial
    <3> QED BY <2>5, <3>2, Zenon
  <2>7. UNCHANGED inbox => InboxInv'
    BY <1>1, InboxQuiet, Zenon
  <2>8. CASE f.type = "one" /\ Deliver(e, <<f>>) /\ UNCHANGED <<back, pendingBuffers>>
    <3>1. f.n = 1 /\ f.k = 1 /\ Starts(f) /\ ~Open(f)
      BY <2>2, <2>8 DEF Starts, Open
    <3>2. Partial(f.src, e)'
      BY <1>5, <1>8, <2>2, <2>8, <3>1, Zenon
    <3>3. pendingBuffers' = [pendingBuffers EXCEPT ![p] = buf]
      BY <2>3, <2>8, Zenon
    <3>4. /\ Good(f.src, <<f>>) /\ Len(<<f>>) = 1 /\ <<f>>[1] = f /\ <<f>>[Len(<<f>>)] = f
          /\ <<f>> \in Seq(Frames) \ {<<>>}
      BY <2>1, <3>1, GoodOne, Zenon
    <3>5. Whole(<<f>>, lost)
      BY <2>m, <3>1, <3>4, Zenon DEF Whole
    <3>6. InboxInv'
      BY <1>1, <2>8, <3>4, <3>5, InboxMore, Zenon
    <3> QED BY <2>5, <3>2, <3>3, <3>6, Zenon
  <2>9. CASE /\ f.type = "first" /\ buf = <<>>
             /\ pendingBuffers' = [pendingBuffers EXCEPT ![p] = <<f>>]
             /\ UNCHANGED <<back, inbox>>
    <3>1. f.k = 1 /\ Open(f)
      BY <2>2, <2>9, Zenon DEF Open
    <3>2. /\ Good(f.src, <<f>>) /\ Len(<<f>>) = 1 /\ <<f>>[Len(<<f>>)] = f
          /\ <<f>> \in Seq(Frames) \ {<<>>}
      BY <2>1, <3>1, GoodOne, Zenon
    <3>3. pendingBuffers'[p] = <<f>>
      BY <2>3, <2>9, Zenon
    <3> DEFINE b == <<f>>
    <3> HIDE DEF b
    <3>4. /\ b \in Seq(Frames) \ {<<>>} /\ b[Len(b)] = f /\ Len(b) = 1 /\ Good(f.src, b)
          /\ pendingBuffers'[<<f.src, e>>] = b
      BY <3>2, <3>3, Zenon DEF b
    <3>5. Len(b) <= MaxFrames
      BY <2>m, <3>4, Zenon
    <3>6. Partial(f.src, e)'
      BY <1>0, <1>1, <1>8, <2>1, <3>1, <3>4, <3>5, Joins, Zenon
    <3> QED BY <2>5, <2>7, <2>9, <3>6, Zenon
  \* A frame that is not the first, with a buffer to go to.
  <2>10. ASSUME f.type \in {"middle", "final"}, buf # <<>>, Len(buf) < MaxFrames
         PROVE  LET b == Append(buf, f)
                IN /\ b \in Seq(Frames) \ {<<>>} /\ Len(b) <= MaxFrames
                   /\ b[1] = buf[1] /\ b[Len(b)] = f
                   /\ lost <= 1 => Good(f.src, b) /\ f.n = buf[1].n
                   /\ lost = 0 => f.k = Len(b)
    <3> DEFINE b == Append(buf, f)
    <3>1. /\ Len(buf) \in Nat /\ Len(buf) >= 1 /\ Len(b) = Len(buf) + 1 /\ b[Len(buf) + 1] = f
          /\ b[1] = buf[1] /\ b \in Seq(Frames) \ {<<>>}
      <4>1. Len(buf) \in Nat /\ Len(buf) >= 1
        BY <2>3, <2>10, BufferFacts, Zenon
      <4>2. f \in Frames /\ buf \in Seq(Frames)
        BY <2>2, <2>3, Zenon
      <4> HIDE DEF buf
      <4>3. /\ b \in Seq(Frames) /\ b # <<>> /\ Len(b) = Len(buf) + 1 /\ b[Len(buf) + 1] = f
            /\ \A i \in 1 .. Len(buf) : b[i] = buf[i]
        BY ONLY <4>2, AppendFacts
      <4> HIDE DEF b
      <4> QED BY ONLY <4>1, <4>3
    <3>2. ~Starts(f)
      BY <2>2, <2>10, Zenon DEF Starts
    <3>3. ASSUME lost <= 1
          PROVE  /\ Good(f.src, buf) /\ Made(l) /\ buf[1].n = l.n
                 /\ lost = 0 => f = Succ(l) /\ l.k = Len(buf) /\ Open(l)
                 /\ f.id = l.id /\ f.n = l.n /\ f.k > l.k
      <4>1. wire[e] # <<>> /\ f = Head(wire[e]) /\ f.src \in Srcs /\ buf # <<>>
        BY <1>0, <1>1, <2>2, <2>10, Zenon
      <4>2. /\ Good(f.src, buf) /\ Made(l) /\ Open(l) /\ buf[1].n = l.n
            /\ lost = 0 => f = Succ(l) /\ l.k = Len(buf)
            /\ ~Starts(f) /\ f.src = f.src => f.id = l.id /\ f.n = l.n /\ f.k > l.k
        BY <2>4, <3>3, <4>1, HeadFits, Zenon
      <4> QED BY <3>2, <4>2, Zenon
    <3>4. lost <= 1 => Good(f.src, b)
      BY <2>1, <2>3, <2>10, <3>3, GoodMore, Zenon
    <3>5. lost = 0 => f.k = Len(b)
      <4>1. lost = 0 => lost <= 1
        BY DEF BusType
      <4>2. lost = 0 => f.k = l.k + 1 /\ l.k = Len(buf)
        BY <3>3, <4>1, SuccFacts, Zenon
      <4> QED BY <3>1, <4>2, Zenon
    <3>6. lost <= 1 => f.n = buf[1].n
      BY <3>3, Zenon
    <3>7. Len(b) <= MaxFrames
      BY <2>m, <2>10, <3>1
    <3> QED BY <3>1, <3>4, <3>5, <3>6, <3>7, Zenon
  <2>11. CASE /\ f.type = "middle" /\ buf # <<>> /\ Len(buf) < MaxFrames
              /\ pendingBuffers' = [pendingBuffers EXCEPT ![p] = Append(buf, f)]
              /\ UNCHANGED <<back, inbox>>
    <3> DEFINE b == Append(buf, f)
    <3>1. Open(f)
      BY <2>2, <2>11, Zenon DEF Open
    <3>2. /\ b \in Seq(Frames) \ {<<>>} /\ Len(b) <= MaxFrames /\ b[Len(b)] = f
          /\ (lost <= 1 => Good(f.src, b)) /\ (lost = 0 => f.k = Len(b))
      BY <2>10, <2>11, Zenon
    <3>3. pendingBuffers'[<<f.src, e>>] = b
      BY <2>3, <2>11, Zenon
    <3> HIDE DEF b
    <3>4. Partial(f.src, e)'
      BY <1>0, <1>1, <1>8, <2>1, <3>1, <3>2, <3>3, Joins, Zenon
    <3> QED BY <2>5, <2>7, <2>11, <3>4, Zenon
  <2>12. CASE /\ f.type = "final" /\ buf # <<>> /\ Len(buf) < MaxFrames
              /\ Deliver(e, Append(buf, f))
              /\ pendingBuffers' = [pendingBuffers EXCEPT ![p] = <<>>]
              /\ UNCHANGED back
    <3> DEFINE b == Append(buf, f)
    <3>1. /\ b \in Seq(Frames) \ {<<>>} /\ Len(b) <= MaxFrames
          /\ b[1] = buf[1] /\ b[Len(b)] = f
          /\ lost <= 1 => Good(f.src, b) /\ f.n = buf[1].n
          /\ lost = 0 => f.k = Len(b)
      BY <2>10, <2>12, Zenon
    <3>2. f.k = f.n
      BY <2>2, <2>12, Zenon
    <3>d. Deliver(e, b)
      BY <2>12, Zenon
    <3> HIDE DEF b
    <3>3. lost <= 1 => b[1].src = f.src
      <4>1. 1 \in 1 .. Len(b)
        BY <3>1, BufferFacts, Zenon
      <4> QED BY <3>1, <4>1, Zenon DEF Good
    <3>4. lost = 0 => lost <= 1
      BY DEF BusType
    <3>5. Whole(b, lost)
      BY <3>1, <3>2, <3>3, <3>4, Zenon DEF Whole
    <3>6. InboxInv'
      BY <1>1, <3>1, <3>5, <3>d, InboxMore, Zenon
    <3> QED BY <2>6, <2>12, <3>6, Zenon
  <2>13. CASE pendingBuffers' = [pendingBuffers EXCEPT ![p] = <<>>] /\ UNCHANGED inbox
    BY <2>6, <2>7, <2>13, Zenon
  <2>14. \/ f.type = "one" /\ Deliver(e, <<f>>) /\ UNCHANGED <<back, pendingBuffers>>
         \/ /\ f.type = "first" /\ buf = <<>>
            /\ pendingBuffers' = [pendingBuffers EXCEPT ![p] = <<f>>]
            /\ UNCHANGED <<back, inbox>>
         \/ /\ f.type = "middle" /\ buf # <<>> /\ Len(buf) < MaxFrames
            /\ pendingBuffers' = [pendingBuffers EXCEPT ![p] = Append(buf, f)]
            /\ UNCHANGED <<back, inbox>>
         \/ /\ f.type = "final" /\ buf # <<>> /\ Len(buf) < MaxFrames
            /\ Deliver(e, Append(buf, f))
            /\ pendingBuffers' = [pendingBuffers EXCEPT ![p] = <<>>]
            /\ UNCHANGED back
         \/ pendingBuffers' = [pendingBuffers EXCEPT ![p] = <<>>] /\ UNCHANGED inbox
    BY <1>8, <2>2, ParseCases, Zenon
  <2> QED BY <2>8, <2>9, <2>11, <2>12, <2>13, <2>14, Zenon
<1> QED BY <1>3, <1>6, <1>7, <1>8, Zenon

\* A frame is lost: with no loss before, what comes next is a later frame of
\* the same datagram, or the start of something new.
LEMMA LostBuf ==
  ASSUME BusType, WireInv, BufInv, InboxInv, NEW e \in Dsts, FrameLost(e)
  PROVE  BufInv' /\ InboxInv'
<1>0. PICK f : f = Head(wire[e])
  OBVIOUS
<1>1. /\ wire[e] # <<>> /\ wire' = [wire EXCEPT ![e] = Tail(@)]
      /\ UNCHANGED writeVars /\ lost' = lost + 1 /\ lost \in Nat
      /\ UNCHANGED <<up, pendingBuffers, inbox>>
  BY Zenon DEF FrameLost, BusType, peerVars
<1>2. /\ f \in Enquiries \/ Made(f)
      /\ \A d \in Dsts : Coming(d)' =
           IF d # e THEN Coming(d) ELSE IF Open(f) THEN Succ(f) ELSE NoFrame
  BY <1>0, <1>1, WireTaken, Zenon
<1>3. ASSUME NEW s \in Srcs, NEW d \in Dsts PROVE Partial(s, d)'
  <2> DEFINE b == pendingBuffers[<<s, d>>]
             l == b[Len(b)]
  <2>0. Partial(s, d) /\ lost' # 0 /\ (lost' <= 1 => lost = 0 /\ lost <= 1)
    BY <1>1 DEF BufInv
  <2>1. CASE b = <<>>
    BY <1>1, <2>1, Zenon DEF Partial
  <2>2. CASE b # <<>> /\ lost # 0
    BY <1>1, <2>0, <2>2, Zenon DEF Partial
  <2>3. CASE b # <<>> /\ lost = 0 /\ d # e
    <3>1. Coming(d)' = Coming(d)
      BY <1>2, <2>3, Zenon
    <3>2. up[d] /\ Len(b) <= MaxFrames /\ Good(s, b) /\ Open(l) /\ Ahead(s, d, l)
      BY <2>0, <2>3 DEF Partial
    <3>3. b' = b
      BY <1>1, Zenon
    <3>4. \/ Coming(d)' = NoFrame \/ Coming(d)'.src # s
          \/ Coming(d)'.id = l.id /\ Coming(d)'.n = l.n /\ Coming(d)'.k > l.k
      BY <3>1, <3>2, Zenon DEF Ahead
    <3>5. Ahead(s, d, l)'
      BY <2>0, <3>3, <3>4, Zenon DEF Ahead
    <3> QED BY <1>1, <2>0, <3>2, <3>5, Zenon DEF Partial
  <2>4. CASE b # <<>> /\ lost = 0 /\ d = e
    <3>0. lost <= 1
      BY <2>4
    <3>1. /\ Good(s, b) /\ Made(l) /\ l.src = s /\ Open(l) /\ Len(b) <= MaxFrames
          /\ f = Succ(l)
      BY <1>0, <1>1, <2>0, <2>4, <3>0, HeadFits, Zenon
    <3>2. Made(f) /\ f.id = l.id /\ f.n = l.n /\ f.k = l.k + 1 /\ l.k \in Nat
      BY <3>1, SuccFacts, MadeFacts, Zenon
    <3>3. Open(f) => Succ(f).id = l.id /\ Succ(f).n = l.n /\ Succ(f).k = (l.k + 1) + 1
      BY <3>2, SuccFacts, Zenon
    <3>4. Open(f) => Succ(f).k > l.k
      BY <3>2, <3>3
    <3>5. Coming(d)' = IF Open(f) THEN Succ(f) ELSE NoFrame
      BY <1>2, <2>4, Zenon
    <3>6. \/ Coming(d)' = NoFrame
          \/ Coming(d)'.id = l.id /\ Coming(d)'.n = l.n /\ Coming(d)'.k > l.k
      BY <3>3, <3>4, <3>5, Zenon
    <3>7. b' = b /\ up[d]
      BY <1>1, <2>0, <2>4, Zenon DEF Partial
    <3>8. Ahead(s, d, l)'
      BY <2>0, <3>6, <3>7, Zenon DEF Ahead
    <3> QED BY <1>1, <2>0, <3>1, <3>7, <3>8, Zenon DEF Partial
  <2> QED BY <2>1, <2>2, <2>3, <2>4, Zenon
<1>4. InboxInv'
  <2> SUFFICES ASSUME NEW d \in Dsts, NEW i \in 1 .. Len(inbox[d])
               PROVE  Whole(inbox[d][i], lost + 1)
    BY <1>1, Zenon DEF InboxInv
  <2>1. Whole(inbox[d][i], lost)
    BY Zenon DEF InboxInv
  <2> QED BY <1>1, <2>1 DEF Whole
<1> QED BY <1>3, <1>4 DEF BufInv

\* What the clients and the destinations do besides leaves the buffers as they
\* are, or drops them.
LEMMA OthersBuf ==
  ASSUME BusType, WireInv, BufInv, InboxInv, lost' = lost,
         \A d \in Dsts : Coming(d)' = Coming(d),
         \/ UNCHANGED <<up, pendingBuffers, inbox>>
         \/ \E e \in Dsts : \/ PeerHandle(e) \/ PeerDown(e) \/ PeerStart(e)
  PROVE  BufInv' /\ InboxInv'
<1>1. CASE UNCHANGED <<up, pendingBuffers, inbox>>
  <2>1. ASSUME NEW s \in Srcs, NEW d \in Dsts PROVE Partial(s, d)'
    BY <1>1, PartialQuiet, Zenon DEF BufInv
  <2> QED BY <1>1, <2>1, InboxQuiet, Zenon DEF BufInv
<1>2. ASSUME NEW e \in Dsts, PeerHandle(e) PROVE BufInv' /\ InboxInv'
  <2>0. UNCHANGED <<up, pendingBuffers>> /\ inbox[e] # <<>> /\ inbox' = [inbox EXCEPT ![e] = Tail(@)]
    BY <1>2, Zenon DEF PeerHandle, peer_handle
  <2>1. ASSUME NEW s \in Srcs, NEW d \in Dsts PROVE Partial(s, d)'
    BY <2>0, PartialQuiet, Zenon DEF BufInv
  <2>2. ASSUME NEW d \in Dsts
        PROVE  \/ inbox'[d] = inbox[d] \/ inbox'[d] = <<>>
               \/ inbox[d] # <<>> /\ inbox'[d] = Tail(inbox[d])
    BY <2>0, Zenon DEF BusType
  <2> QED BY <2>1, <2>2, InboxQuiet, Zenon DEF BufInv
<1>3. ASSUME NEW e \in Dsts, PeerDown(e) PROVE BufInv' /\ InboxInv'
  <2>0. /\ up' = [up EXCEPT ![e] = FALSE] /\ inbox' = [inbox EXCEPT ![e] = <<>>]
        /\ pendingBuffers' = [p \in Srcs \X Dsts |-> IF p[2] = e THEN <<>> ELSE pendingBuffers[p]]
    BY <1>3, Zenon DEF PeerDown, peer_down
  <2>1. ASSUME NEW s \in Srcs, NEW d \in Dsts PROVE Partial(s, d)'
    <3>1. pendingBuffers'[<<s, d>>] = IF d = e THEN <<>> ELSE pendingBuffers[<<s, d>>]
      BY <2>0, Zenon
    <3>2. d # e => up'[d] = up[d]
      BY <2>0, Zenon DEF BusType
    <3>3. CASE d = e
      BY <3>1, <3>3, Zenon DEF Partial
    <3>4. CASE d # e
      BY <3>1, <3>2, <3>4, PartialQuiet, Zenon DEF BufInv
    <3> QED BY <3>3, <3>4, Zenon
  <2>2. ASSUME NEW d \in Dsts PROVE inbox'[d] = inbox[d] \/ inbox'[d] = <<>>
    BY <2>0, Zenon DEF BusType
  <2> QED BY <2>1, <2>2, InboxQuiet, Zenon DEF BufInv
<1>4. ASSUME NEW e \in Dsts, PeerStart(e) PROVE BufInv' /\ InboxInv'
  <2>0. up' = [up EXCEPT ![e] = TRUE] /\ UNCHANGED <<pendingBuffers, inbox>>
    BY <1>4, Zenon DEF PeerStart, peer_start
  <2>1. ASSUME NEW s \in Srcs, NEW d \in Dsts PROVE Partial(s, d)'
    <3>1. up[d] => up'[d]
      BY <2>0, Zenon DEF BusType
    <3> QED BY <2>0, <3>1, PartialQuiet, Zenon DEF BufInv
  <2> QED BY <2>0, <2>1, InboxQuiet, Zenon DEF BufInv
<1> QED BY <1>1, <1>2, <1>3, <1>4, Zenon

\* Nothing has been sent yet.
LEMMA WireInit == Init => WireInv /\ BufInv /\ InboxInv
<1> SUFFICES ASSUME Init PROVE WireInv /\ BufInv /\ InboxInv
  BY Zenon
<1>1. /\ wire = [d \in Dsts |-> <<>>] /\ inbox = [d \in Dsts |-> <<>>] /\ wf = "idle"
      /\ pendingBuffers = [p \in Srcs \X Dsts |-> <<>>]
  BY Zenon DEF Init, CanInit
<1>2. InLine(<<>>)
  BY DEF InLine
<1>3. WireInv
  BY <1>1, <1>2, Zenon DEF WireInv, InOrder
<1>4. BufInv
  BY <1>1, Zenon DEF BufInv, Partial
<1>5. InboxInv
  BY <1>1 DEF InboxInv
<1> QED BY <1>3, <1>4, <1>5, Zenon

\* Every step keeps the bus in order, and what is received of it.
LEMMA WireStep ==
  IInv /\ BusType /\ WireInv /\ BufInv /\ InboxInv /\ [Next]_vars
    => WireInv' /\ BufInv' /\ InboxInv'
<1> SUFFICES ASSUME IInv, BusType, WireInv, BufInv, InboxInv, [Next]_vars
             PROVE  WireInv' /\ BufInv' /\ InboxInv'
  BY Zenon
<1>1. ASSUME UNCHANGED <<sendQueue, wf, dataOffset, wire, lost>>,
             \/ UNCHANGED <<up, pendingBuffers, inbox>>
             \/ \E e \in Dsts : \/ PeerHandle(e) \/ PeerDown(e) \/ PeerStart(e)
      PROVE  WireInv' /\ BufInv' /\ InboxInv'
  <2>1. WireInv' /\ \A d \in Dsts : Coming(d)' = Coming(d)
    BY <1>1, WireQuiet, Zenon DEF cur
  <2>2. lost' = lost
    BY <1>1, Zenon
  <2> QED BY <1>1, <2>1, <2>2, OthersBuf, Zenon
<1>2. ASSUME NEW c \in Clients, Write(c) \/ Wait(c) \/ ClientStep(c) \/ Done(c)
      PROVE  WireInv' /\ BufInv' /\ InboxInv'
  BY <1>1, <1>2, Zenon DEF Write, Wait, ClientStep, Done, canVars, writeVars, peerVars
<1>3. ASSUME NEW c \in Clients, Send(c)
      PROVE  WireInv' /\ BufInv' /\ InboxInv'
  <2>1. msg[c] \in Sendable /\ Submit(msg[c]) /\ lost' = lost
    BY <1>3, Zenon DEF Send, do_send, BusType
  <2>2. WireInv' /\ \A d \in Dsts : Coming(d)' = Coming(d)
    BY <2>1, SubmitQuiet, Zenon
  <2>3. UNCHANGED <<up, pendingBuffers, inbox>>
    BY <2>1, Zenon DEF Submit, peerVars
  <2> QED BY <2>1, <2>2, <2>3, OthersBuf, Zenon
<1>4. CASE WriteFlowStep
  <2>1. WireInv' /\ \A d \in Dsts : Coming(d)' = Coming(d)
    BY <1>4, WireWritten, Zenon
  <2>2. UNCHANGED <<up, pendingBuffers, inbox>> /\ lost' = lost
    BY <1>4, Zenon
    DEF WriteFlowStep, send_to_hardware, send_ame_frame, wtimer_expires, wtimer_run,
        send_verify_nodeid_global, fill_verify_nodeid_global, wait_looking_for_dst,
        fill_can_frame_buffer, peerVars
  <2> QED BY <2>1, <2>2, OthersBuf, Zenon
<1>5. ASSUME NEW e \in Dsts, PeerReceive(e)
      PROVE  WireInv' /\ BufInv' /\ InboxInv'
  <2>1. WireInv'
    BY <1>5, WireTaken, Zenon DEF PeerReceive, peer_receive
  <2> QED BY <1>5, <2>1, ReceiveBuf, Zenon
<1>6. ASSUME NEW e \in Dsts, FrameLost(e)
      PROVE  WireInv' /\ BufInv' /\ InboxInv'
  <2>1. WireInv'
    BY <1>6, WireTaken, Zenon DEF FrameLost
  <2> QED BY <1>6, <2>1, LostBuf
<1>7. ASSUME NEW e \in Dsts, PeerHandle(e) \/ PeerDown(e) \/ PeerStart(e)
      PROVE  WireInv' /\ BufInv' /\ InboxInv'
  <2>1. UNCHANGED <<sendQueue, wf, dataOffset, wire, lost>>
    BY <1>7, Zenon DEF PeerHandle, peer_handle, PeerDown, peer_down, PeerStart, peer_start, writeVars
  <2> QED BY <1>1, <1>7, <2>1, Zenon
<1>8. ASSUME NEW e \in Dsts, ReceiveDefinition(e) \/ ReceiveReboot(e) \/ ReceiveResponse(e)
      PROVE  WireInv' /\ BufInv' /\ InboxInv'
  <2>1. UNCHANGED <<sendQueue, wf, dataOffset, wire, lost, up, pendingBuffers, inbox>>
    BY <1>8, Zenon DEF ReceiveDefinition, ReceiveReboot, ReceiveResponse, alias_definition,
                canVars, writeVars, peerVars
  <2> QED BY <1>1, <2>1, Zenon
<1>9. CASE UNCHANGED vars
  BY <1>1, <1>9, Zenon DEF vars, canVars, writeVars, peerVars
<1> QED BY <1>2, <1>3, <1>4, <1>5, <1>6, <1>7, <1>8, <1>9, Zenon DEF Next

-----------------------------------------------------------------------------
(***************************************************************************)
(* Acknowledgements: each is on its way, with its client, or reported.     *)
(***************************************************************************)

LOCAL INSTANCE FiniteSetTheorems

\* The places of q that hold a member of P.
Places(q, P) == {i \in 1 .. Len(q) : q[i] \in P}

\* The acknowledgements to s.
OKTo(s) == {a \in Answers : a.type = "DATAGRAM_OK" /\ a.dst = s}

\* c has its acknowledgement and its user is yet to be told.
Won(c) == state[c] = "datagram_finalize" /\ "OPERATION_SUCCESS" \in result[c]

Winners(s, d) == {c \in Clients : Won(c) /\ msg[c].src = s /\ msg[c].dst = d}

\* An acknowledgement is reported, with its client, on the way, or lost.
Backed(s, d) ==
  /\ IsFiniteSet(Winners(s, d))
  /\ succeeded[<<s, d>>] + Cardinality(Places(back[d], OKTo(s)))
        + Cardinality(Winners(s, d)) <= accepted[<<s, d>>]

BackInv == \A s \in Srcs, d \in Dsts : Backed(s, d)

\* There are finitely many places.
LEMMA PlacesFinite ==
  ASSUME NEW S, NEW q \in Seq(S), NEW P
  PROVE  IsFiniteSet(Places(q, P)) /\ Cardinality(Places(q, P)) \in Nat
<1>1. Len(q) \in Nat /\ Places(q, P) \in SUBSET (1 .. Len(q))
  BY DEF Places
<1>2. IsFiniteSet(1 .. Len(q))
  BY <1>1, FS_Interval
<1>3. IsFiniteSet(Places(q, P))
  BY <1>1, <1>2, FS_Subset, Zenon
<1> QED BY <1>3, FS_CardinalityType, Zenon

\* One more item.
LEMMA PlacesAppend ==
  ASSUME NEW S, NEW q \in Seq(S), NEW x \in S, NEW P
  PROVE  Cardinality(Places(Append(q, x), P))
           = Cardinality(Places(q, P)) + (IF x \in P THEN 1 ELSE 0)
<1> DEFINE r == Append(q, x)
           n == Len(q) + 1
<1>1. /\ Len(q) \in Nat /\ Len(r) = n /\ r[n] = x
      /\ \A i \in 1 .. Len(q) : r[i] = q[i]
  BY AppendFacts
<1>2. IsFiniteSet(Places(q, P)) /\ Cardinality(Places(q, P)) \in Nat
  BY PlacesFinite, Zenon
<1> HIDE DEF r
<1>3. n \notin Places(q, P)
  BY <1>1 DEF Places
<1>4. CASE x \in P
  <2>1. Places(r, P) = Places(q, P) \cup {n}
    BY <1>1, <1>4 DEF Places
  <2>2. Cardinality(Places(q, P) \cup {n}) = Cardinality(Places(q, P)) + 1
    BY <1>2, <1>3, FS_AddElement, Zenon
  <2> QED BY <1>4, <2>1, <2>2, Zenon DEF r
<1>5. CASE x \notin P
  <2>1. Places(r, P) = Places(q, P)
    BY <1>1, <1>5 DEF Places
  <2> QED BY <1>2, <1>5, <2>1 DEF r
<1> QED BY <1>4, <1>5, Zenon

\* One item less.
LEMMA PlacesTail ==
  ASSUME NEW S, NEW q \in Seq(S), q # <<>>, NEW P
  PROVE  Cardinality(Places(Tail(q), P)) + (IF Head(q) \in P THEN 1 ELSE 0)
           <= Cardinality(Places(q, P))
<1> DEFINE A == Places(Tail(q), P)
           B == Places(q, P) \ {1}
           f == [i \in A |-> i + 1]
<1>1. /\ Len(q) \in Nat /\ Len(q) >= 1 /\ Len(Tail(q)) = Len(q) - 1 /\ q[1] = Head(q)
      /\ \A i \in 1 .. Len(q) - 1 : Tail(q)[i] = q[i + 1]
      /\ Tail(q) \in Seq(S)
  BY TailFacts, Zenon
<1>2. /\ IsFiniteSet(Places(q, P)) /\ Cardinality(Places(q, P)) \in Nat
      /\ Cardinality(A) \in Nat
  BY <1>1, PlacesFinite, Zenon
<1>3. /\ IsFiniteSet(B)
      /\ Cardinality(B) = IF 1 \in Places(q, P) THEN Cardinality(Places(q, P)) - 1
                          ELSE Cardinality(Places(q, P))
  BY <1>2, FS_RemoveElement, Zenon
<1>4. \A i \in A : i \in Int /\ i + 1 \in B
  BY <1>1 DEF Places
<1>5. f \in Injection(A, B)
  <2> HIDE DEF A, B
  <2> QED BY <1>4 DEF Injection, IsInjective
<1>6. Cardinality(A) <= Cardinality(B)
  <2> HIDE DEF A, B, f
  <2> QED BY <1>3, <1>5, FS_Injection, Zenon
<1>7. 1 \in Places(q, P) <=> Head(q) \in P
  BY <1>1 DEF Places
<1> HIDE DEF A, B
<1>8. CASE Head(q) \in P
  BY <1>2, <1>3, <1>6, <1>7, <1>8 DEF A
<1>9. CASE Head(q) \notin P
  BY <1>2, <1>3, <1>6, <1>7, <1>9 DEF A
<1> QED BY <1>8, <1>9, Zenon

\* When one client changes.
LEMMA WinnersMove ==
  ASSUME NEW s, NEW d, NEW c \in Clients, IsFiniteSet(Winners(s, d)),
         \A x \in Clients : x # c => (Won(x)' <=> Won(x)) /\ msg'[x] = msg[x]
  PROVE  /\ IsFiniteSet(Winners(s, d)') /\ IsFiniteSet(Winners(s, d))
         /\ Cardinality(Winners(s, d)) \in Nat /\ Cardinality(Winners(s, d)') \in Nat
         /\ Cardinality(Winners(s, d)') + (IF c \in Winners(s, d) THEN 1 ELSE 0)
              = Cardinality(Winners(s, d)) + (IF c \in Winners(s, d)' THEN 1 ELSE 0)
<1> DEFINE W == Winners(s, d)
           V == Winners(s, d)'
           T == W \ {c}
<1>1. V = IF c \in V THEN T \cup {c} ELSE T
  BY Zenon DEF Winners
<1>2. /\ IsFiniteSet(T) /\ Cardinality(W) \in Nat /\ Cardinality(T) \in Nat
      /\ Cardinality(T) = IF c \in W THEN Cardinality(W) - 1 ELSE Cardinality(W)
  BY FS_RemoveElement, FS_CardinalityType, Zenon
<1>3. IsFiniteSet(T \cup {c}) /\ Cardinality(T \cup {c}) = Cardinality(T) + 1
  <2>1. c \notin T
    BY Zenon
  <2> HIDE DEF T
  <2> QED BY <1>2, <2>1, FS_AddElement, Zenon
<1> HIDE DEF V, W, T
<1>4. IsFiniteSet(V)
  BY <1>1, <1>2, <1>3, Zenon
<1>5. Cardinality(V) + (IF c \in W THEN 1 ELSE 0) = Cardinality(W) + (IF c \in V THEN 1 ELSE 0)
  <2>1. CASE c \in V
    <3>1. Cardinality(V) = Cardinality(T) + 1
      BY <1>1, <1>3, <2>1, Zenon
    <3> QED BY <1>2, <2>1, <3>1, SMTT(20)
  <2>2. CASE c \notin V
    <3>1. Cardinality(V) = Cardinality(T)
      BY <1>1, <2>2, Zenon
    <3> QED BY <1>2, <2>2, <3>1
  <2> QED BY <2>1, <2>2, Zenon
<1>6. Cardinality(V) \in Nat
  BY <1>4, FS_CardinalityType, Zenon
<1> QED BY <1>2, <1>4, <1>5, <1>6, Zenon DEF V, W

\* When none does.
LEMMA WinnersStay ==
  ASSUME UNCHANGED <<state, result, msg>>, NEW s, NEW d
  PROVE  Winners(s, d)' = Winners(s, d)
BY Zenon DEF Winners, Won

\* The numbers Backed() is about.
LEMMA BackedTypes ==
  ASSUME BusType, NEW s \in Srcs, NEW d \in Dsts, Backed(s, d)
  PROVE  /\ succeeded[<<s, d>>] \in Nat /\ accepted[<<s, d>>] \in Nat
         /\ Cardinality(Places(back[d], OKTo(s))) \in Nat
         /\ Cardinality(Winners(s, d)) \in Nat
         /\ back[d] \in Seq(Answers) /\ <<s, d>> \in Pairs
<1>1. back[d] \in Seq(Answers) /\ <<s, d>> \in Pairs
  BY Zenon DEF BusType, Pairs
<1>2. succeeded[<<s, d>>] \in Nat /\ accepted[<<s, d>>] \in Nat
  BY <1>1, Zenon DEF BusType
<1>3. Cardinality(Places(back[d], OKTo(s))) \in Nat
  BY <1>1, PlacesFinite, Zenon
<1>4. Cardinality(Winners(s, d)) \in Nat
  BY FS_CardinalityType, Zenon DEF Backed
<1> QED BY <1>1, <1>2, <1>3, <1>4, Zenon

\* A step that leaves the clients and the counters alone and at most takes
\* something off the way back, or adds what is no acknowledgement.
LEMMA BackedQuiet ==
  ASSUME BusType, NEW s \in Srcs, NEW d \in Dsts, Backed(s, d),
         UNCHANGED <<state, result, msg, accepted, succeeded>>,
         \/ back'[d] = back[d]
         \/ back[d] # <<>> /\ back'[d] = Tail(back[d])
         \/ \E a \in Answers : a.type # "DATAGRAM_OK" /\ back'[d] = Append(back[d], a)
  PROVE  Backed(s, d)'
<1>1. /\ succeeded[<<s, d>>] \in Nat /\ accepted[<<s, d>>] \in Nat
      /\ Cardinality(Places(back[d], OKTo(s))) \in Nat
      /\ Cardinality(Winners(s, d)) \in Nat
      /\ back[d] \in Seq(Answers)
  BY BackedTypes, Zenon
<1>2. Winners(s, d)' = Winners(s, d)
  BY WinnersStay, Zenon
<1>3. /\ Cardinality(Places(back'[d], OKTo(s))) \in Nat
      /\ Cardinality(Places(back'[d], OKTo(s))) <= Cardinality(Places(back[d], OKTo(s)))
  <2>1. CASE back'[d] = back[d]
    BY <1>1, <2>1
  <2>2. CASE back[d] # <<>> /\ back'[d] = Tail(back[d])
    <3>1. back'[d] \in Seq(Answers)
      BY <1>1, <2>2
    <3>2. Cardinality(Places(back'[d], OKTo(s))) \in Nat
      BY <3>1, PlacesFinite, Zenon
    <3>3. Cardinality(Places(Tail(back[d]), OKTo(s)))
            + (IF Head(back[d]) \in OKTo(s) THEN 1 ELSE 0) <= Cardinality(Places(back[d], OKTo(s)))
      BY <1>1, <2>2, PlacesTail, Zenon
    <3> QED BY <1>1, <2>2, <3>2, <3>3, SMTT(20)
  <2>3. CASE \E a \in Answers : a.type # "DATAGRAM_OK" /\ back'[d] = Append(back[d], a)
    <3>1. PICK a \in Answers : a.type # "DATAGRAM_OK" /\ back'[d] = Append(back[d], a)
      BY <2>3, Zenon
    <3>2. a \notin OKTo(s)
      BY <3>1, Zenon DEF OKTo
    <3>3. Cardinality(Places(back'[d], OKTo(s))) = Cardinality(Places(back[d], OKTo(s))) + 0
      BY <1>1, <3>1, <3>2, PlacesAppend
    <3> QED BY <1>1, <3>3, SMTT(20)
  <2> QED BY <2>1, <2>2, <2>3, Zenon
<1>4. accepted' = accepted /\ succeeded' = succeeded
  BY Zenon
<1>5. succeeded[<<s, d>>] + Cardinality(Places(back[d], OKTo(s)))
        + Cardinality(Winners(s, d)) <= accepted[<<s, d>>]
  BY Zenon DEF Backed
<1>6. succeeded[<<s, d>>] + Cardinality(Places(back'[d], OKTo(s)))
        + Cardinality(Winners(s, d)) <= accepted[<<s, d>>]
  BY ONLY <1>1, <1>3, <1>5, SMTT(20)
<1>7. IsFiniteSet(Winners(s, d)')
  BY <1>2, Zenon DEF Backed
<1> QED BY <1>2, <1>4, <1>6, <1>7, Zenon DEF Backed

\* A client runs.
LEMMA ClientBacked ==
  ASSUME IInv, BusType, BackInv, NEW c \in Clients,
         Write(c) \/ Wait(c) \/ Send(c) \/ ClientStep(c) \/ Done(c),
         NEW s \in Srcs, NEW d \in Dsts
  PROVE  Backed(s, d)'
<1>0. Backed(s, d)
  BY Zenon DEF BackInv
<1>1. /\ succeeded[<<s, d>>] \in Nat /\ accepted[<<s, d>>] \in Nat
      /\ Cardinality(Places(back[d], OKTo(s))) \in Nat
      /\ <<s, d>> \in Pairs
  BY <1>0, BackedTypes, Zenon
<1>t. /\ state \in [Clients -> States] /\ result \in [Clients -> SUBSET Flags]
      /\ msg \in [Clients -> Messages \cup {NoMsg}] /\ succeeded \in [Pairs -> Nat]
  BY Zenon DEF IInv, ClientTypeOK, BusType
<1>b. back' = back /\ accepted' = accepted
  BY Zenon DEF Write, Wait, Send, ClientStep, Done, Submit, canVars
<1>2. CASE Wait(c) \/ ClientStep(c)
  <2>1. UNCHANGED <<state, result, msg, accepted, succeeded>>
    BY <1>2, Zenon DEF Wait, ClientStep, wait_for_lock, timer_expires, timer_run
  <2> QED BY <1>0, <1>b, <2>1, BackedQuiet, Zenon
<1>3. ASSUME \A x \in Clients : x # c => (Won(x)' <=> Won(x)) /\ msg'[x] = msg[x],
             c \notin Winners(s, d)',
             succeeded'[<<s, d>>]
               = succeeded[<<s, d>>] + (IF c \in Winners(s, d) THEN 1 ELSE 0)
      PROVE  Backed(s, d)'
  <2> DEFINE W == Cardinality(Winners(s, d))
             V == Cardinality(Winners(s, d)')
  <2>1. /\ IsFiniteSet(Winners(s, d)') /\ W \in Nat /\ V \in Nat
        /\ V + (IF c \in Winners(s, d) THEN 1 ELSE 0) = W + (IF c \in Winners(s, d)' THEN 1 ELSE 0)
    BY <1>0, <1>3, WinnersMove, Zenon DEF Backed
  <2>2. V + (IF c \in Winners(s, d) THEN 1 ELSE 0) = W
    BY <1>3, <2>1, SMTT(20)
  <2> DEFINE o == Cardinality(Places(back[d], OKTo(s)))
  <2>3. succeeded[<<s, d>>] + o + W <= accepted[<<s, d>>]
    BY <1>0, Zenon DEF Backed
  <2>4. succeeded'[<<s, d>>] + o + V <= accepted[<<s, d>>]
    <3>1. PICK g : g = IF c \in Winners(s, d) THEN 1 ELSE 0
      BY Zenon
    <3>2. g \in Nat
      BY ONLY <3>1
    <3>3. /\ succeeded[<<s, d>>] \in Nat /\ accepted[<<s, d>>] \in Nat /\ o \in Nat
          /\ W \in Nat /\ V \in Nat /\ V + g = W
          /\ succeeded'[<<s, d>>] = succeeded[<<s, d>>] + g
          /\ succeeded[<<s, d>>] + o + W <= accepted[<<s, d>>]
      BY <1>1, <1>3, <2>1, <2>2, <2>3, <3>1, Zenon
    <3> HIDE DEF W, V, o
    <3> QED BY ONLY <3>2, <3>3, SMTT(20)
  <2> QED BY <1>b, <2>1, <2>4, Zenon DEF Backed, V, o
<1>s. ASSUME \A x \in Clients : x # c => (Won(x)' <=> Won(x)) /\ msg'[x] = msg[x],
             c \notin Winners(s, d)', c \notin Winners(s, d), succeeded' = succeeded
      PROVE  Backed(s, d)'
  <2>1. succeeded'[<<s, d>>] = succeeded[<<s, d>>] + (IF c \in Winners(s, d) THEN 1 ELSE 0)
    <3>1. (IF c \in Winners(s, d) THEN 1 ELSE 0) = 0 /\ succeeded'[<<s, d>>] = succeeded[<<s, d>>]
      BY <1>s, Zenon
    <3>2. succeeded[<<s, d>>] \in Nat
      BY <1>1, Zenon
    <3> QED BY ONLY <3>1, <3>2
  <2> QED BY <1>3, <1>s, <2>1, Zenon
<1>4. CASE Write(c)
  <2>1. PICK m : write_datagram(c, m) /\ succeeded' = succeeded
    BY <1>4, Zenon DEF Write
  <2>2. /\ state[c] = "terminated" /\ state'[c] = "start_send"
        /\ \A x \in Clients : x # c => /\ state'[x] = state[x] /\ result'[x] = result[x]
                                       /\ msg'[x] = msg[x]
    BY <1>t, <2>1, Zenon DEF write_datagram
  <2> QED BY <1>s, <2>1, <2>2, Zenon DEF Won, Winners
<1>5. CASE Send(c)
  <2>1. /\ state[c] = "start_send" /\ state'[c] = "timeout_waiting_for_dg_response"
        /\ succeeded' = succeeded
        /\ \A x \in Clients : x # c => /\ state'[x] = state[x] /\ result'[x] = result[x]
                                       /\ msg'[x] = msg[x]
    BY <1>t, <1>5, Zenon DEF Send, do_send
  <2> QED BY <1>s, <2>1, Zenon DEF Won, Winners
<1>6. CASE Done(c)
  <2>1. /\ state' = [state EXCEPT ![c] = "terminated"] /\ msg' = msg
        /\ \A x \in Clients : x # c => result'[x] = result[x]
    BY <1>6, <1>t, Zenon DEF Done, datagram_finalize, timeout_waiting_for_dg_response
  <2>2. /\ state'[c] = "terminated"
        /\ \A x \in Clients : x # c => /\ state'[x] = state[x] /\ result'[x] = result[x]
                                       /\ msg'[x] = msg[x]
    BY <1>t, <2>1, Zenon
  <2>3. "OPERATION_SUCCESS" \in result'[c] <=> Won(c)
    <3>1. CASE datagram_finalize(c)
      BY <1>t, <3>1, Zenon DEF datagram_finalize, Won
    <3>2. CASE timeout_waiting_for_dg_response(c)
      <4>1. result[c] = {"OPERATION_PENDING"}
        BY <1>6, <3>2, Zenon DEF Done, Running, timeout_waiting_for_dg_response, IInv, Core, Results, Sends
      <4> QED BY <1>t, <3>2, <4>1, Zenon DEF timeout_waiting_for_dg_response, Won
    <3> QED BY <1>6, <3>1, <3>2, Zenon DEF Done
  <2>4. succeeded' = IF Won(c) THEN [succeeded EXCEPT ![<<msg[c].src, msg[c].dst>>] = @ + 1]
                     ELSE succeeded
    BY <1>6, <2>3, Zenon DEF Done
  <2>5. c \in Winners(s, d) <=> Won(c) /\ <<msg[c].src, msg[c].dst>> = <<s, d>>
    BY Zenon DEF Winners
  <2>6. succeeded'[<<s, d>>]
          = succeeded[<<s, d>>] + (IF c \in Winners(s, d) THEN 1 ELSE 0)
    <3> DEFINE p == <<s, d>>
               q == <<msg[c].src, msg[c].dst>>
    <3>1. /\ p \in Pairs /\ (c \in Winners(s, d) <=> Won(c) /\ q = p)
          /\ succeeded' = IF Won(c) THEN [succeeded EXCEPT ![q] = @ + 1] ELSE succeeded
          /\ succeeded[p] \in Nat
      BY <1>1, <2>4, <2>5, Zenon
    <3> HIDE DEF p, q
    <3>2. succeeded'[p] = succeeded[p] + (IF c \in Winners(s, d) THEN 1 ELSE 0)
      BY ONLY <3>1, <1>t
    <3> QED BY <3>2, Zenon DEF p
  <2>7. c \notin Winners(s, d)'
    BY <2>2, Zenon DEF Winners, Won
  <2> QED BY <1>3, <2>2, <2>6, <2>7, Zenon DEF Won
<1> QED BY <1>2, <1>4, <1>5, <1>6, Zenon

\* One answer more in a channel.
LEMMA BackAt ==
  ASSUME BusType, NEW e \in Dsts, NEW d \in Dsts, NEW v, back' = [back EXCEPT ![e] = v]
  PROVE  back'[d] = IF d = e THEN v ELSE back[d]
BY Zenon DEF BusType

\* The write flow, and a destination that takes a frame, stops, or starts.
LEMMA TransportBacked ==
  ASSUME BusType, BackInv, NEW e \in Dsts,
         WriteFlowStep \/ PeerReceive(e) \/ PeerDown(e) \/ FrameLost(e),
         NEW s \in Srcs, NEW d \in Dsts
  PROVE  Backed(s, d)'
<1>0. Backed(s, d)
  BY Zenon DEF BackInv
<1>1. UNCHANGED <<state, result, msg, accepted, succeeded>>
  BY Zenon DEF WriteFlowStep, PeerReceive, PeerDown, FrameLost, clientVars
<1> SUFFICES \/ back'[d] = back[d]
             \/ \E a \in Answers : a.type # "DATAGRAM_OK" /\ back'[d] = Append(back[d], a)
  BY <1>0, <1>1, BackedQuiet, Zenon
<1>2. CASE WriteFlowStep \/ PeerDown(e) \/ FrameLost(e)
  BY <1>2, Zenon
  DEF WriteFlowStep, send_to_hardware, send_ame_frame, wtimer_expires, wtimer_run,
      send_verify_nodeid_global, fill_verify_nodeid_global, wait_looking_for_dst,
      fill_can_frame_buffer, PeerDown, peer_down, FrameLost
<1>3. CASE PeerReceive(e)
  <2>1. ASSUME NEW a \in Answers, a.type # "DATAGRAM_OK", back' = [back EXCEPT ![e] = Append(@, a)]
        PROVE  \/ back'[d] = back[d]
               \/ \E b \in Answers : b.type # "DATAGRAM_OK" /\ back'[d] = Append(back[d], b)
    BY <2>1, BackAt
  <2> DEFINE f == Head(wire[e])
             Goal == \/ back'[d] = back[d]
                     \/ \E b \in Answers : b.type # "DATAGRAM_OK" /\ back'[d] = Append(back[d], b)
  <2>2. CASE UNCHANGED <<back, peerVars>>
    BY <2>2, Zenon
  <2>3. CASE back' = [back EXCEPT ![e] = Append(@, [type |->
                         IF f.type = "AME" THEN "AMD" ELSE "VERIFIED_NODE_ID"])]
    <3>1. PICK t \in {"AMD", "VERIFIED_NODE_ID"} : back' = [back EXCEPT ![e] = Append(@, [type |-> t])]
      BY <2>3, Zenon
    <3>2. [type |-> t] \in Answers /\ [type |-> t].type # "DATAGRAM_OK"
      BY Zenon DEF Answers
    <3> QED BY <2>1, <3>1, <3>2, Zenon
  <2>4. CASE f \notin Enquiries /\ parse(e, f)
    <3>1. f \in Frames
      <4>1. wire[e] # <<>> /\ wire \in [Dsts -> Seq(Frames \cup Enquiries)]
        BY <1>3, Zenon DEF PeerReceive, peer_receive, BusType
      <4>2. f \in Frames \cup Enquiries
        BY <4>1, TailType, Zenon
      <4> QED BY <2>4, <4>2, Zenon
    <3> HIDE DEF f
    <3>2. back' = back \/ \E code \in {{"RESEND_OK"}, {"PERMANENT_ERROR"}} : Reject(e, f.src, code)
      BY <2>4, <3>1, ParseCases, Zenon
    <3>3. ASSUME NEW code \in {{"RESEND_OK"}, {"PERMANENT_ERROR"}}, Reject(e, f.src, code)
          PROVE  Goal
      <4> DEFINE a == [type |-> "DATAGRAM_REJECTED", dst |-> f.src, code |-> code]
      <4>1. a \in Answers /\ a.type # "DATAGRAM_OK"
        BY <3>1, Zenon DEF Answers, Frames
      <4>2. back' = [back EXCEPT ![e] = Append(@, a)]
        BY <3>3, Zenon DEF Reject
      <4> HIDE DEF a
      <4> QED BY <2>1, <4>1, <4>2, Zenon
    <3> QED BY <3>2, <3>3, Zenon
  <2> QED BY <1>3, <2>2, <2>3, <2>4, Zenon DEF PeerReceive, peer_receive
<1> QED BY <1>2, <1>3, Zenon

\* A destination starts.
LEMMA StartBacked ==
  ASSUME BusType, BackInv, NEW e \in Dsts, PeerStart(e), NEW s \in Srcs, NEW d \in Dsts
  PROVE  Backed(s, d)'
<1>0. Backed(s, d)
  BY Zenon DEF BackInv
<1>1. UNCHANGED <<state, result, msg, accepted, succeeded>>
  BY Zenon DEF PeerStart, clientVars
<1> DEFINE a == [type |-> "AMD"]
           b == [type |-> "INITIALIZATION_COMPLETE"]
           q == back[d]
           P == OKTo(s)
<1>2. a \in Answers /\ b \in Answers /\ a \notin P /\ b \notin P
  BY Zenon DEF Answers, OKTo
<1>3. back'[d] = IF d = e THEN q \o <<a, b>> ELSE q
  <2>1. back' = [back EXCEPT ![e] = back[e] \o <<a, b>>]
    BY Zenon DEF PeerStart, peer_start
  <2> HIDE DEF a, b
  <2>2. back'[d] = IF d = e THEN back[e] \o <<a, b>> ELSE back[d]
    BY <2>1, BackAt, Zenon
  <2> QED BY <2>2, Zenon
<1>4. q \in Seq(Answers) /\ Cardinality(Places(q, P)) \in Nat
  BY <1>0, BackedTypes, Zenon
<1> HIDE DEF a, b, q, P
<1>5. q \o <<a, b>> = Append(Append(q, a), b)
  BY <1>2, <1>4
<1>6. Cardinality(Places(Append(q, a), P)) = Cardinality(Places(q, P))
  <2>1. Cardinality(Places(Append(q, a), P)) = Cardinality(Places(q, P)) + 0
    BY <1>2, <1>4, PlacesAppend, Zenon
  <2> QED BY <1>4, <2>1
<1>7. Cardinality(Places(Append(Append(q, a), b), P)) = Cardinality(Places(q, P))
  <2>1. Append(q, a) \in Seq(Answers)
    BY <1>2, <1>4
  <2>2. Cardinality(Places(Append(Append(q, a), b), P))
          = Cardinality(Places(Append(q, a), P)) + 0
    BY <1>2, <2>1, PlacesAppend, Zenon
  <2> QED BY <1>4, <1>6, <2>2
<1>8. Cardinality(Places(back'[d], P)) = Cardinality(Places(q, P))
  BY <1>3, <1>5, <1>7, Zenon
<1>9. Winners(s, d)' = Winners(s, d)
  BY <1>1, WinnersStay, Zenon
<1> QED BY <1>0, <1>1, <1>8, <1>9, Zenon DEF Backed, P, q

\* A destination answers: it counts what it accepts.
LEMMA HandleBacked ==
  ASSUME BusType, BackInv, NEW e \in Dsts, PeerHandle(e), NEW s \in Srcs, NEW d \in Dsts
  PROVE  Backed(s, d)'
<1>0. Backed(s, d)
  BY DEF BackInv
<1>1. UNCHANGED <<state, result, msg, succeeded>>
  BY Zenon DEF PeerHandle, clientVars
<1>2. PICK answer \in {"respond_ok", "respond_rejection", "respond_reject", "none"} :
          /\ peer_handle(e, answer)
          /\ accepted' = IF answer = "respond_ok"
                         THEN [accepted EXCEPT ![<<Head(inbox[e])[1].src, e>>] = @ + 1]
                         ELSE accepted
  BY Zenon DEF PeerHandle
<1> DEFINE r == Head(inbox[e])[1].src
           o == Cardinality(Places(back[d], OKTo(s)))
           w == Cardinality(Winners(s, d))
<1>3. /\ succeeded[<<s, d>>] \in Nat /\ accepted[<<s, d>>] \in Nat
      /\ o \in Nat /\ w \in Nat /\ back[d] \in Seq(Answers) /\ <<s, d>> \in Pairs
  BY <1>0, BackedTypes, Zenon
<1>4. r \in Srcs
  <2>1. inbox \in [Dsts -> Seq(Seq(Frames) \ {<<>>})] /\ inbox[e] # <<>>
    BY <1>2, Zenon DEF BusType, peer_handle
  <2>2. Head(inbox[e]) \in Seq(Frames) \ {<<>>}
    BY <2>1, TailType, Zenon
  <2>3. Head(inbox[e])[1] \in Frames
    BY <2>2
  <2> QED BY <2>3, Zenon DEF Frames
<1>5. CASE answer = "respond_ok"
  <2> DEFINE a == [type |-> "DATAGRAM_OK", dst |-> r, code |-> {}]
  <2>1. a \in Answers /\ (a \in OKTo(s) <=> r = s)
    BY <1>4, Zenon DEF Answers, OKTo
  <2>2. back' = [back EXCEPT ![e] = Append(@, a)]
        /\ accepted' = [accepted EXCEPT ![<<r, e>>] = @ + 1]
    BY <1>2, <1>5, Zenon DEF peer_handle
  <2> HIDE DEF a, r
  <2>3. back'[d] = IF d = e THEN Append(back[d], a) ELSE back[d]
    BY <2>2, BackAt
  <2>4. Cardinality(Places(Append(back[d], a), OKTo(s))) = o + (IF r = s THEN 1 ELSE 0)
    BY <1>3, <2>1, PlacesAppend, SMTT(20)
  <2>5. Cardinality(Places(back'[d], OKTo(s))) = o + (IF d = e /\ r = s THEN 1 ELSE 0)
    BY <1>3, <2>3, <2>4, SMTT(20)
  <2>6. accepted'[<<s, d>>] = accepted[<<s, d>>] + (IF d = e /\ r = s THEN 1 ELSE 0)
    <3>1. accepted \in [Pairs -> Nat] /\ (<<s, d>> = <<r, e>> <=> d = e /\ r = s)
      BY Zenon DEF BusType
    <3>2. accepted'[<<s, d>>] = IF <<s, d>> = <<r, e>> THEN accepted[<<s, d>>] + 1
                                ELSE accepted[<<s, d>>]
      BY <1>3, <2>2, <3>1, Zenon
    <3> QED BY <1>3, <3>1, <3>2, SMTT(20)
  <2>7. Winners(s, d)' = Winners(s, d)
    BY <1>1, WinnersStay, Zenon
  <2>8. succeeded[<<s, d>>] + o + w <= accepted[<<s, d>>] /\ IsFiniteSet(Winners(s, d))
    BY <1>0, Zenon DEF Backed
  <2> DEFINE o2 == Cardinality(Places(back'[d], OKTo(s)))
  <2> HIDE DEF o, w, o2
  <2>9. succeeded[<<s, d>>] + o2 + w <= accepted'[<<s, d>>]
    BY ONLY <1>3, <2>5, <2>6, <2>8, SMTT(20) DEF o2
  <2> QED BY <1>1, <2>7, <2>8, <2>9, Zenon DEF Backed, o2, w
<1>6. CASE answer # "respond_ok"
  <2>1. accepted' = accepted
    BY <1>2, <1>6, Zenon
  <2>2. \/ back' = back
        \/ \E code \in {{"PERMANENT_ERROR"}, {}} : Reject(e, r, code)
    BY <1>2, <1>6, Zenon DEF peer_handle
  <2>3. ASSUME NEW code \in {{"PERMANENT_ERROR"}, {}}, Reject(e, r, code)
        PROVE  \/ back'[d] = back[d]
               \/ \E b \in Answers : b.type # "DATAGRAM_OK" /\ back'[d] = Append(back[d], b)
    <3> DEFINE a == [type |-> "DATAGRAM_REJECTED", dst |-> r, code |-> code]
    <3>1. a \in Answers /\ a.type # "DATAGRAM_OK"
      BY <1>4, Zenon DEF Answers
    <3>2. back' = [back EXCEPT ![e] = Append(@, a)]
      BY <2>3, Zenon DEF Reject
    <3> HIDE DEF a
    <3> QED BY <3>1, <3>2, BackAt
  <2>4. \/ back'[d] = back[d]
        \/ \E b \in Answers : b.type # "DATAGRAM_OK" /\ back'[d] = Append(back[d], b)
    BY <2>2, <2>3, Zenon
  <2> QED BY <1>0, <1>1, <2>1, <2>4, BackedQuiet, Zenon
<1> QED BY <1>5, <1>6, Zenon

\* The wait of one client ends; it has won only if the answer that arrives is
\* the acknowledgement for its pair.
LEMMA StopBacked ==
  ASSUME IInv, BusType, NEW s \in Srcs, NEW d \in Dsts, Backed(s, d), Running,
         NEW c \in Clients, NEW flags, sendPending[c], stop_waiting_for_response(c, flags),
         UNCHANGED <<accepted, succeeded>>,
         NEW n \in Nat, n = Cardinality(Places(back'[d], OKTo(s))),
         n + (IF "OPERATION_SUCCESS" \in flags /\ msg[c].src = s /\ msg[c].dst = d
              THEN 1 ELSE 0) <= Cardinality(Places(back[d], OKTo(s)))
  PROVE  Backed(s, d)'
<1>1. /\ succeeded[<<s, d>>] \in Nat /\ accepted[<<s, d>>] \in Nat
      /\ Cardinality(Places(back[d], OKTo(s))) \in Nat
  BY BackedTypes, Zenon
<1>t. /\ state \in [Clients -> States] /\ result \in [Clients -> SUBSET Flags]
  BY Zenon DEF IInv, ClientTypeOK
<1>2. state[c] = "timeout_waiting_for_dg_response"
  BY Zenon DEF IInv, Running, Core, Flows, Sends
<1>3. /\ state' = [state EXCEPT ![c] = "datagram_finalize"]
      /\ result' = [result EXCEPT ![c] = flags] /\ msg' = msg
  BY Zenon DEF stop_waiting_for_response
<1>4. /\ Won(c)' <=> "OPERATION_SUCCESS" \in flags
      /\ \A x \in Clients : x # c => (Won(x)' <=> Won(x)) /\ msg'[x] = msg[x]
  BY <1>t, <1>3, Zenon DEF Won
<1>5. /\ c \notin Winners(s, d)
      /\ c \in Winners(s, d)' <=> "OPERATION_SUCCESS" \in flags /\ msg[c].src = s /\ msg[c].dst = d
  BY <1>2, <1>3, <1>4, Zenon DEF Winners, Won
<1> DEFINE w == Cardinality(Winners(s, d))
           v == Cardinality(Winners(s, d)')
           g == IF c \in Winners(s, d)' THEN 1 ELSE 0
<1>6. /\ IsFiniteSet(Winners(s, d)') /\ w \in Nat /\ v \in Nat
      /\ v + (IF c \in Winners(s, d) THEN 1 ELSE 0) = w + g
  BY <1>4, WinnersMove, Zenon DEF Backed
<1>7. v = w + g /\ g \in Nat
  BY <1>5, <1>6, SMTT(20)
<1>8. n + g <= Cardinality(Places(back[d], OKTo(s)))
  BY <1>5, Zenon
<1>9. succeeded[<<s, d>>] + Cardinality(Places(back[d], OKTo(s))) + w <= accepted[<<s, d>>]
  BY Zenon DEF Backed
<1>10. succeeded[<<s, d>>] + n + v <= accepted[<<s, d>>]
  <2>1. PICK o : o = Cardinality(Places(back[d], OKTo(s)))
    BY Zenon
  <2> HIDE DEF w, v, g
  <2>2. /\ succeeded[<<s, d>>] \in Nat /\ accepted[<<s, d>>] \in Nat /\ o \in Nat /\ w \in Nat
        /\ v = w + g /\ g \in Nat /\ n \in Nat /\ n + g <= o
        /\ succeeded[<<s, d>>] + o + w <= accepted[<<s, d>>]
    BY <1>1, <1>6, <1>7, <1>8, <1>9, <2>1, Zenon
  <2> QED BY ONLY <2>2
<1> QED BY <1>6, <1>10, Zenon DEF Backed, v

\* What arrives is taken off its channel.
LEMMA ReceivedPlaces ==
  ASSUME BusType, NEW e \in Dsts, NEW d \in Dsts, NEW s \in Srcs, back[e] # <<>>,
         Received(e) \/ UNCHANGED back
  PROVE  /\ back'[d] = back[d] \/ (back[d] # <<>> /\ back'[d] = Tail(back[d]))
         /\ Cardinality(Places(back[d], OKTo(s))) \in Nat
         /\ Cardinality(Places(back'[d], OKTo(s))) \in Nat
         /\ Cardinality(Places(back'[d], OKTo(s))) <= Cardinality(Places(back[d], OKTo(s)))
         /\ Received(e) /\ d = e /\ Head(back[e]) \in OKTo(s) =>
              Cardinality(Places(back'[d], OKTo(s))) + 1 <= Cardinality(Places(back[d], OKTo(s)))
<1>1. back[d] \in Seq(Answers)
  BY Zenon DEF BusType
<1>2. Cardinality(Places(back[d], OKTo(s))) \in Nat
  BY <1>1, PlacesFinite, Zenon
<1>3. CASE UNCHANGED back /\ ~Received(e)
  BY <1>2, <1>3, SMTT(20)
<1>4. CASE Received(e)
  <2>1. back' = [back EXCEPT ![e] = Tail(back[e])]
    BY <1>4, Zenon DEF Received
  <2>2. back'[d] = IF d = e THEN Tail(back[e]) ELSE back[d]
    BY <2>1, BackAt, Zenon
  <2>3. CASE d # e
    BY <1>2, <2>2, <2>3, SMTT(20)
  <2>4. CASE d = e
    <3>1. back'[d] = Tail(back[d]) /\ back[d] # <<>>
      BY <2>2, <2>4, Zenon
    <3>2. Tail(back[d]) \in Seq(Answers)
      BY <1>1, <3>1
    <3>3. Cardinality(Places(Tail(back[d]), OKTo(s))) \in Nat
      BY <3>2, PlacesFinite, Zenon
    <3>4. Cardinality(Places(Tail(back[d]), OKTo(s)))
            + (IF Head(back[d]) \in OKTo(s) THEN 1 ELSE 0) <= Cardinality(Places(back[d], OKTo(s)))
      BY <1>1, <3>1, PlacesTail, Zenon
    <3> QED BY <1>2, <2>4, <3>1, <3>3, <3>4, SMTT(20)
  <2> QED BY <2>3, <2>4, Zenon
<1> QED BY <1>3, <1>4, Zenon

\* An alias definition, a restart and an answer arrive.
LEMMA ReceiveBacked ==
  ASSUME IInv, BusType, BackInv, NEW e \in Dsts,
         ReceiveDefinition(e) \/ ReceiveReboot(e) \/ ReceiveResponse(e),
         NEW s \in Srcs, NEW d \in Dsts
  PROVE  Backed(s, d)'
<1>0. Backed(s, d)
  BY Zenon DEF BackInv
<1>1. /\ back[e] # <<>>
      /\ Received(e) \/ UNCHANGED back
      /\ Running /\ UNCHANGED <<accepted, succeeded>>
  BY Zenon DEF ReceiveDefinition, ReceiveReboot, ReceiveResponse, canVars
<1> DEFINE n == Cardinality(Places(back'[d], OKTo(s)))
           o == Cardinality(Places(back[d], OKTo(s)))
<1>2. /\ back'[d] = back[d] \/ (back[d] # <<>> /\ back'[d] = Tail(back[d]))
      /\ o \in Nat /\ n \in Nat /\ n <= o
      /\ Received(e) /\ d = e /\ Head(back[e]) \in OKTo(s) => n + 1 <= o
  BY <1>1, ReceivedPlaces, Zenon
<1> HIDE DEF n, o
<1>3. CASE UNCHANGED clientVars
  BY <1>0, <1>1, <1>2, <1>3, BackedQuiet, Zenon DEF clientVars
<1>4. ASSUME NEW c \in SendersTo(e), NEW flags, stop_waiting_for_response(c, flags),
             "OPERATION_SUCCESS" \in flags /\ msg[c].src = s =>
               Received(e) /\ Head(back[e]) \in OKTo(s)
      PROVE  Backed(s, d)'
  <2>1. c \in Clients /\ sendPending[c] /\ msg[c].dst = e
    BY <1>4, Zenon DEF SendersTo
  <2>2. n + (IF "OPERATION_SUCCESS" \in flags /\ msg[c].src = s /\ msg[c].dst = d
             THEN 1 ELSE 0) <= o
    BY <1>2, <1>4, <2>1, SMTT(20)
  <2> QED BY <1>0, <1>1, <1>2, <1>4, <2>1, <2>2, StopBacked, Zenon DEF n, o
<1>r. ASSUME NEW c \in SendersTo(e) PROVE result[c] = {"OPERATION_PENDING"}
  BY <1>1, <1>r, Zenon DEF SendersTo, IInv, Running, Core, Flows, Results
<1>5. CASE ReceiveReboot(e)
  <2>1. CASE \E c \in SendersTo(e) : handle_reboot(c, e)
    <3>1. PICK c \in SendersTo(e) : handle_reboot(c, e)
      BY <2>1, Zenon
    <3>2. stop_waiting_for_response(c, result[c] \cup {"DST_REBOOT"})
      BY <3>1, Zenon DEF handle_reboot
    <3>3. "OPERATION_SUCCESS" \notin result[c] \cup {"DST_REBOOT"}
      BY <1>r
    <3> QED BY <1>4, <3>2, <3>3, Zenon
  <2> QED BY <1>3, <1>5, <2>1, Zenon DEF ReceiveReboot
<1>6. CASE ReceiveResponse(e)
  <2> DEFINE a == Head(back[e])
  <2>0. Received(e)
    BY <1>6, Zenon DEF ReceiveResponse
  <2>1. a \in Answers
    <3>1. back[e] \in Seq(Answers)
      BY Zenon DEF BusType
    <3> QED BY <1>1, <3>1, TailFacts, Zenon
  <2>2. ASSUME NEW c \in SendersTo(e), msg[c].src = a.dst, handle_response(c, a.dst, e, a.type, a.code)
        PROVE  Backed(s, d)'
    <3>1. CASE a.type = "DATAGRAM_OK"
      <4>1. stop_waiting_for_response(c, result[c] \cup {"OPERATION_SUCCESS"})
        BY <2>2, <3>1, Zenon DEF handle_response
      <4>2. msg[c].src = s => a \in OKTo(s)
        BY <2>1, <2>2, <3>1, Zenon DEF OKTo
      <4> QED BY <1>4, <2>0, <4>1, <4>2, Zenon
    <3>2. CASE a.type # "DATAGRAM_OK"
      <4>1. PICK flags : stop_waiting_for_response(c, flags) /\ "OPERATION_SUCCESS" \notin flags
        <5> DEFINE low == {"PERMANENT_ERROR", "RESEND_OK"}
                   fl == (result[c] \ low) \cup (IF a.code \cap low = {} THEN {"PERMANENT_ERROR"}
                                                 ELSE a.code \cap low)
        <5>1. stop_waiting_for_response(c, fl)
          BY <2>2, <3>2, Zenon DEF handle_response
        <5>2. "OPERATION_SUCCESS" \notin fl
          BY <1>r
        <5> QED BY <5>1, <5>2, Zenon
      <4> QED BY <1>4, <4>1, Zenon
    <3> QED BY <3>1, <3>2, Zenon
  <2>3. \/ UNCHANGED clientVars
        \/ \E c \in SendersTo(e) : msg[c].src = a.dst /\ handle_response(c, a.dst, e, a.type, a.code)
    BY <1>6, Zenon DEF ReceiveResponse
  <2> QED BY <1>3, <2>2, <2>3, Zenon
<1>7. CASE ReceiveDefinition(e)
  BY <1>3, <1>7, Zenon DEF ReceiveDefinition
<1> QED BY <1>5, <1>6, <1>7, Zenon

\* Nothing has been accepted yet, and nothing is on the way.
LEMMA BackInit == Init => BackInv
<1> SUFFICES ASSUME Init, NEW s \in Srcs, NEW d \in Dsts PROVE Backed(s, d)
  BY Zenon DEF BackInv
<1>1. /\ back[d] = <<>> /\ \A c \in Clients : ~Won(c)
      /\ succeeded[<<s, d>>] = 0 /\ accepted[<<s, d>>] = 0
  BY Zenon DEF Init, ClientInit, CanInit, Won, Pairs
<1>2. Winners(s, d) = {}
  BY <1>1, Zenon DEF Winners
<1>3. Places(back[d], OKTo(s)) = {}
  BY <1>1 DEF Places
<1>4. Cardinality({}) = 0 /\ IsFiniteSet({})
  BY FS_EmptySet, Zenon
<1>5. succeeded[<<s, d>>] + Cardinality({}) + Cardinality({}) <= accepted[<<s, d>>]
  BY <1>1, <1>4
<1> QED BY <1>2, <1>3, <1>4, <1>5, Zenon DEF Backed

\* Every step keeps the acknowledgements covered.
LEMMA BackStep == IInv /\ BusType /\ BackInv /\ [Next]_vars => BackInv'
<1> SUFFICES ASSUME IInv, BusType, BackInv, [Next]_vars, NEW s \in Srcs, NEW d \in Dsts
             PROVE  Backed(s, d)'
  BY Zenon DEF BackInv
<1>1. ASSUME NEW c \in Clients, Write(c) \/ Wait(c) \/ Send(c) \/ ClientStep(c) \/ Done(c)
      PROVE  Backed(s, d)'
  BY <1>1, ClientBacked, Zenon DEF BackInv
<1>2. ASSUME NEW e \in Dsts, PeerReceive(e) \/ PeerDown(e) \/ FrameLost(e)
      PROVE  Backed(s, d)'
  BY <1>2, TransportBacked, Zenon
<1>3. CASE WriteFlowStep
  <2>1. d \in Dsts
    BY Zenon
  <2> QED BY <1>3, <2>1, TransportBacked, Zenon
<1>4. ASSUME NEW e \in Dsts, PeerStart(e) PROVE Backed(s, d)'
  BY <1>4, StartBacked, Zenon
<1>5. ASSUME NEW e \in Dsts, PeerHandle(e) PROVE Backed(s, d)'
  BY <1>5, HandleBacked, Zenon
<1>6. ASSUME NEW e \in Dsts, ReceiveDefinition(e) \/ ReceiveReboot(e) \/ ReceiveResponse(e)
      PROVE  Backed(s, d)'
  BY <1>6, ReceiveBacked, Zenon
<1>7. CASE UNCHANGED vars
  BY <1>7, BackedQuiet, Zenon DEF vars, clientVars, canVars, BackInv
<1> QED BY <1>1, <1>2, <1>3, <1>4, <1>5, <1>6, <1>7, Zenon DEF Next

-----------------------------------------------------------------------------
(***************************************************************************)
(* The theorems.                                                           *)
(***************************************************************************)

\* Two clients never wait for an answer of the same destination to the same
\* source: the lock of acquire_srcdst_lock() works.
THEOREM ExclusiveHolds == Spec => []Exclusive
<1>1. IInv => Exclusive
  BY Zenon DEF IInv, Core, Flows, Apart, Exclusive, Running
<1> QED BY <1>1, Invariance, PTL

\* No client that waits in acquire_srcdst_lock() is lost when
\* unregister_response_handler() hands its list on.
THEOREM CoveredHolds == Spec => []Covered
<1>1. IInv => Covered
  <2> SUFFICES ASSUME IInv, Running PROVE Covered
    BY Zenon DEF Covered
  <2>1. Core /\ waitingClients \in [Clients -> Seq(Clients)]
    BY Zenon DEF IInv, Running, ClientTypeOK
  <2>2. \A x \in Clients : DOMAIN waitingClients[x] = 1 .. Len(waitingClients[x])
    BY <2>1
  <2>3. \A x \in Clients : \A i \in DOMAIN waitingClients[x] :
          i \in Nat /\ waitingClients[x][i] \in Clients /\ At(x, i, waitingClients[x][i])
    BY <2>1, <2>2 DEF At
  <2>4. ASSUME NEW c \in Clients, Waits(c)
        PROVE  \E x \in Clients : \E i \in DOMAIN waitingClients[x] : waitingClients[x][i] = c
    <3>1. PICK x \in Clients, i \in Nat : At(x, i, c)
      BY <2>1, <2>4, Zenon DEF Core, Listed
    <3> QED BY <2>2, <3>1, Zenon DEF At
  <2>5. ASSUME NEW x \in Clients, NEW y \in Clients,
               NEW i \in DOMAIN waitingClients[x], NEW j \in DOMAIN waitingClients[y]
        PROVE  /\ Waits(waitingClients[x][i]) /\ SamePair(waitingClients[x][i], x)
               /\ state[x] \in {"start_send", "timeout_waiting_for_dg_response"}
               /\ waitingClients[x][i] = waitingClients[y][j] => x = y /\ i = j
    <3>1. Members /\ Once
      BY <2>1, Zenon DEF Core
    <3>2. /\ i \in Nat /\ waitingClients[x][i] \in Clients /\ At(x, i, waitingClients[x][i])
          /\ j \in Nat /\ waitingClients[y][j] \in Clients /\ At(y, j, waitingClients[y][j])
      BY <2>3, Zenon
    <3>3. /\ Waits(waitingClients[x][i]) /\ SamePair(waitingClients[x][i], x)
          /\ state[x] = "start_send" \/ Sends(x)
      BY <3>1, <3>2, Zenon DEF Members
    <3>4. state[x] \in {"start_send", "timeout_waiting_for_dg_response"}
      BY <3>3, Zenon DEF Sends
    <3>5. ASSUME waitingClients[x][i] = waitingClients[y][j] PROVE x = y /\ i = j
      <4>1. At(x, i, waitingClients[y][j])
        BY <3>2, <3>5, Zenon
      <4> QED BY <3>1, <3>2, <4>1, Zenon DEF Once
    <3> QED BY <3>3, <3>4, <3>5, Zenon
  <2> QED BY <2>4, <2>5, Zenon DEF Covered
<1> QED BY <1>1, Invariance, PTL

\* A client is woken once, whichever of answer, restart and timeout comes first.
THEOREM WokenOnceHolds == Spec => []WokenOnce
<1>1. IInv => WokenOnce
  BY Zenon DEF IInv, Core, Flows, Sends, WokenOnce, Running, ClientTypeOK, States
<1> QED BY <1>1, Invariance, PTL

\* The user of a client sees success or an error, never both.
THEOREM OneOutcomeHolds == Spec => []OneOutcome
<1>1. IInv => OneOutcome
  BY Zenon DEF IInv, Core, Results, OneOutcome, Running
<1> QED BY <1>1, Invariance, PTL

\* Success is reported no more often than the destination has said
\* respond_ok(): handle_response() uses up one DATAGRAM_OK per success.
THEOREM SuccessBackedHolds == Spec => []SuccessBacked
<1>1. Init => IInv /\ BusType /\ BackInv
  BY InitInv, BusInit, BackInit, Zenon
<1>2. IInv /\ BusType /\ BackInv /\ [Next]_vars => (IInv /\ BusType /\ BackInv)'
  BY NextInv, BusStep, BackStep, Zenon
<1>3. BusType /\ BackInv => SuccessBacked
  <2> SUFFICES ASSUME BusType, BackInv, NEW s \in Srcs, NEW d \in Dsts
               PROVE  succeeded[<<s, d>>] <= accepted[<<s, d>>]
    BY DEF SuccessBacked, Pairs
  <2>1. Backed(s, d)
    BY Zenon DEF BackInv
  <2>2. /\ succeeded[<<s, d>>] \in Nat /\ accepted[<<s, d>>] \in Nat
        /\ Cardinality(Places(back[d], OKTo(s))) \in Nat
        /\ Cardinality(Winners(s, d)) \in Nat
    BY <2>1, BackedTypes, Zenon
  <2> QED BY <2>1, <2>2 DEF Backed
<1> QED BY <1>1, <1>2, <1>3, PTL DEF Spec

\* What CanDatagramParser hands over is a datagram that was sent: in order, from
\* its first frame to its last, no longer than a datagram may be, and complete
\* unless frames were lost.
THEOREM ReassembledHolds == Spec => []Reassembled
<1> DEFINE J == IInv /\ BusType /\ WireInv /\ BufInv /\ InboxInv
<1>1. Init => J
  BY InitInv, BusInit, WireInit, Zenon
<1>2. J /\ [Next]_vars => J'
  BY NextInv, BusStep, WireStep, Zenon
<1>3. J => Reassembled
  <2> SUFFICES ASSUME BusType, InboxInv, NEW d \in Dsts, NEW i \in DOMAIN inbox[d]
               PROVE  LET b == inbox[d][i]
                      IN /\ Len(b) <= MaxFrames
                         /\ lost = 0 => Len(b) = b[1].n
                         /\ lost <= 1 =>
                              /\ b[1].k = 1 /\ b[Len(b)].k = b[1].n
                              /\ \A k \in 2 .. Len(b) : b[k].id = b[1].id /\ b[k - 1].k < b[k].k
    BY Zenon DEF Reassembled
  <2> DEFINE b == inbox[d][i]
  <2>1. i \in 1 .. Len(inbox[d]) /\ b \in Seq(Frames)
    <3>1. inbox[d] \in Seq(Seq(Frames) \ {<<>>})
      BY Zenon DEF BusType
    <3> QED BY <3>1
  <2>2. Whole(b, lost) /\ Len(b) \in Nat
    BY <2>1 DEF InboxInv
  <2> HIDE DEF b
  <2>3. lost <= 1 => \A k \in 2 .. Len(b) : b[k].id = b[1].id /\ b[k - 1].k < b[k].k
    <3>1. \A k \in 2 .. Len(b) : k \in 1 .. Len(b)
      BY <2>2
    <3> QED BY <2>2, <3>1, Zenon DEF Whole, Good
  <2>4. /\ Len(b) <= MaxFrames
        /\ lost = 0 => Len(b) = b[1].n
        /\ lost <= 1 => b[1].k = 1 /\ b[Len(b)].k = b[1].n
    BY <2>2, Zenon DEF Whole, Good
  <2> QED BY <2>3, <2>4, Zenon DEF b
<1> HIDE DEF J
<1>4. Init /\ [][Next]_vars => []J
  BY <1>1, <1>2, PTL
<1> QED BY <1>3, <1>4, PTL DEF Spec

=============================================================================
