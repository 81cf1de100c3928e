--------------------------- MODULE ExecutorProofs ---------------------------
(***************************************************************************)
(* Proofs about Executor, for any number of threads, timers, selectables   *)
(* and priority bands, and any bound on the clock.                         *)
(***************************************************************************)
EXTENDS Executor, TLAPS

LOCAL INSTANCE WellFoundedInduction

\* The list of timers is in order and without duplicates.
Sorted(l) ==
    \A i, j \in 1..Len(l) :
        i < j => l[i] # l[j] /\ when[l[i]] <= when[l[j]]

Has(l, x) == \E i \in 1..Len(l) : l[i] = x

\* isActive_ tells which timers are in the list.
Listed ==
    \A t \in Timers : isActive[t] <=> \E i \in 1..Len(active) : active[i] = t

ListInv == Sorted(active) /\ Listed

Notifying == \E p \in Threads : call[p] = "notify"
Calling == \E p \in Threads : call[p] \in {"notify", "wakeup", "kill"}

\* While isPending_ is set, ActiveTimers is in the queue, runs, or is about
\* to be added.
PendInv ==
    isPending =>
        Queued("active_timers") \/ current = "active_timers" \/ Notifying

\* inSelect_ covers pselect(), and nothing runs outside "run".
LoopInv ==
    /\ pc \in {"select", "leave"} => inSelect
    /\ pc \notin {"run", "done"} => current = NULL

\* Between the test of empty() and the critical section of select(), an
\* executable in the queue is matched by a zero wait or by a wakeup.
WakeInv ==
    /\ pc = "enter" /\ ~Empty => wait = 0 \/ pendingWakeup \/ signal \/ Calling
    /\ NoLostWakeup

Waiting == pc \in {"clear", "check", "enter", "select"}

\* The wait is no longer than the time left to any active timer.
Within == \A t \in Timers : isActive[t] => when[t] >= asof + wait

SleepInv ==
    /\ Waiting \/ pc = "expire" => asof <= now
    /\ Waiting => \A t \in Timers : isActive[t] => when[t] >= asof
    /\ pc \in {"clear", "check"} => Within \/ ~Empty \/ Notifying
    /\ pc = "enter" => Within \/ pendingWakeup \/ signal \/ Calling
    /\ NoOverslept

\* Executable e has at most one place in the queue.
Once(e) ==
    \A b, c \in Bands : \A i \in 1..Len(queue[b]), j \in 1..Len(queue[c]) :
        queue[b][i] = e /\ queue[c][j] = e => b = c /\ i = j

\* The timers and the executables of Selectables are never added twice, so
\* one that runs is not in the queue any more.
OnceInv ==
    \A e \in Timers \cup Selectables :
        Once(e) /\ (current = e => ~Queued(e))

\* isExpired_ tells which timers are in the queue or run.
ExpiredInv ==
    \A t \in Timers :
        /\ isExpired[t] <=> Queued(t) \/ current = t
        /\ ~(isActive[t] /\ isExpired[t])

\* A Selectable waits once, below selectNFds_, and while it waits its
\* executable is neither in the queue nor running.
WatchInv ==
    /\ \A i, j \in 1..Len(selectables) :
        selectables[i] = selectables[j] => i = j
    /\ \A s \in Selectables :
        Watched(s) => Fd[s] < selectNFds /\ ~Queued(s) /\ current # s

-----------------------------------------------------------------------------
\* A sequence is a function from 1..Len.
LEMMA LenFacts ==
  ASSUME NEW S, NEW l \in Seq(S)
  PROVE  Len(l) \in Nat /\ l \in [1..Len(l) -> S] /\ DOMAIN l = 1..Len(l)
OBVIOUS

\* The elements of a sequence over S are in S.
LEMMA ElementFact ==
  ASSUME NEW S, NEW l \in Seq(S), NEW i \in 1..Len(l)
  PROVE  l[i] \in S
OBVIOUS

\* Append adds one element, at the end.
LEMMA AppendFacts ==
  ASSUME NEW S, NEW l \in Seq(S), NEW x \in S
  PROVE  /\ Append(l, x) \in Seq(S)
         /\ Len(Append(l, x)) = Len(l) + 1
         /\ \A i \in 1..Len(l) : Append(l, x)[i] = l[i]
         /\ Append(l, x)[Len(l) + 1] = x
OBVIOUS

\* l \o m is l, then m.
LEMMA ConcatFacts ==
  ASSUME NEW S, NEW l \in Seq(S), NEW m \in Seq(S)
  PROVE  /\ l \o m \in Seq(S)
         /\ Len(l \o m) = Len(l) + Len(m)
         /\ \A i \in 1..(Len(l) + Len(m)) :
                (l \o m)[i] = IF i <= Len(l) THEN l[i] ELSE m[i - Len(l)]
OBVIOUS

\* SubSeq(l, m, n) is the elements m to n of l.
LEMMA SubSeqFacts ==
  ASSUME NEW S, NEW l, NEW m \in Int, NEW n \in Int, \A i \in m..n : l[i] \in S
  PROVE  /\ SubSeq(l, m, n) \in Seq(S)
         /\ Len(SubSeq(l, m, n)) = IF m <= n THEN n - m + 1 ELSE 0
         /\ \A i \in 1..(n - m + 1) : SubSeq(l, m, n)[i] = l[m + i - 1]
OBVIOUS

\* A non-empty set of natural numbers has a smallest element.
LEMMA LeastNat ==
  ASSUME NEW S \in SUBSET Nat, S # {}
  PROVE  \E x \in S : \A y \in S : x <= y
<1> DEFINE R == {ss \in Nat \X Nat : ss[1] < ss[2]}
<1>1. IsWellFoundedOn(R, Nat)
  BY NatLessThanWellFounded, Zenon DEF OpToRel
<1>2. PICK x \in S : \A y \in S : ~(<<y, x>> \in R)
  <2> HIDE DEF R
  <2> QED
    BY <1>1, WFMin, Zenon
<1>3. ASSUME NEW y \in S PROVE x <= y
  <2>1. x \in Nat /\ y \in Nat /\ ~(<<y, x>> \in R)
    BY <1>2, Zenon
  <2>2. ~(y < x)
    BY <2>1, Zenon
  <2> QED
    BY ONLY <2>1, <2>2
<1> QED
  BY <1>3, Zenon

\* Min() picks a member.
LEMMA MinIn ==
  ASSUME NEW S \in SUBSET Nat, S # {}
  PROVE  Min(S) \in S
BY LeastNat, Zenon DEF Min

\* Every executable goes into one of the bands.
LEMMA BandType ==
  ASSUME NEW e \in Executables
  PROVE  Band(e) \in Bands
BY ExecutorAssumption DEF Band, Bands

\* The largest of a non-empty set of natural numbers that has a bound.
LEMMA MaxIn ==
  ASSUME NEW S \in SUBSET Nat, S # {}, NEW m \in Nat, \A x \in S : x <= m
  PROVE  Max(S) \in S /\ \A x \in S : x <= Max(S)
<1> DEFINE U == {n \in Nat : \A x \in S : x <= n}
<1>1. PICK u \in U : \A n \in U : u <= n
  <2>1. U \in SUBSET Nat /\ U # {}
    BY Zenon
  <2> HIDE DEF U
  <2> QED
    BY <2>1, LeastNat, Zenon
<1>2. u \in S
  <2>1. SUFFICES ASSUME u \notin S PROVE FALSE
    BY Zenon
  <2>2. PICK x \in S : TRUE
    BY Zenon
  <2>3. x <= u /\ x # u /\ x \in Nat /\ u \in Nat
    BY <2>1, Zenon
  <2>4. u - 1 \in Nat /\ \A y \in S : y <= u - 1
    BY <2>1, <2>3
  <2>5. u - 1 \in U
    BY <2>4, Zenon
  <2> QED
    BY <1>1, <2>3, <2>5
<1>3. \A y \in S : u >= y
  BY Zenon
<1> QED
  BY <1>2, <1>3, Zenon DEF Max

\* A function on 1..N to natural numbers is bounded.
LEMMA FunBound ==
  ASSUME NEW N \in Nat, NEW f \in [1..N -> Nat]
  PROVE  \E m \in Nat : \A i \in 1..N : f[i] <= m
<1> DEFINE Bound(n, m) == \A i \in 1..n : f[i] <= m
           Bad == {n \in Nat : n <= N /\ ~\E m \in Nat : Bound(n, m)}
<1>1. SUFFICES ASSUME Bad # {} PROVE FALSE
  <2>1. N <= N
    OBVIOUS
  <2>2. N \notin Bad => \E m \in Nat : Bound(N, m)
    BY <2>1, Zenon
  <2> QED
    BY <2>2, Zenon
<1>2. PICK n \in Bad : \A k \in Bad : n <= k
  <2>1. Bad \in SUBSET Nat
    BY Zenon
  <2> HIDE DEF Bad
  <2> QED
    BY <1>1, <2>1, LeastNat, Zenon
<1>3. n \in Nat /\ n <= N /\ ~\E m \in Nat : Bound(n, m)
  BY Zenon
<1>4. n # 0
  <2>1. Bound(0, 0)
    OBVIOUS
  <2> QED
    BY <1>3, <2>1, Zenon
<1>5. n - 1 \in Nat /\ n - 1 <= N /\ n \in 1..N
  BY ONLY <1>3, <1>4, N \in Nat
<1>6. n - 1 \notin Bad
  <2> HIDE DEF Bad
  <2> QED
    BY ONLY <1>2, <1>3, <1>5
<1>7. PICK m \in Nat : Bound(n - 1, m)
  BY ONLY <1>5, <1>6, Zenon
<1>8. f[n] \in Nat
  BY ONLY <1>5, f \in [1..N -> Nat], Zenon
<1> DEFINE k == m + f[n]
<1>9. k \in Nat /\ m <= k /\ f[n] <= k
  BY ONLY <1>8, m \in Nat
<1>10. ASSUME NEW i \in 1..n PROVE f[i] <= k
  <2>1. f[i] \in Nat
    BY ONLY <1>5, i \in 1..n, f \in [1..N -> Nat], N \in Nat
  <2>2. CASE i = n
    BY ONLY <2>2, <1>9, Zenon
  <2>3. CASE i # n
    <3>1. i \in 1..(n - 1)
      BY ONLY <2>3, <1>5, i \in 1..n, N \in Nat
    <3>2. f[i] <= m
      BY ONLY <3>1, <1>7, Zenon
    <3> QED
      BY ONLY <2>1, <3>2, <1>9, m \in Nat
  <2> QED
    BY <2>2, <2>3, Zenon
<1>11. Bound(n, k)
  BY ONLY <1>10, Zenon
<1> QED
  BY ONLY <1>3, <1>9, <1>11, Zenon

\* The descriptors of a sequence of Selectables have a bound.
LEMMA FdBound ==
  ASSUME NEW l \in Seq(Selectables)
  PROVE  \E m \in Nat : \A i \in 1..Len(l) : Fd[l[i]] + 1 <= m
<1> DEFINE f == [i \in 1..Len(l) |-> Fd[l[i]] + 1]
<1>1. Len(l) \in Nat
  OBVIOUS
<1>2. f \in [1..Len(l) -> Nat]
  <2>1. ASSUME NEW i \in 1..Len(l) PROVE Fd[l[i]] + 1 \in Nat
    <3>1. l[i] \in Selectables
      BY ElementFact, Zenon
    <3> QED
      BY <3>1, ExecutorAssumption
  <2> QED
    BY <2>1, Zenon
<1>3. PICK m \in Nat : \A i \in 1..Len(l) : f[i] <= m
  <2> HIDE DEF f
  <2> QED
    BY <1>1, <1>2, FunBound, Zenon
<1> QED
  BY <1>3, Zenon

\* selectNFds_ is above the descriptor of each member of the list.
LEMMA MaxFdType ==
  ASSUME NEW l \in Seq(Selectables), NEW S \in SUBSET InSeq(l)
  PROVE  /\ MaxFd(S) \in Nat
         /\ \A s \in S : Fd[s] < MaxFd(S)
<1>1. CASE S = {}
  BY <1>1, Zenon DEF MaxFd
<1>2. CASE S # {}
  <2> DEFINE D == {Fd[s] + 1 : s \in S}
  <2>1. PICK m \in Nat : \A i \in 1..Len(l) : Fd[l[i]] + 1 <= m
    BY FdBound, Zenon
  <2>2. \A s \in S : \E i \in 1..Len(l) : s = l[i] /\ s \in Selectables
    BY LenFacts, ElementFact DEF InSeq
  <2>3. \A s \in S : Fd[s] \in Nat
    BY <2>2, ExecutorAssumption, Zenon
  <2>4. D \in SUBSET Nat /\ D # {} /\ \A x \in D : x <= m
    BY <1>2, <2>1, <2>2, <2>3
  <2>5. Max(D) \in D /\ \A x \in D : x <= Max(D)
    <3> HIDE DEF D
    <3> QED
      BY <2>4, MaxIn, Zenon
  <2>6. MaxFd(S) = Max(D)
    BY <1>2, Zenon DEF MaxFd
  <2>7. MaxFd(S) \in Nat
    BY <2>4, <2>5, <2>6, Zenon
  <2>8. ASSUME NEW s \in S PROVE Fd[s] < MaxFd(S)
    <3>1. Fd[s] + 1 <= MaxFd(S)
      BY <2>5, <2>6, Zenon
    <3> QED
      BY <3>1, <2>3, <2>7
  <2> QED
    BY <2>7, <2>8, Zenon
<1> QED
  BY <1>1, <1>2, Zenon

\* What inserting an executable does to the queue.
LEMMA InsertedFacts ==
  ASSUME NEW q \in [Bands -> Seq(Executables)], NEW e \in Executables
  PROVE  /\ Inserted(q, e) \in [Bands -> Seq(Executables)]
         /\ \E b \in Bands : Inserted(q, e)[b] # <<>>
         /\ \A b \in Bands : \A i \in 1..Len(q[b]) :
                i \in 1..Len(Inserted(q, e)[b]) /\ Inserted(q, e)[b][i] = q[b][i]
         /\ \E i \in 1..Len(Inserted(q, e)[Band(e)]) :
                Inserted(q, e)[Band(e)][i] = e
<1> DEFINE b == Band(e)
<1>1. b \in Bands
  BY BandType, Zenon
<1>2. /\ Append(q[b], e) \in Seq(Executables)
      /\ Append(q[b], e) # <<>>
      /\ Len(Append(q[b], e)) = Len(q[b]) + 1
      /\ \A i \in 1..Len(q[b]) : Append(q[b], e)[i] = q[b][i]
      /\ Append(q[b], e)[Len(q[b]) + 1] = e
  BY <1>1, AppendFacts
<1>3. Inserted(q, e) = [q EXCEPT ![b] = Append(q[b], e)]
  BY Zenon DEF Inserted
<1>4. Len(q[b]) \in Nat
  BY <1>1, LenFacts, Zenon
<1>5. Inserted(q, e)[b] = Append(q[b], e)
  BY <1>1, <1>3, Zenon
<1>6. \A c \in Bands : c # b => Inserted(q, e)[c] = q[c]
  BY <1>3, Zenon
<1>7. Inserted(q, e) \in [Bands -> Seq(Executables)]
  BY <1>1, <1>2, <1>3, Zenon
<1>8. \E c \in Bands : Inserted(q, e)[c] # <<>>
  BY <1>1, <1>2, <1>5, Zenon
<1>9. ASSUME NEW c \in Bands, NEW i \in 1..Len(q[c])
      PROVE  i \in 1..Len(Inserted(q, e)[c]) /\ Inserted(q, e)[c][i] = q[c][i]
  <2>1. CASE c = b
    BY <2>1, <1>2, <1>4, <1>5
  <2>2. CASE c # b
    BY <2>2, <1>6, Zenon
  <2> QED
    BY <2>1, <2>2, Zenon
<1>10. \E i \in 1..Len(Inserted(q, e)[b]) : Inserted(q, e)[b][i] = e
  BY <1>2, <1>4, <1>5
<1> QED
  BY <1>7, <1>8, <1>9, <1>10, Zenon

\* What Take does: the head of some band leaves the queue and is to run.
LEMMA TakeFacts ==
  ASSUME queue \in [Bands -> Seq(Executables)], ~Empty, Take
  PROVE  \E b \in Bands :
            /\ queue[b] # <<>>
            /\ current' = Head(queue[b])
            /\ queue' = [queue EXCEPT ![b] = Tail(queue[b])]
            /\ pc' = IF current' = "exit" THEN "done" ELSE "run"
<1> DEFINE S == {c \in Bands : queue[c] # <<>>}
           b == Min(S)
<1>1. S \in SUBSET Nat /\ S # {}
  BY DEF Empty, Bands
<1>2. b \in S
  <2> HIDE DEF S
  <2> QED
    BY <1>1, MinIn, Zenon
<1>3. /\ current' = Head(queue[b])
      /\ queue' = [queue EXCEPT ![b] = Tail(queue[b])]
      /\ pc' = IF current' = "exit" THEN "done" ELSE "run"
  BY Zenon DEF Take
<1> HIDE DEF b
<1> QED
  BY <1>2, <1>3, Zenon

\* The walk over a list stops somewhere.
LEMMA PassedFacts ==
  ASSUME NEW l \in Seq(Timers), NEW w \in Nat, when \in [Timers -> Nat]
  PROVE  /\ Passed(l, w) \in 0..Len(l)
         /\ \A i \in 1..Passed(l, w) : when[l[i]] <= w
         /\ Passed(l, w) < Len(l) => when[l[Passed(l, w) + 1]] > w
<1> DEFINE Stop(n) == n < Len(l) => when[l[n + 1]] > w
           S == {n \in 0..Len(l) : Stop(n)}
<1>1. Len(l) \in Nat
  OBVIOUS
<1>2. S \in SUBSET Nat /\ Len(l) \in S
  BY <1>1
<1>3. PICK n \in S : \A k \in S : n <= k
  <2> HIDE DEF S
  <2> QED
    BY <1>2, LeastNat, Zenon
<1>4. n \in 0..Len(l) /\ Stop(n)
  BY Zenon
<1>5. ASSUME NEW i \in 1..n PROVE when[l[i]] <= w
  <2>1. i - 1 \in 0..Len(l) /\ ~(n <= i - 1) /\ i - 1 < Len(l) /\ (i - 1) + 1 = i
    BY <1>4, <1>1
  <2>2. i - 1 \notin S
    <3> HIDE DEF S
    <3> QED
      BY <2>1, <1>3, Zenon
  <2>3. ~Stop(i - 1)
    BY <2>1, <2>2, Zenon
  <2>4. ~(when[l[i]] > w)
    BY <2>1, <2>3, Zenon
  <2>5. l[i] \in Timers
    BY <1>4, <1>1, ElementFact
  <2> QED
    BY <2>4, <2>5
<1>6. \E k \in 0..Len(l) :
          /\ \A i \in 1..k : when[l[i]] <= w
          /\ k < Len(l) => when[l[k + 1]] > w
  BY <1>4, <1>5, Zenon
<1> QED
  BY <1>6, Zenon DEF Passed

\* Where the members of two lists are when one follows the other.
LEMMA CatFacts ==
  ASSUME NEW S, NEW a \in Seq(S), NEW b \in Seq(S), NEW n, n = Len(a)
  PROVE  /\ a \o b \in Seq(S)
         /\ Len(a \o b) = n + Len(b)
         /\ \A i \in 1..n : (a \o b)[i] = a[i]
         /\ \A i \in (n + 1)..(n + Len(b)) : (a \o b)[i] = b[i - n]
<1>1. Len(a) \in Nat /\ Len(b) \in Nat
  OBVIOUS
<1>2. /\ a \o b \in Seq(S)
      /\ Len(a \o b) = Len(a) + Len(b)
      /\ \A i \in 1..(Len(a) + Len(b)) :
            (a \o b)[i] = IF i <= Len(a) THEN a[i] ELSE b[i - Len(a)]
  BY ConcatFacts, Zenon
<1> QED
  BY <1>1, <1>2

\* Where the members of a list are after insert_locked().
LEMMA ListedAtFacts ==
  ASSUME NEW l \in Seq(Timers), NEW t \in Timers, NEW w \in Nat,
         when \in [Timers -> Nat]
  PROVE  LET r == ListedAt(l, t, w)
             n == Passed(l, w)
         IN  /\ r \in Seq(Timers)
             /\ Len(r) = Len(l) + 1
             /\ \A i \in 1..n : r[i] = l[i]
             /\ r[n + 1] = t
             /\ \A i \in (n + 2)..(Len(l) + 1) : r[i] = l[i - 1]
<1> DEFINE n == Passed(l, w)
           a == SubSeq(l, 1, n)
           b == SubSeq(l, n + 1, Len(l))
           c == a \o <<t>>
<1>1. n \in 0..Len(l) /\ Len(l) \in Nat
  BY PassedFacts, SMTT(40)
<1> HIDE DEF n
<1>2. \A i \in 1..Len(l) : l[i] \in Timers
  BY ElementFact, Zenon
<1>3. a \in Seq(Timers) /\ Len(a) = n /\ \A i \in 1..n : a[i] = l[i]
  BY <1>1, <1>2, SubSeqFacts
<1>4. /\ b \in Seq(Timers) /\ Len(b) = Len(l) - n
      /\ \A i \in 1..(Len(l) - n) : b[i] = l[n + i]
  BY <1>1, <1>2, SubSeqFacts
<1>5. <<t>> \in Seq(Timers) /\ Len(<<t>>) = 1 /\ <<t>>[1] = t
  OBVIOUS
<1> HIDE DEF a, b
<1>6. /\ c \in Seq(Timers) /\ Len(c) = n + 1
      /\ \A i \in 1..n : c[i] = l[i]
      /\ c[n + 1] = t
  BY <1>1, <1>3, <1>5, ConcatFacts
<1> HIDE DEF c
<1>7. /\ c \o b \in Seq(Timers) /\ Len(c \o b) = Len(l) + 1
      /\ \A i \in 1..(n + 1) : (c \o b)[i] = c[i]
      /\ \A i \in (n + 2)..(Len(l) + 1) : (c \o b)[i] = b[i - (n + 1)]
  <2> DEFINE m == n + 1
  <2>1. m = Len(c) /\ m \in Nat /\ m + Len(b) = Len(l) + 1 /\ m + 1 = n + 2
    BY <1>1, <1>4, <1>6
  <2> HIDE DEF m
  <2>2. /\ c \o b \in Seq(Timers) /\ Len(c \o b) = m + Len(b)
        /\ \A i \in 1..m : (c \o b)[i] = c[i]
        /\ \A i \in (m + 1)..(m + Len(b)) : (c \o b)[i] = b[i - m]
    <3>1. c \in Seq(Timers) /\ b \in Seq(Timers) /\ m = Len(c)
      BY <2>1, <1>4, <1>6, Zenon
    <3> QED
      BY ONLY <3>1, CatFacts
  <2>3. /\ c \o b \in Seq(Timers) /\ Len(c \o b) = Len(l) + 1
        /\ \A i \in 1..m : (c \o b)[i] = c[i]
        /\ \A i \in (n + 2)..(Len(l) + 1) : (c \o b)[i] = b[i - m]
    BY <2>1, <2>2, Zenon
  <2> QED
    BY <2>3, Zenon DEF m
<1>8. ASSUME NEW i \in (n + 2)..(Len(l) + 1) PROVE (c \o b)[i] = l[i - 1]
  <2>1. i - (n + 1) \in 1..(Len(l) - n) /\ n + (i - (n + 1)) = i - 1
    BY <1>1
  <2> QED
    BY <2>1, <1>4, <1>7, Zenon
<1>9. ListedAt(l, t, w) = c \o b
  BY Zenon DEF ListedAt, n, a, b, c
<1>10. \A i \in 1..n : (c \o b)[i] = l[i]
  BY <1>1, <1>6, <1>7
<1>11. (c \o b)[n + 1] = t
  BY <1>1, <1>6, <1>7
<1> QED
  BY <1>7, <1>8, <1>9, <1>10, <1>11, Zenon DEF n

\* Where the members of a list are after one is taken out.
LEMMA UnlistedFacts ==
  ASSUME NEW S, NEW l \in Seq(S), NEW t
  PROVE  LET r == Unlisted(l, t)
         IN  /\ r \in Seq(S)
             /\ \/ r = l /\ \A i \in 1..Len(l) : l[i] # t
                \/ \E k \in 1..Len(l) :
                    /\ l[k] = t
                    /\ Len(r) = Len(l) - 1
                    /\ \A i \in 1..(Len(l) - 1) :
                           r[i] = l[IF i < k THEN i ELSE i + 1]
<1>1. CASE ~\E i \in 1..Len(l) : l[i] = t
  BY <1>1, Zenon DEF Unlisted
<1>2. CASE \E i \in 1..Len(l) : l[i] = t
  <2> DEFINE k == CHOOSE i \in 1..Len(l) : l[i] = t
             a == SubSeq(l, 1, k - 1)
             b == SubSeq(l, k + 1, Len(l))
  <2>1. k \in 1..Len(l) /\ l[k] = t /\ Len(l) \in Nat
    BY <1>2
  <2>2. Unlisted(l, t) = a \o b
    BY <1>2, Zenon DEF Unlisted
  <2> HIDE DEF k
  <2>3. \A i \in 1..Len(l) : l[i] \in S
    BY ElementFact, Zenon
  <2>4. a \in Seq(S) /\ Len(a) = k - 1 /\ \A i \in 1..(k - 1) : a[i] = l[i]
    BY <2>1, <2>3, SubSeqFacts
  <2>5. /\ b \in Seq(S) /\ Len(b) = Len(l) - k
        /\ \A i \in 1..(Len(l) - k) : b[i] = l[k + i]
    BY <2>1, <2>3, SubSeqFacts
  <2> HIDE DEF a, b
  <2>6. /\ a \o b \in Seq(S) /\ Len(a \o b) = Len(l) - 1
        /\ \A i \in 1..(k - 1) : (a \o b)[i] = a[i]
        /\ \A i \in k..(Len(l) - 1) : (a \o b)[i] = b[i - (k - 1)]
    <3> DEFINE m == k - 1
    <3>1. m = Len(a) /\ m \in Nat /\ m + Len(b) = Len(l) - 1 /\ m + 1 = k
      BY <2>1, <2>4, <2>5
    <3> HIDE DEF m
    <3>2. /\ a \o b \in Seq(S) /\ Len(a \o b) = m + Len(b)
          /\ \A i \in 1..m : (a \o b)[i] = a[i]
          /\ \A i \in (m + 1)..(m + Len(b)) : (a \o b)[i] = b[i - m]
      <4>1. a \in Seq(S) /\ b \in Seq(S) /\ m = Len(a)
        BY <3>1, <2>4, <2>5, Zenon
      <4> QED
        BY ONLY <4>1, CatFacts
    <3>3. /\ a \o b \in Seq(S) /\ Len(a \o b) = Len(l) - 1
          /\ \A i \in 1..m : (a \o b)[i] = a[i]
          /\ \A i \in k..(Len(l) - 1) : (a \o b)[i] = b[i - m]
      BY <3>1, <3>2, Zenon
    <3> QED
      BY <3>3, Zenon DEF m
  <2>7. ASSUME NEW i \in 1..(Len(l) - 1)
        PROVE  (a \o b)[i] = l[IF i < k THEN i ELSE i + 1]
    <3>1. CASE i < k
      BY <3>1, <2>1, <2>4, <2>6
    <3>2. CASE ~(i < k)
      <4>1. /\ i \in k..(Len(l) - 1) /\ i - (k - 1) \in 1..(Len(l) - k)
            /\ k + (i - (k - 1)) = i + 1
        BY <3>2, <2>1
      <4> QED
        BY <3>2, <4>1, <2>5, <2>6, Zenon
    <3> QED
      BY <3>1, <3>2, Zenon
  <2> QED
    BY <2>1, <2>2, <2>6, <2>7
<1> QED
  BY <1>1, <1>2, Zenon

\* What adding an executable does to the queue.
LEMMA AddFacts ==
  ASSUME queue \in [Bands -> Seq(Executables)], NEW e \in Executables,
         queue' = Inserted(queue, e)
  PROVE  /\ queue' \in [Bands -> Seq(Executables)]
         /\ ~Empty'
         /\ Queued(e)'
         /\ \A x : Queued(x) => Queued(x)'
<1>1. /\ queue' \in [Bands -> Seq(Executables)]
      /\ \E b \in Bands : queue'[b] # <<>>
      /\ \A b \in Bands : \A i \in 1..Len(queue[b]) :
             i \in 1..Len(queue'[b]) /\ queue'[b][i] = queue[b][i]
      /\ \E i \in 1..Len(queue'[Band(e)]) : queue'[Band(e)][i] = e
  <2> DEFINE q == Inserted(queue, e)
  <2>1. /\ q \in [Bands -> Seq(Executables)]
        /\ \E b \in Bands : q[b] # <<>>
        /\ \A b \in Bands : \A i \in 1..Len(queue[b]) :
               i \in 1..Len(q[b]) /\ q[b][i] = queue[b][i]
        /\ \E i \in 1..Len(q[Band(e)]) : q[Band(e)][i] = e
    BY InsertedFacts, Zenon
  <2>2. queue' = q
    BY Zenon
  <2> HIDE DEF q
  <2> QED
    BY ONLY <2>1, <2>2, Zenon
<1>2. \A b \in Bands : DOMAIN queue[b] = 1..Len(queue[b])
                         /\ DOMAIN queue'[b] = 1..Len(queue'[b])
  BY <1>1, LenFacts, Zenon
<1>3. ~Empty'
  BY <1>1, Zenon DEF Empty
<1>4. Queued(e)'
  BY <1>1, <1>2, BandType, Zenon DEF Queued
<1>5. ASSUME NEW x, Queued(x) PROVE Queued(x)'
  <2>1. PICK b \in Bands : \E i \in 1..Len(queue[b]) : queue[b][i] = x
    BY <1>2, <1>5, Zenon DEF Queued
  <2>2. \E i \in DOMAIN queue'[b] : queue'[b][i] = x
    BY <1>1, <1>2, <2>1, Zenon
  <2> QED
    BY <2>2, Zenon DEF Queued
<1> QED
  BY <1>1, <1>3, <1>4, <1>5, Zenon

\* What taking an executable leaves in the queue.
LEMMA TakeType ==
  ASSUME queue \in [Bands -> Seq(Executables)], ~Empty, Take
  PROVE  /\ queue' \in [Bands -> Seq(Executables)]
         /\ current' \in Executables
         /\ pc' = IF current' = "exit" THEN "done" ELSE "run"
         /\ \A x : Queued(x) => Queued(x)' \/ current' = x
         /\ \A x : Queued(x)' => Queued(x)
<1>1. PICK b \in Bands :
            /\ queue[b] # <<>>
            /\ current' = Head(queue[b])
            /\ queue' = [queue EXCEPT ![b] = Tail(queue[b])]
            /\ pc' = IF current' = "exit" THEN "done" ELSE "run"
  BY TakeFacts, Zenon
<1>2. queue[b] \in Seq(Executables) /\ queue[b] # <<>>
  BY <1>1, Zenon
<1>3. /\ Head(queue[b]) \in Executables /\ Tail(queue[b]) \in Seq(Executables)
      /\ Len(queue[b]) \in Nat /\ Len(Tail(queue[b])) = Len(queue[b]) - 1
      /\ Head(queue[b]) = queue[b][1]
      /\ \A i \in 1..(Len(queue[b]) - 1) : Tail(queue[b])[i] = queue[b][i + 1]
  BY <1>2
<1>4. queue' \in [Bands -> Seq(Executables)]
  BY <1>1, <1>3, Zenon
<1>5. \A c \in Bands : DOMAIN queue[c] = 1..Len(queue[c])
                         /\ DOMAIN queue'[c] = 1..Len(queue'[c])
  BY <1>4, LenFacts, Zenon
<1>6. queue'[b] = Tail(queue[b]) /\ \A c \in Bands : c # b => queue'[c] = queue[c]
  BY <1>1, Zenon
<1>7. ASSUME NEW x, Queued(x) PROVE Queued(x)' \/ current' = x
  <2>1. PICK c \in Bands : \E i \in 1..Len(queue[c]) : queue[c][i] = x
    BY <1>5, <1>7, Zenon DEF Queued
  <2>2. CASE c # b
    <3>1. \E i \in DOMAIN queue'[c] : queue'[c][i] = x
      BY <2>1, <2>2, <1>5, <1>6, Zenon
    <3> QED
      BY <3>1, Zenon DEF Queued
  <2>3. CASE c = b
    <3>1. PICK i \in 1..Len(queue[b]) : queue[b][i] = x
      BY <2>1, <2>3, Zenon
    <3>2. CASE i = 1
      BY <3>1, <3>2, <1>1, <1>3, Zenon
    <3>3. CASE i # 1
      <4>1. i - 1 \in 1..(Len(queue[b]) - 1) /\ (i - 1) + 1 = i
        BY <3>1, <3>3, <1>3
      <4>2. i - 1 \in DOMAIN queue'[b] /\ queue'[b][i - 1] = x
        BY <4>1, <3>1, <1>3, <1>5, <1>6, Zenon
      <4> QED
        BY <4>2, Zenon DEF Queued
    <3> QED
      BY <3>2, <3>3, Zenon
  <2> QED
    BY <2>2, <2>3, Zenon
<1>8. ASSUME NEW x, Queued(x)' PROVE Queued(x)
  <2>1. PICK c \in Bands : \E i \in 1..Len(queue'[c]) : queue'[c][i] = x
    BY <1>5, <1>8, Zenon DEF Queued
  <2>2. \E i \in 1..Len(queue[c]) : queue[c][i] = x
    <3>1. CASE c # b
      BY <2>1, <3>1, <1>6, Zenon
    <3>2. CASE c = b
      <4>1. PICK i \in 1..(Len(queue[b]) - 1) : queue'[b][i] = x
        BY <2>1, <3>2, <1>3, <1>6, Zenon
      <4>2. i + 1 \in 1..Len(queue[b]) /\ queue[b][i + 1] = x
        BY <4>1, <1>3, <1>6
      <4> QED
        BY <4>2, <3>2, Zenon
    <3> QED
      BY <3>1, <3>2, Zenon
  <2> QED
    BY <2>2, <1>5, Zenon DEF Queued
<1> QED
  BY <1>1, <1>3, <1>4, <1>7, <1>8, Zenon

\* What notify() does on the executor's thread.
LEMMA NotifyFacts ==
  ASSUME queue \in [Bands -> Seq(Executables)], pendingWakeup \in BOOLEAN,
         NotifyHere
  PROVE  /\ queue' \in [Bands -> Seq(Executables)]
         /\ pendingWakeup' \in BOOLEAN
         /\ isPending'
         /\ isPending \/ Queued("active_timers")'
         /\ \A x : Queued(x) => Queued(x)'
<1>1. "active_timers" \in Executables
  BY Zenon DEF Executables, Own
<1>2. CASE isPending
  BY <1>2, Zenon DEF NotifyHere, Queued
<1>3. CASE ~isPending
  <2>1. queue' = Inserted(queue, "active_timers") /\ pendingWakeup' = TRUE /\ isPending'
    BY <1>3, Zenon DEF NotifyHere, AddHere
  <2>2. /\ queue' \in [Bands -> Seq(Executables)]
        /\ Queued("active_timers")'
        /\ \A x : Queued(x) => Queued(x)'
    BY <1>1, <2>1, AddFacts, Zenon
  <2> QED
    BY <2>1, <2>2, Zenon
<1> QED
  BY <1>2, <1>3, Zenon

\* What schedule_timer() and update_timer() do on the executor's thread.
LEMMA ScheduleType ==
  ASSUME queue \in [Bands -> Seq(Executables)], pendingWakeup \in BOOLEAN,
         active \in Seq(Timers), when \in [Timers -> Nat],
         isActive \in [Timers -> BOOLEAN],
         NEW t \in Timers, NEW w \in Nat, ScheduleHere(t, w)
  PROVE  /\ queue' \in [Bands -> Seq(Executables)]
         /\ pendingWakeup' \in BOOLEAN /\ isPending' = TRUE
         /\ active' \in Seq(Timers) /\ when' \in [Timers -> Nat]
         /\ isActive' \in [Timers -> BOOLEAN]
<1>1. /\ queue' \in [Bands -> Seq(Executables)]
      /\ pendingWakeup' \in BOOLEAN
  BY NotifyFacts, Zenon DEF ScheduleHere
<1>2. active' \in Seq(Timers)
  <2> DEFINE u == Unlisted(active, t)
  <2>1. u \in Seq(Timers)
    BY UnlistedFacts, Zenon
  <2>2. active' = ListedAt(u, t, w)
    BY Zenon DEF ScheduleHere
  <2> HIDE DEF u
  <2> QED
    BY <2>1, <2>2, ListedAtFacts, Zenon
<1>3. when' \in [Timers -> Nat] /\ isActive' \in [Timers -> BOOLEAN]
  BY Zenon DEF ScheduleHere
<1>4. isPending' = TRUE
  BY Zenon DEF ScheduleHere, NotifyHere
<1> QED
  BY <1>1, <1>2, <1>3, <1>4, Zenon

-----------------------------------------------------------------------------
(* The type invariant.                                                     *)

\* The executor starts well typed,
LEMMA TypeInit == Init => TypeOK
<1> SUFFICES ASSUME Init PROVE TypeOK
  BY Zenon
<1>1. /\ queue \in [Bands -> Seq(Executables)]
      /\ selectables \in Seq(Selectables) /\ active \in Seq(Timers)
  BY DEF Init
<1> QED
  BY <1>1, Zenon DEF Init, TypeOK

\* and every step keeps it so.
LEMMA TypeStep == TypeOK /\ [Next]_vars => TypeOK'
<1> SUFFICES ASSUME TypeOK, [Next]_vars PROVE TypeOK'
  BY Zenon
<1> DEFINE Q == queue \in [Bands -> Seq(Executables)]
<1>q. Q /\ pendingWakeup \in BOOLEAN
  BY Zenon DEF TypeOK
<1>1. CASE next
  <2>1. CASE prescaler = 0 \/ Empty
    BY <1>1, <2>1, Zenon
    DEF TypeOK, next, locals, files, wake, timers
  <2>2. CASE ~(prescaler = 0 \/ Empty)
    <3>1. ~Empty /\ Take
      BY <1>1, <2>2, Zenon DEF next
    <3>2. Q' /\ current' \in Executables /\ pc' \in {"run", "done"}
      BY <1>q, <3>1, TakeType, Zenon
    <3>3. prescaler' = prescaler - 1
          /\ UNCHANGED <<locals, files, wake, now, timers, lock, call>>
      BY <1>1, <2>2, Zenon DEF next
    <3> QED
      BY <2>2, <3>2, <3>3 DEF TypeOK, locals, files, wake, timers
  <2> QED
    BY <2>1, <2>2, Zenon
<1>2. CASE lock_timers
  BY <1>2, Zenon DEF TypeOK, lock_timers, files, wake, timers
<1>3. CASE get_next_timeout
  <2>1. wait' \in Nat
    <3>1. CASE active # <<>>
      <4>1. Head(active) \in Timers
        BY <3>1 DEF TypeOK
      <4> QED
        BY <1>3, <4>1, ExecutorAssumption DEF TypeOK, get_next_timeout
    <3>2. CASE active = <<>>
      BY <1>3, <3>2, ExecutorAssumption, Zenon DEF TypeOK, get_next_timeout
    <3> QED
      BY <3>1, <3>2, Zenon
  <2> QED
    BY <1>3, <2>1, Zenon DEF TypeOK, get_next_timeout, files, wake, timers
<1>4. CASE clear_wakeup
  BY <1>4, Zenon DEF TypeOK, clear_wakeup, locals, files, timers
<1>5. CASE check_empty
  BY <1>5, ExecutorAssumption, Zenon DEF TypeOK, check_empty, files, wake, timers
<1>6. CASE select_enter
  BY <1>6 DEF TypeOK, select_enter, files, timers
<1>7. CASE pselect
  BY <1>7, Zenon DEF TypeOK, pselect, files, timers
<1>8. CASE select_leave
  BY <1>8, Zenon DEF TypeOK, select_leave, locals, files, timers
<1>9. CASE scan_done
  <2>1. selectNFds' \in Nat
    BY <1>9, MaxFdType, Zenon DEF TypeOK, scan_done
  <2> QED
    BY <1>9, <2>1, Zenon DEF TypeOK, scan_done, locals, wake, timers
<1>10. CASE next_again
  <2>1. CASE Empty
    BY <1>10, <2>1, ExecutorAssumption, Zenon
    DEF TypeOK, next_again, files, wake, timers
  <2>2. CASE ~Empty
    <3>1. Take
      BY <1>10, <2>2, Zenon DEF next_again
    <3>2. Q' /\ current' \in Executables /\ pc' \in {"run", "done"}
      BY <1>q, <2>2, <3>1, TakeType, Zenon
    <3> QED
      BY <1>10, <3>2, ExecutorAssumption, Zenon
      DEF TypeOK, next_again, files, wake, timers
  <2> QED
    BY <2>1, <2>2, Zenon
<1>11. CASE ActiveTimers_run
  BY <1>11, Zenon DEF TypeOK, ActiveTimers_run, Returns, locals, files
<1>12. ASSUME NEW t \in Timers, expire(t) PROVE TypeOK'
  <2>1. queue' = Inserted(queue, t) /\ pendingWakeup' = TRUE
    BY <1>12, Zenon DEF expire, AddHere
  <2>2. Q'
    BY <1>q, <2>1, AddFacts, Zenon DEF Executables
  <2>3. active' \in Seq(Timers)
    BY <1>12 DEF TypeOK, expire
  <2> QED
    BY <1>12, <2>1, <2>2, <2>3, Zenon DEF TypeOK, expire, files
<1>13. ASSUME NEW t \in Timers, NEW w \in Nat, ScheduleHere(t, w)
       PROVE  /\ Q'
              /\ pendingWakeup' \in BOOLEAN /\ isPending' = TRUE
              /\ active' \in Seq(Timers) /\ when' \in [Timers -> Nat]
              /\ isActive' \in [Timers -> BOOLEAN]
  <2>1. active \in Seq(Timers) /\ when \in [Timers -> Nat]
        /\ isActive \in [Timers -> BOOLEAN]
    BY Zenon DEF TypeOK
  <2> QED
    BY <1>q, <1>13, <2>1, ScheduleType, Zenon
<1>14. ASSUME NEW t \in Timers, Timer_run(t) PROVE TypeOK'
  <2>1. when[t] + Period[t] \in Nat /\ now + Period[t] \in Nat /\ PAST \in Nat
    BY ExecutorAssumption DEF TypeOK, PAST
  <2>2. /\ Q'
        /\ pendingWakeup' \in BOOLEAN /\ isPending' \in BOOLEAN
        /\ active' \in Seq(Timers) /\ when' \in [Timers -> Nat]
        /\ isActive' \in [Timers -> BOOLEAN]
    <3>1. CASE UNCHANGED <<queue, pendingWakeup, active, when, isActive, isPending>>
      BY <3>1, Zenon DEF TypeOK
    <3>2. CASE \E w \in Nat : ScheduleHere(t, w)
      BY <3>2, <1>13, Zenon
    <3> QED
      BY <1>14, <2>1, <3>1, <3>2, Zenon DEF Timer_run
  <2> QED
    BY <1>14, <2>2, Zenon DEF TypeOK, Timer_run, Returns, locals, files
<1>15. ASSUME NEW s \in Selectables, select(s)
       PROVE  selectables' \in Seq(Selectables) /\ selectNFds' \in Nat
  <2>1. selectables \in Seq(Selectables) /\ selectNFds \in Nat /\ Fd[s] \in Nat
    BY ExecutorAssumption, Zenon DEF TypeOK
  <2>2. <<s>> \in Seq(Selectables)
    OBVIOUS
  <2>3. <<s>> \o selectables \in Seq(Selectables)
    BY <2>1, <2>2, ConcatFacts, Zenon
  <2> QED
    BY <1>15, <2>1, <2>3 DEF select
<1>16. ASSUME NEW s \in Selectables, unselect(s)
       PROVE  selectables' \in Seq(Selectables) /\ selectNFds' \in Nat
  <2>1. selectables \in Seq(Selectables)
    BY Zenon DEF TypeOK
  <2>2. Unlisted(selectables, s) \in Seq(Selectables)
    BY <2>1, UnlistedFacts, Zenon
  <2> QED
    BY <1>16, <2>1, <2>2, MaxFdType, Zenon DEF unselect
<1>17. ASSUME NEW p \in Threads, flow_run(p) PROVE TypeOK'
  <2> DEFINE A == UNCHANGED <<queue, pendingWakeup, files, timers>>
             B == AddHere(p) /\ UNCHANGED <<files, timers>>
             C == \E t \in Timers : timer_call(t)
             D == /\ \E s \in Selectables : (Free(s) /\ select(s)) \/ unselect(s)
                  /\ UNCHANGED <<queue, pendingWakeup, readable, timers>>
  <2>0. Returns /\ (A \/ B \/ C \/ D)
    BY <1>17, Zenon DEF flow_run
  <2>1. CASE A
    BY <2>0, <2>1, Zenon DEF TypeOK, Returns, locals, files, timers
  <2>2. CASE B
    <3>1. queue' = Inserted(queue, p) /\ pendingWakeup' = TRUE
      BY <2>2, Zenon DEF AddHere
    <3>2. Q'
      BY <1>q, <3>1, AddFacts, Zenon DEF Executables
    <3> QED
      BY <2>0, <2>2, <3>1, <3>2, Zenon DEF TypeOK, Returns, locals, files, timers
  <2>3. CASE C
    <3>1. PICK t \in Timers : timer_call(t)
      BY <2>3, Zenon
    <3>2. now + Period[t] \in Nat /\ PAST \in Nat
      BY ExecutorAssumption DEF TypeOK, PAST
    <3>3. \E w \in Nat : ScheduleHere(t, w)
      BY <3>1, <3>2, Zenon DEF timer_call
    <3>4. /\ Q'
          /\ pendingWakeup' \in BOOLEAN /\ isPending' = TRUE
          /\ active' \in Seq(Timers) /\ when' \in [Timers -> Nat]
          /\ isActive' \in [Timers -> BOOLEAN]
      BY <3>3, <1>13, Zenon
    <3>5. UNCHANGED <<files, isExpired>>
      BY <3>1, Zenon DEF timer_call
    <3> QED
      BY <2>0, <3>4, <3>5, Zenon DEF TypeOK, Returns, locals, files
  <2>4. CASE D
    <3>1. selectables' \in Seq(Selectables) /\ selectNFds' \in Nat
      BY <2>4, <1>15, <1>16, Zenon
    <3> QED
      BY <2>0, <2>4, <3>1, Zenon DEF TypeOK, Returns, locals, timers
  <2> QED
    BY <2>0, <2>1, <2>2, <2>3, <2>4, Zenon
<1>18. ASSUME NEW s \in Selectables, scan(s) PROVE TypeOK'
  <2>1. queue' = Inserted(queue, s) /\ pendingWakeup' = TRUE
    BY <1>18, Zenon DEF scan, AddHere
  <2>2. Q'
    BY <1>q, <2>1, AddFacts, Zenon DEF Executables
  <2>3. selectables \in Seq(Selectables)
    BY Zenon DEF TypeOK
  <2>4. selectables' \in Seq(Selectables)
    BY <1>18, <2>3, UnlistedFacts, Zenon DEF scan
  <2> QED
    BY <1>18, <2>1, <2>2, <2>4, Zenon DEF TypeOK, scan, timers
<1>19. ASSUME NEW s \in Selectables, selectable_run(s) PROVE TypeOK'
  <2>1. selectables' \in Seq(Selectables) /\ selectNFds' \in Nat
    BY <1>19, <1>15, Zenon DEF selectable_run, TypeOK
  <2> QED
    BY <1>19, <2>1, Zenon DEF TypeOK, selectable_run, Returns, locals, timers
<1>20. ASSUME NEW p \in Threads, add(p) PROVE TypeOK'
  <2>1. PICK e \in {p, "exit"} : queue' = Inserted(queue, e)
    BY <1>20, Zenon DEF add
  <2>2. Q'
    BY <1>q, <2>1, AddFacts, Zenon DEF Executables, Own
  <2> QED
    BY <1>20, <2>2 DEF TypeOK, add, loop, locals, files, wake, timers
<1>21. ASSUME NEW p \in Threads, NEW t \in Timers, start(p, t) PROVE TypeOK'
  <2>1. active' \in Seq(Timers) /\ now + Period[t] \in Nat
    <3>1. now + Period[t] \in Nat /\ active \in Seq(Timers)
          /\ when \in [Timers -> Nat]
      BY ExecutorAssumption DEF TypeOK
    <3>2. ListedAt(active, t, now + Period[t]) \in Seq(Timers)
      BY <3>1, ListedAtFacts, Zenon
    <3> QED
      BY <1>21, <3>1, <3>2, Zenon DEF start
  <2> QED
    BY <1>21, <2>1, ZenonT(60) DEF TypeOK, start, loop, locals, files, wake
<1>22. ASSUME NEW p \in Threads, notify(p) PROVE TypeOK'
  <2>1. Q'
    BY <1>22, <1>q, AddFacts, Zenon DEF Executables, Own, notify
  <2> QED
    BY <1>22, <2>1 DEF TypeOK, notify, loop, locals, files, wake, timers
<1>23. ASSUME NEW p \in Threads, wakeup(p) PROVE TypeOK'
  BY <1>23, SMTT(30) DEF TypeOK, wakeup, Done, loop, locals, files, timers
<1>24. ASSUME NEW p \in Threads, pthread_kill(p) PROVE TypeOK'
  BY <1>24, Zenon DEF TypeOK, pthread_kill, Done, loop, locals, files, timers
<1>25. CASE tick
  BY <1>25 DEF TypeOK, tick, loop, locals, files, wake, timers
<1>26. ASSUME NEW s \in Selectables, arrive(s) PROVE TypeOK'
  BY <1>26 DEF TypeOK, arrive, loop, locals, wake, timers
<1>27. CASE UNCHANGED vars
  BY <1>27 DEF TypeOK, vars, loop, locals, files, wake, timers
<1> HIDE DEF Q
<1> QED
  BY <1>1, <1>2, <1>3, <1>4, <1>5, <1>6, <1>7, <1>8, <1>9, <1>10, <1>11,
     <1>12, <1>14, <1>17, <1>18, <1>19, <1>20, <1>21, <1>22, <1>23, <1>24,
     <1>25, <1>26, <1>27, Zenon
  DEF Next, Loop, Call

\* Type correctness of the executor: what every step of the loop, of the
\* threads that call it and of the world leaves behind.
THEOREM ExecutorTypeOK == Spec => []TypeOK
BY TypeInit, TypeStep, PTL DEF Spec

-----------------------------------------------------------------------------
(* The list of timers.                                                     *)

\* A sorted list without one of its members.
LEMMA UnlistedSorted ==
  ASSUME NEW l \in Seq(Timers), Sorted(l), NEW t \in Timers, NEW r,
         r = Unlisted(l, t)
  PROVE  /\ r \in Seq(Timers)
         /\ Sorted(r)
         /\ ~Has(r, t)
         /\ \A x : x # t => (Has(r, x) <=> Has(l, x))
<1>1. CASE r = l /\ \A i \in 1..Len(l) : l[i] # t
  BY <1>1, Zenon DEF Has
<1>2. CASE \E k \in 1..Len(l) :
             /\ l[k] = t
             /\ Len(r) = Len(l) - 1
             /\ \A i \in 1..(Len(l) - 1) : r[i] = l[IF i < k THEN i ELSE i + 1]
  <2>1. PICK k \in 1..Len(l) :
             /\ l[k] = t
             /\ Len(r) = Len(l) - 1
             /\ \A i \in 1..(Len(l) - 1) : r[i] = l[IF i < k THEN i ELSE i + 1]
    BY <1>2, Zenon
  <2> DEFINE g(i) == IF i < k THEN i ELSE i + 1
  <2>2. Len(l) \in Nat
    OBVIOUS
  <2>3. \A i \in 1..Len(r) : g(i) \in 1..Len(l) /\ g(i) # k /\ r[i] = l[g(i)]
    BY <2>1, <2>2
  <2>4. \A i, j \in 1..Len(r) : i < j => g(i) < g(j)
    BY <2>1, <2>2
  <2>5. \A i \in 1..Len(l) : i # k => \E j \in 1..Len(r) : g(j) = i
    <3> TAKE i \in 1..Len(l)
    <3> HAVE i # k
    <3> DEFINE j == IF i < k THEN i ELSE i - 1
    <3>1. j \in 1..Len(r) /\ g(j) = i
      BY <2>1, <2>2
    <3> QED
      BY <3>1, Zenon
  <2> HIDE DEF g
  <2>6. \A i \in 1..Len(l) : i # k => l[i] # t
    BY <2>1, <2>2 DEF Sorted
  <2>7. Sorted(r)
    <3> SUFFICES ASSUME NEW i \in 1..Len(r), NEW j \in 1..Len(r), i < j
                 PROVE  r[i] # r[j] /\ when[r[i]] <= when[r[j]]
      BY Zenon DEF Sorted
    <3>1. g(i) \in 1..Len(l) /\ g(j) \in 1..Len(l) /\ g(i) < g(j)
      BY <2>3, <2>4, Zenon
    <3>2. l[g(i)] # l[g(j)] /\ when[l[g(i)]] <= when[l[g(j)]]
      BY <3>1, Zenon DEF Sorted
    <3>3. r[i] = l[g(i)] /\ r[j] = l[g(j)]
      BY <2>3, Zenon
    <3> QED
      BY <3>2, <3>3, Zenon
  <2>8. \A i \in 1..Len(r) : r[i] # t
    BY <2>3, <2>6, Zenon
  <2>9. ASSUME NEW x, x # t
        PROVE  (\E i \in 1..Len(r) : r[i] = x) <=> (\E i \in 1..Len(l) : l[i] = x)
    <3>1. ASSUME NEW i \in 1..Len(r), r[i] = x PROVE \E j \in 1..Len(l) : l[j] = x
      BY <2>3, <3>1, Zenon
    <3>2. ASSUME NEW i \in 1..Len(l), l[i] = x PROVE \E j \in 1..Len(r) : r[j] = x
      <4>1. i # k
        BY <2>1, <2>9, <3>2, Zenon
      <4>2. PICK j \in 1..Len(r) : g(j) = i
        BY <4>1, <2>5, Zenon
      <4> QED
        BY <4>2, <2>3, <3>2, Zenon
    <3> QED
      BY <3>1, <3>2, Zenon
  <2>10. r \in Seq(Timers)
    BY UnlistedFacts, Zenon
  <2> QED
    BY <2>7, <2>8, <2>9, <2>10, Zenon DEF Has
<1> QED
  BY <1>1, <1>2, UnlistedFacts

\* A sorted list with a new member at its place.
LEMMA ListedSorted ==
  ASSUME NEW l \in Seq(Timers), Sorted(l), NEW t \in Timers, NEW w \in Nat,
         when \in [Timers -> Nat], \A i \in 1..Len(l) : l[i] # t,
         when' = [when EXCEPT ![t] = w], active' = ListedAt(l, t, w)
  PROVE  /\ Sorted(active)'
         /\ \A x : (\E i \in 1..Len(active') : active'[i] = x)
                      <=> x = t \/ \E i \in 1..Len(l) : l[i] = x
<1> DEFINE r == ListedAt(l, t, w)
           n == Passed(l, w)
           f == [when EXCEPT ![t] = w]
           g(i) == IF i <= n THEN i ELSE i + 1
<1>1. /\ n \in 0..Len(l) /\ Len(l) \in Nat
      /\ \A i \in 1..n : when[l[i]] <= w
      /\ n < Len(l) => when[l[n + 1]] > w
  <2>1. l \in Seq(Timers) /\ w \in Nat /\ when \in [Timers -> Nat]
    BY Zenon
  <2>2. Len(l) \in Nat
    BY <2>1, LenFacts, Zenon
  <2>3. /\ Passed(l, w) \in 0..Len(l)
        /\ \A i \in 1..Passed(l, w) : when[l[i]] <= w
        /\ Passed(l, w) < Len(l) => when[l[Passed(l, w) + 1]] > w
    BY ONLY <2>1, PassedFacts, Zenon
  <2> QED
    BY <2>2, <2>3, Zenon
<1>2. /\ Len(r) = Len(l) + 1
      /\ \A i \in 1..n : r[i] = l[i]
      /\ r[n + 1] = t
      /\ \A i \in (n + 2)..(Len(l) + 1) : r[i] = l[i - 1]
  BY ListedAtFacts, ZenonT(60)
<1>3. active' = r /\ when' = f
  BY Zenon
<1> HIDE DEF r, n
<1>4. \A i \in 1..Len(l) : l[i] \in Timers /\ f[l[i]] = when[l[i]] /\ f[l[i]] \in Nat
  BY ElementFact, Zenon
<1>5. f[t] = w
  BY Zenon
<1> HIDE DEF f
<1>6. \A i \in (n + 1)..Len(l) : when[l[i]] >= w
  <2> TAKE i \in (n + 1)..Len(l)
  <2>1. when[l[n + 1]] > w /\ when[l[n + 1]] \in Nat /\ when[l[i]] \in Nat
    BY <1>1, <1>4
  <2>2. CASE i = n + 1
    BY <2>1, <2>2
  <2>3. CASE i # n + 1
    <3>1. n + 1 \in 1..Len(l) /\ i \in 1..Len(l) /\ n + 1 < i
      BY <1>1, <2>3
    <3>2. when[l[n + 1]] <= when[l[i]]
      BY <3>1, Zenon DEF Sorted
    <3> QED
      BY <2>1, <3>2
  <2> QED
    BY <2>2, <2>3, Zenon
<1>7. ASSUME NEW i \in 1..(Len(l) + 1), i # n + 1
      PROVE  \E k \in 1..Len(l) :
                /\ r[i] = l[k]
                /\ k = IF i <= n THEN i ELSE i - 1
  BY <1>1, <1>2, <1>7
<1>8. ASSUME NEW i \in 1..Len(r), NEW j \in 1..Len(r), i < j
      PROVE  r[i] # r[j] /\ f[r[i]] <= f[r[j]]
  <2>1. CASE i = n + 1
    <3>1. PICK k \in 1..Len(l) : r[j] = l[k] /\ k = j - 1
      BY <2>1, <1>1, <1>2, <1>7, <1>8
    <3>2. k \in (n + 1)..Len(l)
      BY <2>1, <3>1, <1>1, <1>2, <1>8
    <3> QED
      BY <2>1, <3>1, <3>2, <1>2, <1>4, <1>5, <1>6, Zenon
  <2>2. CASE j = n + 1
    <3>1. i \in 1..n /\ r[i] = l[i] /\ i \in 1..Len(l)
      BY <2>2, <1>1, <1>2, <1>8
    <3> QED
      BY <2>2, <3>1, <1>1, <1>2, <1>4, <1>5, Zenon
  <2>3. CASE i # n + 1 /\ j # n + 1
    <3>1. PICK k \in 1..Len(l) : r[i] = l[k] /\ k = IF i <= n THEN i ELSE i - 1
      BY <2>3, <1>2, <1>7, Zenon
    <3>2. PICK m \in 1..Len(l) : r[j] = l[m] /\ m = IF j <= n THEN j ELSE j - 1
      BY <2>3, <1>2, <1>7, Zenon
    <3>3. k < m
      BY <2>3, <3>1, <3>2, <1>1, <1>8
    <3>4. l[k] # l[m] /\ when[l[k]] <= when[l[m]]
      BY <3>3, Zenon DEF Sorted
    <3> QED
      BY <3>1, <3>2, <3>4, <1>4, Zenon
  <2> QED
    BY <2>1, <2>2, <2>3, Zenon
<1>9. Sorted(active)'
  BY <1>3, <1>8, Zenon DEF Sorted
<1>10. ASSUME NEW x
       PROVE  (\E i \in 1..Len(r) : r[i] = x)
                 <=> x = t \/ \E i \in 1..Len(l) : l[i] = x
  <2>1. ASSUME NEW i \in 1..Len(r), r[i] = x
        PROVE  x = t \/ \E k \in 1..Len(l) : l[k] = x
    BY <1>2, <1>7, <2>1, Zenon
  <2>2. ASSUME x = t PROVE \E i \in 1..Len(r) : r[i] = x
    <3>1. n + 1 \in 1..Len(r)
      BY <1>1, <1>2
    <3> QED
      BY <3>1, <2>2, <1>2, Zenon
  <2>3. ASSUME NEW k \in 1..Len(l), l[k] = x PROVE \E i \in 1..Len(r) : r[i] = x
    <3>1. CASE k <= n
      <4>1. k \in 1..n /\ k \in 1..Len(r)
        BY <3>1, <1>1, <1>2
      <4> QED
        BY <4>1, <2>3, <1>2, Zenon
    <3>2. CASE ~(k <= n)
      <4>1. k + 1 \in (n + 2)..(Len(l) + 1) /\ k + 1 \in 1..Len(r) /\ (k + 1) - 1 = k
        BY <3>2, <1>1, <1>2
      <4> QED
        BY <4>1, <2>3, <1>2, Zenon
    <3> QED
      BY <3>1, <3>2, Zenon
  <2> QED
    BY <2>1, <2>2, <2>3, Zenon
<1> QED
  BY <1>3, <1>9, <1>10, Zenon

\* What may happen to the list: a timer expires, is scheduled by what runs on
\* the executor, or is started by another thread.
LEMMA TimerSteps ==
  ASSUME TypeOK, [Next]_vars
  PROVE  \/ UNCHANGED <<active, when, isActive>>
         \/ \E t \in Timers : expire(t)
         \/ pc = "run" /\ \E t \in Timers : \E w \in Nat : ScheduleHere(t, w)
         \/ \E p \in Threads : \E t \in Timers : start(p, t)
<1> DEFINE Same == UNCHANGED <<active, when, isActive>>
           Goal == \/ Same
                   \/ \E t \in Timers : expire(t)
                   \/ pc = "run" /\ \E t \in Timers : \E w \in Nat : ScheduleHere(t, w)
                   \/ \E p \in Threads : \E t \in Timers : start(p, t)
<1>w. ASSUME NEW t \in Timers
      PROVE  when[t] + Period[t] \in Nat /\ now + Period[t] \in Nat /\ PAST \in Nat
  BY ExecutorAssumption DEF TypeOK, PAST
<1>1. ASSUME \/ next \/ lock_timers \/ get_next_timeout \/ clear_wakeup
             \/ check_empty \/ select_enter \/ pselect \/ select_leave
             \/ scan_done \/ next_again \/ ActiveTimers_run \/ tick
             \/ UNCHANGED vars
      PROVE  Goal
  <2>1. Same
    BY <1>1, Zenon
    DEF next, lock_timers, get_next_timeout, clear_wakeup, check_empty,
        select_enter, pselect, select_leave, scan_done, next_again,
        ActiveTimers_run, tick, timers, vars
  <2> QED
    BY <2>1, Zenon
<1>2. ASSUME NEW t \in Timers, Timer_run(t) PROVE Goal
  <2>2. pc = "run" /\ \/ Same
                      \/ ScheduleHere(t, when[t] + Period[t])
                      \/ ScheduleHere(t, now + Period[t])
    BY <1>2, Zenon DEF Timer_run
  <2> QED
    BY <2>2, <1>w, Zenon
<1>3. ASSUME NEW p \in Threads, flow_run(p) PROVE Goal
  <2>2. pc = "run" /\ (Same \/ \E t \in Timers : timer_call(t))
    BY <1>3, Zenon DEF flow_run, timers
  <2>3. ASSUME NEW t \in Timers, timer_call(t)
        PROVE  \E w \in Nat : ScheduleHere(t, w)
    BY <2>3, <1>w, Zenon DEF timer_call
  <2> QED
    BY <2>2, <2>3, Zenon
<1>4. ASSUME NEW s \in Selectables, scan(s) \/ selectable_run(s) \/ arrive(s)
      PROVE  Goal
  <2>1. Same
    BY <1>4, Zenon DEF scan, selectable_run, arrive, timers
  <2> QED
    BY <2>1, Zenon
<1>5. ASSUME NEW p \in Threads, add(p) \/ Call(p) PROVE Goal
  <2>1. Same
    BY <1>5, Zenon DEF add, Call, notify, wakeup, pthread_kill, timers
  <2> QED
    BY <2>1, Zenon
<1>6. ASSUME NEW t \in Timers, expire(t) PROVE Goal
  BY <1>6, Zenon
<1>7. ASSUME NEW p \in Threads, NEW t \in Timers, start(p, t) PROVE Goal
  BY <1>7, Zenon
<1> HIDE DEF Goal, Same
<1>8. ASSUME Loop PROVE Goal
  BY <1>8, <1>1, <1>2, <1>3, <1>4, <1>6, Zenon DEF Loop
<1>9. ASSUME ~Loop PROVE Goal
  BY <1>9, <1>1, <1>4, <1>5, <1>7, Zenon DEF Next
<1> QED
  BY <1>8, <1>9, Zenon DEF Goal, Same

\* The list of timers starts empty,
LEMMA ListInit == Init => ListInv
BY DEF Init, ListInv, Sorted, Listed

\* and every step keeps it sorted and in agreement with isActive_.
LEMMA ListStep ==
  ASSUME TypeOK, ListInv, [Next]_vars
  PROVE  ListInv'
<1>1. /\ active \in Seq(Timers) /\ when \in [Timers -> Nat]
      /\ isActive \in [Timers -> BOOLEAN] /\ now \in Nat
  BY Zenon DEF TypeOK
<1>2. Sorted(active) /\ Listed
  BY Zenon DEF ListInv
<1>3. CASE UNCHANGED <<active, when, isActive>>
  BY <1>2, <1>3, Zenon DEF ListInv, Sorted, Listed
<1>4. ASSUME NEW t \in Timers, expire(t) PROVE ListInv'
  <2>1. /\ active # <<>> /\ t = Head(active) /\ active' = Tail(active)
        /\ isActive' = [isActive EXCEPT ![t] = FALSE] /\ when' = when
    BY <1>4, Zenon DEF expire
  <2>2. /\ Len(active) \in Nat /\ Len(active') = Len(active) - 1
        /\ \A i \in 1..(Len(active) - 1) : active'[i] = active[i + 1]
        /\ 1 \in 1..Len(active) /\ active[1] = t
    BY <1>1, <2>1
  <2>3. ASSUME NEW i \in 1..Len(active')
        PROVE  i + 1 \in 1..Len(active) /\ active'[i] = active[i + 1] /\ 1 < i + 1
    BY <2>2
  <2>4. Sorted(active)'
    <3> SUFFICES ASSUME NEW i \in 1..Len(active'), NEW j \in 1..Len(active'), i < j
                 PROVE  active'[i] # active'[j] /\ when'[active'[i]] <= when'[active'[j]]
      BY Zenon DEF Sorted
    <3>1. i + 1 < j + 1
      BY <2>2
    <3> QED
      BY <3>1, <2>1, <2>3, <1>2 DEF Sorted
  <2>5. ASSUME NEW x \in Timers
        PROVE  isActive'[x] <=> \E i \in 1..Len(active') : active'[i] = x
    <3>1. CASE x = t
      <4>1. \A i \in 1..Len(active') : active'[i] # t
        BY <2>2, <2>3, <1>2 DEF Sorted
      <4>2. ~isActive'[x]
        BY <3>1, <2>1, <1>1, Zenon
      <4> QED
        BY <3>1, <4>1, <4>2, Zenon
    <3>2. CASE x # t
      <4>1. isActive'[x] = isActive[x]
        BY <3>2, <2>1, <1>1, Zenon
      <4>2. isActive[x] <=> \E i \in 1..Len(active) : active[i] = x
        BY <1>2, Zenon DEF Listed
      <4>3. ASSUME NEW i \in 1..Len(active), active[i] = x
            PROVE  \E j \in 1..Len(active') : active'[j] = x
        <5>1. i # 1
          BY <4>3, <3>2, <2>2, Zenon
        <5>2. i - 1 \in 1..Len(active') /\ (i - 1) + 1 = i
          BY <5>1, <2>2
        <5> QED
          BY <5>2, <4>3, <2>3, Zenon
      <4>4. ASSUME NEW i \in 1..Len(active'), active'[i] = x
            PROVE  \E j \in 1..Len(active) : active[j] = x
        BY <4>4, <2>3, Zenon
      <4> QED
        BY <4>1, <4>2, <4>3, <4>4, Zenon
    <3> QED
      BY <3>1, <3>2, Zenon
  <2> QED
    BY <2>4, <2>5, Zenon DEF ListInv, Listed
<1>5. ASSUME NEW t \in Timers, NEW w \in Nat, NEW l \in Seq(Timers), Sorted(l),
             ~Has(l, t), \A x : x # t => (Has(l, x) <=> Has(active, x)),
             when' = [when EXCEPT ![t] = w], active' = ListedAt(l, t, w),
             isActive' = [isActive EXCEPT ![t] = TRUE]
      PROVE  ListInv'
  <2>1. /\ Sorted(active)'
        /\ \A x : (\E i \in 1..Len(active') : active'[i] = x)
                      <=> x = t \/ \E i \in 1..Len(l) : l[i] = x
    <3>1. \A i \in 1..Len(l) : l[i] # t
      BY <1>5, Zenon DEF Has
    <3> QED
      BY <1>1, <1>5, <3>1, ListedSorted, Zenon
  <2>2. ASSUME NEW x \in Timers
        PROVE  isActive'[x] <=> \E i \in 1..Len(active') : active'[i] = x
    <3>1. CASE x = t
      <4>1. isActive'[x]
        BY <3>1, <1>1, <1>5, Zenon
      <4> QED
        BY <3>1, <4>1, <2>1, Zenon
    <3>2. CASE x # t
      <4>1. isActive'[x] = isActive[x]
        BY <3>2, <1>1, <1>5, Zenon
      <4>2. isActive[x] <=> \E i \in 1..Len(active) : active[i] = x
        BY <1>2, Zenon DEF Listed
      <4> QED
        BY <3>2, <4>1, <4>2, <2>1, <1>5, Zenon DEF Has
    <3> QED
      BY <3>1, <3>2, Zenon
  <2> QED
    BY <2>1, <2>2, Zenon DEF ListInv, Listed
<1>6. ASSUME NEW t \in Timers, NEW w \in Nat, ScheduleHere(t, w) PROVE ListInv'
  <2> DEFINE l == Unlisted(active, t)
  <2>1. /\ when' = [when EXCEPT ![t] = w] /\ active' = ListedAt(l, t, w)
        /\ isActive' = [isActive EXCEPT ![t] = TRUE]
    BY <1>6, Zenon DEF ScheduleHere
  <2>2. l = Unlisted(active, t) /\ t \in Timers
    BY Zenon
  <2> HIDE DEF l
  <2>3. /\ l \in Seq(Timers) /\ Sorted(l) /\ ~Has(l, t)
        /\ \A x : x # t => (Has(l, x) <=> Has(active, x))
    BY ONLY <2>2, <1>1, <1>2, UnlistedSorted, Zenon
  <2> QED
    BY <2>1, <2>3, <1>5, Zenon
<1>7. ASSUME NEW p \in Threads, NEW t \in Timers, start(p, t) PROVE ListInv'
  <2> DEFINE w == now + Period[t]
  <2>1. /\ when' = [when EXCEPT ![t] = w] /\ active' = ListedAt(active, t, w)
        /\ isActive' = [isActive EXCEPT ![t] = TRUE] /\ ~isActive[t]
    BY <1>7, Zenon DEF start
  <2>2. w \in Nat
    BY <1>1, ExecutorAssumption
  <2>3. ~Has(active, t)
    BY <2>1, <1>2, Zenon DEF Listed, Has
  <2> HIDE DEF w
  <2> QED
    BY <2>1, <2>2, <2>3, <1>1, <1>2, <1>5, Zenon
<1> QED
  BY <1>3, <1>4, <1>6, <1>7, TimerSteps, Zenon

-----------------------------------------------------------------------------
(* The wakeup protocol.                                                    *)

\* A queue with an executable in it is not empty.
LEMMA QueuedNotEmpty ==
  ASSUME queue \in [Bands -> Seq(Executables)], NEW x, Queued(x)
  PROVE  ~Empty
BY DEF Queued, Empty

\* The executor starts awake, with nothing pending.
LEMMA LoopInit == Init => LoopInv /\ PendInv /\ WakeInv /\ SleepInv
BY Zenon DEF Init, LoopInv, PendInv, WakeInv, NoLostWakeup, SleepInv, NoOverslept,
       Waiting

\* inSelect_ is set before pselect() and cleared after it.
LEMMA LoopStep ==
  ASSUME LoopInv, [Next]_vars
  PROVE  LoopInv'
<1>1. CASE next \/ next_again
  BY <1>1, Zenon DEF LoopInv, next, next_again, Take, wake
<1>2. CASE lock_timers \/ get_next_timeout \/ clear_wakeup \/ check_empty
  BY <1>2, Zenon DEF LoopInv, lock_timers, get_next_timeout, clear_wakeup,
              check_empty, wake
<1>3. CASE select_enter \/ pselect \/ select_leave \/ scan_done
  BY <1>3, Zenon DEF LoopInv, select_enter, pselect, select_leave, scan_done, wake
<1>4. CASE ActiveTimers_run
  BY <1>4, Zenon DEF LoopInv, ActiveTimers_run, Returns
<1>5. ASSUME NEW t \in Timers, expire(t) \/ Timer_run(t) PROVE LoopInv'
  BY <1>5, Zenon DEF LoopInv, expire, Timer_run, Returns
<1>6. ASSUME NEW p \in Threads, flow_run(p) PROVE LoopInv'
  BY <1>6, Zenon DEF LoopInv, flow_run, Returns
<1>7. ASSUME NEW s \in Selectables, scan(s) \/ selectable_run(s) \/ arrive(s)
      PROVE  LoopInv'
  BY <1>7, Zenon DEF LoopInv, scan, selectable_run, arrive, Returns, loop, wake
<1>8. ASSUME NEW p \in Threads, add(p) \/ Call(p) PROVE LoopInv'
  BY <1>8, Zenon DEF LoopInv, add, Call, notify, wakeup, pthread_kill, loop, wake
<1>9. ASSUME NEW p \in Threads, NEW t \in Timers, start(p, t) PROVE LoopInv'
  BY <1>9, Zenon DEF LoopInv, start, loop, wake
<1>10. CASE tick \/ UNCHANGED vars
  BY <1>10, Zenon DEF LoopInv, tick, vars, loop, wake
<1>11. CASE Loop
  BY <1>11, <1>1, <1>2, <1>3, <1>4, <1>5, <1>6, <1>7, Zenon DEF Loop
<1>12. CASE ~Loop
  BY <1>12, <1>7, <1>8, <1>9, <1>10, Zenon DEF Next
<1> QED
  BY <1>11, <1>12

\* isPending_ is cleared only when ActiveTimers runs, and set only by who adds
\* it to the queue.
LEMMA PendStep ==
  ASSUME TypeOK, LoopInv, PendInv, [Next]_vars
  PROVE  PendInv'
<1> DEFINE A == "active_timers"
<1>q. queue \in [Bands -> Seq(Executables)] /\ pendingWakeup \in BOOLEAN
  BY Zenon DEF TypeOK
<1>a. A \in Executables /\ A \notin Threads \cup Timers \cup Selectables
      /\ A # "exit" /\ NULL # A
  BY ExecutorAssumption, Zenon DEF Executables, Own
<1>u. ASSUME NEW e \in Executables, queue' = Inserted(queue, e)
      PROVE  \A x : Queued(x) => Queued(x)'
  BY <1>u, <1>q, AddFacts, Zenon
<1>s. ASSUME UNCHANGED queue PROVE \A x : Queued(x) => Queued(x)'
  BY <1>s, Zenon DEF Queued
<1>0. ASSUME UNCHANGED <<isPending, current, call>>,
             \A x : Queued(x) => Queued(x)'
      PROVE  PendInv'
  BY <1>0, Zenon DEF PendInv, Notifying
<1>1. CASE next \/ next_again
  <2>1. UNCHANGED <<isPending, call>>
    BY <1>1, Zenon DEF next, next_again, timers
  <2>2. CASE UNCHANGED <<queue, current>>
    BY <2>1, <2>2, <1>0, <1>s, Zenon
  <2>3. CASE ~Empty /\ Take
    <3>1. Queued(A) => Queued(A)' \/ current' = A
      BY <1>q, <2>3, TakeType, Zenon
    <3>2. current # A
      BY <1>1, <1>a, Zenon DEF LoopInv, next, next_again
    <3> QED
      BY <3>1, <3>2, <2>1, Zenon DEF PendInv, Notifying
  <2> QED
    BY <1>1, <2>2, <2>3, Zenon DEF next, next_again
<1>2. CASE lock_timers \/ get_next_timeout \/ clear_wakeup \/ check_empty
  BY <1>2, <1>0, <1>s, Zenon DEF lock_timers, get_next_timeout, clear_wakeup,
                         check_empty, timers
<1>3. CASE select_enter \/ pselect \/ select_leave \/ scan_done
  BY <1>3, <1>0, <1>s, Zenon DEF select_enter, pselect, select_leave, scan_done, timers
<1>4. CASE ActiveTimers_run
  BY <1>4, Zenon DEF PendInv, ActiveTimers_run
<1>5. ASSUME NEW t \in Timers, expire(t) PROVE PendInv'
  BY <1>5, <1>0, <1>u, Zenon DEF expire, AddHere, Executables
<1>6. ASSUME NEW e \in Executables \ {A}, current = e, UNCHANGED call,
             \/ isPending' = isPending /\ \A x : Queued(x) => Queued(x)'
             \/ NotifyHere
      PROVE  PendInv'
  <2>1. isPending' => isPending \/ Queued(A)'
    BY <1>6, <1>q, NotifyFacts, Zenon
  <2>2. Queued(A) => Queued(A)'
    BY <1>6, <1>q, NotifyFacts, Zenon
  <2>3. current # A /\ Notifying' = Notifying
    BY <1>6, Zenon DEF Notifying
  <2> QED
    BY <2>1, <2>2, <2>3, Zenon DEF PendInv
<1>7. ASSUME NEW t \in Timers, Timer_run(t) PROVE PendInv'
  <2>1. t \in Executables \ {A}
    BY <1>a, Zenon DEF Executables
  <2>2. /\ current = t /\ UNCHANGED call
        /\ UNCHANGED <<queue, isPending>> \/ NotifyHere
    BY <1>7, Zenon DEF Timer_run, Returns, ScheduleHere
  <2> QED
    BY <2>1, <2>2, <1>6, <1>s, Zenon
<1>8. ASSUME NEW p \in Threads, flow_run(p) PROVE PendInv'
  <2>1. p \in Executables \ {A}
    BY <1>a, Zenon DEF Executables
  <2>2. current = p /\ UNCHANGED call
    BY <1>8, Zenon DEF flow_run, Returns
  <2>3. \/ UNCHANGED <<queue, isPending>>
        \/ queue' = Inserted(queue, p) /\ UNCHANGED isPending
        \/ NotifyHere
    BY <1>8, Zenon DEF flow_run, AddHere, timer_call, ScheduleHere, timers
  <2>4. \/ isPending' = isPending /\ \A x : Queued(x) => Queued(x)'
        \/ NotifyHere
    BY <2>1, <2>3, <1>s, <1>u, Zenon
  <2> QED
    BY <2>1, <2>2, <2>4, <1>6, Zenon
<1>9. ASSUME NEW s \in Selectables, scan(s) \/ arrive(s) PROVE PendInv'
  BY <1>9, <1>0, <1>u, <1>s, Zenon DEF scan, arrive, AddHere, Executables, timers, loop
<1>10. ASSUME NEW s \in Selectables, selectable_run(s) PROVE PendInv'
  <2>1. s \in Executables \ {A}
    BY <1>a, Zenon DEF Executables
  <2> QED
    BY <1>10, <2>1, <1>6, <1>s, Zenon DEF selectable_run, Returns, timers
<1>11. ASSUME NEW p \in Threads, add(p) PROVE PendInv'
  <2>1. PICK e \in {p, "exit"} : queue' = Inserted(queue, e)
    BY <1>11, Zenon DEF add
  <2>2. \A x : Queued(x) => Queued(x)'
    BY <2>1, <1>u, Zenon DEF Executables, Own
  <2>3. Notifying => Notifying'
    BY <1>11, Zenon DEF add, Notifying, TypeOK
  <2> QED
    BY <1>11, <2>2, <2>3, Zenon DEF PendInv, add, timers, loop
<1>12. ASSUME NEW p \in Threads, notify(p) PROVE PendInv'
  <2>1. Queued(A)'
    BY <1>12, <1>a, <1>q, AddFacts, Zenon DEF notify
  <2> QED
    BY <2>1, Zenon DEF PendInv
<1>13. ASSUME NEW p \in Threads, wakeup(p) \/ pthread_kill(p) PROVE PendInv'
  <2>1. Notifying => Notifying'
    BY <1>13, Zenon DEF wakeup, pthread_kill, Done, Notifying, TypeOK
  <2> QED
    BY <1>13, <2>1, <1>s, Zenon DEF PendInv, wakeup, pthread_kill, timers, loop
<1>14. ASSUME NEW p \in Threads, NEW t \in Timers, start(p, t) PROVE PendInv'
  <2>1. CASE isPending
    BY <1>14, <2>1, <1>0, <1>s, Zenon DEF start, loop, TypeOK
  <2>2. CASE ~isPending
    BY <1>14, <2>2, Zenon DEF start, PendInv, Notifying, TypeOK
  <2> QED
    BY <2>1, <2>2, Zenon
<1>15. CASE tick \/ UNCHANGED vars
  BY <1>15, <1>0, <1>s, Zenon DEF tick, vars, loop, timers
<1>16. CASE Loop
  BY <1>16, <1>1, <1>2, <1>3, <1>4, <1>5, <1>7, <1>8, <1>9, <1>10, Zenon
  DEF Loop
<1>17. CASE ~Loop
  BY <1>17, <1>9, <1>11, <1>12, <1>13, <1>14, <1>15, Zenon DEF Next, Call
<1> QED
  BY <1>16, <1>17, Zenon

\* The steps of the executor's thread on which it is not about to sleep.
LEMMA AwakeSteps ==
  ASSUME TypeOK, Loop
  PROVE  \/ pc' \notin {"expire", "clear", "check", "enter", "select"}
         \/ lock_timers \/ get_next_timeout \/ clear_wakeup \/ check_empty
         \/ select_enter \/ \E t \in Timers : expire(t)
<1> DEFINE Goal ==
         \/ pc' \notin {"expire", "clear", "check", "enter", "select"}
         \/ lock_timers \/ get_next_timeout \/ clear_wakeup \/ check_empty
         \/ select_enter \/ \E t \in Timers : expire(t)
<1>1. ASSUME next \/ next_again PROVE Goal
  BY <1>1, Zenon DEF next, next_again, Take
<1>2. ASSUME pselect \/ select_leave \/ scan_done PROVE Goal
  BY <1>2, Zenon DEF pselect, select_leave, scan_done
<1>3. ASSUME ActiveTimers_run PROVE Goal
  BY <1>3, Zenon DEF ActiveTimers_run, Returns
<1>4. ASSUME NEW t \in Timers, Timer_run(t) PROVE Goal
  BY <1>4, Zenon DEF Timer_run, Returns
<1>5. ASSUME NEW p \in Threads, flow_run(p) PROVE Goal
  BY <1>5, Zenon DEF flow_run, Returns
<1>6. ASSUME NEW s \in Selectables, scan(s) \/ selectable_run(s) PROVE Goal
  BY <1>6, Zenon DEF scan, selectable_run, Returns
<1>7. ASSUME \/ lock_timers \/ get_next_timeout \/ clear_wakeup \/ check_empty
             \/ select_enter \/ \E t \in Timers : expire(t)
      PROVE  Goal
  BY <1>7, Zenon
<1> HIDE DEF Goal
<1>8. Goal
  BY <1>1, <1>2, <1>3, <1>4, <1>5, <1>6, <1>7, Zenon DEF Loop
<1> QED
  BY <1>8, Zenon DEF Goal

\* No step leaves an executable in the queue without a wakeup.
LEMMA WakeStep ==
  ASSUME TypeOK, LoopInv, WakeInv, [Next]_vars
  PROVE  WakeInv'
<1>q. queue \in [Bands -> Seq(Executables)]
  BY Zenon DEF TypeOK
<1>c. call \in [Threads -> {"none", "notify", "wakeup", "kill"}] /\ now \in Nat
      /\ deadline \in Nat
  BY Zenon DEF TypeOK
<1>e. ASSUME UNCHANGED queue PROVE Empty' = Empty
  BY <1>e, Zenon DEF Empty
<1>0. ASSUME pc' \notin {"enter", "select"} PROVE WakeInv'
  BY <1>0, Zenon DEF WakeInv, NoLostWakeup
<1>1. CASE check_empty
  BY <1>1, <1>e DEF check_empty, WakeInv, NoLostWakeup
<1>2. CASE select_enter
  <2>1. /\ pc = "enter" /\ pc' = "select"
        /\ UNCHANGED <<queue, signal, now, call>>
        /\ deadline' = now + wait' /\ wait' = IF pendingWakeup THEN 0 ELSE wait
    BY <1>2, Zenon DEF select_enter
  <2>2. Empty' = Empty
    BY <2>1, <1>e, Zenon
  <2>3. wait = 0 \/ pendingWakeup => deadline' <= now'
    BY <2>1, <1>c
  <2> QED
    BY <2>1, <2>2, <2>3, Zenon DEF WakeInv, NoLostWakeup, WakeupUnderWay, Calling
<1>3. CASE lock_timers \/ get_next_timeout \/ clear_wakeup
  BY <1>3, <1>0, Zenon DEF lock_timers, get_next_timeout, clear_wakeup
<1>4. ASSUME NEW t \in Timers, expire(t) PROVE WakeInv'
  BY <1>4, <1>0, Zenon DEF expire
<1>5. ASSUME Calling' PROVE WakeInv'
  BY <1>5, Zenon DEF WakeInv, NoLostWakeup, WakeupUnderWay, Calling
<1>6. ASSUME NEW p \in Threads, add(p) \/ notify(p) PROVE WakeInv'
  <2>1. Calling'
    BY <1>6, <1>c, Zenon DEF add, notify, Calling
  <2> QED
    BY <2>1, <1>5, Zenon
<1>7. ASSUME NEW p \in Threads, wakeup(p) PROVE WakeInv'
  <2>1. CASE inSelect
    <3>1. Calling'
      BY <1>7, <2>1, <1>c, Zenon DEF wakeup, Calling
    <3> QED
      BY <3>1, <1>5
  <2>2. CASE ~inSelect
    <3>1. pc' # "select" /\ pendingWakeup'
      BY <1>7, <2>2, Zenon DEF wakeup, loop, LoopInv
    <3> QED
      BY <3>1, Zenon DEF WakeInv, NoLostWakeup
  <2> QED
    BY <2>1, <2>2, Zenon
<1>8. ASSUME NEW p \in Threads, pthread_kill(p) PROVE WakeInv'
  BY <1>8, Zenon DEF pthread_kill, WakeInv, NoLostWakeup, WakeupUnderWay
<1>9. ASSUME UNCHANGED <<queue, loop, wake>>, now' \in Nat, now <= now',
             Calling => Calling'
      PROVE  WakeInv'
  <2>1. Empty' = Empty
    BY <1>9, <1>e, Zenon
  <2>2. /\ UNCHANGED <<pc, wait, deadline, pendingWakeup, signal>>
        /\ deadline <= now => deadline <= now'
    BY <1>9, <1>c DEF loop, locals, wake
  <2> QED
    BY <1>9, <2>1, <2>2, Zenon DEF WakeInv, NoLostWakeup, WakeupUnderWay, Calling
<1>10. ASSUME NEW p \in Threads, NEW t \in Timers, start(p, t) PROVE WakeInv'
  <2>1. Calling => Calling'
    BY <1>10, <1>c, Zenon DEF start, Calling
  <2> QED
    BY <1>10, <2>1, <1>9, <1>c DEF start
<1>11. CASE tick \/ UNCHANGED vars
  BY <1>11, <1>9, <1>c DEF tick, vars, Calling
<1>12. ASSUME NEW s \in Selectables, arrive(s) PROVE WakeInv'
  BY <1>12, <1>9, <1>c DEF arrive, Calling
<1>13. CASE Loop
  BY <1>13, <1>0, <1>1, <1>2, <1>3, <1>4, AwakeSteps, Zenon
<1>14. CASE ~Loop
  BY <1>14, <1>6, <1>7, <1>8, <1>10, <1>11, <1>12, Zenon DEF Next, Call
<1> QED
  BY <1>13, <1>14, Zenon

\* No step leaves an active timer that is due before the end of the wait.
LEMMA SleepStep ==
  ASSUME TypeOK, ListInv, LoopInv, PendInv, WakeInv, SleepInv, [Next]_vars
  PROVE  SleepInv'
<1>q. queue \in [Bands -> Seq(Executables)]
  BY Zenon DEF TypeOK
<1>c. /\ call \in [Threads -> {"none", "notify", "wakeup", "kill"}]
      /\ now \in Nat /\ deadline \in Nat /\ asof \in Nat /\ wait \in Nat
      /\ when \in [Timers -> Nat] /\ isActive \in [Timers -> BOOLEAN]
      /\ active \in Seq(Timers) /\ isPending \in BOOLEAN
  BY Zenon DEF TypeOK
<1>e. ASSUME UNCHANGED queue PROVE Empty' = Empty
  BY <1>e, Zenon DEF Empty
<1>0. ASSUME pc' \notin {"expire", "clear", "check", "enter", "select"}
      PROVE  SleepInv'
  BY <1>0, Zenon DEF SleepInv, NoOverslept, Waiting
<1>1. CASE lock_timers
  BY <1>1, <1>c DEF lock_timers, SleepInv, NoOverslept, Waiting
<1>2. ASSUME NEW t \in Timers, expire(t) PROVE SleepInv'
  BY <1>2, Zenon DEF expire, SleepInv, NoOverslept, Waiting
<1>3. CASE get_next_timeout
  <2>1. /\ pc = "expire" /\ pc' = "clear"
        /\ active # <<>> => when[Head(active)] > asof
        /\ wait' = IF found_timer THEN 0
                   ELSE IF active # <<>> THEN when[Head(active)] - asof
                   ELSE executor_max_sleep
        /\ UNCHANGED <<asof, now, when, isActive, active>>
    BY <1>3, Zenon DEF get_next_timeout, timers
  <2>2. ASSUME NEW t \in Timers, isActive[t]
        PROVE  /\ active # <<>>
               /\ when[Head(active)] <= when[t]
               /\ Head(active) \in Timers
    <3>1. PICK i \in 1..Len(active) : active[i] = t
      BY <2>2, Zenon DEF ListInv, Listed
    <3>2. 1 \in 1..Len(active) /\ active # <<>> /\ Head(active) = active[1]
          /\ active[1] \in Timers
      BY <3>1, <1>c
    <3>3. CASE i = 1
      BY <3>1, <3>2, <3>3, <1>c
    <3>4. CASE i # 1
      <4>1. 1 < i
        BY <3>4, <3>1, <1>c
      <4> QED
        BY <4>1, <3>1, <3>2, Zenon DEF ListInv, Sorted
    <3> QED
      BY <3>3, <3>4, Zenon
  <2>3. ASSUME NEW t \in Timers, isActive'[t]
        PROVE  when'[t] >= asof' /\ when'[t] >= asof' + wait'
    BY <2>1, <2>2, <2>3, <1>c
  <2>4. Within'
    BY <2>3, Zenon DEF Within
  <2>5. asof' <= now'
    BY <2>1, Zenon DEF SleepInv
  <2> QED
    BY <2>1, <2>3, <2>4, <2>5, Zenon DEF SleepInv, NoOverslept, Waiting
<1>4. CASE clear_wakeup
  <2>1. /\ pc = "clear" /\ pc' = "check"
        /\ UNCHANGED <<queue, asof, wait, now, when, isActive, call>>
    BY <1>4, Zenon DEF clear_wakeup, locals, timers
  <2>2. Empty' = Empty /\ Within' = Within /\ Notifying' = Notifying
    BY <2>1, <1>e, Zenon DEF Within, Notifying
  <2> QED
    BY <2>1, <2>2, Zenon DEF SleepInv, NoOverslept, Waiting
<1>5. CASE check_empty
  <2>1. /\ pc = "check" /\ pc' = "enter"
        /\ wait' = IF ~Empty THEN 0
                   ELSE IF wait > executor_max_sleep THEN executor_max_sleep
                   ELSE wait
        /\ UNCHANGED <<asof, now, when, isActive, call>>
    BY <1>5, Zenon DEF check_empty, timers
  <2>2. \A t \in Timers : isActive[t] => when[t] >= asof
    BY <2>1, Zenon DEF SleepInv, Waiting
  <2>3. CASE ~Empty
    <3>1. Within'
      BY <2>1, <2>2, <2>3, <1>c DEF Within
    <3> QED
      BY <2>1, <3>1, Zenon DEF SleepInv, NoOverslept, Waiting
  <2>4. CASE Empty /\ Within
    <3>1. wait' \in Nat /\ wait' <= wait
      BY <2>1, <2>4, <1>c, ExecutorAssumption
    <3>2. Within'
      BY <2>1, <2>4, <3>1, <1>c DEF Within
    <3> QED
      BY <2>1, <3>2 DEF SleepInv, NoOverslept, Waiting
  <2>5. CASE Notifying
    <3>1. Calling'
      BY <2>1, <2>5, Zenon DEF Notifying, Calling
    <3> QED
      BY <2>1, <3>1, Zenon DEF SleepInv, NoOverslept, Waiting
  <2> QED
    BY <2>1, <2>3, <2>4, <2>5, Zenon DEF SleepInv
<1>6. CASE select_enter
  <2>1. /\ pc = "enter" /\ pc' = "select"
        /\ UNCHANGED <<signal, asof, now, call, when, isActive>>
        /\ deadline' = now + wait' /\ wait' = IF pendingWakeup THEN 0 ELSE wait
    BY <1>6, Zenon DEF select_enter, timers
  <2>2. NoOverslept'
    <3>1. CASE pendingWakeup
      <4>1. deadline' <= now'
        BY <2>1, <3>1, <1>c
      <4> QED
        BY <4>1, Zenon DEF NoOverslept, WakeupUnderWay
    <3>2. CASE ~pendingWakeup /\ Within
      <4>1. wait' = wait
        BY <2>1, <3>2, Zenon
      <4> QED
        BY <2>1, <3>2, <4>1, Zenon DEF NoOverslept, Within
    <3>3. CASE signal \/ Calling
      BY <2>1, <3>3, Zenon DEF NoOverslept, WakeupUnderWay, Calling
    <3> QED
      BY <2>1, <3>1, <3>2, <3>3, Zenon DEF SleepInv
  <2> QED
    BY <2>1, <2>2, Zenon DEF SleepInv, Waiting
<1>7. ASSUME UNCHANGED <<loop, when, isActive, now>>
      PROVE  /\ Waiting' \/ pc' = "expire" => asof' <= now'
             /\ Waiting' => \A t \in Timers : isActive'[t] => when'[t] >= asof'
             /\ UNCHANGED <<pc, wait, asof, deadline>>
             /\ Within' = Within
  BY <1>7, Zenon DEF SleepInv, Waiting, Within, loop, locals
<1>8. ASSUME NEW p \in Threads, add(p) \/ notify(p) PROVE SleepInv'
  <2>1. UNCHANGED <<loop, when, isActive, now>>
    BY <1>8, Zenon DEF add, notify, timers
  <2>2. Calling'
    BY <1>8, <1>c, Zenon DEF add, notify, Calling
  <2>3. \E e \in Executables : queue' = Inserted(queue, e)
    BY <1>8, Zenon DEF add, notify, Executables, Own
  <2>4. ~Empty'
    BY <2>3, <1>q, AddFacts, Zenon
  <2> QED
    BY <1>7, <2>1, <2>2, <2>4, Zenon
    DEF SleepInv, NoOverslept, WakeupUnderWay, Calling
<1>9. ASSUME NEW p \in Threads, wakeup(p) \/ pthread_kill(p) PROVE SleepInv'
  <2>1. UNCHANGED <<loop, when, isActive, now, queue>>
    BY <1>9, Zenon DEF wakeup, pthread_kill, timers
  <2>2. Empty' = Empty
    BY <2>1, <1>e, Zenon
  <2>3. Notifying => Notifying'
    BY <1>9, <1>c, Zenon DEF wakeup, pthread_kill, Done, Notifying
  <2>4. pc = "enter" => pendingWakeup' \/ signal'
    BY <1>9, Zenon DEF wakeup, pthread_kill
  <2>5. pc = "select" => Calling' \/ signal'
    BY <1>9, <1>c, Zenon DEF wakeup, pthread_kill, LoopInv, Calling
  <2>6. /\ Waiting' \/ pc' = "expire" => asof' <= now'
        /\ Waiting' => \A t \in Timers : isActive'[t] => when'[t] >= asof'
        /\ UNCHANGED <<pc, wait, asof, deadline>>
        /\ Within' = Within
    BY <1>7, <2>1, Zenon
  <2>7. pc' \in {"clear", "check"} => Within' \/ ~Empty' \/ Notifying'
    BY <2>2, <2>3, <2>6, Zenon DEF SleepInv
  <2>8. NoOverslept'
    BY <2>5, <2>6, Zenon DEF NoOverslept, WakeupUnderWay, Calling
  <2> QED
    BY <2>4, <2>6, <2>7, <2>8, Zenon DEF SleepInv
<1>10. ASSUME NEW p \in Threads, NEW t \in Timers, start(p, t) PROVE SleepInv'
  <2>1. /\ when' = [when EXCEPT ![t] = now + Period[t]]
        /\ isActive' = [isActive EXCEPT ![t] = TRUE]
        /\ ~isPending => call' = [call EXCEPT ![p] = "notify"]
        /\ isPending => call' = call
        /\ UNCHANGED <<queue, pc, wait, asof, deadline, signal, pendingWakeup,
                       now, current>>
    BY <1>10, Zenon DEF start, loop, locals, wake
  <2>2. Empty' = Empty
    BY <2>1, <1>e, Zenon
  <2>3. Waiting' \/ pc' = "expire" => asof' <= now'
    BY <2>1, Zenon DEF SleepInv, Waiting
  <2>4. Waiting' => \A u \in Timers : isActive'[u] => when'[u] >= asof'
    <3> SUFFICES ASSUME Waiting', NEW u \in Timers, isActive'[u]
                 PROVE  when'[u] >= asof'
      BY Zenon
    <3>1. asof <= now /\ (isActive[u] => when[u] >= asof) /\ Period[t] \in Nat
      BY <2>1, ExecutorAssumption, Zenon DEF SleepInv, Waiting
    <3>2. CASE u = t
      BY <3>1, <3>2, <2>1, <1>c
    <3>3. CASE u # t
      BY <3>1, <3>3, <2>1, <1>c, Zenon
    <3> QED
      BY <3>2, <3>3, Zenon
  <2>5. CASE ~isPending
    <3>1. Notifying' /\ Calling'
      BY <2>1, <2>5, <1>c, Zenon DEF Notifying, Calling
    <3> QED
      BY <2>3, <2>4, <3>1, Zenon DEF SleepInv, NoOverslept, WakeupUnderWay, Calling
  <2>6. CASE isPending
    <3>1. Notifying' = Notifying /\ Calling' = Calling
      BY <2>1, <2>6, Zenon DEF Notifying, Calling
    <3>2. Waiting => ~Empty \/ Notifying
      <4>1. Waiting => current # "active_timers"
        BY ExecutorAssumption, Zenon DEF Waiting, LoopInv, Executables, Own
      <4> QED
        BY <4>1, <2>6, <1>q, QueuedNotEmpty, Zenon DEF PendInv
    <3>3. Notifying => Calling
      BY Zenon DEF Notifying, Calling
    <3>4. pc' = "enter" => Within' \/ pendingWakeup' \/ signal' \/ Calling'
      <4> SUFFICES ASSUME pc = "enter", ~pendingWakeup, ~signal, ~Calling
                   PROVE  Within'
        BY <2>1, <3>1, Zenon
      <4>1. wait' = 0
        BY <2>1, <3>2, <3>3, Zenon DEF WakeInv, Waiting
      <4>2. \A u \in Timers : isActive'[u] => when'[u] >= asof'
        BY <2>1, <2>4, Zenon DEF Waiting
      <4>3. \A u \in Timers : when'[u] \in Nat
        BY <2>1, <1>c, ExecutorAssumption
      <4>4. asof' \in Nat
        BY <2>1, <1>c, Zenon
      <4> QED
        BY <4>1, <4>2, <4>3, <4>4 DEF Within
    <3>5. NoOverslept'
      <4>1. pc = "select" => WakeupUnderWay
        BY <3>2, <3>3, Zenon DEF WakeInv, NoLostWakeup, Waiting, WakeupUnderWay, Calling
      <4>2. WakeupUnderWay => WakeupUnderWay'
        BY <2>1, <2>6, Zenon DEF WakeupUnderWay
      <4> QED
        BY <2>1, <4>1, <4>2, Zenon DEF NoOverslept
    <3>6. pc' \in {"clear", "check"} => Within' \/ ~Empty' \/ Notifying'
      BY <2>1, <2>2, <3>1, <3>2, Zenon DEF Waiting
    <3> QED
      BY <2>3, <2>4, <3>4, <3>5, <3>6, Zenon DEF SleepInv
  <2> QED
    BY <2>5, <2>6, Zenon
<1>11. ASSUME UNCHANGED <<queue, loop, wake, timers, call>>, now' \in Nat,
              now <= now'
       PROVE  SleepInv'
  <2>1. /\ UNCHANGED <<pc, wait, asof, deadline, when, isActive, signal,
                       pendingWakeup, call>>
        /\ deadline <= now => deadline <= now'
        /\ asof <= now => asof <= now'
    BY <1>11, <1>c DEF loop, locals, wake, timers
  <2>2. Empty' = Empty /\ Within' = Within /\ Notifying' = Notifying
        /\ Calling' = Calling /\ Waiting' = Waiting
    BY <1>11, <2>1, <1>e, Zenon DEF Within, Notifying, Calling, Waiting
  <2>3. WakeupUnderWay => WakeupUnderWay'
    BY <2>1, Zenon DEF WakeupUnderWay
  <2>4. NoOverslept'
    BY <2>1, <2>3, Zenon DEF SleepInv, NoOverslept
  <2> QED
    BY <2>1, <2>2, <2>4, Zenon DEF SleepInv
<1>12. CASE tick \/ UNCHANGED vars
  BY <1>12, <1>11, <1>c DEF tick, vars
<1>13. ASSUME NEW s \in Selectables, arrive(s) PROVE SleepInv'
  BY <1>13, <1>11, <1>c DEF arrive
<1>14. CASE Loop
  BY <1>14, <1>0, <1>1, <1>2, <1>3, <1>4, <1>5, <1>6, AwakeSteps, Zenon
<1>15. CASE ~Loop
  BY <1>15, <1>8, <1>9, <1>10, <1>12, <1>13, Zenon DEF Next, Call
<1> QED
  BY <1>14, <1>15, Zenon

-----------------------------------------------------------------------------
(* Where the timers and the Selectables are.                               *)

\* Every place of the queue after an insertion is an old one or the last one
\* of the band.
LEMMA InsertedAt ==
  ASSUME queue \in [Bands -> Seq(Executables)], NEW x \in Executables,
         queue' = Inserted(queue, x)
  PROVE  \A b \in Bands : \A i \in 1..Len(queue'[b]) :
            \/ i \in 1..Len(queue[b]) /\ queue'[b][i] = queue[b][i]
            \/ b = Band(x) /\ i = Len(queue[b]) + 1 /\ queue'[b][i] = x
<1> DEFINE a == Band(x)
<1>1. a \in Bands
  BY BandType, Zenon
<1>2. queue' = [queue EXCEPT ![a] = Append(queue[a], x)]
  BY Zenon DEF Inserted
<1> HIDE DEF a
<1>3. /\ Len(queue[a]) \in Nat
      /\ Len(Append(queue[a], x)) = Len(queue[a]) + 1
      /\ \A i \in 1..Len(queue[a]) : Append(queue[a], x)[i] = queue[a][i]
      /\ Append(queue[a], x)[Len(queue[a]) + 1] = x
  BY <1>1, AppendFacts, LenFacts
<1>4. queue'[a] = Append(queue[a], x)
  BY <1>1, <1>2, Zenon
<1>5. \A b \in Bands : b # a => queue'[b] = queue[b]
  BY <1>2, Zenon
<1>6. ASSUME NEW i \in 1..Len(queue'[a])
      PROVE  \/ i \in 1..Len(queue[a]) /\ queue'[a][i] = queue[a][i]
             \/ i = Len(queue[a]) + 1 /\ queue'[a][i] = x
  BY <1>3, <1>4
<1> QED
  BY <1>5, <1>6, Zenon DEF a

\* Being in the queue, with the places counted from 1.
LEMMA QueuedAt ==
  ASSUME queue \in [Bands -> Seq(Executables)], NEW e
  PROVE  Queued(e) <=> \E b \in Bands : \E i \in 1..Len(queue[b]) : queue[b][i] = e
<1>1. \A b \in Bands : DOMAIN queue[b] = 1..Len(queue[b])
  BY LenFacts, Zenon
<1> QED
  BY <1>1, Zenon DEF Queued

\* Adding one executable moves no other, and gives it one place if it had
\* none.
LEMMA AddOnce ==
  ASSUME queue \in [Bands -> Seq(Executables)], NEW x \in Executables,
         queue' = Inserted(queue, x)
  PROVE  /\ \A e : e # x => (Queued(e)' <=> Queued(e))
         /\ \A e : e # x /\ Once(e) => Once(e)'
         /\ ~Queued(x) => Once(x)'
<1>1. \A b \in Bands : \A i \in 1..Len(queue'[b]) :
            \/ i \in 1..Len(queue[b]) /\ queue'[b][i] = queue[b][i]
            \/ b = Band(x) /\ i = Len(queue[b]) + 1 /\ queue'[b][i] = x
  BY InsertedAt, Zenon
<1>2. queue' \in [Bands -> Seq(Executables)] /\ \A e : Queued(e) => Queued(e)'
  BY AddFacts, Zenon
<1>3. \A e : Queued(e)' <=> \E b \in Bands : \E i \in 1..Len(queue'[b]) : queue'[b][i] = e
  <2>1. \A b \in Bands : DOMAIN queue'[b] = 1..Len(queue'[b])
    BY <1>2, LenFacts, Zenon
  <2> QED
    BY <2>1, Zenon DEF Queued
<1>4. ASSUME NEW e, e # x, Queued(e)' PROVE Queued(e)
  <2>1. \E b \in Bands : \E i \in 1..Len(queue[b]) : queue[b][i] = e
    BY <1>1, <1>3, <1>4, Zenon
  <2> QED
    BY <2>1, QueuedAt, Zenon
<1>5. ASSUME NEW e, e # x, Once(e) PROVE Once(e)'
  <2> SUFFICES ASSUME NEW b \in Bands, NEW c \in Bands,
                      NEW i \in 1..Len(queue'[b]), NEW j \in 1..Len(queue'[c]),
                      queue'[b][i] = e, queue'[c][j] = e
               PROVE  b = c /\ i = j
    BY DEF Once
  <2>1. /\ i \in 1..Len(queue[b]) /\ queue[b][i] = e
        /\ j \in 1..Len(queue[c]) /\ queue[c][j] = e
    BY <1>1, <1>5, Zenon
  <2> QED
    BY <2>1, <1>5, Zenon DEF Once
<1>6. ASSUME ~Queued(x) PROVE Once(x)'
  <2> SUFFICES ASSUME NEW b \in Bands, NEW c \in Bands,
                      NEW i \in 1..Len(queue'[b]), NEW j \in 1..Len(queue'[c]),
                      queue'[b][i] = x, queue'[c][j] = x
               PROVE  b = c /\ i = j
    BY DEF Once
  <2>1. ASSUME NEW d \in Bands, NEW k \in 1..Len(queue'[d]), queue'[d][k] = x
        PROVE  d = Band(x) /\ k = Len(queue[d]) + 1
    <3>1. ~(k \in 1..Len(queue[d]) /\ queue[d][k] = x)
      BY <1>6, QueuedAt, Zenon
    <3> QED
      BY <3>1, <2>1, <1>1, Zenon
  <2> QED
    BY <2>1, Zenon
<1> QED
  BY <1>2, <1>4, <1>5, <1>6, Zenon

\* Taking an executable moves the others up, and the queue has it no more if
\* it had it once.
LEMMA TakeOnce ==
  ASSUME queue \in [Bands -> Seq(Executables)], ~Empty, Take,
         NEW CONSTANT h, h = current'
  PROVE  /\ \A e : e # h => (Queued(e)' <=> Queued(e))
         /\ \A e : Once(e) => Once(e)'
         /\ Queued(h)
         /\ Once(h) => ~Queued(h)'
<1>1. PICK b \in Bands :
            /\ queue[b] # <<>>
            /\ h = Head(queue[b])
            /\ queue' = [queue EXCEPT ![b] = Tail(queue[b])]
  BY TakeFacts, Zenon
<1>2. queue[b] \in Seq(Executables) /\ queue[b] # <<>>
  BY <1>1, Zenon
<1>3. /\ Len(queue[b]) \in Nat /\ 1 \in 1..Len(queue[b])
      /\ Len(Tail(queue[b])) = Len(queue[b]) - 1
      /\ h = queue[b][1]
      /\ \A i \in 1..(Len(queue[b]) - 1) : Tail(queue[b])[i] = queue[b][i + 1]
  BY <1>1, <1>2
<1>4. queue'[b] = Tail(queue[b]) /\ \A c \in Bands : c # b => queue'[c] = queue[c]
  BY <1>1, Zenon
<1>5. /\ queue' \in [Bands -> Seq(Executables)]
      /\ \A x : Queued(x) => Queued(x)' \/ h = x
      /\ \A x : Queued(x)' => Queued(x)
  BY TakeType, Zenon
<1> DEFINE up(c) == IF c = b THEN 1 ELSE 0
<1>6. ASSUME NEW c \in Bands, NEW i \in 1..Len(queue'[c])
      PROVE  /\ i + up(c) \in 1..Len(queue[c])
             /\ queue'[c][i] = queue[c][i + up(c)]
  <2>1. CASE c = b
    BY <2>1, <1>3, <1>4
  <2>2. CASE c # b
    BY <2>2, <1>4
  <2> QED
    BY <2>1, <2>2, Zenon
<1>7. ASSUME NEW e, Once(e) PROVE Once(e)'
  <2> SUFFICES ASSUME NEW c \in Bands, NEW d \in Bands,
                      NEW i \in 1..Len(queue'[c]), NEW j \in 1..Len(queue'[d]),
                      queue'[c][i] = e, queue'[d][j] = e
               PROVE  c = d /\ i = j
    BY Zenon DEF Once
  <2>1. c = d /\ i + up(c) = j + up(d)
    <3>1. /\ i + up(c) \in 1..Len(queue[c]) /\ queue[c][i + up(c)] = e
          /\ j + up(d) \in 1..Len(queue[d]) /\ queue[d][j + up(d)] = e
      BY <1>6, Zenon
    <3> HIDE DEF up
    <3> QED
      BY <3>1, <1>7, Zenon DEF Once
  <2>2. up(c) \in Nat /\ i \in Int /\ j \in Int
    OBVIOUS
  <2> HIDE DEF up
  <2> QED
    BY ONLY <2>1, <2>2
<1>8. Queued(h)
  BY <1>3, QueuedAt, Zenon
<1>9. ASSUME Once(h) PROVE ~Queued(h)'
  <2>1. SUFFICES ASSUME Queued(h)' PROVE FALSE
    BY Zenon
  <2>2. \A c \in Bands : DOMAIN queue'[c] = 1..Len(queue'[c])
    BY <1>5, LenFacts, Zenon
  <2>3. PICK c \in Bands : \E i \in 1..Len(queue'[c]) : queue'[c][i] = h
    BY <2>1, <2>2, Zenon DEF Queued
  <2>4. PICK i \in 1..Len(queue'[c]) : queue'[c][i] = h
    BY <2>3, Zenon
  <2>5. i + up(c) \in 1..Len(queue[c]) /\ queue[c][i + up(c)] = h
    BY <2>4, <1>6, Zenon
  <2>6. c = b /\ i + up(c) = 1
    <3> HIDE DEF up
    <3> QED
      BY <2>5, <1>3, <1>9, Zenon DEF Once
  <2> QED
    BY <2>4, <2>6
<1> QED
  BY <1>5, <1>7, <1>8, <1>9, Zenon

\* A list without duplicates, less one of its members.
LEMMA UnlistedOnce ==
  ASSUME NEW S, NEW l \in Seq(S), NEW t,
         \A i, j \in 1..Len(l) : l[i] = l[j] => i = j
  PROVE  LET r == Unlisted(l, t)
         IN  /\ r \in Seq(S)
             /\ \A i, j \in 1..Len(r) : r[i] = r[j] => i = j
             /\ \A x : Has(r, x) => Has(l, x) /\ x # t
<1> DEFINE r == Unlisted(l, t)
<1>1. /\ r \in Seq(S)
      /\ \/ r = l /\ \A i \in 1..Len(l) : l[i] # t
         \/ \E k \in 1..Len(l) :
                /\ l[k] = t
                /\ Len(r) = Len(l) - 1
                /\ \A i \in 1..(Len(l) - 1) : r[i] = l[IF i < k THEN i ELSE i + 1]
  BY UnlistedFacts
<1> HIDE DEF r
<1>2. CASE r = l /\ \A i \in 1..Len(l) : l[i] # t
  BY <1>1, <1>2, Zenon DEF Has, r
<1>3. CASE \E k \in 1..Len(l) :
                /\ l[k] = t
                /\ Len(r) = Len(l) - 1
                /\ \A i \in 1..(Len(l) - 1) : r[i] = l[IF i < k THEN i ELSE i + 1]
  <2>1. PICK k \in 1..Len(l) :
                /\ l[k] = t
                /\ Len(r) = Len(l) - 1
                /\ \A i \in 1..(Len(l) - 1) : r[i] = l[IF i < k THEN i ELSE i + 1]
    BY <1>3, Zenon
  <2>2. Len(l) \in Nat
    BY LenFacts, Zenon
  <2> DEFINE at(i) == IF i < k THEN i ELSE i + 1
  <2>3. ASSUME NEW i \in 1..Len(r)
        PROVE  at(i) \in 1..Len(l) /\ at(i) # k /\ r[i] = l[at(i)]
    BY <2>1, <2>2
  <2>4. ASSUME NEW i \in 1..Len(r), NEW j \in 1..Len(r), r[i] = r[j] PROVE i = j
    <3>1. at(i) = at(j)
      BY <2>3, <2>4, Zenon
    <3> QED
      BY <3>1, <2>1, <2>2
  <2>5. ASSUME NEW x, Has(r, x) PROVE Has(l, x) /\ x # t
    <3>1. PICK i \in 1..Len(r) : r[i] = x
      BY <2>5, Zenon DEF Has
    <3>2. at(i) \in 1..Len(l) /\ at(i) # k /\ l[at(i)] = x
      BY <3>1, <2>3, Zenon
    <3> HIDE DEF at
    <3> QED
      BY <3>2, <2>1, Zenon DEF Has
  <2> QED
    BY <1>1, <2>4, <2>5, Zenon DEF r
<1> QED
  BY <1>1, <1>2, <1>3, Zenon

\* A list without duplicates, with a new member in front.
LEMMA FrontOnce ==
  ASSUME NEW S, NEW l \in Seq(S), NEW t \in S, ~Has(l, t),
         \A i, j \in 1..Len(l) : l[i] = l[j] => i = j
  PROVE  LET r == <<t>> \o l
         IN  /\ r \in Seq(S)
             /\ \A i, j \in 1..Len(r) : r[i] = r[j] => i = j
             /\ \A x : Has(r, x) => Has(l, x) \/ x = t
<1> DEFINE a == <<t>>
           r == a \o l
<1>1. a \in Seq(S) /\ Len(a) = 1 /\ a[1] = t
  OBVIOUS
<1> HIDE DEF a
<1>2. /\ r \in Seq(S) /\ Len(r) = 1 + Len(l) /\ Len(l) \in Nat
      /\ r[1] = t
      /\ \A i \in 2..(1 + Len(l)) : r[i] = l[i - 1]
  <2>1. /\ r \in Seq(S) /\ Len(r) = Len(a) + Len(l)
        /\ \A i \in 1..(Len(a) + Len(l)) :
              r[i] = IF i <= Len(a) THEN a[i] ELSE l[i - Len(a)]
    BY <1>1, ConcatFacts, Zenon
  <2>2. Len(l) \in Nat
    BY LenFacts, Zenon
  <2> HIDE DEF r
  <2> QED
    BY <1>1, <2>1, <2>2
<1> HIDE DEF r
<1>3. ASSUME NEW i \in 1..Len(r)
      PROVE  \/ i = 1 /\ r[i] = t
             \/ i # 1 /\ i - 1 \in 1..Len(l) /\ r[i] = l[i - 1]
  BY <1>2
<1>4. ASSUME NEW i \in 1..Len(r), NEW j \in 1..Len(r), r[i] = r[j] PROVE i = j
  <2>1. CASE i = 1 /\ j = 1
    BY <2>1, Zenon
  <2>2. CASE i # 1 /\ j # 1
    <3>1. i - 1 = j - 1
      BY <1>3, <1>4, <2>2
    <3> QED
      BY <3>1, <1>2
  <2>3. CASE (i = 1) # (j = 1)
    BY <1>3, <1>4, <2>3 DEF Has
  <2> QED
    BY <2>1, <2>2, <2>3, Zenon
<1>5. ASSUME NEW x, Has(r, x) PROVE Has(l, x) \/ x = t
  BY <1>3, <1>5 DEF Has
<1> QED
  BY <1>2, <1>4, <1>5, Zenon DEF r, a

\* Waiting, with the places counted from 1.
LEMMA WatchedHas ==
  ASSUME selectables \in Seq(Selectables), NEW s
  PROVE  Watched(s) <=> Has(selectables, s)
<1>1. DOMAIN selectables = 1..Len(selectables)
  BY LenFacts, Zenon
<1> QED
  BY <1>1, Zenon DEF Watched, Has

\* When nothing but the executable of a thread or of the executor itself is
\* added, or ends, no timer and no Selectable changes its place.
LEMMA QuietFacts ==
  ASSUME queue \in [Bands -> Seq(Executables)], OnceInv,
         NEW x \in Threads \cup Own,
         queue' = queue \/ queue' = Inserted(queue, x),
         \/ current' = current
         \/ current' = NULL /\ current \notin Timers \cup Selectables
  PROVE  /\ OnceInv'
         /\ \A e \in Timers \cup Selectables :
                (Queued(e)' <=> Queued(e)) /\ (current' = e <=> current = e)
<1>1. x \in Executables /\ x \notin Timers \cup Selectables
      /\ NULL \notin Timers \cup Selectables
  BY ExecutorAssumption, Zenon DEF Executables, Own
<1>2. ASSUME NEW e \in Timers \cup Selectables
      PROVE  (Queued(e)' <=> Queued(e)) /\ (current' = e <=> current = e) /\ Once(e)'
  <2>1. Once(e)
    BY Zenon DEF OnceInv
  <2>2. e # x /\ e # NULL
    BY <1>1, Zenon
  <2>3. (Queued(e)' <=> Queued(e)) /\ Once(e)'
    <3>1. CASE queue' = queue
      BY <3>1, <2>1 DEF Queued, Once
    <3>2. CASE queue' = Inserted(queue, x)
      BY <3>2, <1>1, <2>1, <2>2, AddOnce, Zenon
    <3> QED
      BY <3>1, <3>2, Zenon
  <2> QED
    BY <2>2, <2>3, Zenon
<1>3. OnceInv'
  BY <1>2, Zenon DEF OnceInv
<1> QED
  BY <1>2, <1>3, Zenon

\* Nothing is in the queue or waits at the start.
LEMMA PlaceInit == Init => OnceInv /\ ExpiredInv /\ WatchInv
<1> SUFFICES ASSUME Init PROVE OnceInv /\ ExpiredInv /\ WatchInv
  BY Zenon
<1>1. /\ queue = [b \in Bands |-> <<>>] /\ current = NULL /\ selectables = <<>>
      /\ isExpired = [t \in Timers |-> FALSE] /\ isActive = [t \in Timers |-> FALSE]
  BY Zenon DEF Init
<1>2. \A b \in Bands : Len(queue[b]) = 0 /\ DOMAIN queue[b] = {}
  BY <1>1
<1>3. \A e : Once(e) /\ ~Queued(e)
  BY <1>2 DEF Once, Queued
<1>4. NULL \notin Timers \cup Selectables
  BY ExecutorAssumption, Zenon DEF Executables
<1>5. OnceInv
  BY <1>3, Zenon DEF OnceInv
<1>6. ExpiredInv
  BY <1>1, <1>3, <1>4, Zenon DEF ExpiredInv
<1>7. WatchInv
  BY <1>1 DEF WatchInv, Watched
<1> QED
  BY <1>5, <1>6, <1>7, Zenon

\* A step that moves no timer and no Selectable keeps isExpired_ right when
\* it leaves the flags alone or sets isActive_ of a timer that has not
\* expired,
LEMMA ExpiredKept ==
  ASSUME TypeOK, ExpiredInv, isExpired' = isExpired,
         \A t \in Timers : (Queued(t)' <=> Queued(t)) /\ (current' = t <=> current = t),
         \/ isActive' = isActive
         \/ \E t \in Timers : ~isExpired[t] /\ isActive' = [isActive EXCEPT ![t] = TRUE]
  PROVE  ExpiredInv'
<1>1. isActive \in [Timers -> BOOLEAN]
  BY Zenon DEF TypeOK
<1>2. ASSUME NEW x \in Timers PROVE ~(isActive'[x] /\ isExpired'[x])
  BY <1>1, <1>2, Zenon DEF ExpiredInv
<1>3. ASSUME NEW x \in Timers PROVE isExpired'[x] <=> Queued(x)' \/ current' = x
  BY <1>3, Zenon DEF ExpiredInv
<1> QED
  BY <1>2, <1>3, Zenon DEF ExpiredInv

\* and the list of Selectables when it leaves that alone.
LEMMA WatchKept ==
  ASSUME WatchInv, UNCHANGED <<selectables, selectNFds>>,
         \A s \in Selectables :
            Watched(s) => (Queued(s)' => Queued(s)) /\ (current' = s => current = s)
  PROVE  WatchInv'
<1>1. selectables' = selectables /\ selectNFds' = selectNFds
  BY Zenon
<1>2. \A s : Watched(s)' <=> Watched(s)
  BY <1>1, Zenon DEF Watched
<1>3. ASSUME NEW s \in Selectables, Watched(s)'
      PROVE  Fd[s] < selectNFds' /\ ~Queued(s)' /\ current' # s
  BY <1>1, <1>2, <1>3, Zenon DEF WatchInv
<1>4. \A i, j \in 1..Len(selectables') :
        selectables'[i] = selectables'[j] => i = j
  BY <1>1, Zenon DEF WatchInv
<1> QED
  BY <1>3, <1>4, Zenon DEF WatchInv

\* Taking an executable from the queue.
LEMMA PlaceTake ==
  ASSUME TypeOK, OnceInv, ExpiredInv, WatchInv, ~Empty, Take, current = NULL,
         UNCHANGED <<isExpired, isActive, selectables, selectNFds>>
  PROVE  OnceInv' /\ ExpiredInv' /\ WatchInv'
<1>1. queue \in [Bands -> Seq(Executables)]
  BY Zenon DEF TypeOK
<1>n. NULL \notin Timers \cup Selectables
  BY ExecutorAssumption, Zenon DEF Executables
<1>2. PICK h : h = current'
  BY Zenon
<1>3. /\ \A e : e # h => (Queued(e)' <=> Queued(e))
      /\ \A e : Once(e) => Once(e)'
      /\ Queued(h)
      /\ Once(h) => ~Queued(h)'
  BY <1>1, <1>2, TakeOnce, Zenon
<1>4. ASSUME NEW e \in Timers \cup Selectables
      PROVE  Once(e)' /\ (current' = e => ~Queued(e)')
  BY <1>2, <1>3, Zenon DEF OnceInv
<1>5. OnceInv'
  BY <1>4, Zenon DEF OnceInv
<1>6. ASSUME NEW t \in Timers
      PROVE  (isExpired'[t] <=> Queued(t)' \/ current' = t) /\ ~(isActive'[t] /\ isExpired'[t])
  <2>1. isExpired[t] <=> Queued(t)
    BY <1>n, Zenon DEF ExpiredInv
  <2>2. Queued(t)' \/ current' = t <=> Queued(t)
    BY <1>2, <1>3, Zenon
  <2>3. isExpired' = isExpired /\ isActive' = isActive /\ ~(isActive[t] /\ isExpired[t])
    BY Zenon DEF ExpiredInv
  <2> QED
    BY <2>1, <2>2, <2>3, Zenon
<1>7. ExpiredInv'
  BY <1>6, Zenon DEF ExpiredInv
<1>8. WatchInv'
  <2>1. ASSUME NEW s \in Selectables, Watched(s)
        PROVE  (Queued(s)' => Queued(s)) /\ (current' = s => current = s)
    <3>1. s # h
      BY <1>3, <2>1, Zenon DEF WatchInv
    <3> QED
      BY <3>1, <1>2, <1>3, Zenon
  <2> QED
    BY <2>1, WatchKept, Zenon
<1> QED
  BY <1>5, <1>7, <1>8, Zenon

\* What is left of, or added to, the list of Selectables waits below
\* selectNFds_.
LEMMA SelectFacts ==
  ASSUME TypeOK, WatchInv, NEW s \in Selectables,
         \/ select(s) /\ ~Queued(s)
         \/ unselect(s),
         \A x \in Selectables : Queued(x)' <=> Queued(x),
         current' = NULL
  PROVE  WatchInv'
<1>1. /\ selectables \in Seq(Selectables) /\ selectNFds \in Nat
      /\ \A i, j \in 1..Len(selectables) : selectables[i] = selectables[j] => i = j
  BY Zenon DEF TypeOK, WatchInv
<1>2. \A x \in Selectables : Has(selectables, x) => Fd[x] < selectNFds /\ ~Queued(x)
  BY <1>1, WatchedHas, Zenon DEF WatchInv
<1>n. NULL \notin Selectables /\ \A x \in Selectables : Fd[x] \in Nat
  BY ExecutorAssumption, Zenon DEF Executables
<1> DEFINE l == selectables'
           n == selectNFds'
<1>3. SUFFICES /\ l \in Seq(Selectables)
               /\ \A i, j \in 1..Len(l) : l[i] = l[j] => i = j
               /\ \A x \in Selectables : Has(l, x) => Fd[x] < n /\ ~Queued(x)
  <2>1. ASSUME l \in Seq(Selectables), NEW x PROVE Watched(x)' <=> Has(l, x)
    <3>1. DOMAIN l = 1..Len(l)
      BY <2>1, LenFacts, Zenon
    <3> QED
      BY <3>1, Zenon DEF Watched, Has
  <2> HIDE DEF l, n
  <2>2. WatchInv' <=> /\ \A i, j \in 1..Len(l) : l[i] = l[j] => i = j
                      /\ \A x \in Selectables :
                            Watched(x)' => Fd[x] < n /\ ~Queued(x)' /\ current' # x
    BY Zenon DEF WatchInv, l, n
  <2> QED
    BY <2>1, <2>2, <1>n, Zenon
<1>4. CASE select(s) /\ ~Queued(s)
  <2>1. /\ ~Has(selectables, s) /\ l = <<s>> \o selectables
        /\ n = IF Fd[s] >= selectNFds THEN Fd[s] + 1 ELSE selectNFds
    BY <1>4, <1>1, WatchedHas, Zenon DEF select
  <2>2. /\ l \in Seq(Selectables)
        /\ \A i, j \in 1..Len(l) : l[i] = l[j] => i = j
        /\ \A x : Has(l, x) => Has(selectables, x) \/ x = s
    BY ONLY <1>1, <2>1, s \in Selectables, FrontOnce
  <2> HIDE DEF l, n
  <2>3. Fd[s] < n /\ \A x \in Selectables : Fd[x] < selectNFds => Fd[x] < n
    BY <1>1, <1>n, <2>1
  <2> QED
    BY <2>2, <2>3, <1>2, <1>4, Zenon
<1>5. CASE unselect(s)
  <2>1. l = Unlisted(selectables, s) /\ n = MaxFd(InSeq(selectables) \ {s})
    BY <1>5, Zenon DEF unselect
  <2>2. /\ l \in Seq(Selectables)
        /\ \A i, j \in 1..Len(l) : l[i] = l[j] => i = j
        /\ \A x : Has(l, x) => Has(selectables, x) /\ x # s
    BY ONLY <1>1, <2>1, UnlistedOnce
  <2>3. \A x \in InSeq(selectables) \ {s} : Fd[x] < n
    BY <1>1, <2>1, MaxFdType, Zenon
  <2>4. \A x : Has(selectables, x) => x \in InSeq(selectables)
    BY <1>1, LenFacts, Zenon DEF Has, InSeq
  <2> HIDE DEF l, n
  <2> QED
    BY <2>2, <2>3, <2>4, <1>2, Zenon
<1> QED
  BY <1>4, <1>5, Zenon

\* Every step of the executor, its callers and the world keeps the timers and
\* the Selectables in one place each.
LEMMA PlaceStep ==
  ASSUME TypeOK, ListInv, LoopInv, OnceInv, ExpiredInv, WatchInv, [Next]_vars
  PROVE  OnceInv' /\ ExpiredInv' /\ WatchInv'
<1> DEFINE Goal == OnceInv' /\ ExpiredInv' /\ WatchInv'
           TS == Timers \cup Selectables
           Flags == UNCHANGED <<isExpired, isActive>>
           Waits == UNCHANGED <<selectables, selectNFds>>
<1> SUFFICES Goal
  BY Zenon
<1>q. /\ queue \in [Bands -> Seq(Executables)]
      /\ isActive \in [Timers -> BOOLEAN] /\ isExpired \in [Timers -> BOOLEAN]
      /\ selectables \in Seq(Selectables) /\ selectNFds \in Nat
  BY Zenon DEF TypeOK
<1>o. /\ "active_timers" \in Threads \cup Own /\ "exit" \in Threads \cup Own
      /\ "active_timers" \notin TS /\ "exit" \notin TS
      /\ Threads \cap TS = {} /\ Timers \cap Selectables = {} /\ NULL \notin TS
      /\ TS \subseteq Executables
  BY ExecutorAssumption, Zenon DEF Own, Executables
<1>a. ASSUME NEW x \in Threads \cup Own, queue' = queue \/ queue' = Inserted(queue, x),
             current' = current \/ (current' = NULL /\ current \notin TS),
             isExpired' = isExpired,
             \/ isActive' = isActive
             \/ \E t \in Timers : ~isExpired[t] /\ isActive' = [isActive EXCEPT ![t] = TRUE]
      PROVE  /\ OnceInv' /\ ExpiredInv'
             /\ \A e \in TS : (Queued(e)' <=> Queued(e)) /\ (current' = e <=> current = e)
  <2>1. /\ OnceInv'
        /\ \A e \in TS : (Queued(e)' <=> Queued(e)) /\ (current' = e <=> current = e)
    BY <1>a, <1>q, QuietFacts, Zenon
  <2>2. ExpiredInv'
    BY <1>a, <2>1, ExpiredKept, Zenon
  <2> QED
    BY <2>1, <2>2, Zenon
<1>b. ASSUME NEW x \in Threads \cup Own, queue' = queue \/ queue' = Inserted(queue, x),
             current' = current \/ (current' = NULL /\ current \notin TS),
             isExpired' = isExpired, Waits,
             \/ isActive' = isActive
             \/ \E t \in Timers : ~isExpired[t] /\ isActive' = [isActive EXCEPT ![t] = TRUE]
      PROVE  Goal
  <2>1. /\ OnceInv' /\ ExpiredInv'
        /\ \A e \in TS : (Queued(e)' <=> Queued(e)) /\ (current' = e <=> current = e)
    BY <1>a, <1>b, Zenon
  <2>2. WatchInv'
    BY <1>b, <2>1, WatchKept, Zenon
  <2> QED
    BY <2>1, <2>2, Zenon
<1>s. ASSUME queue' = queue, current' = current, Flags, Waits PROVE Goal
  BY <1>b, <1>o, <1>s, Zenon
<1>1. CASE next
  <2>1. Flags /\ Waits /\ current = NULL
    BY <1>1, Zenon DEF next, files, timers, LoopInv
  <2>2. \/ queue' = queue /\ current' = current
        \/ ~Empty /\ Take
    BY <1>1, Zenon DEF next
  <2> QED
    BY <2>1, <2>2, <1>s, PlaceTake, Zenon
<1>2. CASE \/ lock_timers \/ get_next_timeout \/ clear_wakeup \/ check_empty
           \/ select_enter \/ pselect \/ select_leave \/ tick \/ UNCHANGED vars
  <2>1. queue' = queue /\ current' = current /\ Flags /\ Waits
    BY <1>2, Zenon
    DEF lock_timers, get_next_timeout, clear_wakeup, check_empty, select_enter,
        pselect, select_leave, tick, vars, loop, files, timers
  <2> QED
    BY <2>1, <1>s, Zenon
<1>3. CASE scan_done
  <2>1. /\ queue' = queue /\ current' = current /\ Flags
        /\ selectables' = selectables /\ selectNFds' = MaxFd(InSeq(selectables))
    BY <1>3, Zenon DEF scan_done, timers
  <2>2. /\ OnceInv' /\ ExpiredInv'
        /\ \A e \in TS : (Queued(e)' <=> Queued(e)) /\ (current' = e <=> current = e)
    BY <2>1, <1>a, <1>o, Zenon
  <2>3. \A s \in InSeq(selectables) : Fd[s] < selectNFds'
    BY <2>1, <1>q, MaxFdType, Zenon
  <2>4. \A s : Watched(s)' => s \in InSeq(selectables) /\ Watched(s)
    BY <2>1, Zenon DEF Watched, InSeq
  <2>5. WatchInv'
    <3>1. ASSUME NEW s \in Selectables, Watched(s)'
          PROVE  Fd[s] < selectNFds' /\ ~Queued(s)' /\ current' # s
      BY <3>1, <2>2, <2>3, <2>4, Zenon DEF WatchInv
    <3>2. \A i, j \in 1..Len(selectables') :
              selectables'[i] = selectables'[j] => i = j
      BY <2>1, Zenon DEF WatchInv
    <3> QED
      BY <3>1, <3>2, Zenon DEF WatchInv
  <2> QED
    BY <2>2, <2>5, Zenon
<1>4. CASE next_again
  <2>1. Flags /\ Waits /\ current = NULL
    BY <1>4, Zenon DEF next_again, files, timers, LoopInv
  <2>2. \/ queue' = queue /\ current' = current
        \/ ~Empty /\ Take
    BY <1>4, Zenon DEF next_again
  <2> QED
    BY <2>1, <2>2, <1>s, PlaceTake, Zenon
<1>5. CASE ActiveTimers_run
  <2>1. /\ queue' = queue /\ current' = NULL /\ current = "active_timers" /\ Flags /\ Waits
    BY <1>5, Zenon DEF ActiveTimers_run, Returns, files
  <2> QED
    BY <2>1, <1>b, <1>o, Zenon
<1>6. ASSUME NEW t \in Timers, expire(t) PROVE Goal
  <2>1. /\ active # <<>> /\ t = Head(active)
        /\ isActive' = [isActive EXCEPT ![t] = FALSE]
        /\ isExpired' = [isExpired EXCEPT ![t] = TRUE]
        /\ queue' = Inserted(queue, t) /\ current' = current /\ Waits /\ current = NULL
    BY <1>6, Zenon DEF expire, AddHere, files, LoopInv
  <2>2. isActive[t]
    <3>1. 1 \in 1..Len(active) /\ active[1] = t
      BY <2>1 DEF TypeOK
    <3> QED
      BY <3>1, Zenon DEF ListInv, Listed
  <2>3. ~Queued(t)
    BY <2>2, Zenon DEF ExpiredInv
  <2>4. t \in Executables /\ current # t /\ t \notin Selectables
    BY <2>1, <1>o, Zenon
  <2>5. /\ \A e : e # t => (Queued(e)' <=> Queued(e))
        /\ \A e : e # t /\ Once(e) => Once(e)'
        /\ Once(t)'
    BY <2>1, <2>3, <2>4, <1>q, AddOnce, Zenon
  <2>6. Queued(t)'
    BY <2>1, <2>4, <1>q, AddFacts, Zenon
  <2>7. OnceInv'
    <3>1. ASSUME NEW e \in TS PROVE Once(e)' /\ current' # e
      BY <2>1, <2>5, <1>o, Zenon DEF OnceInv
    <3> QED
      BY <3>1, Zenon DEF OnceInv
  <2>8. ExpiredInv'
    <3>1. ASSUME NEW x \in Timers, x # t
          PROVE  (isExpired'[x] <=> Queued(x)' \/ current' = x) /\ ~(isActive'[x] /\ isExpired'[x])
      <4>1. isExpired'[x] = isExpired[x] /\ isActive'[x] = isActive[x]
        BY <3>1, <2>1, <1>q, Zenon
      <4> QED
        BY <4>1, <3>1, <2>1, <2>5, Zenon DEF ExpiredInv
    <3>2. isExpired'[t] /\ ~isActive'[t]
      BY <2>1, <1>q, Zenon
    <3> QED
      BY <3>1, <3>2, <2>6, Zenon DEF ExpiredInv
  <2>9. WatchInv'
    BY <2>1, <2>4, <2>5, WatchKept, Zenon
  <2> QED
    BY <2>7, <2>8, <2>9, Zenon
<1>7. ASSUME NEW t \in Timers, NEW w, ScheduleHere(t, w)
      PROVE  /\ \/ queue' = queue
                \/ queue' = Inserted(queue, "active_timers")
             /\ isActive' = [isActive EXCEPT ![t] = TRUE]
  BY <1>7, Zenon DEF ScheduleHere, NotifyHere, AddHere
<1>8. ASSUME NEW t \in Timers, Timer_run(t) PROVE Goal
  <2>1. /\ current = t /\ current' = NULL /\ Waits
        /\ isExpired' = [isExpired EXCEPT ![t] = FALSE]
        /\ queue' = queue \/ queue' = Inserted(queue, "active_timers")
        /\ isActive' = isActive \/ isActive' = [isActive EXCEPT ![t] = TRUE]
    BY <1>7, <1>8, Zenon DEF Timer_run, Returns, files
  <2>2. "active_timers" \in Executables /\ "active_timers" \notin TS
    BY <1>o, Zenon DEF Executables, Own
  <2>3. ASSUME NEW e \in TS PROVE (Queued(e)' <=> Queued(e)) /\ Once(e)'
    <3>1. Once(e) /\ e # "active_timers"
      BY <1>o, Zenon DEF OnceInv
    <3>2. CASE queue' = queue
      BY <3>1, <3>2 DEF Queued, Once
    <3>3. CASE queue' = Inserted(queue, "active_timers")
      BY <3>1, <3>3, <2>2, <1>q, AddOnce, Zenon
    <3> QED
      BY <2>1, <3>2, <3>3, Zenon
  <2>4. OnceInv'
    BY <2>1, <2>3, <1>o, Zenon DEF OnceInv
  <2>5. ExpiredInv'
    <3>1. ASSUME NEW x \in Timers, x # t
          PROVE  (isExpired'[x] <=> Queued(x)' \/ current' = x) /\ ~(isActive'[x] /\ isExpired'[x])
      <4>1. isExpired'[x] = isExpired[x] /\ isActive'[x] = isActive[x]
        BY <3>1, <2>1, <1>q, Zenon
      <4>2. current # x /\ current' # x
        BY <3>1, <2>1, <1>o, Zenon
      <4> QED
        BY <4>1, <4>2, <2>3, Zenon DEF ExpiredInv
    <3>2. ~isExpired'[t] /\ current' # t
      BY <2>1, <1>q, <1>o, Zenon
    <3>3. ~Queued(t)'
      BY <2>1, <2>3, Zenon DEF OnceInv
    <3> QED
      BY <3>1, <3>2, <3>3, Zenon DEF ExpiredInv
  <2>6. WatchInv'
    BY <2>1, <2>3, <1>o, WatchKept, Zenon
  <2> QED
    BY <2>4, <2>5, <2>6
<1>9. ASSUME NEW p \in Threads, flow_run(p) PROVE Goal
  <2>1. current = p /\ current' = NULL /\ p \in Threads \cup Own /\ current \notin TS
    BY <1>9, <1>o, Zenon DEF flow_run, Returns
  <2>2. CASE UNCHANGED <<queue, pendingWakeup, files, timers>>
    BY <2>1, <2>2, <1>b, Zenon DEF files, timers
  <2>3. CASE AddHere(p) /\ UNCHANGED <<files, timers>>
    BY <2>1, <2>3, <1>b, Zenon DEF files, timers, AddHere
  <2>4. ASSUME NEW t \in Timers, timer_call(t) PROVE Goal
    <3>1. ~isExpired[t] /\ isExpired' = isExpired /\ Waits /\ \E w : ScheduleHere(t, w)
      BY <2>4, Zenon DEF timer_call, files
    <3>2. /\ queue' = queue \/ queue' = Inserted(queue, "active_timers")
          /\ isActive' = [isActive EXCEPT ![t] = TRUE]
      BY <3>1, <1>7, Zenon
    <3> QED
      BY <2>1, <3>1, <3>2, <1>b, <1>o, Zenon
  <2>5. ASSUME NEW s \in Selectables, (Free(s) /\ select(s)) \/ unselect(s),
               UNCHANGED <<queue, pendingWakeup, readable, timers>>
        PROVE  Goal
    <3>1. /\ OnceInv' /\ ExpiredInv'
          /\ \A e \in TS : (Queued(e)' <=> Queued(e)) /\ (current' = e <=> current = e)
      BY <2>1, <2>5, <1>a, Zenon DEF timers
    <3>2. WatchInv'
      BY <2>1, <2>5, <3>1, SelectFacts, Zenon DEF Free
    <3> QED
      BY <3>1, <3>2, Zenon
  <2> QED
    BY <1>9, <2>2, <2>3, <2>4, <2>5, Zenon DEF flow_run
<1>10. ASSUME NEW s \in Selectables, scan(s) PROVE Goal
  <2>1. /\ \E i \in 1..Len(selectables) : selectables[i] = s
        /\ queue' = Inserted(queue, s) /\ current' = current /\ current = NULL /\ Flags
        /\ selectables' = Unlisted(selectables, s) /\ selectNFds' = selectNFds
    BY <1>10, Zenon DEF scan, AddHere, timers, LoopInv
  <2>2. Has(selectables, s) /\ ~Queued(s)
    BY <2>1, <1>q, WatchedHas, Zenon DEF WatchInv, Has
  <2>3. s \in Executables /\ s \notin Timers /\ NULL # s
    BY <1>o, Zenon
  <2>4. /\ \A e : e # s => (Queued(e)' <=> Queued(e))
        /\ \A e : e # s /\ Once(e) => Once(e)'
        /\ Once(s)'
    BY <2>1, <2>2, <2>3, <1>q, AddOnce, Zenon
  <2>5. OnceInv'
    <3>1. ASSUME NEW e \in TS PROVE Once(e)' /\ current' # e
      BY <2>1, <2>4, <1>o, Zenon DEF OnceInv
    <3> QED
      BY <3>1, Zenon DEF OnceInv
  <2>6. ExpiredInv'
    BY <2>1, <2>3, <2>4, ExpiredKept, Zenon
  <2>7. /\ selectables' \in Seq(Selectables)
        /\ \A i, j \in 1..Len(selectables') : selectables'[i] = selectables'[j] => i = j
        /\ \A x : Has(selectables', x) => Has(selectables, x) /\ x # s
    <3>1. \A i, j \in 1..Len(selectables) :
            selectables[i] = selectables[j] => i = j
      BY Zenon DEF WatchInv
    <3> QED
      BY ONLY <3>1, <2>1, <1>q, UnlistedOnce
  <2>8. \A x : Watched(x)' => Watched(x) /\ x # s
    <3>1. DOMAIN selectables' = 1..Len(selectables')
      BY <2>7, LenFacts, Zenon
    <3>2. \A x : Watched(x)' => Has(selectables', x)
      BY <3>1, Zenon DEF Watched, Has
    <3> QED
      BY <3>2, <2>7, <1>q, WatchedHas, Zenon
  <2>9. WatchInv'
    <3>1. ASSUME NEW x \in Selectables, Watched(x)'
          PROVE  Fd[x] < selectNFds' /\ ~Queued(x)' /\ current' # x
      BY <3>1, <2>1, <2>4, <2>8, Zenon DEF WatchInv
    <3> QED
      BY <3>1, <2>7, Zenon DEF WatchInv
  <2> QED
    BY <2>5, <2>6, <2>9
<1>11. ASSUME NEW s \in Selectables, selectable_run(s) PROVE Goal
  <2>1. /\ current = s /\ current' = NULL /\ queue' = queue /\ Flags
        /\ Waits \/ select(s)
    BY <1>11, Zenon DEF selectable_run, Returns, timers
  <2>2. ~Queued(s) /\ s \notin Timers
    BY <2>1, <1>o, Zenon DEF OnceInv
  <2>3. \A e : (Queued(e)' <=> Queued(e)) /\ (Once(e)' <=> Once(e))
    BY <2>1 DEF Queued, Once
  <2>4. OnceInv'
    BY <2>1, <2>3, <1>o, Zenon DEF OnceInv
  <2>5. ExpiredInv'
    <3>1. \A t \in Timers : current' # t /\ current # t
      BY <2>1, <2>2, <1>o, Zenon
    <3> QED
      BY <2>1, <2>3, <3>1, ExpiredKept, Zenon
  <2>6. WatchInv'
    <3>1. CASE Waits
      BY <2>1, <2>3, <3>1, <1>o, WatchKept, Zenon
    <3>2. CASE select(s)
      BY <2>1, <2>2, <2>3, <3>2, SelectFacts, Zenon
    <3> QED
      BY <2>1, <3>1, <3>2, Zenon
  <2> QED
    BY <2>4, <2>5, <2>6
<1>12. ASSUME NEW s \in Selectables, arrive(s) PROVE Goal
  BY <1>12, <1>s, Zenon DEF arrive, loop, timers
<1>13. ASSUME NEW p \in Threads, add(p) PROVE Goal
  <2>1. PICK e \in {p, "exit"} : queue' = Inserted(queue, e)
    BY <1>13, Zenon DEF add
  <2>2. e \in Threads \cup Own
    BY <1>o, Zenon
  <2>3. current' = current /\ Flags /\ Waits
    BY <1>13, Zenon DEF add, loop, files, timers
  <2> QED
    BY <2>1, <2>2, <2>3, <1>b, Zenon
<1>14. ASSUME NEW p \in Threads, Call(p) PROVE Goal
  <2>1. /\ queue' = queue \/ queue' = Inserted(queue, "active_timers")
        /\ current' = current /\ Flags /\ Waits
    BY <1>14, Zenon DEF Call, notify, wakeup, pthread_kill, loop, files, timers
  <2> QED
    BY <2>1, <1>b, <1>o, Zenon
<1>15. ASSUME NEW p \in Threads, NEW t \in Timers, start(p, t) PROVE Goal
  <2>1. /\ queue' = queue /\ current' = current /\ Waits /\ isExpired' = isExpired
        /\ ~isExpired[t] /\ isActive' = [isActive EXCEPT ![t] = TRUE]
    BY <1>15, Zenon DEF start, loop, files
  <2> QED
    BY <2>1, <1>b, <1>o, Zenon
<1> HIDE DEF Goal
<1>16. CASE Loop
  BY <1>16, <1>1, <1>2, <1>3, <1>4, <1>5, <1>6, <1>8, <1>9, <1>10, <1>11, Zenon
  DEF Loop
<1>17. CASE ~Loop
  BY <1>17, <1>2, <1>12, <1>13, <1>14, <1>15, Zenon DEF Next
<1> QED
  BY <1>16, <1>17, Zenon

\* The inductive invariant.
ExecutorInv ==
    /\ TypeOK /\ ListInv /\ LoopInv /\ PendInv /\ WakeInv /\ SleepInv
    /\ OnceInv /\ ExpiredInv /\ WatchInv

\* It holds initially and every step of the executor, its callers and the
\* world preserves it.
THEOREM ExecutorInvariant == Spec => []ExecutorInv
<1>1. Init => ExecutorInv
  BY TypeInit, ListInit, LoopInit, PlaceInit, Zenon DEF ExecutorInv
<1>2. ExecutorInv /\ [Next]_vars => ExecutorInv'
  BY TypeStep, ListStep, LoopStep, PendStep, WakeStep, SleepStep, PlaceStep,
     Zenon
  DEF ExecutorInv
<1> QED
  BY <1>1, <1>2, PTL DEF Spec

\* No wakeup is lost, whatever the number of threads that call add() and
\* however their steps fall between those of wait_with_select() and select().
THEOREM ExecutorNoLostWakeup == Spec => []NoLostWakeup
<1>1. ExecutorInv => NoLostWakeup
  BY Zenon DEF ExecutorInv, WakeInv
<1> QED
  BY <1>1, ExecutorInvariant, PTL

\* No timer is slept over: not one that was in the list when
\* get_next_timeout() looked, and not one that was started since.
THEOREM ExecutorNoOverslept == Spec => []NoOverslept
<1>1. ExecutorInv => NoOverslept
  BY Zenon DEF ExecutorInv, SleepInv
<1> QED
  BY <1>1, ExecutorInvariant, PTL

\* isActive_ and isExpired_ tell where each timer is, whatever calls of
\* start(), restart() and trigger() meet the loop of get_next_timeout(), and
\* that loop finds the timers in the order they expire.
THEOREM ExecutorTimersListed == Spec => []TimersListed
<1>1. ASSUME ExecutorInv PROVE TimersListed
  <2>1. active \in Seq(Timers) /\ Sorted(active) /\ Listed /\ ExpiredInv
    BY <1>1, Zenon DEF ExecutorInv, TypeOK, ListInv
  <2>2. DOMAIN active = 1..Len(active)
    BY <2>1, LenFacts, Zenon
  <2>3. \A t \in Timers : isActive[t] <=> \E i \in DOMAIN active : active[i] = t
    BY <2>1, <2>2, Zenon DEF Listed
  <2>4. \A i, j \in DOMAIN active :
            i < j => active[i] # active[j] /\ when[active[i]] <= when[active[j]]
    BY <2>1, <2>2, Zenon DEF Sorted
  <2> QED
    BY <2>1, <2>3, <2>4, Zenon DEF TimersListed, ExpiredInv
<1> QED
  BY <1>1, ExecutorInvariant, PTL

\* pselect() looks at every descriptor a Selectable waits for, and none of
\* them has its executable in the queue at the same time, however select(),
\* unselect() and the loop over selectables_ alternate.
THEOREM ExecutorAllWatched == Spec => []AllWatched
<1>1. ExecutorInv => AllWatched
  BY Zenon DEF ExecutorInv, WatchInv, AllWatched
<1> QED
  BY <1>1, ExecutorInvariant, PTL
=============================================================================
