-------------------------- MODULE AliasCacheProofs --------------------------
(***************************************************************************)
(* Proofs about AliasCache for every pool size and every set of node IDs   *)
(* and aliases.                                                            *)
(***************************************************************************)
EXTENDS AliasCache, FiniteSetTheorems, TLAPS

\* The pool outside of any call, and the pool in the middle of add, when slot
\* s is off the free list and not yet in use.
Lists(c, out, n, q, m, f) ==
  /\ n \in Nat /\ m \in Nat
  /\ q \in [1 .. n -> Slots]
  /\ f \in [1 .. m -> Slots]
  /\ SharedOut(c, out, n, q, m, f)

Good(c) == 
  c \in Caches /\ KeysConsistent(c) /\ \E n, q, m, f : Lists(c, {}, n, q, m, f)

Open(c, s) ==
  /\ c \in Caches /\ KeysConsistent(c)
  /\ s \in Slots \ c.aliasMap
  /\ \E n, q, m, f : Lists(c, {s}, n, q, m, f)

\* A list without repetitions is no longer than the pool.
LEMMA Pigeonhole ==
  ASSUME NEW n \in Nat, NEW q \in [1 .. n -> Slots],
         \A i, j \in 1 .. n : q[i] = q[j] => i = j
  PROVE  n <= Entries
<1>1. q \in Injection(1 .. n, Slots)
  BY Zenon DEF Injection, IsInjective
<1>2. IsFiniteSet(Slots) /\ Cardinality(Slots) = Entries
  BY FS_Interval, EntriesAssumption DEF Slots
<1>3. Cardinality(1 .. n) = n
  BY FS_Interval
<1> QED BY <1>1, <1>2, <1>3, FS_Injection

\* Good says of a cache what the runs check.
LEMMA GoodConsistent ==
  ASSUME NEW c, Good(c) PROVE KeysConsistent(c) /\ ListsConsistent(c)
<1>1. PICK n, q, m, f : Lists(c, {}, n, q, m, f)
  BY Zenon DEF Good
<1>2. n \in 0 .. Entries /\ m \in 0 .. Entries
  BY <1>1, Pigeonhole, EntriesAssumption DEF Lists, SharedOut, LruListed, Listed
<1> QED BY <1>1, <1>2, Zenon DEF Lists, ListsConsistent, Good

\* A find that found something returns an element it found.
LEMMA TheFound == ASSUME NEW S, S # {} PROVE The(S) \in S
BY Zenon DEF The

\* clear() leaves an empty table whatever it starts from.
LEMMA ClearGood ==
  ASSUME NEW c \in Caches
  PROVE  Good(clear(c)) /\ clear(c).aliasMap = {}
<1> DEFINE d == clear(c)
           q == [i \in 1 .. 0 |-> 0]
           f == [i \in 1 .. Entries |-> i - 1]
<1>1. d \in Caches /\ d.aliasMap = {} /\ d.idMap = {} /\ d.newest = NONE_ENTRY
      /\ d.oldest = NONE_ENTRY /\ d.freeList = Entries - 1
      /\ d.older = [s \in Slots |-> IF s = 0 THEN NONE_ENTRY ELSE s - 1]
  <2>1. 0 \in Slots /\ Entries - 1 \in PoolIdx /\ NONE_ENTRY \in PoolIdx
        /\ \A s \in Slots : s # 0 => s - 1 \in PoolIdx
    BY EntriesAssumption DEF PoolIdx, Slots, NONE_ENTRY
  <2>2. [s \in Slots |-> IF s = 0 THEN NONE_ENTRY ELSE s - 1] \in [Slots -> PoolIdx]
    BY <2>1, Zenon
  <2>3. [s \in Slots |-> NONE_ENTRY] \in [Slots -> PoolIdx]
    BY <2>1, Zenon
  <2> QED BY <2>1, <2>2, <2>3, Zenon DEF clear, Caches
<1>2. KeysConsistent(d)
  BY <1>1, Zenon DEF KeysConsistent
<1>3. Lists(d, {}, 0, q, Entries, f)
  <2>1. f \in [1 .. Entries -> Slots] /\ q \in [1 .. 0 -> Slots]
    BY EntriesAssumption DEF Slots
  <2>2. LruListed(d, 0, q)
    BY <1>1 DEF LruListed, Listed
  <2>3. Listed(d, Entries, f, d.freeList)
    BY <1>1, <2>1, EntriesAssumption DEF Listed, Slots
  <2>4. d.aliasMap = {q[i] : i \in 1 .. 0}
    BY <1>1
  <2>5. Slots \ (d.aliasMap \cup {}) = {f[i] : i \in 1 .. Entries}
    <3>1. ASSUME NEW s \in Slots PROVE s + 1 \in 1 .. Entries /\ f[s + 1] = s
      BY EntriesAssumption DEF Slots
    <3>2. \A i \in 1 .. Entries : f[i] \in Slots
      BY <2>1, Zenon
    <3> HIDE DEF d, f
    <3> QED BY <3>1, <3>2, <1>1
  <2> QED BY <2>1, <2>2, <2>3, <2>4, <2>5, EntriesAssumption, Zenon DEF Lists, SharedOut
<1> QED BY <1>1, <1>2, <1>3, Zenon DEF Good

\* The lemmas below follow the two lists through an operation.  Without(q, k)
\* is a list with its k-th slot taken out, Extend(q, n, s) one with s put at
\* its newer end.
Without(q, n, k) == [i \in 1 .. n - 1 |-> IF i < k THEN q[i] ELSE q[i + 1]]
Extend(q, n, s) == [i \in 1 .. n + 1 |-> IF i <= n THEN q[i] ELSE s]

LEMMA WithoutList ==
  ASSUME NEW n \in Nat, NEW q \in [1 .. n -> Slots], NEW k \in 1 .. n,
         \A i, j \in 1 .. n : q[i] = q[j] => i = j
  PROVE  /\ Without(q, n, k) \in [1 .. n - 1 -> Slots]
         /\ {Without(q, n, k)[i] : i \in 1 .. n - 1} = {q[i] : i \in 1 .. n} \ {q[k]}
         /\ \A i, j \in 1 .. n - 1 : Without(q, n, k)[i] = Without(q, n, k)[j] => i = j
<1> DEFINE w == Without(q, n, k)
<1>1. \A i \in 1 .. n - 1 : w[i] = IF i < k THEN q[i] ELSE q[i + 1]
  BY Zenon DEF Without
<1>2. w \in [1 .. n - 1 -> Slots]
  BY DEF Without
<1>3. \A i, j \in 1 .. n - 1 : w[i] = w[j] => i = j
  BY <1>1
<1>4. ASSUME NEW i \in 1 .. n - 1
      PROVE  w[i] \in {q[j] : j \in 1 .. n} \ {q[k]}
  BY <1>1
<1>5. ASSUME NEW i \in 1 .. n, q[i] # q[k]
      PROVE  \E j \in 1 .. n - 1 : w[j] = q[i]
  <2>1. CASE i < k
    BY <1>1, <2>1
  <2>2. CASE i > k
    <3>1. i - 1 \in 1 .. n - 1 /\ w[i - 1] = q[i]
      BY <1>1, <2>2
    <3> QED BY <3>1, Zenon
  <2> QED BY <1>5, <2>1, <2>2
<1> HIDE DEF w
<1>6. {w[i] : i \in 1 .. n - 1} = {q[i] : i \in 1 .. n} \ {q[k]}
  BY <1>4, <1>5
<1> QED BY <1>2, <1>3, <1>6, Zenon DEF w

LEMMA ExtendList ==
  ASSUME NEW n \in Nat, NEW q \in [1 .. n -> Slots], NEW s \in Slots,
         \A i, j \in 1 .. n : q[i] = q[j] => i = j,
         \A i \in 1 .. n : q[i] # s
  PROVE  /\ Extend(q, n, s) \in [1 .. n + 1 -> Slots]
         /\ {Extend(q, n, s)[i] : i \in 1 .. n + 1} = {q[i] : i \in 1 .. n} \cup {s}
         /\ \A i, j \in 1 .. n + 1 : Extend(q, n, s)[i] = Extend(q, n, s)[j] => i = j
<1> DEFINE w == Extend(q, n, s)
<1>1. \A i \in 1 .. n + 1 : w[i] = IF i <= n THEN q[i] ELSE s
  BY Zenon DEF Extend
<1>2. w \in [1 .. n + 1 -> Slots]
  BY DEF Extend
<1>3. \A i, j \in 1 .. n + 1 : w[i] = w[j] => i = j
  BY <1>1
<1>4. (\A i \in 1 .. n : i \in 1 .. n + 1 /\ w[i] = q[i]) /\ n + 1 \in 1 .. n + 1 /\ w[n + 1] = s
  BY <1>1
<1>5. \A i \in 1 .. n + 1 : i \in 1 .. n \/ i = n + 1
  OBVIOUS
<1> HIDE DEF w
<1>6. {w[i] : i \in 1 .. n + 1} = {q[i] : i \in 1 .. n} \cup {s}
  BY <1>4, <1>5
<1> QED BY <1>2, <1>3, <1>6, Zenon DEF w

\* In a good cache a key leads to the slot that holds it.
LEMMA FindSlot ==
  ASSUME NEW c, c \in Caches, KeysConsistent(c), NEW s \in c.aliasMap
  PROVE  /\ WithId(c, c.nodeId[s]) = {s} /\ The(WithId(c, c.nodeId[s])) = s
         /\ WithAlias(c, c.alias[s]) = {s} /\ The(WithAlias(c, c.alias[s])) = s
<1>1. WithId(c, c.nodeId[s]) = {s}
  BY Zenon DEF WithId, KeysConsistent
<1>2. WithAlias(c, c.alias[s]) = {s}
  BY Zenon DEF WithAlias, KeysConsistent
<1> QED BY <1>1, <1>2, TheFound

\* remove() keeps the pool consistent and takes exactly one mapping away.
LEMMA RemoveGood ==
  ASSUME NEW c, Good(c), NEW s \in c.aliasMap
  PROVE  /\ Good(remove(c, s))
         /\ remove(c, s).aliasMap = c.aliasMap \ {s}
         /\ remove(c, s).alias = c.alias
         /\ \A t \in Slots \ {s} : remove(c, s).nodeId[t] = c.nodeId[t]
<1>1. PICK n, q, m, f : Lists(c, {}, n, q, m, f)
  BY Zenon DEF Good
<1>2. PICK k \in 1 .. n : s = q[k]
  BY <1>1, Zenon DEF Lists, SharedOut
<1> DEFINE d == remove(c, s)
           newer == IF k = n THEN NONE_ENTRY ELSE q[k + 1]
           older == IF k = 1 THEN NONE_ENTRY ELSE q[k - 1]
           w == Without(q, n, k)
           g == Extend(f, m, s)
<1>3. /\ c.newer[s] = newer /\ c.older[s] = older
      /\ newer \in PoolIdx /\ older \in PoolIdx /\ s \in Slots
      /\ c \in Caches /\ KeysConsistent(c)
      /\ n \in Nat /\ m \in Nat /\ q \in [1 .. n -> Slots] /\ f \in [1 .. m -> Slots]
  BY <1>1, <1>2, SMTT(40) DEF Good, Lists, SharedOut, LruListed, Listed, PoolIdx
<1>4. /\ d.nodeId = [c.nodeId EXCEPT ![s] = 0]
      /\ d.alias = c.alias
      /\ d.newer = [t \in Slots |-> IF t = older THEN newer ELSE c.newer[t]]
      /\ d.older = [t \in Slots |-> IF t = s THEN c.freeList
                                    ELSE IF t = newer THEN older ELSE c.older[t]]
      /\ d.aliasMap = c.aliasMap \ {s}
      /\ d.idMap = c.aliasMap \ {s}
      /\ d.freeList = s
      /\ d.oldest = IF s = c.oldest THEN newer ELSE c.oldest
      /\ d.newest = IF s = c.newest THEN older ELSE c.newest
      /\ d \in Caches
  BY <1>3, FindSlot, SMTT(40) DEF remove, Caches, PoolIdx, KeysConsistent
<1>5. KeysConsistent(d)
  BY <1>3, <1>4, SMTT(30) DEF KeysConsistent, Caches
<1>6. \A i, j \in 1 .. n : q[i] = q[j] => i = j
  BY <1>1, Zenon DEF Lists, SharedOut, LruListed, Listed
<1>7. \A i, j \in 1 .. m : f[i] = f[j] => i = j
  BY <1>1, Zenon DEF Lists, SharedOut, Listed
<1>8. c.aliasMap = {q[i] : i \in 1 .. n} /\ Slots \ c.aliasMap = {f[i] : i \in 1 .. m}
  BY <1>1, Zenon DEF Lists, SharedOut
<1>9. \A i \in 1 .. m : f[i] # s
  BY <1>8, Zenon
<1>10. /\ c.newest = q[n] /\ c.oldest = q[1]
       /\ \A i \in 1 .. n : c.older[q[i]] = IF i = 1 THEN NONE_ENTRY ELSE q[i - 1]
       /\ \A i \in 1 .. n : c.newer[q[i]] = IF i = n THEN NONE_ENTRY ELSE q[i + 1]
  BY <1>1, <1>2 DEF Lists, SharedOut, LruListed, Listed
<1>11. /\ c.freeList = IF m = 0 THEN NONE_ENTRY ELSE f[m]
       /\ \A i \in 1 .. m : c.older[f[i]] = IF i = 1 THEN NONE_ENTRY ELSE f[i - 1]
  BY <1>1, Zenon DEF Lists, SharedOut, Listed
<1>12. /\ n \in Nat /\ m \in Nat /\ q \in [1 .. n -> Slots] /\ f \in [1 .. m -> Slots]
       /\ s \in Slots /\ NONE_ENTRY \notin Slots
  BY <1>3, EntriesAssumption DEF NONE_ENTRY, Slots
<1>13. /\ w \in [1 .. n - 1 -> Slots]
       /\ {w[i] : i \in 1 .. n - 1} = {q[i] : i \in 1 .. n} \ {q[k]}
       /\ \A i, j \in 1 .. n - 1 : w[i] = w[j] => i = j
  BY <1>12, <1>6, WithoutList, Zenon
<1>14. /\ g \in [1 .. m + 1 -> Slots]
       /\ {g[i] : i \in 1 .. m + 1} = {f[i] : i \in 1 .. m} \cup {s}
       /\ \A i, j \in 1 .. m + 1 : g[i] = g[j] => i = j
  BY <1>12, <1>7, <1>9, ExtendList
<1>15. /\ \A i \in 1 .. n - 1 : w[i] = IF i < k THEN q[i] ELSE q[i + 1]
       /\ \A i \in 1 .. m + 1 : g[i] = IF i <= m THEN f[i] ELSE s
  BY <1>12, Zenon DEF Without, Extend
<1> HIDE DEF d, w, g
<1>16. LruListed(d, n - 1, w)
  <2>1. d.newest = IF n - 1 = 0 THEN NONE_ENTRY ELSE w[n - 1]
    BY <1>2, <1>12, <1>4, <1>6, <1>15, <1>10
  <2>2. d.oldest = IF n - 1 = 0 THEN NONE_ENTRY ELSE w[1]
    BY <1>2, <1>12, <1>4, <1>6, <1>15, <1>10
  <2>3. ASSUME NEW i \in 1 .. n - 1
        PROVE  d.older[w[i]] = IF i = 1 THEN NONE_ENTRY ELSE w[i - 1]
    <3>1. w[i] # s /\ w[i] \in Slots
      BY <1>2, <1>12, <1>6, <1>13, <1>15
    <3>2. CASE i < k
      BY <1>2, <1>12, <1>4, <1>6, <1>15, <1>10, <3>1, <3>2, SMTT(40)
    <3>3. CASE i = k
      BY <1>2, <1>12, <1>4, <1>6, <1>15, <1>10, <3>1, <3>3
    <3>4. CASE i > k
      BY <1>2, <1>12, <1>4, <1>6, <1>15, <1>10, <3>1, <3>4
    <3> QED BY <3>2, <3>3, <3>4
  <2>4. ASSUME NEW i \in 1 .. n - 1
        PROVE  d.newer[w[i]] = IF i = n - 1 THEN NONE_ENTRY ELSE w[i + 1]
    <3>1. w[i] \in Slots
      BY <1>13, Zenon
    <3>2. CASE i < k - 1
      BY <1>2, <1>12, <1>4, <1>6, <1>15, <1>10, <3>1, <3>2
    <3>3. CASE i = k - 1
      BY <1>2, <1>12, <1>4, <1>6, <1>15, <1>10, <3>1, <3>3
    <3>4. CASE i > k - 1
      BY <1>2, <1>12, <1>4, <1>6, <1>15, <1>10, <3>1, <3>4, SMTT(40)
    <3> QED BY <3>2, <3>3, <3>4
  <2> QED BY <2>1, <2>2, <2>3, <2>4, <1>13, Zenon DEF LruListed, Listed
<1>17. Listed(d, m + 1, g, d.freeList)
  <2>1. ASSUME NEW i \in 1 .. m + 1
        PROVE  d.older[g[i]] = IF i = 1 THEN NONE_ENTRY ELSE g[i - 1]
    <3>1. CASE i = m + 1
      BY <1>3, <1>12, <1>4, <1>11, <1>15, <3>1
    <3>2. CASE i <= m
      <4>1. g[i] = f[i] /\ i \in 1 .. m
        BY <1>12, <1>15, <3>2
      <4>2. f[i] \in Slots /\ f[i] # s /\ f[i] \notin c.aliasMap
        BY <1>8, <1>9, <4>1, Zenon
      <4>3. newer = NONE_ENTRY \/ newer \in c.aliasMap
        BY <1>2, <1>8, <1>12
      <4>4. d.older[f[i]] = c.older[f[i]]
        BY <4>2, <4>3, <1>4, <1>12
      <4> QED BY <4>1, <4>4, <1>11, <1>12, <1>15, <3>2
    <3> QED BY <3>1, <3>2, <1>12
  <2>2. d.freeList = g[m + 1] /\ m + 1 # 0
    BY <1>4, <1>12, <1>15
  <2> QED BY <2>1, <2>2, <1>14, Zenon DEF Listed
<1>18. Slots \ (d.aliasMap \cup {}) = {g[i] : i \in 1 .. m + 1}
  BY <1>3, <1>4, <1>8, <1>14, Zenon
<1>19. d.aliasMap = {w[i] : i \in 1 .. n - 1}
  BY <1>2, <1>4, <1>8, <1>13, Zenon
<1>20. n - 1 \in Nat /\ m + 1 \in Nat
  BY <1>2, <1>12
<1>21. Lists(d, {}, n - 1, w, m + 1, g)
  BY <1>13, <1>14, <1>16, <1>17, <1>18, <1>19, <1>20, Zenon DEF Lists, SharedOut
<1>22. Good(d)
  BY <1>4, <1>5, <1>21, Zenon DEF Good
<1> QED BY <1>3, <1>4, <1>22, Zenon DEF d, Caches

\* add() with a free slot: the head of the free list comes off.
LEMMA TakeFreeOpen ==
  ASSUME NEW c, Good(c), c.freeList # NONE_ENTRY
  PROVE  /\ Open(take_free(c), c.freeList)
         /\ take_free(c).aliasMap = c.aliasMap
         /\ take_free(c).alias = c.alias /\ take_free(c).nodeId = c.nodeId
<1>1. PICK n, q, m, f : Lists(c, {}, n, q, m, f)
  BY Zenon DEF Good
<1> DEFINE s == c.freeList
           d == take_free(c)
           g == Without(f, m, m)
<1>2. /\ n \in Nat /\ m \in Nat /\ q \in [1 .. n -> Slots] /\ f \in [1 .. m -> Slots]
      /\ c \in Caches /\ KeysConsistent(c)
  BY <1>1, Zenon DEF Good, Lists
<1>3. m \in 1 .. m /\ s = f[m] /\ s \in Slots
  BY <1>1, <1>2 DEF Lists, SharedOut, Listed
<1>4. \A i, j \in 1 .. m : f[i] = f[j] => i = j
  BY <1>1, Zenon DEF Lists, SharedOut, Listed
<1>5. \A i \in 1 .. m : c.older[f[i]] = IF i = 1 THEN NONE_ENTRY ELSE f[i - 1]
  BY <1>1, Zenon DEF Lists, SharedOut, Listed
<1>6. c.aliasMap = {q[i] : i \in 1 .. n} /\ Slots \ c.aliasMap = {f[i] : i \in 1 .. m}
  BY <1>1, Zenon DEF Lists, SharedOut
<1>7. /\ g \in [1 .. m - 1 -> Slots]
      /\ {g[i] : i \in 1 .. m - 1} = {f[i] : i \in 1 .. m} \ {f[m]}
      /\ \A i, j \in 1 .. m - 1 : g[i] = g[j] => i = j
  <2>1. m \in Nat /\ f \in [1 .. m -> Slots] /\ m \in 1 .. m
    BY <1>2, <1>3, Zenon
  <2> HIDE DEF s, d
  <2> QED BY <2>1, <1>4, WithoutList, Zenon
<1>8. \A i \in 1 .. m - 1 : g[i] = f[i]
  BY <1>2 DEF Without
<1>9. /\ d \in Caches /\ d.freeList = c.older[s]
      /\ d.nodeId = c.nodeId /\ d.alias = c.alias /\ d.newer = c.newer
      /\ d.older = c.older /\ d.aliasMap = c.aliasMap /\ d.idMap = c.idMap
      /\ d.oldest = c.oldest /\ d.newest = c.newest
  BY <1>2, <1>3, Zenon DEF take_free, Caches
<1>10. KeysConsistent(d)
  BY <1>2, <1>9, Zenon DEF KeysConsistent
<1> HIDE DEF d, g, s
<1>11. LruListed(d, n, q)
  BY <1>1, <1>9 DEF Lists, SharedOut, LruListed, Listed
<1>12. Listed(d, m - 1, g, d.freeList)
  BY <1>2, <1>3, <1>5, <1>7, <1>8, <1>9 DEF Listed
<1>13. Slots \ (d.aliasMap \cup {s}) = {g[i] : i \in 1 .. m - 1}
  BY <1>3, <1>6, <1>7, <1>9, Zenon
<1>14. d.aliasMap = {q[i] : i \in 1 .. n} /\ s \in Slots \ d.aliasMap
  BY <1>3, <1>6, <1>9, Zenon
<1>15. m - 1 \in Nat
  BY <1>2, <1>3
<1>16. Lists(d, {s}, n, q, m - 1, g)
  BY <1>2, <1>7, <1>11, <1>12, <1>13, <1>14, <1>15, Zenon DEF Lists, SharedOut
<1>17. Open(d, s)
  BY <1>9, <1>10, <1>14, <1>16, Zenon DEF Open
<1> QED BY <1>9, <1>17, Zenon DEF d, s

\* add() with every slot in use: there is an oldest mapping, and it goes.
LEMMA EvictOpen ==
  ASSUME NEW c, Good(c), c.freeList = NONE_ENTRY
  PROVE  /\ c.newest # NONE_ENTRY /\ c.oldest \in c.aliasMap
         /\ Open(evict(c), c.oldest)
         /\ evict(c).aliasMap = c.aliasMap \ {c.oldest}
         /\ evict(c).alias = c.alias /\ evict(c).nodeId = c.nodeId
<1>1. PICK n, q, m, f : Lists(c, {}, n, q, m, f)
  BY Zenon DEF Good
<1> DEFINE s == c.oldest
           d == evict(c)
           second == IF n = 1 THEN NONE_ENTRY ELSE q[2]
           w == Without(q, n, 1)
<1>2. /\ n \in Nat /\ m \in Nat /\ q \in [1 .. n -> Slots] /\ f \in [1 .. m -> Slots]
      /\ c \in Caches /\ KeysConsistent(c) /\ NONE_ENTRY \notin Slots /\ 0 \in Slots
  BY <1>1, EntriesAssumption DEF Good, Lists, NONE_ENTRY, Slots
<1>3. c.aliasMap = {q[i] : i \in 1 .. n} /\ Slots \ c.aliasMap = {f[i] : i \in 1 .. m}
  BY <1>1, Zenon DEF Lists, SharedOut
<1>4. m = 0
  BY <1>1, <1>2 DEF Lists, SharedOut, Listed
<1>5. n \in 1 .. n /\ 1 \in 1 .. n
  BY <1>2, <1>3, <1>4
<1>6. s = q[1] /\ c.newest = q[n] /\ s \in c.aliasMap /\ s \in Slots /\ c.newest \in Slots
  BY <1>1, <1>2, <1>3, <1>5 DEF Lists, SharedOut, LruListed, Listed
<1>7. \A i, j \in 1 .. n : q[i] = q[j] => i = j
  BY <1>1, Zenon DEF Lists, SharedOut, LruListed, Listed
<1>8. /\ \A i \in 1 .. n : c.older[q[i]] = IF i = 1 THEN NONE_ENTRY ELSE q[i - 1]
      /\ \A i \in 1 .. n : c.newer[q[i]] = IF i = n THEN NONE_ENTRY ELSE q[i + 1]
  BY <1>1, Zenon DEF Lists, SharedOut, LruListed, Listed
<1>9. c.newer[s] = second /\ second \in PoolIdx
  BY <1>2, <1>5, <1>6, <1>8 DEF PoolIdx
<1>10. /\ d \in Caches /\ d.freeList = c.freeList
       /\ d.nodeId = c.nodeId /\ d.alias = c.alias /\ d.newer = c.newer
       /\ d.older = [t \in Slots |-> IF t = second THEN NONE_ENTRY ELSE c.older[t]]
       /\ d.aliasMap = c.aliasMap \ {s} /\ d.idMap = c.aliasMap \ {s}
       /\ d.oldest = second
       /\ d.newest = IF s = c.newest THEN NONE_ENTRY ELSE c.newest
  <2>1. The(WithId(c, c.nodeId[s])) = s /\ The(WithAlias(c, c.alias[s])) = s
    BY <1>2, <1>6, FindSlot, Zenon
  <2>2. [t \in Slots |-> IF t = second THEN NONE_ENTRY ELSE c.older[t]] 
           \in [Slots -> PoolIdx]
    BY <1>2, Zenon DEF Caches, PoolIdx
  <2>3. NONE_ENTRY \in PoolIdx /\ c.idMap = c.aliasMap
    BY <1>2, Zenon DEF PoolIdx, KeysConsistent
  <2> HIDE DEF second
  <2> QED BY <2>1, <2>2, <2>3, <1>2, <1>9, Zenon DEF evict, Caches
<1>11. KeysConsistent(d)
  BY <1>2, <1>10, Zenon DEF KeysConsistent
<1>12. /\ w \in [1 .. n - 1 -> Slots]
       /\ {w[i] : i \in 1 .. n - 1} = {q[i] : i \in 1 .. n} \ {q[1]}
       /\ \A i, j \in 1 .. n - 1 : w[i] = w[j] => i = j
  BY <1>2, <1>5, <1>7, WithoutList, Zenon
<1>13. \A i \in 1 .. n - 1 : w[i] = q[i + 1]
  BY <1>2 DEF Without
<1> HIDE DEF d, s, w
<1>14. LruListed(d, n - 1, w)
  <2>1. /\ d.newest = IF n - 1 = 0 THEN NONE_ENTRY ELSE w[n - 1]
        /\ d.oldest = IF n - 1 = 0 THEN NONE_ENTRY ELSE w[1]
    BY <1>2, <1>5, <1>6, <1>7, <1>10, <1>13
  <2>2. ASSUME NEW i \in 1 .. n - 1
        PROVE  d.older[w[i]] = IF i = 1 THEN NONE_ENTRY ELSE w[i - 1]
    <3>1. w[i] = q[i + 1] /\ w[i] \in Slots
      BY <1>12, <1>13, Zenon
    <3> QED BY <3>1, <1>2, <1>5, <1>7, <1>8, <1>10, <1>13
  <2>3. ASSUME NEW i \in 1 .. n - 1
        PROVE  d.newer[w[i]] = IF i = n - 1 THEN NONE_ENTRY ELSE w[i + 1]
    <3>1. i + 1 \in 1 .. n /\ w[i] = q[i + 1] /\ (i # n - 1 => w[i + 1] = q[i + 2])
      BY <1>2, <1>13
    <3>2. d.newer[q[i + 1]] = IF i + 1 = n THEN NONE_ENTRY ELSE q[i + 2]
      BY <3>1, <1>2, <1>8, <1>10
    <3> QED BY <3>1, <3>2, <1>2
  <2> QED BY <2>1, <2>2, <2>3, <1>12, Zenon DEF LruListed, Listed
<1>15. Listed(d, m, f, d.freeList)
  BY <1>4, <1>10 DEF Listed
<1>16. Slots \ (d.aliasMap \cup {s}) = {f[i] : i \in 1 .. m}
  BY <1>3, <1>6, <1>10, Zenon
<1>17. d.aliasMap = {w[i] : i \in 1 .. n - 1} /\ s \in Slots \ d.aliasMap /\ n - 1 \in Nat
  <2>1. d.aliasMap = {w[i] : i \in 1 .. n - 1}
    BY <1>3, <1>6, <1>10, <1>12, Zenon
  <2>2. s \in Slots \ d.aliasMap
    BY <1>6, <1>10, Zenon
  <2> QED BY <2>1, <2>2, <1>2, <1>5
<1>18. Lists(d, {s}, n - 1, w, m, f)
  BY <1>2, <1>12, <1>14, <1>15, <1>16, <1>17, Zenon DEF Lists, SharedOut
<1>19. Open(d, s)
  BY <1>10, <1>11, <1>17, <1>18, Zenon DEF Open
<1> QED BY <1>2, <1>6, <1>10, <1>19, Zenon DEF d, s

\* The end of add(): the open slot becomes the newest mapping, provided that
\* no mapping with its keys is left.
LEMMA InsertGood ==
  ASSUME NEW c, NEW s, Open(c, s), NEW id \in NodeIDs,
         NEW alias \in Aliases \cup {NOT_RESPONDING},
         WithId(c, id) = {},
         alias # NOT_RESPONDING => WithAlias(c, alias) = {}
  PROVE  Good(insert(c, s, id, alias))
<1>1. PICK n, q, m, f : Lists(c, {s}, n, q, m, f)
  BY Zenon DEF Open
<1> DEFINE d == insert(c, s, id, alias)
           stored == IF alias = NOT_RESPONDING THEN NOT_RESPONDING + s ELSE alias
           w == Extend(q, n, s)
<1>2. /\ n \in Nat /\ m \in Nat /\ q \in [1 .. n -> Slots] /\ f \in [1 .. m -> Slots]
      /\ c \in Caches /\ KeysConsistent(c) /\ s \in Slots /\ s \notin c.aliasMap
      /\ NONE_ENTRY \notin Slots
  BY <1>1, EntriesAssumption DEF Open, Lists, NONE_ENTRY, Slots
<1>3. c.aliasMap = {q[i] : i \in 1 .. n} /\ Slots \ (c.aliasMap \cup {s}) = {f[i] : i \in 1 .. m}
  BY <1>1, Zenon DEF Lists, SharedOut
<1>4. \A i, j \in 1 .. n : q[i] = q[j] => i = j
  BY <1>1, Zenon DEF Lists, SharedOut, LruListed, Listed
<1>5. /\ \A i \in 1 .. n : c.older[q[i]] = IF i = 1 THEN NONE_ENTRY ELSE q[i - 1]
      /\ \A i \in 1 .. n : c.newer[q[i]] = IF i = n THEN NONE_ENTRY ELSE q[i + 1]
      /\ c.newest = IF n = 0 THEN NONE_ENTRY ELSE q[n]
      /\ c.oldest = IF n = 0 THEN NONE_ENTRY ELSE q[1]
  BY <1>1, Zenon DEF Lists, SharedOut, LruListed, Listed
<1>6. /\ c.freeList = IF m = 0 THEN NONE_ENTRY ELSE f[m]
      /\ \A i, j \in 1 .. m : f[i] = f[j] => i = j
      /\ \A i \in 1 .. m : c.older[f[i]] = IF i = 1 THEN NONE_ENTRY ELSE f[i - 1]
  BY <1>1, Zenon DEF Lists, SharedOut, Listed
<1>7. \A i \in 1 .. n : q[i] # s
  BY <1>2, <1>3, Zenon
<1>8. \A i \in 1 .. m : f[i] # s
  BY <1>3, Zenon
<1>9. stored \in Aliases \cup {NOT_RESPONDING + s} /\ stored \in StoredAliases
  BY <1>2, Zenon DEF StoredAliases
<1>10. /\ d.nodeId = [c.nodeId EXCEPT ![s] = id]
       /\ d.alias = [c.alias EXCEPT ![s] = stored]
       /\ d.newer = [t \in Slots |-> IF t = s THEN NONE_ENTRY
                                     ELSE IF t = c.newest THEN s ELSE c.newer[t]]
       /\ d.older = [c.older EXCEPT ![s] = c.newest]
       /\ d.aliasMap = c.aliasMap \cup {s} /\ d.idMap = c.idMap \cup {s}
       /\ d.freeList = c.freeList
       /\ d.oldest = (IF c.newest = NONE_ENTRY THEN s ELSE c.oldest)
       /\ d.newest = s
  BY Zenon DEF insert
<1>11. d \in Caches
  <2> HIDE DEF stored
  <2>1. NONE_ENTRY \in PoolIdx /\ s \in PoolIdx
    BY <1>2, Zenon DEF PoolIdx
  <2>2. [c.nodeId EXCEPT ![s] = id] \in [Slots -> NodeIDs \cup {0}]
    BY <1>2, Zenon DEF Caches
  <2>3. [c.alias EXCEPT ![s] = stored] \in [Slots -> StoredAliases \cup {0}]
    BY <1>2, <1>9, Zenon DEF Caches
  <2>4. [t \in Slots |-> IF t = s THEN NONE_ENTRY
                         ELSE IF t = c.newest THEN s ELSE c.newer[t]] 
          \in [Slots -> PoolIdx]
    BY <1>2, <2>1, Zenon DEF Caches
  <2>5. [c.older EXCEPT ![s] = c.newest] \in [Slots -> PoolIdx]
    BY <1>2, Zenon DEF Caches
  <2>6. c.aliasMap \cup {s} \in SUBSET Slots /\ c.idMap \cup {s} \in SUBSET Slots
    BY <1>2, Zenon DEF Caches
  <2>7. c.freeList \in PoolIdx /\ c.oldest \in PoolIdx
    BY <1>2, Zenon DEF Caches
  <2> QED BY <2>1, <2>2, <2>3, <2>4, <2>5, <2>6, <2>7, Zenon DEF insert, Caches, stored
<1> HIDE DEF d
<1>12. KeysConsistent(d)
  <2>1. \A t \in c.aliasMap : t # s /\ t \in Slots /\ d.nodeId[t] = c.nodeId[t] /\ d.alias[t] = c.alias[t]
    BY <1>2, <1>10, Zenon DEF Caches
  <2>2. d.nodeId[s] = id /\ d.alias[s] = stored
    BY <1>2, <1>10, Zenon DEF Caches
  <2>3. \A t \in c.aliasMap : c.nodeId[t] # id
    BY <1>2, Zenon DEF WithId, KeysConsistent
  <2>4. \A t \in c.aliasMap : c.alias[t] # stored
    <3>1. CASE alias # NOT_RESPONDING
      BY <3>1, Zenon DEF WithAlias
    <3>2. CASE alias = NOT_RESPONDING
      BY <3>2, <1>2, <2>1, AliasesAssumption, EntriesAssumption DEF KeysConsistent, Slots
    <3> QED BY <3>1, <3>2, Zenon
  <2> HIDE DEF stored
  <2>5. d.idMap = d.aliasMap
    BY <1>2, <1>10, Zenon DEF KeysConsistent
  <2>6. \A t \in d.aliasMap : d.nodeId[t] \in NodeIDs /\ d.alias[t] \in Aliases \cup {NOT_RESPONDING + t}
    BY <1>2, <1>9, <1>10, <2>1, <2>2, Zenon DEF KeysConsistent
  <2>7. \A t, u \in d.aliasMap : d.nodeId[t] = d.nodeId[u] \/ d.alias[t] = d.alias[u] => t = u
    BY <1>2, <1>10, <2>1, <2>2, <2>3, <2>4 DEF KeysConsistent
  <2> QED BY <2>5, <2>6, <2>7, Zenon DEF KeysConsistent
<1>13. /\ w \in [1 .. n + 1 -> Slots]
       /\ {w[i] : i \in 1 .. n + 1} = {q[i] : i \in 1 .. n} \cup {s}
       /\ \A i, j \in 1 .. n + 1 : w[i] = w[j] => i = j
  <2>1. n \in Nat /\ q \in [1 .. n -> Slots] /\ s \in Slots
    BY <1>2, Zenon
  <2> QED BY <2>1, <1>4, <1>7, ExtendList, Zenon
<1>14. \A i \in 1 .. n + 1 : w[i] = IF i <= n THEN q[i] ELSE s
  BY <1>2, Zenon DEF Extend
<1> HIDE DEF w
<1>15. LruListed(d, n + 1, w)
  <2>1. d.newest = w[n + 1] /\ d.oldest = w[1] /\ n + 1 # 0
    BY <1>2, <1>5, <1>10, <1>14
  <2>2. ASSUME NEW i \in 1 .. n + 1
        PROVE  d.older[w[i]] = IF i = 1 THEN NONE_ENTRY ELSE w[i - 1]
    <3>1. CASE i = n + 1
      BY <3>1, <1>2, <1>5, <1>10, <1>14 DEF Caches
    <3>2. CASE i <= n
      <4>1. i \in 1 .. n /\ w[i] = q[i] /\ q[i] # s /\ q[i] \in Slots
        BY <3>2, <1>2, <1>7, <1>14
      <4>2. d.older[q[i]] = c.older[q[i]]
        BY <4>1, <1>2, <1>10, Zenon DEF Caches
      <4> QED BY <4>1, <4>2, <1>2, <1>5, <1>14
    <3> QED BY <3>1, <3>2, <1>2
  <2>3. ASSUME NEW i \in 1 .. n + 1
        PROVE  d.newer[w[i]] = IF i = n + 1 THEN NONE_ENTRY ELSE w[i + 1]
    <3>1. CASE i = n + 1
      BY <3>1, <1>2, <1>10, <1>14
    <3>2. CASE i <= n
      <4>1. i \in 1 .. n /\ w[i] = q[i] /\ q[i] # s /\ q[i] \in Slots
        BY <3>2, <1>2, <1>7, <1>14
      <4>2. d.newer[q[i]] = IF i = n THEN s ELSE c.newer[q[i]]
        BY <4>1, <1>2, <1>4, <1>5, <1>10
      <4> QED BY <4>1, <4>2, <1>2, <1>5, <1>14
    <3> QED BY <3>1, <3>2, <1>2
  <2> QED BY <2>1, <2>2, <2>3, <1>13, Zenon DEF LruListed, Listed
<1>16. Listed(d, m, f, d.freeList)
  BY <1>2, <1>6, <1>8, <1>10 DEF Listed, Caches
<1>17. Slots \ (d.aliasMap \cup {}) = {f[i] : i \in 1 .. m}
  BY <1>3, <1>10, Zenon
<1>18. d.aliasMap = {w[i] : i \in 1 .. n + 1} /\ n + 1 \in Nat
  <2>1. d.aliasMap = {w[i] : i \in 1 .. n + 1}
    BY <1>3, <1>10, <1>13, Zenon
  <2> QED BY <2>1, <1>2
<1>19. Lists(d, {}, n + 1, w, m, f)
  BY <1>2, <1>13, <1>15, <1>16, <1>17, <1>18, Zenon DEF Lists, SharedOut
<1> QED BY <1>11, <1>12, <1>19, Zenon DEF Good, d

\* touch() moves a mapping to the newer end of the LRU list and changes nothing
\* else.
LEMMA TouchGood ==
  ASSUME NEW c, Good(c), NEW s \in c.aliasMap
  PROVE  Good(touch(c, s))
<1>1. CASE s = c.newest
  BY <1>1, Zenon DEF touch
<1>2. CASE s # c.newest
  <2>1. PICK n, q, m, f : Lists(c, {}, n, q, m, f)
    BY DEF Good
  <2>2. PICK k \in 1 .. n : s = q[k]
    BY <2>1 DEF Lists, SharedOut
  <2>3. /\ n \in Nat /\ m \in Nat /\ q \in [1 .. n -> Slots] /\ f \in [1 .. m -> Slots]
        /\ c \in Caches /\ KeysConsistent(c) /\ s \in Slots /\ NONE_ENTRY \notin Slots
    BY <2>1, <2>2, EntriesAssumption DEF Good, Lists, NONE_ENTRY, Slots
  <2>4. \A i, j \in 1 .. n : q[i] = q[j] => i = j
    BY <2>1 DEF Lists, SharedOut, LruListed, Listed
  <2>5. /\ \A i \in 1 .. n : c.older[q[i]] = IF i = 1 THEN NONE_ENTRY ELSE q[i - 1]
        /\ \A i \in 1 .. n : c.newer[q[i]] = IF i = n THEN NONE_ENTRY ELSE q[i + 1]
        /\ c.newest = q[n] /\ c.oldest = q[1]
    BY <2>1, <2>2 DEF Lists, SharedOut, LruListed, Listed
  <2>6. k < n /\ k + 1 \in 1 .. n /\ n \in 1 .. n
    BY <1>2, <2>2, <2>3, <2>5
  <2> DEFINE older == IF k = 1 THEN NONE_ENTRY ELSE q[k - 1]
             newer == q[k + 1]
             d == touch(c, s)
             w1 == Without(q, n, k)
             w == Extend(w1, n - 1, s)
  <2>7. /\ c.newer[s] = newer /\ c.older[s] = older
        /\ newer \in Slots /\ older \in PoolIdx /\ c.newest \in Slots
    BY <2>2, <2>3, <2>5, <2>6 DEF PoolIdx
  <2>8. /\ d.nodeId = c.nodeId /\ d.alias = c.alias
        /\ d.aliasMap = c.aliasMap /\ d.idMap = c.idMap
        /\ d.freeList = c.freeList /\ d.newest = s
        /\ d.oldest = (IF s = c.oldest THEN newer ELSE c.oldest)
        /\ d.newer = [t \in Slots |-> IF t = s THEN NONE_ENTRY
                                      ELSE IF t = c.newest THEN s
                                      ELSE IF t = older THEN newer
                                      ELSE c.newer[t]]
        /\ d.older = [t \in Slots |-> IF t = s THEN c.newest
                                      ELSE IF t = newer THEN older
                                      ELSE c.older[t]]
        /\ d \in Caches
    <3> HIDE DEF older, newer
    <3>1. NONE_ENTRY \in PoolIdx /\ s \in PoolIdx /\ newer \in PoolIdx /\ c.newest \in PoolIdx
      BY <2>3, <2>7, Zenon DEF PoolIdx
    <3>2. [t \in Slots |-> IF t = s THEN NONE_ENTRY
                           ELSE IF t = c.newest THEN s
                           ELSE IF t = older THEN newer
                           ELSE c.newer[t]] \in [Slots -> PoolIdx]
      BY <3>1, <2>3, Zenon DEF Caches
    <3>3. [t \in Slots |-> IF t = s THEN c.newest
                           ELSE IF t = newer THEN older
                           ELSE c.older[t]] \in [Slots -> PoolIdx]
      BY <3>1, <2>3, <2>7, Zenon DEF Caches
    <3> QED BY <3>1, <3>2, <3>3, <1>2, <2>3, <2>7, Zenon DEF touch, Caches
  <2>9. KeysConsistent(d)
    BY <2>3, <2>8, Zenon DEF KeysConsistent
  <2>10. /\ w1 \in [1 .. n - 1 -> Slots]
         /\ {w1[i] : i \in 1 .. n - 1} = {q[i] : i \in 1 .. n} \ {q[k]}
         /\ \A i, j \in 1 .. n - 1 : w1[i] = w1[j] => i = j
    <3>1. n \in Nat /\ q \in [1 .. n -> Slots]
      BY <2>3, Zenon
    <3> QED BY <3>1, <2>4, WithoutList, Zenon
  <2>11. \A i \in 1 .. n - 1 : w1[i] = IF i < k THEN q[i] ELSE q[i + 1]
    BY <2>3, Zenon DEF Without
  <2>12. \A i \in 1 .. n - 1 : w1[i] # s
    BY <2>2, <2>3, <2>4, <2>11
  <2> HIDE DEF w1, d
  <2>13. /\ w \in [1 .. n -> Slots]
         /\ {w[i] : i \in 1 .. n} = {w1[i] : i \in 1 .. n - 1} \cup {s}
         /\ \A i, j \in 1 .. n : w[i] = w[j] => i = j
    <3>1. n - 1 \in Nat /\ w1 \in [1 .. n - 1 -> Slots] /\ s \in Slots
      BY <2>3, <2>6, <2>10
    <3>2. \A i, j \in 1 .. n - 1 : w1[i] = w1[j] => i = j
      BY <2>10, Zenon
    <3>3. (n - 1) + 1 = n
      BY <2>3
    <3>4. /\ w \in [1 .. (n - 1) + 1 -> Slots]
          /\ {w[i] : i \in 1 .. (n - 1) + 1} = {w1[i] : i \in 1 .. n - 1} \cup {s}
          /\ \A i, j \in 1 .. (n - 1) + 1 : w[i] = w[j] => i = j
      BY <3>1, <3>2, <2>12, ExtendList, ZenonT(60)
    <3> QED BY <3>3, <3>4, Zenon
  <2>14. \A i \in 1 .. n : w[i] = IF i < k THEN q[i] ELSE IF i < n THEN q[i + 1] ELSE s
    <3>1. \A i \in 1 .. n : w[i] = IF i <= n - 1 THEN w1[i] ELSE s
      BY <2>3 DEF Extend
    <3> QED BY <3>1, <2>3, <2>6, <2>11
  <2> HIDE DEF w
  <2>15. d.newest = w[n] /\ d.oldest = w[1]
    BY <2>2, <2>3, <2>4, <2>5, <2>6, <2>8, <2>14
  <2>16. ASSUME NEW i \in 1 .. n
         PROVE  d.older[w[i]] = IF i = 1 THEN NONE_ENTRY ELSE w[i - 1]
    <3>1. CASE i < k
      BY <3>1, <2>2, <2>3, <2>4, <2>5, <2>6, <2>8, <2>14
    <3>2. CASE i = k
      BY <3>2, <2>2, <2>3, <2>4, <2>5, <2>6, <2>8, <2>14
    <3>3. CASE k < i /\ i < n
      BY <3>3, <2>2, <2>3, <2>4, <2>5, <2>6, <2>8, <2>14
    <3>4. CASE i = n
      BY <3>4, <2>2, <2>3, <2>4, <2>5, <2>6, <2>8, <2>14
    <3> QED BY <3>1, <3>2, <3>3, <3>4, <2>3
  <2>17. ASSUME NEW i \in 1 .. n
         PROVE  d.newer[w[i]] = IF i = n THEN NONE_ENTRY ELSE w[i + 1]
    <3>1. CASE i < k - 1
      BY <3>1, <2>2, <2>3, <2>4, <2>5, <2>6, <2>8, <2>14
    <3>2. CASE i = k - 1
      BY <3>2, <2>2, <2>3, <2>4, <2>5, <2>6, <2>8, <2>14
    <3>3. CASE k - 1 < i /\ i < n - 1
      BY <3>3, <2>2, <2>3, <2>4, <2>5, <2>6, <2>8, <2>14
    <3>4. CASE k - 1 < i /\ i = n - 1
      BY <3>4, <2>2, <2>3, <2>4, <2>5, <2>6, <2>8, <2>14
    <3>5. CASE i = n
      BY <3>5, <2>2, <2>3, <2>4, <2>5, <2>6, <2>8, <2>14
    <3> QED BY <3>1, <3>2, <3>3, <3>4, <3>5, <2>3
  <2>18. LruListed(d, n, w)
    BY <2>6, <2>13, <2>15, <2>16, <2>17 DEF LruListed, Listed
  <2>19. c.aliasMap = {q[i] : i \in 1 .. n} /\ Slots \ c.aliasMap = {f[i] : i \in 1 .. m}
    BY <2>1 DEF Lists, SharedOut
  <2>20. Listed(d, m, f, d.freeList)
    <3>1. Listed(c, m, f, c.freeList)
      BY <2>1, Zenon DEF Lists, SharedOut
    <3>2. \A i \in 1 .. m : f[i] \in Slots /\ f[i] # s /\ f[i] # newer
      BY <2>3, <2>6, <2>19, Zenon
    <3>3. \A i \in 1 .. m : d.older[f[i]] = c.older[f[i]]
      BY <3>2, <2>8, Zenon
    <3> QED BY <3>1, <3>3, <2>8 DEF Listed
  <2>21. d.aliasMap = {w[i] : i \in 1 .. n}
    BY <2>2, <2>8, <2>10, <2>13, <2>19, ZenonT(60)
  <2>22. Slots \ (d.aliasMap \cup {}) = {f[i] : i \in 1 .. m}
    BY <2>8, <2>19, Zenon
  <2>23. Lists(d, {}, n, w, m, f)
    BY <2>3, <2>13, <2>18, <2>20, <2>21, <2>22, Zenon DEF Lists, SharedOut
  <2> QED BY <2>8, <2>9, <2>23, Zenon DEF Good, d
<1> QED BY <1>1, <1>2, Zenon

\* Dropping the mapping of a key leaves a good cache that is smaller and
\* agrees with the old one on what is left.
LEMMA DropGood ==
  ASSUME NEW c, Good(c), NEW found \in SUBSET c.aliasMap
  PROVE  /\ Good(drop(c, found))
         /\ drop(c, found).aliasMap \subseteq c.aliasMap
         /\ found # {} => The(found) \in found \ drop(c, found).aliasMap
         /\ drop(c, found).alias = c.alias
         /\ \A t \in drop(c, found).aliasMap : drop(c, found).nodeId[t] = c.nodeId[t]
<1>1. CASE found = {}
  BY <1>1, Zenon DEF drop
<1>2. CASE found # {}
  <2>1. The(found) \in found /\ The(found) \in c.aliasMap
    BY <1>2, TheFound, Zenon
  <2>2. /\ Good(remove(c, The(found)))
        /\ remove(c, The(found)).aliasMap = c.aliasMap \ {The(found)}
        /\ remove(c, The(found)).alias = c.alias
        /\ \A t \in Slots \ {The(found)} : remove(c, The(found)).nodeId[t] = c.nodeId[t]
    BY <2>1, RemoveGood, Zenon
  <2>3. c.aliasMap \subseteq Slots
    BY Zenon DEF Good, Caches
  <2> QED BY <1>2, <2>1, <2>2, <2>3, Zenon DEF drop
<1> QED BY <1>1, <1>2, Zenon

\* Once the mapping of a key is dropped, the key is not found.
LEMMA DropAlias ==
  ASSUME NEW c, Good(c), NEW alias
  PROVE  WithAlias(drop(c, WithAlias(c, alias)), alias) = {}
<1> DEFINE found == WithAlias(c, alias)
           d == drop(c, found)
<1>1. found \in SUBSET c.aliasMap
  BY Zenon DEF WithAlias
<1>2. /\ d.aliasMap \subseteq c.aliasMap /\ d.alias = c.alias
      /\ found # {} => The(found) \in found \ d.aliasMap
  BY <1>1, DropGood, Zenon
<1>3. \A t, u \in found : t = u
  BY Zenon DEF WithAlias, Good, KeysConsistent
<1> HIDE DEF d
<1>4. WithAlias(d, alias) \subseteq found \cap d.aliasMap
  BY <1>2, Zenon DEF WithAlias
<1> HIDE DEF found
<1>5. WithAlias(d, alias) = {}
  BY <1>2, <1>3, <1>4, Zenon
<1> QED BY <1>5, Zenon DEF d, found

LEMMA DropId ==
  ASSUME NEW c, Good(c), NEW id
  PROVE  WithId(drop(c, WithId(c, id)), id) = {}
<1> DEFINE found == WithId(c, id)
           d == drop(c, found)
<1>1. found \in SUBSET c.aliasMap /\ \A t, u \in found : t = u
  BY Zenon DEF WithId, Good, KeysConsistent
<1>2. /\ d.aliasMap \subseteq c.aliasMap /\ Good(d)
      /\ \A t \in d.aliasMap : d.nodeId[t] = c.nodeId[t]
      /\ found # {} => The(found) \in found \ d.aliasMap
  BY <1>1, DropGood, Zenon
<1> HIDE DEF d
<1>3. WithId(d, id) \subseteq found \cap d.aliasMap
  BY <1>2, Zenon DEF WithId, Good, KeysConsistent
<1> HIDE DEF found
<1>4. WithId(d, id) = {}
  BY <1>1, <1>2, <1>3, Zenon
<1> QED BY <1>4 DEF d, found

\* After the first half of add() the cache is good and holds neither key.
LEMMA DropBoth ==
  ASSUME NEW c, Good(c), NEW id \in NodeIDs,
         NEW alias \in Aliases \cup {NOT_RESPONDING}
  PROVE  /\ Good(drop_alias(c, alias)) /\ Good(drop_both(c, id, alias))
         /\ WithId(drop_both(c, id, alias), id) = {}
         /\ alias # NOT_RESPONDING => WithAlias(drop_both(c, id, alias), alias) = {}
<1> DEFINE a == drop_alias(c, alias)
           d == drop_both(c, id, alias)
<1>1. SameAlias(c, alias) \in SUBSET c.aliasMap
  BY Zenon DEF SameAlias, WithAlias
<1>2. Good(a)
  BY <1>1, DropGood, Zenon DEF drop_alias
<1>3. alias # NOT_RESPONDING => WithAlias(a, alias) = {}
  BY DropAlias, Zenon DEF drop_alias, SameAlias
<1> HIDE DEF a
<1>4. d = drop(a, WithId(a, id))
  BY Zenon DEF drop_both, a
<1>5. WithId(a, id) \in SUBSET a.aliasMap
  BY <1>2, Zenon DEF WithId, Good, KeysConsistent
<1>6. Good(d) /\ d.aliasMap \subseteq a.aliasMap /\ d.alias = a.alias
  BY <1>2, <1>4, <1>5, DropGood
<1>7. WithId(d, id) = {}
  BY <1>2, <1>4, DropId, Zenon
<1>8. alias # NOT_RESPONDING => WithAlias(d, alias) = {}
  BY <1>3, <1>6, Zenon DEF WithAlias
<1> QED BY <1>2, <1>6, <1>7, <1>8, Zenon DEF a

\* Whatever add() finds, the slot it takes was free or the oldest mapping.
LEMMA TakeOpen ==
  ASSUME NEW c, Good(c)
  PROVE  /\ Open(take(c), slot(c))
         /\ c.freeList = NONE_ENTRY => c.newest # NONE_ENTRY /\ c.oldest \in c.aliasMap
         /\ take(c).aliasMap \subseteq c.aliasMap
         /\ take(c).alias = c.alias /\ take(c).nodeId = c.nodeId
BY TakeFreeOpen, EvictOpen, Zenon DEF take, slot

\* add() keeps the pool consistent.
LEMMA AddGood ==
  ASSUME NEW c, Good(c), NEW id \in NodeIDs,
         NEW alias \in Aliases \cup {NOT_RESPONDING}
  PROVE  Good(add(c, id, alias))
<1> DEFINE d == drop_both(c, id, alias)
<1>1. Good(d) /\ WithId(d, id) = {} /\ (alias # NOT_RESPONDING => WithAlias(d, alias) = {})
  BY DropBoth, Zenon
<1> HIDE DEF d
<1>2. /\ Open(take(d), slot(d)) /\ take(d).aliasMap \subseteq d.aliasMap
      /\ take(d).alias = d.alias /\ take(d).nodeId = d.nodeId
  BY <1>1, TakeOpen, Zenon
<1>3. WithId(take(d), id) = {}
  BY <1>1, <1>2, SMTT(30) DEF WithId, Open, Good, KeysConsistent
<1>4. alias # NOT_RESPONDING => WithAlias(take(d), alias) = {}
  BY <1>1, <1>2, Zenon DEF WithAlias
<1>5. Good(insert(take(d), slot(d), id, alias))
  BY <1>2, <1>3, <1>4, InsertGood, Zenon
<1> QED BY <1>5, Zenon DEF add, d

\* The assertions inside add() hold in every consistent pool.
LEMMA GoodAssertions == ASSUME Good(cache) PROVE AddAssertions
<1> SUFFICES ASSUME NEW id \in NodeIDs, NEW alias \in Aliases \cup {NOT_RESPONDING}
             PROVE  LET d == drop_both(cache, id, alias)
                        c == take(d)
                    IN /\ slot(d) # NONE_ENTRY
                       /\ d.freeList = NONE_ENTRY => d.newest # NONE_ENTRY
                       /\ WithAlias(c, NOT_RESPONDING + slot(d)) = {}
                       /\ c.newest = NONE_ENTRY => c.oldest = NONE_ENTRY
  BY Zenon DEF AddAssertions
<1> DEFINE d == drop_both(cache, id, alias)
           c == take(d)
           s == slot(d)
<1>1. Good(d)
  BY DropBoth, Zenon
<1> HIDE DEF d
<1>2. Open(c, s) /\ (d.freeList = NONE_ENTRY => d.newest # NONE_ENTRY)
  BY <1>1, TakeOpen, Zenon
<1> HIDE DEF c, s
<1>3. s \in Slots /\ s \notin c.aliasMap /\ NONE_ENTRY \notin Slots
  BY <1>2, EntriesAssumption DEF Open, NONE_ENTRY, Slots
<1>4. WithAlias(c, NOT_RESPONDING + s) = {}
  <2>1. \A t \in c.aliasMap : t \in Slots /\ c.alias[t] \in Aliases \cup {NOT_RESPONDING + t}
    BY <1>2, Zenon DEF Open, KeysConsistent, Caches
  <2>2. \A t \in c.aliasMap : c.alias[t] # NOT_RESPONDING + s
    BY <2>1, <1>3, AliasesAssumption, EntriesAssumption DEF Slots
  <2> QED BY <2>2, Zenon DEF WithAlias
<1>5. c.newest = NONE_ENTRY => c.oldest = NONE_ENTRY
  <2>1. PICK n, q, m, f : Lists(c, {s}, n, q, m, f)
    BY <1>2, Zenon DEF Open
  <2> QED BY <2>1, <1>3 DEF Lists, SharedOut, LruListed, Listed
<1> QED BY <1>2, <1>3, <1>4, <1>5, Zenon DEF c, s, d

\* The inductive invariant: the pool is good between calls, and what the last
\* call returned and reported has the right type.
Inv == Good(cache) /\ TypeOK

\* What add() reports through removeCallback are mappings the pool held.
LEMMA RemovedType ==
  ASSUME NEW c, Good(c), NEW id \in NodeIDs,
         NEW alias \in Aliases \cup {NOT_RESPONDING}
  PROVE  add_removed(c, id, alias) \in Seq([id : NodeIDs, alias : StoredAliases])
<1> DEFINE Pair == [id : NodeIDs, alias : StoredAliases]
           Pairs(k, found) == IF found = {} THEN <<>> 
                                            ELSE <<Mapping(k, The(found))>>
           a == drop_alias(c, alias)
           d == drop_both(c, id, alias)
<1>1. ASSUME NEW k, Good(k), NEW found \in SUBSET k.aliasMap
      PROVE  Pairs(k, found) \in Seq(Pair)
  <2>1. CASE found = {}
    BY <2>1
  <2>2. CASE found # {}
    <3>1. The(found) \in k.aliasMap
      BY <2>2, TheFound, Zenon
    <3>2. k.nodeId[The(found)] \in NodeIDs /\ k.alias[The(found)] \in StoredAliases
      BY <1>1, <3>1, Zenon DEF Good, KeysConsistent, StoredAliases, Caches
    <3>3. Mapping(k, The(found)) \in Pair
      BY <3>2, Zenon DEF Mapping
    <3> HIDE DEF Pair
    <3> QED BY <2>2, <3>3
  <2> QED BY <2>1, <2>2, Zenon
<1>2. Good(a) /\ Good(d)
  BY DropBoth, Zenon
<1>3. SameAlias(c, alias) \in SUBSET c.aliasMap
  BY DEF SameAlias, WithAlias
<1>4. WithId(a, id) \in SUBSET a.aliasMap
  BY <1>2, Zenon DEF WithId, Good, KeysConsistent
<1>5. (IF d.freeList = NONE_ENTRY THEN {d.oldest} ELSE {}) \in SUBSET d.aliasMap
  BY <1>2, TakeOpen
<1> HIDE DEF Pairs, Pair, a, d
<1>6. Pairs(c, SameAlias(c, alias)) \o Pairs(a, WithId(a, id))
        \o Pairs(d, IF d.freeList = NONE_ENTRY THEN {d.oldest} ELSE {}) \in Seq(Pair)
  <2>1. Pairs(c, SameAlias(c, alias)) \in Seq(Pair)
    BY <1>1, <1>3, Zenon
  <2>2. Pairs(a, WithId(a, id)) \in Seq(Pair)
    BY <1>1, <1>2, <1>4, Zenon
  <2>3. Pairs(d, IF d.freeList = NONE_ENTRY THEN {d.oldest} ELSE {}) \in Seq(Pair)
    BY <1>1, <1>2, <1>5, Zenon
  <2> QED BY <2>1, <2>2, <2>3
<1> QED BY <1>6, Zenon DEF add_removed, Pairs, Pair, a, d

\* The pool starts consistent.
LEMMA InitInv == Init => Inv
<1> SUFFICES ASSUME Init PROVE Inv
  BY Zenon
<1>1. Blank \in Caches
  BY Zenon DEF Blank, Caches, PoolIdx
<1>2. Good(cache)
  BY <1>1, ClearGood, Zenon DEF Init
<1>3. cache \in Caches
  BY <1>2, Zenon DEF Good
<1>4. call \in Calls /\ ret = 0 /\ removed = <<>>
  BY Zenon DEF Init, Calls
<1>5. removed \in Seq([id : NodeIDs, alias : StoredAliases])
  BY <1>4
<1> QED BY <1>2, <1>3, <1>4, <1>5, Zenon DEF Inv, TypeOK

\* Every call keeps the pool consistent.
LEMMA NextInv == Inv /\ [Next]_vars => Inv'
<1> SUFFICES ASSUME Inv, [Next]_vars PROVE Inv'
  BY Zenon
<1> DEFINE Pair == [id : NodeIDs, alias : StoredAliases]
<1>0. Good(cache) /\ cache \in Caches
  BY Zenon DEF Inv, Good
<1>e. <<>> \in Seq(Pair)
  OBVIOUS
<1>s. ASSUME Good(cache'), call' \in Calls,
             ret' \in NodeIDs \cup Aliases \cup {0, NOT_RESPONDING},
             removed' \in Seq(Pair)
      PROVE  Inv'
  BY <1>s, Zenon DEF Inv, TypeOK, Good
<1>r. ASSUME NEW t \in cache.aliasMap
      PROVE  /\ cache.nodeId[t] \in NodeIDs
             /\ resolve_notresponding(cache.alias[t]) \in Aliases \cup {NOT_RESPONDING}
  <2>1. /\ t \in Slots /\ cache.nodeId[t] \in NodeIDs
        /\ cache.alias[t] \in Aliases \cup {NOT_RESPONDING + t}
    BY <1>0, Zenon DEF Good, KeysConsistent, Caches
  <2> QED BY <2>1, AliasesAssumption, EntriesAssumption DEF resolve_notresponding, Slots
<1> HIDE DEF Pair
<1>1. CASE Clear
  <2>1. Good(cache')
    BY <1>1, <1>0, ClearGood, Zenon DEF Clear
  <2>2. call' \in Calls
    BY <1>1, Zenon DEF Clear, Calls
  <2> QED BY <1>1, <1>e, <1>s, <2>1, <2>2, Zenon DEF Clear
<1>2. ASSUME NEW id \in NodeIDs, NEW alias \in Aliases \cup {NOT_RESPONDING}, Add(id, alias)
      PROVE  Inv'
  <2>1. Good(cache')
    BY <1>2, <1>0, AddGood, Zenon DEF Add
  <2>2. call' \in Calls
    BY <1>2, Zenon DEF Add, Calls
  <2>3. removed' \in Seq(Pair)
    BY <1>2, <1>0, RemovedType, Zenon DEF Add, Pair
  <2> QED BY <1>2, <1>s, <2>1, <2>2, <2>3, Zenon DEF Add
<1>3. ASSUME NEW alias \in Aliases \cup {NOT_RESPONDING}, Remove(alias)
      PROVE  Inv'
  <2>1. WithAlias(cache, alias) \in SUBSET cache.aliasMap
    BY Zenon DEF WithAlias
  <2>2. Good(cache')
    BY <1>3, <1>0, <2>1, DropGood, Zenon DEF Remove
  <2>3. call' \in Calls
    BY <1>3, Zenon DEF Remove, Calls
  <2> QED BY <1>3, <1>e, <1>s, <2>2, <2>3, Zenon DEF Remove
<1>4. ASSUME NEW id \in NodeIDs, LookupId(id)
      PROVE  Inv'
  <2>1. call' \in Calls /\ removed' = <<>>
    BY <1>4, Zenon DEF LookupId, Calls
  <2>2. CASE WithId(cache, id) = {}
    BY <1>0, <1>4, <1>e, <1>s, <2>1, <2>2, Zenon DEF LookupId
  <2>3. CASE WithId(cache, id) # {}
    <3>1. The(WithId(cache, id)) \in cache.aliasMap
      BY <1>0, <2>3, TheFound, Zenon DEF WithId, Good, KeysConsistent
    <3>2. Good(cache')
      BY <1>0, <1>4, <2>3, <3>1, TouchGood, Zenon DEF LookupId
    <3> QED BY <1>4, <1>e, <1>r, <1>s, <2>1, <2>3, <3>1, <3>2, Zenon DEF LookupId
  <2> QED BY <2>2, <2>3, Zenon
<1>5. ASSUME NEW alias \in Aliases, LookupAlias(alias)
      PROVE  Inv'
  <2>1. call' \in Calls /\ removed' = <<>>
    BY <1>5, Zenon DEF LookupAlias, Calls
  <2>2. CASE WithAlias(cache, alias) = {}
    BY <1>0, <1>5, <1>e, <1>s, <2>1, <2>2, Zenon DEF LookupAlias
  <2>3. CASE WithAlias(cache, alias) # {}
    <3>1. The(WithAlias(cache, alias)) \in cache.aliasMap
      BY <2>3, TheFound, Zenon DEF WithAlias
    <3>2. Good(cache')
      BY <1>0, <1>5, <2>3, <3>1, TouchGood, Zenon DEF LookupAlias
    <3> QED BY <1>5, <1>e, <1>r, <1>s, <2>1, <2>3, <3>1, <3>2, Zenon DEF LookupAlias
  <2> QED BY <2>2, <2>3
<1>6. ASSUME NEW bound \in NodeIDs \cup {0}, NextEntry(bound)
      PROVE  Inv'
  <2>1. call' \in Calls /\ removed' = <<>> /\ Good(cache')
    BY <1>0, <1>6, Zenon DEF NextEntry, Calls
  <2>2. next_entry(cache, bound) \subseteq cache.aliasMap
    BY <1>0, Zenon DEF next_entry, Above, Good, KeysConsistent
  <2>3. ret' \in NodeIDs \cup {0}
    BY <1>6, <1>r, <2>2, TheFound, Zenon DEF NextEntry
  <2> QED BY <1>e, <1>s, <2>1, <2>3, Zenon
<1>7. CASE UNCHANGED vars
  BY <1>7, Zenon DEF vars, Inv, TypeOK
<1> QED BY <1>1, <1>2, <1>3, <1>4, <1>5, <1>6, <1>7, Zenon DEF Next

\* The pool satisfies check_consistency() after every sequence of calls, for
\* every pool size and every set of keys.
THEOREM CacheConsistent == Spec => []Consistent
<1>1. Inv => Consistent
  BY GoodConsistent, Zenon DEF Inv, Consistent
<1> QED BY <1>1, InitInv, NextInv, PTL DEF Spec

\* No sequence of calls makes an assertion inside add() fail.
THEOREM CacheAssertions == Spec => []AddAssertions
<1>1. Inv => AddAssertions
  BY GoodAssertions, Zenon DEF Inv
<1> QED BY <1>1, InitInv, NextInv, PTL DEF Spec

\* Type correctness of the cache, of what it returns and of what it reports.
THEOREM CacheTypeOK == Spec => []TypeOK
<1>1. Inv => TypeOK
  BY Zenon DEF Inv
<1> QED BY <1>1, InitInv, NextInv, PTL DEF Spec

=============================================================================
