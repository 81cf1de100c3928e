----------------------------- MODULE AliasCache -----------------------------
(***************************************************************************)
(* openlcb/AliasCache: the bounded LRU table of (node ID, alias) pairs an  *)
(* OpenLCB CAN interface keeps twice, for its own nodes and for the remote *)
(* ones.  The table is a pre-allocated pool of slots.  Unused slots form a *)
(* free list through older_, used slots form a doubly linked list in the   *)
(* order of last use, and two index sets, sorted lazily by alias and by    *)
(* node ID, find a slot by key.                                            *)
(*                                                                         *)
(* The cache is one record so that the operations of the code, which call  *)
(* one another (add calls remove), are operators from caches to caches.    *)
(***************************************************************************)
EXTENDS Integers, FiniteSets, Sequences

CONSTANTS Entries,        \* number of slots of the pool
          NodeIDs,        \* the 48-bit node IDs in use, as positive numbers
          Aliases,        \* the 12-bit aliases in use, as positive numbers
          NOT_RESPONDING  \* the sentinel 0xF000, above every alias

ASSUME EntriesAssumption == Entries \in Nat \ {0}
ASSUME NodeIDsAssumption == NodeIDs \subseteq Nat \ {0}
ASSUME AliasesAssumption == 
  /\ NOT_RESPONDING \in Nat
  /\ Aliases \subseteq 1 .. NOT_RESPONDING - 1

Slots == 0 .. Entries - 1

\* PoolIdx: an index into the pool, or the sentinel, which is no index.
NONE_ENTRY == Entries
PoolIdx == Slots \cup {NONE_ENTRY}

\* What the alias_ field of a slot holds: an alias, or the sentinel made
\* unique by the slot's own index.
StoredAliases == Aliases \cup {NOT_RESPONDING + s : s \in Slots}

VARIABLES cache,    \* the data structure
          call,     \* the last call and its arguments
          ret,      \* what the last call returned
          removed   \* the (id, alias) pairs the last call gave removeCallback

vars == <<cache, call, ret, removed>>

Caches ==
  [nodeId   : [Slots -> NodeIDs \cup {0}],
   alias    : [Slots -> StoredAliases \cup {0}],
   newer    : [Slots -> PoolIdx],
   older    : [Slots -> PoolIdx],
   aliasMap : SUBSET Slots,
   idMap    : SUBSET Slots,
   freeList : PoolIdx,
   oldest   : PoolIdx,
   newest   : PoolIdx]

Calls == {<<"clear">>}
  \cup ({"add"} \X NodeIDs \X (Aliases \cup {NOT_RESPONDING}))
  \cup ({"remove"} \X (Aliases \cup {NOT_RESPONDING}))
  \cup ({"lookup_id"} \X NodeIDs)
  \cup ({"lookup_alias"} \X Aliases)
  \cup ({"next_entry"} \X (NodeIDs \cup {0}))

-----------------------------------------------------------------------------
(* Reading the cache *)

resolve_notresponding(stored) ==
  IF stored >= NOT_RESPONDING THEN NOT_RESPONDING ELSE stored

\* SortedListSet::find on either index: the slots found under a key.
WithAlias(c, alias) == {s \in c.aliasMap : c.alias[s] = alias}
WithId(c, id) == {s \in c.idMap : c.nodeId[s] = id}

\* The element of a find that found something.
The(found) == CHOOSE s \in found : TRUE

\* next_entry: the slot of the least node ID above a bound, if there is one.
Above(c, bound) == {s \in c.idMap : c.nodeId[s] > bound}
next_entry(c, bound) ==
  {s \in Above(c, bound) : 
      \A t \in Above(c, bound) : c.nodeId[s] <= c.nodeId[t]}

\* retrieve: whether the slot is reported as an entry of the cache.
retrieve(c, entry) == c.alias[entry] # 0

Mapping(c, s) == [id |-> c.nodeId[s], alias |-> c.alias[s]]

-----------------------------------------------------------------------------
(* Operations *)

\* clear: empties both indexes and the LRU list and threads every slot on the
\* free list, the last slot first.  The nodeId and alias fields keep what
\* they had.
clear(c) ==
  [c EXCEPT !.aliasMap = {},
            !.idMap = {},
            !.oldest = NONE_ENTRY,
            !.newest = NONE_ENTRY,
            !.newer = [s \in Slots |-> NONE_ENTRY],
            !.older = [s \in Slots |-> IF s = 0 THEN NONE_ENTRY ELSE s - 1],
            !.freeList = Entries - 1]

\* remove, for the slot s that the alias was found in: takes the slot out of
\* the indexes and of the LRU list and pushes it on the free list.  The alias
\* field is left alone.
remove(c, s) ==
  LET newer == c.newer[s]
      older == c.older[s]
  IN [nodeId   |-> [c.nodeId EXCEPT ![s] = 0],
      alias    |-> c.alias,
      newer    |-> [t \in Slots |-> IF t = older THEN newer ELSE c.newer[t]],
      older    |-> [t \in Slots |-> IF t = s THEN c.freeList
                                    ELSE IF t = newer THEN older
                                    ELSE c.older[t]],
      aliasMap |-> c.aliasMap \ {s},
      idMap    |-> c.idMap \ {The(WithId(c, c.nodeId[s]))},
      freeList |-> s,
      oldest   |-> IF s = c.oldest THEN newer ELSE c.oldest,
      newest   |-> IF s = c.newest THEN older ELSE c.newest]

\* The step of add that drops a previous mapping of the key it found.
drop(c, found) == IF found = {} THEN c ELSE remove(c, The(found))

\* The slot add writes to, and the cache once that slot is off its list: the
\* head of the free list, or else the slot of the oldest mapping.
slot(c) == IF c.freeList # NONE_ENTRY THEN c.freeList ELSE c.oldest

\* Mutant: the free list is not advanced.
take_free_stuck(c) == c

take_free(c) == [c EXCEPT !.freeList = c.older[c.freeList]]

evict(c) ==
  LET s == c.oldest
      second == c.newer[s]
  IN [c EXCEPT 
        !.older = [t \in Slots |-> IF t = second THEN NONE_ENTRY 
                                                 ELSE c.older[t]],
        !.newest = IF s = c.newest THEN NONE_ENTRY ELSE c.newest,
        !.oldest = second,
        !.aliasMap = c.aliasMap \ {The(WithAlias(c, c.alias[s]))},
        !.idMap = c.idMap \ {The(WithId(c, c.nodeId[s]))}]

take(c) == IF c.freeList # NONE_ENTRY THEN take_free(c) ELSE evict(c)

\* The end of add: fills slot s and links it as the newest mapping.
insert(c, s, id, alias) ==
  [nodeId   |-> [c.nodeId EXCEPT ![s] = id],
   alias    |-> [c.alias EXCEPT ![s] = 
                    IF alias = NOT_RESPONDING THEN NOT_RESPONDING + s 
                                              ELSE alias],
   newer    |-> [t \in Slots |-> IF t = s THEN NONE_ENTRY
                                 ELSE IF t = c.newest THEN s
                                 ELSE c.newer[t]],
   older    |-> [c.older EXCEPT ![s] = c.newest],
   aliasMap |-> c.aliasMap \cup {s},
   idMap    |-> c.idMap \cup {s},
   freeList |-> c.freeList,
   oldest   |-> IF c.newest = NONE_ENTRY THEN s ELSE c.oldest,
   newest   |-> s]

\* The caches between the stages of add(id, alias).  Several NOT_RESPONDING
\* mappings may exist, so that sentinel displaces no mapping of its own.
SameAlias(c, alias) == 
  IF alias = NOT_RESPONDING THEN {} ELSE WithAlias(c, alias)
drop_alias(c, alias) == drop(c, SameAlias(c, alias))
drop_both(c, id, alias) == 
  drop(drop_alias(c, alias), WithId(drop_alias(c, alias), id))

add(c, id, alias) ==
  LET d == drop_both(c, id, alias) IN insert(take(d), slot(d), id, alias)

\* The pairs add hands to removeCallback, in order.
add_removed(c, id, alias) ==
  LET a == drop_alias(c, alias)
      d == drop_both(c, id, alias)
      Pairs(k, found) == IF found = {} THEN <<>> 
                                       ELSE <<Mapping(k, The(found))>>
  IN Pairs(c, SameAlias(c, alias)) 
       \o Pairs(a, WithId(a, id))
       \o Pairs(d, IF d.freeList = NONE_ENTRY THEN {d.oldest} ELSE {})

\* Mutant: a lookup does not refresh the mapping.
touch_not(c, s) == c

\* touch: makes slot s the newest.
touch(c, s) ==
  LET newer == c.newer[s]
      older == c.older[s]
  IN IF s = c.newest THEN c ELSE
     [c EXCEPT 
        !.oldest = IF s = c.oldest THEN newer ELSE c.oldest,
        !.newer = [t \in Slots |-> IF t = s THEN NONE_ENTRY
                                   ELSE IF t = c.newest THEN s
                                   ELSE IF t = older THEN newer
                                   ELSE c.newer[t]],
        !.older = [t \in Slots |-> IF t = s THEN c.newest
                                   ELSE IF t = newer THEN older
                                   ELSE c.older[t]],
        !.newest = s]

-----------------------------------------------------------------------------
(* The calls a client can make *)

Clear ==
  /\ call' = <<"clear">>
  /\ cache' = clear(cache)
  /\ ret' = 0
  /\ removed' = <<>>

Add(id, alias) ==
  /\ call' = <<"add", id, alias>>
  /\ cache' = add(cache, id, alias)
  /\ ret' = 0
  /\ removed' = add_removed(cache, id, alias)

Remove(alias) ==
  /\ call' = <<"remove", alias>>
  /\ cache' = drop(cache, WithAlias(cache, alias))
  /\ ret' = 0
  /\ removed' = <<>>

LookupId(id) ==
  LET found == WithId(cache, id) IN
  /\ call' = <<"lookup_id", id>>
  /\ removed' = <<>>
  /\ IF found = {}
     THEN ret' = 0 /\ UNCHANGED cache
     ELSE /\ ret' = resolve_notresponding(cache.alias[The(found)])
          /\ cache' = touch(cache, The(found))

LookupAlias(alias) ==
  LET found == WithAlias(cache, alias) IN
  /\ call' = <<"lookup_alias", alias>>
  /\ removed' = <<>>
  /\ IF found = {}
     THEN ret' = 0 /\ UNCHANGED cache
     ELSE /\ ret' = cache.nodeId[The(found)]
          /\ cache' = touch(cache, The(found))

NextEntry(bound) ==
  LET found == next_entry(cache, bound) IN
  /\ call' = <<"next_entry", bound>>
  /\ ret' = IF found = {} THEN 0 ELSE cache.nodeId[The(found)]
  /\ removed' = <<>>
  /\ UNCHANGED cache

Blank ==
  [nodeId |-> [s \in Slots |-> 0], alias |-> [s \in Slots |-> 0],
   newer |-> [s \in Slots |-> NONE_ENTRY], 
   older |-> [s \in Slots |-> NONE_ENTRY],
   aliasMap |-> {}, idMap |-> {}, 
   freeList |-> NONE_ENTRY, oldest |-> NONE_ENTRY, newest |-> NONE_ENTRY]

Init ==
  /\ cache = clear(Blank)
  /\ call = <<"clear">>
  /\ ret = 0
  /\ removed = <<>>

Next ==
  \/ Clear
  \/ \E id \in NodeIDs, alias \in Aliases \cup {NOT_RESPONDING} : Add(id, alias)
  \/ \E alias \in Aliases \cup {NOT_RESPONDING} : Remove(alias)
  \/ \E id \in NodeIDs : LookupId(id)
  \/ \E alias \in Aliases : LookupAlias(alias)
  \/ \E bound \in NodeIDs \cup {0} : NextEntry(bound)

Spec == Init /\ [][Next]_vars

-----------------------------------------------------------------------------
(* Properties *)

TypeOK ==
  /\ cache \in Caches
  /\ call \in Calls
  /\ ret \in NodeIDs \cup Aliases \cup {0, NOT_RESPONDING}
  /\ removed \in Seq([id : NodeIDs, alias : StoredAliases])

\* q lists, oldest first, the slots met by following older_ from head.
Listed(c, n, q, head) ==
  /\ \A i, j \in 1 .. n : q[i] = q[j] => i = j
  /\ head = IF n = 0 THEN NONE_ENTRY ELSE q[n]
  /\ \A i \in 1 .. n : c.older[q[i]] = IF i = 1 THEN NONE_ENTRY ELSE q[i - 1]

\* q also lists the slots met by following newer_ from oldest.
LruListed(c, n, q) ==
  /\ Listed(c, n, q, c.newest)
  /\ c.oldest = IF n = 0 THEN NONE_ENTRY ELSE q[1]
  /\ \A i \in 1 .. n : c.newer[q[i]] = IF i = n THEN NONE_ENTRY ELSE q[i + 1]

\* The LRU list q and the free list f share out the pool, but for the slots
\* in out, without loops.
SharedOut(c, out, n, q, m, f) ==
  /\ LruListed(c, n, q)
  /\ Listed(c, m, f, c.freeList)
  /\ c.aliasMap = {q[i] : i \in 1 .. n}
  /\ Slots \ (c.aliasMap \cup out) = {f[i] : i \in 1 .. m}

ListsConsistent(c) ==
  \E n, m \in 0 .. Entries :
    \E q \in [1 .. n -> Slots], f \in [1 .. m -> Slots] :
      SharedOut(c, {}, n, q, m, f)

\* Both indexes hold the used slots, under keys that tell them apart.
KeysConsistent(c) ==
  /\ c.idMap = c.aliasMap
  /\ \A s \in c.aliasMap : /\ c.nodeId[s] \in NodeIDs
                           /\ c.alias[s] \in Aliases \cup {NOT_RESPONDING + s}
  /\ \A s, t \in c.aliasMap : 
       c.nodeId[s] = c.nodeId[t] \/ c.alias[s] = c.alias[t] => s = t

\* check_consistency() returns 0 after every operation: the free list and the
\* LRU list partition the pool without loops, the LRU list reads the same in
\* both directions, and both indexes hold exactly the slots of the LRU list,
\* under keys that identify them (AliasCache.cxx:67-262).
Consistent == KeysConsistent(cache) /\ ListsConsistent(cache)

\* The assertions of add hold whenever add can reach them: a slot to evict
\* exists when no slot is free, the alias made unique for NOT_RESPONDING is
\* indeed unused, and the ends of the LRU list are empty together
\* (AliasCache.cxx:346, 377, 392).
AddAssertions ==
  \A id \in NodeIDs, alias \in Aliases \cup {NOT_RESPONDING} :
    LET d == drop_both(cache, id, alias)
        c == take(d)
    IN /\ slot(d) # NONE_ENTRY
       /\ d.freeList = NONE_ENTRY => d.newest # NONE_ENTRY
       /\ WithAlias(c, NOT_RESPONDING + slot(d)) = {}
       /\ c.newest = NONE_ENTRY => c.oldest = NONE_ENTRY

\* retrieve() reports a slot exactly when it is allocated: "true if the entry
\* is valid [...] otherwise false if the entry is not allocated"
\* (AliasCache.hxx:161).
RetrieveValid == \A s \in Slots : retrieve(cache, s) <=> s \in cache.aliasMap

\* The slots met by following next from start; longer than Entries if next 
\* runs in a circle.
Chain(start, next) ==
  LET After(s) == IF s = NONE_ENTRY THEN NONE_ENTRY ELSE next[s]
      At[k \in 1 .. Entries + 1] == IF k = 1 THEN start ELSE After(At[k - 1])
  IN SelectSeq(At, LAMBDA s : s # NONE_ENTRY)

\* The pool implements the LRU table of AliasCacheSpec: read along the LRU
\* list from the newest slot, with the NOT_RESPONDING aliases resolved, every
\* call returns what the table returns and calls back for the same pairs.
Resolved(m) == [m EXCEPT !.alias = resolve_notresponding(m.alias)]
Abstract == INSTANCE AliasCacheSpec WITH
  lru <- LET down == Chain(cache.newest, cache.older) IN
         [i \in 1 .. Len(down) |-> Resolved(Mapping(cache, down[i]))],
  removed <- [i \in 1 .. Len(removed) |-> Resolved(removed[i])]

ImplementsTable == Abstract!Spec

=============================================================================
