--------------------------- MODULE AliasCacheSpec ---------------------------
(***************************************************************************)
(* What openlcb/AliasCache.hxx promises its clients: at most Entries pairs *)
(* (node ID, alias), no two with the same node ID, no two with the same    *)
(* real alias, ordered from the most to the least recently used.           *)
(***************************************************************************)
EXTENDS Integers, Sequences

CONSTANTS Entries, NodeIDs, Aliases, NOT_RESPONDING

VARIABLES lru,      \* the pairs, most recently used first
          call,     \* the last call and its arguments
          ret,      \* what the last call returned
          removed   \* the pairs the last call gave removeCallback

vars == <<lru, call, ret, removed>>

\* The pairs of s that satisfy a condition, or that do not, in order.
HasId(s, id) == SelectSeq(s, LAMBDA m : m.id = id)
HasAlias(s, alias) == SelectSeq(s, LAMBDA m : m.alias = alias)
LacksId(s, id) == SelectSeq(s, LAMBDA m : m.id # id)
LacksAlias(s, alias) == SelectSeq(s, LAMBDA m : m.alias # alias)

Init == lru = <<>> /\ call = <<"clear">> /\ ret = 0 /\ removed = <<>>

Clear == 
  /\ call' = <<"clear">>
  /\ lru' = <<>> /\ ret' = 0 /\ removed' = <<>>

\* A new pair displaces the pair of the same alias, then the pair of the same
\* node ID, and only if there still is no room the least recently used one.
Add(id, alias) ==
  LET noAlias == IF alias = NOT_RESPONDING THEN lru ELSE LacksAlias(lru, alias)
      kept == LacksId(noAlias, id)
      full == Len(kept) = Entries
  IN /\ call' = <<"add", id, alias>>
     /\ lru' = <<[id |-> id, alias |-> alias]>> 
                 \o (IF full THEN SubSeq(kept, 1, Entries - 1) ELSE kept)
     /\ removed' = (IF alias = NOT_RESPONDING THEN <<>> ELSE HasAlias(lru, alias))
                     \o HasId(noAlias, id)
                     \o (IF full THEN <<kept[Entries]>> ELSE <<>>)
     /\ ret' = 0

Remove(alias) == 
  /\ call' = <<"remove", alias>>
  /\ lru' = LacksAlias(lru, alias) /\ ret' = 0 /\ removed' = <<>>

\* Removal under the sentinel takes at most one of the nodes that did not
\* respond, and the caller does not know which.
RemoveNotResponding ==
  /\ call' = <<"remove", NOT_RESPONDING>>
  /\ ret' = 0 /\ removed' = <<>>
  /\ \/ UNCHANGED lru
     \/ \E i \in 1 .. Len(lru) :
          /\ lru[i].alias = NOT_RESPONDING
          /\ lru' = SubSeq(lru, 1, i - 1) \o SubSeq(lru, i + 1, Len(lru))

LookupId(id) ==
  LET found == HasId(lru, id) IN
  /\ call' = <<"lookup_id", id>>
  /\ ret' = IF found = <<>> THEN 0 ELSE found[1].alias
  /\ lru' = found \o LacksId(lru, id)
  /\ removed' = <<>>

LookupAlias(alias) ==
  LET found == HasAlias(lru, alias) IN
  /\ call' = <<"lookup_alias", alias>>
  /\ ret' = IF found = <<>> THEN 0 ELSE found[1].id
  /\ lru' = found \o LacksAlias(lru, alias)
  /\ removed' = <<>>

NextEntry(bound) ==
  LET ids == {lru[i].id : i \in 1 .. Len(lru)} IN
  /\ call' = <<"next_entry", bound>>
  /\ \/ ret' = 0 /\ \A id \in ids : id <= bound
     \/ /\ ret' \in ids /\ ret' > bound
        /\ \A id \in ids : id > bound => ret' <= id
  /\ removed' = <<>>
  /\ UNCHANGED lru

Next ==
  \/ Clear
  \/ \E id \in NodeIDs, alias \in Aliases \cup {NOT_RESPONDING} : Add(id, alias)
  \/ \E alias \in Aliases : Remove(alias)
  \/ RemoveNotResponding
  \/ \E id \in NodeIDs : LookupId(id)
  \/ \E alias \in Aliases : LookupAlias(alias)
  \/ \E bound \in NodeIDs \cup {0} : NextEntry(bound)

Spec == Init /\ [][Next]_vars

=============================================================================
