---------------------------- MODULE MCAliasCache ----------------------------
(* AliasCache on a small pool.  What a call does depends on the cache alone, *)
(* so states that differ only in the record of the last call are explored    *)
(* once.                                                                     *)
EXTENDS AliasCache

CacheView == cache
=============================================================================
