---------------------------- MODULE MCDispatcher ----------------------------
(* Instances of Dispatcher for TLC: a key that selects one message, and a  *)
(* key that selects every message (mask 0).                                *)
EXTENDS Dispatcher, TLC

MCMsgs == {"m1", "m2"}
MCKeys == {"k1", "any"}
MCMatch == [k \in MCKeys |-> IF k = "k1" THEN {"m1"} ELSE MCMsgs]
HandlerSymmetry == Permutations(Handlers)
=============================================================================
