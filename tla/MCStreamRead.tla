---------------------------- MODULE MCStreamRead ----------------------------
(* Two reads through streams for TLC: the first one is longer than two     *)
(* windows, the second one is from another address.                        *)
EXTENDS StreamRead

CONSTANTS a1, a2

TwoReads == <<[addr |-> a1, size |-> 7], [addr |-> a2, size |-> 1]>>
=============================================================================
