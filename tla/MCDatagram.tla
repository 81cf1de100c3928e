----------------------------- MODULE MCDatagram -----------------------------
EXTENDS Datagram, TLC
CONSTANTS c1, c2, c3, c4, s1, d1
Sym == Permutations(Clients)
=============================================================================
