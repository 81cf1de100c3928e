------------------------------ MODULE MCPools ------------------------------
(***************************************************************************)
(* Instances of Pools for TLC.                                             *)
(***************************************************************************)
EXTENDS Pools

CONSTANTS f1, f2, f3, b1, h1
=============================================================================
