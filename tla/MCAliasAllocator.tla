-------------------------- MODULE MCAliasAllocator --------------------------
EXTENDS AliasAllocator, TLC

CONSTANTS ia, ib   \* two interfaces

OneNode == (ia :> {"n1"}) @@ (ib :> {"n2"})
SameSeed == (ia :> 1) @@ (ib :> 1)
Offsets == (ia :> 1) @@ (ib :> 3)
None == (ia :> 0) @@ (ib :> 0)
TwoEach == (ia :> 2) @@ (ib :> 2)
OnlyA == (ia :> 1) @@ (ib :> 0)
OnlyB == (ia :> 0) @@ (ib :> 1)

\* An interface alone on the bus, with two nodes.
SoloNodes == (ia :> {"n1", "n2"})
SoloOne == (ia :> 1)
SoloNone == (ia :> 0)
SoloThree == (ia :> 3)
=============================================================================
