SPECIFICATION Spec
CONSTANTS
  ia = ia
  ib = ib
  Ifs = {ia, ib}
  NodesOf <- OneNode
  Clients = {"global"}
  AliasCount = 4
  InitialSeed <- SameSeed
  Offset <- Offsets
  CidFrames = 1
  Reserve = 0
  Requests <- None
  Timely = TRUE
  MaxMessages <- TwoEach
  MaxDeletes = 1
  MaxRestarts = 0
INVARIANTS UniqueAlias 
CHECK_DEADLOCK FALSE
