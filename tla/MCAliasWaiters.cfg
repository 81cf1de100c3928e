SPECIFICATION FairSpec
CONSTANTS
  ia = ia
  ib = ib
  Ifs = {ia}
  NodesOf <- SoloNodes
  Clients = {"global","addressed"}
  AliasCount = 4
  InitialSeed <- SoloOne
  Offset <- SoloOne
  CidFrames = 1
  Reserve = 1
  Requests <- SoloNone
  Timely = FALSE
  MaxMessages <- SoloThree
  MaxDeletes = 1
  MaxRestarts = 1
INVARIANT WaitersCovered
PROPERTIES ClientServed
CHECK_DEADLOCK FALSE
