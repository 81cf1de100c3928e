SPECIFICATION FairSpec
CONSTANTS
  ia = ia
  ib = ib
  Ifs = {ia, ib}
  NodesOf <- OneNode
  Clients = {"global"}
  AliasCount = 4
  InitialSeed <- SameSeed
  Offset <- Offsets
  CidFrames = 1
  Reserve = 0
  Requests <- OnlyB
  Timely = FALSE
  MaxMessages <- OnlyA
  MaxDeletes = 0
  MaxRestarts = 0
INVARIANTS NoSilentDuplicate
PROPERTIES DuplicateResolved
CHECK_DEADLOCK FALSE
