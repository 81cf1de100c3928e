CONSTANTS
  c1 = c1
  c2 = c2
  c3 = c3
  c4 = c4
  s1 = s1
  d1 = d1
  Clients = {c1, c2}
  Srcs = {s1}
  Dsts = {d1}
  NoMsg = NoMsg
  MaxFrames = 2
  FrameCounts = {2, 3}
  MaxWrites = 2
  MaxFaults = 1
SPECIFICATION FairSpec
INVARIANTS Exclusive Covered WokenOnce OneOutcome SuccessBacked Reassembled
PROPERTIES WriteEnds
CHECK_DEADLOCK FALSE
