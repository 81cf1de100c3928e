SPECIFICATION Spec
CONSTANTS
  a1 = a1
  a2 = a2
  Addrs = {a1, a2}
  Reads <- TwoReads
  MaxSize = 7
  RawSize = 2
  MaxBytes = 2
  SendBuffers = 2
  FrameBytes = 2
  MaxPayload = 9
  MaxStreamId = 1
  EarlierReads = {0, 1}
  Window = 3
  LastBuffers = 2
  NoStream = 255
INVARIANT Reusable
CHECK_DEADLOCK FALSE
