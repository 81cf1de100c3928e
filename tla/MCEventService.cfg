SPECIFICATION FairSpec
CONSTANTS
  Blocks = {1, 2, 4, 8}
  IdSpace = 8
  Registrations <- MCRegistrations
  InlineFlows = {"events"}
  IdentifyFlows = {"global", "addressed"}
  EventIds = {2, 5}
  NoCall = NoCall
  MaxChanges = 2
  MaxMessages = 2
INVARIANTS HelpersAvailable
PROPERTIES CalledLive AllServed ProcessingEnds
CHECK_DEADLOCK FALSE
