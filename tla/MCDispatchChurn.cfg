SPECIFICATION FairSpec
CONSTANTS
    Handlers = {h1, h2, h3}
    NULL = NULL
    Keys <- MCKeys
    Match <- MCMatch
    Msgs <- MCMsgs
    MultiKey = FALSE
    MidOps = {"register", "unregister"}
    MaxMid = 2
    OnExecutor = TRUE
    fallbackHandler = fallback
    MaxSlots = 3
INVARIANT AllMatchingCalled
PROPERTY CalledWhileRegistered
PROPERTY DispatchEnds
