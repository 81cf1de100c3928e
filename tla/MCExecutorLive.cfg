SPECIFICATION FairSpec
CONSTANTS
    NULL = NULL
    EXECUTOR = EXECUTOR
    pa = pa
    ta = ta
    tb = tb
    sa = sa
    Threads = {pa}
    Timers = {ta}
    Selectables = {sa}
    Fd <- MCFd
    Priority <- MCPriority
    Period <- MCPeriod
    NUM_PRIO = 1
    executor_select_prescaler = 1
    executor_max_sleep = 1
    MaxTime = 2
PROPERTIES AddedRuns DueTimerRuns ReadyServed
CHECK_DEADLOCK FALSE
