SPECIFICATION Spec
CONSTANTS
    NULL = NULL
    EXECUTOR = EXECUTOR
    pa = pa
    ta = ta
    tb = tb
    sa = sa
    Threads = {pa}
    Timers = {ta, tb}
    Selectables = {sa}
    Fd <- MCFd
    Priority <- MCPriority
    Period <- MCPeriod
    NUM_PRIO = 2
    executor_select_prescaler = 1
    executor_max_sleep = 2
    MaxTime = 2
INVARIANTS NoLostWakeup NoOverslept TimersListed 
CHECK_DEADLOCK FALSE
