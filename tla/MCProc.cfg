SPECIFICATION Spec
CONSTANTS
    PROC_MAX = 3
    Pids <- MCPids
    Events = {1}
    SLEEP_MAX = 2
    CRITICAL_MAX = 0
    Detachers = {"PROC"}
INVARIANTS
    RingOK
    KernelOK
    ContextOK
    WaitersOK
    TreeOK
    SpaceOK
PROPERTIES
    WaitPidReturns
