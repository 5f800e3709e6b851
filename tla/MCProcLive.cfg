SPECIFICATION LiveSpec
CONSTANTS
    PROC_MAX = 3
    Pids <- MCPids
    Events = {}
    SLEEP_MAX = 1
    CRITICAL_MAX = 1
    Detachers = {"PROC"}
PROPERTIES
    HandlersEnd
    WaitersRun
    CriticalEnds
    ReadyRuns
