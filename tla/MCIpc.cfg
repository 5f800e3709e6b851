SPECIFICATION FairSpec
CONSTANTS
    Procs <- MCProcs
    Uses <- MCUses
    MSG_MAX = 3
    MemoryFails = TRUE
INVARIANTS
    NoLostWakeup
    AnswerIsOurs
    CallOnce
    ServedInOrder
PROPERTIES
    ImplementsRpc
    CallsReturn
