SPECIFICATION FairSpec
CONSTANTS
    p1 = p1
    p2 = p2
    Procs <- MCProcs
    Fds = {3, 4, 5}
    BUFFER_SIZE = 2
    SIZES = {1, 3}
    BYTES = 6
INVARIANTS
    RefsOK
    InOrder
    NoLostWakeup
PROPERTIES
    EndOnlyAlone
    LeftAloneReturns
