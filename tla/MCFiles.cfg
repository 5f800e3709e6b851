SPECIFICATION FairSpec
CONSTANTS
    Slots = {1, 2}
    Fds <- MCFds
    Nodes = {n1, n2}
    QMAX = 2
    HAUNTED_MAX = 1
INVARIANTS
    RefsOK
    ViewsOK
PROPERTIES
    ViewsGo
