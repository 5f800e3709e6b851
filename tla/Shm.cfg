SPECIFICATION Spec
CONSTANTS
    Pids = {0, 1}
    SHM_MAX = 2
    SIZES = {1, 2}
    PAGES = 4
    IDS = 3
INVARIANTS
    Tiled
    RefsOK
    Isolated
