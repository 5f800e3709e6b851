SPECIFICATION ForkSpec
CONSTANTS
    HEADER = 2
    ALIGN = 2
    PAGE_SIZE = 12
    LIMIT = 36
    SIZES = {1, 4, 11}
INVARIANTS
    Granted
