SPECIFICATION Spec
CONSTANTS
    f = f
    g = g
    Names = {f, g, h}
    Inodes <- MCInodes
    Blocks <- MCBlocks
    Image <- MCImage
    BLOCKS_MAX = 2
INVARIANTS
    NewBlock
