SPECIFICATION KernelsSpec
CONSTANTS
    Launches <- MCLaunches
    Warps = 2
    Block = 2
    Side = 4
INVARIANT RowWide
