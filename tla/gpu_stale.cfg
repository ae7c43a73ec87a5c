SPECIFICATION GpuSpec
CONSTANTS
    Addresses = {1, 2}
    NumWeights = 0
    Halves = {FALSE}
    Fifo = 1
    MaxTensors = 6
    MaxViewed = 6
    MaxBuffers = 8
CHECK_DEADLOCK FALSE
INVARIANT ReadsFresh
