SPECIFICATION AssignSpec
CONSTANTS
  W = 3
  Tflops = {0, 1, 3}
  Limits = {0, 1, 2}
  LayerCounts = {0, 1, 3, 7, 9}
  MasterTflops = {0, 2}
  MasterLimits = {0, 1}
  Unlimited = 99
INVARIANTS
  LInv Partition Fits MasterRelieved Proportional
