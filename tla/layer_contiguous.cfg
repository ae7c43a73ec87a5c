SPECIFICATION AssignSpec
CONSTANTS
  W = 3
  Tflops = {1, 3}
  Limits = {0, 1, 2}
  LayerCounts = {0, 1, 3, 5}
  MasterTflops = {2}
  MasterLimits = {0, 1}
  Unlimited = 99
INVARIANTS
  Contiguous
