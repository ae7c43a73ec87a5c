SPECIFICATION Spec
CONSTANTS
  w0 = w0
  w1 = w1
  m0 = m0
  m1 = m1
  l0 = l0
  l1 = l1
  Masters = {m0, m1}
  Workers = {w0, w1}
  Layers = {l0, l1}
  Plans <- MCPlans
  Name <- MCName
  Order <- MCOrder
  MinWorkers = 0
  MaxAttempts = 2
  MaxStarts = 2
  MaxCrashes = 1
CHECK_DEADLOCK FALSE
INVARIANTS SetupInv Routed
PROPERTIES Formed Settles
