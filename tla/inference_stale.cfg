SPECIFICATION LossySpec
CONSTANTS
  N = 4
  w1 = w1
  w2 = w2
  Workers = {w1, w2}
  Local = Local
  Owner <- MixedOwner
  MaxReq = 2
  PromptLens <- MCPromptLens
  SampleLens <- MCSampleLens
INVARIANT
  StartsClean
