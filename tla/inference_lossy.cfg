SPECIFICATION FairLossySpec
CONSTANTS
  N = 5
  w1 = w1
  w2 = w2
  Workers = {w1, w2}
  Local = Local
  Owner <- SplitOwner
  MaxReq = 2
  PromptLens <- MCPromptLens
  SampleLens <- MCSampleLens
INVARIANTS
  ReplyPaired CleanHandover
PROPERTY
  EveryRequestAnswered
