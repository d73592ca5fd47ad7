SPECIFICATION FairSpec
CONSTANTS
  BlockSize = 6
  MaxNewTokens = 3
  MinNewTokens = 0
  RolloutMaxPromptLen = 1
  LocalMaxRunning = 2
  PromptLens = {1, 3, 5}
  MaxRows = 4
  Continuous = FALSE
  Cancellable = FALSE
  GivenSizes <- NoGivenSizes
INVARIANT BlocksConserved
INVARIANT NoExhaustion
INVARIANT RowsAreServed
PROPERTY EveryRolloutEnds
