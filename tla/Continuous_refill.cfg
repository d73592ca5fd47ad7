SPECIFICATION CFairSpec
CONSTANTS
  BlockSize = 2
  MaxNewTokens = 3
  MinNewTokens = 1
  RolloutMaxPromptLen = 2
  LocalMaxRunning = 2
  PromptLens = {1, 2, 5}
  MaxRows = 6
  Continuous = TRUE
  Cancellable = TRUE
  GivenSizes <- NoGivenSizes
  Shapes <- RefillShapes
  MaxCommands = 3
INVARIANT EachCommandOnce
INVARIANT OwnAnswer
INVARIANT JoinersFit
PROPERTY EveryCommandAnswered
