SPECIFICATION Spec
CONSTANTS
  BlockSize = 2
  MaxNewTokens = 3
  MinNewTokens = 1
  RolloutMaxPromptLen = 2
  LocalMaxRunning = 2
  PromptLens = {1, 2, 4}
  MaxRows = 3
  Continuous = FALSE
  Cancellable = TRUE
  GivenSizes <- TightSizes
PROPERTY ServedRowsStayServed
PROPERTY CancelStopsDecoding
