SPECIFICATION MCSpec
CONSTANTS
  BlockSize = 2
  MaxNewTokens = 3
  MinNewTokens = 0
  RolloutMaxPromptLen = 2
  LocalMaxRunning = 2
  PromptLens = {1, 3, 5}
  MaxRows = 3
  Continuous = TRUE
  Cancellable = FALSE
  GivenSizes <- NoGivenSizes
  Window = 2
  ConvKernel = 3
  SegBlock = 2
  KeyTile = 2
  NumSplits = 2
  CapturedGraphs = {2}
  MaxScore = 2
  Score <- MCScore
  Value <- MCValue
  Boundaries <- MCBoundaries
  Windows <- MCWindows
  Tiles = {1, 2, 3}
  HeadPairs <- MCHeadPairs
  Tables <- MCTables
  KernelBlock = 2
  Masks <- MCMasks
  Taps = {1, 3}
  Models <- MCModels
  Members = 2
  LocalExperts = 2
  TopK = 2
  NumGroups = 2
  TopkGroup = 1
  TokenLogits <- MCLogits
  Bias <- MCBias
  TileM = 3
  SmallRoutes = {0, 9}
  Workers = 2
  Scaling = 2
  Silu <- MCSilu
  SiluSlope <- MCSlope
INVARIANT RolloutReadsItsHistory
INVARIANT KernelsAgree
INVARIANT LayersOwnTheirCaches
INVARIANT ExpertsAgree
CHECK_DEADLOCK FALSE
