SPECIFICATION FairSpec
CONSTANTS
  TpSize = 2
  DpSize = 1
  Shapes <- MixedShapes
  MaxCalls = 2
  MaxQuiet = 1
  MaxFaults = 1
  CanRaise = TRUE
  CanKill = TRUE
  CanTimeOut = FALSE
PROPERTY EveryCallCompletes
