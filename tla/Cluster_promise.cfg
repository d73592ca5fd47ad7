SPECIFICATION Spec
CONSTANTS
  TpSize = 1
  DpSize = 2
  Shapes <- SplitShapes
  MaxCalls = 2
  MaxQuiet = 0
  MaxFaults = 0
  CanRaise = FALSE
  CanKill = FALSE
  CanTimeOut = TRUE
PROPERTY KeepsPromise
