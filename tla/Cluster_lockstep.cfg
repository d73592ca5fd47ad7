SPECIFICATION Spec
CONSTANTS
  TpSize = 2
  DpSize = 1
  Shapes <- MixedShapes
  MaxCalls = 3
  MaxQuiet = 0
  MaxFaults = 0
  CanRaise = FALSE
  CanKill = FALSE
  CanTimeOut = FALSE
INVARIANT RanksAgree
INVARIANT OthersInOrder
