SPECIFICATION MCSpec
CONSTANTS
  Requests <- MCRequests
  Items <- MCItems
  Contexts <- MCContexts
  Responses <- MCResponses
  MaxTurns = 3
  MaxContext = 5
  Expected = 2
  Calls <- MCCalls
  CommandLines <- MCCommandLines
  Full = 2
  Limit = 3
INVARIANT AnswersInInputOrder
INVARIANT RowsTellTheRollout
INVARIANT SizedAndTrained
CHECK_DEADLOCK FALSE
