SPECIFICATION MCSpec
CONSTANTS
  Reqs = {r1, r2}
  MaxThreads = 2
  Clients = {c1, c2}
  Inside = {0, 1, 2}
  Hidden = {}
  ListCap = 2
  MatchCap = 2
  ReadCap = 2
  Items = {1, 2}
  TurnLimit <- MCTurnLimit
  Calls <- MCCalls
  MODEL_QUERY_RETRIES = 2
  MaxTurns = 3
  MaxSubmits = 3
  MaxChunks = 2
  Handlers = {1, 2}
  Configs <- MCConfigs
  Shells <- MCShells
  Output <- MCOutput
  DefaultDir = "tmp"
  SampleTail = 1
  ScalarTail = 1
  RegistryCap = 1
  MaxJobs = 1
  MaxProcs = 2
  MaxLives = 2
  AgentRounds = 2
  Replies <- MCReplies
INVARIANT RolloutsInsideSession
INVARIANT AnswersAreGenuine
INVARIANT NoRolloutCut
INVARIANT TurnsAreWhatTheModelSaw
INVARIANT SolvedMeansJudged
INVARIANT CommandsReportTheirEnd
INVARIANT PatchesLandWhole
INVARIANT DashboardTellsTheTruth
PROPERTY EveryFrontAnswers
CHECK_DEADLOCK FALSE
