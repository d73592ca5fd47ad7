SPECIFICATION MCSpec
CONSTANTS
  Roles = {"ref", "critic", "reward"}
  Requests <- MCRequests
  MaxUpdates = 2
  MaxVersion = 6
  MaxBatches = 3
  MaxCalls = 2
INVARIANT ReadyMeansLoaded
INVARIANT OneModelOnDevice
INVARIANT PassesFindTheirModel
INVARIANT RolesKeepTheirPart
PROPERTY LearnsOnPolicy
PROPERTY FitEnds
