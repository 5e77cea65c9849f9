SPECIFICATION FairSpec
CONSTANTS
  Apis = {a1, a2}
  WorkerProcs = {w1}
  MaxErrors = 1
  MaxKills = 2
INVARIANTS
  StartupTypeOK
  InitialisedMeansUsable
  HalfMigratedIsInProgress
PROPERTIES
  SchemaGetsCompleted
  LoopsAlwaysStart
CHECK_DEADLOCK FALSE
