SPECIFICATION Spec
CONSTANTS
  Apis = {a1}
  WorkerProcs = {w1}
  MaxErrors = 0
  MaxKills = 1
INVARIANTS
  SafeToRunAgain
CHECK_DEADLOCK FALSE
