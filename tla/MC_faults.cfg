SPECIFICATION Spec
CONSTANTS
  j1 = j1
  j2 = j2
  w1 = w1
  w2 = w2
  t1 = t1
  t2 = t2
  c1 = c1
  c2 = c2
  NoJob = NoJob
  NoWorker = NoWorker
  Jobs = {j1}
  Workers = {w1, w2}
  Threads = {t1}
  Clients = {c1}
  MAX_RETRIES = 2
  MaxErrors = 1
  MaxCrashes = 1
  MaxOutages = 1
  MaxStalls = 0
  MaxStops = 1
  Restarts = TRUE
  SubmitPriorities = {"high"}
  RunAts = {"none"}
  Ops = {}
  MaxRetriesApi = 0
SYMMETRY Symmetry
PROPERTIES
  NoSilentLoss
  ForgottenForAReason
CHECK_DEADLOCK FALSE
