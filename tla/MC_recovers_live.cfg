SPECIFICATION Spec
CONSTANTS
  j1 = j1
  j2 = j2
  w1 = w1
  w2 = w2
  t1 = t1
  t2 = t2
  c1 = c1
  c2 = c2
  NoJob = NoJob
  NoWorker = NoWorker
  Jobs = {j1}
  Workers = {w1}
  Threads = {t1}
  Clients = {c1}
  MAX_RETRIES = 2
  MaxErrors = 0
  MaxCrashes = 0
  MaxOutages = 0
  MaxStalls = 0
  MaxStops = 1
  Restarts = FALSE
  SubmitPriorities = {"medium"}
  RunAts = {"none"}
  Ops = {}
  MaxRetriesApi = 0
PROPERTIES
  RecoversFromTheDead
CHECK_DEADLOCK FALSE
