SPECIFICATION Spec
CONSTANTS
  j1 = j1
  j2 = j2
  w1 = w1
  w2 = w2
  t1 = t1
  t2 = t2
  c1 = c1
  c2 = c2
  NoJob = NoJob
  NoWorker = NoWorker
  Jobs = {j1, j2}
  Workers = {w1, w2}
  Threads = {t1, t2}
  Clients = {c1}
  MAX_RETRIES = 2
  MaxErrors = 0
  MaxCrashes = 2
  MaxOutages = 0
  MaxStalls = 0
  MaxStops = 0
  Restarts = FALSE
  SubmitPriorities = {"medium"}
  RunAts = {"none", "past", "future"}
  Ops = {"retry", "cancel"}
  MaxRetriesApi = 1
INVARIANTS
  SingleCarrier
  StuckJobsAreWatched
  StatusHasItsTimes
  CountersAgree
PROPERTIES
  RefinesLifecycle
CHECK_DEADLOCK FALSE
