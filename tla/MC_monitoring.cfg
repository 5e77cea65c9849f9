SPECIFICATION FairSpec
CONSTANTS
  Workers = {w1}
  Threads = {t1, t2}
  Jobs = {j1, j2}
  NoJob = NoJob
  HEARTBEAT_TIMEOUT = 2
  MaxErrors = 1
  MaxCopies = 1
INVARIANTS
  MonitoringTypeOK
  ActiveJobsAreReal
PROPERTIES
  GoneWorkersGoOffline
  LiveWorkersComeBack
  NoGhostJobs
