SPECIFICATION FairSpec
CONSTANTS
  every = every
  cron = cron
  c1 = c1
  once = once
  OneTime = {once}
  RunAt <- MCRunAt
  NoSchedule = NoSchedule
  Schedules = {every, cron}
  Requests = {c1}
  Cron = {cron}
  Ticks <- MCTicks
  Interval <- MCInterval
  MaxTime = 3
  MaxErrors = 1
  MaxOutages = 1
  MaxResumes = 1
INVARIANTS
  SchedulesTypeOK
  RunsAreCounted
  EarlyRunsHaveACause
PROPERTIES
  DueSchedulesAreServed
CHECK_DEADLOCK FALSE
