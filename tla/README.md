# LytQueue in TLA+

Specifications of LytQueue, the job queue in `src/`: worker processes, an API
process that also runs a watchdog and a scheduler, one MySQL and one Redis.
Everything here is about what these threads and processes do to the shared
tables and queues when their steps interleave, when a process is killed and
when a call fails; how the tables come into being while processes start; and
what others get to see of a worker and of the jobs done.

- [Inventory of the system](#inventory-of-the-system)
- [Modules](#modules)
- [From the code to the model](#from-the-code-to-the-model)
- [Runs](#runs)
- [Fairness](#fairness)
- [Proofs](#proofs)
- [Where the code and its documentation part](#where-the-code-and-its-documentation-part)
- [What is not modelled](#what-is-not-modelled)
- [Plan](#plan)

## Inventory of the system

| Component | State | Operations | Correct when |
|---|---|---|---|
| Tables (`core/db.py`) | rows of `jobs`, `workers`, `schedules`, `logs` | one autocommitted connection per call; `update_job` is an UPDATE and then a SELECT | rows move along the life cycle; a row says the truth about who works on it |
| Queues (`core/queue.py`) | Redis lists `queue:high/medium/low/dlq` | `push_job` (LPUSH), `pop_job` (BRPOP over three lists in order) | each live job is in at most one place, in the queue of its priority |
| Worker (`worker/worker.py`) | `running`, executor queue, `_active_jobs`, one call of `_process_job` per thread | start, pop and submit, process, retry with backoff, DLQ, heartbeat, stop, drain | a popped job is completed, retried, or dead; retries end; stopping loses nothing |
| Watchdog (`core/watchdog.py`) | loop variables of the pass | find late workers, mark OFFLINE, select RUNNING rows, re-queue each | every RUNNING job of a dead worker goes back to its queue, once |
| Scheduler (`core/scheduler.py`) | loop variables of the pass | fire one-time jobs; fire recurring schedules and advance them | due jobs and schedules are fired, once per due time |
| Jobs API (`api/routes/jobs.py`) | locals of a handler | submit, retry, cancel, delete, reads | what was checked still holds when it is acted on, or no harm is done |
| Schedules API (`api/routes/schedules.py`) | locals of a handler | create, pause, resume, delete, reads | no missed or extra runs after a pause |
| API process (`api/main.py`) | threads of watchdog and scheduler | start in the background, stop | its threads run whatever happened before; its death loses no job |
| Schema (`init_schema`, `init_schedule_schema` in `core/db.py`) | the tables and columns that exist | CREATE TABLE IF NOT EXISTS, two ALTERs, run by every process that starts | any number of simultaneous starts ends with a complete schema |
| Metrics (`core/metrics.py`, `api/routes/metrics.py`) | none | counts, runtimes, histogram, figures per worker | what is counted is what happened |
| Workers and observability API | none | `_enrich_worker`, reads | a worker is shown as it is |
| Dashboard | one HTML page | | |
| `core/store.py` | an in-memory dict | not imported by anything | |

How they interact: the processes share nothing but MySQL and Redis. A handler,
a watchdog pass or a `_process_job` call is a sequence of database and Redis
calls with no transaction around it. FastAPI runs the (plain `def`) handlers
in a thread pool, so several run at once, together with both background
threads; each worker has a main thread, a heartbeat thread and pool threads.

What is hard:

- *the row and the message are two things*: every hand-over writes one and then
  the other (save then push, pop then mark RUNNING, mark QUEUED then push), and
  a kill or an exception can fall in between;
- *prefetching*: the main thread pops without limit and hands jobs to the
  executor's own queue, where a job is in no Redis list and its row still says
  QUEUED;
- *silence is not death*: the watchdog concludes from a late heartbeat that a
  worker is dead, and so hands out a second time the jobs of a slow one, or of
  one that is draining (whose heartbeat has stopped);
- *check, then act* in every handler, and in the scheduler's and the watchdog's
  passes, which act on a SELECT made before;
- *the same id comes back*: `docker-compose.yml` gives the worker the fixed id
  `worker-1`; it has no restart policy, so it is an operator who starts a killed
  worker again;
- *a datetime that json.dumps rejects*: `_fix_job` does not convert `run_at`,
  so every later push of a job that has one raises, after the row was updated;
- *several writers of one row*: a row of `workers` is written by the heartbeat
  thread, by the process when it signs off and by the watchdog, and the heartbeat
  reads `_active_jobs` some time before it writes what it read;
- *a migration in two statements*: MySQL commits each ALTER by itself, one test
  decides about both, and several processes start at once;
- *time*: retries and backoff, heartbeat timeout, recurring due times.

`PROJECT.json` lists the hazards one by one with their lines, and the
properties that watch them.

## Modules

| Module | What it is |
|---|---|
| `Store` | tables and queues; each operator is one call of `core/db.py` or `core/queue.py` |
| `Worker` | worker processes, their heartbeat and pool threads |
| `Watchdog` | a pass of `_check_workers` and `_recover_jobs` |
| `Scheduler` | a pass of `_fire_scheduled_jobs` (one-time jobs) |
| `JobsApi` | the state-changing handlers of `/jobs` |
| `JobLifecycle` | abstract: the moves of a job's row and its attempts, as the code makes them, without workers, queues or messages |
| `Metrics` | what `core/metrics.py` computes from the tables, as operators: which rows count, the figures of a worker |
| `Platform` | composes the six above, adds the death of the API process, states the properties, and implements `JobLifecycle` |
| `MCPlatform` | `Platform` for TLC: model values and symmetry |
| `Schedules` | the scheduler's pass with a clock: recurring schedules behind the one-time jobs that are due, and the `/schedules` handlers |
| `MCSchedules` | `Schedules` for TLC |
| `Startup` | the initialisation of the schema by all processes that start, and `_startup_background` |
| `Monitoring` | a worker as others see it: `_active_jobs`, its row, its heartbeats, its sign-off, its health |
| `PlatformProofs` | `Platform`: type correctness |
| `CustodyProofs` | `Platform`: no silent loss of jobs |
| `RowProofs` | `Platform`: a job waits in the queue of its priority, and a RUNNING row is true |
| `SightProofs` | `Platform`: the watchdog's pass misses no row |
| `CrashProofs` | `Platform` when processes are only killed: one copy of a job, timestamps, counters, the watchdog, and the refinement of `JobLifecycle` |
| `SchedulesProofs` | `Schedules`: types, counted runs, early runs |
| `StartupProofs` | `Startup`: what an initialisation leaves behind |
| `MonitoringProofs` | `Monitoring`: types, and `_active_jobs` is right |

`Store` is extended by the four component modules and by `Metrics`, and
`Platform` extends those; its `Next` lets one component move and leaves the
private variables of the others alone. The other three stand by themselves:

- `Schedules` hands to the rest only a job row and its push, the same pair of
  calls as in `submit_job`, and its properties need a clock that would multiply
  the states of `Platform`. Of one-time jobs it knows only that each one that is
  due costs a pass.
- `Startup` is about the time before there are tables.
- `Monitoring` is a finer view of a part of `Platform`: there a row of `workers`
  is ONLINE or OFFLINE and fresh or not; here it has the status and the job
  that are shown and an age, and a heartbeat is a read and, later, an UPDATE.
  Which jobs a worker gets is left open.

## From the code to the model

One action is one call of MySQL, Redis or the executor, with the local
computation around it. That is the granularity at which the threads really
interleave, because each call is autocommitted and everything else is local. A thread's
position is its `pc`: the name of the call it will make next. Examples:

| Code | Model |
|---|---|
| `Worker.start`, one turn of the loop | `PopJob`; the pop that was under way when `stop()` came is the last one |
| `_process_job` | `StartTask`, `PickUp`, then `Complete`, `Count` or `ExecuteFails`, then `RetryLater`, `Refetch`, `Requeue` or `GiveUp`, `PushDLQ` |
| `update_job` (UPDATE and SELECT) | two steps when the returned dict is used later: `RetryLater`/`Refetch`, `RecoverJob`/`RefetchStuck`, `RetryJob`/`RefetchJob` |
| an exception at any call | `PopRaises`, `ShutdownRaises`, `PickUpThenRaise`, `CountRaises`, `ThreadRaises`, `WatchdogRaises`, `SchedulerRaises`, `ClientRaises`, each ending where the nearest `except` is |
| `json.dumps` of a dict with a datetime | `push_or_raise` with `doc.raw` |
| a row deleted between UPDATE and SELECT | `get_job` gives `NoDoc`, pushed as `null`; the thread that pops it fails at `job_data["id"]` (`DropNull`) |
| `_heartbeat_loop` | in `Platform` `Heartbeat`, and `Silence` for the passing of `HEARTBEAT_TIMEOUT` without one; in `Monitoring` `ReadActive`, then `WriteBeat` or `WriteBeatRaises`, and `Tick` |
| `_active_jobs` | `PickUp` adds the id, `Finish` (the finally clause) discards it, `PickUpRaises` leaves it |
| `_graceful_shutdown` | in `Platform` `Shutdown` or `ShutdownRaises`; in `Monitoring` `SignOff` or `SignOffRaises`, after which the heartbeat thread goes on until `Exit` |
| `_enrich_worker` | `heartbeat_healthy` |
| `_check_workers` | `CheckWorkers` (one SELECT, all ages from it), `MarkOffline`, `SelectStuck`, then per row `RecoverJob`, `RefetchStuck`, `PushStuck` |
| `retry_job`, `cancel_job`, `delete_job` | `Check...` and then the write, as separate steps |
| a turn of `_scheduler_loop` | `FireOneTime` (which ends it, since json.dumps raises) or `NoneToFire`, `FindDueSchedules`, then per schedule `CreateJob`, `PushCreated`, `AdvanceSchedule` |
| `init_schema`, `init_schedule_schema` | `CreateTable` per table, `CountColumns`, then `AddColumn` twice, or `DuplicateColumn` if another process was faster |
| `_startup_background` | the same, then `StartWatchdog` and `StartScheduler`, also after a raise |
| `get_runtime_stats_by_type`, `get_worker_performance` | `Measured`, `get_worker_performance` |

Abstractions, and why they are sound for the properties stated:

- A job is its status, priority, retry count, worker and whether `run_at`,
  `started_at` and `completed_at` are set (which decides what the metrics count).
  Payload, the values of timestamps, error texts and logs influence no control
  flow.
- In `Platform`, worker status ONLINE stands for IDLE and RUNNING, which only
  the reader of `/workers` tells apart; `Monitoring` has both.
- In `Monitoring`, ages are counted in ticks and all ages beyond
  `HEARTBEAT_TIMEOUT` are one value, since every comparison treats them alike.
- In `Startup`, a table or column exists or not; no statement looks at more.
- In `Platform`, time is abstracted away: `fresh` says whether the heartbeat is
  at most 15 s old; a SCHEDULED job may be due at any moment; a backoff may last
  any time; `execute_job` returns or raises, at any time.
- The loops of a pass take their rows in any order.
- A call that raises has no effect, unless a separate step or disjunct says
  otherwise (for instance the UPDATE done and the SELECT after it failing is the
  UPDATE's step followed by a raise).
- A killed process loses what it held in memory and nothing else. MySQL and
  Redis themselves do not lose data.
- MySQL and the processes agree on UTC (the code compares `NOW()` with UTC
  timestamps).
- In `Platform`, a heartbeat is one step and none comes after the sign-off;
  `Monitoring` has those. In `Platform` the worker has no job left by then,
  so all such a heartbeat does is to make the watchdog find it once more.
- The API process is stopped in good order (`stop_watchdog`, `stop_scheduler`)
  as it dies: a pass under way goes no further, or has just ended.
- A log call that fails inside `_recover_jobs` after the push is the failure of
  the next call of the pass.

Bounds that exist only for TLC are constants: `MaxErrors`, `MaxCrashes`,
`MaxOutages`, `MaxStalls`, `MaxStops`, `MaxRetriesApi` in `Platform`;
`MaxTime`, `MaxErrors`, `MaxOutages`, `MaxResumes` in `Schedules`; `MaxErrors`,
`MaxKills` in `Startup`; `MaxErrors`, `MaxCopies` in `Monitoring`, where starts,
stops and kills are not limited. `env` counts what they limit. `Jobs` bounds the
submissions, `OneTime` the one-time jobs of `Schedules`. `SubmitPriorities`, `RunAts`
and `Ops` select what clients ask for. The proofs hold for every value of all
of these.

## Runs

The runs of `Platform` use a small `Jobs`, since jobs meet only in queues and
in a pass of the watchdog; two workers, because recovery and double execution
take two; and the smallest `MAX_RETRIES` (2) that has both a retry and a death,
except where liveness is about the real value 3.

| Run | Instance | Checks |
|---|---|---|
| `races` | 1 job, 2 workers, 2 clients doing submit, retry, cancel and delete, with and without future `run_at`, one stop | `TypeOK`, `NothingLost`, `RunningMeansRunning`, `PriorityKept` |
| `faults` | 1 job, 2 workers, restarts; one kill, one failing call, one death of the API process, one stop; no `run_at`, since both properties are about jobs without | `NoSilentLoss`, `ForgottenForAReason` |
| `crash` | 2 jobs, 2 workers with 2 threads, 2 kills, one client doing submit, cancel and one retry, every kind of `run_at` | `SingleCarrier`, `StuckJobsAreWatched`, `StatusHasItsTimes`, `CountersAgree`, `RefinesLifecycle` |
| `liveness` | 1 job, 2 workers, `MAX_RETRIES` 3, one kill, one late heartbeat of a live worker, one retry request | `NothingLost`, `RunningMeansRunning`, `EveryJobSettles`, `CrashedJobRecovered` |
| `schedules` | one interval, one finite cron expression, one one-time job, one handler, one failing call, one API death, one resume, 4 instants | `SchedulesTypeOK`, `RunsAreCounted`, `EarlyRunsHaveACause`, `DueSchedulesAreServed` |
| `startup` | 2 API processes, 1 worker process, one failing call, 2 kills | `StartupTypeOK`, `InitialisedMeansUsable`, `HalfMigratedIsInProgress`, `SchemaGetsCompleted`, `LoopsAlwaysStart` |
| `monitoring` | 1 worker with 2 threads, 2 jobs, timeout of 2 ticks, one failing call, one job that comes twice | `MonitoringTypeOK`, `ActiveJobsAreReal`, `GoneWorkersGoOffline`, `LiveWorkersComeBack`, `NoGhostJobs` |

Why these bounds are enough where the reason is not in the table: two API
processes are a winner and a loser of the race for the columns, and two kills
let both, or one twice, die in it. One worker is enough for `Monitoring`, where
workers share nothing but the pass of the watchdog; two jobs and two
threads are what it takes for a heartbeat to have a choice and for one thread
to discard the id of another; a timeout of two ticks has an age that is healthy,
one that is neither healthy nor late, and one that is late. Four instants are
two runs of the interval, and both ticks of the cron expression with its end.

What they show:

- **`NothingLost`**: as long as no process is killed and no call raises, every
  row without a `run_at` that says QUEUED or RUNNING has a queue entry or a
  thread that will act on it. This is the property at risk in every race of the code: two retries of one
  DEAD job, a job recovered from a live worker that then finishes it, a delete
  between check and start. None of them strands a job; they make it run twice,
  or not at all because it is gone. In `races` a job is recovered from a live
  worker because that worker was stopped, in `liveness` because a heartbeat was
  late. Jobs with a `run_at` are excluded, and with them all that cancel and the
  scheduler do; they are the subject of `fired_not_pushed`.
- **`NoSilentLoss`**: with faults, a job becomes lost only in the very step of a
  fault, so what is lost can be blamed on one kill or one exception. The hand-overs
  themselves never drop one. That faults do lose jobs is not denied by it: see
  `crash_loses`.
- **`ForgottenForAReason`**: also in `faults`. A lost RUNNING row (of a job without
  a `run_at`) is forgotten when its worker is OFFLINE in the table and the
  watchdog's pass has neither the worker nor the row in hand: nothing in the code
  will look at it, unless a worker comes back under that id and is marked OFFLINE
  once more. That takes a fault (the API process dies in
  the pass, say), a document that json.dumps rejects, or a sign-off. The pass
  itself, the heartbeats and restarts that come in between, and the writes of
  other threads never make a row fall out. The run has no job
  with a `run_at`, so the second cause does not occur in it; the theorem covers it.
- **`RunningMeansRunning`**: a RUNNING row names a worker with a thread on that
  job, even while the job runs twice and each copy overwrites the other's row.
- **`PriorityKept`**: the queue is computed in four places (submission, retry by
  hand, watchdog, and the worker's retry, which takes the queue the message came
  from); they agree.
- **`SingleCarrier`**: with kills only, crash
  recovery never duplicates a job. Late heartbeats, stops and concurrent
  requests do duplicate one, which is why this run has none of them. The next
  four are about this run, too, and hold under its conditions.
- **`StuckJobsAreWatched`**: whichever worker is killed and whenever, a RUNNING
  row without a thread belongs to a worker the watchdog will still look at. There
  is one exception, and the last disjunct says so: another job with a
  `run_at`, whose recovery raises and ends the pass.
- **`StatusHasItsTimes`**: a status and the timestamps that go with it are
  written in many places; they agree, so that the statistics count every
  COMPLETED job and no other. This is lost when a job runs twice.
- **`CountersAgree`**: `jobs_processed` of a worker and its COMPLETED rows, which
  are shown side by side, differ only by kills, and then the counter is behind.
  This is lost when a job runs twice, and when a COMPLETED job is deleted, which
  takes nothing but the API.
- **`RefinesLifecycle`**: the rows implement
  `JobLifecycle`, with `status` and `retry_count` as the refinement mapping: a
  job that is not cancelled dies after exactly `MAX_RETRIES` failed attempts,
  recovery does not count as one, and no row moves backwards, except that the
  scheduler puts back to QUEUED a job cancelled since its SELECT
  (`FireCancelled`). It is the life cycle of the code: `README.md:97-111` draws
  another one, see below.
- **`EveryJobSettles`**, **`CrashedJobRecovered`**: below.
- **`RunsAreCounted`**: `run_count` never exceeds the jobs pushed, and falls short
  of the jobs created only by what is accounted for. A crash between save, push
  and advance causes a duplicate and never a missed run.
- **`EarlyRunsHaveACause`**: jobs of a schedule keep the distance that
  `_compute_next_run` gives, however late a pass is (missed runs are not made
  up for), except after a fault or after a resume computed before the last job.
  Each term of the bound is needed: without any one of them TLC finds a
  violation.
- **`DueSchedulesAreServed`**: a due schedule is served or switched off,
  although each one-time job that is due first costs a pass.
- **`InitialisedMeansUsable`**: an initialisation that did not raise has left all
  tables and `run_at`, whoever else was starting or dying meanwhile.
- **`HalfMigratedIsInProgress`**: `run_at` without `schedule_id` is a passing
  state, unless a fault fell between the two ALTERs.
- **`SchemaGetsCompleted`**: without faults the schema becomes complete, although
  the loser of the race for the columns gives up.
- **`LoopsAlwaysStart`**: an API process that lives gets its watchdog and its
  scheduler, whether or not the initialisation raised.
- **`ActiveJobsAreReal`**: `_active_jobs` is the set of jobs on the threads, with
  the two exceptions that the property names.
- **`GoneWorkersGoOffline`**, **`LiveWorkersComeBack`**, **`NoGhostJobs`**: with
  three writers of one row, one of them with what it read earlier, the row
  settles on the truth: OFFLINE and unhealthy for a worker that is gone, not
  OFFLINE again and again for one that beats, no job for one that has none.

`CHECK_DEADLOCK FALSE` stands in the runs of `Platform`, `Schedules` and `Startup`
because a system that has done all its jobs, with all workers up or stopped for
good, has nothing to do, the clock of `Schedules` stops, and a start comes to an
end. `Monitoring` always has a next step, and deadlock is checked. Symmetry (ids
are only compared) is used in `races` and in `faults`, whose two temporal
properties speak of each step by itself; never with liveness or the refinement.

Each property of a passing run has a mutant in `PROJECT.json`: a change to one
action, written next to it in the module with a comment `Mutant:`, that makes TLC
report that property.

## Fairness

`Platform!FairSpec` has weak fairness on

- every thread of a worker (`MainStep`, `ThreadStep`), the watchdog, the
  scheduler and a request handler that has begun: they are operating-system
  threads in loops, or a request that is being served, and each blocks only on
  calls that return or raise;
- `Start`: a worker that was never started is started some day; with
  `Restarts` also after it ended, because somebody does it: nothing in
  `docker-compose.yml` would;
- `Heartbeat`: the thread beats every few seconds as long as `running`;
- `Silence` of a worker that no longer beats: time passes.

There is none on submissions, on stops, stalls, kills, raised calls or the API's
death: nothing makes them happen. `execute_job` may fail at every attempt: fairness is
on `ThreadStep` as a whole and not on `Complete`.

`EveryJobSettles` says that each job without a `run_at` comes to rest for good
unless there is a fault, also when a late heartbeat makes it run twice. (A stop is
in the safety runs only: with both, the states are too many for this one.)
`CrashedJobRecovered` that the RUNNING job of a killed worker is put back, provided
the worker was not already OFFLINE when it took the job (see below).

In `Schedules` the only fairness is on the scheduler's thread: requests may hang
and the clock may stand still. In `Startup` a process that has been launched goes
on; nothing makes one be launched. In `Monitoring` the clock, the watchdog and
the heartbeat threads go on; nothing is assumed of jobs, of stops, kills and
restarts, or of how fast a heartbeat is compared with the clock, so a
worker that beats may still be found late again and again.

## Proofs

Checked by TLAPS, for every set of jobs, workers, threads, clients, schedules
and processes, every `MAX_RETRIES`, `HEARTBEAT_TIMEOUT`, interval and cron
expression, and every bound. Every safety property that a passing run checks is
a theorem: the runs show it on small instances, the theorems for all. (Only the
cancellations in the run `crash` are outside of the theorems about kills.)

Assumed of the constants are the named assumptions of the modules
(`StoreAssumption`, `WorkerAssumption`, `JobsApiAssumption`, `PlatformAssumption`,
`SchedulesAssumption`, `MonitoringAssumption`, `StartupAssumption`), which TLC
evaluates in the runs. They say that `NoJob`, `NoWorker` and `NoSchedule` are no
ids, that no process is both an API and a worker, what the types of the others
are, and that `Requests` of `Schedules` is finite (FastAPI serves from a thread
pool of bounded size), which its proof needs in order to count requests.
Some theorems have hypotheses of their own; they are named below.

### No job is lost unnoticed (`PlatformProofs`, `CustodyProofs`)

- `TypeCorrect`: `Spec => []TypeOK`. `TypeOK` includes, besides types, that every
  thread that is in the middle of something knows its job and its queue. It is
  inductive; `PoolType`, `ProcessType`, `WatchdogType`, `SchedulerType` and
  `JobsApiType` treat one component each.
- `LossIsNeverSilent`: `Spec => NoSilentLoss`.
- `NothingIsLost`: `Spec => []NothingLost`.

The argument for the last two: `LostPlain(j)` can become true in a step only if
the row of `j` becomes live in it, or a place of `j` disappears. Whoever sets a
row QUEUED or RUNNING is from then on a place of the job itself (`PickUp`,
`RetryLater`, `RecoverJob`, `FireJob`, `RetryJob`, `SubmitNow`). And each step
that takes a job out of a place either puts it into another (push, pop, start of
a task, re-read of the row: `PushKeeps`, `TailKeeps`, `AppendKeeps`,
`GetCarries`) or writes a row that is no longer live (`Complete`, `GiveUp`,
`CancelJob`, `DeleteJob`). `Custody` puts the components together:

    TypeOK /\ [Next]_vars /\ Faults' = Faults /\ ~LostPlain(j) => ~LostPlain(j)'

Both theorems follow from it, with `FaultsGrow`. The invariant needs no
strengthening beyond `TypeOK`: it says nothing of how many places a job is in,
so double execution does not disturb it.

### What the rows say is true (`RowProofs`)

- `PriorityIsKept`: `Spec => []PriorityKept`, under every fault. `PriorityKept`
  speaks of queues, tasks and threads only; a job is also known to passes and
  requests that will push it, and an id that nobody has submitted must be known to
  nobody, or its first row could have another priority than a message
  that is already there. `QueueInv` adds both (`DocsFit`, `Unknown`): a dict on
  its way is of the job its holder has in hand, or null. It is the invariant
  that `CrashProofs` builds on, too.
- `RunningIsTrue`: `Spec => []RunningMeansRunning`. Together with `TypeOK` it is
  inductive as it stands. Only `PickUp` writes RUNNING (`OthersStop`), and then
  the row names the worker whose thread has just begun; a thread that stops
  being busy with `j` writes the row of `j` in the same step (`ThreadTruth`).

### The watchdog's pass misses no row (`SightProofs`)

- `PassMissesNoRow`: `Spec => ForgottenForAReason`, from any reachable state, under
  every fault.

`Custody` says that the job was lost before the step, and `StrayRowsStay` that its
row was the same: only `PickUp` writes RUNNING, and then there is a thread. A
worker's row turns OFFLINE only by a sign-off or by `MarkOffline`
(`TurnsOffline`), which takes the worker in hand in the same step. `Seen(w, j)`
is what the pass has in hand, and `PassKeepsSight` shows that a row that has not been
written stays in it. That needs `PassInv`: nothing is listed between passes,
and nothing selected before the SELECT, or `MarkOffline` would drop the rows
of the worker before.

### Kills alone do no more harm than they must (`CrashProofs`)

The theorems of this section have the hypothesis `CrashesOnly`, the conditions
of the run `crash` without its sizes: no call raises, no heartbeat is late, no
worker is stopped or comes back, and there is one client, which submits and
retries (the run lets it cancel, too). Kills of workers and of the API process are
not limited. None of the other conditions can go. With one late heartbeat, one stop, restarts, or two clients
retrying at once, TLC finds on one job and two workers states that violate each
of `SingleCarrier`, `StatusHasItsTimes` and `CountersAgree`: the job runs
twice. A call that raises has a COMPLETED job handled as a failed one or leaves it uncounted,
which violates the latter two, and a deleted row is missing from `CountersAgree`.

- `CrashesMakeNoCopies`: `Spec => []SingleCarrier`.
- `StatisticsAreOfTheCompleted`: `Spec => []StatusHasItsTimes`.
- `ImplementsLifecycle`: `Spec => RefinesLifecycle`, if `MAX_RETRIES` is not 0 (with
  0 the code still makes one attempt, and the row then says 1 of 0).
- `WatchdogForgetsNobody`: `Spec => []StuckJobsAreWatched`, if `MaxOutages = 0`: an
  API process that dies between the mark and the recovery leaves RUNNING rows
  of an OFFLINE worker behind.
- `WorkersAreCredited`: `Spec => []CountersAgree`, if `Jobs` and `Threads` are
  finite: it is about numbers of rows and threads.

`SingleCarrier` counts places, and is far from inductive: it does not say what
whoever makes a new copy (watchdog, scheduler, POST retry) knows. The inductive
`CrashInv` has, for each job, `OneCopy(j)`: `At(j, k, a, n)` says that there is a
copy in place `a`, of kind `k`, that knows of `n` failed attempts; there is one
such place at most (`Sole`), no list holds the job twice (`Once`), and the row
says which kind of place it is, and `n` (`Fits`): QUEUED for a message, a task or
a dict on its way, RUNNING and the worker for a thread that executes. So a row
that says SCHEDULED or DEAD has no copy, and a RUNNING row of a dead worker has
none. The rest of `CrashInv` is what holders have learnt
earlier and still know: the watchdog has in `due` and in `worker` only workers that are
gone for good, and in `stuck` rows that are still RUNNING and theirs
(`WatchdogFits`, `StuckStays`), the scheduler has rows still SCHEDULED, POST retry
a row still DEAD. `ThreadCopies`, `TaskCopies`, `ProcessCopies`,
`WatchdogCopies`, `SchedulerCopies`, `ClientCopies` and `OutageCopies` show that
`OneCopy` is kept, one for each kind of actor; `Moved` and `Handed` are what
all of them use.

With it the actor knows the row it writes, and `RowSteps` can say what happens
to the table in a step: nothing, or to one row one of `Submitted`, `Fired`,
`PickedUp`, `Handled`, `Recovered`, `RetriedByHand`. The other theorems argue about
these six: `TimesFit` (timestamps) is kept by each; each is
a step of `JobLifecycle` under the refinement mapping (`RowStepRefines`, with
`AttemptsLeft`: fewer than `MAX_RETRIES` attempts are spent while a job can
still run); only one of the ways to be `Handled` makes a COMPLETED row, and none
unmakes it, so `CountInv` can count with `CompleteCounts` and `OtherCounts`.

`WatchdogForgetsNobody` follows a RUNNING row that nobody works on: its worker is
ONLINE until the step that puts it into `wd.worker`, then `SelectStuck` puts
the job into `wd.stuck`, and only its own recovery, or a dict that json.dumps
rejects, takes it out (`WatchdogWatches`). In the latter case the dict comes from
a row with a `run_at` (`RawIsTold`), and no row ever loses its `run_at`
(`RunAtStays`).

### Schedules (`SchedulesProofs`)

- `SchedulesTypeCorrect`: `Spec => []SchedulesTypeOK`.
- `RunsAreCountedAlways`: `Spec => []RunsAreCounted`.
- `EarlyRunsAreCaused`: `Spec => []EarlyRunsHaveACause`.

The invariant says what a pass holds in its hands while requests change the rows:
an unsaved schedule is known to one request and to no pass (`SavedOnce`), the
snapshots of a pass are due, one per schedule, and their `run_count` is still
that of the row, since only the pass changes it (`SnapshotsHold`), and the job in
hand is the last one of its schedule (`InHandIsLast`). `Counted` is `RunsAreCounted`
without the job in hand. `Caused` adds to the early jobs of a
schedule the one that can still come (`Owing`: the row, or the snapshot that the pass has of
it, names a time that is too early) and the requests that have read the clock
and not yet written the row (`Resuming`): each of these has a
fault or a resume of its own. Without the last two the bound is not
inductive, since a resume is counted long before the early job it causes.

### Start-up and monitoring

- `StartupProofs!StartupTypeCorrect`, `InitialisedIsUsable` and `SchemaIsSafe`:
  `Spec => []StartupTypeOK`, `[]InitialisedMeansUsable` and
  `[]HalfMigratedIsInProgress`. The last two are not inductive by themselves:
  `Behind(p)` says what the position of a process has already put, or found, in
  the schema. `SchemaGrows` makes it stable under the steps of the others
  (`OthersStay`), `BehindStep` treats the process that moves, and `HalfStep` the
  step in which the process that was about to add `schedule_id` does so, fails,
  or dies, the last two of which set `cut`.
- `MonitoringProofs!MonitoringTypeCorrect` and `ActiveJobsAreRight`:
  `Spec => []MonitoringTypeOK` and `[]ActiveJobsAreReal`. Added to the latter
  is `OwnJob`: without copies, two threads of a worker have two jobs, so
  that the discard of one does not take the id of the other.

Only model-checked is all liveness (`EveryJobSettles`, `CrashedJobRecovered`,
`DueSchedulesAreServed`, `SchemaGetsCompleted`, `LoopsAlwaysStart`,
`GoneWorkersGoOffline`, `LiveWorkersComeBack`, `NoGhostJobs`): TLAPS does not do
fairness and ENABLED.

## Where the code and its documentation part

Five runs are expected to be violated:

- `crash_loses`: `README.md:138` says a worker failure does not lose jobs. A
  killed worker loses every job it had prefetched or was about to push again:
  the rows say QUEUED, the watchdog looks for RUNNING ones.
- `fired_not_pushed`: a job submitted with a future `run_at` is set QUEUED when
  due and then not pushed, because its dict holds a datetime. It is never run.
- `recovers_live`: the watchdog recovers "from dead worker" also the jobs of a
  worker that is finishing them after `stop()`, which ended its heartbeat.
- `id_reused`: a worker that is killed and restarted under the same id within
  15 s leaves the job it was running RUNNING for ever.
- `migration_cut`: `db.py:268` says the migration is "Safe to run multiple times".
  A process killed between the two ALTERs leaves `run_at` without `schedule_id`;
  the next start sees `run_at` and adds neither, and every submission raises.

Seen while modelling, without a run of their own:

- `README.md:97-111` draws a state FAILED, and three retries before the dead
  letter queue. No statement writes FAILED, and with `MAX_RETRIES = 3` there are
  three attempts, hence two retries (`worker.py:140-147`). `JobLifecycle` follows the code.
- A job cancelled between the scheduler's SELECT and its UPDATE is set QUEUED
  again (`scheduler.py:51`), and then not pushed.
- A DELETE of a COMPLETED job leaves the worker's counter above the number of its
  COMPLETED rows (`jobs.py:98`).
- A worker that is OFFLINE in the table (a late heartbeat, or draining) and takes
  a job and is killed before it beats again is skipped by the watchdog for ever
  (`watchdog.py:36`): without its condition on ONLINE, `CrashedJobRecovered` fails.
- A recovered job with a `run_at` ends the watchdog's pass with a TypeError; the
  other RUNNING jobs of that worker, by now OFFLINE, are never looked at: without
  its last disjunct, `StuckJobsAreWatched` fails in the run `crash`.
- When a call raises before the try block of `_process_job`, the id stays in
  `_active_jobs`, and the worker is shown RUNNING that job until its process
  ends (`worker.py:120-127`).
- A worker that has just been marked OFFLINE by its own sign-off is shown with a
  healthy heartbeat for up to 15 s (`workers.py:17`), and at an age of exactly
  15 s a worker is neither healthy nor late.
- A job can be deleted while it runs, and retried while it is queued: the status
  is checked in an earlier call (`jobs.py:70`, `jobs.py:98`).
- A worker that signs off marks itself OFFLINE (`worker.py:95`), also when an earlier
  life under its id, or a call that raised, has left a row RUNNING: the watchdog
  then skips that worker. Without its last disjunct, `ForgottenForAReason` fails
  in the run `faults`.
- `interval_seconds` may be negative: the first run is then in the past, which
  the docstring of `_parse_first_run` excludes, and the schedule fires in every
  pass.
- When a cron expression comes to an end, its last run is not counted in
  `run_count` (`scheduler.py:118-120`).

## What is not modelled

- Payloads, results, error texts, logs, and the reads of the API that do not
  decide about a write.
- Of the metrics: the histogram, throughput, slow jobs, averages and rounding,
  where all there is to say is what the SELECT, or the list comprehension, says.
- The order in which jobs of different priority are run once they are prefetched:
  the code makes no promise beyond the order of BRPOP, which `PopJob` has.
- What a request on a half-migrated table returns: it raises, which in `Platform`
  is a call that raises.
- `requeue_job` of `core/queue.py` and `core/store.py`, which nothing calls; the
  dashboard's HTML and the handlers' simulated work in `job_handlers.py`.

## Plan

Done, in this order: `Store`, `Worker`, `Watchdog`, `Scheduler`, `JobsApi`,
`Platform` with its safety, refinement and liveness runs, the type proof, the
custody proof; `Schedules`, with both halves of the scheduler's pass; `Metrics`;
`Startup` and `Monitoring` with their proofs; the proofs about rows, about the
watchdog's pass, about kills, and about schedules.

What could be proved next:

1. The safety half of `Monitoring`'s liveness: once a worker has signed off and
   its last heartbeat is written, no step but a start makes its row ONLINE.
2. The life cycle under every fault: `RowSteps` without `CrashesOnly`, as an
   abstract specification weaker than `JobLifecycle`, with what holds even when a job
   runs twice (a deleted row stays deleted, a job that was never picked up is
   never completed).
