------------------------------- MODULE Platform ------------------------------
(***************************************************************************)
(* LytQueue as deployed by docker-compose.yml: worker processes, and one   *)
(* API process that serves requests and runs the watchdog and the          *)
(* scheduler, all sharing one MySQL and one Redis.  Every step is one      *)
(* database, Redis or executor call of one thread, so the steps of all     *)
(* threads interleave at call boundaries.                                  *)
(***************************************************************************)
EXTENDS Worker, Watchdog, Scheduler, JobsApi, Metrics

CONSTANT
  MaxOutages  \* bound: the API process is killed and comes back

ASSUME PlatformAssumption == MaxOutages \in Nat

vars == <<jobs, workers, queue, env, proc, running, pending, thread,
          wd, sch, client>>

Init == StoreInit /\ WorkerInit /\ WatchdogInit /\ SchedulerInit /\ JobsApiInit

TypeOK ==
  StoreTypeOK /\ WorkerTypeOK /\ WatchdogTypeOK /\ SchedulerTypeOK /\ JobsApiTypeOK

\* The API process dies in the middle of something and is started again:
\* requests, watchdog pass and scheduler pass are gone.
ApiCrash ==
  /\ env.outages < MaxOutages
  /\ wd # Asleep \/ sch # NoPass \/ \E c \in Clients : client[c] # IdleClient
  /\ env' = [env EXCEPT !.outages = @ + 1]
  /\ wd' = Asleep
  /\ sch' = NoPass
  /\ client' = [c \in Clients |-> IdleClient]
  /\ UNCHANGED <<jobs, workers, queue, worker>>

Next ==
  \/ WorkerNext /\ UNCHANGED <<wd, sch, client>>
  \/ WatchdogNext /\ UNCHANGED <<worker, sch, client>>
  \/ SchedulerNext /\ UNCHANGED <<worker, wd, client>>
  \/ JobsApiNext /\ UNCHANGED <<worker, wd, sch>>
  \/ ApiCrash

Spec == Init /\ [][Next]_vars

\* The operating system schedules every thread, both loops of the API process
\* run for ever, workers get launched, and time passes for a silent worker.
\* Nothing is assumed of clients' requests, stops, stalls, crashes or errors.
Fairness ==
  /\ \A w \in Workers :
       /\ WF_vars(Start(w) /\ UNCHANGED <<wd, sch, client>>)
       /\ WF_vars(MainStep(w) /\ UNCHANGED <<wd, sch, client>>)
       /\ WF_vars(Heartbeat(w) /\ UNCHANGED <<wd, sch, client>>)
       /\ WF_vars(~Beating(w) /\ Silence(w) /\ UNCHANGED <<wd, sch, client>>)
       /\ \A t \in Threads :
            WF_vars(ThreadStep(w, t) /\ UNCHANGED <<wd, sch, client>>)
  /\ WF_vars(WatchdogStep /\ UNCHANGED <<worker, sch, client>>)
  /\ WF_vars(SchedulerStep /\ UNCHANGED <<worker, wd, client>>)
  /\ \A c \in Clients : WF_vars(HandlerStep(c) /\ UNCHANGED <<worker, wd, sch>>)

FairSpec == Spec /\ Fairness

-----------------------------------------------------------------------------
(* Who will see to it that a job is worked on *)

\* Rows that claim the job is on its way.
Live(j) == jobs[j].status \in {"QUEUED", "RUNNING"}

\* A dict that will be pushed: json.dumps does not reject it.
Carries(doc, j) == doc.id = j /\ ~doc.raw

\* A queued message, or a submitted task, names j.
Names(s, j) == \E i \in DOMAIN s : s[i].id = j

InQueue(j) == \E q \in PriorityQueues : Names(queue[q], j)

InPending(w, j) == Names(pending[w], j)

OnThread(w, t, j) ==
  \/ /\ thread[w][t].pc \in {"picked", "executing", "failing", "refetch"}
     /\ thread[w][t].id = j
  \/ thread[w][t].pc = "backoff" /\ Carries(thread[w][t].doc, j)

WithWorker(w, j) == InPending(w, j) \/ \E t \in Threads : OnThread(w, t, j)

WithWatchdog(j) ==
  \/ wd.pc = "refetch" /\ wd.id = j
  \/ wd.pc = "push" /\ Carries(wd.doc, j)

WithScheduler(j) == sch.pc = "push" /\ Carries(sch.doc, j)

WithClient(c, j) ==
  \/ client[c].pc = "refetch" /\ client[c].id = j
  \/ client[c].pc = "push" /\ Carries(client[c].doc, j)

Carried(j) ==
  \/ InQueue(j)
  \/ \E w \in Workers : WithWorker(w, j)
  \/ WithWatchdog(j)
  \/ WithScheduler(j)
  \/ \E c \in Clients : WithClient(c, j)

\* The row says QUEUED or RUNNING and nobody will ever act on it again.
\* (A RUNNING row of a dead worker is lost in this sense until the watchdog
\* gets to it.)
Lost(j) == Live(j) /\ ~Carried(j)

\* Jobs submitted with a run_at are not promised anything: see NoSilentLoss.
LostPlain(j) == Lost(j) /\ ~jobs[j].run_at

Faults == env.errors + env.crashes + env.outages

-----------------------------------------------------------------------------
(* Safety *)

\* As long as no process is killed and no call raises, every job without a
\* run_at whose row is QUEUED or RUNNING is in a queue or in the hands of a
\* thread: a stopped worker, a late heartbeat, a job recovered twice or an API
\* call racing with a worker never strands one (worker.py _process_job,
\* _graceful_shutdown; watchdog.py _recover_jobs; jobs.py retry_job,
\* delete_job).  LostPlain leaves out the jobs with a run_at, hence all that the
\* scheduler and cancel_job do: see FiredJobsArePushed.
NothingLost == Faults = 0 => \A j \in Jobs : ~LostPlain(j)

\* A job becomes lost only in the very step in which a process is killed or a
\* call raises.  It does not say that such a step loses nothing.  Jobs that carry
\* a run_at are excluded: json.dumps rejects their dicts (db.py _fix_job).
NoSilentLoss ==
  [][\A j \in Jobs : LostPlain(j)' /\ ~LostPlain(j) => Faults' > Faults]_vars

\* A RUNNING row tells the truth: the worker it names has a thread busy with
\* that job, even when the job runs twice (worker.py:127, watchdog.py:74).
RunningMeansRunning ==
  Faults = 0 =>
    \A j \in Jobs :
      jobs[j].status = "RUNNING" =>
        \E w \in Workers, t \in Threads :
          /\ jobs[j].worker_id = w
          /\ thread[w][t].id = j
          /\ thread[w][t].pc \in {"executing", "failing"}

InQueueOf(j, q) == q = PRIORITY_QUEUE_MAP[jobs[j].priority]

\* A job never changes class: wherever it waits, and whoever pushes it again
\* (worker retry, watchdog, API retry), it is in the queue of the priority it
\* was submitted with (worker.py:154, watchdog.py:71, jobs.py:72).
PriorityKept ==
  \A j \in Jobs :
    /\ \A q \in PriorityQueues : \A i \in DOMAIN queue[q] :
         queue[q][i].id = j => InQueueOf(j, q)
    /\ \A w \in Workers :
         /\ \A i \in DOMAIN pending[w] :
              pending[w][i].id = j => InQueueOf(j, pending[w][i].queue)
         /\ \A t \in Threads :
              thread[w][t].id = j => InQueueOf(j, thread[w][t].queue)

\* The places a job is in.
Places(j) ==
  (UNION {{<<"queue", q, i>> : i \in {k \in DOMAIN queue[q] : queue[q][k].id = j}} :
            q \in PriorityQueues})
  \union (UNION {{<<"pending", w, i>> :
                    i \in {k \in DOMAIN pending[w] : pending[w][k].id = j}} : w \in Workers})
  \union {<<"thread", x[1], x[2]>> :
            x \in {y \in Workers \X Threads : OnThread(y[1], y[2], j)}}
  \union {<<"client", c>> : c \in {x \in Clients : WithClient(x, j)}}
  \union {d \in {<<"watchdog">>} : WithWatchdog(j)}
  \union {d \in {<<"scheduler">>} : WithScheduler(j)}

\* With one API request at a time, no deletion, and no late heartbeats, stops,
\* restarts or errors, crash recovery never makes a job run twice: it is in at
\* most one place (worker.py:154, watchdog.py:56-75).
SingleCarrier == \A j \in Jobs : Exists(j) => Cardinality(Places(j)) <= 1

\* A RUNNING row nobody works on is one the watchdog will still come across:
\* its worker is not yet marked OFFLINE, or is the one being handled.  However
\* workers are killed, the only thing that makes a watchdog that lives forget
\* one is another job with a run_at, whose recovery ends the pass
\* (watchdog.py:31-77): the last disjunct excuses that.  A watchdog that dies or
\* whose call raises after the mark does forget them.
StuckJobsAreWatched ==
  \A j \in Jobs :
    jobs[j].status = "RUNNING" /\ ~Carried(j) =>
      LET w == jobs[j].worker_id
      IN \/ workers[w].status = "ONLINE"
         \/ wd.worker = w /\ (wd.pc = "select" \/ j \in wd.stuck)
         \/ \E k \in Jobs \ {j} : Exists(k) /\ jobs[k].run_at

\* A RUNNING row that nobody works on, of a worker that is OFFLINE in the table
\* and not in the hands of the watchdog's pass: nothing will look at it, unless a
\* worker comes back under that id and is marked OFFLINE once more.
Forgotten(j) ==
  /\ LostPlain(j)
  /\ jobs[j].status = "RUNNING"
  /\ \E w \in Workers :
       /\ jobs[j].worker_id = w
       /\ workers[w].status = "OFFLINE"
       /\ w \notin wd.due
       /\ ~(wd.worker = w /\ (wd.pc = "select" \/ j \in wd.stuck))

\* Heartbeats, restarts, requests and other workers never make the watchdog's
\* pass miss a row, whenever they come.  One (of a job without a run_at) is
\* forgotten only in the step of a fault, above all when the API process dies
\* between mark_worker_offline and the last _recover_jobs; when json.dumps
\* rejects another job of the pass; or when a worker signs off, which marks it
\* OFFLINE without a look at the rows that an earlier life or an earlier error
\* has left RUNNING under its id (watchdog.py:31-77, worker.py:95).
ForgottenForAReason ==
  [][\A j \in Jobs :
       Forgotten(j)' /\ ~Forgotten(j) =>
         \/ Faults' > Faults
         \/ wd.pc = "push" /\ wd.doc.raw
         \/ \E w \in Workers : Shutdown(w)]_vars

-----------------------------------------------------------------------------
(* What the metrics rest on *)

\* When kills are the only disturbance, whoever sets a status (pick up, complete,
\* retry, give up, recover, retry or cancel by hand) leaves the two timestamps
\* as they go with it, so that every COMPLETED job is in the runtime statistics
\* and nothing else is, and each worker's total holds its finished and running
\* jobs only (metrics.py:51-53, 175-176).  It does not hold of a job that runs
\* twice: one copy's retry clears the started_at of the row that the other
\* completes.
StatusHasItsTimes ==
  /\ Cardinality(Measured) = by_status("COMPLETED")
  /\ \A j \in Jobs :
       LET row == jobs[j]
       IN /\ row.status = "RUNNING" => row.started_at /\ ~row.completed_at
          /\ row.status \in {"QUEUED", "SCHEDULED"} => ~row.started_at /\ ~row.completed_at
          /\ row.status = "DEAD" => row.started_at = row.completed_at

\* The two numbers that /observability/workers shows side by side.  When kills
\* are the only disturbance and nobody deletes a job, the counter of a worker,
\* with the threads about to add to it, never exceeds the COMPLETED rows that
\* name it, and equals them as long as nothing is killed (worker.py:133-134,
\* metrics.py:165-177).  Both conditions are needed: a COMPLETED row that is
\* deleted is still counted by the worker, and so is one that a second copy of
\* the job overwrites.
CountersAgree ==
  \A w \in Workers :
    LET shown   == get_worker_performance(w)
        counted == shown.jobs_processed
                     + Cardinality({t \in Threads : thread[w][t].pc = "counting"})
    IN counted <= shown.completed /\ (env.crashes = 0 => counted = shown.completed)

-----------------------------------------------------------------------------
(* Refinement: the tables implement the life cycle *)

Lifecycle == INSTANCE JobLifecycle WITH
  status   <- [j \in Jobs |-> jobs[j].status],
  attempts <- [j \in Jobs |-> jobs[j].retry_count]

\* When kills are the only disturbance, rows move only along JobLifecycle and a
\* job that is not cancelled dies after exactly MAX_RETRIES failed attempts
\* (worker.py:140-161, watchdog.py:74), one attempt fewer than README.md:97-111
\* draws.
RefinesLifecycle == Lifecycle!Spec

-----------------------------------------------------------------------------
(* Liveness, under FairSpec *)

\* Without faults every job without a run_at comes to rest for good (completed
\* or dead), even when it fails at every attempt, is retried by hand, or a late
\* heartbeat makes it run twice (worker.py:138-166).
EveryJobSettles ==
  \A j \in Jobs : <>[](Faults > 0 \/ ~Live(j) \/ jobs[j].run_at)

\* README.md "Worker Recovery": a job whose worker died while running it gets
\* back on its way, unless the worker was already taken for dead when it
\* picked the job up (watchdog.py:36, which skips OFFLINE workers).
CrashedJobRecovered ==
  \A j \in Jobs :
    /\ jobs[j].status = "RUNNING" /\ LostPlain(j)
    /\ \E w \in Workers : w = jobs[j].worker_id /\ workers[w].status = "ONLINE"
    ~> jobs[j].status # "RUNNING" \/ Carried(j)

-----------------------------------------------------------------------------
(* What the documentation says and the code does not do *)

\* README.md:138: no worker failure loses a queued job.
WorkerCrashLosesNothing ==
  env.errors + env.outages = 0 =>
    \A j \in Jobs : LostPlain(j) => jobs[j].status = "RUNNING"

\* core/scheduler.py:5: a scheduled job that is due is pushed to its queue.
FiredJobsArePushed ==
  Faults = 0 /\ sch.pc # "push" => \A j \in Jobs : ~Lost(j)

\* core/watchdog.py:73: only jobs of dead workers are recovered.
RecoversFromTheDead ==
  [][\A j \in Jobs : RecoverJob(j) => proc[wd.worker] = "down"]_vars
=============================================================================
