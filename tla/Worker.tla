------------------------------- MODULE Worker --------------------------------
(***************************************************************************)
(* worker/worker.py: worker processes.  A process has a main thread that   *)
(* pops jobs and hands them to a ThreadPoolExecutor, pool threads that run *)
(* _process_job, and a heartbeat thread.  Nothing limits how many jobs the *)
(* main thread pops: the executor's internal queue (pending) is unbounded. *)
(***************************************************************************)
EXTENDS Store

CONSTANTS
  Threads,     \* pool threads of one worker (--threads)
  Restarts,    \* may a worker id come back after its process ended?
  MaxCrashes,  \* bound: processes killed
  MaxStalls,   \* bound: heartbeats of a live worker late by > HEARTBEAT_TIMEOUT
  MaxStops     \* bound: SIGTERM/SIGINT

ASSUME WorkerAssumption ==
  /\ Restarts \in BOOLEAN
  /\ MaxCrashes \in Nat /\ MaxStalls \in Nat /\ MaxStops \in Nat

VARIABLES
  proc,     \* down | polling (in the loop of start) | draining (_graceful_shutdown)
  running,  \* self.running
  pending,  \* submitted to the executor, not yet on a thread
  thread    \* the _process_job call of each pool thread

worker == <<proc, running, pending, thread>>

Task == [id : Jobs \union {NoJob}, retry_count : Nat, queue : PriorityQueues]

\* Where a _process_job call is: each value is the call it makes next.
ThreadPc == {"idle", "picked", "executing", "counting", "failing",
             "refetch", "backoff", "dlq"}

ThreadState == [pc : ThreadPc, id : Jobs \union {NoJob}, retry_count : Nat,
                queue : PriorityQueues \union {"none"}, doc : Doc]

IdleThread == [pc |-> "idle", id |-> NoJob, retry_count |-> 0,
               queue |-> "none", doc |-> NoDoc]

WorkerInit ==
  /\ proc = [w \in Workers |-> "down"]
  /\ running = [w \in Workers |-> FALSE]
  /\ pending = [w \in Workers |-> <<>>]
  /\ thread = [w \in Workers |-> [t \in Threads |-> IdleThread]]

WorkerTypeOK ==
  /\ proc \in [Workers -> {"down", "polling", "draining"}]
  /\ running \in [Workers -> BOOLEAN]
  /\ pending \in [Workers -> Seq(Task)]
  /\ thread \in [Workers -> [Threads -> ThreadState]]
  /\ \A w \in Workers, t \in Threads :
       thread[w][t].pc # "idle" =>
         thread[w][t].id # NoJob /\ thread[w][t].queue # "none"

-----------------------------------------------------------------------------
(* The process *)

\* start: register_worker upserts the row, keeping jobs_processed.
Start(w) ==
  /\ proc[w] = "down"
  /\ workers[w].status = "NONE" \/ Restarts
  /\ proc' = [proc EXCEPT ![w] = "polling"]
  /\ running' = [running EXCEPT ![w] = TRUE]
  /\ workers' = [workers EXCEPT ![w].status = "ONLINE", ![w].fresh = TRUE]
  /\ UNCHANGED <<jobs, queue, env, pending, thread>>

\* One turn of the loop: pop_job, then submit to the executor.  The pop that
\* was under way when stop() cleared running is the loop's last.
PopJob(w) ==
  /\ proc[w] = "polling"
  /\ \E q \in PriorityQueues :
       /\ PopsFrom(q)
       /\ queue' = [queue EXCEPT ![q] = Tail(@)]
       /\ pending' = [pending EXCEPT ![w] =
                        Append(@, [id |-> Head(queue[q]).id,
                                   retry_count |-> Head(queue[q]).retry_count,
                                   queue |-> q])]
  /\ proc' = [proc EXCEPT ![w] = IF running[w] THEN "polling" ELSE "draining"]
  /\ UNCHANGED <<jobs, workers, env, running, thread>>

\* stop, the signal handler: it may also come while the process is draining.
Stop(w) ==
  /\ proc[w] # "down" /\ running[w]
  /\ env.stops < MaxStops
  /\ env' = [env EXCEPT !.stops = @ + 1]
  /\ running' = [running EXCEPT ![w] = FALSE]
  /\ UNCHANGED <<jobs, workers, queue, proc, pending, thread>>

\* pop_job timed out and the loop sees running = False.
LeaveLoop(w) ==
  /\ proc[w] = "polling" /\ ~running[w]
  /\ proc' = [proc EXCEPT ![w] = "draining"]
  /\ UNCHANGED <<store, running, pending, thread>>

\* pop_job raised: the finally clause drains, but running stays True.
PopRaises(w) ==
  /\ proc[w] = "polling"
  /\ CallRaises
  /\ proc' = [proc EXCEPT ![w] = "draining"]
  /\ UNCHANGED <<jobs, workers, queue, running, pending, thread>>

\* _graceful_shutdown returns once every submitted job has been run.
Shutdown(w) ==
  /\ proc[w] = "draining"
  /\ pending[w] = <<>>
  /\ \A t \in Threads : thread[w][t].pc = "idle"
  /\ proc' = [proc EXCEPT ![w] = "down"]
  /\ running' = [running EXCEPT ![w] = FALSE]
  /\ workers' = [workers EXCEPT ![w].status = "OFFLINE"]
  /\ UNCHANGED <<jobs, queue, env, pending, thread>>

\* mark_worker_offline raises: the exception leaves start, the process ends and
\* its row still says ONLINE.
ShutdownRaises(w) ==
  /\ proc[w] = "draining"
  /\ pending[w] = <<>>
  /\ \A t \in Threads : thread[w][t].pc = "idle"
  /\ CallRaises
  /\ proc' = [proc EXCEPT ![w] = "down"]
  /\ running' = [running EXCEPT ![w] = FALSE]
  /\ UNCHANGED <<jobs, workers, queue, pending, thread>>

\* The process is killed; what it held in memory is gone.
Crash(w) ==
  /\ proc[w] # "down"
  /\ env.crashes < MaxCrashes
  /\ env' = [env EXCEPT !.crashes = @ + 1]
  /\ proc' = [proc EXCEPT ![w] = "down"]
  /\ running' = [running EXCEPT ![w] = FALSE]
  /\ pending' = [pending EXCEPT ![w] = <<>>]
  /\ thread' = [thread EXCEPT ![w] = [t \in Threads |-> IdleThread]]
  /\ UNCHANGED <<jobs, workers, queue>>

-----------------------------------------------------------------------------
(* The heartbeat thread, and time as the watchdog sees it *)

Beating(w) == proc[w] # "down" /\ running[w]

\* _heartbeat_loop: one db.heartbeat, which also undoes an OFFLINE mark.
Heartbeat(w) ==
  /\ Beating(w)
  /\ workers[w].status # "ONLINE" \/ ~workers[w].fresh
  /\ workers' = [workers EXCEPT ![w].status = "ONLINE", ![w].fresh = TRUE]
  /\ UNCHANGED <<jobs, queue, env, worker>>

\* HEARTBEAT_TIMEOUT passes without a heartbeat: because nothing beats any
\* more, or because the thread is late (heartbeat errors are swallowed).
Silence(w) ==
  /\ workers[w].status = "ONLINE" /\ workers[w].fresh
  /\ IF Beating(w)
     THEN env.stalls < MaxStalls /\ env' = [env EXCEPT !.stalls = @ + 1]
     ELSE UNCHANGED env
  /\ workers' = [workers EXCEPT ![w].fresh = FALSE]
  /\ UNCHANGED <<jobs, queue, worker>>

-----------------------------------------------------------------------------
(* _process_job on a pool thread *)

\* Mutant: a null document is processed like a job.
StartTask_AcceptsNull(w, t) ==
  /\ thread[w][t].pc = "idle"
  /\ pending[w] # <<>>
  /\ pending' = [pending EXCEPT ![w] = Tail(@)]
  /\ thread' = [thread EXCEPT ![w][t] =
                  [pc |-> "picked", id |-> Head(pending[w]).id,
                   retry_count |-> Head(pending[w]).retry_count,
                   queue |-> Head(pending[w]).queue, doc |-> NoDoc]]
  /\ UNCHANGED <<store, proc, running>>

\* The executor runs submitted calls first come, first served.
StartTask(w, t) ==
  /\ thread[w][t].pc = "idle"
  /\ pending[w] # <<>>
  /\ Head(pending[w]).id # NoJob
  /\ pending' = [pending EXCEPT ![w] = Tail(@)]
  /\ thread' = [thread EXCEPT ![w][t] =
                  [pc |-> "picked", id |-> Head(pending[w]).id,
                   retry_count |-> Head(pending[w]).retry_count,
                   queue |-> Head(pending[w]).queue, doc |-> NoDoc]]
  /\ UNCHANGED <<store, proc, running>>

\* job_data is None: job_data["id"] raises, the future keeps the exception.
DropNull(w, t) ==
  /\ thread[w][t].pc = "idle"
  /\ pending[w] # <<>>
  /\ Head(pending[w]).id = NoJob
  /\ pending' = [pending EXCEPT ![w] = Tail(@)]
  /\ UNCHANGED <<store, proc, running, thread>>

Goto(w, t, pc) == thread' = [thread EXCEPT ![w][t].pc = pc]

Finish(w, t) == thread' = [thread EXCEPT ![w][t] = IdleThread]

MarkRunning(w, t) ==
  LET j == thread[w][t].id
  IN update_job(j, [jobs[j] EXCEPT !.status = "RUNNING", !.worker_id = w,
                                   !.started_at = TRUE])

PickUp(w, t) ==
  /\ thread[w][t].pc = "picked"
  /\ MarkRunning(w, t)
  /\ Goto(w, t, "executing")
  /\ UNCHANGED <<workers, queue, env, proc, running, pending>>

\* The SELECT or the add_log after the UPDATE raises, outside the try block.
PickUpThenRaise(w, t) ==
  /\ thread[w][t].pc = "picked"
  /\ CallRaises
  /\ MarkRunning(w, t)
  /\ Finish(w, t)
  /\ UNCHANGED <<workers, queue, proc, running, pending>>

\* execute_job returned.
Complete(w, t) ==
  LET j == thread[w][t].id
  IN /\ thread[w][t].pc = "executing"
     /\ update_job(j, [jobs[j] EXCEPT !.status = "COMPLETED", !.completed_at = TRUE])
     /\ Goto(w, t, "counting")
     /\ UNCHANGED <<workers, queue, env, proc, running, pending>>

\* execute_job raised (so does a failing UPDATE, with the same effect).
ExecuteFails(w, t) ==
  /\ thread[w][t].pc = "executing"
  /\ Goto(w, t, "failing")
  /\ UNCHANGED <<store, proc, running, pending>>

increment_jobs_processed(w) ==
  workers' = [workers EXCEPT ![w].jobs_processed = @ + 1]

Count(w, t) ==
  /\ thread[w][t].pc = "counting"
  /\ increment_jobs_processed(w)
  /\ Finish(w, t)
  /\ UNCHANGED <<jobs, queue, env, proc, running, pending>>

\* The increment or the log after it raises inside the try block: a COMPLETED
\* job is handled as a failed one.
CountRaises(w, t) ==
  /\ thread[w][t].pc = "counting"
  /\ CallRaises
  /\ increment_jobs_processed(w) \/ UNCHANGED workers
  /\ Goto(w, t, "failing")
  /\ UNCHANGED <<jobs, queue, proc, running, pending>>

\* Mutant: one attempt too many.
RetryLater_OneMore(w, t) ==
  LET j == thread[w][t].id
      new_retry == thread[w][t].retry_count + 1
  IN /\ thread[w][t].pc = "failing"
     /\ new_retry <= MAX_RETRIES
     /\ update_job(j, [jobs[j] EXCEPT !.status = "QUEUED", !.retry_count = new_retry,
                                      !.started_at = FALSE])
     /\ Goto(w, t, "refetch")
     /\ UNCHANGED <<workers, queue, env, proc, running, pending>>

\* Mutant: the attempt is not written back.
RetryLater_ForgetsCount(w, t) ==
  LET j == thread[w][t].id
  IN /\ thread[w][t].pc = "failing"
     /\ thread[w][t].retry_count + 1 < MAX_RETRIES
     /\ update_job(j, [jobs[j] EXCEPT !.status = "QUEUED", !.started_at = FALSE])
     /\ Goto(w, t, "refetch")
     /\ UNCHANGED <<workers, queue, env, proc, running, pending>>

RetryLater(w, t) ==
  LET j == thread[w][t].id
      new_retry == thread[w][t].retry_count + 1
  IN /\ thread[w][t].pc = "failing"
     /\ new_retry < MAX_RETRIES
     /\ update_job(j, [jobs[j] EXCEPT !.status = "QUEUED", !.retry_count = new_retry,
                                      !.started_at = FALSE])
     /\ Goto(w, t, "refetch")
     /\ UNCHANGED <<workers, queue, env, proc, running, pending>>

Refetch(w, t) ==
  /\ thread[w][t].pc = "refetch"
  /\ thread' = [thread EXCEPT ![w][t].pc = "backoff",
                              ![w][t].doc = get_job(thread[w][t].id)]
  /\ UNCHANGED <<store, proc, running, pending>>

\* After time.sleep(backoff): back to the queue the job was popped from.
Requeue(w, t) ==
  /\ thread[w][t].pc = "backoff"
  /\ push_or_raise(thread[w][t].queue, thread[w][t].doc)
  /\ Finish(w, t)
  /\ UNCHANGED <<jobs, workers, env, proc, running, pending>>

GiveUp(w, t) ==
  LET j == thread[w][t].id
      new_retry == thread[w][t].retry_count + 1
  IN /\ thread[w][t].pc = "failing"
     /\ new_retry >= MAX_RETRIES
     /\ update_job(j, [jobs[j] EXCEPT !.status = "DEAD", !.retry_count = new_retry,
                                      !.completed_at = TRUE])
     /\ Goto(w, t, "dlq")
     /\ UNCHANGED <<workers, queue, env, proc, running, pending>>

\* job_data came out of json.loads: it always serialises.
PushDLQ(w, t) ==
  /\ thread[w][t].pc = "dlq"
  /\ push_job(QUEUE_DLQ, [id |-> thread[w][t].id,
                          retry_count |-> thread[w][t].retry_count + 1,
                          raw |-> FALSE])
  /\ Finish(w, t)
  /\ UNCHANGED <<jobs, workers, env, proc, running, pending>>

\* A call outside the try block, or in its except clause, raises: the future
\* keeps the exception and nothing else is done for the job.
ThreadRaises(w, t) ==
  /\ thread[w][t].pc \in {"picked", "failing", "refetch", "backoff", "dlq"}
  /\ CallRaises
  /\ Finish(w, t)
  /\ UNCHANGED <<jobs, workers, queue, proc, running, pending>>

-----------------------------------------------------------------------------
\* What a pool thread does when no call of its raises.
ThreadStep(w, t) ==
  \/ StartTask(w, t) \/ DropNull(w, t)
  \/ PickUp(w, t)
  \/ Complete(w, t) \/ ExecuteFails(w, t)
  \/ Count(w, t)
  \/ RetryLater(w, t) \/ Refetch(w, t) \/ Requeue(w, t)
  \/ GiveUp(w, t) \/ PushDLQ(w, t)

\* What the main thread does by itself.
MainStep(w) == PopJob(w) \/ LeaveLoop(w) \/ Shutdown(w)

WorkerNext ==
  \E w \in Workers :
    \/ Start(w) \/ MainStep(w) \/ Stop(w) \/ PopRaises(w)
    \/ ShutdownRaises(w) \/ Crash(w)
    \/ Heartbeat(w) \/ Silence(w)
    \/ \E t \in Threads :
         \/ ThreadStep(w, t)
         \/ PickUpThenRaise(w, t) \/ CountRaises(w, t) \/ ThreadRaises(w, t)
=============================================================================
