---------------------------- MODULE PlatformProofs ----------------------------
(***************************************************************************)
(* Theorems about Platform for any number of jobs, workers, threads and    *)
(* clients, and any bounds on faults, stops and stalls.                    *)
(***************************************************************************)
EXTENDS Platform, TLAPS

-----------------------------------------------------------------------------
(* Calls *)

LEMMA MapType == \A p \in Priorities : PRIORITY_QUEUE_MAP[p] \in PriorityQueues
  BY DEF Priorities, PRIORITY_QUEUE_MAP, PriorityQueues

LEMMA UpdateType ==
  ASSUME jobs \in [Jobs -> Row], NEW j \in Jobs, NEW row \in Row, update_job(j, row)
  PROVE  jobs' \in [Jobs -> Row]
  BY DEF update_job

LEMMA PushType ==
  ASSUME queue \in [Queues -> Seq(Message)], NEW q \in Queues, NEW doc \in Doc,
         push_job(q, doc) \/ push_or_raise(q, doc)
  PROVE  queue' \in [Queues -> Seq(Message)]
<1> DEFINE msg == [id |-> doc.id, retry_count |-> doc.retry_count]
<1>1. msg \in Message
  BY DEF Doc, Message
<1>2. Append(queue[q], msg) \in Seq(Message)
  <2> HIDE DEF msg
  <2> QED BY <1>1
<1>3. CASE queue' = queue
  BY <1>3
<1>4. CASE push_job(q, doc)
  <2>1. queue' = [queue EXCEPT ![q] = Append(queue[q], msg)]
    BY <1>4 DEF push_job
  <2> HIDE DEF msg
  <2> QED BY <2>1, <1>2
<1> QED BY <1>3, <1>4 DEF push_or_raise

LEMMA GetType ==
  ASSUME jobs \in [Jobs -> Row], NEW j \in Jobs
  PROVE  get_job(j) \in Doc
  BY DEF get_job, Row, Doc, NoDoc

LEMMA RaiseType ==
  ASSUME env \in Env, CallRaises
  PROVE  env' \in Env
  BY DEF Env, CallRaises

-----------------------------------------------------------------------------
(* Type correctness *)

LEMMA TypeInit == Init => TypeOK
<1> SUFFICES ASSUME Init PROVE TypeOK
  OBVIOUS
<1>1. StoreTypeOK
  BY DEF Init, StoreInit, StoreTypeOK, Row, Priorities, WorkerRow, Env
<1>2. WorkerTypeOK
  BY DEF Init, WorkerInit, WorkerTypeOK, IdleThread, ThreadState, ThreadPc, NoDoc, Doc
<1>3. WatchdogTypeOK
  BY DEF Init, WatchdogInit, WatchdogTypeOK, WatchdogState, Asleep, NoDoc, Doc
<1>4. SchedulerTypeOK
  BY DEF Init, SchedulerInit, SchedulerTypeOK, SchedulerState, NoPass, NoDoc, Doc
<1>5. JobsApiTypeOK
  BY DEF Init, JobsApiInit, JobsApiTypeOK, ClientState, IdleClient, NoDoc, Doc
<1> QED BY <1>1, <1>2, <1>3, <1>4, <1>5 DEF TypeOK

\* Overwriting columns of an existing row, in the combinations handlers use.
LEMMA RowType ==
  ASSUME jobs \in [Jobs -> Row], NEW j \in Jobs, NEW s \in RowStatus \union {"DELETED"}
  PROVE  /\ jobs[j] \in Row
         /\ [jobs[j] EXCEPT !.status = s] \in Row
         /\ [jobs[j] EXCEPT !.status = s, !.completed_at = TRUE] \in Row
         /\ \A n \in Nat :
              /\ [jobs[j] EXCEPT !.status = s, !.retry_count = n, !.started_at = FALSE] \in Row
              /\ [jobs[j] EXCEPT !.status = s, !.retry_count = n, !.completed_at = TRUE] \in Row
              /\ [jobs[j] EXCEPT !.status = s, !.retry_count = n, !.started_at = FALSE,
                                 !.completed_at = FALSE] \in Row
         /\ \A w \in Workers \union {NoWorker}, b \in BOOLEAN :
              [jobs[j] EXCEPT !.status = s, !.worker_id = w, !.started_at = b] \in Row
<1>1. jobs[j] \in Row
  OBVIOUS
<1> DEFINE row == jobs[j]
<1> HIDE DEF row
<1>2. row \in Row
  BY <1>1 DEF row
<1>3. [row EXCEPT !.status = s] \in Row
  BY <1>2 DEF Row
<1>4. [row EXCEPT !.status = s, !.completed_at = TRUE] \in Row
  BY <1>2 DEF Row
<1>5. ASSUME NEW n \in Nat
      PROVE  /\ [row EXCEPT !.status = s, !.retry_count = n, !.started_at = FALSE] \in Row
             /\ [row EXCEPT !.status = s, !.retry_count = n, !.completed_at = TRUE] \in Row
             /\ [row EXCEPT !.status = s, !.retry_count = n, !.started_at = FALSE,
                            !.completed_at = FALSE] \in Row
  BY <1>2 DEF Row
<1>6. ASSUME NEW w \in Workers \union {NoWorker}, NEW b \in BOOLEAN
      PROVE  [row EXCEPT !.status = s, !.worker_id = w, !.started_at = b] \in Row
  BY <1>2 DEF Row
<1> QED BY <1>1, <1>3, <1>4, <1>5, <1>6 DEF row

LEMMA WorkerRowType ==
  ASSUME workers \in [Workers -> WorkerRow], NEW w \in Workers
  PROVE  /\ workers[w].jobs_processed \in Nat
         /\ \A s \in {"ONLINE", "OFFLINE"} :
              [workers EXCEPT ![w].status = s] \in [Workers -> WorkerRow]
         /\ \A b \in BOOLEAN : [workers EXCEPT ![w].fresh = b] \in [Workers -> WorkerRow]
         /\ [workers EXCEPT ![w].status = "ONLINE", ![w].fresh = TRUE]
              \in [Workers -> WorkerRow]
         /\ [workers EXCEPT ![w].jobs_processed = @ + 1] \in [Workers -> WorkerRow]
<1>1. workers[w].jobs_processed \in Nat
  BY DEF WorkerRow
<1>2. \A s \in {"ONLINE", "OFFLINE"} :
        [workers EXCEPT ![w].status = s] \in [Workers -> WorkerRow]
  BY DEF WorkerRow
<1>3. \A b \in BOOLEAN : [workers EXCEPT ![w].fresh = b] \in [Workers -> WorkerRow]
  BY DEF WorkerRow
<1>4. [workers EXCEPT ![w].status = "ONLINE", ![w].fresh = TRUE]
        \in [Workers -> WorkerRow]
  BY DEF WorkerRow
<1>5. [workers EXCEPT ![w].jobs_processed = @ + 1] \in [Workers -> WorkerRow]
  BY <1>1 DEF WorkerRow
<1> QED BY <1>1, <1>2, <1>3, <1>4, <1>5

LEMMA ThreadType ==
  ASSUME WorkerTypeOK, NEW w \in Workers, NEW t \in Threads
  PROVE  /\ thread[w][t] \in ThreadState
         /\ thread[w][t].pc # "idle" =>
              thread[w][t].id \in Jobs /\ thread[w][t].queue \in PriorityQueues
  BY DEF WorkerTypeOK, ThreadState

\* The assignments a pool thread makes to its own state.
LEMMA ThreadMoveType ==
  ASSUME WorkerTypeOK, NEW w \in Workers, NEW t \in Threads, NEW new \in ThreadState,
         new.pc # "idle" => new.id # NoJob /\ new.queue # "none",
         thread' = [thread EXCEPT ![w][t] = new],
         UNCHANGED <<proc, running, pending>>
  PROVE  WorkerTypeOK'
  BY DEF WorkerTypeOK

LEMMA EnvType ==
  ASSUME env \in Env
  PROVE  /\ env.errors \in Nat /\ env.crashes \in Nat /\ env.outages \in Nat
         /\ [env EXCEPT !.errors = @ + 1] \in Env
         /\ [env EXCEPT !.crashes = @ + 1] \in Env
         /\ [env EXCEPT !.outages = @ + 1] \in Env
         /\ [env EXCEPT !.stalls = @ + 1] \in Env
         /\ [env EXCEPT !.stops = @ + 1] \in Env
         /\ [env EXCEPT !.retries = @ + 1] \in Env
  BY DEF Env

LEMMA IdleType == IdleThread \in ThreadState /\ NoDoc \in Doc
  BY DEF IdleThread, ThreadState, ThreadPc, NoDoc, Doc

\* The main thread, the heartbeat thread and the fate of the process.
LEMMA ProcessType ==
  ASSUME StoreTypeOK, WorkerTypeOK, NEW w \in Workers,
         \/ Start(w) \/ MainStep(w) \/ Stop(w) \/ PopRaises(w) \/ ShutdownRaises(w) \/ Crash(w)
         \/ Heartbeat(w) \/ Silence(w)
  PROVE  StoreTypeOK' /\ WorkerTypeOK'
<1> USE DEF store, worker
<1>1. CASE Start(w)
  BY <1>1, WorkerRowType DEF Start, StoreTypeOK, WorkerTypeOK
<1>2. CASE PopJob(w)
  <2>1. PICK q \in PriorityQueues :
          /\ PopsFrom(q)
          /\ queue' = [queue EXCEPT ![q] = Tail(@)]
          /\ pending' = [pending EXCEPT ![w] =
                           Append(@, [id |-> Head(queue[q]).id,
                                      retry_count |-> Head(queue[q]).retry_count,
                                      queue |-> q])]
    BY <1>2 DEF PopJob
  <2>2. queue[q] \in Seq(Message) /\ queue[q] # <<>>
    BY <2>1 DEF PopsFrom, StoreTypeOK, Queues
  <2>3. Head(queue[q]) \in Message /\ Tail(queue[q]) \in Seq(Message)
    BY <2>2
  <2>4. [id |-> Head(queue[q]).id, retry_count |-> Head(queue[q]).retry_count,
         queue |-> q] \in Task
    BY <2>3 DEF Message, Task
  <2>5. pending' \in [Workers -> Seq(Task)]
    <3> DEFINE task == [id |-> Head(queue[q]).id,
                        retry_count |-> Head(queue[q]).retry_count, queue |-> q]
    <3>1. pending' = [pending EXCEPT ![w] = Append(pending[w], task)]
      BY <2>1
    <3>2. task \in Task
      BY <2>4
    <3> HIDE DEF task
    <3>3. Append(pending[w], task) \in Seq(Task)
      BY <3>2 DEF WorkerTypeOK
    <3> QED BY <3>1, <3>3 DEF WorkerTypeOK
  <2>6. queue' \in [Queues -> Seq(Message)]
    BY <2>1, <2>3 DEF StoreTypeOK
  <2> QED BY <1>2, <2>5, <2>6 DEF PopJob, StoreTypeOK, WorkerTypeOK
<1>3. CASE LeaveLoop(w)
  BY <1>3 DEF LeaveLoop, StoreTypeOK, WorkerTypeOK
<1>4. CASE Shutdown(w)
  BY <1>4, WorkerRowType DEF Shutdown, StoreTypeOK, WorkerTypeOK
<1>5. CASE Stop(w)
  BY <1>5, EnvType DEF Stop, StoreTypeOK, WorkerTypeOK
<1>6. CASE PopRaises(w)
  BY <1>6, RaiseType DEF PopRaises, StoreTypeOK, WorkerTypeOK
<1>7. CASE ShutdownRaises(w)
  BY <1>7, RaiseType DEF ShutdownRaises, StoreTypeOK, WorkerTypeOK
<1>8. CASE Crash(w)
  BY <1>8, EnvType, IdleType DEF Crash, StoreTypeOK, WorkerTypeOK, IdleThread
<1>9. CASE Heartbeat(w)
  BY <1>9, WorkerRowType DEF Heartbeat, StoreTypeOK, WorkerTypeOK
<1>10. CASE Silence(w)
  BY <1>10, WorkerRowType, EnvType DEF Silence, StoreTypeOK, WorkerTypeOK
<1> QED BY <1>1, <1>2, <1>3, <1>4, <1>5, <1>6, <1>7, <1>8, <1>9, <1>10 DEF MainStep

\* A pool thread.
LEMMA PoolType ==
  ASSUME StoreTypeOK, WorkerTypeOK, NEW w \in Workers, NEW t \in Threads,
         \/ ThreadStep(w, t)
         \/ PickUpThenRaise(w, t) \/ CountRaises(w, t) \/ ThreadRaises(w, t)
  PROVE  StoreTypeOK' /\ WorkerTypeOK'
<1> USE DEF store
<1> DEFINE self == thread[w][t]
           j == self.id
<1>a. self \in ThreadState /\ (self.pc # "idle" => j \in Jobs /\ self.queue \in PriorityQueues)
  BY ThreadType
<1>b. jobs \in [Jobs -> Row] /\ workers \in [Workers -> WorkerRow] /\ env \in Env
      /\ queue \in [Queues -> Seq(Message)]
  BY DEF StoreTypeOK
<1>c. ASSUME pending[w] # <<>>
      PROVE  Head(pending[w]) \in Task /\ Tail(pending[w]) \in Seq(Task)
  BY <1>c DEF WorkerTypeOK
<1>d. ASSUME NEW pc \in ThreadPc, self.pc # "idle"
      PROVE  [self EXCEPT !.pc = pc] \in ThreadState
  BY <1>a, <1>d DEF ThreadState
<1>e. ASSUME NEW pc \in ThreadPc \ {"idle"}, self.pc # "idle", Goto(w, t, pc),
             UNCHANGED <<proc, running, pending>>
      PROVE  WorkerTypeOK'
  BY <1>e, <1>a DEF Goto, WorkerTypeOK, ThreadState
<1>f. ASSUME Finish(w, t), UNCHANGED <<proc, running, pending>>
      PROVE  WorkerTypeOK'
  <2>1. thread' = [thread EXCEPT ![w][t] = IdleThread]
    BY <1>f DEF Finish
  <2>2. IdleThread.pc = "idle"
    BY DEF IdleThread
  <2> QED BY <1>f, <2>1, <2>2, IdleType, ThreadMoveType
<1>g. ASSUME NEW row \in Row, j \in Jobs, update_job(j, row)
      PROVE  jobs' \in [Jobs -> Row]
  <2> HIDE DEF j
  <2> QED BY <1>g, <1>b, UpdateType
<1>h. ASSUME self.pc # "idle", NEW s \in RowStatus, NEW n \in Nat
      PROVE  /\ [jobs[j] EXCEPT !.status = s, !.completed_at = TRUE] \in Row
             /\ [jobs[j] EXCEPT !.status = s, !.retry_count = n, !.started_at = FALSE] \in Row
             /\ [jobs[j] EXCEPT !.status = s, !.retry_count = n, !.completed_at = TRUE] \in Row
             /\ [jobs[j] EXCEPT !.status = s, !.worker_id = w, !.started_at = TRUE] \in Row
  <2>1. j \in Jobs
    BY <1>a, <1>h
  <2> HIDE DEF j
  <2> QED BY <2>1, <1>b, RowType
<1>k. ASSUME self.pc # "idle", MarkRunning(w, t)
      PROVE  jobs' \in [Jobs -> Row]
  <2> DEFINE row == [jobs[j] EXCEPT !.status = "RUNNING", !.worker_id = w, !.started_at = TRUE]
  <2>1. j \in Jobs /\ row \in Row
    BY <1>a, <1>h, <1>k DEF RowStatus
  <2>2. update_job(j, row)
    BY <1>k DEF MarkRunning
  <2> HIDE DEF row
  <2> QED BY <2>1, <2>2, <1>g
<1>i. self.retry_count \in Nat
  BY <1>a DEF ThreadState
<1>1. CASE StartTask(w, t)
  <2> DEFINE new == [pc |-> "picked", id |-> Head(pending[w]).id,
                     retry_count |-> Head(pending[w]).retry_count,
                     queue |-> Head(pending[w]).queue, doc |-> NoDoc]
  <2>1. new \in ThreadState /\ new.id # NoJob /\ new.queue # "none"
    BY <1>1, <1>c, IdleType DEF StartTask, Task, ThreadState, ThreadPc, PriorityQueues
  <2>2. thread' = [thread EXCEPT ![w][t] = new]
    BY <1>1 DEF StartTask
  <2> HIDE DEF new
  <2>3. pending' \in [Workers -> Seq(Task)]
    BY <1>1, <1>c DEF StartTask, WorkerTypeOK
  <2> QED BY <1>1, <2>1, <2>2, <2>3 DEF StartTask, StoreTypeOK, WorkerTypeOK
<1>2. CASE DropNull(w, t)
  BY <1>2, <1>c DEF DropNull, StoreTypeOK, WorkerTypeOK
<1>3. CASE PickUp(w, t)
  BY <1>3, <1>b, <1>e, <1>k DEF PickUp, StoreTypeOK, ThreadPc
<1>4. CASE Complete(w, t)
  <2> DEFINE row == [jobs[j] EXCEPT !.status = "COMPLETED", !.completed_at = TRUE]
  <2>1. self.pc = "executing" /\ update_job(j, row) /\ Goto(w, t, "counting")
        /\ UNCHANGED <<workers, queue, env, proc, running, pending>>
    BY <1>4 DEF Complete
  <2>2. j \in Jobs /\ row \in Row
    BY <2>1, <1>a, <1>h, 0 \in Nat DEF RowStatus
  <2> HIDE DEF row
  <2>3. jobs' \in [Jobs -> Row]
    BY <2>1, <2>2, <1>g
  <2> QED BY <2>1, <2>3, <1>b, <1>e DEF StoreTypeOK, ThreadPc
<1>5. CASE ExecuteFails(w, t)
  BY <1>5, <1>b, <1>e DEF ExecuteFails, StoreTypeOK, ThreadPc
<1>6. CASE Count(w, t)
  BY <1>6, <1>b, <1>f, WorkerRowType DEF Count, increment_jobs_processed, StoreTypeOK
<1>7. CASE RetryLater(w, t)
  <2> DEFINE row == [jobs[j] EXCEPT !.status = "QUEUED", !.retry_count = self.retry_count + 1,
                                    !.started_at = FALSE]
  <2>1. self.pc = "failing" /\ update_job(j, row) /\ Goto(w, t, "refetch")
        /\ UNCHANGED <<workers, queue, env, proc, running, pending>>
    BY <1>7 DEF RetryLater
  <2>2. j \in Jobs /\ self.retry_count + 1 \in Nat
    BY <2>1, <1>a, <1>i
  <2>3. row \in Row
    BY <2>1, <2>2, <1>h DEF RowStatus
  <2> HIDE DEF row
  <2>4. jobs' \in [Jobs -> Row]
    BY <2>1, <2>2, <2>3, <1>g
  <2> QED BY <2>1, <2>4, <1>b, <1>e DEF StoreTypeOK, ThreadPc
<1>8. CASE Refetch(w, t)
  <2>1. get_job(j) \in Doc
    BY <1>8, <1>a, <1>b, GetType DEF Refetch
  <2>2. thread' = [thread EXCEPT ![w][t].pc = "backoff", ![w][t].doc = get_job(j)]
    BY <1>8 DEF Refetch
  <2>3. [self EXCEPT !.pc = "backoff", !.doc = get_job(j)] \in ThreadState
    BY <2>1, <1>a DEF ThreadState, ThreadPc
  <2>4. thread' = [thread EXCEPT ![w][t] = [self EXCEPT !.pc = "backoff", !.doc = get_job(j)]]
    BY <2>2 DEF WorkerTypeOK
  <2>5. self.pc # "idle" /\ UNCHANGED <<store, proc, running, pending>>
    BY <1>8 DEF Refetch
  <2>6. WorkerTypeOK'
    BY <2>3, <2>4, <2>5, <1>a, ThreadMoveType DEF ThreadState, PriorityQueues, WorkerTypeOK
  <2> QED BY <2>5, <2>6 DEF StoreTypeOK
<1>9. CASE Requeue(w, t)
  <2>1. self.doc \in Doc /\ self.queue \in Queues
    BY <1>9, <1>a DEF Requeue, ThreadState, Queues
  <2>2. queue' \in [Queues -> Seq(Message)]
    BY <1>9, <2>1, <1>b, PushType DEF Requeue
  <2> QED BY <1>9, <2>2, <1>b, <1>f DEF Requeue, StoreTypeOK
<1>10. CASE GiveUp(w, t)
  <2> DEFINE row == [jobs[j] EXCEPT !.status = "DEAD", !.retry_count = self.retry_count + 1,
                                    !.completed_at = TRUE]
  <2>1. self.pc = "failing" /\ update_job(j, row) /\ Goto(w, t, "dlq")
        /\ UNCHANGED <<workers, queue, env, proc, running, pending>>
    BY <1>10 DEF GiveUp
  <2>2. j \in Jobs /\ self.retry_count + 1 \in Nat
    BY <2>1, <1>a, <1>i
  <2>3. row \in Row
    BY <2>1, <2>2, <1>h DEF RowStatus
  <2> HIDE DEF row
  <2>4. jobs' \in [Jobs -> Row]
    BY <2>1, <2>2, <2>3, <1>g
  <2> QED BY <2>1, <2>4, <1>b, <1>e DEF StoreTypeOK, ThreadPc
<1>11. CASE PushDLQ(w, t)
  <2>1. [id |-> j, retry_count |-> self.retry_count + 1, raw |-> FALSE] \in Doc
    BY <1>11, <1>a, <1>i DEF PushDLQ, Doc
  <2>2. QUEUE_DLQ \in Queues
    BY DEF Queues
  <2>3. queue' \in [Queues -> Seq(Message)]
    BY <1>11, <2>1, <2>2, <1>b, PushType DEF PushDLQ
  <2> QED BY <1>11, <2>3, <1>b, <1>f DEF PushDLQ, StoreTypeOK
<1>12. CASE PickUpThenRaise(w, t)
  BY <1>12, <1>b, <1>f, <1>k, RaiseType DEF PickUpThenRaise, StoreTypeOK
<1>13. CASE CountRaises(w, t)
  BY <1>13, <1>b, <1>e, RaiseType, WorkerRowType
     DEF CountRaises, increment_jobs_processed, StoreTypeOK, ThreadPc
<1>14. CASE ThreadRaises(w, t)
  BY <1>14, <1>b, <1>f, RaiseType DEF ThreadRaises, StoreTypeOK
<1> QED BY <1>1, <1>2, <1>3, <1>4, <1>5, <1>6, <1>7, <1>8, <1>9, <1>10, <1>11,
           <1>12, <1>13, <1>14 DEF ThreadStep

LEMMA WorkerType ==
  ASSUME TypeOK, WorkerNext, UNCHANGED <<wd, sch, client>>
  PROVE  TypeOK'
<1>1. StoreTypeOK' /\ WorkerTypeOK'
  BY ProcessType, PoolType DEF TypeOK, WorkerNext
<1> QED BY <1>1 DEF TypeOK, WatchdogTypeOK, SchedulerTypeOK, JobsApiTypeOK

LEMMA WatchdogType ==
  ASSUME TypeOK, WatchdogNext, UNCHANGED <<worker, sch, client>>
  PROVE  TypeOK'
<1> USE DEF store
<1>a. /\ jobs \in [Jobs -> Row] /\ workers \in [Workers -> WorkerRow] /\ env \in Env
      /\ queue \in [Queues -> Seq(Message)]
      /\ wd \in WatchdogState /\ (wd.pc \in {"refetch", "push"} => wd.id # NoJob)
  BY DEF TypeOK, StoreTypeOK, WatchdogTypeOK
<1>b. Asleep \in WatchdogState /\ Asleep.pc = "sleep"
  BY IdleType DEF Asleep, WatchdogState
<1>c. ASSUME NEW left \in SUBSET Jobs, wd' = Resume(left)
      PROVE  WatchdogTypeOK'
  BY <1>a, <1>b, <1>c, IdleType DEF Resume, WatchdogTypeOK, WatchdogState, Asleep
<1>1. StoreTypeOK' /\ WatchdogTypeOK'
  <2>1. CASE CheckWorkers
    BY <2>1, <1>a, <1>b DEF CheckWorkers, StoreTypeOK, WatchdogTypeOK, WatchdogState
  <2>2. ASSUME NEW w \in Workers, MarkOffline(w)
        PROVE  StoreTypeOK' /\ WatchdogTypeOK'
    BY <2>2, <1>a, WorkerRowType
       DEF MarkOffline, mark_worker_offline, StoreTypeOK, WatchdogTypeOK, WatchdogState
  <2>3. CASE SelectStuck
    BY <2>3, <1>a, <1>c DEF SelectStuck, StoreTypeOK
  <2>4. ASSUME NEW j \in Jobs, RecoverJob(j)
        PROVE  StoreTypeOK' /\ WatchdogTypeOK'
    <3>1. jobs' \in [Jobs -> Row]
      BY <2>4, <1>a, RowType, UpdateType DEF RecoverJob, RowStatus
    <3>2. WatchdogTypeOK'
      BY <2>4, <1>a, StoreAssumption DEF RecoverJob, WatchdogTypeOK, WatchdogState
    <3> QED BY <2>4, <3>1, <3>2, <1>a DEF RecoverJob, StoreTypeOK
  <2>5. CASE RefetchStuck
    <3>1. wd.id \in Jobs
      BY <2>5, <1>a DEF RefetchStuck, WatchdogState
    <3>2. get_job(wd.id) \in Doc
      BY <3>1, <1>a, GetType
    <3> QED BY <2>5, <3>2, <1>a DEF RefetchStuck, StoreTypeOK, WatchdogTypeOK, WatchdogState
  <2>6. CASE PushStuck
    <3>1. wd.id \in Jobs /\ wd.doc \in Doc /\ wd.stuck \in SUBSET Jobs
      BY <2>6, <1>a DEF PushStuck, WatchdogState
    <3>2. PRIORITY_QUEUE_MAP[jobs[wd.id].priority] \in Queues
      BY <3>1, <1>a, MapType DEF Row, Queues
    <3>3. queue' \in [Queues -> Seq(Message)]
      BY <2>6, <3>1, <3>2, <1>a, PushType DEF PushStuck
    <3>4. WatchdogTypeOK'
      BY <2>6, <3>1, <1>b, <1>c DEF PushStuck, WatchdogTypeOK
    <3> QED BY <2>6, <3>3, <3>4, <1>a DEF PushStuck, StoreTypeOK
  <2>7. CASE WatchdogRaises
    BY <2>7, <1>a, <1>b, RaiseType DEF WatchdogRaises, StoreTypeOK, WatchdogTypeOK
  <2> QED BY <2>1, <2>2, <2>3, <2>4, <2>5, <2>6, <2>7 DEF WatchdogNext, WatchdogStep
<1> QED BY <1>1 DEF TypeOK, WorkerTypeOK, SchedulerTypeOK, JobsApiTypeOK, worker

LEMMA SchedulerType ==
  ASSUME TypeOK, SchedulerNext, UNCHANGED <<worker, wd, client>>
  PROVE  TypeOK'
<1> USE DEF store
<1>a. /\ jobs \in [Jobs -> Row] /\ workers \in [Workers -> WorkerRow] /\ env \in Env
      /\ queue \in [Queues -> Seq(Message)]
      /\ sch \in SchedulerState /\ (sch.pc = "push" => sch.doc.id # NoJob)
  BY DEF TypeOK, StoreTypeOK, SchedulerTypeOK
<1>b. NoPass \in SchedulerState /\ NoPass.pc = "sleep"
  BY IdleType DEF NoPass, SchedulerState
<1>1. StoreTypeOK' /\ SchedulerTypeOK'
  <2>1. CASE FindDue
    <3>1. SchedulerTypeOK'
      BY <2>1, <1>a, <1>b DEF FindDue, SchedulerTypeOK, SchedulerState
    <3> QED BY <2>1, <3>1, <1>a DEF FindDue, StoreTypeOK
  <2>2. ASSUME NEW j \in Jobs, FireJob(j)
        PROVE  StoreTypeOK' /\ SchedulerTypeOK'
    <3>1. jobs' \in [Jobs -> Row]
      BY <2>2, <1>a, RowType, UpdateType DEF FireJob, RowStatus
    <3>2. [id |-> j, retry_count |-> 0, raw |-> jobs[j].run_at] \in Doc
      BY <1>a DEF Doc, Row
    <3>3. SchedulerTypeOK'
      BY <2>2, <3>2, <1>a, StoreAssumption DEF FireJob, SchedulerTypeOK, SchedulerState
    <3> QED BY <2>2, <3>1, <3>3, <1>a DEF FireJob, StoreTypeOK
  <2>3. CASE PushFired
    <3>1. sch.doc \in Doc /\ sch.doc.id \in Jobs
      BY <2>3, <1>a DEF PushFired, SchedulerState, Doc
    <3>2. PRIORITY_QUEUE_MAP[jobs[sch.doc.id].priority] \in Queues
      BY <3>1, <1>a, MapType DEF Row, Queues
    <3>3. queue' \in [Queues -> Seq(Message)]
      BY <2>3, <3>1, <3>2, <1>a, PushType DEF PushFired
    <3>4. SchedulerTypeOK'
      BY <2>3, <1>a, <1>b, IdleType DEF PushFired, SchedulerTypeOK, SchedulerState
    <3> QED BY <2>3, <3>3, <3>4, <1>a DEF PushFired, StoreTypeOK
  <2>4. CASE SchedulerRaises
    BY <2>4, <1>a, <1>b, RaiseType DEF SchedulerRaises, StoreTypeOK, SchedulerTypeOK
  <2> QED BY <2>1, <2>2, <2>3, <2>4 DEF SchedulerNext, SchedulerStep
<1> QED BY <1>1 DEF TypeOK, WorkerTypeOK, WatchdogTypeOK, JobsApiTypeOK, worker

LEMMA JobsApiType ==
  ASSUME TypeOK, JobsApiNext, UNCHANGED <<worker, wd, sch>>
  PROVE  TypeOK'
<1> USE DEF store
<1>a. /\ jobs \in [Jobs -> Row] /\ workers \in [Workers -> WorkerRow] /\ env \in Env
      /\ queue \in [Queues -> Seq(Message)]
  BY DEF TypeOK, StoreTypeOK
<1>b. /\ client \in [Clients -> ClientState]
      /\ \A c \in Clients : client[c].pc # "idle" => client[c].id \in Jobs
  BY DEF TypeOK, JobsApiTypeOK, ClientState
<1>c. IdleClient \in ClientState /\ IdleClient.pc = "idle"
  BY IdleType DEF IdleClient, ClientState
<1>d. ASSUME NEW c \in Clients, NEW new \in ClientState, new.pc # "idle" => new.id # NoJob,
             client' = [client EXCEPT ![c] = new]
      PROVE  JobsApiTypeOK'
  BY <1>b, <1>d, StoreAssumption DEF JobsApiTypeOK
<1>e. ASSUME NEW c \in Clients, Respond(c)
      PROVE  JobsApiTypeOK'
  BY <1>c, <1>d, <1>e DEF Respond
<1>f. ASSUME NEW j \in Jobs, NEW row \in Row, save_job(j, row)
      PROVE  jobs' \in [Jobs -> Row]
  BY <1>a, <1>f DEF save_job
<1>g. ASSUME NEW p \in Priorities, NEW s \in RowStatus, NEW b \in BOOLEAN
      PROVE  NewRow(s, p, b) \in Row
  BY DEF NewRow, Row
<1>1. StoreTypeOK' /\ JobsApiTypeOK'
  <2>1. ASSUME NEW c \in Clients, NEW j \in Jobs, NEW p \in SubmitPriorities, NEW r \in RunAts,
               SubmitNow(c, j, p, r)
        PROVE  StoreTypeOK' /\ JobsApiTypeOK'
    <3>1. jobs' \in [Jobs -> Row]
      BY <2>1, <1>f, <1>g, JobsApiAssumption DEF SubmitNow, RowStatus
    <3>2. [pc |-> "push", id |-> j, doc |-> [id |-> j, retry_count |-> 0, raw |-> FALSE]]
            \in ClientState
      BY DEF ClientState, Doc
    <3>3. JobsApiTypeOK'
      BY <2>1, <3>2, <1>d, StoreAssumption DEF SubmitNow
    <3> QED BY <2>1, <3>1, <3>3, <1>a DEF SubmitNow, StoreTypeOK
  <2>2. ASSUME NEW c \in Clients, NEW j \in Jobs, NEW p \in SubmitPriorities,
               SubmitLater(c, j, p)
        PROVE  StoreTypeOK' /\ JobsApiTypeOK'
    <3>1. jobs' \in [Jobs -> Row]
      BY <2>2, <1>f, <1>g, JobsApiAssumption DEF SubmitLater, RowStatus
    <3> QED BY <2>2, <3>1, <1>a, <1>b DEF SubmitLater, StoreTypeOK, JobsApiTypeOK, TypeOK
  <2>3. ASSUME NEW c \in Clients, NEW j \in Jobs,
               CheckRetry(c, j) \/ CheckCancel(c, j) \/ CheckDelete(c, j)
        PROVE  StoreTypeOK' /\ JobsApiTypeOK'
    <3>1. ASSUME NEW pc \in {"retry", "cancel", "delete"},
                 client' = [client EXCEPT ![c].pc = pc, ![c].id = j]
          PROVE  JobsApiTypeOK'
      BY <3>1, <1>b, StoreAssumption DEF JobsApiTypeOK, ClientState
    <3>2. JobsApiTypeOK'
      BY <2>3, <3>1 DEF CheckRetry, CheckCancel, CheckDelete
    <3> QED BY <2>3, <3>2, <1>a, EnvType DEF CheckRetry, CheckCancel, CheckDelete, StoreTypeOK
  <2>4. ASSUME NEW c \in Clients, PushJob(c)
        PROVE  StoreTypeOK' /\ JobsApiTypeOK'
    <3>1. client[c].id \in Jobs /\ client[c].doc \in Doc
      BY <2>4, <1>b DEF PushJob, ClientState
    <3>2. PRIORITY_QUEUE_MAP[jobs[client[c].id].priority] \in Queues
      BY <3>1, <1>a, MapType DEF Row, Queues
    <3>3. queue' \in [Queues -> Seq(Message)]
      BY <2>4, <3>1, <3>2, <1>a, PushType DEF PushJob
    <3> QED BY <2>4, <3>3, <1>a, <1>e DEF PushJob, StoreTypeOK
  <2>5. ASSUME NEW c \in Clients, RetryJob(c)
        PROVE  StoreTypeOK' /\ JobsApiTypeOK'
    <3>1. client[c].id \in Jobs
      BY <2>5, <1>b DEF RetryJob
    <3>2. jobs' \in [Jobs -> Row]
      BY <2>5, <3>1, <1>a, RowType, UpdateType DEF RetryJob, RowStatus
    <3>3. JobsApiTypeOK'
      BY <2>5, <3>1, <1>b, StoreAssumption DEF RetryJob, JobsApiTypeOK, ClientState
    <3> QED BY <2>5, <3>2, <3>3, <1>a DEF RetryJob, StoreTypeOK
  <2>6. ASSUME NEW c \in Clients, RefetchJob(c)
        PROVE  StoreTypeOK' /\ JobsApiTypeOK'
    <3>1. client[c].id \in Jobs
      BY <2>6, <1>b DEF RefetchJob
    <3>2. get_job(client[c].id) \in Doc
      BY <3>1, <1>a, GetType
    <3>3. JobsApiTypeOK'
      BY <2>6, <3>1, <3>2, <1>b, StoreAssumption DEF RefetchJob, JobsApiTypeOK, ClientState
    <3> QED BY <2>6, <3>3, <1>a DEF RefetchJob, StoreTypeOK
  <2>7. ASSUME NEW c \in Clients, CancelJob(c) \/ DeleteJob(c)
        PROVE  StoreTypeOK' /\ JobsApiTypeOK'
    <3>1. client[c].id \in Jobs
      BY <2>7, <1>b DEF CancelJob, DeleteJob
    <3>2. jobs' \in [Jobs -> Row]
      BY <2>7, <3>1, <1>a, RowType, UpdateType DEF CancelJob, DeleteJob, delete_job, RowStatus
    <3> QED BY <2>7, <3>2, <1>a, <1>e DEF CancelJob, DeleteJob, StoreTypeOK
  <2>8. ASSUME NEW c \in Clients, ClientRaises(c)
        PROVE  StoreTypeOK' /\ JobsApiTypeOK'
    BY <2>8, <1>a, <1>e, RaiseType DEF ClientRaises, StoreTypeOK
  <2> QED BY <2>1, <2>2, <2>3, <2>4, <2>5, <2>6, <2>7, <2>8 DEF JobsApiNext, HandlerStep
<1> QED BY <1>1 DEF TypeOK, WorkerTypeOK, WatchdogTypeOK, SchedulerTypeOK, worker

LEMMA TypeStep ==
  ASSUME TypeOK, [Next]_vars
  PROVE  TypeOK'
<1>1. CASE WorkerNext /\ UNCHANGED <<wd, sch, client>>
  BY <1>1, WorkerType
<1>2. CASE WatchdogNext /\ UNCHANGED <<worker, sch, client>>
  BY <1>2, WatchdogType
<1>3. CASE SchedulerNext /\ UNCHANGED <<worker, wd, client>>
  BY <1>3, SchedulerType
<1>4. CASE JobsApiNext /\ UNCHANGED <<worker, wd, sch>>
  BY <1>4, JobsApiType
<1>5. CASE ApiCrash
  <2>1. StoreTypeOK' /\ WorkerTypeOK'
    BY <1>5, EnvType DEF ApiCrash, TypeOK, StoreTypeOK, WorkerTypeOK, worker
  <2>2. WatchdogTypeOK' /\ SchedulerTypeOK'
    BY <1>5, IdleType DEF ApiCrash, WatchdogTypeOK, SchedulerTypeOK, WatchdogState, Asleep,
                          SchedulerState, NoPass
  <2>3. JobsApiTypeOK'
    BY <1>5, IdleType DEF ApiCrash, JobsApiTypeOK, ClientState, IdleClient
  <2> QED BY <2>1, <2>2, <2>3 DEF TypeOK
<1>6. CASE UNCHANGED vars
  BY <1>6 DEF vars, TypeOK, StoreTypeOK, WorkerTypeOK, WatchdogTypeOK, SchedulerTypeOK,
              JobsApiTypeOK
<1> QED BY <1>1, <1>2, <1>3, <1>4, <1>5, <1>6 DEF Next

\* Tables, queues and every thread's state keep their types, whatever happens.
THEOREM TypeCorrect == Spec => []TypeOK
<1>1. Init => TypeOK
  BY TypeInit
<1>2. TypeOK /\ [Next]_vars => TypeOK'
  BY TypeStep
<1> QED BY <1>1, <1>2, PTL DEF Spec
=============================================================================
