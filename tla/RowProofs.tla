------------------------------ MODULE RowProofs ------------------------------
(***************************************************************************)
(* What the rows of the jobs table say is true of the queues and threads,  *)
(* for any number of jobs, workers, threads and clients: a job waits only  *)
(* in queues of its priority, and a RUNNING row names the worker that is   *)
(* busy with the job.                                                      *)
(***************************************************************************)
EXTENDS CustodyProofs

-----------------------------------------------------------------------------
(* Sequences *)

LEMMA AppendAdds ==
  ASSUME NEW S, NEW s \in Seq(S), NEW m \in S, NEW i \in DOMAIN Append(s, m)
  PROVE  Append(s, m)[i] = m \/ \E k \in DOMAIN s : Append(s, m)[i] = s[k]
<1>1. /\ DOMAIN s = 1 .. Len(s) /\ Len(s) \in Nat
      /\ DOMAIN Append(s, m) = 1 .. Len(s) + 1
      /\ \A k \in 1 .. Len(s) : Append(s, m)[k] = s[k]
      /\ Append(s, m)[Len(s) + 1] = m
  OBVIOUS
<1>2. i = Len(s) + 1 \/ i \in 1 .. Len(s)
  BY <1>1
<1> QED BY <1>1, <1>2

LEMMA TailHas ==
  ASSUME NEW S, NEW s \in Seq(S), s # <<>>
  PROVE  /\ \A i \in DOMAIN Tail(s) : \E k \in DOMAIN s : Tail(s)[i] = s[k]
         /\ \E k \in DOMAIN s : Head(s) = s[k]
<1>1. /\ DOMAIN s = 1 .. Len(s) /\ Len(s) \in Nat /\ Len(s) > 0
      /\ DOMAIN Tail(s) = 1 .. Len(s) - 1
      /\ \A k \in 1 .. Len(s) - 1 : Tail(s)[k] = s[k + 1]
      /\ Head(s) = s[1]
  OBVIOUS
<1>2. ASSUME NEW i \in DOMAIN Tail(s)
      PROVE  i + 1 \in DOMAIN s /\ Tail(s)[i] = s[i + 1]
  BY <1>1, <1>2
<1>3. 1 \in DOMAIN s
  BY <1>1
<1> QED BY <1>1, <1>2, <1>3

-----------------------------------------------------------------------------
(* PriorityKept *)

HasTask(w, j, q) == \E i \in DOMAIN pending[w] : pending[w][i].id = j /\ pending[w][i].queue = q

\* j is in queue q, or with a worker that popped it from there.
Waits(j, q) ==
  \/ q \in PriorityQueues /\ Names(queue[q], j)
  \/ \E w \in Workers : HasTask(w, j, q)
  \/ \E w \in Workers, t \in Threads : thread[w][t].id = j /\ thread[w][t].queue = q

\* A thread of the API process knows j.
KnownToApi(j) ==
  \/ wd.id = j \/ j \in wd.stuck
  \/ sch.doc.id = j \/ j \in sch.due
  \/ \E c \in Clients : client[c].id = j

\* A dict about to be pushed is of the job in hand, or null.
DocsFit ==
  /\ \A w \in Workers, t \in Threads :
       thread[w][t].pc = "backoff" => thread[w][t].doc.id \in {thread[w][t].id, NoJob}
  /\ wd.pc = "push" => wd.doc.id \in {wd.id, NoJob}
  /\ \A c \in Clients : client[c].pc = "push" => client[c].doc.id \in {client[c].id, NoJob}

\* An id that has not been submitted yet is known to nobody.
Unknown(j) == jobs[j].status = "UNUSED" => ~KnownToApi(j) /\ \A q : ~Waits(j, q)

InOwnQueue(j) == \A q : Waits(j, q) => InQueueOf(j, q)

QueueInv == TypeOK /\ DocsFit /\ \A j \in Jobs : Unknown(j) /\ InOwnQueue(j)

LEMMA InitQueueInv == Init => QueueInv
<1> SUFFICES ASSUME Init PROVE QueueInv
  OBVIOUS
<1>1. DocsFit
  BY DEF Init, WorkerInit, WatchdogInit, JobsApiInit, DocsFit, IdleThread, Asleep, IdleClient
<1>2. ASSUME NEW j \in Jobs
      PROVE  ~KnownToApi(j)
  BY StoreAssumption DEF Init, WatchdogInit, SchedulerInit, JobsApiInit, KnownToApi, Asleep,
     NoPass, IdleClient, NoDoc
<1>3. ASSUME NEW j \in Jobs, NEW q
      PROVE  ~Waits(j, q)
  <2>1. q \in PriorityQueues => ~Names(queue[q], j)
    BY DEF Init, StoreInit, Queues, Names
  <2>2. \A w \in Workers : ~HasTask(w, j, q)
    BY DEF Init, WorkerInit, HasTask
  <2>3. \A w \in Workers, t \in Threads : thread[w][t].id # j
    BY StoreAssumption DEF Init, WorkerInit, IdleThread
  <2> QED BY <2>1, <2>2, <2>3 DEF Waits
<1> QED BY <1>1, <1>2, <1>3, TypeInit DEF QueueInv, Unknown, InOwnQueue

\* Who keeps or gives up messages, tasks and threads adds no place.
LEMMA FewerPlaces ==
  ASSUME WorkerTypeOK, NEW j \in Jobs, NEW q,
         UNCHANGED queue,
         \A w \in Workers : pending'[w] = pending[w] \/ pending'[w] = <<>>,
         \A w \in Workers, t \in Threads :
           \/ thread'[w][t].id = NoJob
           \/ thread'[w][t].id = thread[w][t].id /\ thread'[w][t].queue = thread[w][t].queue,
         Waits(j, q)'
  PROVE  Waits(j, q)
<1>1. CASE (q \in PriorityQueues /\ Names(queue[q], j))'
  BY <1>1 DEF Waits
<1>2. ASSUME NEW w \in Workers, HasTask(w, j, q)'
      PROVE  Waits(j, q)
  BY <1>2 DEF Waits, HasTask
<1>3. ASSUME NEW w \in Workers, NEW t \in Threads,
             thread'[w][t].id = j /\ thread'[w][t].queue = q
      PROVE  Waits(j, q)
  <2>1. thread'[w][t].id # NoJob
    BY <1>3, StoreAssumption
  <2> QED BY <2>1, <1>3 DEF Waits
<1> QED BY <1>1, <1>2, <1>3 DEF Waits

\* A push puts a job into one more queue.
LEMMA PushPlaces ==
  ASSUME TypeOK, NEW p \in Queues, NEW doc \in Doc, push_or_raise(p, doc) \/ push_job(p, doc),
         NEW j \in Jobs, NEW q \in PriorityQueues, Names(queue[q], j)'
  PROVE  Names(queue[q], j) \/ (q = p /\ doc.id = j)
<1> DEFINE m == [id |-> doc.id, retry_count |-> doc.retry_count]
<1>1. m \in Message /\ m.id = doc.id
  BY DEF Doc, Message
<1>2. q \in Queues /\ queue \in [Queues -> Seq(Message)]
  BY DEF Queues, TypeOK, StoreTypeOK
<1>3. CASE push_job(p, doc)
  <2>1. queue' = [queue EXCEPT ![p] = Append(queue[p], m)]
    BY <1>3 DEF push_job
  <2> HIDE DEF m
  <2>2. CASE q = p
    <3>1. queue'[q] = Append(queue[q], m) /\ queue[q] \in Seq(Message)
      BY <2>1, <2>2, <1>2
    <3>2. PICK i \in DOMAIN queue'[q] : queue'[q][i].id = j
      BY DEF Names
    <3>3. queue'[q][i] = m \/ \E k \in DOMAIN queue[q] : queue'[q][i] = queue[q][k]
      BY <3>1, <3>2, <1>1, AppendAdds
    <3> QED BY <3>2, <3>3, <2>2, <1>1 DEF Names
  <2>3. CASE q # p
    BY <2>1, <2>3, <1>2 DEF Names
  <2> QED BY <2>2, <2>3
<1>4. CASE UNCHANGED queue
  BY <1>4 DEF Names
<1> QED BY <1>3, <1>4 DEF push_or_raise

-----------------------------------------------------------------------------
\* Workers pass jobs on between queue, executor and thread, and put them back
\* where they came from.
LEMMA ProcessPlaces ==
  ASSUME TypeOK, NEW w \in Workers,
         Start(w) \/ MainStep(w) \/ Stop(w) \/ PopRaises(w) \/ ShutdownRaises(w) \/ Crash(w)
           \/ Heartbeat(w) \/ Silence(w),
         NEW j \in Jobs, NEW q, Waits(j, q)'
  PROVE  Waits(j, q)
<1> USE DEF store, worker
<1>a. WorkerTypeOK /\ queue \in [Queues -> Seq(Message)]
  BY DEF TypeOK, StoreTypeOK
<1>1. CASE PopJob(w)
  <2>1. PICK p \in PriorityQueues :
          /\ queue[p] # <<>>
          /\ queue' = [queue EXCEPT ![p] = Tail(@)]
          /\ pending' = [pending EXCEPT ![w] =
                           Append(@, [id |-> Head(queue[p]).id,
                                      retry_count |-> Head(queue[p]).retry_count,
                                      queue |-> p])]
    BY <1>1 DEF PopJob, PopsFrom
  <2> DEFINE task == [id |-> Head(queue[p]).id, retry_count |-> Head(queue[p]).retry_count,
                      queue |-> p]
  <2>2. p \in Queues /\ queue[p] \in Seq(Message) /\ queue'[p] = Tail(queue[p])
    BY <2>1, <1>a DEF Queues
  <2>3. Head(queue[p]) \in Message
    BY <2>1, <2>2
  <2>4. task \in Task /\ task.id = Head(queue[p]).id /\ task.queue = p
    BY <2>3 DEF Task, Message
  <2>5. pending' = [pending EXCEPT ![w] = Append(@, task)]
    BY <2>1
  <2> HIDE DEF task
  <2>6. UNCHANGED thread
    BY <1>1 DEF PopJob
  <2>7. ASSUME q \in PriorityQueues, Names(queue[q], j)'
        PROVE  Waits(j, q)
    <3>1. CASE q = p
      <4>1. PICK i \in DOMAIN Tail(queue[p]) : Tail(queue[p])[i].id = j
        BY <2>7, <2>2, <3>1 DEF Names
      <4>2. \E k \in DOMAIN queue[p] : Tail(queue[p])[i] = queue[p][k]
        BY <4>1, <2>1, <2>2, TailHas
      <4> QED BY <4>1, <4>2, <3>1 DEF Names, Waits
    <3>2. CASE q # p
      <4>1. queue'[q] = queue[q]
        BY <3>2, <2>1, <2>7, <1>a DEF Queues
      <4> QED BY <4>1, <2>7 DEF Names, Waits
    <3> QED BY <3>1, <3>2
  <2>8. ASSUME NEW x \in Workers, HasTask(x, j, q)'
        PROVE  Waits(j, q)
    <3>1. CASE x = w
      <4>1. pending[w] \in Seq(Task) /\ pending'[w] = Append(pending[w], task)
        BY <2>5, <1>a DEF WorkerTypeOK
      <4>2. PICK i \in DOMAIN pending'[w] : pending'[w][i].id = j /\ pending'[w][i].queue = q
        BY <2>8, <3>1 DEF HasTask
      <4>3. CASE pending'[w][i] = task
        <5>1. Head(queue[p]).id = j /\ q = p
          BY <4>2, <4>3, <2>4
        <5>2. \E k \in DOMAIN queue[p] : Head(queue[p]) = queue[p][k]
          BY <2>1, <2>2, TailHas
        <5> QED BY <5>1, <5>2 DEF Waits, Names
      <4>4. CASE \E k \in DOMAIN pending[w] : pending'[w][i] = pending[w][k]
        BY <4>2, <4>4 DEF Waits, HasTask
      <4> QED BY <4>1, <4>2, <4>3, <4>4, <2>4, AppendAdds
    <3>2. CASE x # w
      <4>1. pending'[x] = pending[x]
        BY <3>2, <2>5, <1>a DEF WorkerTypeOK
      <4> QED BY <4>1, <2>8 DEF HasTask, Waits
    <3> QED BY <3>1, <3>2
  <2>9. ASSUME NEW x \in Workers, NEW u \in Threads,
               thread'[x][u].id = j /\ thread'[x][u].queue = q
        PROVE  Waits(j, q)
    BY <2>6, <2>9 DEF Waits
  <2> QED BY <2>7, <2>8, <2>9 DEF Waits
<1>2. CASE Crash(w)
  <2>1. \A x \in Workers : pending'[x] = pending[x] \/ pending'[x] = <<>>
    BY <1>2, <1>a DEF Crash, WorkerTypeOK
  <2>2. \A x \in Workers, u \in Threads :
           \/ thread'[x][u].id = NoJob
           \/ thread'[x][u].id = thread[x][u].id /\ thread'[x][u].queue = thread[x][u].queue
    BY <1>2, <1>a DEF Crash, WorkerTypeOK, IdleThread
  <2>3. UNCHANGED queue
    BY <1>2 DEF Crash
  <2> QED BY <2>1, <2>2, <2>3, <1>a, FewerPlaces
<1>3. CASE \/ Start(w) \/ LeaveLoop(w) \/ Shutdown(w) \/ Stop(w) \/ PopRaises(w)
           \/ ShutdownRaises(w) \/ Heartbeat(w) \/ Silence(w)
  <2>1. UNCHANGED <<queue, pending, thread>>
    BY <1>3 DEF Start, LeaveLoop, Shutdown, Stop, PopRaises, ShutdownRaises, Heartbeat, Silence
  <2> QED BY <2>1, <1>a, FewerPlaces
<1> QED BY <1>1, <1>2, <1>3 DEF MainStep
\* A thread that keeps its task, or takes the first one, or puts it back.
LEMMA ThreadPlaces ==
  ASSUME TypeOK, DocsFit, NEW w \in Workers, NEW t \in Threads,
         \/ ThreadStep(w, t) \/ PickUpThenRaise(w, t) \/ CountRaises(w, t)
         \/ ThreadRaises(w, t),
         NEW j \in Jobs, NEW q, Waits(j, q)'
  PROVE  Waits(j, q)
<1> USE DEF store, worker
<1> DEFINE self == thread[w][t]
<1>a. WorkerTypeOK /\ queue \in [Queues -> Seq(Message)]
  BY DEF TypeOK, StoreTypeOK
<1>b. self \in ThreadState /\ (self.pc # "idle" => self.id \in Jobs /\ self.queue \in PriorityQueues)
  BY <1>a, ThreadType
<1>c. ASSUME NEW x \in Workers, NEW u \in Threads, <<x, u>> # <<w, t>>,
             NEW new, thread' = [thread EXCEPT ![w][t] = new]
      PROVE  thread'[x][u] = thread[x][u]
  BY <1>c, <1>a DEF WorkerTypeOK
<1>d. ASSUME NEW new, thread' = [thread EXCEPT ![w][t] = new],
             new.id = NoJob \/ (new.id = self.id /\ new.queue = self.queue)
      PROVE  \A x \in Workers, u \in Threads :
               \/ thread'[x][u].id = NoJob
               \/ thread'[x][u].id = thread[x][u].id /\ thread'[x][u].queue = thread[x][u].queue
  <2>1. thread'[w][t] = new
    BY <1>a, <1>d DEF WorkerTypeOK
  <2> QED BY <1>c, <1>d, <2>1
<1>e. ASSUME NEW pc, Goto(w, t, pc)
      PROVE  \E new : /\ thread' = [thread EXCEPT ![w][t] = new]
                      /\ new.id = self.id /\ new.queue = self.queue
  <2> DEFINE new == [self EXCEPT !.pc = pc]
  <2>1. thread' = [thread EXCEPT ![w][t] = new]
    BY <1>e, <1>a DEF Goto, WorkerTypeOK
  <2>2. new.id = self.id /\ new.queue = self.queue
    BY <1>b DEF ThreadState
  <2> QED BY <2>1, <2>2
<1>f. ASSUME Finish(w, t)
      PROVE  \E new : thread' = [thread EXCEPT ![w][t] = new] /\ new.id = NoJob
  <2>1. thread' = [thread EXCEPT ![w][t] = IdleThread] /\ IdleThread.id = NoJob
    BY <1>f DEF Finish, IdleThread
  <2> QED BY <2>1
<1>g. ASSUME \E new : thread' = [thread EXCEPT ![w][t] = new]
                      /\ (new.id = NoJob \/ (new.id = self.id /\ new.queue = self.queue)),
             UNCHANGED <<queue, pending>>
      PROVE  Waits(j, q)
  BY <1>g, <1>a, <1>d, FewerPlaces
<1>1. CASE StartTask(w, t) \/ DropNull(w, t)
  <2>1. /\ pending[w] # <<>> /\ pending[w] \in Seq(Task)
        /\ pending' = [pending EXCEPT ![w] = Tail(@)] /\ UNCHANGED queue
    BY <1>1, <1>a DEF StartTask, DropNull, WorkerTypeOK
  <2>2. /\ pending'[w] = Tail(pending[w])
        /\ \A x \in Workers : x # w => pending'[x] = pending[x]
    BY <2>1, <1>a DEF WorkerTypeOK
  <2>3. ASSUME q \in PriorityQueues, Names(queue[q], j)'
        PROVE  Waits(j, q)
    BY <2>3, <2>1 DEF Waits, Names
  <2>4. ASSUME NEW x \in Workers, HasTask(x, j, q)'
        PROVE  Waits(j, q)
    <3>1. CASE x = w
      <4>1. PICK i \in DOMAIN Tail(pending[w]) :
              Tail(pending[w])[i].id = j /\ Tail(pending[w])[i].queue = q
        BY <2>4, <2>2, <3>1 DEF HasTask
      <4>2. \E k \in DOMAIN pending[w] : Tail(pending[w])[i] = pending[w][k]
        BY <4>1, <2>1, TailHas
      <4> QED BY <4>1, <4>2 DEF Waits, HasTask
    <3>2. CASE x # w
      BY <3>2, <2>4, <2>2 DEF HasTask, Waits
    <3> QED BY <3>1, <3>2
  <2>5. ASSUME NEW x \in Workers, NEW u \in Threads,
               thread'[x][u].id = j /\ thread'[x][u].queue = q
        PROVE  Waits(j, q)
    <3>1. CASE thread'[x][u] = thread[x][u]
      BY <2>5, <3>1 DEF Waits
    <3>2. CASE StartTask(w, t) /\ <<x, u>> = <<w, t>>
      <4>1. /\ thread'[w][t].id = Head(pending[w]).id
            /\ thread'[w][t].queue = Head(pending[w]).queue
        BY <3>2, <1>a DEF StartTask, WorkerTypeOK
      <4>2. \E k \in DOMAIN pending[w] : Head(pending[w]) = pending[w][k]
        BY <2>1, TailHas
      <4> QED BY <4>1, <4>2, <3>2, <2>5 DEF Waits, HasTask
    <3>3. CASE StartTask(w, t) /\ <<x, u>> # <<w, t>>
      <4>1. \E new : thread' = [thread EXCEPT ![w][t] = new]
        BY <3>3 DEF StartTask
      <4> QED BY <4>1, <3>1, <3>3, <1>c
    <3>4. CASE DropNull(w, t)
      BY <3>4, <3>1 DEF DropNull
    <3> QED BY <3>2, <3>3, <3>4, <1>1
  <2> QED BY <2>3, <2>4, <2>5 DEF Waits
<1>2. CASE \/ PickUp(w, t) \/ Complete(w, t) \/ ExecuteFails(w, t) \/ RetryLater(w, t)
           \/ GiveUp(w, t) \/ CountRaises(w, t)
  <2>1. (\E pc : Goto(w, t, pc)) /\ UNCHANGED <<queue, pending>>
    BY <1>2 DEF PickUp, Complete, ExecuteFails, RetryLater, GiveUp, CountRaises
  <2> QED BY <2>1, <1>e, <1>g
<1>3. CASE Count(w, t) \/ PickUpThenRaise(w, t) \/ ThreadRaises(w, t)
  <2>1. Finish(w, t) /\ UNCHANGED <<queue, pending>>
    BY <1>3 DEF Count, PickUpThenRaise, ThreadRaises
  <2> QED BY <2>1, <1>f, <1>g
<1>4. CASE Refetch(w, t)
  <2> DEFINE new == [self EXCEPT !.pc = "backoff", !.doc = get_job(self.id)]
  <2>1. thread' = [thread EXCEPT ![w][t] = new] /\ UNCHANGED <<queue, pending>>
    BY <1>4, <1>a DEF Refetch, WorkerTypeOK
  <2>2. new.id = self.id /\ new.queue = self.queue
    BY <1>b DEF ThreadState
  <2> QED BY <2>1, <2>2, <1>g
<1>5. CASE Requeue(w, t) \/ PushDLQ(w, t)
  <2>1. PICK p \in Queues, doc \in Doc :
          /\ push_or_raise(p, doc) \/ push_job(p, doc)
          /\ p \in PriorityQueues => p = self.queue /\ doc.id \in {self.id, NoJob}
    <3>1. CASE Requeue(w, t)
      <4>1. self.queue \in Queues /\ self.doc \in Doc /\ self.doc.id \in {self.id, NoJob}
        BY <3>1, <1>b DEF Requeue, Queues, ThreadState, DocsFit
      <4> QED BY <3>1, <4>1 DEF Requeue
    <3>2. CASE PushDLQ(w, t)
      <4> DEFINE doc == [id |-> self.id, retry_count |-> self.retry_count + 1, raw |-> FALSE]
      <4>1. QUEUE_DLQ \in Queues /\ QUEUE_DLQ \notin PriorityQueues
        BY DEF Queues, QUEUE_DLQ, PriorityQueues
      <4>2. doc \in Doc
        BY <3>2, <1>b DEF PushDLQ, ThreadState, Doc
      <4>3. push_job(QUEUE_DLQ, doc)
        BY <3>2 DEF PushDLQ
      <4> QED BY <4>1, <4>2, <4>3
    <3> QED BY <1>5, <3>1, <3>2
  <2>2. self.pc # "idle" /\ Finish(w, t) /\ UNCHANGED pending
    BY <1>5 DEF Requeue, PushDLQ
  <2>3. ASSUME q \in PriorityQueues, Names(queue[q], j)'
        PROVE  Waits(j, q)
    <3>1. Names(queue[q], j) \/ (q = p /\ doc.id = j)
      BY <2>1, <2>3, PushPlaces
    <3>2. j # NoJob
      BY StoreAssumption
    <3> QED BY <3>1, <3>2, <2>1, <2>3 DEF Waits
  <2>4. ASSUME NEW x \in Workers, HasTask(x, j, q)'
        PROVE  Waits(j, q)
    BY <2>4, <2>2 DEF HasTask, Waits
  <2>5. ASSUME NEW x \in Workers, NEW u \in Threads,
               thread'[x][u].id = j /\ thread'[x][u].queue = q
        PROVE  Waits(j, q)
    <3>1. j # NoJob
      BY StoreAssumption
    <3>2. thread'[x][u].id = thread[x][u].id /\ thread'[x][u].queue = thread[x][u].queue
      BY <3>1, <2>5, <2>2, <1>d, <1>f
    <3> QED BY <3>2, <2>5 DEF Waits
  <2> QED BY <2>3, <2>4, <2>5 DEF Waits
<1> QED BY <1>1, <1>2, <1>3, <1>4, <1>5 DEF ThreadStep

LEMMA WorkerPlaces ==
  ASSUME TypeOK, DocsFit, WorkerNext, NEW j \in Jobs, NEW q, Waits(j, q)'
  PROVE  Waits(j, q)
  BY ProcessPlaces, ThreadPlaces DEF WorkerNext

-----------------------------------------------------------------------------
\* The API process pushes a job it knows, into the queue of its priority.
LEMMA ApiPlaces ==
  ASSUME TypeOK, DocsFit, UNCHANGED worker,
         WatchdogNext \/ SchedulerNext \/ JobsApiNext,
         NEW j \in Jobs, NEW q, Waits(j, q)'
  PROVE  Waits(j, q) \/ (KnownToApi(j) /\ InQueueOf(j, q))
<1> USE DEF store, worker
<1>1. \/ UNCHANGED queue
      \/ \E k \in Jobs, doc \in Doc :
           /\ KnownToApi(k) /\ doc.id \in {k, NoJob}
           /\ push_or_raise(PRIORITY_QUEUE_MAP[jobs[k].priority], doc)
  <2>1. CASE WatchdogNext
    <3>1. CASE PushStuck
      <4>1. wd.id \in Jobs /\ wd.doc \in Doc /\ wd.doc.id \in {wd.id, NoJob}
        BY <3>1 DEF PushStuck, TypeOK, WatchdogTypeOK, WatchdogState, DocsFit
      <4> QED BY <3>1, <4>1 DEF PushStuck, KnownToApi
    <3>2. CASE ~PushStuck
      BY <2>1, <3>2 DEF WatchdogNext, WatchdogStep, CheckWorkers, MarkOffline, SelectStuck,
         RecoverJob, RefetchStuck, WatchdogRaises
    <3> QED BY <3>1, <3>2
  <2>2. CASE SchedulerNext
    <3>1. CASE PushFired
      <4>1. sch.doc.id \in Jobs /\ sch.doc \in Doc
        BY <3>1 DEF PushFired, TypeOK, SchedulerTypeOK, SchedulerState, Doc
      <4> QED BY <3>1, <4>1 DEF PushFired, KnownToApi
    <3>2. CASE ~PushFired
      BY <2>2, <3>2 DEF SchedulerNext, SchedulerStep, FindDue, FireJob, SchedulerRaises
    <3> QED BY <3>1, <3>2
  <2>3. CASE JobsApiNext
    <3>1. ASSUME NEW c \in Clients, PushJob(c)
          PROVE  \E k \in Jobs, doc \in Doc :
                   /\ KnownToApi(k) /\ doc.id \in {k, NoJob}
                   /\ push_or_raise(PRIORITY_QUEUE_MAP[jobs[k].priority], doc)
      <4>1. /\ client[c].id \in Jobs /\ client[c].doc \in Doc
            /\ client[c].doc.id \in {client[c].id, NoJob}
        BY <3>1 DEF PushJob, TypeOK, JobsApiTypeOK, ClientState, DocsFit
      <4> QED BY <3>1, <4>1 DEF PushJob, KnownToApi
    <3>2. CASE \A c \in Clients : ~PushJob(c)
      BY <2>3, <3>2 DEF JobsApiNext, HandlerStep, SubmitNow, SubmitLater, CheckRetry, RetryJob,
         RefetchJob, CheckCancel, CancelJob, CheckDelete, DeleteJob, ClientRaises
    <3> QED BY <3>1, <3>2
  <2> QED BY <2>1, <2>2, <2>3
<1>2. CASE UNCHANGED queue
  <2>1. UNCHANGED <<pending, thread>>
    OBVIOUS
  <2> QED BY <1>2, <2>1, FewerPlaces DEF TypeOK
<1>3. ASSUME NEW k \in Jobs, NEW doc \in Doc, KnownToApi(k), doc.id \in {k, NoJob},
             push_or_raise(PRIORITY_QUEUE_MAP[jobs[k].priority], doc),
             q \in PriorityQueues, Names(queue[q], j)'
      PROVE  Names(queue[q], j) \/ (KnownToApi(j) /\ InQueueOf(j, q))
  <2> DEFINE p == PRIORITY_QUEUE_MAP[jobs[k].priority]
  <2>1. p \in Queues
    BY MapType DEF TypeOK, StoreTypeOK, Row, Queues
  <2>2. Names(queue[q], j) \/ (q = p /\ doc.id = j)
    <3> HIDE DEF p
    <3>1. push_or_raise(p, doc)
      BY <1>3 DEF p
    <3> QED BY <3>1, <2>1, <1>3, PushPlaces
  <2>3. j # NoJob
    BY StoreAssumption
  <2> QED BY <2>2, <2>3, <1>3 DEF InQueueOf
<1>4. ASSUME NEW w \in Workers, HasTask(w, j, q)'
      PROVE  Waits(j, q)
  BY <1>4 DEF HasTask, Waits
<1>5. ASSUME NEW w \in Workers, NEW t \in Threads,
             thread'[w][t].id = j /\ thread'[w][t].queue = q
      PROVE  Waits(j, q)
  BY <1>5 DEF Waits
<1> QED BY <1>1, <1>2, <1>3, <1>4, <1>5 DEF Waits
-----------------------------------------------------------------------------
LEMMA AsleepShape ==
  /\ Asleep.pc = "sleep" /\ Asleep.id = NoJob /\ Asleep.stuck = {}
  /\ \A late : LET listed == [Asleep EXCEPT !.pc = "mark", !.due = late]
               IN listed.pc = "mark" /\ listed.id = NoJob /\ listed.stuck = {}
  BY DEF Asleep

LEMMA PassShape ==
  ASSUME sch \in SchedulerState
  PROVE  /\ NoPass.doc.id = NoJob /\ NoPass.due = {}
         /\ [sch EXCEPT !.pc = "fire", !.doc = NoDoc].doc.id = NoJob
         /\ [sch EXCEPT !.pc = "fire", !.doc = NoDoc].due = sch.due
  BY DEF NoPass, NoDoc, SchedulerState

\* The API process hears of a job from its row, which is there.
LEMMA ApiHears ==
  ASSUME TypeOK, [Next]_vars, NEW j \in Jobs, KnownToApi(j)', jobs'[j].status = "UNUSED"
  PROVE  KnownToApi(j)
<1> USE DEF store, worker
<1>a. /\ jobs \in [Jobs -> Row] /\ j # NoJob /\ NoDoc.id = NoJob
      /\ wd \in WatchdogState /\ sch \in SchedulerState /\ client \in [Clients -> ClientState]
  BY StoreAssumption DEF TypeOK, StoreTypeOK, WatchdogTypeOK, SchedulerTypeOK, JobsApiTypeOK, NoDoc
<1>b. ASSUME UNCHANGED <<wd, sch>>,
             \A c \in Clients : client'[c].id \in {client[c].id, NoJob}
      PROVE  KnownToApi(j)
  BY <1>a, <1>b DEF KnownToApi
<1>c. ASSUME UNCHANGED <<sch, client>>, wd'.id \in {wd.id, NoJob} \/ wd'.id \in wd.stuck,
             \A k \in wd'.stuck : k \in wd.stuck \/ jobs'[k].status = "RUNNING"
      PROVE  KnownToApi(j)
  BY <1>a, <1>c DEF KnownToApi
<1>d. ASSUME UNCHANGED <<wd, client>>,
             sch'.doc.id \in {sch.doc.id, NoJob} \/ sch'.doc.id \in sch.due,
             \A k \in sch'.due : k \in sch.due \/ jobs'[k].status = "SCHEDULED"
      PROVE  KnownToApi(j)
  BY <1>a, <1>d DEF KnownToApi
<1>1. CASE WorkerNext /\ UNCHANGED <<wd, sch, client>>
  BY <1>1 DEF KnownToApi
<1>2. CASE WatchdogNext /\ UNCHANGED <<worker, sch, client>>
  <2>1. ASSUME NEW left, wd' = Resume(left)
        PROVE  wd'.id = NoJob /\ wd'.stuck \subseteq left
    BY <2>1, <1>a DEF Resume, Asleep, WatchdogState
  <2>2. CASE CheckWorkers \/ WatchdogRaises
    <3>1. wd' = Asleep \/ \E late : wd' = [Asleep EXCEPT !.pc = "mark", !.due = late]
      BY <2>2 DEF CheckWorkers, WatchdogRaises
    <3>2. wd'.id = NoJob /\ wd'.stuck = {}
      BY <3>1, AsleepShape
    <3> QED BY <3>2, <1>2, <1>c
  <2>3. ASSUME NEW w \in Workers, MarkOffline(w)
        PROVE  KnownToApi(j)
    <3>1. wd'.id = wd.id /\ wd'.stuck = wd.stuck
      BY <2>3, <1>a DEF MarkOffline, WatchdogState
    <3> QED BY <3>1, <1>2, <1>c
  <2>4. CASE SelectStuck
    <3>1. wd'.id = NoJob /\ (\A k \in wd'.stuck : jobs[k].status = "RUNNING") /\ UNCHANGED jobs
      BY <2>4, <2>1 DEF SelectStuck
    <3> QED BY <3>1, <1>2, <1>c
  <2>5. ASSUME NEW k \in Jobs, RecoverJob(k)
        PROVE  KnownToApi(j)
    <3>1. wd'.id = k /\ k \in wd.stuck /\ wd'.stuck \subseteq wd.stuck
      BY <2>5, <1>a DEF RecoverJob, WatchdogState
    <3> QED BY <3>1, <1>2, <1>c
  <2>6. CASE RefetchStuck
    <3>1. wd'.id = wd.id /\ wd'.stuck = wd.stuck
      BY <2>6, <1>a DEF RefetchStuck, WatchdogState
    <3> QED BY <3>1, <1>2, <1>c
  <2>7. CASE PushStuck
    <3>1. wd'.id = NoJob /\ wd'.stuck \subseteq wd.stuck
      BY <2>7, <2>1 DEF PushStuck, Asleep
    <3> QED BY <3>1, <1>2, <1>c
  <2> QED BY <1>2, <2>2, <2>3, <2>4, <2>5, <2>6, <2>7 DEF WatchdogNext, WatchdogStep
<1>3. CASE SchedulerNext /\ UNCHANGED <<worker, wd, client>>
  <2>1. CASE FindDue
    <3>1. sch'.doc.id = NoJob /\ (\A k \in sch'.due : jobs[k].status = "SCHEDULED") /\ UNCHANGED jobs
      BY <2>1, <1>a DEF FindDue, NoPass
    <3> QED BY <3>1, <1>3, <1>d
  <2>2. ASSUME NEW k \in Jobs, FireJob(k)
        PROVE  KnownToApi(j)
    <3>1. sch'.doc.id = k /\ k \in sch.due /\ sch'.due \subseteq sch.due
      BY <2>2 DEF FireJob
    <3> QED BY <3>1, <1>3, <1>d
  <2>3. CASE PushFired \/ SchedulerRaises
    <3>1. sch' = NoPass \/ sch' = [sch EXCEPT !.pc = "fire", !.doc = NoDoc]
      BY <2>3 DEF PushFired, SchedulerRaises
    <3>2. sch'.doc.id = NoJob /\ sch'.due \subseteq sch.due
      BY <3>1, <1>a, PassShape
    <3> QED BY <3>2, <1>3, <1>d
  <2> QED BY <1>3, <2>1, <2>2, <2>3 DEF SchedulerNext, SchedulerStep
<1>4. CASE JobsApiNext /\ UNCHANGED <<worker, wd, sch>>
  <2>1. ASSUME NEW c \in Clients, NEW new, client' = [client EXCEPT ![c] = new],
               new.id \in {client[c].id, NoJob} \/ new.id # j
        PROVE  KnownToApi(j)
    <3>1. \A d \in Clients : client'[d].id = j => client[d].id = j
      BY <2>1, <1>a
    <3> QED BY <3>1, <1>4 DEF KnownToApi
  <2>2. ASSUME NEW c \in Clients, NEW k \in Jobs, NEW p \in SubmitPriorities, NEW r \in RunAts,
               SubmitNow(c, k, p, r)
        PROVE  KnownToApi(j)
    <3>1. k # j
      BY <2>2, <1>a DEF SubmitNow, save_job, NewRow
    <3> QED BY <3>1, <2>2, <2>1 DEF SubmitNow
  <2>3. ASSUME NEW c \in Clients, NEW k \in Jobs, NEW p \in SubmitPriorities,
               SubmitLater(c, k, p)
        PROVE  KnownToApi(j)
    BY <2>3, <1>4, <1>b DEF SubmitLater
  <2>4. ASSUME NEW c \in Clients, NEW k \in Jobs,
               CheckRetry(c, k) \/ CheckCancel(c, k) \/ CheckDelete(c, k)
        PROVE  KnownToApi(j)
    <3>1. k # j /\ UNCHANGED jobs
      BY <2>4 DEF CheckRetry, CheckCancel, CheckDelete, Exists
    <3>2. \E pc \in {"retry", "cancel", "delete"} :
            client' = [client EXCEPT ![c] = [client[c] EXCEPT !.pc = pc, !.id = k]]
      BY <2>4, <1>a DEF CheckRetry, CheckCancel, CheckDelete
    <3>3. \A pc : [client[c] EXCEPT !.pc = pc, !.id = k].id = k
      BY <1>a DEF ClientState
    <3> QED BY <3>1, <3>2, <3>3, <2>1
  <2>5. ASSUME NEW c \in Clients, RetryJob(c) \/ RefetchJob(c)
        PROVE  KnownToApi(j)
    <3>1. \A d \in Clients : client'[d].id = client[d].id
      BY <2>5, <1>a DEF RetryJob, RefetchJob, ClientState
    <3> QED BY <3>1, <1>4, <1>b
  <2>6. ASSUME NEW c \in Clients, PushJob(c) \/ CancelJob(c) \/ DeleteJob(c) \/ ClientRaises(c)
        PROVE  KnownToApi(j)
    <3>1. client' = [client EXCEPT ![c] = IdleClient] /\ IdleClient.id = NoJob
      BY <2>6 DEF PushJob, CancelJob, DeleteJob, ClientRaises, Respond, IdleClient
    <3> QED BY <3>1, <2>1
  <2> QED BY <1>4, <2>2, <2>3, <2>4, <2>5, <2>6 DEF JobsApiNext, HandlerStep
<1>5. CASE ApiCrash
  <2>1. wd'.id = NoJob /\ wd'.stuck = {} /\ sch'.doc.id = NoJob /\ sch'.due = {}
        /\ \A c \in Clients : client'[c].id = NoJob
    BY <1>5, <1>a DEF ApiCrash, Asleep, NoPass, IdleClient
  <2> QED BY <2>1, <1>a DEF KnownToApi
<1>6. CASE UNCHANGED vars
  BY <1>6 DEF vars, KnownToApi
<1> QED BY <1>1, <1>2, <1>3, <1>4, <1>5, <1>6 DEF Next
-----------------------------------------------------------------------------
\* A job gets its priority when it is submitted, and keeps it.
LEMMA PriorityIsForLife ==
  ASSUME TypeOK, [Next]_vars, NEW j \in Jobs
  PROVE  \/ /\ jobs'[j].priority = jobs[j].priority
            /\ jobs'[j].status = "UNUSED" <=> jobs[j].status = "UNUSED"
         \/ /\ jobs[j].status = "UNUSED" /\ jobs'[j].status # "UNUSED"
            /\ UNCHANGED <<queue, worker>>
<1> USE DEF store, worker
<1> DEFINE Kept == /\ jobs'[j].priority = jobs[j].priority
                   /\ jobs'[j].status = "UNUSED" <=> jobs[j].status = "UNUSED"
<1>a. /\ jobs \in [Jobs -> Row]
      /\ \A w \in Workers, t \in Threads : thread[w][t].pc # "idle" => thread[w][t].id \in Jobs
      /\ \A c \in Clients : client[c].pc # "idle" => client[c].id \in Jobs
  BY ThreadType DEF TypeOK, StoreTypeOK, JobsApiTypeOK, ClientState
<1>c. ASSUME NEW k \in Jobs
      PROVE  jobs[k] \in Row
  BY <1>a
<1> HIDE DEF Kept
<1>d. UNCHANGED jobs => Kept
  BY DEF Kept
<1>1. ASSUME NEW w \in Workers, NEW t \in Threads,
             ThreadStep(w, t) \/ PickUpThenRaise(w, t) \/ CountRaises(w, t) \/ ThreadRaises(w, t)
      PROVE  Kept
  <2>1. CASE \/ PickUp(w, t) \/ PickUpThenRaise(w, t) \/ Complete(w, t) \/ RetryLater(w, t)
             \/ GiveUp(w, t)
    <3>1. thread[w][t].id \in Jobs
      BY <2>1, <1>a DEF PickUp, PickUpThenRaise, Complete, RetryLater, GiveUp
    <3>2. CASE PickUp(w, t) \/ PickUpThenRaise(w, t)
      <4>1. MarkRunning(w, t)
        BY <3>2 DEF PickUp, PickUpThenRaise
      <4> QED BY <4>1, <3>1, <1>a, <1>c DEF MarkRunning, Row, update_job, Exists, Kept
    <3>3. CASE Complete(w, t)
      BY <3>1, <3>3, <1>a, <1>c
         DEF Complete, Row, update_job, Exists, Kept
    <3>4. CASE RetryLater(w, t)
      BY <3>1, <3>4, <1>a, <1>c
         DEF RetryLater, Row, update_job, Exists, Kept
    <3>5. CASE GiveUp(w, t)
      BY <3>1, <3>5, <1>a, <1>c
         DEF GiveUp, Row, update_job, Exists, Kept
    <3> QED BY <2>1, <3>2, <3>3, <3>4, <3>5
  <2>2. CASE \/ StartTask(w, t) \/ DropNull(w, t) \/ ExecuteFails(w, t) \/ Count(w, t)
             \/ Refetch(w, t) \/ Requeue(w, t) \/ PushDLQ(w, t) \/ CountRaises(w, t)
             \/ ThreadRaises(w, t)
    BY <2>2, <1>d DEF StartTask, DropNull, ExecuteFails, Count, Refetch, Requeue, PushDLQ,
       CountRaises, ThreadRaises
  <2> QED BY <1>1, <2>1, <2>2 DEF ThreadStep
<1>2. CASE WorkerNext
  BY <1>1, <1>2, <1>d DEF WorkerNext, Start, MainStep, PopJob, LeaveLoop, Shutdown, Stop,
     PopRaises, ShutdownRaises, Crash, Heartbeat, Silence, Kept
<1>3. CASE WatchdogNext
  <2>1. ASSUME NEW k \in Jobs, RecoverJob(k)
        PROVE  Kept
    BY <2>1, <1>a, <1>c
         DEF RecoverJob, Row, update_job, Exists, Kept
  <2>2. (\E k \in Jobs : RecoverJob(k)) \/ UNCHANGED jobs
    BY <1>3 DEF WatchdogNext, WatchdogStep, CheckWorkers, MarkOffline, SelectStuck, RefetchStuck,
       PushStuck, WatchdogRaises
  <2> QED BY <2>1, <2>2, <1>d DEF Kept
<1>4. CASE SchedulerNext
  <2>1. ASSUME NEW k \in Jobs, FireJob(k)
        PROVE  Kept
    BY <2>1, <1>a, <1>c
         DEF FireJob, Row, update_job, Exists, Kept
  <2>2. (\E k \in Jobs : FireJob(k)) \/ UNCHANGED jobs
    BY <1>4 DEF SchedulerNext, SchedulerStep, FindDue, PushFired, SchedulerRaises
  <2> QED BY <2>1, <2>2, <1>d DEF Kept
<1>5. CASE JobsApiNext /\ UNCHANGED worker
  <2>1. ASSUME NEW c \in Clients, RetryJob(c) \/ CancelJob(c) \/ DeleteJob(c)
        PROVE  Kept
    <3>1. client[c].id \in Jobs
      BY <2>1, <1>a DEF RetryJob, CancelJob, DeleteJob
    <3>2. CASE RetryJob(c)
      BY <3>1, <3>2, <1>a, <1>c
         DEF RetryJob, Row, update_job, Exists, Kept
    <3>3. CASE CancelJob(c)
      BY <3>1, <3>3, <1>a, <1>c
         DEF CancelJob, Row, update_job, Exists, Kept
    <3>4. CASE DeleteJob(c)
      BY <3>1, <3>4, <1>a, <1>c
         DEF DeleteJob, delete_job, Row, update_job, Exists, Kept
    <3> QED BY <2>1, <3>2, <3>3, <3>4
  <2>2. ASSUME NEW c \in Clients, NEW k \in Jobs, NEW row,
               jobs[k].status = "UNUSED", save_job(k, row), row.status # "UNUSED",
               UNCHANGED queue
        PROVE  \/ Kept
               \/ /\ jobs[j].status = "UNUSED" /\ jobs'[j].status # "UNUSED"
                  /\ UNCHANGED <<queue, worker>>
    <3>1. CASE j = k
      BY <2>2, <3>1, <1>a, <1>5 DEF save_job
    <3>2. CASE j # k
      <4>1. jobs'[j] = jobs[j]
        BY <2>2, <3>2, <1>a, OtherRows
      <4> QED BY <4>1 DEF Kept
    <3> QED BY <3>1, <3>2
  <2>3. ASSUME NEW c \in Clients, NEW k \in Jobs, NEW p \in SubmitPriorities,
               (\E r \in RunAts : SubmitNow(c, k, p, r)) \/ SubmitLater(c, k, p)
        PROVE  \/ Kept
               \/ /\ jobs[j].status = "UNUSED" /\ jobs'[j].status # "UNUSED"
                  /\ UNCHANGED <<queue, worker>>
    BY <2>3, <2>2 DEF SubmitNow, SubmitLater, NewRow
  <2>4. ASSUME NEW c \in Clients,
               \/ \E k \in Jobs : CheckRetry(c, k) \/ CheckCancel(c, k) \/ CheckDelete(c, k)
               \/ PushJob(c) \/ RefetchJob(c) \/ ClientRaises(c)
        PROVE  Kept
    BY <2>4, <1>d DEF CheckRetry, CheckCancel, CheckDelete, PushJob, RefetchJob, ClientRaises
  <2> QED BY <1>5, <2>1, <2>3, <2>4 DEF JobsApiNext, HandlerStep, Kept
<1>6. CASE ApiCrash \/ UNCHANGED vars
  BY <1>6, <1>d DEF ApiCrash, vars, Kept
<1> QED BY <1>2, <1>3, <1>4, <1>5, <1>6 DEF Next, Kept

LEMMA DocsFitStep == TypeOK /\ DocsFit /\ [Next]_vars => DocsFit'
<1> SUFFICES ASSUME TypeOK, DocsFit, [Next]_vars PROVE DocsFit'
  OBVIOUS
<1> USE DEF store, worker
<1>a. /\ thread \in [Workers -> [Threads -> ThreadState]]
      /\ wd \in WatchdogState /\ client \in [Clients -> ClientState]
  BY DEF TypeOK, WorkerTypeOK, WatchdogTypeOK, JobsApiTypeOK
<1>b. \A k : get_job(k).id \in {k, NoJob}
  BY DEF get_job, NoDoc
<1> DEFINE WdFits == wd.pc = "push" => wd.doc.id \in {wd.id, NoJob}
<1>1. CASE WorkerNext /\ UNCHANGED <<wd, sch, client>>
  <2>1. ASSUME NEW w \in Workers, NEW t \in Threads, NEW new,
               thread' = [thread EXCEPT ![w][t] = new],
               new.pc = "backoff" => new.doc.id \in {new.id, NoJob}
        PROVE  DocsFit'
    BY <2>1, <1>1, <1>a DEF DocsFit
  <2>2. UNCHANGED thread => DocsFit'
    BY <1>1 DEF DocsFit
  <2>3. ASSUME NEW w \in Workers, NEW t \in Threads, NEW pc, pc # "backoff", Goto(w, t, pc)
        PROVE  DocsFit'
    <3>1. /\ thread' = [thread EXCEPT ![w][t] = [thread[w][t] EXCEPT !.pc = pc]]
          /\ [thread[w][t] EXCEPT !.pc = pc].pc = pc
      BY <2>3, <1>a DEF Goto, ThreadState
    <3> QED BY <3>1, <2>1, <2>3
  <2>4. ASSUME NEW w \in Workers, NEW t \in Threads, Finish(w, t)
        PROVE  DocsFit'
    BY <2>4, <2>1 DEF Finish, IdleThread
  <2>5. ASSUME NEW w \in Workers, NEW t \in Threads, Refetch(w, t)
        PROVE  DocsFit'
    <3> DEFINE new == [thread[w][t] EXCEPT !.pc = "backoff", !.doc = get_job(thread[w][t].id)]
    <3>1. thread' = [thread EXCEPT ![w][t] = new]
      BY <2>5, <1>a DEF Refetch
    <3>2. new.doc = get_job(thread[w][t].id) /\ new.id = thread[w][t].id
      BY <1>a DEF ThreadState
    <3> QED BY <3>1, <3>2, <1>b, <2>1
  <2>6. ASSUME NEW w \in Workers, NEW t \in Threads, StartTask(w, t)
        PROVE  DocsFit'
    BY <2>6, <2>1 DEF StartTask
  <2>7. ASSUME NEW w \in Workers, Crash(w)
        PROVE  DocsFit'
    <3>1. /\ \A u \in Threads : thread'[w][u].pc = "idle"
          /\ \A x \in Workers : x # w => thread'[x] = thread[x]
      BY <2>7, <1>a DEF Crash, IdleThread
    <3> QED BY <3>1, <1>1 DEF DocsFit
  <2>8. ASSUME NEW w \in Workers, NEW t \in Threads,
               \/ ThreadStep(w, t) \/ PickUpThenRaise(w, t) \/ CountRaises(w, t)
               \/ ThreadRaises(w, t)
        PROVE  DocsFit'
    BY <2>8, <2>2, <2>3, <2>4, <2>5, <2>6
       DEF ThreadStep, PickUp, Complete, ExecuteFails, RetryLater, GiveUp, DropNull, Count,
           Requeue, PushDLQ, PickUpThenRaise, CountRaises, ThreadRaises
  <2>9. ASSUME NEW w \in Workers,
               \/ Start(w) \/ MainStep(w) \/ Stop(w) \/ PopRaises(w)
               \/ ShutdownRaises(w) \/ Heartbeat(w) \/ Silence(w)
        PROVE  DocsFit'
    BY <2>9, <2>2 DEF Start, MainStep, PopJob, LeaveLoop, Shutdown, Stop, PopRaises,
       ShutdownRaises, Heartbeat, Silence
  <2> QED BY <1>1, <2>7, <2>8, <2>9 DEF WorkerNext
<1>2. CASE WatchdogNext /\ UNCHANGED <<worker, sch, client>>
  <2>1. WdFits'
    <3>1. CASE RefetchStuck
      BY <3>1, <1>a, <1>b DEF RefetchStuck, WatchdogState
    <3>2. ASSUME NEW left, wd' = Resume(left)
          PROVE  wd'.pc # "push"
      BY <3>2, <1>a DEF Resume, Asleep, WatchdogState
    <3>3. CASE ~RefetchStuck
      <4>1. CASE PushStuck \/ SelectStuck
        BY <4>1, <3>2 DEF PushStuck, SelectStuck, Asleep
      <4>2. CASE CheckWorkers \/ WatchdogRaises
        <5>1. wd' = Asleep \/ \E late : wd' = [Asleep EXCEPT !.pc = "mark", !.due = late]
          BY <4>2 DEF CheckWorkers, WatchdogRaises
        <5> QED BY <5>1, AsleepShape
      <4>3. CASE (\E w \in Workers : MarkOffline(w)) \/ (\E j \in Jobs : RecoverJob(j))
        BY <4>3, <1>a DEF MarkOffline, RecoverJob, WatchdogState
      <4> QED BY <1>2, <3>3, <4>1, <4>2, <4>3 DEF WatchdogNext, WatchdogStep
    <3> QED BY <3>1, <3>3
  <2> QED BY <2>1, <1>2 DEF DocsFit
<1>3. CASE SchedulerNext /\ UNCHANGED <<worker, wd, client>>
  BY <1>3 DEF DocsFit
<1>4. CASE JobsApiNext /\ UNCHANGED <<worker, wd, sch>>
  <2>1. ASSUME NEW c \in Clients, NEW new, client' = [client EXCEPT ![c] = new],
               new.pc = "push" => new.doc.id \in {new.id, NoJob}
        PROVE  DocsFit'
    BY <2>1, <1>4, <1>a DEF DocsFit
  <2>2. ASSUME NEW c \in Clients, NEW k \in Jobs, NEW p \in SubmitPriorities, NEW r \in RunAts,
               SubmitNow(c, k, p, r)
        PROVE  DocsFit'
    BY <2>2, <2>1 DEF SubmitNow
  <2>3. ASSUME NEW c \in Clients, NEW k \in Jobs, NEW p \in SubmitPriorities,
               SubmitLater(c, k, p)
        PROVE  DocsFit'
    BY <2>3, <1>4 DEF SubmitLater, DocsFit
  <2>4. ASSUME NEW c \in Clients, NEW k \in Jobs,
               CheckRetry(c, k) \/ CheckCancel(c, k) \/ CheckDelete(c, k)
        PROVE  DocsFit'
    <3>1. \E pc \in {"retry", "cancel", "delete"} :
            client' = [client EXCEPT ![c] = [client[c] EXCEPT !.pc = pc, !.id = k]]
      BY <2>4, <1>a DEF CheckRetry, CheckCancel, CheckDelete
    <3>2. \A pc : [client[c] EXCEPT !.pc = pc, !.id = k].pc = pc
      BY <1>a DEF ClientState
    <3> QED BY <3>1, <3>2, <2>1
  <2>5. ASSUME NEW c \in Clients, RetryJob(c)
        PROVE  DocsFit'
    <3>1. /\ client' = [client EXCEPT ![c] = [client[c] EXCEPT !.pc = "refetch"]]
          /\ [client[c] EXCEPT !.pc = "refetch"].pc = "refetch"
      BY <2>5, <1>a DEF RetryJob, ClientState
    <3> QED BY <3>1, <2>1
  <2>6. ASSUME NEW c \in Clients, RefetchJob(c)
        PROVE  DocsFit'
    <3> DEFINE new == [client[c] EXCEPT !.pc = "push", !.doc = get_job(client[c].id)]
    <3>1. client' = [client EXCEPT ![c] = new]
      BY <2>6, <1>a DEF RefetchJob
    <3>2. new.doc = get_job(client[c].id) /\ new.id = client[c].id
      BY <1>a DEF ClientState
    <3> QED BY <3>1, <3>2, <1>b, <2>1
  <2>7. ASSUME NEW c \in Clients, PushJob(c) \/ CancelJob(c) \/ DeleteJob(c) \/ ClientRaises(c)
        PROVE  DocsFit'
    BY <2>7, <2>1 DEF PushJob, CancelJob, DeleteJob, ClientRaises, Respond, IdleClient
  <2> QED BY <1>4, <2>2, <2>3, <2>4, <2>5, <2>6, <2>7 DEF JobsApiNext, HandlerStep
<1>5. CASE ApiCrash
  <2>1. wd'.pc = "sleep" /\ \A c \in Clients : client'[c].pc = "idle"
    BY <1>5 DEF ApiCrash, Asleep, IdleClient
  <2> QED BY <2>1, <1>5 DEF ApiCrash, DocsFit
<1>6. CASE UNCHANGED vars
  BY <1>6 DEF vars, DocsFit
<1> QED BY <1>1, <1>2, <1>3, <1>4, <1>5, <1>6 DEF Next
-----------------------------------------------------------------------------
LEMMA QueueInvStep == QueueInv /\ [Next]_vars => QueueInv'
<1> SUFFICES ASSUME QueueInv, [Next]_vars PROVE QueueInv'
  OBVIOUS
<1> USE DEF store, worker
<1>a. TypeOK /\ DocsFit
  BY DEF QueueInv
<1>1. TypeOK' /\ DocsFit'
  BY <1>a, TypeStep, DocsFitStep
<1>2. ASSUME NEW j \in Jobs, NEW q, Waits(j, q)'
      PROVE  Waits(j, q) \/ (KnownToApi(j) /\ InQueueOf(j, q))
  <2>1. CASE WorkerNext
    BY <2>1, <1>2, <1>a, WorkerPlaces
  <2>2. CASE UNCHANGED worker /\ (WatchdogNext \/ SchedulerNext \/ JobsApiNext)
    BY <2>2, <1>2, <1>a, ApiPlaces
  <2>3. CASE ApiCrash \/ UNCHANGED vars
    <3>1. UNCHANGED <<queue, pending, thread>>
      BY <2>3 DEF ApiCrash, vars
    <3> QED BY <3>1, <1>2 DEF Waits, HasTask
  <2> QED BY <2>1, <2>2, <2>3 DEF Next
<1>3. ASSUME NEW j \in Jobs
      PROVE  Unknown(j)' /\ InOwnQueue(j)'
  <2>a. Unknown(j) /\ InOwnQueue(j)
    BY DEF QueueInv
  <2>1. CASE jobs'[j].status = "UNUSED"
    <3>1. jobs[j].status = "UNUSED"
      BY <2>1, <1>a, PriorityIsForLife
    <3>2. ~KnownToApi(j) /\ \A q : ~Waits(j, q)
      BY <3>1, <2>a DEF Unknown
    <3>3. ~KnownToApi(j)'
      BY <3>2, <2>1, <1>a, ApiHears
    <3>4. \A q : ~Waits(j, q)'
      BY <3>2, <1>2
    <3> QED BY <3>3, <3>4 DEF Unknown, InOwnQueue
  <2>2. CASE jobs'[j].status # "UNUSED" /\ jobs[j].status # "UNUSED"
    <3>1. jobs'[j].priority = jobs[j].priority
      BY <2>2, <1>a, PriorityIsForLife
    <3>2. ASSUME NEW q, Waits(j, q)'
          PROVE  InQueueOf(j, q)'
      BY <3>1, <3>2, <2>a, <1>2 DEF InOwnQueue, InQueueOf
    <3> QED BY <2>2, <3>2 DEF Unknown, InOwnQueue
  <2>3. CASE jobs'[j].status # "UNUSED" /\ jobs[j].status = "UNUSED"
    <3>1. ~KnownToApi(j) /\ \A q : ~Waits(j, q)
      BY <2>3, <2>a DEF Unknown
    <3>2. \A q : ~Waits(j, q)'
      BY <3>1, <1>2
    <3> QED BY <2>3, <3>2 DEF Unknown, InOwnQueue
  <2> QED BY <2>1, <2>2, <2>3
<1> QED BY <1>1, <1>3 DEF QueueInv

LEMMA QueueInvHolds == QueueInv => PriorityKept
<1> SUFFICES ASSUME QueueInv, NEW j \in Jobs
             PROVE  \A q : Waits(j, q) => InQueueOf(j, q)
  BY DEF PriorityKept, Waits, HasTask, Names
<1> QED BY DEF QueueInv, InOwnQueue

\* Wherever a job waits, and whoever pushes it again (worker retry, watchdog,
\* scheduler, API retry), it is in the queue of the priority it was submitted
\* with (worker.py:154, watchdog.py:71, jobs.py:72).
THEOREM PriorityIsKept == Spec => []PriorityKept
  BY InitQueueInv, QueueInvStep, QueueInvHolds, PTL DEF Spec

-----------------------------------------------------------------------------
(* RunningMeansRunning *)

BusyWith(w, t, j) == thread[w][t].id = j /\ thread[w][t].pc \in {"executing", "failing"}

\* A RUNNING row of j tells the truth.
Truthful(j) ==
  jobs[j].status = "RUNNING" =>
    \E w \in Workers, t \in Threads : jobs[j].worker_id = w /\ BusyWith(w, t, j)

\* Only a worker that picks a job up writes RUNNING.
LEMMA OthersStop ==
  ASSUME TypeOK, WatchdogNext \/ SchedulerNext \/ JobsApiNext, NEW j \in Jobs
  PROVE  jobs'[j] = jobs[j] \/ jobs'[j].status # "RUNNING"
<1> USE DEF store
<1>a. /\ jobs \in [Jobs -> Row]
      /\ \A c \in Clients : client[c].pc # "idle" => client[c].id \in Jobs
  BY DEF TypeOK, StoreTypeOK, JobsApiTypeOK, ClientState
<1>b. \A k \in Jobs : jobs[k] \in Row
  BY <1>a
<1>1. CASE WatchdogNext
  <2>1. ASSUME NEW k \in Jobs, RecoverJob(k)
        PROVE  jobs'[j] = jobs[j] \/ jobs'[j].status # "RUNNING"
    BY <2>1, <1>a, <1>b DEF RecoverJob, update_job, Row
  <2>2. (\E k \in Jobs : RecoverJob(k)) \/ UNCHANGED jobs
    BY <1>1 DEF WatchdogNext, WatchdogStep, CheckWorkers, MarkOffline, SelectStuck, RefetchStuck,
       PushStuck, WatchdogRaises
  <2> QED BY <2>1, <2>2
<1>2. CASE SchedulerNext
  <2>1. ASSUME NEW k \in Jobs, FireJob(k)
        PROVE  jobs'[j] = jobs[j] \/ jobs'[j].status # "RUNNING"
    BY <2>1, <1>a, <1>b DEF FireJob, update_job, Row
  <2>2. (\E k \in Jobs : FireJob(k)) \/ UNCHANGED jobs
    BY <1>2 DEF SchedulerNext, SchedulerStep, FindDue, PushFired, SchedulerRaises
  <2> QED BY <2>1, <2>2
<1>3. CASE JobsApiNext
  <2>1. ASSUME NEW c \in Clients, RetryJob(c) \/ CancelJob(c) \/ DeleteJob(c)
        PROVE  jobs'[j] = jobs[j] \/ jobs'[j].status # "RUNNING"
    <3>1. client[c].id \in Jobs
      BY <2>1, <1>a DEF RetryJob, CancelJob, DeleteJob
    <3>2. CASE RetryJob(c)
      BY <3>1, <3>2, <1>a, <1>b DEF RetryJob, update_job, Row
    <3>3. CASE CancelJob(c)
      BY <3>1, <3>3, <1>a, <1>b DEF CancelJob, update_job, Row
    <3>4. CASE DeleteJob(c)
      BY <3>1, <3>4, <1>a, <1>b DEF DeleteJob, delete_job, update_job, Row
    <3> QED BY <2>1, <3>2, <3>3, <3>4
  <2>2. ASSUME NEW c \in Clients, NEW k \in Jobs, NEW p \in SubmitPriorities,
               (\E r \in RunAts : SubmitNow(c, k, p, r)) \/ SubmitLater(c, k, p)
        PROVE  jobs'[j] = jobs[j] \/ jobs'[j].status # "RUNNING"
    BY <2>2, <1>a DEF SubmitNow, SubmitLater, save_job, NewRow
  <2>3. ASSUME NEW c \in Clients,
               \/ \E k \in Jobs : CheckRetry(c, k) \/ CheckCancel(c, k) \/ CheckDelete(c, k)
               \/ PushJob(c) \/ RefetchJob(c) \/ ClientRaises(c)
        PROVE  jobs'[j] = jobs[j]
    BY <2>3 DEF CheckRetry, CheckCancel, CheckDelete, PushJob, RefetchJob, ClientRaises
  <2> QED BY <1>3, <2>1, <2>2, <2>3 DEF JobsApiNext, HandlerStep
<1> QED BY <1>1, <1>2, <1>3

\* A pool thread writes its own job's row, and stops being busy with a job only
\* together with the row.
LEMMA ThreadTruth ==
  ASSUME TypeOK, NEW w \in Workers, NEW t \in Threads, ThreadStep(w, t),
         NEW j \in Jobs, Truthful(j)
  PROVE  Truthful(j)'
<1> USE DEF store, worker
<1> DEFINE self == thread[w][t]
<1>a. jobs \in [Jobs -> Row] /\ WorkerTypeOK
  BY DEF TypeOK, StoreTypeOK
<1>b. self \in ThreadState /\ (self.pc # "idle" => self.id \in Jobs)
  BY <1>a, ThreadType
<1>c. \A k \in Jobs : jobs[k] \in Row
  BY <1>a
<1>d. ASSUME NEW new, thread' = [thread EXCEPT ![w][t] = new]
      PROVE  /\ thread'[w][t] = new
             /\ \A x \in Workers, u \in Threads :
                  <<x, u>> # <<w, t>> => thread'[x][u] = thread[x][u]
  BY <1>d, <1>a DEF WorkerTypeOK
<1>e. ASSUME NEW new, thread' = [thread EXCEPT ![w][t] = new], jobs'[j] = jobs[j],
             BusyWith(w, t, j) => new.id = j /\ new.pc \in {"executing", "failing"}
      PROVE  Truthful(j)'
  <2>1. \A x \in Workers, u \in Threads : BusyWith(x, u, j) => BusyWith(x, u, j)'
    BY <1>d, <1>e DEF BusyWith
  <2> QED BY <2>1, <1>e DEF Truthful
<1>f. ASSUME NEW pc, Goto(w, t, pc)
      PROVE  /\ thread' = [thread EXCEPT ![w][t] = [self EXCEPT !.pc = pc]]
             /\ [self EXCEPT !.pc = pc].pc = pc /\ [self EXCEPT !.pc = pc].id = self.id
  BY <1>a, <1>b, <1>f DEF Goto, WorkerTypeOK, ThreadState
<1>g. ASSUME NEW row, update_job(self.id, row), self.id \in Jobs, self.id # j
      PROVE  jobs'[j] = jobs[j]
  BY <1>a, <1>g, OtherRows
<1>1. CASE StartTask(w, t)
  BY <1>1, <1>e DEF StartTask, BusyWith
<1>2. CASE DropNull(w, t)
  BY <1>2 DEF DropNull, Truthful, BusyWith
<1>3. CASE PickUp(w, t)
  <2>1. self.pc = "picked" /\ self.id \in Jobs /\ Goto(w, t, "executing") /\ MarkRunning(w, t)
    BY <1>3, <1>b DEF PickUp
  <2>2. CASE self.id = j
    <3>1. BusyWith(w, t, j)'
      <4>1. thread'[w][t] = [self EXCEPT !.pc = "executing"]
        BY <2>1, <1>d, <1>f
      <4> QED BY <4>1, <2>1, <2>2, <1>f DEF BusyWith
    <3>2. jobs'[j].status = "RUNNING" => jobs'[j].worker_id = w
      BY <2>1, <2>2, <1>a, <1>c DEF MarkRunning, update_job, Exists, Row
    <3> QED BY <3>1, <3>2 DEF Truthful
  <2>3. CASE self.id # j
    BY <2>1, <2>3, <1>e, <1>f, <1>g DEF MarkRunning, BusyWith
  <2> QED BY <2>2, <2>3
<1>4. CASE ExecuteFails(w, t)
  <2>1. Goto(w, t, "failing") /\ UNCHANGED jobs
    BY <1>4 DEF ExecuteFails
  <2>2. thread' = [thread EXCEPT ![w][t] = [self EXCEPT !.pc = "failing"]]
        /\ [self EXCEPT !.pc = "failing"].pc = "failing"
        /\ [self EXCEPT !.pc = "failing"].id = self.id
    BY <2>1, <1>f
  <2> QED BY <2>1, <2>2, <1>e DEF BusyWith
<1>5. CASE Complete(w, t) \/ RetryLater(w, t) \/ GiveUp(w, t)
  <2>1. self.id \in Jobs /\ \E pc : Goto(w, t, pc)
    BY <1>5, <1>b DEF Complete, RetryLater, GiveUp
  <2>2. CASE self.id = j
    <3>1. jobs'[j].status # "RUNNING" \/ (jobs'[j] = jobs[j] /\ ~Exists(j))
      <4>1. CASE Complete(w, t)
        BY <4>1, <2>1, <2>2, <1>a, <1>c DEF Complete, update_job, Row
      <4>2. CASE RetryLater(w, t)
        BY <4>2, <2>1, <2>2, <1>a, <1>c DEF RetryLater, update_job, Row
      <4>3. CASE GiveUp(w, t)
        BY <4>3, <2>1, <2>2, <1>a, <1>c DEF GiveUp, update_job, Row
      <4> QED BY <1>5, <4>1, <4>2, <4>3
    <3> QED BY <3>1 DEF Exists, Truthful
  <2>3. CASE self.id # j
    <3>1. jobs'[j] = jobs[j]
      BY <1>5, <2>1, <2>3, <1>g DEF Complete, RetryLater, GiveUp
    <3> QED BY <3>1, <2>1, <2>3, <1>e, <1>f DEF BusyWith
  <2> QED BY <2>2, <2>3
<1>6. CASE Count(w, t) \/ Requeue(w, t) \/ PushDLQ(w, t)
  BY <1>6, <1>e DEF Count, Requeue, PushDLQ, Finish, BusyWith
<1>7. CASE Refetch(w, t)
  <2>1. /\ thread' = [thread EXCEPT ![w][t] = [self EXCEPT !.pc = "backoff",
                                                           !.doc = get_job(self.id)]]
        /\ self.pc = "refetch" /\ UNCHANGED jobs
    BY <1>7, <1>a DEF Refetch, WorkerTypeOK
  <2> QED BY <2>1, <1>e DEF BusyWith
<1> QED BY <1>1, <1>2, <1>3, <1>4, <1>5, <1>6, <1>7 DEF ThreadStep

\* As long as no process is killed and no call raises, a RUNNING row names a
\* worker that has a thread busy with the job, also when the job runs twice or
\* is deleted, retried or recovered meanwhile (worker.py:127, watchdog.py:74).
THEOREM RunningIsTrue == Spec => []RunningMeansRunning
<1>1. Init => RunningMeansRunning
  BY DEF Init, StoreInit, RunningMeansRunning
<1>2. TypeOK /\ RunningMeansRunning /\ [Next]_vars => RunningMeansRunning'
  <2> SUFFICES ASSUME TypeOK, RunningMeansRunning, [Next]_vars, Faults' = 0, NEW j \in Jobs
               PROVE  Truthful(j)'
    BY DEF RunningMeansRunning, Truthful, BusyWith
  <2> USE DEF store, worker
  <2>a. env \in Env /\ Faults = 0 /\ ~CallRaises
    BY FaultsGrow DEF TypeOK, StoreTypeOK
  <2>b. Truthful(j)
    BY <2>a DEF RunningMeansRunning, Truthful, BusyWith
  <2>1. CASE WorkerNext
    <3>1. ASSUME NEW w \in Workers, NEW t \in Threads, ThreadStep(w, t)
          PROVE  Truthful(j)'
      BY <3>1, <2>b, ThreadTruth
    <3>2. ASSUME NEW w \in Workers,
                 Start(w) \/ MainStep(w) \/ Stop(w) \/ Heartbeat(w) \/ Silence(w)
          PROVE  Truthful(j)'
      <4>1. UNCHANGED <<jobs, thread>>
        BY <3>2 DEF Start, MainStep, PopJob, LeaveLoop, Shutdown, Stop, Heartbeat, Silence
      <4> QED BY <4>1, <2>b DEF Truthful, BusyWith
    <3>3. ASSUME NEW w \in Workers, Crash(w)
          PROVE  FALSE
      BY <3>3, <2>a DEF Crash, Faults, Env
    <3> QED BY <2>1, <2>a, <3>1, <3>2, <3>3
            DEF WorkerNext, PopRaises, ShutdownRaises, PickUpThenRaise, CountRaises, ThreadRaises
  <2>2. CASE UNCHANGED worker /\ (WatchdogNext \/ SchedulerNext \/ JobsApiNext)
    <3>1. jobs'[j] = jobs[j] \/ jobs'[j].status # "RUNNING"
      BY <2>2, OthersStop
    <3> QED BY <3>1, <2>2, <2>b DEF Truthful, BusyWith
  <2>3. CASE ApiCrash
    BY <2>3, <2>a DEF ApiCrash, Faults, Env
  <2>4. CASE UNCHANGED vars
    BY <2>4, <2>b DEF vars, Truthful, BusyWith
  <2> QED BY <2>1, <2>2, <2>3, <2>4 DEF Next
<1> QED BY <1>1, <1>2, TypeCorrect, PTL DEF Spec
=============================================================================
