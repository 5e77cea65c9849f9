---------------------------- MODULE CustodyProofs ----------------------------
(***************************************************************************)
(* Nobody loses a job silently, for any number of jobs, workers, threads   *)
(* and clients.  The argument: whoever last set a row QUEUED or RUNNING    *)
(* holds the job or has handed it on, and each hand-over (push, pop, start *)
(* of a task, re-read of the row) keeps it in some place; a step without a *)
(* fault therefore leaves every live job carried.                          *)
(***************************************************************************)
EXTENDS PlatformProofs

\* Job j is in a place other than thread t of worker w.
Elsewhere(w, t, j) ==
  \/ InQueue(j)
  \/ \E x \in Workers : InPending(x, j)
  \/ \E x \in Workers, y \in Threads : <<x, y>> # <<w, t>> /\ OnThread(x, y, j)
  \/ WithWatchdog(j) \/ WithScheduler(j) \/ \E c \in Clients : WithClient(c, j)

\* Job j is in a place outside the worker processes.
Outside(j) ==
  WithWatchdog(j) \/ WithScheduler(j) \/ \E c \in Clients : WithClient(c, j)

-----------------------------------------------------------------------------
(* Hand-overs *)

LEMMA AppendKeeps ==
  ASSUME NEW S, NEW s \in Seq(S), NEW m \in S, NEW j
  PROVE  /\ Names(s, j) => Names(Append(s, m), j)
         /\ m.id = j => Names(Append(s, m), j)
<1>1. /\ DOMAIN s = 1 .. Len(s) /\ Len(s) \in Nat
      /\ DOMAIN Append(s, m) = 1 .. Len(s) + 1
      /\ \A i \in 1 .. Len(s) : Append(s, m)[i] = s[i]
      /\ Append(s, m)[Len(s) + 1] = m
  OBVIOUS
<1>2. ASSUME NEW i \in DOMAIN s, s[i].id = j
      PROVE  \E k \in DOMAIN Append(s, m) : Append(s, m)[k].id = j
  <2>1. i \in DOMAIN Append(s, m) /\ Append(s, m)[i].id = j
    BY <1>1, <1>2
  <2> QED BY <2>1
<1>3. ASSUME m.id = j
      PROVE  \E k \in DOMAIN Append(s, m) : Append(s, m)[k].id = j
  <2>1. Len(s) + 1 \in DOMAIN Append(s, m) /\ Append(s, m)[Len(s) + 1].id = j
    BY <1>1, <1>3
  <2> QED BY <2>1
<1> QED BY <1>2, <1>3 DEF Names

LEMMA TailKeeps ==
  ASSUME NEW S, NEW s \in Seq(S), s # <<>>, NEW j, Names(s, j)
  PROVE  Head(s).id = j \/ Names(Tail(s), j)
<1>1. /\ DOMAIN s = 1 .. Len(s) /\ Len(s) \in Nat
      /\ DOMAIN Tail(s) = 1 .. Len(s) - 1
      /\ \A k \in 1 .. Len(s) - 1 : Tail(s)[k] = s[k + 1]
      /\ Head(s) = s[1]
  OBVIOUS
<1>2. PICK i \in DOMAIN s : s[i].id = j
  BY DEF Names
<1>3. CASE i = 1
  BY <1>1, <1>2, <1>3
<1>4. CASE i # 1
  <2>1. i - 1 \in 1 .. Len(s) - 1 /\ Tail(s)[i - 1] = s[i]
    BY <1>1, <1>4
  <2> QED BY <2>1, <1>1, <1>2 DEF Names
<1> QED BY <1>3, <1>4

LEMMA PushKeeps ==
  ASSUME queue \in [Queues -> Seq(Message)], NEW q \in Queues, NEW doc \in Doc, NEW j,
         push_or_raise(q, doc) \/ push_job(q, doc)
  PROVE  /\ InQueue(j) => InQueue(j)'
         /\ q \in PriorityQueues /\ Carries(doc, j) => InQueue(j)'
<1> DEFINE m == [id |-> doc.id, retry_count |-> doc.retry_count]
<1>1. m \in Message /\ m.id = doc.id
  BY DEF Doc, Message
<1>2. CASE push_job(q, doc)
  <2>1. queue' = [queue EXCEPT ![q] = Append(queue[q], m)]
    BY <1>2 DEF push_job
  <2> HIDE DEF m
  <2>2. queue[q] \in Seq(Message) /\ queue'[q] = Append(queue[q], m)
        /\ \A p \in Queues : p # q => queue'[p] = queue[p]
    BY <2>1
  <2>3. ASSUME InQueue(j)
        PROVE  InQueue(j)'
    <3>1. PICK p \in PriorityQueues : Names(queue[p], j)
      BY <2>3 DEF InQueue
    <3>2. p \in Queues
      BY DEF Queues
    <3>3. Names(queue'[p], j)
      <4>1. CASE p = q
        BY <4>1, <3>1, <2>2, <1>1, AppendKeeps
      <4>2. CASE p # q
        BY <4>2, <3>1, <3>2, <2>2
      <4> QED BY <4>1, <4>2
    <3> QED BY <3>3 DEF InQueue
  <2>4. ASSUME q \in PriorityQueues, doc.id = j
        PROVE  InQueue(j)'
    <3>1. Names(queue'[q], j)
      BY <2>4, <2>2, <1>1, AppendKeeps
    <3> QED BY <2>4, <3>1 DEF InQueue
  <2> QED BY <2>3, <2>4 DEF Carries
<1>3. CASE doc.raw /\ queue' = queue
  BY <1>3 DEF InQueue, Carries
<1> QED BY <1>2, <1>3 DEF push_or_raise

\* Re-reading the row of a live job gives a dict that can be pushed.
LEMMA GetCarries ==
  ASSUME NEW j \in Jobs, Live(j), ~jobs[j].run_at
  PROVE  Carries(get_job(j), j)
  BY DEF Live, get_job, Exists, Carries

\* update_job touches one row.
LEMMA OtherRows ==
  ASSUME jobs \in [Jobs -> Row], NEW j \in Jobs, NEW k \in Jobs, j # k, NEW row,
         update_job(k, row) \/ save_job(k, row)
  PROVE  jobs'[j] = jobs[j]
  BY DEF update_job, save_job

LEMMA ElsewhereStays ==
  ASSUME WorkerTypeOK, NEW w \in Workers, NEW t \in Threads, NEW j, NEW new,
         thread' = [thread EXCEPT ![w][t] = new],
         UNCHANGED <<pending, wd, sch, client>>,
         InQueue(j) => InQueue(j)',
         Elsewhere(w, t, j)
  PROVE  Carried(j)'
<1>1. ASSUME NEW x \in Workers, NEW y \in Threads, <<x, y>> # <<w, t>>
      PROVE  thread'[x][y] = thread[x][y]
  BY <1>1 DEF WorkerTypeOK
<1>2. ASSUME NEW x \in Workers, NEW y \in Threads, <<x, y>> # <<w, t>>, OnThread(x, y, j)
      PROVE  OnThread(x, y, j)'
  BY <1>1, <1>2 DEF OnThread
<1>3. (\E x \in Workers : InPending(x, j)) => (\E x \in Workers : InPending(x, j))'
  BY DEF InPending
<1>4. Outside(j) => Outside(j)'
  BY DEF Outside, WithWatchdog, WithScheduler, WithClient
<1> QED BY <1>2, <1>3, <1>4 DEF Elsewhere, Carried, WithWorker, Outside

LEMMA HereOrElsewhere ==
  ASSUME NEW w \in Workers, NEW t \in Threads, NEW j
  PROVE  Carried(j) <=> Elsewhere(w, t, j) \/ OnThread(w, t, j)
  BY DEF Carried, WithWorker, Elsewhere

-----------------------------------------------------------------------------
(* One lemma per kind of thread: a step without a fault keeps j in a place *)

LEMMA PoolCustody ==
  ASSUME TypeOK, NEW w \in Workers, NEW t \in Threads, ThreadStep(w, t),
         UNCHANGED <<wd, sch, client>>,
         NEW j \in Jobs, ~LostPlain(j), Live(j)', ~jobs'[j].run_at
  PROVE  Carried(j)'
<1> USE DEF store
<1> DEFINE self == thread[w][t]
<1>a. /\ jobs \in [Jobs -> Row] /\ queue \in [Queues -> Seq(Message)]
      /\ WorkerTypeOK
  BY DEF TypeOK, StoreTypeOK
<1>b. self \in ThreadState /\ (self.pc # "idle" => self.id \in Jobs /\ self.queue \in PriorityQueues)
  BY <1>a, ThreadType
<1>c. ASSUME jobs'[j] = jobs[j]
      PROVE  /\ Live(j) /\ ~jobs[j].run_at
             /\ Elsewhere(w, t, j) \/ OnThread(w, t, j)
  BY <1>c, HereOrElsewhere DEF Live, LostPlain, Lost
<1>d. ASSUME NEW new, thread' = [thread EXCEPT ![w][t] = new], UNCHANGED pending,
             InQueue(j) => InQueue(j)',
             Elsewhere(w, t, j)
      PROVE  Carried(j)'
  BY <1>a, <1>d, ElsewhereStays
<1>e. ASSUME OnThread(w, t, j)'
      PROVE  Carried(j)'
  BY <1>e DEF Carried, WithWorker
<1>f. UNCHANGED queue => (InQueue(j) => InQueue(j)')
  BY DEF InQueue
<1>g. ASSUME NEW pc, Goto(w, t, pc)
      PROVE  /\ thread' = [thread EXCEPT ![w][t] = [self EXCEPT !.pc = pc]]
             /\ thread'[w][t].pc = pc /\ thread'[w][t].id = self.id
  BY <1>a, <1>b, <1>g DEF Goto, WorkerTypeOK, ThreadState
<1>h. ASSUME NEW row, update_job(self.id, row), self.id \in Jobs, self.id # j
      PROVE  jobs'[j] = jobs[j]
  BY <1>a, <1>h, OtherRows
<1>i. ASSUME NEW row, update_job(self.id, row), self.id = j, row.status \notin {"QUEUED", "RUNNING"}
      PROVE  FALSE
  BY <1>a, <1>i DEF update_job, Live, Exists
<1>1. CASE StartTask(w, t)
  <2>1. /\ Live(j) /\ Elsewhere(w, t, j) /\ pending[w] # <<>> /\ pending[w] \in Seq(Task)
    BY <1>1, <1>a, <1>c DEF StartTask, OnThread, WorkerTypeOK
  <2>2. thread'[w][t].pc = "picked" /\ thread'[w][t].id = Head(pending[w]).id
    BY <1>1, <1>a DEF StartTask, WorkerTypeOK
  <2>3. ASSUME NEW x \in Workers, NEW y \in Threads, <<x, y>> # <<w, t>>, OnThread(x, y, j)
        PROVE  Carried(j)'
    <3>1. thread'[x][y] = thread[x][y]
      BY <1>1, <1>a, <2>3 DEF StartTask, WorkerTypeOK
    <3> QED BY <3>1, <2>3 DEF OnThread, Carried, WithWorker
  <2>4. ASSUME NEW x \in Workers, InPending(x, j)
        PROVE  Carried(j)'
    <3>1. CASE x = w
      <4>0. Names(pending[w], j)
        BY <2>4, <3>1 DEF InPending
      <4>1. Head(pending[w]).id = j \/ Names(Tail(pending[w]), j)
        BY <2>1, <4>0, TailKeeps
      <4>2. pending'[w] = Tail(pending[w])
        BY <1>1, <1>a DEF StartTask, WorkerTypeOK
      <4>3. CASE Head(pending[w]).id = j
        BY <4>3, <2>2, <1>e DEF OnThread
      <4> QED BY <4>1, <4>2, <4>3 DEF InPending, Carried, WithWorker
    <3>2. CASE x # w
      <4>1. pending'[x] = pending[x]
        BY <1>1, <1>a, <3>2 DEF StartTask, WorkerTypeOK
      <4> QED BY <4>1, <2>4 DEF InPending, Carried, WithWorker
    <3> QED BY <3>1, <3>2
  <2>5. InQueue(j) \/ Outside(j) => Carried(j)'
    BY <1>1 DEF StartTask, InQueue, Outside, WithWatchdog, WithScheduler, WithClient, Carried
  <2> QED BY <2>1, <2>3, <2>4, <2>5 DEF Elsewhere, Outside
<1>2. CASE DropNull(w, t)
  <2>1. /\ Live(j) /\ Carried(j) /\ pending[w] # <<>> /\ pending[w] \in Seq(Task)
    BY <1>2, <1>a, <1>c, HereOrElsewhere DEF DropNull, WorkerTypeOK
  <2>2. ASSUME NEW x \in Workers, InPending(x, j)
        PROVE  InPending(x, j)'
    <3>1. CASE x = w
      <4>0. Names(pending[w], j)
        BY <2>2, <3>1 DEF InPending
      <4>1. Head(pending[w]).id = j \/ Names(Tail(pending[w]), j)
        BY <2>1, <4>0, TailKeeps
      <4>3. Head(pending[w]).id # j
        BY <1>2, StoreAssumption DEF DropNull
      <4>2. pending'[w] = Tail(pending[w])
        BY <1>2, <1>a DEF DropNull, WorkerTypeOK
      <4> QED BY <4>1, <4>2, <4>3, <3>1 DEF InPending
    <3>2. CASE x # w
      BY <1>2, <1>a, <2>2, <3>2 DEF DropNull, WorkerTypeOK, InPending
    <3> QED BY <3>1, <3>2
  <2>3. \A x \in Workers, y \in Threads : OnThread(x, y, j) => OnThread(x, y, j)'
    BY <1>2 DEF DropNull, OnThread
  <2>4. InQueue(j) \/ Outside(j) => Carried(j)'
    BY <1>2 DEF DropNull, InQueue, Outside, WithWatchdog, WithScheduler, WithClient, Carried
  <2> QED BY <2>1, <2>2, <2>3, <2>4 DEF Carried, WithWorker, Outside
<1>3. CASE PickUp(w, t)
  <2>1. self.pc = "picked" /\ self.id \in Jobs /\ Goto(w, t, "executing")
        /\ UNCHANGED <<queue, pending>>
    BY <1>3, <1>b DEF PickUp
  <2>2. CASE self.id = j
    BY <2>1, <2>2, <1>e, <1>g DEF OnThread
  <2>3. CASE self.id # j
    <3>1. jobs'[j] = jobs[j]
      BY <1>3, <2>1, <2>3, <1>h DEF PickUp, MarkRunning
    <3>2. Elsewhere(w, t, j)
      BY <3>1, <2>1, <2>3, <1>c DEF OnThread
    <3> QED BY <3>2, <2>1, <1>d, <1>f, <1>g
  <2> QED BY <2>2, <2>3
<1>4. CASE Complete(w, t)
  <2>1. self.pc = "executing" /\ self.id \in Jobs /\ Goto(w, t, "counting")
        /\ UNCHANGED <<queue, pending>>
    BY <1>4, <1>b DEF Complete
  <2> DEFINE row == [jobs[self.id] EXCEPT !.status = "COMPLETED", !.completed_at = TRUE]
  <2>2. update_job(self.id, row)
    BY <1>4 DEF Complete
  <2>3. row.status = "COMPLETED"
    BY <2>1, <1>a DEF Row
  <2> HIDE DEF row
  <2>4. self.id # j
    BY <2>2, <2>3, <1>i
  <2>5. Elsewhere(w, t, j)
    BY <2>1, <2>2, <2>4, <1>c, <1>h DEF OnThread
  <2> QED BY <2>1, <2>5, <1>d, <1>f, <1>g
<1>5. CASE ExecuteFails(w, t)
  <2>1. self.pc = "executing" /\ Goto(w, t, "failing") /\ UNCHANGED <<jobs, queue, pending>>
    BY <1>5 DEF ExecuteFails
  <2>2. CASE OnThread(w, t, j)
    BY <2>1, <2>2, <1>e, <1>g DEF OnThread
  <2>3. CASE Elsewhere(w, t, j)
    BY <2>1, <2>3, <1>d, <1>f, <1>g
  <2> QED BY <2>1, <2>2, <2>3, <1>c
<1>6. CASE Count(w, t)
  <2>1. self.pc = "counting" /\ thread' = [thread EXCEPT ![w][t] = IdleThread]
        /\ UNCHANGED <<jobs, queue, pending>>
    BY <1>6 DEF Count, Finish
  <2>2. Elsewhere(w, t, j)
    BY <2>1, <1>c DEF OnThread
  <2> QED BY <2>1, <2>2, <1>d, <1>f
<1>7. CASE RetryLater(w, t)
  <2>1. self.pc = "failing" /\ self.id \in Jobs /\ Goto(w, t, "refetch")
        /\ UNCHANGED <<queue, pending>>
    BY <1>7, <1>b DEF RetryLater
  <2>2. CASE self.id = j
    BY <2>1, <2>2, <1>e, <1>g DEF OnThread
  <2>3. CASE self.id # j
    <3>1. jobs'[j] = jobs[j]
      BY <1>7, <2>1, <2>3, <1>h DEF RetryLater
    <3>2. Elsewhere(w, t, j)
      BY <3>1, <2>1, <2>3, <1>c DEF OnThread
    <3> QED BY <3>2, <2>1, <1>d, <1>f, <1>g
  <2> QED BY <2>2, <2>3
<1>8. CASE Refetch(w, t)
  <2>1. self.pc = "refetch" /\ UNCHANGED <<jobs, queue, pending>>
        /\ thread' = [thread EXCEPT ![w][t].pc = "backoff", ![w][t].doc = get_job(self.id)]
    BY <1>8 DEF Refetch
  <2>2. thread' = [thread EXCEPT ![w][t] = [self EXCEPT !.pc = "backoff", !.doc = get_job(self.id)]]
    BY <2>1, <1>a DEF WorkerTypeOK
  <2>3. CASE OnThread(w, t, j)
    <3>1. self.id = j
      BY <2>1, <2>3 DEF OnThread
    <3>2. thread'[w][t].pc = "backoff" /\ thread'[w][t].doc = get_job(self.id)
      BY <2>2, <1>a, <1>b DEF WorkerTypeOK, ThreadState
    <3>3. Carries(thread'[w][t].doc, j)
      BY <3>1, <3>2, <2>1, <1>c, GetCarries
    <3> QED BY <3>2, <3>3, <1>e DEF OnThread, Carries
  <2>4. CASE Elsewhere(w, t, j)
    BY <2>1, <2>2, <2>4, <1>d, <1>f
  <2> QED BY <2>1, <2>3, <2>4, <1>c
<1>9. CASE Requeue(w, t)
  <2>1. /\ self.pc = "backoff" /\ push_or_raise(self.queue, self.doc)
        /\ thread' = [thread EXCEPT ![w][t] = IdleThread]
        /\ UNCHANGED <<jobs, pending>>
    BY <1>9 DEF Requeue, Finish
  <2>2. self.queue \in PriorityQueues /\ self.queue \in Queues /\ self.doc \in Doc
    BY <2>1, <1>b DEF Queues, ThreadState
  <2>3. /\ InQueue(j) => InQueue(j)'
        /\ Carries(self.doc, j) => InQueue(j)'
    BY <2>1, <2>2, <1>a, PushKeeps
  <2>4. CASE OnThread(w, t, j)
    BY <2>1, <2>3, <2>4 DEF OnThread, Carried
  <2>5. CASE Elsewhere(w, t, j)
    BY <2>1, <2>3, <2>5, <1>d
  <2> QED BY <2>1, <2>4, <2>5, <1>c
<1>10. CASE GiveUp(w, t)
  <2>1. self.pc = "failing" /\ self.id \in Jobs /\ Goto(w, t, "dlq")
        /\ UNCHANGED <<queue, pending>>
    BY <1>10, <1>b DEF GiveUp
  <2> DEFINE row == [jobs[self.id] EXCEPT !.status = "DEAD",
                                          !.retry_count = self.retry_count + 1,
                                          !.completed_at = TRUE]
  <2>2. update_job(self.id, row)
    BY <1>10 DEF GiveUp
  <2>3. row.status = "DEAD"
    BY <2>1, <1>a DEF Row
  <2> HIDE DEF row
  <2>4. self.id # j
    BY <2>2, <2>3, <1>i
  <2>5. Elsewhere(w, t, j)
    BY <2>1, <2>2, <2>4, <1>c, <1>h DEF OnThread
  <2> QED BY <2>1, <2>5, <1>d, <1>f, <1>g
<1>11. CASE PushDLQ(w, t)
  <2> DEFINE doc == [id |-> self.id, retry_count |-> self.retry_count + 1, raw |-> FALSE]
  <2>1. /\ self.pc = "dlq" /\ push_job(QUEUE_DLQ, doc)
        /\ thread' = [thread EXCEPT ![w][t] = IdleThread]
        /\ UNCHANGED <<jobs, pending>>
    BY <1>11 DEF PushDLQ, Finish
  <2>2. QUEUE_DLQ \in Queues /\ doc \in Doc
    BY <2>1, <1>b DEF Queues, ThreadState, Doc
  <2> HIDE DEF doc
  <2>3. InQueue(j) => InQueue(j)'
    BY <2>1, <2>2, <1>a, PushKeeps
  <2>4. Elsewhere(w, t, j)
    BY <2>1, <1>c DEF OnThread
  <2> QED BY <2>1, <2>3, <2>4, <1>d
<1> QED BY <1>1, <1>2, <1>3, <1>4, <1>5, <1>6, <1>7, <1>8, <1>9, <1>10, <1>11 DEF ThreadStep

LEMMA ProcessCustody ==
  ASSUME TypeOK, NEW w \in Workers,
         Start(w) \/ MainStep(w) \/ Stop(w) \/ Heartbeat(w) \/ Silence(w),
         UNCHANGED <<wd, sch, client>>,
         NEW j \in Jobs, ~LostPlain(j), Live(j)', ~jobs'[j].run_at
  PROVE  Carried(j)'
<1> USE DEF store, worker
<1>1. UNCHANGED <<jobs, thread>>
  BY DEF Start, MainStep, PopJob, LeaveLoop, Shutdown, Stop, Heartbeat, Silence
<1>2. Carried(j)
  BY <1>1 DEF LostPlain, Lost, Live
<1>3. \A x \in Workers, y \in Threads : OnThread(x, y, j) => OnThread(x, y, j)'
  BY <1>1 DEF OnThread
<1>4. Outside(j) => Outside(j)'
  BY DEF Outside, WithWatchdog, WithScheduler, WithClient
<1>5. CASE PopJob(w)
  <2>1. PICK q \in PriorityQueues :
          /\ PopsFrom(q)
          /\ queue' = [queue EXCEPT ![q] = Tail(@)]
          /\ pending' = [pending EXCEPT ![w] =
                           Append(@, [id |-> Head(queue[q]).id,
                                      retry_count |-> Head(queue[q]).retry_count,
                                      queue |-> q])]
    BY <1>5 DEF PopJob
  <2> DEFINE task == [id |-> Head(queue[q]).id,
                      retry_count |-> Head(queue[q]).retry_count, queue |-> q]
  <2>2. queue \in [Queues -> Seq(Message)] /\ pending \in [Workers -> Seq(Task)] /\ q \in Queues
    BY DEF TypeOK, StoreTypeOK, WorkerTypeOK, Queues
  <2>3. queue[q] \in Seq(Message) /\ queue[q] # <<>>
    BY <2>1, <2>2 DEF PopsFrom
  <2>4. Head(queue[q]) \in Message
    BY <2>3
  <2>5. task \in Task /\ task.id = Head(queue[q]).id
    BY <2>4 DEF Message, Task
  <2>6. pending'[w] = Append(pending[w], task)
    BY <2>1, <2>2
  <2>7. queue'[q] = Tail(queue[q])
    BY <2>1, <2>2
  <2> HIDE DEF task
  <2>8. ASSUME NEW x \in Workers, InPending(x, j)
        PROVE  InPending(x, j)'
    <3>1. CASE x = w
      <4>1. pending[w] \in Seq(Task) /\ Names(pending[w], j)
        BY <2>2, <2>8, <3>1 DEF InPending
      <4>2. Names(pending'[w], j)
        BY <4>1, <2>5, <2>6, AppendKeeps
      <4> QED BY <4>2, <3>1 DEF InPending
    <3>2. CASE x # w
      <4>1. pending'[x] = pending[x]
        BY <2>1, <2>2, <3>2
      <4> QED BY <4>1, <2>8 DEF InPending
    <3> QED BY <3>1, <3>2
  <2>9. ASSUME NEW p \in PriorityQueues, Names(queue[p], j)
        PROVE  InQueue(j)' \/ InPending(w, j)'
    <3>1. CASE p = q
      <4>1. Head(queue[q]).id = j \/ Names(Tail(queue[q]), j)
        BY <2>3, <2>9, <3>1, TailKeeps
      <4>2. CASE Head(queue[q]).id = j
        <5>1. pending[w] \in Seq(Task)
          BY <2>2
        <5>2. Names(pending'[w], j)
          BY <5>1, <4>2, <2>5, <2>6, AppendKeeps
        <5> QED BY <5>2 DEF InPending
      <4>3. CASE Names(Tail(queue[q]), j)
        BY <4>3, <2>7 DEF InQueue
      <4> QED BY <4>1, <4>2, <4>3
    <3>2. CASE p # q
      <4>1. queue'[p] = queue[p]
        BY <2>1, <2>2, <3>2 DEF Queues
      <4> QED BY <4>1, <2>9 DEF InQueue
    <3> QED BY <3>1, <3>2
  <2> QED BY <1>2, <1>3, <1>4, <2>8, <2>9 DEF Carried, WithWorker, Outside, InQueue
<1>6. CASE UNCHANGED <<queue, pending>>
  BY <1>2, <1>3, <1>4, <1>6 DEF Carried, WithWorker, Outside, InQueue, InPending
<1> QED BY <1>5, <1>6 DEF Start, MainStep, LeaveLoop, Shutdown, Stop, Heartbeat, Silence

\* Nothing happens in the worker processes.
LEMMA WorkersKeep ==
  ASSUME UNCHANGED worker, NEW j, NEW w \in Workers, WithWorker(w, j)
  PROVE  WithWorker(w, j)'
  BY DEF worker, WithWorker, InPending, OnThread

LEMMA WatchdogCustody ==
  ASSUME TypeOK, WatchdogStep, UNCHANGED <<worker, sch, client>>,
         NEW j \in Jobs, ~LostPlain(j), Live(j)', ~jobs'[j].run_at
  PROVE  Carried(j)'
<1> USE DEF store
<1>a. /\ jobs \in [Jobs -> Row] /\ queue \in [Queues -> Seq(Message)]
      /\ wd \in WatchdogState /\ (wd.pc \in {"refetch", "push"} => wd.id # NoJob)
  BY DEF TypeOK, StoreTypeOK, WatchdogTypeOK
<1>b. jobs'[j] = jobs[j] => Carried(j) /\ Live(j) /\ ~jobs[j].run_at
  BY DEF LostPlain, Lost, Live
<1>c. ASSUME Carried(j), InQueue(j) => InQueue(j)', WithWatchdog(j) => Carried(j)'
      PROVE  Carried(j)'
  BY <1>c, WorkersKeep DEF Carried, WithScheduler, WithClient
<1>1. CASE CheckWorkers
  BY <1>1, <1>b, <1>c DEF CheckWorkers, WithWatchdog, InQueue
<1>2. ASSUME NEW w \in Workers, MarkOffline(w)
      PROVE  Carried(j)'
  BY <1>2, <1>b, <1>c DEF MarkOffline, WithWatchdog, InQueue
<1>3. CASE SelectStuck
  BY <1>3, <1>b, <1>c DEF SelectStuck, WithWatchdog, InQueue
<1>4. ASSUME NEW k \in Jobs, RecoverJob(k)
      PROVE  Carried(j)'
  <2>1. wd.pc = "recover" /\ wd'.pc = "refetch" /\ wd'.id = k /\ UNCHANGED queue
    BY <1>4, <1>a DEF RecoverJob, WatchdogState
  <2>2. CASE j = k
    BY <2>1, <2>2 DEF WithWatchdog, Carried
  <2>3. CASE j # k
    <3>1. jobs'[j] = jobs[j]
      BY <1>4, <1>a, <2>3, OtherRows DEF RecoverJob
    <3> QED BY <3>1, <2>1, <1>b, <1>c DEF WithWatchdog, InQueue
  <2> QED BY <2>2, <2>3
<1>5. CASE RefetchStuck
  <2>1. wd.pc = "refetch" /\ wd'.pc = "push" /\ wd'.doc = get_job(wd.id)
        /\ UNCHANGED <<jobs, queue>>
    BY <1>5, <1>a DEF RefetchStuck, WatchdogState
  <2>2. ASSUME WithWatchdog(j)
        PROVE  Carried(j)'
    <3>1. wd.id = j
      BY <2>1, <2>2 DEF WithWatchdog
    <3>2. Carries(wd'.doc, j)
      BY <3>1, <2>1, <1>b, GetCarries
    <3> QED BY <3>2, <2>1 DEF WithWatchdog, Carried, Carries
  <2> QED BY <2>1, <2>2, <1>b, <1>c DEF InQueue
<1>6. CASE PushStuck
  <2> DEFINE q == PRIORITY_QUEUE_MAP[jobs[wd.id].priority]
  <2>1. wd.pc = "push" /\ push_or_raise(q, wd.doc) /\ UNCHANGED jobs
    BY <1>6 DEF PushStuck
  <2>2. wd.id \in Jobs /\ wd.doc \in Doc
    BY <2>1, <1>a DEF WatchdogState
  <2>3. q \in PriorityQueues /\ q \in Queues
    BY <2>2, <1>a, MapType DEF Row, Queues
  <2> HIDE DEF q
  <2>4. /\ InQueue(j) => InQueue(j)'
        /\ Carries(wd.doc, j) => InQueue(j)'
    BY <2>1, <2>2, <2>3, <1>a, PushKeeps
  <2> QED BY <2>1, <2>4, <1>b, <1>c DEF WithWatchdog, Carried
<1> QED BY <1>1, <1>2, <1>3, <1>4, <1>5, <1>6 DEF WatchdogStep

LEMMA SchedulerCustody ==
  ASSUME TypeOK, SchedulerStep, UNCHANGED <<worker, wd, client>>,
         NEW j \in Jobs, ~LostPlain(j), Live(j)', ~jobs'[j].run_at
  PROVE  Carried(j)'
<1> USE DEF store
<1>a. /\ jobs \in [Jobs -> Row] /\ queue \in [Queues -> Seq(Message)]
      /\ sch \in SchedulerState /\ (sch.pc = "push" => sch.doc.id # NoJob)
  BY DEF TypeOK, StoreTypeOK, SchedulerTypeOK
<1>b. jobs'[j] = jobs[j] => Carried(j) /\ Live(j) /\ ~jobs[j].run_at
  BY DEF LostPlain, Lost, Live
<1>c. ASSUME Carried(j), InQueue(j) => InQueue(j)', WithScheduler(j) => Carried(j)'
      PROVE  Carried(j)'
  BY <1>c, WorkersKeep DEF Carried, WithWatchdog, WithClient
<1>1. CASE FindDue
  BY <1>1, <1>b, <1>c DEF FindDue, WithScheduler, InQueue
<1>2. ASSUME NEW k \in Jobs, FireJob(k)
      PROVE  Carried(j)'
  <2>1. sch.pc = "fire" /\ sch'.pc = "push" /\ UNCHANGED queue
        /\ sch'.doc = [id |-> k, retry_count |-> 0, raw |-> jobs[k].run_at]
    BY <1>2 DEF FireJob
  <2>2. CASE j = k
    <3>1. ~jobs[j].run_at
      BY <1>2, <1>a, <2>2 DEF FireJob, update_job, Row
    <3> QED BY <2>1, <2>2, <3>1 DEF WithScheduler, Carries, Carried
  <2>3. CASE j # k
    <3>1. jobs'[j] = jobs[j]
      BY <1>2, <1>a, <2>3, OtherRows DEF FireJob
    <3> QED BY <3>1, <2>1, <1>b, <1>c DEF WithScheduler, InQueue
  <2> QED BY <2>2, <2>3
<1>3. CASE PushFired
  <2> DEFINE q == PRIORITY_QUEUE_MAP[jobs[sch.doc.id].priority]
  <2>1. sch.pc = "push" /\ push_or_raise(q, sch.doc) /\ UNCHANGED jobs
    BY <1>3 DEF PushFired
  <2>2. sch.doc.id \in Jobs /\ sch.doc \in Doc
    BY <2>1, <1>a DEF SchedulerState, Doc
  <2>3. q \in PriorityQueues /\ q \in Queues
    BY <2>2, <1>a, MapType DEF Row, Queues
  <2> HIDE DEF q
  <2>4. /\ InQueue(j) => InQueue(j)'
        /\ Carries(sch.doc, j) => InQueue(j)'
    BY <2>1, <2>2, <2>3, <1>a, PushKeeps
  <2> QED BY <2>1, <2>4, <1>b, <1>c DEF WithScheduler, Carried
<1> QED BY <1>1, <1>2, <1>3 DEF SchedulerStep

LEMMA JobsApiCustody ==
  ASSUME TypeOK, JobsApiNext, UNCHANGED <<worker, wd, sch>>, Faults' = Faults,
         NEW j \in Jobs, ~LostPlain(j), Live(j)', ~jobs'[j].run_at
  PROVE  Carried(j)'
<1> USE DEF store
<1>a. /\ jobs \in [Jobs -> Row] /\ queue \in [Queues -> Seq(Message)]
      /\ client \in [Clients -> ClientState]
      /\ \A c \in Clients : client[c].pc # "idle" => client[c].id \in Jobs
  BY DEF TypeOK, StoreTypeOK, JobsApiTypeOK, ClientState
<1>b. jobs'[j] = jobs[j] => Carried(j) /\ Live(j) /\ ~jobs[j].run_at
  BY DEF LostPlain, Lost, Live
\* Only client c moves.
<1>c. ASSUME NEW c \in Clients, NEW new, client' = [client EXCEPT ![c] = new],
             Carried(j), InQueue(j) => InQueue(j)', WithClient(c, j) => Carried(j)'
      PROVE  Carried(j)'
  <2>1. \A d \in Clients : d # c /\ WithClient(d, j) => WithClient(d, j)'
    BY <1>a, <1>c DEF WithClient
  <2> QED BY <1>c, <2>1, WorkersKeep DEF Carried, WithWatchdog, WithScheduler
<1>d. UNCHANGED queue => (InQueue(j) => InQueue(j)')
  BY DEF InQueue
<1>1. ASSUME NEW c \in Clients, NEW k \in Jobs, NEW p \in SubmitPriorities, NEW r \in RunAts,
             SubmitNow(c, k, p, r)
      PROVE  Carried(j)'
  <2> DEFINE new == [pc |-> "push", id |-> k,
                     doc |-> [id |-> k, retry_count |-> 0, raw |-> FALSE]]
  <2>1. client' = [client EXCEPT ![c] = new] /\ UNCHANGED queue /\ client[c].pc = "idle"
    BY <1>1 DEF SubmitNow
  <2>2. new.pc = "push" /\ Carries(new.doc, k)
    BY DEF Carries
  <2> HIDE DEF new
  <2>3. CASE j = k
    <3>1. client'[c] = new
      BY <2>1, <1>a
    <3>2. WithClient(c, j)'
      BY <2>2, <2>3, <3>1 DEF WithClient, Carries
    <3> QED BY <3>2 DEF Carried
  <2>4. CASE j # k
    <3>1. jobs'[j] = jobs[j]
      BY <1>1, <1>a, <2>4, OtherRows DEF SubmitNow
    <3> QED BY <3>1, <2>1, <1>b, <1>c, <1>d DEF WithClient
  <2> QED BY <2>3, <2>4
<1>2. ASSUME NEW c \in Clients, NEW k \in Jobs, NEW p \in SubmitPriorities,
             SubmitLater(c, k, p)
      PROVE  Carried(j)'
  <2>1. j # k
    BY <1>2, <1>a DEF SubmitLater, save_job, NewRow, Live
  <2>2. jobs'[j] = jobs[j]
    BY <1>2, <1>a, <2>1, OtherRows DEF SubmitLater
  <2>3. UNCHANGED <<queue, client>>
    BY <1>2 DEF SubmitLater
  <2> QED BY <2>2, <2>3, <1>b, WorkersKeep
          DEF Carried, InQueue, WithWatchdog, WithScheduler, WithClient
<1>3. ASSUME NEW c \in Clients, NEW k \in Jobs,
             CheckRetry(c, k) \/ CheckCancel(c, k) \/ CheckDelete(c, k)
      PROVE  Carried(j)'
  <2>1. /\ client[c].pc = "idle" /\ UNCHANGED <<jobs, queue>>
        /\ \E new : client' = [client EXCEPT ![c] = new]
    BY <1>3, <1>a DEF CheckRetry, CheckCancel, CheckDelete
  <2> QED BY <2>1, <1>b, <1>c, <1>d DEF WithClient
<1>4. ASSUME NEW c \in Clients, PushJob(c)
      PROVE  Carried(j)'
  <2> DEFINE q == PRIORITY_QUEUE_MAP[jobs[client[c].id].priority]
  <2>1. /\ client[c].pc = "push" /\ push_or_raise(q, client[c].doc) /\ UNCHANGED jobs
        /\ client' = [client EXCEPT ![c] = IdleClient]
    BY <1>4 DEF PushJob, Respond
  <2>2. client[c].id \in Jobs /\ client[c].doc \in Doc
    BY <2>1, <1>a DEF ClientState
  <2>3. q \in PriorityQueues /\ q \in Queues
    BY <2>2, <1>a, MapType DEF Row, Queues
  <2> HIDE DEF q
  <2>4. /\ InQueue(j) => InQueue(j)'
        /\ Carries(client[c].doc, j) => InQueue(j)'
    BY <2>1, <2>2, <2>3, <1>a, PushKeeps
  <2> QED BY <2>1, <2>4, <1>b, <1>c DEF WithClient, Carried
<1>5. ASSUME NEW c \in Clients, RetryJob(c)
      PROVE  Carried(j)'
  <2> DEFINE k == client[c].id
  <2>1. /\ client[c].pc = "retry" /\ k \in Jobs /\ UNCHANGED queue
        /\ client' = [client EXCEPT ![c] = [client[c] EXCEPT !.pc = "refetch"]]
    BY <1>5, <1>a DEF RetryJob
  <2>2. CASE j = k
    <3>1. client'[c].pc = "refetch" /\ client'[c].id = j
      BY <2>1, <2>2, <1>a DEF ClientState
    <3> QED BY <3>1 DEF WithClient, Carried
  <2>3. CASE j # k
    <3>1. jobs'[j] = jobs[j]
      BY <1>5, <1>a, <2>1, <2>3, OtherRows DEF RetryJob
    <3> QED BY <3>1, <2>1, <1>b, <1>c, <1>d DEF WithClient
  <2> QED BY <2>2, <2>3
<1>6. ASSUME NEW c \in Clients, RefetchJob(c)
      PROVE  Carried(j)'
  <2> DEFINE new == [client[c] EXCEPT !.pc = "push", !.doc = get_job(client[c].id)]
  <2>1. client[c].pc = "refetch" /\ UNCHANGED <<jobs, queue>>
        /\ client' = [client EXCEPT ![c] = new]
    BY <1>6, <1>a DEF RefetchJob
  <2>2. new.pc = "push" /\ new.doc = get_job(client[c].id)
    BY <1>a DEF ClientState
  <2> HIDE DEF new
  <2>3. ASSUME WithClient(c, j)
        PROVE  Carried(j)'
    <3>1. client[c].id = j
      BY <2>1, <2>3 DEF WithClient
    <3>2. Carries(new.doc, j)
      BY <3>1, <2>1, <2>2, <1>b, GetCarries
    <3>3. client'[c] = new
      BY <2>1, <1>a
    <3>4. WithClient(c, j)'
      BY <3>2, <3>3, <2>2 DEF WithClient, Carries
    <3> QED BY <3>4 DEF Carried
  <2> QED BY <2>1, <2>3, <1>b, <1>c, <1>d
<1>7. ASSUME NEW c \in Clients, CancelJob(c) \/ DeleteJob(c)
      PROVE  Carried(j)'
  <2>1. /\ client[c].pc \in {"cancel", "delete"} /\ client[c].id \in Jobs /\ UNCHANGED queue
        /\ client' = [client EXCEPT ![c] = IdleClient]
    BY <1>7, <1>a DEF CancelJob, DeleteJob, Respond
  <2>2. client[c].id # j
    BY <1>7, <1>a, <2>1 DEF CancelJob, DeleteJob, delete_job, update_job, Live, Exists, Row
  <2>3. jobs'[j] = jobs[j]
    BY <1>7, <1>a, <2>1, <2>2, OtherRows DEF CancelJob, DeleteJob, delete_job
  <2> QED BY <2>1, <2>3, <1>b, <1>c, <1>d DEF WithClient
<1>8. ASSUME NEW c \in Clients, ClientRaises(c)
      PROVE  Carried(j)'
  <2>1. Faults' = Faults + 1
    BY <1>8 DEF ClientRaises, CallRaises, Faults, TypeOK, StoreTypeOK, Env
  <2>2. Faults \in Nat
    BY DEF Faults, TypeOK, StoreTypeOK, Env
  <2> QED BY <2>1, <2>2
<1> QED BY <1>1, <1>2, <1>3, <1>4, <1>5, <1>6, <1>7, <1>8 DEF JobsApiNext, HandlerStep

-----------------------------------------------------------------------------
(* All steps together *)

\* Faults are only ever counted up, and a step that is one is counted.
LEMMA FaultsGrow ==
  ASSUME TypeOK, [Next]_vars
  PROVE  /\ Faults \in Nat /\ Faults' \in Nat /\ Faults' >= Faults
         /\ CallRaises => Faults' > Faults
<1> USE DEF Faults
<1>a. env \in Env
  BY DEF TypeOK, StoreTypeOK
<1>b. env' = env \/ CallRaises
      \/ env' = [env EXCEPT !.stops = @ + 1] \/ env' = [env EXCEPT !.stalls = @ + 1]
      \/ env' = [env EXCEPT !.retries = @ + 1] \/ env' = [env EXCEPT !.crashes = @ + 1]
      \/ env' = [env EXCEPT !.outages = @ + 1]
  <2>1. CASE WorkerNext
    <3>1. ASSUME NEW w \in Workers, NEW t \in Threads, ThreadStep(w, t)
          PROVE  env' = env
      BY <3>1 DEF ThreadStep, StartTask, DropNull, PickUp, Complete, ExecuteFails, Count,
                  RetryLater, Refetch, Requeue, GiveUp, PushDLQ, store
    <3>2. ASSUME NEW w \in Workers, Start(w) \/ MainStep(w) \/ Heartbeat(w)
          PROVE  env' = env
      BY <3>2 DEF Start, MainStep, PopJob, LeaveLoop, Shutdown, Heartbeat, store
    <3> QED BY <2>1, <3>1, <3>2
            DEF WorkerNext, Stop, PopRaises, ShutdownRaises, Crash, Silence,
                PickUpThenRaise, CountRaises, ThreadRaises
  <2>2. CASE WatchdogNext
    BY <2>2 DEF WatchdogNext, WatchdogStep, CheckWorkers, MarkOffline, SelectStuck, RecoverJob,
                RefetchStuck, PushStuck, WatchdogRaises, store
  <2>3. CASE SchedulerNext
    BY <2>3 DEF SchedulerNext, SchedulerStep, FindDue, FireJob, PushFired, SchedulerRaises, store
  <2>4. CASE JobsApiNext
    BY <2>4 DEF JobsApiNext, HandlerStep, SubmitNow, SubmitLater, PushJob, CheckRetry, RetryJob,
                RefetchJob, CheckCancel, CancelJob, CheckDelete, DeleteJob, ClientRaises, store
  <2>5. CASE ApiCrash \/ UNCHANGED vars
    BY <2>5 DEF ApiCrash, vars
  <2> QED BY <2>1, <2>2, <2>3, <2>4, <2>5 DEF Next
<1> QED BY <1>a, <1>b DEF Env, CallRaises

\* A step in which no process is killed and no call raises strands no job.
LEMMA Custody ==
  ASSUME TypeOK, [Next]_vars, Faults' = Faults, NEW j \in Jobs, ~LostPlain(j)
  PROVE  ~LostPlain(j)'
<1> SUFFICES ASSUME Live(j)', ~jobs'[j].run_at
             PROVE  Carried(j)'
  BY DEF LostPlain, Lost
<1>a. ~CallRaises
  BY FaultsGrow
<1>b. env \in Env
  BY DEF TypeOK, StoreTypeOK
<1>1. CASE WorkerNext /\ UNCHANGED <<wd, sch, client>>
  <2>1. ASSUME NEW w \in Workers, NEW t \in Threads, ThreadStep(w, t)
        PROVE  Carried(j)'
    BY <1>1, <2>1, PoolCustody
  <2>2. ASSUME NEW w \in Workers,
               Start(w) \/ MainStep(w) \/ Stop(w) \/ Heartbeat(w) \/ Silence(w)
        PROVE  Carried(j)'
    BY <1>1, <2>2, ProcessCustody
  <2>3. ASSUME NEW w \in Workers, Crash(w)
        PROVE  FALSE
    BY <2>3, <1>b DEF Crash, Faults, Env
  <2> QED BY <1>1, <1>a, <2>1, <2>2, <2>3
          DEF WorkerNext, PopRaises, ShutdownRaises, PickUpThenRaise, CountRaises, ThreadRaises
<1>2. CASE WatchdogNext /\ UNCHANGED <<worker, sch, client>>
  BY <1>2, <1>a, WatchdogCustody DEF WatchdogNext, WatchdogRaises
<1>3. CASE SchedulerNext /\ UNCHANGED <<worker, wd, client>>
  BY <1>3, <1>a, SchedulerCustody DEF SchedulerNext, SchedulerRaises
<1>4. CASE JobsApiNext /\ UNCHANGED <<worker, wd, sch>>
  BY <1>4, JobsApiCustody
<1>5. CASE ApiCrash
  BY <1>5, <1>b DEF ApiCrash, Faults, Env
<1>6. CASE UNCHANGED vars
  BY <1>6 DEF vars, LostPlain, Lost, Live, Carried, InQueue, WithWorker, InPending, OnThread,
              WithWatchdog, WithScheduler, WithClient
<1> QED BY <1>1, <1>2, <1>3, <1>4, <1>5, <1>6 DEF Next

\* As long as no process is killed and no call raises, every job whose row is
\* QUEUED or RUNNING (and has no run_at) is in a queue or with a thread.
THEOREM NothingIsLost == Spec => []NothingLost
<1>1. Init => NothingLost
  BY DEF Init, StoreInit, NothingLost, LostPlain, Lost, Live
<1>2. TypeOK /\ NothingLost /\ [Next]_vars => NothingLost'
  <2> SUFFICES ASSUME TypeOK, NothingLost, [Next]_vars, Faults' = 0, NEW j \in Jobs
               PROVE  ~LostPlain(j)'
    BY DEF NothingLost
  <2>1. Faults = 0
    BY FaultsGrow
  <2>2. ~LostPlain(j)
    BY <2>1 DEF NothingLost
  <2> QED BY <2>1, <2>2, Custody
<1> QED BY <1>1, <1>2, TypeCorrect, PTL DEF Spec

\* A job is lost only in the very step in which a process is killed or a call
\* raises, whatever happened before.
THEOREM LossIsNeverSilent == Spec => NoSilentLoss
<1>1. TypeOK /\ [Next]_vars =>
        [\A j \in Jobs : LostPlain(j)' /\ ~LostPlain(j) => Faults' > Faults]_vars
  <2> SUFFICES ASSUME TypeOK, [Next]_vars, NEW j \in Jobs, LostPlain(j)', ~LostPlain(j)
               PROVE  Faults' > Faults
    OBVIOUS
  <2>1. Faults' # Faults
    BY Custody
  <2> QED BY <2>1, FaultsGrow
<1> QED BY <1>1, TypeCorrect, PTL DEF Spec, NoSilentLoss
=============================================================================
