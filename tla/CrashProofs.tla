----------------------------- MODULE CrashProofs ------------------------------
(***************************************************************************)
(* Crashes alone never make a job run twice, for any number of jobs,       *)
(* workers and threads, and any number of crashes of either kind of        *)
(* process.  Excluded are the things that do make two copies of a job:     *)
(* late heartbeats, stopped or restarted workers, calls that raise,        *)
(* deletions, and requests racing with each other (CrashesOnly).  So are   *)
(* cancellations, which make no copy but may hit a row that the scheduler  *)
(* has in hand: they are left to the run of TLC.                           *)
(*                                                                         *)
(* The argument: a copy of a job is in one place, and the row says in      *)
(* which kind of place it is.  So whoever acts on the copy knows the row,  *)
(* and whoever makes a new copy (watchdog, scheduler, POST retry) knows    *)
(* from the row that there is none.                                        *)
(***************************************************************************)
EXTENDS RowProofs, FiniteSetTheorems

CrashesOnly ==
  /\ MaxErrors = 0 /\ MaxStalls = 0 /\ MaxStops = 0 /\ ~Restarts
  /\ Ops \subseteq {"retry"}
  /\ \A c, d \in Clients : c = d

-----------------------------------------------------------------------------
(* The inductive invariant *)

HasCopy(s, j, n) == \E i \in DOMAIN s : s[i].id = j /\ s[i].retry_count = n

\* k tells what thread t of worker w is doing with j.
ThreadHas(w, t, k, j, n) ==
  LET self == thread[w][t]
  IN \/ k = "running" /\ self.id = j /\ self.pc \in {"executing", "failing"} /\ self.retry_count = n
     \/ /\ k = "thread"
        /\ \/ self.id = j /\ self.pc = "picked" /\ self.retry_count = n
           \/ self.id = j /\ self.pc = "refetch" /\ jobs[j].retry_count = n
           \/ self.pc = "backoff" /\ self.doc.id = j /\ self.doc.retry_count = n

\* A request, or the watchdog's pass, has j in hand to push it.
HasInHand(h, j, n) ==
  \/ h.pc = "refetch" /\ h.id = j /\ jobs[j].retry_count = n
  \/ h.pc = "push" /\ h.doc.id = j /\ h.doc.retry_count = n

\* A copy of j that knows of n failed attempts is in place a, of kind k.
At(j, k, a, n) ==
  \/ k = "queue" /\ a \in PriorityQueues /\ HasCopy(queue[a], j, n)
  \/ k = "pending" /\ a \in Workers /\ HasCopy(pending[a], j, n)
  \/ k \in {"running", "thread"} /\ \E w \in Workers, t \in Threads : a = <<w, t>> /\ ThreadHas(w, t, k, j, n)
  \/ k = "client" /\ a \in Clients /\ HasInHand(client[a], j, n)
  \/ k = "watchdog" /\ a = k /\ HasInHand(wd, j, n)
  \/ k = "scheduler" /\ a = k /\ sch.pc = "push" /\ sch.doc.id = j /\ sch.doc.retry_count = n

\* What the row of j says when there is such a copy.
Says(row, k, a, n) ==
  /\ row.retry_count = n
  /\ IF k = "running" THEN row.status = "RUNNING" /\ row.worker_id = a[1]
     ELSE row.status = "QUEUED"

OnceIn(s, j) == \A i, k \in DOMAIN s : s[i].id = j /\ s[k].id = j => i = k

Once(j) ==
  /\ \A q \in PriorityQueues : OnceIn(queue[q], j)
  /\ \A w \in Workers : OnceIn(pending[w], j)

Sole(j) ==
  \A k, a, n, l, b, m : At(j, k, a, n) /\ At(j, l, b, m) => k = l /\ a = b

Fits(j) == \A k, a, n : At(j, k, a, n) => Says(jobs[j], k, a, n)

OneCopy(j) == Once(j) /\ Sole(j) /\ Fits(j)

\* A worker runs until it is killed, and then holds nothing.
WorkersFit ==
  \A w \in Workers :
    /\ proc[w] # "down" =>
         /\ proc[w] = "polling" /\ running[w]
         /\ workers[w].status = "ONLINE" /\ workers[w].fresh
    /\ proc[w] = "down" => pending[w] = <<>> /\ \A t \in Threads : thread[w][t] = IdleThread

\* w was killed, and will not come back.
Gone(w) == proc[w] = "down" /\ workers[w].status # "NONE"

\* The watchdog is after killed workers and the jobs they were running.
WatchdogFits ==
  /\ \A w \in wd.due : Gone(w)
  /\ wd.pc \in {"select", "recover", "refetch", "push"} => wd.worker \in Workers
  /\ wd.worker \in Workers => Gone(wd.worker)
  /\ \A j \in wd.stuck : jobs[j].status = "RUNNING" /\ jobs[j].worker_id = wd.worker
  /\ wd.stuck # {} => wd.pc \in {"recover", "refetch", "push"}

SchedulerFits == \A j \in sch.due : jobs[j].status = "SCHEDULED"

\* POST retry has looked at the row and nobody else touches a DEAD one.
ClientsFit ==
  \A c \in Clients :
    /\ client[c].pc \notin {"cancel", "delete"}
    /\ client[c].pc = "retry" => jobs[client[c].id].status = "DEAD"

ScheduledAfresh == \A j \in Jobs : jobs[j].status = "SCHEDULED" => jobs[j].retry_count = 0

CrashInv ==
  /\ WorkersFit /\ WatchdogFits /\ SchedulerFits /\ ClientsFit /\ ScheduledAfresh
  /\ \A j \in Jobs : OneCopy(j)
-----------------------------------------------------------------------------
(* Sequences *)

LEMMA TailCopy ==
  ASSUME NEW S, NEW s \in Seq(S), s # <<>>, NEW j, OnceIn(s, j)
  PROVE  /\ OnceIn(Tail(s), j)
         /\ \A n : HasCopy(Tail(s), j, n) => HasCopy(s, j, n)
         /\ HasCopy(s, Head(s).id, Head(s).retry_count)
         /\ Head(s).id = j => \A n : ~HasCopy(Tail(s), j, n)
<1>1. /\ DOMAIN s = 1 .. Len(s) /\ Len(s) \in Nat /\ Len(s) > 0
      /\ DOMAIN Tail(s) = 1 .. Len(s) - 1
      /\ \A i \in 1 .. Len(s) - 1 : Tail(s)[i] = s[i + 1]
      /\ Head(s) = s[1]
  OBVIOUS
<1>2. \A i \in DOMAIN Tail(s) : i + 1 \in DOMAIN s /\ Tail(s)[i] = s[i + 1] /\ i + 1 # 1
  BY <1>1
<1>3. 1 \in DOMAIN s
  BY <1>1
<1>4. OnceIn(Tail(s), j)
  <2> SUFFICES ASSUME NEW i \in DOMAIN Tail(s), NEW k \in DOMAIN Tail(s),
                      Tail(s)[i].id = j, Tail(s)[k].id = j
               PROVE  i = k
    BY DEF OnceIn
  <2>1. i + 1 = k + 1
    BY <1>2 DEF OnceIn
  <2> QED BY <2>1, <1>1
<1>5. \A n : HasCopy(Tail(s), j, n) => HasCopy(s, j, n)
  BY <1>2 DEF HasCopy
<1>6. HasCopy(s, Head(s).id, Head(s).retry_count)
  BY <1>1, <1>3 DEF HasCopy
<1>7. Head(s).id = j => \A n : ~HasCopy(Tail(s), j, n)
  <2> SUFFICES ASSUME Head(s).id = j, NEW i \in DOMAIN Tail(s), Tail(s)[i].id = j
               PROVE  FALSE
    BY DEF HasCopy
  <2>1. i + 1 = 1
    BY <1>1, <1>2, <1>3 DEF OnceIn
  <2> QED BY <2>1, <1>2
<1> QED BY <1>4, <1>5, <1>6, <1>7

LEMMA AppendCopy ==
  ASSUME NEW S, NEW s \in Seq(S), NEW m \in S, NEW j, OnceIn(s, j),
         m.id = j => \A n : ~HasCopy(s, j, n)
  PROVE  /\ OnceIn(Append(s, m), j)
         /\ \A n : HasCopy(Append(s, m), j, n) =>
              HasCopy(s, j, n) \/ (m.id = j /\ m.retry_count = n)
<1> DEFINE more == Append(s, m)
<1>1. /\ DOMAIN s = 1 .. Len(s) /\ Len(s) \in Nat
      /\ DOMAIN more = 1 .. Len(s) + 1
      /\ \A i \in 1 .. Len(s) : more[i] = s[i]
      /\ more[Len(s) + 1] = m
  OBVIOUS
<1>2. \A i \in DOMAIN more :
        \/ i \in DOMAIN s /\ more[i] = s[i]
        \/ i = Len(s) + 1 /\ more[i] = m
  BY <1>1
<1> HIDE DEF more
<1>3. \A i \in DOMAIN s : s[i].id = j => m.id # j
  BY DEF HasCopy
<1>4. OnceIn(more, j)
  <2> SUFFICES ASSUME NEW i \in DOMAIN more, NEW k \in DOMAIN more, more[i].id = j, more[k].id = j
               PROVE  i = k
    BY DEF OnceIn
  <2> QED BY <1>2, <1>3 DEF OnceIn
<1>5. \A n : HasCopy(more, j, n) => HasCopy(s, j, n) \/ (m.id = j /\ m.retry_count = n)
  BY <1>2 DEF HasCopy
<1> QED BY <1>4, <1>5 DEF more

-----------------------------------------------------------------------------
(* What keeps a job in one place *)

\* Nothing new, and the row is as before.
LEMMA Quiet ==
  ASSUME NEW j, OneCopy(j), Once(j)', jobs'[j] = jobs[j],
         \A k, a, n : At(j, k, a, n)' => At(j, k, a, n)
  PROVE  OneCopy(j)'
<1>1. Sole(j)'
  <2> SUFFICES ASSUME NEW k, NEW a, NEW n, NEW l, NEW b, NEW m, At(j, k, a, n)', At(j, l, b, m)'
               PROVE  k = l /\ a = b
    BY Zenon DEF Sole
  <2>1. At(j, k, a, n) /\ At(j, l, b, m)
    BY Zenon
  <2> QED BY <2>1, Zenon DEF OneCopy, Sole
<1>2. Fits(j)'
  <2> SUFFICES ASSUME NEW k, NEW a, NEW n, At(j, k, a, n)'
               PROVE  Says(jobs'[j], k, a, n)
    BY Zenon DEF Fits, Says
  <2>1. Says(jobs[j], k, a, n)
    BY Zenon DEF OneCopy, Fits
  <2> QED BY <2>1
<1> QED BY <1>1, <1>2 DEF OneCopy

\* Only one place is left, or none.
LEMMA Handed ==
  ASSUME NEW j, Once(j)', NEW k0, NEW a0, NEW n0,
         \A k, a, n : At(j, k, a, n)' => k = k0 /\ a = a0 /\ n = n0 /\ Says(jobs'[j], k0, a0, n0)
  PROVE  OneCopy(j)'
<1>1. Sole(j)'
  <2> SUFFICES ASSUME NEW k, NEW a, NEW n, NEW l, NEW b, NEW m, At(j, k, a, n)', At(j, l, b, m)'
               PROVE  k = l /\ a = b
    BY Zenon DEF Sole
  <2> QED OBVIOUS
<1>2. Fits(j)'
  <2> SUFFICES ASSUME NEW k, NEW a, NEW n, At(j, k, a, n)'
               PROVE  Says(jobs'[j], k, a, n)
    BY Zenon DEF Fits, Says
  <2>1. k = k0 /\ a = a0 /\ n = n0 /\ Says(jobs'[j], k0, a0, n0)
    BY Zenon
  <2> QED BY <2>1
<1> QED BY <1>1, <1>2 DEF OneCopy

\* The copy in one place is handed on to another, or used up.
LEMMA Moved ==
  ASSUME NEW j, OneCopy(j), Once(j)', NEW k0, NEW a0, NEW n0, At(j, k0, a0, n0),
         NEW k1, NEW a1, NEW n1,
         \A k, a, n : At(j, k, a, n)' =>
           \/ k = k1 /\ a = a1 /\ n = n1 /\ Says(jobs'[j], k1, a1, n1)
           \/ (\E m : At(j, k, a, m)) /\ ~(k = k0 /\ a = a0)
  PROVE  OneCopy(j)'
<1>1. ASSUME NEW k, NEW a, NEW n, At(j, k, a, n)'
      PROVE  k = k1 /\ a = a1 /\ n = n1 /\ Says(jobs'[j], k1, a1, n1)
  <2>1. ASSUME NEW m, At(j, k, a, m)
        PROVE  k = k0 /\ a = a0
    BY <2>1, Zenon DEF OneCopy, Sole
  <2> QED BY <1>1, <2>1, Zenon
<1> QED BY <1>1, Handed, Zenon

\* What a step leaves alone holds the same copies as before.
LEMMA Frames ==
  ASSUME NEW j, NEW k, NEW a, NEW n, At(j, k, a, n)'
  PROVE  LET same == /\ \E m : At(j, k, a, m)
                     /\ jobs'[j].retry_count = jobs[j].retry_count => At(j, k, a, n)
         IN /\ k \in {"queue", "pending", "running", "thread", "client", "watchdog", "scheduler"}
            /\ UNCHANGED queue /\ k = "queue" => same
            /\ UNCHANGED pending /\ k = "pending" => same
            /\ UNCHANGED thread /\ k \in {"running", "thread"} => same
            /\ UNCHANGED client /\ k = "client" => same
            /\ UNCHANGED wd /\ k = "watchdog" => same
            /\ UNCHANGED sch /\ k = "scheduler" => same
<1>1. k \in {"queue", "pending", "running", "thread", "client", "watchdog", "scheduler"}
  BY DEF At
<1>2. ASSUME UNCHANGED queue, k = "queue" PROVE At(j, k, a, n)
  BY <1>2 DEF At
<1>3. ASSUME UNCHANGED pending, k = "pending" PROVE At(j, k, a, n)
  BY <1>3 DEF At
<1>4. ASSUME UNCHANGED thread, k \in {"running", "thread"}
      PROVE  /\ \E m : At(j, k, a, m)
             /\ jobs'[j].retry_count = jobs[j].retry_count => At(j, k, a, n)
  <2>1. PICK w \in Workers, t \in Threads : a = <<w, t>> /\ ThreadHas(w, t, k, j, n)'
    BY <1>4 DEF At
  <2>2. \E m : ThreadHas(w, t, k, j, m)
    BY <2>1, <1>4 DEF ThreadHas
  <2>3. jobs'[j].retry_count = jobs[j].retry_count => ThreadHas(w, t, k, j, n)
    BY <2>1, <1>4 DEF ThreadHas
  <2> QED BY <2>1, <2>2, <2>3, <1>4 DEF At
<1>5. ASSUME UNCHANGED client, k = "client"
      PROVE  /\ \E m : At(j, k, a, m)
             /\ jobs'[j].retry_count = jobs[j].retry_count => At(j, k, a, n)
  BY <1>5 DEF At, HasInHand
<1>6. ASSUME UNCHANGED wd, k = "watchdog"
      PROVE  /\ \E m : At(j, k, a, m)
             /\ jobs'[j].retry_count = jobs[j].retry_count => At(j, k, a, n)
  BY <1>6 DEF At, HasInHand
<1>7. ASSUME UNCHANGED sch, k = "scheduler" PROVE At(j, k, a, n)
  BY <1>7 DEF At
<1> QED BY <1>1, <1>2, <1>3, <1>4, <1>5, <1>6, <1>7

LEMMA OnceFrame ==
  ASSUME NEW j, Once(j),
         \A q \in PriorityQueues : queue'[q] = queue[q],
         \A w \in Workers : pending'[w] = pending[w] \/ pending'[w] = <<>>
  PROVE  Once(j)'
  BY DEF Once, OnceIn
-----------------------------------------------------------------------------
(* Pool threads *)

LEMMA ThreadFrames ==
  ASSUME WorkerTypeOK, NEW w \in Workers, NEW t \in Threads,
         NEW new, thread' = [thread EXCEPT ![w][t] = new],
         NEW j, NEW k \in {"running", "thread"}, NEW a, NEW n, At(j, k, a, n)'
  PROVE  \/ a = <<w, t>> /\ ThreadHas(w, t, k, j, n)'
         \/ /\ a # <<w, t>> /\ \E m : At(j, k, a, m)
            /\ jobs'[j].retry_count = jobs[j].retry_count => At(j, k, a, n)
<1>1. PICK x \in Workers, u \in Threads : a = <<x, u>> /\ ThreadHas(x, u, k, j, n)'
  BY DEF At
<1>2. CASE x = w /\ u = t
  BY <1>1, <1>2
<1>3. CASE ~(x = w /\ u = t)
  <2>1. thread'[x][u] = thread[x][u]
    BY <1>3 DEF WorkerTypeOK
  <2>2. \E m : ThreadHas(x, u, k, j, m)
    BY <2>1, <1>1 DEF ThreadHas
  <2>3. jobs'[j].retry_count = jobs[j].retry_count => ThreadHas(x, u, k, j, n)
    BY <2>1, <1>1 DEF ThreadHas
  <2>4. a # <<w, t>>
    BY <1>1, <1>3
  <2> QED BY <2>2, <2>3, <2>4, <1>1 DEF At
<1> QED BY <1>2, <1>3

\* A thread knows only its own job.
LEMMA ThreadKnows ==
  ASSUME DocsFit, NEW w \in Workers, NEW t \in Threads, NEW j \in Jobs, NEW k, NEW n,
         ThreadHas(w, t, k, j, n)
  PROVE  thread[w][t].id = j
  BY StoreAssumption DEF ThreadHas, DocsFit

\* Copies in the queues after a push.
LEMMA PushCopies ==
  ASSUME TypeOK, NEW p \in Queues, NEW doc \in Doc, push_or_raise(p, doc) \/ push_job(p, doc),
         NEW j, \A q \in PriorityQueues : OnceIn(queue[q], j),
         p \in PriorityQueues /\ doc.id = j => \A n : ~HasCopy(queue[p], j, n)
  PROVE  /\ \A q \in PriorityQueues : OnceIn(queue'[q], j)
         /\ \A q \in PriorityQueues : \A n : HasCopy(queue'[q], j, n) =>
              HasCopy(queue[q], j, n) \/ (q = p /\ doc.id = j /\ doc.retry_count = n)
<1> DEFINE m == [id |-> doc.id, retry_count |-> doc.retry_count]
<1>1. m \in Message /\ m.id = doc.id /\ m.retry_count = doc.retry_count
  BY DEF Doc, Message
<1>2. PriorityQueues \subseteq Queues /\ queue \in [Queues -> Seq(Message)]
  BY DEF Queues, TypeOK, StoreTypeOK
<1>3. CASE push_job(p, doc)
  <2>1. queue' = [queue EXCEPT ![p] = Append(queue[p], m)]
    BY <1>3 DEF push_job
  <2> HIDE DEF m
  <2>2. ASSUME NEW q \in PriorityQueues
        PROVE  /\ OnceIn(queue'[q], j)
               /\ \A n : HasCopy(queue'[q], j, n) =>
                    HasCopy(queue[q], j, n) \/ (q = p /\ doc.id = j /\ doc.retry_count = n)
    <3>1. CASE q = p
      <4>1. queue'[q] = Append(queue[q], m) /\ queue[q] \in Seq(Message) /\ OnceIn(queue[q], j)
        BY <2>1, <3>1, <1>2
      <4>2. m.id = j => \A n : ~HasCopy(queue[q], j, n)
        BY <3>1, <1>1
      <4> QED BY <4>1, <4>2, <3>1, <1>1, AppendCopy
    <3>2. CASE q # p
      <4>1. queue'[q] = queue[q]
        BY <3>2, <2>1, <1>2
      <4> QED BY <4>1
    <3> QED BY <3>1, <3>2
  <2> QED BY <2>2
<1>4. CASE UNCHANGED queue
  BY <1>4
<1> QED BY <1>3, <1>4 DEF push_or_raise

\* A push hands a job on from the place k0, a0, which is left, to a queue.
LEMMA Pushed ==
  ASSUME TypeOK, NEW j \in Jobs, OneCopy(j), UNCHANGED <<jobs, pending>>,
         NEW p \in PriorityQueues, NEW doc \in Doc, push_or_raise(p, doc),
         NEW k0, NEW a0, k0 \notin {"queue", "running"}, doc.id = j => At(j, k0, a0, doc.retry_count),
         \A k, a, n : k # "queue" /\ At(j, k, a, n)' =>
           At(j, k, a, n) /\ (doc.id = j => ~(k = k0 /\ a = a0))
  PROVE  OneCopy(j)'
<1>1. Once(j)
  BY DEF OneCopy
<1>2. doc.id = j => \A n : ~HasCopy(queue[p], j, n)
  <2> SUFFICES ASSUME doc.id = j, NEW n, HasCopy(queue[p], j, n) PROVE FALSE
    OBVIOUS
  <2>1. At(j, "queue", p, n)
    BY DEF At
  <2> QED BY <2>1 DEF OneCopy, Sole
<1>3. p \in Queues
  BY DEF Queues
<1>4. /\ \A q \in PriorityQueues : OnceIn(queue'[q], j)
      /\ \A q \in PriorityQueues : \A n : HasCopy(queue'[q], j, n) =>
           HasCopy(queue[q], j, n) \/ (q = p /\ doc.id = j /\ doc.retry_count = n)
  BY <1>1, <1>2, <1>3, PushCopies DEF Once
<1>5. Once(j)'
  BY <1>1, <1>4 DEF Once
<1>6. ASSUME NEW k, NEW a, NEW n, At(j, k, a, n)'
      PROVE  \/ doc.id = j /\ k = "queue" /\ a = p /\ n = doc.retry_count
             \/ At(j, k, a, n) /\ (doc.id = j => ~(k = k0 /\ a = a0))
  <2>1. CASE k = "queue"
    <3>1. a \in PriorityQueues /\ HasCopy(queue'[a], j, n)
      BY <1>6, <2>1 DEF At
    <3> QED BY <3>1, <2>1, <1>4 DEF At
  <2>2. CASE k # "queue"
    BY <1>6, <2>2
  <2> QED BY <2>1, <2>2
<1>7. CASE doc.id = j
  <2>1. Says(jobs'[j], "queue", p, doc.retry_count)
    <3>1. Says(jobs[j], k0, a0, doc.retry_count)
      BY <1>7 DEF OneCopy, Fits
    <3> QED BY <3>1 DEF Says
  <2> QED BY <2>1, <1>5, <1>6, <1>7, Moved
<1>8. CASE doc.id # j
  BY <1>5, <1>6, <1>8, Quiet
<1> QED BY <1>7, <1>8
\* The row of a job with a copy in place a, of kind k.
LEMMA RowSays ==
  ASSUME NEW j, OneCopy(j), NEW k, NEW a, NEW n, At(j, k, a, n)
  PROVE  /\ jobs[j].retry_count = n /\ Exists(j)
         /\ k = "running" => jobs[j].status = "RUNNING" /\ jobs[j].worker_id = a[1]
         /\ k # "running" => jobs[j].status = "QUEUED"
<1>1. Says(jobs[j], k, a, n)
  BY DEF OneCopy, Fits
<1> QED BY <1>1 DEF Says, Exists

LEMMA ThreadRow ==
  ASSUME TypeOK, NEW w \in Workers, NEW t \in Threads, NEW j \in Jobs, OneCopy(j),
         thread[w][t].id = j
  PROVE  /\ thread[w][t].pc = "picked" =>
              /\ At(j, "thread", <<w, t>>, thread[w][t].retry_count)
              /\ jobs[j].status = "QUEUED" /\ Exists(j)
              /\ jobs[j].retry_count = thread[w][t].retry_count
         /\ thread[w][t].pc \in {"executing", "failing"} =>
              /\ At(j, "running", <<w, t>>, thread[w][t].retry_count)
              /\ jobs[j].status = "RUNNING" /\ Exists(j)
              /\ jobs[j].retry_count = thread[w][t].retry_count
              /\ jobs[j].worker_id = w
<1>1. ASSUME thread[w][t].pc = "picked"
      PROVE  At(j, "thread", <<w, t>>, thread[w][t].retry_count)
  BY <1>1 DEF At, ThreadHas
<1>2. ASSUME thread[w][t].pc \in {"executing", "failing"}
      PROVE  At(j, "running", <<w, t>>, thread[w][t].retry_count)
  BY <1>2 DEF At, ThreadHas
<1>3. <<w, t>>[1] = w
  OBVIOUS
<1> QED BY <1>1, <1>2, <1>3, RowSays

\* A step of a thread on its own job, which stays with the thread or is done.
LEMMA ThreadCopies ==
  ASSUME TypeOK, DocsFit, DocsFit', NEW w \in Workers, NEW t \in Threads,
         \/ PickUp(w, t) \/ Complete(w, t) \/ ExecuteFails(w, t) \/ Count(w, t)
         \/ RetryLater(w, t) \/ Refetch(w, t) \/ GiveUp(w, t),
         UNCHANGED <<wd, sch, client>>,
         NEW j \in Jobs, OneCopy(j)
  PROVE  OneCopy(j)'
<1> USE DEF store, worker
<1> DEFINE self == thread[w][t]
<1>a. WorkerTypeOK /\ jobs \in [Jobs -> Row] /\ Once(j)
  BY DEF TypeOK, StoreTypeOK, OneCopy
<1>b. self \in ThreadState /\ (self.pc # "idle" => self.id \in Jobs)
  BY <1>a, ThreadType
<1>c. UNCHANGED <<queue, pending>>
  BY DEF PickUp, Complete, ExecuteFails, Count, RetryLater, Refetch, GiveUp
<1>d. Once(j)'
  BY <1>a, <1>c, OnceFrame
<1>e. PICK new : thread' = [thread EXCEPT ![w][t] = new] /\ new.id \in {self.id, NoJob}
  <2>1. ASSUME NEW pc, Goto(w, t, pc)
        PROVE  /\ thread' = [thread EXCEPT ![w][t] = [self EXCEPT !.pc = pc]]
               /\ [self EXCEPT !.pc = pc].id = self.id
    BY <2>1, <1>a, <1>b DEF Goto, WorkerTypeOK, ThreadState
  <2>2. CASE \E pc : Goto(w, t, pc)
    BY <2>1, <2>2
  <2>3. CASE Refetch(w, t)
    <3>1. thread' = [thread EXCEPT ![w][t] = [self EXCEPT !.pc = "backoff", !.doc = get_job(self.id)]]
      BY <2>3, <1>a DEF Refetch, WorkerTypeOK
    <3>2. [self EXCEPT !.pc = "backoff", !.doc = get_job(self.id)].id = self.id
      BY <1>b DEF ThreadState
    <3> QED BY <3>1, <3>2
  <2>4. CASE Finish(w, t)
    <3>1. thread' = [thread EXCEPT ![w][t] = IdleThread] /\ IdleThread.id = NoJob
      BY <2>4 DEF Finish, IdleThread
    <3> QED BY <3>1
  <2>5. (\E pc : Goto(w, t, pc)) \/ Refetch(w, t) \/ Finish(w, t)
    BY DEF PickUp, Complete, ExecuteFails, Count, RetryLater, GiveUp
  <2> QED BY <2>2, <2>3, <2>4, <2>5
<1>f. thread'[w][t] = new
  BY <1>a, <1>e DEF WorkerTypeOK
<1>g. ASSUME NEW k, NEW a, NEW n, At(j, k, a, n)'
      PROVE  \/ a = <<w, t>> /\ k \in {"running", "thread"} /\ ThreadHas(w, t, k, j, n)'
             \/ /\ ~(k \in {"running", "thread"} /\ a = <<w, t>>) /\ \E m : At(j, k, a, m)
                /\ jobs'[j].retry_count = jobs[j].retry_count => At(j, k, a, n)
  <2>1. CASE k \in {"running", "thread"}
    BY <2>1, <1>g, <1>a, <1>e, ThreadFrames
  <2>2. CASE k \notin {"running", "thread"}
    BY <2>2, <1>g, <1>c, Frames
  <2> QED BY <2>1, <2>2
<1>q. ASSUME jobs'[j] = jobs[j],
             \A k, n : ThreadHas(w, t, k, j, n)' => ThreadHas(w, t, k, j, n)
      PROVE  OneCopy(j)'
  <2>1. \A k, a, n : At(j, k, a, n)' => At(j, k, a, n)
    <3> SUFFICES ASSUME NEW k, NEW a, NEW n, At(j, k, a, n)' PROVE At(j, k, a, n)
      OBVIOUS
    <3>1. CASE a = <<w, t>> /\ k \in {"running", "thread"} /\ ThreadHas(w, t, k, j, n)'
      <4>1. ThreadHas(w, t, k, j, n)
        BY <3>1, <1>q
      <4> QED BY <3>1, <4>1 DEF At
    <3> QED BY <3>1, <1>g, <1>q
  <2> QED BY <2>1, <1>d, <1>q, Quiet
<1>m. ASSUME NEW k0 \in {"running", "thread"}, NEW n0, At(j, k0, <<w, t>>, n0), NEW k1, NEW n1,
             \A k, n : ThreadHas(w, t, k, j, n)' => k = k1 /\ n = n1 /\ Says(jobs'[j], k1, <<w, t>>, n1)
      PROVE  OneCopy(j)'
  <2>1. ASSUME NEW k, NEW a, NEW n, At(j, k, a, n)'
        PROVE  \/ k = k1 /\ a = <<w, t>> /\ n = n1 /\ Says(jobs'[j], k1, <<w, t>>, n1)
               \/ (\E m : At(j, k, a, m)) /\ ~(k = k0 /\ a = <<w, t>>)
    BY <2>1, <1>g, <1>m
  <2> QED BY <2>1, <1>d, <1>m, Moved
<1>o. ASSUME self.id # j, self.id \in Jobs
      PROVE  OneCopy(j)'
  <2>1. UNCHANGED jobs \/ \E row : update_job(self.id, row)
    BY DEF PickUp, MarkRunning, Complete, ExecuteFails, Count, RetryLater, Refetch, GiveUp
  <2>4. jobs'[j] = jobs[j]
    BY <2>1, <1>a, <1>o, OtherRows
  <2>2. new.id # j
    BY <1>e, <1>o, StoreAssumption
  <2>3. \A k, n : ~ThreadHas(w, t, k, j, n)'
    BY <2>2, <1>f, StoreAssumption DEF ThreadHas, DocsFit
  <2> QED BY <2>4, <2>3, <1>q
<1>h. CASE self.id = j
  <2> USE <1>h
  <2>r. jobs[j] \in Row
    BY <1>a
  <2>1. CASE PickUp(w, t)
    <3>1. self.pc = "picked" /\ new.pc = "executing" /\ new.id = j /\ new.retry_count = self.retry_count
      BY <2>1, <1>a, <1>b, <1>f DEF PickUp, Goto, WorkerTypeOK, ThreadState
    <3>2. At(j, "thread", <<w, t>>, self.retry_count) /\ Exists(j) /\ jobs[j].retry_count = self.retry_count
      BY <3>1, ThreadRow
    <3>3. jobs'[j] = [jobs[j] EXCEPT !.status = "RUNNING", !.worker_id = w, !.started_at = TRUE]
      BY <2>1, <3>2, <1>a DEF PickUp, MarkRunning, update_job
    <3>4. Says(jobs'[j], "running", <<w, t>>, self.retry_count)
      BY <3>2, <3>3, <2>r DEF Says, Row
    <3>5. \A k, n : ThreadHas(w, t, k, j, n)' => k = "running" /\ n = self.retry_count
      BY <3>1, <1>f DEF ThreadHas
    <3> QED BY <3>2, <3>4, <3>5, <1>m
  <2>2. CASE Complete(w, t)
    <3>1. self.pc = "executing" /\ new.pc = "counting"
      BY <2>2, <1>a, <1>b, <1>f DEF Complete, Goto, WorkerTypeOK, ThreadState
    <3>2. At(j, "running", <<w, t>>, self.retry_count)
      BY <3>1, ThreadRow
    <3>3. \A k, n : ~ThreadHas(w, t, k, j, n)'
      BY <3>1, <1>f DEF ThreadHas
    <3> QED BY <3>2, <3>3, <1>m
  <2>3. CASE ExecuteFails(w, t)
    <3>1. /\ self.pc = "executing" /\ new.pc = "failing" /\ new.id = j
          /\ new.retry_count = self.retry_count /\ UNCHANGED jobs
      BY <2>3, <1>a, <1>b, <1>f DEF ExecuteFails, Goto, WorkerTypeOK, ThreadState
    <3>2. \A k, n : ThreadHas(w, t, k, j, n)' => ThreadHas(w, t, k, j, n)
      BY <3>1, <1>f DEF ThreadHas
    <3> QED BY <3>1, <3>2, <1>q
  <2>4. CASE Count(w, t)
    <3>1. new.pc = "idle" /\ UNCHANGED jobs
      BY <2>4, <1>a, <1>f DEF Count, Finish, WorkerTypeOK, IdleThread
    <3>2. \A k, n : ~ThreadHas(w, t, k, j, n)'
      BY <3>1, <1>f DEF ThreadHas
    <3> QED BY <3>1, <3>2, <1>q
  <2>5. CASE RetryLater(w, t)
    <3>1. self.pc = "failing" /\ new.pc = "refetch" /\ new.id = j
      BY <2>5, <1>a, <1>b, <1>f DEF RetryLater, Goto, WorkerTypeOK, ThreadState
    <3>2. At(j, "running", <<w, t>>, self.retry_count) /\ Exists(j)
      BY <3>1, ThreadRow
    <3>3. jobs'[j] = [jobs[j] EXCEPT !.status = "QUEUED", !.retry_count = self.retry_count + 1,
                                     !.started_at = FALSE]
      BY <2>5, <3>2, <1>a DEF RetryLater, update_job
    <3>4. jobs'[j].status = "QUEUED"
      BY <3>3, <2>r DEF Row
    <3>5. \A k, n : ThreadHas(w, t, k, j, n)' => k = "thread" /\ n = jobs'[j].retry_count
      BY <3>1, <1>f DEF ThreadHas
    <3>6. Says(jobs'[j], "thread", <<w, t>>, jobs'[j].retry_count)
      BY <3>4 DEF Says
    <3> QED BY <3>2, <3>5, <3>6, <1>m
  <2>6. CASE Refetch(w, t)
    <3>1. self.pc = "refetch" /\ new.pc = "backoff" /\ new.doc = get_job(j) /\ UNCHANGED jobs
      BY <2>6, <1>a, <1>b, <1>f DEF Refetch, WorkerTypeOK, ThreadState
    <3>2. \A k, n : ThreadHas(w, t, k, j, n)' => ThreadHas(w, t, k, j, n)
      BY <3>1, <1>f, StoreAssumption DEF ThreadHas, get_job, NoDoc
    <3> QED BY <3>1, <3>2, <1>q
  <2>7. CASE GiveUp(w, t)
    <3>1. self.pc = "failing" /\ new.pc = "dlq"
      BY <2>7, <1>a, <1>b, <1>f DEF GiveUp, Goto, WorkerTypeOK, ThreadState
    <3>2. At(j, "running", <<w, t>>, self.retry_count)
      BY <3>1, ThreadRow
    <3>3. \A k, n : ~ThreadHas(w, t, k, j, n)'
      BY <3>1, <1>f DEF ThreadHas
    <3> QED BY <3>2, <3>3, <1>m
  <2> QED BY <2>1, <2>2, <2>3, <2>4, <2>5, <2>6, <2>7
<1> QED BY <1>b, <1>h, <1>o DEF PickUp, Complete, ExecuteFails, Count, RetryLater, Refetch, GiveUp
\* A thread takes the first task, drops a null, or pushes its job again.
LEMMA TaskCopies ==
  ASSUME TypeOK, DocsFit, NEW w \in Workers, NEW t \in Threads,
         StartTask(w, t) \/ DropNull(w, t) \/ Requeue(w, t) \/ PushDLQ(w, t),
         UNCHANGED <<wd, sch, client>>,
         NEW j \in Jobs, OneCopy(j)
  PROVE  OneCopy(j)'
<1> USE DEF store, worker
<1> DEFINE self == thread[w][t]
<1>a. WorkerTypeOK /\ Once(j) /\ UNCHANGED jobs
  BY DEF TypeOK, OneCopy, StartTask, DropNull, Requeue, PushDLQ
<1>b. self \in ThreadState /\ (self.pc # "idle" => self.id \in Jobs /\ self.queue \in PriorityQueues)
  BY <1>a, ThreadType
<1>1. CASE StartTask(w, t) \/ DropNull(w, t)
  <2> DEFINE task == Head(pending[w])
             new == [pc |-> "picked", id |-> task.id, retry_count |-> task.retry_count,
                     queue |-> task.queue, doc |-> NoDoc]
  <2>1. /\ pending[w] # <<>> /\ pending[w] \in Seq(Task) /\ UNCHANGED queue
        /\ pending' = [pending EXCEPT ![w] = Tail(pending[w])]
    BY <1>1, <1>a DEF StartTask, DropNull, WorkerTypeOK
  <2>2. /\ pending'[w] = Tail(pending[w])
        /\ \A x \in Workers : x # w => pending'[x] = pending[x]
    BY <2>1, <1>a DEF WorkerTypeOK
  <2>3. /\ OnceIn(Tail(pending[w]), j)
        /\ \A n : HasCopy(Tail(pending[w]), j, n) => HasCopy(pending[w], j, n)
        /\ HasCopy(pending[w], task.id, task.retry_count)
        /\ task.id = j => \A n : ~HasCopy(Tail(pending[w]), j, n)
    <3>1. OnceIn(pending[w], j)
      BY <1>a DEF Once
    <3> QED BY <3>1, <2>1, TailCopy
  <2>4. Once(j)'
    BY <2>1, <2>2, <2>3, <1>a DEF Once
  <2>5. ASSUME NEW a, NEW n, At(j, "pending", a, n)'
        PROVE  At(j, "pending", a, n) /\ ~(task.id = j /\ a = w)
    <3>1. a \in Workers /\ HasCopy(pending'[a], j, n)
      BY <2>5 DEF At
    <3> QED BY <3>1, <2>2, <2>3 DEF At
  <2>6. CASE DropNull(w, t)
    <3>1. \A k, a, n : At(j, k, a, n)' => At(j, k, a, n)
      BY <2>1, <2>5, <2>6, <1>a, Frames DEF DropNull
    <3> QED BY <3>1, <2>4, <1>a, Quiet
  <2>7. CASE StartTask(w, t)
    <3>1. thread' = [thread EXCEPT ![w][t] = new] /\ self.pc = "idle"
      BY <2>7 DEF StartTask
    <3>2. thread'[w][t] = new
      BY <3>1, <1>a DEF WorkerTypeOK
    <3>3. \A k, n : ThreadHas(w, t, k, j, n)' => k = "thread" /\ task.id = j /\ task.retry_count = n
      BY <3>2 DEF ThreadHas
    <3> HIDE DEF new, task
    <3>4. ASSUME NEW k, NEW a, NEW n, At(j, k, a, n)'
          PROVE  \/ task.id = j /\ k = "thread" /\ a = <<w, t>> /\ n = task.retry_count
                 \/ At(j, k, a, n) /\ ~(task.id = j /\ k = "pending" /\ a = w)
      <4>1. CASE k \in {"running", "thread"}
        <5>1. \/ a = <<w, t>> /\ ThreadHas(w, t, k, j, n)'
              \/ (\E m : At(j, k, a, m)) /\ (jobs'[j].retry_count = jobs[j].retry_count => At(j, k, a, n))
          BY <4>1, <3>1, <3>4, <1>a, ThreadFrames
        <5>2. \/ a = <<w, t>> /\ ThreadHas(w, t, k, j, n)'
              \/ At(j, k, a, n)
          BY <5>1, <1>a
        <5> QED BY <5>2, <4>1, <3>3
      <4>2. CASE k = "pending"
        BY <4>2, <3>4, <2>5
      <4>3. CASE k \notin {"running", "thread", "pending"}
        BY <4>3, <3>4, <2>1, <1>a, Frames
      <4> QED BY <4>1, <4>2, <4>3
    <3>5. CASE task.id = j
      <4>1. At(j, "pending", w, task.retry_count)
        BY <3>5, <2>3 DEF At
      <4>2. Says(jobs'[j], "thread", <<w, t>>, task.retry_count)
        BY <4>1, <1>a, RowSays DEF Says
      <4>3. ASSUME NEW k, NEW a, NEW n, At(j, k, a, n)'
            PROVE  \/ /\ k = "thread" /\ a = <<w, t>> /\ n = task.retry_count
                      /\ Says(jobs'[j], "thread", <<w, t>>, task.retry_count)
                   \/ (\E m : At(j, k, a, m)) /\ ~(k = "pending" /\ a = w)
        BY <4>2, <4>3, <3>4, <3>5
      <4> QED BY <4>1, <4>3, <2>4, Moved
    <3>6. CASE task.id # j
      BY <3>4, <3>6, <2>4, <1>a, Quiet
    <3> QED BY <3>5, <3>6
  <2> QED BY <1>1, <2>6, <2>7
<1>2. CASE Requeue(w, t) \/ PushDLQ(w, t)
  <2>1. thread' = [thread EXCEPT ![w][t] = IdleThread] /\ UNCHANGED pending
    BY <1>2 DEF Requeue, PushDLQ, Finish
  <2>2. thread'[w][t] = IdleThread
    BY <2>1, <1>a DEF WorkerTypeOK
  <2>3. \A k, n : ~ThreadHas(w, t, k, j, n)'
    BY <2>2, StoreAssumption DEF ThreadHas, IdleThread
  <2>4. ASSUME NEW k, NEW a, NEW n, k # "queue", At(j, k, a, n)'
        PROVE  At(j, k, a, n) /\ ~(k = "thread" /\ a = <<w, t>>)
    <3>1. CASE k \in {"running", "thread"}
      BY <3>1, <2>1, <2>3, <2>4, <1>a, ThreadFrames
    <3>2. CASE k \notin {"running", "thread"}
      BY <3>2, <2>1, <2>4, <1>a, Frames
    <3> QED BY <3>1, <3>2
  <2>5. CASE Requeue(w, t)
    <3>1. self.pc = "backoff" /\ self.queue \in PriorityQueues /\ self.doc \in Doc
          /\ push_or_raise(self.queue, self.doc)
      BY <2>5, <1>b DEF Requeue, ThreadState
    <3>2. self.doc.id = j => At(j, "thread", <<w, t>>, self.doc.retry_count)
      BY <3>1 DEF At, ThreadHas
    <3>3. ASSUME NEW k, NEW a, NEW n, k # "queue" /\ At(j, k, a, n)'
          PROVE  At(j, k, a, n) /\ (self.doc.id = j => ~(k = "thread" /\ a = <<w, t>>))
      BY <3>3, <2>4
    <3> DEFINE doc == self.doc
               p == self.queue
    <3>4. /\ p \in PriorityQueues /\ doc \in Doc /\ push_or_raise(p, doc)
          /\ doc.id = j => At(j, "thread", <<w, t>>, doc.retry_count)
          /\ \A k, a, n : k # "queue" /\ At(j, k, a, n)' =>
               At(j, k, a, n) /\ (doc.id = j => ~(k = "thread" /\ a = <<w, t>>))
      BY <3>1, <3>2, <3>3
    <3>5. UNCHANGED <<jobs, pending>> /\ "thread" \notin {"queue", "running"}
      BY <2>1, <1>a
    <3> HIDE DEF doc, p
    <3> QED BY <3>4, <3>5, Pushed
  <2>6. CASE PushDLQ(w, t)
    <3>1. \A q \in PriorityQueues : queue'[q] = queue[q]
      BY <2>6 DEF PushDLQ, push_job, PriorityQueues, QUEUE_DLQ, TypeOK, StoreTypeOK, Queues
    <3>2. Once(j)'
      BY <3>1, <2>1, <1>a, OnceFrame
    <3>3. \A k, a, n : At(j, k, a, n)' => At(j, k, a, n)
      <4> SUFFICES ASSUME NEW k, NEW a, NEW n, At(j, k, a, n)' PROVE At(j, k, a, n)
        OBVIOUS
      <4>1. CASE k = "queue"
        BY <4>1, <3>1 DEF At
      <4> QED BY <4>1, <2>4
    <3> QED BY <3>2, <3>3, <1>a, Quiet
  <2> QED BY <1>2, <2>5, <2>6
<1> QED BY <1>1, <1>2

-----------------------------------------------------------------------------
(* The worker processes *)

LEMMA ProcessCopies ==
  ASSUME TypeOK, NEW w \in Workers,
         Start(w) \/ MainStep(w) \/ Stop(w) \/ PopRaises(w) \/ ShutdownRaises(w) \/ Crash(w)
           \/ Heartbeat(w) \/ Silence(w),
         UNCHANGED <<wd, sch, client>>,
         NEW j \in Jobs, OneCopy(j)
  PROVE  OneCopy(j)'
<1> USE DEF store, worker
<1>a. WorkerTypeOK /\ queue \in [Queues -> Seq(Message)] /\ Once(j) /\ UNCHANGED jobs
  BY DEF TypeOK, StoreTypeOK, OneCopy, Start, MainStep, PopJob, LeaveLoop, Shutdown, Stop,
     PopRaises, ShutdownRaises, Crash, Heartbeat, Silence
<1>1. CASE PopJob(w)
  <2>1. PICK p \in PriorityQueues :
          /\ queue[p] # <<>>
          /\ queue' = [queue EXCEPT ![p] = Tail(@)]
          /\ pending' = [pending EXCEPT ![w] =
                           Append(@, [id |-> Head(queue[p]).id,
                                      retry_count |-> Head(queue[p]).retry_count,
                                      queue |-> p])]
    BY <1>1 DEF PopJob, PopsFrom
  <2> DEFINE task == [id |-> Head(queue[p]).id, retry_count |-> Head(queue[p]).retry_count,
                      queue |-> p]
  <2>2. p \in Queues /\ queue[p] \in Seq(Message) /\ queue'[p] = Tail(queue[p])
        /\ \A q \in PriorityQueues : q # p => queue'[q] = queue[q]
    BY <2>1, <1>a DEF Queues
  <2>3. Head(queue[p]) \in Message
    BY <2>1, <2>2
  <2>4. /\ task \in Task /\ task.id = Head(queue[p]).id
        /\ task.retry_count = Head(queue[p]).retry_count
    BY <2>3 DEF Task, Message
  <2>5. pending' = [pending EXCEPT ![w] = Append(pending[w], task)]
    BY <2>1
  <2> HIDE DEF task
  <2>6. /\ pending'[w] = Append(pending[w], task) /\ pending[w] \in Seq(Task)
        /\ \A x \in Workers : x # w => pending'[x] = pending[x]
    BY <2>5, <1>a DEF WorkerTypeOK
  <2>7. UNCHANGED thread
    BY <1>1 DEF PopJob
  <2>8. /\ OnceIn(Tail(queue[p]), j)
        /\ \A n : HasCopy(Tail(queue[p]), j, n) => HasCopy(queue[p], j, n)
        /\ HasCopy(queue[p], task.id, task.retry_count)
        /\ task.id = j => \A n : ~HasCopy(Tail(queue[p]), j, n)
    <3>1. OnceIn(queue[p], j)
      BY <1>a DEF Once
    <3> QED BY <3>1, <2>1, <2>2, <2>4, TailCopy
  <2>9. task.id = j => At(j, "queue", p, task.retry_count)
    BY <2>8 DEF At
  <2>10. task.id = j => \A n : ~HasCopy(pending[w], j, n)
    <3> SUFFICES ASSUME task.id = j, NEW n, HasCopy(pending[w], j, n) PROVE FALSE
      OBVIOUS
    <3>1. At(j, "pending", w, n)
      BY DEF At
    <3> QED BY <3>1, <2>9 DEF OneCopy, Sole
  <2>11. /\ OnceIn(pending'[w], j)
         /\ \A n : HasCopy(pending'[w], j, n) =>
              HasCopy(pending[w], j, n) \/ (task.id = j /\ task.retry_count = n)
    <3>1. OnceIn(pending[w], j)
      BY <1>a DEF Once
    <3> QED BY <3>1, <2>4, <2>6, <2>10, AppendCopy
  <2>12. Once(j)'
    BY <2>2, <2>6, <2>8, <2>11, <1>a DEF Once
  <2>13. ASSUME NEW k, NEW a, NEW n, At(j, k, a, n)'
         PROVE  \/ task.id = j /\ k = "pending" /\ a = w /\ n = task.retry_count
                \/ At(j, k, a, n) /\ ~(task.id = j /\ k = "queue" /\ a = p)
    <3>1. CASE k = "queue"
      <4>1. a \in PriorityQueues /\ HasCopy(queue'[a], j, n)
        BY <2>13, <3>1 DEF At
      <4> QED BY <4>1, <3>1, <2>2, <2>8 DEF At
    <3>2. CASE k = "pending"
      <4>1. a \in Workers /\ HasCopy(pending'[a], j, n)
        BY <2>13, <3>2 DEF At
      <4> QED BY <4>1, <3>2, <2>6, <2>11 DEF At
    <3>3. CASE k \notin {"queue", "pending"}
      BY <3>3, <2>13, <2>7, <1>a, Frames
    <3> QED BY <3>1, <3>2, <3>3
  <2>14. CASE task.id = j
    <3>1. Says(jobs'[j], "pending", w, task.retry_count)
      BY <2>9, <2>14, <1>a, RowSays DEF Says
    <3> QED BY <3>1, <2>9, <2>12, <2>13, <2>14, Moved
  <2>15. CASE task.id # j
    BY <2>12, <2>13, <2>15, <1>a, Quiet
  <2> QED BY <2>14, <2>15
<1>2. CASE Crash(w)
  <2>1. /\ UNCHANGED queue
        /\ \A x \in Workers : pending'[x] = pending[x] \/ pending'[x] = <<>>
        /\ \A x \in Workers, u \in Threads : thread'[x][u] \in {thread[x][u], IdleThread}
    BY <1>2, <1>a DEF Crash, WorkerTypeOK
  <2>2. Once(j)'
    BY <2>1, <1>a, OnceFrame
  <2>3. ASSUME NEW k, NEW a, NEW n, At(j, k, a, n)'
        PROVE  At(j, k, a, n)
    <3>1. CASE k = "pending"
      BY <3>1, <2>1, <2>3 DEF At, HasCopy
    <3>2. CASE k \in {"running", "thread"}
      <4>1. PICK x \in Workers, u \in Threads : a = <<x, u>> /\ ThreadHas(x, u, k, j, n)'
        BY <2>3, <3>2 DEF At
      <4>2. thread'[x][u] # IdleThread
        BY <4>1, StoreAssumption DEF ThreadHas, IdleThread
      <4>3. ThreadHas(x, u, k, j, n)
        BY <4>1, <4>2, <2>1, <1>a DEF ThreadHas
      <4> QED BY <4>1, <4>3, <3>2 DEF At
    <3>3. CASE k \notin {"pending", "running", "thread"}
      BY <3>3, <2>1, <2>3, <1>a, Frames
    <3> QED BY <3>1, <3>2, <3>3
  <2> QED BY <2>2, <2>3, <1>a, Quiet
<1>3. CASE \/ Start(w) \/ LeaveLoop(w) \/ Shutdown(w) \/ Stop(w) \/ PopRaises(w)
           \/ ShutdownRaises(w) \/ Heartbeat(w) \/ Silence(w)
  <2>1. UNCHANGED <<queue, pending, thread>>
    BY <1>3 DEF Start, LeaveLoop, Shutdown, Stop, PopRaises, ShutdownRaises, Heartbeat, Silence
  <2>2. \A k, a, n : At(j, k, a, n)' => At(j, k, a, n)
    BY <2>1, <1>a, Frames
  <2> QED BY <2>1, <2>2, <1>a, OnceFrame, Quiet
<1> QED BY <1>1, <1>2, <1>3 DEF MainStep
-----------------------------------------------------------------------------
(* The API process *)

\* A job that is neither on its way nor being run is nowhere.
LEMMA NoCopy ==
  ASSUME NEW j, OneCopy(j), jobs[j].status \notin {"QUEUED", "RUNNING"}
  PROVE  \A k, a, n : ~At(j, k, a, n)
  BY RowSays

\* Who writes QUEUED into the row of a job that is nowhere has the only copy.
LEMMA FirstCopy ==
  ASSUME NEW j, Once(j)', NEW k0, NEW a0, NEW n0, k0 # "running",
         jobs'[j].status = "QUEUED", jobs'[j].retry_count = n0,
         \A k, a, n : At(j, k, a, n)' => k = k0 /\ a = a0 /\ n = n0
  PROVE  OneCopy(j)'
<1>1. Says(jobs'[j], k0, a0, n0)
  BY DEF Says
<1> QED BY <1>1, Handed

LEMMA WatchdogCopies ==
  ASSUME TypeOK, WatchdogStep, UNCHANGED <<worker, sch, client>>,
         WorkersFit, WatchdogFits,
         NEW j \in Jobs, OneCopy(j)
  PROVE  OneCopy(j)'
<1> USE DEF store, worker
<1>a. /\ jobs \in [Jobs -> Row] /\ wd \in WatchdogState /\ Once(j)
      /\ wd.pc \in {"refetch", "push"} => wd.id \in Jobs
  BY DEF TypeOK, StoreTypeOK, WatchdogTypeOK, WatchdogState, OneCopy
<1>b. UNCHANGED queue => Once(j)'
  BY <1>a, OnceFrame
<1>q. ASSUME UNCHANGED <<jobs, queue>>, \A n : HasInHand(wd', j, n) => HasInHand(wd, j, n)
      PROVE  OneCopy(j)'
  <2>1. ASSUME NEW k, NEW a, NEW n, At(j, k, a, n)'
        PROVE  At(j, k, a, n)
    <3>1. CASE k = "watchdog"
      <4>1. a = k /\ HasInHand(wd', j, n)
        BY <2>1, <3>1, <1>q DEF At, HasInHand
      <4> QED BY <4>1, <3>1, <1>q DEF At
    <3>2. CASE k # "watchdog"
      BY <3>2, <2>1, <1>q, Frames
    <3> QED BY <3>1, <3>2
  <2> QED BY <2>1, <1>b, <1>q, Quiet
<1>1. CASE CheckWorkers
  <2>1. wd'.pc = "mark" /\ UNCHANGED <<jobs, queue>>
    BY <1>1 DEF CheckWorkers, Asleep
  <2> QED BY <2>1, <1>q DEF HasInHand
<1>2. ASSUME NEW w \in Workers, MarkOffline(w)
      PROVE  OneCopy(j)'
  <2>1. wd'.pc = "select" /\ UNCHANGED <<jobs, queue>>
    BY <1>2, <1>a DEF MarkOffline, WatchdogState
  <2> QED BY <2>1, <1>q DEF HasInHand
<1>r. ASSUME NEW left PROVE Resume(left).pc \notin {"refetch", "push"}
  BY <1>a DEF Resume, WatchdogState, Asleep
<1>3. CASE SelectStuck
  <2>1. wd'.pc \notin {"refetch", "push"} /\ UNCHANGED <<jobs, queue>>
    BY <1>3, <1>r DEF SelectStuck
  <2> QED BY <2>1, <1>q DEF HasInHand
<1>4. ASSUME NEW i \in Jobs, RecoverJob(i)
      PROVE  OneCopy(j)'
  <2>1. /\ wd.pc = "recover" /\ wd'.pc = "refetch" /\ wd'.id = i /\ UNCHANGED queue
        /\ jobs[i].status = "RUNNING" /\ Gone(jobs[i].worker_id) /\ jobs[i].worker_id \in Workers
    BY <1>4, <1>a DEF RecoverJob, WatchdogState, WatchdogFits
  <2>2. CASE i = j
    <3>1. jobs'[j] = [jobs[j] EXCEPT !.status = "QUEUED", !.worker_id = NoWorker, !.started_at = FALSE]
      BY <1>4, <2>1, <2>2, <1>a DEF RecoverJob, update_job, Exists
    <3>2. jobs'[j].status = "QUEUED" /\ jobs'[j].retry_count = jobs[j].retry_count
      BY <3>1, <1>a DEF Row
    <3>3. ASSUME NEW k, NEW a, NEW n, At(j, k, a, n)
          PROVE  FALSE
      <4>1. k = "running" /\ a[1] = jobs[j].worker_id
        BY <3>3, <2>1, <2>2, RowSays
      <4>2. PICK w \in Workers, t \in Threads : a = <<w, t>> /\ ThreadHas(w, t, k, j, n)
        BY <3>3, <4>1 DEF At
      <4>3. thread[w][t] = IdleThread
        BY <4>1, <4>2, <2>1, <2>2 DEF WorkersFit, Gone
      <4> QED BY <4>2, <4>3, StoreAssumption DEF ThreadHas, IdleThread
    <3>4. ASSUME NEW k, NEW a, NEW n, At(j, k, a, n)'
          PROVE  k = "watchdog" /\ a = "watchdog" /\ n = jobs'[j].retry_count
      <4>1. CASE k = "watchdog"
        BY <4>1, <3>4, <2>1 DEF At, HasInHand
      <4>2. CASE k # "watchdog"
        BY <4>2, <3>4, <3>3, <2>1, Frames
      <4> QED BY <4>1, <4>2
    <3> QED BY <3>2, <3>4, <2>1, <1>b, FirstCopy
  <2>3. CASE i # j
    <3>1. jobs'[j] = jobs[j]
      BY <1>4, <1>a, <2>3, OtherRows DEF RecoverJob
    <3>2. ASSUME NEW k, NEW a, NEW n, At(j, k, a, n)'
          PROVE  At(j, k, a, n)
      <4>1. k # "watchdog"
        BY <3>2, <2>1, <2>3 DEF At, HasInHand
      <4> QED BY <4>1, <3>1, <3>2, <2>1, Frames
    <3> QED BY <3>1, <3>2, <2>1, <1>b, Quiet
  <2> QED BY <2>2, <2>3
<1>5. CASE RefetchStuck
  <2>1. /\ wd.pc = "refetch" /\ wd'.doc = get_job(wd.id) /\ wd.id \in Jobs
        /\ wd'.pc = "push" /\ UNCHANGED <<jobs, queue>>
    BY <1>5, <1>a DEF RefetchStuck, WatchdogState
  <2>2. \A n : HasInHand(wd', j, n) => HasInHand(wd, j, n)
    BY <2>1, StoreAssumption DEF HasInHand, get_job, NoDoc
  <2> QED BY <2>1, <2>2, <1>q
<1>6. CASE PushStuck
  <2> DEFINE p == PRIORITY_QUEUE_MAP[jobs[wd.id].priority]
             doc == wd.doc
  <2>1. wd.pc = "push" /\ push_or_raise(p, doc) /\ UNCHANGED <<jobs, pending>>
    BY <1>6 DEF PushStuck
  <2>2. p \in PriorityQueues /\ doc \in Doc
    BY <2>1, <1>a, MapType DEF WatchdogState, Row
  <2>3. doc.id = j => At(j, "watchdog", "watchdog", doc.retry_count)
    BY <2>1 DEF At, HasInHand
  <2>4. wd'.pc \notin {"refetch", "push"}
    BY <1>6, <1>r DEF PushStuck, Asleep
  <2>5. ASSUME NEW k, NEW a, NEW n, k # "queue" /\ At(j, k, a, n)'
        PROVE  At(j, k, a, n) /\ (doc.id = j => ~(k = "watchdog" /\ a = "watchdog"))
    <3>1. k # "watchdog"
      BY <2>4, <2>5 DEF At, HasInHand
    <3> QED BY <3>1, <2>1, <2>5, Frames
  <2>6. "watchdog" \notin {"queue", "running"}
    OBVIOUS
  <2>7. \A k, a, n : k # "queue" /\ At(j, k, a, n)' =>
          At(j, k, a, n) /\ (doc.id = j => ~(k = "watchdog" /\ a = "watchdog"))
    BY <2>5
  <2> HIDE DEF p, doc
  <2> QED BY <2>1, <2>2, <2>3, <2>6, <2>7, Pushed
<1> QED BY <1>1, <1>2, <1>3, <1>4, <1>5, <1>6 DEF WatchdogStep

LEMMA SchedulerCopies ==
  ASSUME TypeOK, SchedulerStep, UNCHANGED <<worker, wd, client>>,
         SchedulerFits, ScheduledAfresh,
         NEW j \in Jobs, OneCopy(j)
  PROVE  OneCopy(j)'
<1> USE DEF store, worker
<1>a. /\ jobs \in [Jobs -> Row] /\ sch \in SchedulerState /\ Once(j)
      /\ sch.pc = "push" => sch.doc.id \in Jobs
  BY DEF TypeOK, StoreTypeOK, SchedulerTypeOK, SchedulerState, Doc, OneCopy
<1>b. UNCHANGED queue => Once(j)'
  BY <1>a, OnceFrame
<1>1. CASE FindDue
  <2>1. sch'.pc = "fire" /\ UNCHANGED <<jobs, queue>>
    BY <1>1 DEF FindDue, NoPass
  <2>2. ASSUME NEW k, NEW a, NEW n, At(j, k, a, n)'
        PROVE  At(j, k, a, n)
    <3>1. k # "scheduler"
      BY <2>1, <2>2 DEF At
    <3> QED BY <3>1, <2>1, <2>2, Frames
  <2> QED BY <2>1, <2>2, <1>b, Quiet
<1>2. ASSUME NEW i \in Jobs, FireJob(i)
      PROVE  OneCopy(j)'
  <2>1. /\ sch'.pc = "push" /\ UNCHANGED queue
        /\ sch'.doc.id = i /\ sch'.doc.retry_count = 0
        /\ jobs[i].status = "SCHEDULED" /\ jobs[i].retry_count = 0
    BY <1>2 DEF FireJob, SchedulerFits, ScheduledAfresh
  <2>2. CASE i = j
    <3>1. jobs'[j] = [jobs[j] EXCEPT !.status = "QUEUED"]
      BY <1>2, <2>1, <2>2, <1>a DEF FireJob, update_job, Exists
    <3>2. jobs'[j].status = "QUEUED" /\ jobs'[j].retry_count = 0
      BY <3>1, <2>1, <2>2, <1>a DEF Row
    <3>3. \A k, a, n : ~At(j, k, a, n)
      BY <2>1, <2>2, NoCopy
    <3>4. ASSUME NEW k, NEW a, NEW n, At(j, k, a, n)'
          PROVE  k = "scheduler" /\ a = "scheduler" /\ n = 0
      <4>1. CASE k = "scheduler"
        BY <4>1, <3>4, <2>1 DEF At
      <4>2. CASE k # "scheduler"
        BY <4>2, <3>4, <3>3, <2>1, Frames
      <4> QED BY <4>1, <4>2
    <3> QED BY <3>2, <3>4, <2>1, <1>b, FirstCopy
  <2>3. CASE i # j
    <3>1. jobs'[j] = jobs[j]
      BY <1>2, <1>a, <2>3, OtherRows DEF FireJob
    <3>2. ASSUME NEW k, NEW a, NEW n, At(j, k, a, n)'
          PROVE  At(j, k, a, n)
      <4>1. k # "scheduler"
        BY <3>2, <2>1, <2>3 DEF At
      <4> QED BY <4>1, <3>1, <3>2, <2>1, Frames
    <3> QED BY <3>1, <3>2, <2>1, <1>b, Quiet
  <2> QED BY <2>2, <2>3
<1>3. CASE PushFired
  <2> DEFINE p == PRIORITY_QUEUE_MAP[jobs[sch.doc.id].priority]
             doc == sch.doc
  <2>1. sch.pc = "push" /\ push_or_raise(p, doc) /\ UNCHANGED <<jobs, pending>>
    BY <1>3 DEF PushFired
  <2>2. p \in PriorityQueues /\ doc \in Doc
    BY <2>1, <1>a, MapType DEF SchedulerState, Row
  <2>3. doc.id = j => At(j, "scheduler", "scheduler", doc.retry_count)
    BY <2>1 DEF At
  <2>4. sch'.pc # "push"
    BY <1>3, <1>a DEF PushFired, NoPass, SchedulerState
  <2>5. ASSUME NEW k, NEW a, NEW n, k # "queue" /\ At(j, k, a, n)'
        PROVE  At(j, k, a, n) /\ (doc.id = j => ~(k = "scheduler" /\ a = "scheduler"))
    <3>1. k # "scheduler"
      BY <2>4, <2>5 DEF At
    <3> QED BY <3>1, <2>1, <2>5, Frames
  <2>6. "scheduler" \notin {"queue", "running"}
    OBVIOUS
  <2>7. \A k, a, n : k # "queue" /\ At(j, k, a, n)' =>
          At(j, k, a, n) /\ (doc.id = j => ~(k = "scheduler" /\ a = "scheduler"))
    BY <2>5
  <2> HIDE DEF p, doc
  <2> QED BY <2>1, <2>2, <2>3, <2>6, <2>7, Pushed
<1> QED BY <1>1, <1>2, <1>3 DEF SchedulerStep
\* Requests that the hypothesis allows.
CarefulRequest(c) ==
  \/ \E i \in Jobs : \/ \E p \in SubmitPriorities : (\E r \in RunAts : SubmitNow(c, i, p, r))
                                                      \/ SubmitLater(c, i, p)
                     \/ CheckRetry(c, i)
  \/ PushJob(c) \/ RetryJob(c) \/ RefetchJob(c)

LEMMA ClientCopies ==
  ASSUME TypeOK, NEW c \in Clients, CarefulRequest(c),
         UNCHANGED <<worker, wd, sch>>, ClientsFit,
         NEW j \in Jobs, OneCopy(j)
  PROVE  OneCopy(j)'
<1> USE DEF store, worker
<1>a. /\ jobs \in [Jobs -> Row] /\ client \in [Clients -> ClientState] /\ Once(j)
      /\ client[c].pc # "idle" => client[c].id \in Jobs
  BY DEF TypeOK, StoreTypeOK, JobsApiTypeOK, ClientState, OneCopy
<1>b. UNCHANGED queue => Once(j)'
  BY <1>a, OnceFrame
<1>c. client[c] \in ClientState
  BY <1>a
\* Only the request c moves.
<1>f. ASSUME NEW new, client' = [client EXCEPT ![c] = new], NEW k, NEW a, NEW n, k # "queue",
             At(j, k, a, n)'
      PROVE  \/ /\ k = "client" /\ a = c
                /\ \/ new.pc = "refetch" /\ new.id = j /\ jobs'[j].retry_count = n
                   \/ new.pc = "push" /\ new.doc.id = j /\ new.doc.retry_count = n
             \/ /\ ~(k = "client" /\ a = c) /\ \E m : At(j, k, a, m)
                /\ jobs'[j].retry_count = jobs[j].retry_count => At(j, k, a, n)
  <2>1. CASE k = "client" /\ a = c
    <3>1. HasInHand(client[c], j, n)'
      BY <2>1, <1>f DEF At
    <3>2. client'[c] = new
      BY <1>f, <1>a
    <3> QED BY <2>1, <3>1, <3>2 DEF HasInHand
  <2>2. CASE k = "client" /\ a # c
    <3>1. a \in Clients /\ HasInHand(client[a], j, n)'
      BY <2>2, <1>f DEF At
    <3>2. client'[a] = client[a]
      BY <2>2, <3>1, <1>f, <1>a
    <3>3. \E m : HasInHand(client[a], j, m)
      BY <3>1, <3>2 DEF HasInHand
    <3>4. jobs'[j].retry_count = jobs[j].retry_count => HasInHand(client[a], j, n)
      BY <3>1, <3>2 DEF HasInHand
    <3> QED BY <2>2, <3>1, <3>3, <3>4 DEF At
  <2>3. CASE k # "client"
    BY <2>3, <1>f, Frames
  <2> QED BY <2>1, <2>2, <2>3
<1>1. ASSUME NEW i \in Jobs, NEW p \in SubmitPriorities, NEW r \in RunAts, SubmitNow(c, i, p, r)
      PROVE  OneCopy(j)'
  <2> DEFINE new == [pc |-> "push", id |-> i,
                     doc |-> [id |-> i, retry_count |-> 0, raw |-> FALSE]]
             row == NewRow("QUEUED", p, r = "past")
  <2>1. /\ client' = [client EXCEPT ![c] = new] /\ UNCHANGED queue
        /\ jobs[i].status = "UNUSED" /\ save_job(i, row)
    BY <1>1 DEF SubmitNow
  <2>2. new.pc = "push" /\ new.doc.id = i /\ new.doc.retry_count = 0
    OBVIOUS
  <2>3. row.status = "QUEUED" /\ row.retry_count = 0
    BY DEF NewRow
  <2> HIDE DEF new, row
  <2>4. CASE i = j
    <3>1. jobs'[j].status = "QUEUED" /\ jobs'[j].retry_count = 0
      BY <2>1, <2>3, <2>4, <1>a DEF save_job
    <3>2. \A k, a, n : ~At(j, k, a, n)
      BY <2>1, <2>4, NoCopy
    <3>3. ASSUME NEW k, NEW a, NEW n, At(j, k, a, n)'
          PROVE  k = "client" /\ a = c /\ n = 0
      <4>1. CASE k = "queue"
        BY <4>1, <3>2, <3>3, <2>1, Frames
      <4>2. CASE k # "queue"
        <5>1. \A m : ~At(j, k, a, m)
          BY <3>2
        <5>2. /\ k = "client" /\ a = c
              /\ \/ new.pc = "refetch" /\ new.id = j /\ jobs'[j].retry_count = n
                 \/ new.pc = "push" /\ new.doc.id = j /\ new.doc.retry_count = n
          BY <4>2, <5>1, <3>3, <2>1, <1>f
        <5> QED BY <5>2, <2>2
      <4> QED BY <4>1, <4>2
    <3> QED BY <3>1, <3>3, <2>1, <1>b, FirstCopy
  <2>5. CASE i # j
    <3>1. jobs'[j] = jobs[j]
      BY <2>1, <2>5, <1>a, OtherRows
    <3>2. ASSUME NEW k, NEW a, NEW n, At(j, k, a, n)'
          PROVE  At(j, k, a, n)
      <4>1. CASE k = "queue"
        BY <4>1, <3>1, <3>2, <2>1, Frames
      <4>2. CASE k # "queue"
        BY <4>2, <3>1, <3>2, <2>1, <2>2, <2>5, <1>f
      <4> QED BY <4>1, <4>2
    <3> QED BY <3>1, <3>2, <2>1, <1>b, Quiet
  <2> QED BY <2>4, <2>5
<1>2. ASSUME NEW i \in Jobs, NEW p \in SubmitPriorities, SubmitLater(c, i, p)
      PROVE  OneCopy(j)'
  <2>1. /\ jobs[i].status = "UNUSED" /\ save_job(i, NewRow("SCHEDULED", p, TRUE))
        /\ UNCHANGED <<queue, client>>
    BY <1>2 DEF SubmitLater
  <2>2. CASE i = j
    <3>1. \A k, a, n : ~At(j, k, a, n)
      BY <2>1, <2>2, NoCopy
    <3>2. ASSUME NEW k, NEW a, NEW n, At(j, k, a, n)'
          PROVE  FALSE
      BY <3>1, <3>2, <2>1, Frames
    <3> QED BY <3>2, <2>1, <1>b, Handed
  <2>3. CASE i # j
    <3>1. jobs'[j] = jobs[j]
      BY <2>1, <2>3, <1>a, OtherRows
    <3>2. ASSUME NEW k, NEW a, NEW n, At(j, k, a, n)'
          PROVE  At(j, k, a, n)
      BY <3>1, <3>2, <2>1, Frames
    <3> QED BY <3>1, <3>2, <2>1, <1>b, Quiet
  <2> QED BY <2>2, <2>3
<1>3. ASSUME NEW i \in Jobs, CheckRetry(c, i)
      PROVE  OneCopy(j)'
  <2> DEFINE new == [client[c] EXCEPT !.pc = "retry", !.id = i]
  <2>1. client' = [client EXCEPT ![c] = new] /\ UNCHANGED <<jobs, queue>>
    BY <1>3, <1>a DEF CheckRetry
  <2>2. new.pc = "retry"
    BY <1>c DEF ClientState
  <2> HIDE DEF new
  <2>3. ASSUME NEW k, NEW a, NEW n, At(j, k, a, n)'
        PROVE  At(j, k, a, n)
    <3>1. CASE k = "queue"
      BY <3>1, <2>1, <2>3, Frames
    <3>2. CASE k # "queue"
      BY <3>2, <2>1, <2>2, <2>3, <1>f
    <3> QED BY <3>1, <3>2
  <2> QED BY <2>1, <2>3, <1>b, Quiet
<1>4. CASE PushJob(c)
  <2> DEFINE p == PRIORITY_QUEUE_MAP[jobs[client[c].id].priority]
             doc == client[c].doc
  <2>1. /\ client[c].pc = "push" /\ push_or_raise(p, doc) /\ UNCHANGED <<jobs, pending>>
        /\ client' = [client EXCEPT ![c] = IdleClient]
    BY <1>4 DEF PushJob, Respond
  <2>2. p \in PriorityQueues /\ doc \in Doc
    BY <2>1, <1>a, <1>c, MapType DEF ClientState, Row
  <2>3. doc.id = j => At(j, "client", c, doc.retry_count)
    BY <2>1 DEF At, HasInHand
  <2>4. IdleClient.pc = "idle"
    BY DEF IdleClient
  <2>5. ASSUME NEW k, NEW a, NEW n, k # "queue" /\ At(j, k, a, n)'
        PROVE  At(j, k, a, n) /\ (doc.id = j => ~(k = "client" /\ a = c))
    BY <2>1, <2>4, <2>5, <1>f
  <2>6. "client" \notin {"queue", "running"}
    OBVIOUS
  <2>7. \A k, a, n : k # "queue" /\ At(j, k, a, n)' =>
          At(j, k, a, n) /\ (doc.id = j => ~(k = "client" /\ a = c))
    BY <2>5
  <2> HIDE DEF p, doc
  <2> QED BY <2>1, <2>2, <2>3, <2>6, <2>7, Pushed
<1>5. CASE RetryJob(c)
  <2> DEFINE i == client[c].id
             new == [client[c] EXCEPT !.pc = "refetch"]
  <2>1. /\ client[c].pc = "retry" /\ i \in Jobs /\ jobs[i].status = "DEAD" /\ UNCHANGED queue
        /\ client' = [client EXCEPT ![c] = new]
    BY <1>5, <1>a DEF RetryJob, ClientsFit
  <2>2. new.pc = "refetch" /\ new.id = i
    BY <1>c DEF ClientState
  <2> HIDE DEF new
  <2>3. CASE i = j
    <3>1. jobs'[j] = [jobs[j] EXCEPT !.status = "QUEUED", !.retry_count = 0,
                                     !.started_at = FALSE, !.completed_at = FALSE]
      BY <1>5, <2>1, <2>3, <1>a DEF RetryJob, update_job, Exists
    <3>2. jobs'[j].status = "QUEUED" /\ jobs'[j].retry_count = 0
      BY <3>1, <1>a DEF Row
    <3>3. \A k, a, n : ~At(j, k, a, n)
      BY <2>1, <2>3, NoCopy
    <3>4. ASSUME NEW k, NEW a, NEW n, At(j, k, a, n)'
          PROVE  k = "client" /\ a = c /\ n = 0
      <4>1. CASE k = "queue"
        BY <4>1, <3>3, <3>4, <2>1, Frames
      <4>2. CASE k # "queue"
        <5>1. \A m : ~At(j, k, a, m)
          BY <3>3
        <5>2. /\ k = "client" /\ a = c
              /\ \/ new.pc = "refetch" /\ new.id = j /\ jobs'[j].retry_count = n
                 \/ new.pc = "push" /\ new.doc.id = j /\ new.doc.retry_count = n
          BY <4>2, <5>1, <3>4, <2>1, <1>f
        <5> QED BY <5>2, <3>2, <2>2
      <4> QED BY <4>1, <4>2
    <3> QED BY <3>2, <3>4, <2>1, <1>b, FirstCopy
  <2>4. CASE i # j
    <3>1. jobs'[j] = jobs[j]
      BY <1>5, <1>a, <2>1, <2>4, OtherRows DEF RetryJob
    <3>2. ASSUME NEW k, NEW a, NEW n, At(j, k, a, n)'
          PROVE  At(j, k, a, n)
      <4>1. CASE k = "queue"
        BY <4>1, <3>1, <3>2, <2>1, Frames
      <4>2. CASE k # "queue"
        BY <4>2, <3>1, <3>2, <2>1, <2>2, <2>4, <1>f
      <4> QED BY <4>1, <4>2
    <3> QED BY <3>1, <3>2, <2>1, <1>b, Quiet
  <2> QED BY <2>3, <2>4
<1>6. CASE RefetchJob(c)
  <2> DEFINE new == [client[c] EXCEPT !.pc = "push", !.doc = get_job(client[c].id)]
  <2>1. /\ client[c].pc = "refetch" /\ UNCHANGED <<jobs, queue>>
        /\ client' = [client EXCEPT ![c] = new]
    BY <1>6, <1>a DEF RefetchJob
  <2>2. new.pc = "push" /\ new.doc = get_job(client[c].id)
    BY <1>c DEF ClientState
  <2> HIDE DEF new
  <2>3. ASSUME NEW n, new.doc.id = j, new.doc.retry_count = n
        PROVE  At(j, "client", c, n)
    BY <2>1, <2>2, <2>3, StoreAssumption DEF get_job, NoDoc, At, HasInHand
  <2>4. ASSUME NEW k, NEW a, NEW n, At(j, k, a, n)'
        PROVE  At(j, k, a, n)
    <3>1. CASE k = "queue"
      BY <3>1, <2>1, <2>4, Frames
    <3>2. CASE k # "queue"
      BY <3>2, <2>1, <2>2, <2>3, <2>4, <1>f
    <3> QED BY <3>1, <3>2
  <2> QED BY <2>1, <2>4, <1>b, Quiet
<1> QED BY <1>1, <1>2, <1>3, <1>4, <1>5, <1>6 DEF CarefulRequest

LEMMA OutageCopies ==
  ASSUME TypeOK, ApiCrash, NEW j \in Jobs, OneCopy(j)
  PROVE  OneCopy(j)'
<1>1. UNCHANGED <<jobs, queue, pending, thread>>
  BY DEF ApiCrash, worker
<1>2. wd'.pc = "sleep" /\ sch'.pc = "sleep" /\ \A c \in Clients : client'[c].pc = "idle"
  BY DEF ApiCrash, Asleep, NoPass, IdleClient
<1>3. ASSUME NEW k, NEW a, NEW n, At(j, k, a, n)'
      PROVE  At(j, k, a, n)
  <2>1. k \notin {"client", "watchdog", "scheduler"}
    BY <1>2, <1>3 DEF At, HasInHand
  <2> QED BY <2>1, <1>1, <1>3, Frames
<1> QED BY <1>1, <1>3, OnceFrame, Quiet DEF OneCopy
-----------------------------------------------------------------------------
(* What happens to the rows *)

Submitted(j, row) ==
  /\ jobs[j].status = "UNUSED"
  /\ \E s \in {"QUEUED", "SCHEDULED"}, p \in Priorities, b \in BOOLEAN : row = NewRow(s, p, b)

Fired(j, row) ==
  /\ jobs[j].status = "SCHEDULED" /\ row = [jobs[j] EXCEPT !.status = "QUEUED"]
  /\ j \notin sch'.due

PickedUp(j, row) ==
  /\ jobs[j].status = "QUEUED"
  /\ \E w \in Workers, t \in Threads :
       /\ row = [jobs[j] EXCEPT !.status = "RUNNING", !.worker_id = w, !.started_at = TRUE]
       /\ PickUp(w, t) /\ thread[w][t].id = j

\* What the thread that is at it does with the job.
Handled(j, row) ==
  /\ jobs[j].status = "RUNNING"
  /\ \E w \in Workers, t \in Threads :
       /\ jobs[j].worker_id = w /\ proc[w] # "down" /\ thread[w][t].id = j
       /\ \/ /\ row = [jobs[j] EXCEPT !.status = "COMPLETED", !.completed_at = TRUE]
             /\ Complete(w, t)
          \/ /\ jobs[j].retry_count + 1 < MAX_RETRIES
             /\ row = [jobs[j] EXCEPT !.status = "QUEUED", !.retry_count = jobs[j].retry_count + 1,
                                      !.started_at = FALSE]
             /\ RetryLater(w, t)
          \/ /\ jobs[j].retry_count + 1 >= MAX_RETRIES
             /\ row = [jobs[j] EXCEPT !.status = "DEAD", !.retry_count = jobs[j].retry_count + 1,
                                      !.completed_at = TRUE]
             /\ GiveUp(w, t)

Recovered(j, row) ==
  /\ jobs[j].status = "RUNNING"
  /\ row = [jobs[j] EXCEPT !.status = "QUEUED", !.worker_id = NoWorker, !.started_at = FALSE]
  /\ RecoverJob(j)

RetriedByHand(j, row) ==
  /\ jobs[j].status = "DEAD"
  /\ row = [jobs[j] EXCEPT !.status = "QUEUED", !.retry_count = 0,
                           !.started_at = FALSE, !.completed_at = FALSE]
  /\ \E c \in Clients : RetryJob(c) /\ client[c].id = j

RowStep(j, row) ==
  \/ Submitted(j, row) \/ Fired(j, row) \/ PickedUp(j, row) \/ Handled(j, row)
  \/ Recovered(j, row) \/ RetriedByHand(j, row)

\* The thread that is at a job has the row to itself.
LEMMA ThreadRows ==
  ASSUME TypeOK, WorkersFit, \A j \in Jobs : OneCopy(j),
         NEW w \in Workers, NEW t \in Threads, ThreadStep(w, t)
  PROVE  UNCHANGED jobs \/ \E j \in Jobs : \E row : RowStep(j, row) /\ jobs' = [jobs EXCEPT ![j] = row]
<1> USE DEF store, worker
<1> DEFINE self == thread[w][t]
           j == self.id
<1>a. WorkerTypeOK /\ jobs \in [Jobs -> Row]
  BY DEF TypeOK, StoreTypeOK
<1>b. self \in ThreadState /\ (self.pc # "idle" => j \in Jobs)
  BY <1>a, ThreadType
<1>c. self.pc # "idle" => proc[w] # "down"
  BY DEF WorkersFit, IdleThread
<1>1. CASE PickUp(w, t)
  <2>1. self.pc = "picked" /\ j \in Jobs
    BY <1>1, <1>b DEF PickUp
  <2>2. jobs[j].status = "QUEUED" /\ Exists(j)
    BY <2>1, ThreadRow
  <2>3. jobs' = [jobs EXCEPT ![j] = [jobs[j] EXCEPT !.status = "RUNNING", !.worker_id = w,
                                                    !.started_at = TRUE]]
    BY <1>1, <2>2 DEF PickUp, MarkRunning, update_job
  <2>4. RowStep(j, [jobs[j] EXCEPT !.status = "RUNNING", !.worker_id = w, !.started_at = TRUE])
    BY <1>1, <2>2 DEF RowStep, PickedUp
  <2> QED BY <2>1, <2>3, <2>4
<1>2. CASE Complete(w, t) \/ RetryLater(w, t) \/ GiveUp(w, t)
  <2>1. self.pc \in {"executing", "failing"} /\ j \in Jobs
    BY <1>2, <1>b DEF Complete, RetryLater, GiveUp
  <2>2. /\ jobs[j].status = "RUNNING" /\ Exists(j) /\ jobs[j].worker_id = w
        /\ jobs[j].retry_count = self.retry_count /\ proc[w] # "down"
    BY <2>1, <1>c, ThreadRow
  <2>3. CASE Complete(w, t)
    <3> DEFINE row == [jobs[j] EXCEPT !.status = "COMPLETED", !.completed_at = TRUE]
    <3>1. jobs' = [jobs EXCEPT ![j] = row]
      BY <2>2, <2>3 DEF Complete, update_job
    <3>2. RowStep(j, row)
      BY <2>2, <2>3 DEF RowStep, Handled
    <3> QED BY <3>1, <3>2, <2>1
  <2>4. CASE RetryLater(w, t)
    <3> DEFINE row == [jobs[j] EXCEPT !.status = "QUEUED", !.retry_count = jobs[j].retry_count + 1,
                                      !.started_at = FALSE]
    <3>1. jobs' = [jobs EXCEPT ![j] = row] /\ jobs[j].retry_count + 1 < MAX_RETRIES
      BY <2>2, <2>4 DEF RetryLater, update_job
    <3>2. RowStep(j, row)
      BY <2>2, <2>4, <3>1 DEF RowStep, Handled
    <3> QED BY <3>1, <3>2, <2>1
  <2>5. CASE GiveUp(w, t)
    <3> DEFINE row == [jobs[j] EXCEPT !.status = "DEAD", !.retry_count = jobs[j].retry_count + 1,
                                      !.completed_at = TRUE]
    <3>1. jobs' = [jobs EXCEPT ![j] = row] /\ jobs[j].retry_count + 1 >= MAX_RETRIES
      BY <2>2, <2>5 DEF GiveUp, update_job
    <3>2. RowStep(j, row)
      BY <2>2, <2>5, <3>1 DEF RowStep, Handled
    <3> QED BY <3>1, <3>2, <2>1
  <2> QED BY <1>2, <2>3, <2>4, <2>5
<1>3. CASE \/ StartTask(w, t) \/ DropNull(w, t) \/ ExecuteFails(w, t) \/ Count(w, t)
           \/ Refetch(w, t) \/ Requeue(w, t) \/ PushDLQ(w, t)
  BY <1>3 DEF StartTask, DropNull, ExecuteFails, Count, Refetch, Requeue, PushDLQ
<1> QED BY <1>1, <1>2, <1>3 DEF ThreadStep

LEMMA WatchdogRows ==
  ASSUME TypeOK, WatchdogFits, WatchdogStep
  PROVE  UNCHANGED jobs \/ \E j \in Jobs : \E row : RowStep(j, row) /\ jobs' = [jobs EXCEPT ![j] = row]
<1> USE DEF store
<1>1. ASSUME NEW j \in Jobs, RecoverJob(j)
      PROVE  \E row : RowStep(j, row) /\ jobs' = [jobs EXCEPT ![j] = row]
  <2> DEFINE row == [jobs[j] EXCEPT !.status = "QUEUED", !.worker_id = NoWorker, !.started_at = FALSE]
  <2>1. jobs[j].status = "RUNNING"
    BY <1>1 DEF RecoverJob, WatchdogFits
  <2>2. jobs' = [jobs EXCEPT ![j] = row]
    BY <1>1, <2>1 DEF RecoverJob, update_job, Exists
  <2>3. RowStep(j, row)
    BY <1>1, <2>1 DEF RowStep, Recovered
  <2> QED BY <2>2, <2>3
<1> QED BY <1>1 DEF WatchdogStep, CheckWorkers, MarkOffline, SelectStuck, RefetchStuck, PushStuck

LEMMA SchedulerRows ==
  ASSUME TypeOK, SchedulerFits, SchedulerStep
  PROVE  UNCHANGED jobs \/ \E j \in Jobs : \E row : RowStep(j, row) /\ jobs' = [jobs EXCEPT ![j] = row]
<1> USE DEF store
<1>1. ASSUME NEW j \in Jobs, FireJob(j)
      PROVE  \E row : RowStep(j, row) /\ jobs' = [jobs EXCEPT ![j] = row]
  <2> DEFINE row == [jobs[j] EXCEPT !.status = "QUEUED"]
  <2>1. jobs[j].status = "SCHEDULED" /\ j \notin sch'.due
    BY <1>1 DEF FireJob, SchedulerFits
  <2>2. jobs' = [jobs EXCEPT ![j] = row]
    BY <1>1, <2>1 DEF FireJob, update_job, Exists
  <2>3. RowStep(j, row)
    BY <2>1 DEF RowStep, Fired
  <2> QED BY <2>2, <2>3
<1> QED BY <1>1 DEF SchedulerStep, FindDue, PushFired

LEMMA ClientRows ==
  ASSUME TypeOK, ClientsFit, NEW c \in Clients, CarefulRequest(c)
  PROVE  UNCHANGED jobs \/ \E j \in Jobs : \E row : RowStep(j, row) /\ jobs' = [jobs EXCEPT ![j] = row]
<1> USE DEF store
<1>1. ASSUME NEW j \in Jobs, NEW p \in SubmitPriorities, NEW r \in RunAts, SubmitNow(c, j, p, r)
      PROVE  \E row : RowStep(j, row) /\ jobs' = [jobs EXCEPT ![j] = row]
  <2> DEFINE row == NewRow("QUEUED", p, r = "past")
  <2>1. Submitted(j, row)
    BY <1>1, JobsApiAssumption DEF SubmitNow, Submitted
  <2>2. jobs' = [jobs EXCEPT ![j] = row]
    BY <1>1 DEF SubmitNow, save_job
  <2> QED BY <2>1, <2>2 DEF RowStep
<1>2. ASSUME NEW j \in Jobs, NEW p \in SubmitPriorities, SubmitLater(c, j, p)
      PROVE  \E row : RowStep(j, row) /\ jobs' = [jobs EXCEPT ![j] = row]
  <2> DEFINE row == NewRow("SCHEDULED", p, TRUE)
  <2>1. Submitted(j, row)
    BY <1>2, JobsApiAssumption DEF SubmitLater, Submitted
  <2>2. jobs' = [jobs EXCEPT ![j] = row]
    BY <1>2 DEF SubmitLater, save_job
  <2> QED BY <2>1, <2>2 DEF RowStep
<1>3. CASE RetryJob(c)
  <2> DEFINE j == client[c].id
             row == [jobs[j] EXCEPT !.status = "QUEUED", !.retry_count = 0,
                                    !.started_at = FALSE, !.completed_at = FALSE]
  <2>1. jobs[j].status = "DEAD" /\ j \in Jobs
    BY <1>3 DEF RetryJob, ClientsFit, TypeOK, JobsApiTypeOK, ClientState
  <2>2. jobs' = [jobs EXCEPT ![j] = row]
    BY <1>3, <2>1 DEF RetryJob, update_job, Exists
  <2>3. RowStep(j, row)
    BY <1>3, <2>1 DEF RowStep, RetriedByHand
  <2> QED BY <2>1, <2>2, <2>3
<1>4. CASE (\E i \in Jobs : CheckRetry(c, i)) \/ PushJob(c) \/ RefetchJob(c)
  BY <1>4 DEF CheckRetry, PushJob, RefetchJob
<1> QED BY <1>1, <1>2, <1>3, <1>4 DEF CarefulRequest
-----------------------------------------------------------------------------
(* Only crashes *)

\* What a worker can do if it is only ever killed.
CarefulWorker(w) ==
  \/ Start(w) /\ workers[w].status = "NONE"
  \/ PopJob(w) \/ Crash(w) \/ Heartbeat(w)
  \/ Silence(w) /\ proc[w] = "down"
  \/ \E t \in Threads : ThreadStep(w, t)

LEMMA CarefulSteps ==
  ASSUME CrashesOnly, TypeOK, WorkersFit, ClientsFit, [Next]_vars
  PROVE  \/ (\E w \in Workers : CarefulWorker(w)) /\ UNCHANGED <<wd, sch, client>>
         \/ WatchdogStep /\ UNCHANGED <<worker, sch, client>>
         \/ SchedulerStep /\ UNCHANGED <<worker, wd, client>>
         \/ (\E c \in Clients : CarefulRequest(c)) /\ UNCHANGED <<worker, wd, sch>>
         \/ ApiCrash
         \/ UNCHANGED vars
<1>a. env \in Env
  BY DEF TypeOK, StoreTypeOK
<1>b. ~CallRaises
  BY <1>a DEF CallRaises, CrashesOnly, Env
<1>1. ASSUME NEW w \in Workers,
             \/ Start(w) \/ MainStep(w) \/ Stop(w) \/ PopRaises(w) \/ ShutdownRaises(w) \/ Crash(w)
             \/ Heartbeat(w) \/ Silence(w)
      PROVE  CarefulWorker(w)
  <2>1. ~Stop(w)
    BY <1>a DEF Stop, CrashesOnly, Env
  <2>2. ~PopRaises(w) /\ ~ShutdownRaises(w)
    BY <1>b DEF PopRaises, ShutdownRaises
  <2>3. ~LeaveLoop(w) /\ ~Shutdown(w)
    BY DEF LeaveLoop, Shutdown, WorkersFit
  <2>4. Silence(w) => proc[w] = "down"
    BY <1>a DEF Silence, Beating, WorkersFit, CrashesOnly, Env
  <2>5. Start(w) => workers[w].status = "NONE"
    BY DEF Start, CrashesOnly
  <2> QED BY <1>1, <2>1, <2>2, <2>3, <2>4, <2>5 DEF CarefulWorker, MainStep
<1>2. WorkerNext => \E w \in Workers : CarefulWorker(w)
  <2>1. ASSUME NEW w \in Workers, NEW t \in Threads,
               PickUpThenRaise(w, t) \/ CountRaises(w, t) \/ ThreadRaises(w, t)
        PROVE  FALSE
    BY <2>1, <1>b DEF PickUpThenRaise, CountRaises, ThreadRaises
  <2> QED BY <2>1, <1>1 DEF WorkerNext, CarefulWorker
<1>3. WatchdogNext => WatchdogStep
  BY <1>b DEF WatchdogNext, WatchdogRaises
<1>4. SchedulerNext => SchedulerStep
  BY <1>b DEF SchedulerNext, SchedulerRaises
<1>5. JobsApiNext => \E c \in Clients : CarefulRequest(c)
  <2>1. ASSUME NEW c \in Clients
        PROVE  ~CancelJob(c) /\ ~DeleteJob(c) /\ ~ClientRaises(c)
               /\ \A j \in Jobs : ~CheckCancel(c, j) /\ ~CheckDelete(c, j)
    <3>1. ~CancelJob(c) /\ ~DeleteJob(c)
      BY DEF CancelJob, DeleteJob, ClientsFit
    <3>2. ~ClientRaises(c)
      BY <1>b DEF ClientRaises
    <3>3. \A j \in Jobs : ~CheckCancel(c, j) /\ ~CheckDelete(c, j)
      BY DEF CheckCancel, CheckDelete, CrashesOnly
    <3> QED BY <3>1, <3>2, <3>3
  <2> QED BY <2>1 DEF JobsApiNext, HandlerStep, CarefulRequest
<1> QED BY <1>2, <1>3, <1>4, <1>5 DEF Next

\* At most one row changes, along one of the arrows.
LEMMA RowSteps ==
  ASSUME CrashesOnly, TypeOK, CrashInv, [Next]_vars
  PROVE  UNCHANGED jobs \/ \E j \in Jobs : \E row : RowStep(j, row) /\ jobs' = [jobs EXCEPT ![j] = row]
<1> USE DEF store, worker
<1>a. /\ WorkersFit /\ WatchdogFits /\ SchedulerFits /\ ClientsFit
      /\ \A j \in Jobs : OneCopy(j)
  BY DEF CrashInv
<1>1. ASSUME NEW w \in Workers, CarefulWorker(w)
      PROVE  UNCHANGED jobs \/ \E j \in Jobs : \E row : RowStep(j, row) /\ jobs' = [jobs EXCEPT ![j] = row]
  <2>1. ASSUME NEW t \in Threads, ThreadStep(w, t)
        PROVE  UNCHANGED jobs \/ \E j \in Jobs : \E row : RowStep(j, row) /\ jobs' = [jobs EXCEPT ![j] = row]
    BY <2>1, <1>a, ThreadRows
  <2>2. CASE Start(w) \/ PopJob(w) \/ Crash(w) \/ Heartbeat(w) \/ Silence(w)
    BY <2>2 DEF Start, PopJob, Crash, Heartbeat, Silence
  <2> QED BY <1>1, <2>1, <2>2 DEF CarefulWorker
<1>2. CASE ApiCrash \/ UNCHANGED vars
  BY <1>2 DEF ApiCrash, vars
<1> QED BY <1>a, <1>1, <1>2, CarefulSteps, WatchdogRows, SchedulerRows, ClientRows

\* What that makes of one row.
LEMMA OneRow ==
  ASSUME CrashesOnly, TypeOK, CrashInv, [Next]_vars, NEW j \in Jobs
  PROVE  jobs'[j] = jobs[j] \/ RowStep(j, jobs'[j])
<1>1. jobs \in [Jobs -> Row]
  BY DEF TypeOK, StoreTypeOK
<1> QED BY <1>1, RowSteps

LEMMA CopiesStep ==
  ASSUME CrashesOnly, QueueInv, CrashInv, [Next]_vars, NEW j \in Jobs
  PROVE  OneCopy(j)'
<1> USE DEF store, worker
<1>a. /\ WorkersFit /\ WatchdogFits /\ SchedulerFits /\ ClientsFit /\ ScheduledAfresh
      /\ OneCopy(j) /\ TypeOK /\ DocsFit
  BY DEF CrashInv, QueueInv
<1>b. DocsFit'
  BY QueueInvStep DEF QueueInv
<1>1. ASSUME NEW w \in Workers, CarefulWorker(w), UNCHANGED <<wd, sch, client>>
      PROVE  OneCopy(j)'
  <2>1. ASSUME NEW t \in Threads, ThreadStep(w, t)
        PROVE  OneCopy(j)'
    <3>1. CASE StartTask(w, t) \/ DropNull(w, t) \/ Requeue(w, t) \/ PushDLQ(w, t)
      BY <3>1, <1>1, <1>a, TaskCopies
    <3>2. CASE \/ PickUp(w, t) \/ Complete(w, t) \/ ExecuteFails(w, t) \/ Count(w, t)
               \/ RetryLater(w, t) \/ Refetch(w, t) \/ GiveUp(w, t)
      BY <3>2, <1>1, <1>a, <1>b, ThreadCopies
    <3> QED BY <2>1, <3>1, <3>2 DEF ThreadStep
  <2>2. CASE Start(w) \/ PopJob(w) \/ Crash(w) \/ Heartbeat(w) \/ Silence(w)
    BY <2>2, <1>1, <1>a, ProcessCopies DEF MainStep
  <2> QED BY <1>1, <2>1, <2>2 DEF CarefulWorker
<1>2. CASE WatchdogStep /\ UNCHANGED <<worker, sch, client>>
  BY <1>2, <1>a, WatchdogCopies
<1>3. CASE SchedulerStep /\ UNCHANGED <<worker, wd, client>>
  BY <1>3, <1>a, SchedulerCopies
<1>4. ASSUME NEW c \in Clients, CarefulRequest(c), UNCHANGED <<worker, wd, sch>>
      PROVE  OneCopy(j)'
  BY <1>4, <1>a, ClientCopies
<1>5. CASE ApiCrash
  BY <1>5, <1>a, OutageCopies
<1>6. CASE UNCHANGED vars
  <2>1. UNCHANGED <<jobs, queue, pending, thread, wd, sch, client>>
    BY <1>6 DEF vars
  <2>2. \A k, a, n : At(j, k, a, n)' => At(j, k, a, n)
    BY <2>1, Frames
  <2> QED BY <2>1, <2>2, <1>a, OnceFrame, Quiet DEF OneCopy
<1> QED BY <1>a, <1>1, <1>2, <1>3, <1>4, <1>5, <1>6, CarefulSteps
-----------------------------------------------------------------------------
(* The rest of the invariant is kept *)

LEMMA WorkersFitStep ==
  ASSUME CrashesOnly, TypeOK, CrashInv, [Next]_vars
  PROVE  WorkersFit' /\ \A w \in Workers : Gone(w) => Gone(w)'
<1> USE DEF store, worker
<1>a. /\ WorkersFit /\ WatchdogFits /\ ClientsFit /\ WorkerTypeOK
      /\ workers \in [Workers -> WorkerRow] /\ wd \in WatchdogState
  BY DEF CrashInv, TypeOK, StoreTypeOK, WatchdogTypeOK
<1>q. ASSUME UNCHANGED <<proc, running, pending, thread, workers>>
      PROVE  WorkersFit' /\ \A w \in Workers : Gone(w) => Gone(w)'
  BY <1>q, <1>a DEF WorkersFit, Gone
<1>1. ASSUME NEW w \in Workers, CarefulWorker(w)
      PROVE  WorkersFit' /\ \A x \in Workers : Gone(x) => Gone(x)'
  <2>1. CASE Start(w) /\ workers[w].status = "NONE"
    <3>1. /\ proc' = [proc EXCEPT ![w] = "polling"] /\ running' = [running EXCEPT ![w] = TRUE]
          /\ workers' = [workers EXCEPT ![w].status = "ONLINE", ![w].fresh = TRUE]
          /\ UNCHANGED <<pending, thread>> /\ workers[w].status = "NONE"
      BY <2>1 DEF Start
    <3>2. \A x \in Workers : x # w => /\ proc'[x] = proc[x] /\ running'[x] = running[x]
                                      /\ workers'[x] = workers[x]
      BY <3>1, <1>a DEF WorkerTypeOK
    <3>3. proc'[w] = "polling" /\ running'[w] /\ workers'[w].status = "ONLINE" /\ workers'[w].fresh
      BY <3>1, <1>a DEF WorkerTypeOK, WorkerRow
    <3> QED BY <3>1, <3>2, <3>3, <1>a DEF WorkersFit, Gone
  <2>2. CASE PopJob(w)
    <3>1. proc[w] = "polling" /\ UNCHANGED <<workers, running, thread>>
          /\ \A x \in Workers : x # w => pending'[x] = pending[x]
      BY <2>2, <1>a DEF PopJob, WorkerTypeOK
    <3>2. running[w]
      BY <3>1, <1>a DEF WorkersFit
    <3>3. proc' = proc
      BY <2>2, <3>1, <3>2, <1>a DEF PopJob, WorkerTypeOK
    <3> QED BY <3>1, <3>3, <1>a DEF WorkersFit, Gone
  <2>3. CASE Crash(w)
    <3>1. /\ proc' = [proc EXCEPT ![w] = "down"] /\ running' = [running EXCEPT ![w] = FALSE]
          /\ pending' = [pending EXCEPT ![w] = <<>>] /\ UNCHANGED workers
          /\ thread' = [thread EXCEPT ![w] = [t \in Threads |-> IdleThread]]
      BY <2>3 DEF Crash
    <3>2. \A x \in Workers : x # w => /\ proc'[x] = proc[x] /\ running'[x] = running[x]
                                      /\ pending'[x] = pending[x] /\ thread'[x] = thread[x]
      BY <3>1, <1>a DEF WorkerTypeOK
    <3>3. /\ proc'[w] = "down" /\ pending'[w] = <<>>
          /\ \A t \in Threads : thread'[w][t] = IdleThread
      BY <3>1, <1>a DEF WorkerTypeOK
    <3> QED BY <3>1, <3>2, <3>3, <1>a DEF WorkersFit, Gone
  <2>4. CASE Heartbeat(w)
    BY <2>4, <1>a DEF Heartbeat, Beating, WorkersFit
  <2>5. CASE Silence(w) /\ proc[w] = "down"
    <3>1. /\ UNCHANGED <<proc, running, pending, thread>> /\ proc[w] = "down"
          /\ workers' = [workers EXCEPT ![w].fresh = FALSE]
      BY <2>5 DEF Silence
    <3>2. \A x \in Workers : x # w => workers'[x] = workers[x]
      BY <3>1, <1>a
    <3>3. workers'[w].status = workers[w].status
      BY <3>1, <1>a DEF WorkerRow
    <3> QED BY <3>1, <3>2, <3>3, <1>a DEF WorkersFit, Gone
  <2>6. ASSUME NEW t \in Threads, ThreadStep(w, t)
        PROVE  WorkersFit' /\ \A x \in Workers : Gone(x) => Gone(x)'
    <3>1. proc[w] # "down"
      <4>1. thread[w][t] # IdleThread \/ pending[w] # <<>>
        BY <2>6 DEF ThreadStep, StartTask, DropNull, PickUp, Complete, ExecuteFails, Count,
           RetryLater, Refetch, Requeue, GiveUp, PushDLQ, IdleThread
      <4> QED BY <4>1, <1>a DEF WorkersFit
    <3>2. /\ UNCHANGED <<proc, running>>
          /\ \A x \in Workers : /\ x # w => pending'[x] = pending[x] /\ thread'[x] = thread[x]
                                /\ workers'[x].status = workers[x].status
                                /\ workers'[x].fresh = workers[x].fresh
      <4>1. \A x \in Workers : /\ workers'[x].status = workers[x].status
                               /\ workers'[x].fresh = workers[x].fresh
        BY <2>6, <1>a DEF ThreadStep, StartTask, DropNull, PickUp, Complete, ExecuteFails, Count,
           RetryLater, Refetch, Requeue, GiveUp, PushDLQ, increment_jobs_processed, WorkerRow
      <4>2. UNCHANGED <<proc, running>>
        BY <2>6 DEF ThreadStep, StartTask, DropNull, PickUp, Complete, ExecuteFails, Count,
           RetryLater, Refetch, Requeue, GiveUp, PushDLQ
      <4>3. \A x \in Workers : x # w => pending'[x] = pending[x]
        BY <2>6, <1>a DEF ThreadStep, StartTask, DropNull, PickUp, Complete, ExecuteFails, Count,
           RetryLater, Refetch, Requeue, GiveUp, PushDLQ, WorkerTypeOK
      <4>4. \A x \in Workers : x # w => thread'[x] = thread[x]
        BY <2>6, <1>a DEF ThreadStep, StartTask, DropNull, PickUp, Complete, ExecuteFails, Count,
           RetryLater, Refetch, Requeue, GiveUp, PushDLQ, Goto, Finish, WorkerTypeOK
      <4> QED BY <4>1, <4>2, <4>3, <4>4
    <3> QED BY <3>1, <3>2, <1>a DEF WorkersFit, Gone
  <2> QED BY <1>1, <2>1, <2>2, <2>3, <2>4, <2>5, <2>6 DEF CarefulWorker
<1>2. CASE WatchdogStep /\ UNCHANGED worker
  <2>1. ASSUME NEW w \in Workers, MarkOffline(w)
        PROVE  WorkersFit' /\ \A x \in Workers : Gone(x) => Gone(x)'
    <3>1. workers' = [workers EXCEPT ![w].status = "OFFLINE"] /\ proc[w] = "down"
      BY <2>1, <1>a DEF MarkOffline, mark_worker_offline, WatchdogFits, Gone
    <3>2. \A x \in Workers : x # w => workers'[x] = workers[x]
      BY <3>1, <1>a
    <3>3. workers'[w].status = "OFFLINE"
      BY <3>1, <1>a DEF WorkerRow
    <3> QED BY <3>1, <3>2, <3>3, <1>2, <1>a DEF WorkersFit, Gone
  <2>2. CASE \/ CheckWorkers \/ SelectStuck \/ (\E j \in Jobs : RecoverJob(j))
             \/ RefetchStuck \/ PushStuck
    BY <1>2, <2>2, <1>q DEF CheckWorkers, SelectStuck, RecoverJob, RefetchStuck, PushStuck
  <2> QED BY <1>2, <2>1, <2>2 DEF WatchdogStep
<1>3. CASE SchedulerStep /\ UNCHANGED worker
  BY <1>3, <1>q DEF SchedulerStep, FindDue, FireJob, PushFired
<1>4. ASSUME NEW c \in Clients, CarefulRequest(c), UNCHANGED worker
      PROVE  WorkersFit' /\ \A w \in Workers : Gone(w) => Gone(w)'
  BY <1>4, <1>q DEF CarefulRequest, SubmitNow, SubmitLater, CheckRetry, PushJob, RetryJob, RefetchJob
<1>5. CASE ApiCrash \/ UNCHANGED vars
  BY <1>5, <1>q DEF ApiCrash, vars
<1> QED BY <1>a, <1>1, <1>2, <1>3, <1>4, <1>5, CarefulSteps
\* A job the watchdog has yet to recover is left alone by everybody else.
LEMMA StuckStays ==
  ASSUME CrashesOnly, TypeOK, CrashInv, [Next]_vars, NEW j \in Jobs, j \in wd.stuck, j \in wd'.stuck
  PROVE  jobs'[j] = jobs[j]
<1>1. jobs[j].status = "RUNNING" /\ Gone(jobs[j].worker_id)
  BY DEF CrashInv, WatchdogFits
<1>2. ~RecoverJob(j)
  BY DEF RecoverJob, TypeOK, WatchdogTypeOK, WatchdogState
<1>3. ~RowStep(j, jobs'[j])
  BY <1>1, <1>2 DEF RowStep, Submitted, Fired, PickedUp, Handled, Recovered, RetriedByHand, Gone
<1> QED BY <1>3, OneRow

LEMMA WatchdogFitsStep ==
  ASSUME CrashesOnly, TypeOK, CrashInv, [Next]_vars
  PROVE  WatchdogFits'
<1> USE DEF store, worker
<1>a. /\ WorkersFit /\ WatchdogFits /\ ClientsFit /\ wd \in WatchdogState
      /\ workers \in [Workers -> WorkerRow]
  BY DEF CrashInv, TypeOK, StoreTypeOK, WatchdogTypeOK
<1>g. \A w \in Workers : Gone(w) => Gone(w)'
  BY WorkersFitStep
<1>s. ASSUME NEW j \in Jobs, j \in wd.stuck, j \in wd'.stuck
      PROVE  jobs'[j].status = "RUNNING" /\ jobs'[j].worker_id = wd.worker
  BY <1>s, <1>a, StuckStays DEF WatchdogFits
<1>n. NoWorker \notin Workers
  BY StoreAssumption
<1>q. ASSUME UNCHANGED wd
      PROVE  WatchdogFits'
  BY <1>q, <1>a, <1>g, <1>s DEF WatchdogFits, WatchdogState
<1>z. ASSUME wd' = Asleep
      PROVE  WatchdogFits'
  BY <1>z, <1>n DEF WatchdogFits, Asleep
\* Whatever is left, the pass goes on with rows of the same worker.
<1>r. ASSUME NEW left \in SUBSET Jobs, wd' = Resume(left), wd.worker \in Workers,
             \A j \in left : jobs'[j].status = "RUNNING" /\ jobs'[j].worker_id = wd.worker
      PROVE  WatchdogFits'
  <2>1. CASE left # {}
    <3>1. wd' = [wd EXCEPT !.pc = "recover", !.stuck = left, !.id = NoJob, !.doc = NoDoc]
      BY <1>r, <2>1 DEF Resume
    <3>2. wd'.worker = wd.worker /\ wd'.stuck = left /\ wd'.due = wd.due /\ wd'.pc = "recover"
      BY <3>1, <1>a DEF WatchdogState
    <3> QED BY <3>2, <1>a, <1>g, <1>r DEF WatchdogFits, WatchdogState
  <2>2. CASE left = {} /\ wd.due # {}
    <3>1. wd' = [Asleep EXCEPT !.pc = "mark", !.due = wd.due]
      BY <1>r, <2>2 DEF Resume
    <3>2. wd'.worker = NoWorker /\ wd'.stuck = {} /\ wd'.due = wd.due /\ wd'.pc = "mark"
      BY <3>1 DEF Asleep
    <3> QED BY <3>2, <1>a, <1>g, <1>n DEF WatchdogFits, WatchdogState
  <2>3. CASE left = {} /\ wd.due = {}
    BY <1>r, <1>z, <2>3 DEF Resume
  <2> QED BY <2>1, <2>2, <2>3
<1>1. CASE CheckWorkers
  <2> DEFINE late == {w \in Workers : workers[w].status = "ONLINE" /\ ~workers[w].fresh}
  <2>1. wd' = [Asleep EXCEPT !.pc = "mark", !.due = late]
    BY <1>1 DEF CheckWorkers
  <2>2. wd'.worker = NoWorker /\ wd'.stuck = {} /\ wd'.due = late /\ wd'.pc = "mark"
    BY <2>1 DEF Asleep
  <2>3. \A w \in late : Gone(w)
    BY <1>a DEF WorkersFit, Gone
  <2> QED BY <2>2, <2>3, <1>g, <1>n DEF WatchdogFits
<1>2. ASSUME NEW w \in Workers, MarkOffline(w)
      PROVE  WatchdogFits'
  <2>1. /\ w \in wd.due /\ UNCHANGED jobs /\ wd.pc = "mark"
        /\ wd' = [wd EXCEPT !.pc = "select", !.due = wd.due \ {w}, !.worker = w]
    BY <1>2 DEF MarkOffline
  <2>2. wd'.worker = w /\ wd'.stuck = wd.stuck /\ wd'.due = wd.due \ {w}
    BY <2>1, <1>a DEF WatchdogState
  <2>3. wd.stuck = {}
    BY <2>1, <1>a DEF WatchdogFits
  <2> QED BY <2>1, <2>2, <2>3, <1>a, <1>g DEF WatchdogFits, WatchdogState
<1>3. CASE SelectStuck
  <2> DEFINE left == {j \in Jobs : jobs[j].status = "RUNNING" /\ jobs[j].worker_id = wd.worker}
  <2>1. wd' = Resume(left) /\ UNCHANGED jobs /\ wd.worker \in Workers
    BY <1>3, <1>a DEF SelectStuck, WatchdogFits
  <2>2. \A j \in left : jobs'[j].status = "RUNNING" /\ jobs'[j].worker_id = wd.worker
    BY <2>1
  <2>3. left \in SUBSET Jobs
    OBVIOUS
  <2> HIDE DEF left
  <2> QED BY <2>1, <2>2, <2>3, <1>r
<1>4. ASSUME NEW i \in Jobs, RecoverJob(i)
      PROVE  WatchdogFits'
  <2>1. wd' = [wd EXCEPT !.pc = "refetch", !.stuck = wd.stuck \ {i}, !.id = i] /\ wd.pc = "recover"
    BY <1>4 DEF RecoverJob
  <2>2. wd'.worker = wd.worker /\ wd'.stuck = wd.stuck \ {i} /\ wd'.due = wd.due
    BY <2>1, <1>a DEF WatchdogState
  <2> QED BY <2>1, <2>2, <1>a, <1>g, <1>s DEF WatchdogFits, WatchdogState
<1>5. CASE RefetchStuck
  <2>1. wd' = [wd EXCEPT !.pc = "push", !.doc = get_job(wd.id)] /\ wd.pc = "refetch"
    BY <1>5 DEF RefetchStuck
  <2>2. wd'.worker = wd.worker /\ wd'.stuck = wd.stuck /\ wd'.due = wd.due
    BY <2>1, <1>a DEF WatchdogState
  <2> QED BY <2>1, <2>2, <1>a, <1>g, <1>s DEF WatchdogFits, WatchdogState
<1>6. CASE PushStuck
  <2>1. UNCHANGED jobs /\ (wd' = Asleep \/ wd' = Resume(wd.stuck)) /\ wd.worker \in Workers
    BY <1>6, <1>a DEF PushStuck, WatchdogFits
  <2>2. wd.stuck \in SUBSET Jobs
    BY <1>a DEF WatchdogState
  <2>3. \A j \in wd.stuck : jobs'[j].status = "RUNNING" /\ jobs'[j].worker_id = wd.worker
    BY <2>1, <1>a DEF WatchdogFits
  <2> QED BY <2>1, <2>2, <2>3, <1>r, <1>z
<1>7. CASE ApiCrash
  BY <1>7, <1>z DEF ApiCrash
<1>8. CASE UNCHANGED vars
  BY <1>8, <1>q DEF vars
<1> QED BY <1>a, <1>1, <1>2, <1>3, <1>4, <1>5, <1>6, <1>7, <1>8, <1>q, CarefulSteps DEF WatchdogStep
LEMMA SchedulerFitsStep ==
  ASSUME CrashesOnly, TypeOK, CrashInv, [Next]_vars
  PROVE  SchedulerFits'
<1> USE DEF store, worker
<1>a. WorkersFit /\ ClientsFit /\ SchedulerFits /\ sch \in SchedulerState /\ jobs \in [Jobs -> Row]
  BY DEF CrashInv, TypeOK, StoreTypeOK, SchedulerTypeOK
<1>1. CASE FindDue
  <2>1. UNCHANGED jobs /\ \A j \in sch'.due : jobs[j].status = "SCHEDULED"
    BY <1>1 DEF FindDue, NoPass
  <2> QED BY <2>1 DEF SchedulerFits
<1>2. CASE sch'.due \subseteq sch.due
  <2> SUFFICES ASSUME NEW j \in sch'.due
               PROVE  jobs'[j].status = "SCHEDULED"
    BY DEF SchedulerFits
  <2>1. j \in Jobs /\ jobs[j].status = "SCHEDULED"
    BY <1>2, <1>a DEF SchedulerFits, SchedulerState
  <2>2. ~RowStep(j, jobs'[j])
    BY <2>1 DEF RowStep, Submitted, Fired, PickedUp, Handled, Recovered, RetriedByHand
  <2> QED BY <2>1, <2>2, OneRow
<1>3. sch'.due \subseteq sch.due \/ FindDue
  <2>1. ASSUME NEW j \in Jobs, FireJob(j)
        PROVE  sch'.due \subseteq sch.due
    BY <2>1 DEF FireJob
  <2>2. CASE PushFired
    BY <2>2, <1>a DEF PushFired, NoPass, SchedulerState
  <2>3. CASE ApiCrash
    BY <2>3 DEF ApiCrash, NoPass
  <2> QED BY <2>1, <2>2, <2>3, <1>a, CarefulSteps DEF SchedulerStep, vars
<1> QED BY <1>1, <1>2, <1>3

LEMMA ClientsFitStep ==
  ASSUME CrashesOnly, TypeOK, CrashInv, [Next]_vars
  PROVE  ClientsFit'
<1> USE DEF store, worker
<1>a. /\ WorkersFit /\ ClientsFit /\ client \in [Clients -> ClientState] /\ jobs \in [Jobs -> Row]
      /\ \A c \in Clients : client[c].pc # "idle" => client[c].id \in Jobs
  BY DEF CrashInv, TypeOK, StoreTypeOK, JobsApiTypeOK, ClientState
<1>b. ASSUME NEW d \in Clients, client'[d] = client[d], ~RetryJob(d)
      PROVE  /\ client'[d].pc \notin {"cancel", "delete"}
             /\ client'[d].pc = "retry" => jobs'[client'[d].id].status = "DEAD"
  <2> SUFFICES ASSUME client[d].pc = "retry"
               PROVE  jobs'[client[d].id].status = "DEAD"
    BY <1>a, <1>b DEF ClientsFit
  <2> DEFINE j == client[d].id
  <2>1. j \in Jobs /\ jobs[j].status = "DEAD"
    BY <1>a DEF ClientsFit
  <2>2. ASSUME NEW c \in Clients
        PROVE  ~RetryJob(c)
    <3>1. c = d
      BY DEF CrashesOnly
    <3> QED BY <3>1, <1>b
  <2>3. ~RowStep(j, jobs'[j])
    BY <2>1, <2>2 DEF RowStep, Submitted, Fired, PickedUp, Handled, Recovered, RetriedByHand
  <2> QED BY <2>1, <2>3, OneRow
<1>c. ASSUME NEW d \in Clients
      PROVE  \/ client'[d] = client[d] /\ ~RetryJob(d)
             \/ client'[d].pc \in {"idle", "push", "refetch"}
             \/ client'[d].pc = "retry" /\ jobs'[client'[d].id].status = "DEAD"
  <2>a. client[d] \in ClientState
    BY <1>a
  <2>1. CASE UNCHANGED client
    <3>1. ~RetryJob(d)
      BY <2>1, <2>a, <1>a DEF RetryJob, ClientState
    <3> QED BY <2>1, <3>1
  <2>2. ASSUME NEW c \in Clients, CarefulRequest(c)
        PROVE  \/ client'[d] = client[d] /\ ~RetryJob(d)
               \/ client'[d].pc \in {"idle", "push", "refetch"}
               \/ client'[d].pc = "retry" /\ jobs'[client'[d].id].status = "DEAD"
    <3>1. c = d
      BY DEF CrashesOnly
    <3>2. ASSUME NEW i \in Jobs, CheckRetry(c, i)
          PROVE  client'[d].pc = "retry" /\ jobs'[client'[d].id].status = "DEAD"
      <4>1. client'[d] = [client[d] EXCEPT !.pc = "retry", !.id = i]
        BY <3>1, <3>2, <1>a DEF CheckRetry
      <4>2. client'[d].pc = "retry" /\ client'[d].id = i
        BY <4>1, <2>a DEF ClientState
      <4> QED BY <4>2, <3>2 DEF CheckRetry
    <3>3. CASE RefetchJob(c)
      BY <3>3, <3>1, <2>a, <1>a DEF RefetchJob, ClientState
    <3>4. CASE RetryJob(c)
      BY <3>4, <3>1, <2>a, <1>a DEF RetryJob, ClientState
    <3>5. CASE PushJob(c)
      BY <3>5, <3>1, <1>a DEF PushJob, Respond, IdleClient
    <3>6. ASSUME NEW i \in Jobs, NEW p \in SubmitPriorities, NEW r \in RunAts,
                 SubmitNow(c, i, p, r)
          PROVE  client'[d].pc \in {"idle", "push", "refetch"}
      BY <3>6, <3>1, <1>a DEF SubmitNow
    <3>7. ASSUME NEW i \in Jobs, NEW p \in SubmitPriorities, SubmitLater(c, i, p)
          PROVE  client'[d] = client[d] /\ ~RetryJob(d)
      BY <3>7, <3>1, <1>a DEF SubmitLater, RetryJob
    <3> QED BY <2>2, <3>2, <3>3, <3>4, <3>5, <3>6, <3>7 DEF CarefulRequest
  <2>3. CASE ApiCrash
    BY <2>3 DEF ApiCrash, IdleClient
  <2> QED BY <2>1, <2>2, <2>3, <1>a, CarefulSteps DEF vars
<1> QED BY <1>b, <1>c DEF ClientsFit

LEMMA AfreshStep ==
  ASSUME CrashesOnly, TypeOK, CrashInv, [Next]_vars
  PROVE  ScheduledAfresh'
<1> SUFFICES ASSUME NEW j \in Jobs, jobs'[j].status = "SCHEDULED"
             PROVE  jobs'[j].retry_count = 0
  BY DEF ScheduledAfresh
<1>1. jobs[j] \in Row
  BY DEF TypeOK, StoreTypeOK
<1>2. CASE jobs'[j] = jobs[j]
  BY <1>2 DEF CrashInv, ScheduledAfresh
<1>3. CASE Submitted(j, jobs'[j])
  BY <1>3 DEF Submitted, NewRow
<1>4. ~Fired(j, jobs'[j]) /\ ~PickedUp(j, jobs'[j])
  BY <1>1 DEF Fired, PickedUp, Row
<1>5. ~Handled(j, jobs'[j]) /\ ~Recovered(j, jobs'[j]) /\ ~RetriedByHand(j, jobs'[j])
  BY <1>1 DEF Handled, Recovered, RetriedByHand, Row
<1> QED BY <1>2, <1>3, <1>4, <1>5, OneRow DEF RowStep

-----------------------------------------------------------------------------
(* SingleCarrier *)

LEMMA CrashInit == Init => CrashInv
<1> SUFFICES ASSUME Init PROVE CrashInv
  OBVIOUS
<1>1. WorkersFit /\ WatchdogFits /\ SchedulerFits /\ ClientsFit /\ ScheduledAfresh
  BY StoreAssumption DEF Init, StoreInit, WorkerInit, WatchdogInit, SchedulerInit, JobsApiInit,
     Asleep, NoPass, IdleClient, WorkersFit, WatchdogFits, SchedulerFits, ClientsFit,
     ScheduledAfresh
<1>2. ASSUME NEW j \in Jobs
      PROVE  OneCopy(j)
  <2>1. Once(j)
    BY DEF Init, StoreInit, WorkerInit, Once, OnceIn, Queues
  <2>2. ASSUME NEW k, NEW a, NEW n, At(j, k, a, n)
        PROVE  FALSE
    <3>1. /\ \A q \in PriorityQueues : queue[q] = <<>>
          /\ \A w \in Workers : pending[w] = <<>>
          /\ \A w \in Workers, t \in Threads : thread[w][t] = IdleThread
          /\ \A c \in Clients : client[c].pc = "idle"
          /\ wd.pc = "sleep" /\ sch.pc = "sleep"
      BY DEF Init, StoreInit, WorkerInit, WatchdogInit, SchedulerInit, JobsApiInit, Queues,
         Asleep, NoPass, IdleClient
    <3>2. k \notin {"queue", "pending", "client", "watchdog", "scheduler"}
      BY <2>2, <3>1 DEF At, HasCopy, HasInHand
    <3>3. k \notin {"running", "thread"}
      BY <2>2, <3>1, StoreAssumption DEF At, ThreadHas, IdleThread
    <3> QED BY <2>2, <3>2, <3>3 DEF At
  <2>3. Sole(j) /\ Fits(j)
    BY <2>2 DEF Sole, Fits
  <2> QED BY <2>1, <2>3 DEF OneCopy
<1> QED BY <1>1, <1>2 DEF CrashInv

LEMMA CrashStep ==
  ASSUME CrashesOnly, QueueInv, CrashInv, [Next]_vars
  PROVE  CrashInv'
<1>1. TypeOK
  BY DEF QueueInv
<1> QED BY <1>1, WorkersFitStep, WatchdogFitsStep, SchedulerFitsStep, ClientsFitStep, AfreshStep,
           CopiesStep DEF CrashInv
\* What a place in Places is in terms of At.
IsPlace(j, x, k, a) ==
  \/ k = "queue" /\ a \in PriorityQueues /\ \E i \in DOMAIN queue[a] : queue[a][i].id = j /\ x = <<k, a, i>>
  \/ k = "pending" /\ a \in Workers /\ \E i \in DOMAIN pending[a] : pending[a][i].id = j /\ x = <<k, a, i>>
  \/ k \in {"running", "thread"} /\ x = <<"thread", a[1], a[2]>>
  \/ k = "client" /\ x = <<k, a>>
  \/ k \in {"watchdog", "scheduler"} /\ x = <<k>>

LEMMA PlaceAt ==
  ASSUME NEW j \in Jobs, NEW x \in Places(j)
  PROVE  \E k, a, n : At(j, k, a, n) /\ IsPlace(j, x, k, a)
<1>1. ASSUME NEW q \in PriorityQueues, NEW i \in DOMAIN queue[q], queue[q][i].id = j, x = <<"queue", q, i>>
      PROVE  At(j, "queue", q, queue[q][i].retry_count) /\ IsPlace(j, x, "queue", q)
  BY <1>1 DEF At, HasCopy, IsPlace
<1>2. ASSUME NEW w \in Workers, NEW i \in DOMAIN pending[w], pending[w][i].id = j, x = <<"pending", w, i>>
      PROVE  At(j, "pending", w, pending[w][i].retry_count) /\ IsPlace(j, x, "pending", w)
  BY <1>2 DEF At, HasCopy, IsPlace
<1>3. ASSUME NEW w \in Workers, NEW t \in Threads, OnThread(w, t, j), x = <<"thread", w, t>>
      PROVE  \E k, a, n : At(j, k, a, n) /\ IsPlace(j, x, k, a)
  <2>1. <<w, t>>[1] = w /\ <<w, t>>[2] = t
    OBVIOUS
  <2>2. \E k \in {"running", "thread"} : \E n : ThreadHas(w, t, k, j, n)
    BY <1>3 DEF OnThread, Carries, ThreadHas
  <2>3. PICK k \in {"running", "thread"} : \E n : ThreadHas(w, t, k, j, n)
    BY <2>2
  <2>4. PICK n : ThreadHas(w, t, k, j, n)
    BY <2>3
  <2>5. At(j, k, <<w, t>>, n)
    BY <2>4 DEF At
  <2>6. IsPlace(j, x, k, <<w, t>>)
    BY <2>1, <1>3 DEF IsPlace
  <2> QED BY <2>5, <2>6
<1>4. ASSUME NEW c \in Clients, WithClient(c, j), x = <<"client", c>>
      PROVE  \E k, a, n : At(j, k, a, n) /\ IsPlace(j, x, k, a)
  <2>1. PICK n : HasInHand(client[c], j, n)
    BY <1>4 DEF WithClient, Carries, HasInHand
  <2>2. At(j, "client", c, n)
    BY <2>1 DEF At
  <2>3. IsPlace(j, x, "client", c)
    BY <1>4 DEF IsPlace
  <2> QED BY <2>2, <2>3
<1>5. ASSUME WithWatchdog(j), x = <<"watchdog">>
      PROVE  \E k, a, n : At(j, k, a, n) /\ IsPlace(j, x, k, a)
  <2>1. PICK n : HasInHand(wd, j, n)
    BY <1>5 DEF WithWatchdog, Carries, HasInHand
  <2>2. At(j, "watchdog", "watchdog", n)
    BY <2>1 DEF At
  <2>3. IsPlace(j, x, "watchdog", "watchdog")
    BY <1>5 DEF IsPlace
  <2> QED BY <2>2, <2>3
<1>6. ASSUME WithScheduler(j), x = <<"scheduler">>
      PROVE  \E k, a, n : At(j, k, a, n) /\ IsPlace(j, x, k, a)
  <2>1. At(j, "scheduler", "scheduler", sch.doc.retry_count)
    BY <1>6 DEF WithScheduler, Carries, At
  <2>2. IsPlace(j, x, "scheduler", "scheduler")
    BY <1>6 DEF IsPlace
  <2> QED BY <2>1, <2>2
<1>7. \/ \E q \in PriorityQueues : \E i \in DOMAIN queue[q] : queue[q][i].id = j /\ x = <<"queue", q, i>>
      \/ \E w \in Workers : \E i \in DOMAIN pending[w] : pending[w][i].id = j /\ x = <<"pending", w, i>>
      \/ \E w \in Workers, t \in Threads : OnThread(w, t, j) /\ x = <<"thread", w, t>>
      \/ \E c \in Clients : WithClient(c, j) /\ x = <<"client", c>>
      \/ WithWatchdog(j) /\ x = <<"watchdog">>
      \/ WithScheduler(j) /\ x = <<"scheduler">>
  <2>1. CASE x \in UNION {{<<"queue", q, i>> : i \in {k \in DOMAIN queue[q] : queue[q][k].id = j}} :
                            q \in PriorityQueues}
    BY <2>1, Zenon
  <2>2. CASE x \in UNION {{<<"pending", w, i>> : i \in {k \in DOMAIN pending[w] : pending[w][k].id = j}} :
                            w \in Workers}
    BY <2>2, Zenon
  <2>3. CASE x \in {<<"thread", y[1], y[2]>> :
                      y \in {z \in Workers \X Threads : OnThread(z[1], z[2], j)}}
    BY <2>3
  <2>4. CASE x \in {<<"client", c>> : c \in {y \in Clients : WithClient(y, j)}}
    BY <2>4, Zenon
  <2>5. CASE \/ x \in {d \in {<<"watchdog">>} : WithWatchdog(j)}
             \/ x \in {d \in {<<"scheduler">>} : WithScheduler(j)}
    BY <2>5
  <2> QED BY <2>1, <2>2, <2>3, <2>4, <2>5 DEF Places
<1> QED BY <1>1, <1>2, <1>3, <1>4, <1>5, <1>6, <1>7

LEMMA OnePlace ==
  ASSUME NEW j \in Jobs, OneCopy(j), NEW x \in Places(j), NEW y \in Places(j)
  PROVE  x = y
<1>1. PICK k, a, n : At(j, k, a, n) /\ IsPlace(j, x, k, a)
  BY PlaceAt
<1>2. PICK l, b, m : At(j, l, b, m) /\ IsPlace(j, y, l, b)
  BY PlaceAt
<1>3. k = l /\ a = b
  BY <1>1, <1>2 DEF OneCopy, Sole
<1>4. Once(j)
  BY DEF OneCopy
<1>5. CASE k = "queue"
  BY <1>1, <1>2, <1>3, <1>4, <1>5 DEF IsPlace, Once, OnceIn
<1>6. CASE k = "pending"
  BY <1>1, <1>2, <1>3, <1>4, <1>6 DEF IsPlace, Once, OnceIn
<1>7. CASE k \notin {"queue", "pending"}
  BY <1>1, <1>2, <1>3, <1>7 DEF IsPlace
<1> QED BY <1>5, <1>6, <1>7

LEMMA CrashInvHolds == CrashInv => SingleCarrier
<1> SUFFICES ASSUME CrashInv, NEW j \in Jobs
             PROVE  Cardinality(Places(j)) <= 1
  BY DEF SingleCarrier
<1>1. OneCopy(j)
  BY DEF CrashInv
<1>2. CASE Places(j) = {}
  BY <1>2, FS_EmptySet
<1>3. CASE Places(j) # {}
  <2>1. PICK x : x \in Places(j)
    BY <1>3
  <2>2. Places(j) = {x}
    BY <2>1, <1>1, OnePlace
  <2> QED BY <2>2, FS_Singleton
<1> QED BY <1>2, <1>3

\* However many workers are killed, and however often the API process goes
\* down, a job is never in two places, so it never runs twice (worker.py:154,
\* watchdog.py:56-75).
THEOREM CrashesMakeNoCopies ==
  ASSUME CrashesOnly
  PROVE  Spec => []SingleCarrier
<1>1. Init => QueueInv /\ CrashInv
  BY InitQueueInv, CrashInit
<1>2. QueueInv /\ CrashInv /\ [Next]_vars => QueueInv' /\ CrashInv'
  BY QueueInvStep, CrashStep
<1> QED BY <1>1, <1>2, CrashInvHolds, PTL DEF Spec
-----------------------------------------------------------------------------
(* Rows: timestamps and attempts *)

Timed(row) ==
  /\ row.status \in {"QUEUED", "SCHEDULED"} => ~row.started_at /\ ~row.completed_at
  /\ row.status = "RUNNING" => row.started_at /\ ~row.completed_at
  /\ row.status \in {"COMPLETED", "DEAD"} => row.started_at /\ row.completed_at

TimesFit == \A j \in Jobs : Timed(jobs[j])

LEMMA TimesInit == Init => TimesFit
  BY DEF Init, StoreInit, TimesFit, Timed

LEMMA TimesStep ==
  ASSUME CrashesOnly, TypeOK, CrashInv, TimesFit, [Next]_vars
  PROVE  TimesFit'
<1> SUFFICES ASSUME NEW j \in Jobs
             PROVE  Timed(jobs'[j])
  BY DEF TimesFit, Timed
<1>1. jobs[j] \in Row /\ Timed(jobs[j])
  BY DEF TypeOK, StoreTypeOK, TimesFit
<1>2. CASE Submitted(j, jobs'[j])
  BY <1>2 DEF Submitted, NewRow, Timed
<1>3. CASE Fired(j, jobs'[j]) \/ PickedUp(j, jobs'[j])
  BY <1>1, <1>3 DEF Fired, PickedUp, Row, Timed
<1>4. CASE Handled(j, jobs'[j])
  <2>1. CASE jobs'[j] = [jobs[j] EXCEPT !.status = "COMPLETED", !.completed_at = TRUE]
    BY <1>1, <1>4, <2>1 DEF Handled, Row, Timed
  <2>2. CASE jobs'[j] = [jobs[j] EXCEPT !.status = "QUEUED", !.retry_count = jobs[j].retry_count + 1,
                                        !.started_at = FALSE]
    BY <1>1, <1>4, <2>2 DEF Handled, Row, Timed
  <2>3. CASE jobs'[j] = [jobs[j] EXCEPT !.status = "DEAD", !.retry_count = jobs[j].retry_count + 1,
                                        !.completed_at = TRUE]
    BY <1>1, <1>4, <2>3 DEF Handled, Row, Timed
  <2> QED BY <1>4, <2>1, <2>2, <2>3 DEF Handled
<1>5. CASE Recovered(j, jobs'[j]) \/ RetriedByHand(j, jobs'[j])
  BY <1>1, <1>5 DEF Recovered, RetriedByHand, Row, Timed
<1> QED BY <1>1, <1>2, <1>3, <1>4, <1>5, OneRow DEF RowStep

LEMMA TimesHold == TypeOK /\ TimesFit => StatusHasItsTimes
<1> SUFFICES ASSUME TypeOK, TimesFit PROVE StatusHasItsTimes
  OBVIOUS
<1>1. Measured = {j \in Jobs : jobs[j].status = "COMPLETED"}
  BY DEF Measured, TimesFit, Timed
<1>2. Cardinality(Measured) = by_status("COMPLETED")
  BY <1>1 DEF by_status
<1>3. ASSUME NEW j \in Jobs
      PROVE  /\ jobs[j].status = "RUNNING" => jobs[j].started_at /\ ~jobs[j].completed_at
             /\ jobs[j].status \in {"QUEUED", "SCHEDULED"} =>
                  ~jobs[j].started_at /\ ~jobs[j].completed_at
             /\ jobs[j].status = "DEAD" => jobs[j].started_at = jobs[j].completed_at
  <2>1. Timed(jobs[j]) /\ jobs[j] \in Row
    BY DEF TimesFit, TypeOK, StoreTypeOK
  <2> QED BY <2>1 DEF Timed, Row
<1> QED BY <1>2, <1>3 DEF StatusHasItsTimes

\* Whoever sets a status leaves the two timestamps as they go with it, so that the
\* runtime statistics are about the COMPLETED jobs and no others, however many
\* processes are killed, as long as that is all that happens (metrics.py:51-53,
\* 175-176).
THEOREM StatisticsAreOfTheCompleted ==
  ASSUME CrashesOnly
  PROVE  Spec => []StatusHasItsTimes
<1>1. Init => QueueInv /\ CrashInv /\ TimesFit
  BY InitQueueInv, CrashInit, TimesInit
<1>2. QueueInv /\ CrashInv /\ TimesFit /\ [Next]_vars => QueueInv' /\ CrashInv' /\ TimesFit'
  BY QueueInvStep, CrashStep, TimesStep DEF QueueInv
<1>3. QueueInv /\ TimesFit => StatusHasItsTimes
  BY TimesHold DEF QueueInv
<1> QED BY <1>1, <1>2, <1>3, PTL DEF Spec

-----------------------------------------------------------------------------
(* The life cycle that the tables implement *)

AttemptsLeft ==
  \A j \in Jobs :
    /\ jobs[j].status = "UNUSED" => jobs[j].retry_count = 0
    /\ jobs[j].status \in {"SCHEDULED", "QUEUED", "RUNNING"} => jobs[j].retry_count < MAX_RETRIES

LEMMA AttemptsStep ==
  ASSUME CrashesOnly, MAX_RETRIES # 0, TypeOK, CrashInv, AttemptsLeft, [Next]_vars
  PROVE  AttemptsLeft'
<1> SUFFICES ASSUME NEW j \in Jobs, jobs'[j] # jobs[j]
             PROVE  /\ jobs'[j].status # "UNUSED"
                    /\ jobs'[j].status \in {"SCHEDULED", "QUEUED", "RUNNING"} =>
                         jobs'[j].retry_count < MAX_RETRIES
  BY DEF AttemptsLeft
<1>0. 0 < MAX_RETRIES
  BY StoreAssumption
<1>1. jobs[j] \in Row /\ jobs[j].retry_count \in Nat
      /\ (jobs[j].status \in {"SCHEDULED", "QUEUED", "RUNNING"} => jobs[j].retry_count < MAX_RETRIES)
  BY DEF TypeOK, StoreTypeOK, AttemptsLeft, Row
<1>2. CASE Submitted(j, jobs'[j])
  BY <1>0, <1>2 DEF Submitted, NewRow
<1>3. CASE Fired(j, jobs'[j]) \/ PickedUp(j, jobs'[j]) \/ Recovered(j, jobs'[j])
  <2>1. /\ jobs[j].status \in {"SCHEDULED", "QUEUED", "RUNNING"}
        /\ jobs'[j].retry_count = jobs[j].retry_count /\ jobs'[j].status \in {"QUEUED", "RUNNING"}
    BY <1>1, <1>3 DEF Fired, PickedUp, Recovered, Row
  <2> QED BY <2>1, <1>1
<1>4. CASE Handled(j, jobs'[j])
  <2>1. CASE jobs'[j] = [jobs[j] EXCEPT !.status = "COMPLETED", !.completed_at = TRUE]
    BY <1>1, <2>1 DEF Row
  <2>2. CASE /\ jobs[j].retry_count + 1 < MAX_RETRIES
             /\ jobs'[j] = [jobs[j] EXCEPT !.status = "QUEUED", !.retry_count = jobs[j].retry_count + 1,
                                           !.started_at = FALSE]
    <3>1. jobs'[j].retry_count = jobs[j].retry_count + 1 /\ jobs'[j].status = "QUEUED"
      BY <1>1, <2>2 DEF Row
    <3> QED BY <3>1, <2>2
  <2>3. CASE jobs'[j] = [jobs[j] EXCEPT !.status = "DEAD", !.retry_count = jobs[j].retry_count + 1,
                                        !.completed_at = TRUE]
    BY <1>1, <2>3 DEF Row
  <2> QED BY <1>4, <2>1, <2>2, <2>3 DEF Handled
<1>5. CASE RetriedByHand(j, jobs'[j])
  <2>1. jobs'[j].retry_count = 0 /\ jobs'[j].status = "QUEUED"
    BY <1>1, <1>5 DEF RetriedByHand, Row
  <2> QED BY <2>1, <1>0
<1> QED BY <1>1, <1>2, <1>3, <1>4, <1>5, OneRow DEF RowStep

\* One row's step, seen without worker, timestamps and queue.
LEMMA RowStepRefines ==
  ASSUME TypeOK, AttemptsLeft, NEW j \in Jobs, NEW row, RowStep(j, row),
         jobs' = [jobs EXCEPT ![j] = row]
  PROVE  Lifecycle!Next
<1> DEFINE attempts == [i \in Jobs |-> jobs[i].retry_count]
<1>1. jobs \in [Jobs -> Row] /\ jobs[j] \in Row /\ jobs[j].retry_count \in Nat
  BY DEF TypeOK, StoreTypeOK, Row
<1>2. ASSUME NEW from, NEW to, jobs[j].status = from, row.status = to
      PROVE  Lifecycle!Move(j, from, to)
  BY <1>1, <1>2 DEF Lifecycle!Move
<1>3. row.retry_count = jobs[j].retry_count => UNCHANGED attempts
  BY <1>1
<1>4. attempts[j] = jobs[j].retry_count /\ attempts' = [attempts EXCEPT ![j] = row.retry_count]
  BY <1>1
<1>5. CASE Submitted(j, row)
  <2>1. row.status \in {"QUEUED", "SCHEDULED"} /\ row.retry_count = 0 /\ jobs[j].retry_count = 0
        /\ jobs[j].status = "UNUSED"
    BY <1>5 DEF Submitted, NewRow, AttemptsLeft
  <2>2. Lifecycle!Submit(j)
    BY <2>1, <1>2, <1>3 DEF Lifecycle!Submit
  <2> QED BY <2>2 DEF Lifecycle!Next
<1>6. CASE Fired(j, row)
  <2>1. row.status = "QUEUED" /\ row.retry_count = jobs[j].retry_count /\ jobs[j].status = "SCHEDULED"
    BY <1>1, <1>6 DEF Fired, Row
  <2>2. Lifecycle!Fire(j)
    BY <2>1, <1>2, <1>3 DEF Lifecycle!Fire
  <2> QED BY <2>2 DEF Lifecycle!Next
<1>7. CASE PickedUp(j, row)
  <2>1. row.status = "RUNNING" /\ row.retry_count = jobs[j].retry_count /\ jobs[j].status = "QUEUED"
    BY <1>1, <1>7 DEF PickedUp, Row
  <2>2. Lifecycle!Run(j)
    BY <2>1, <1>2, <1>3 DEF Lifecycle!Run
  <2> QED BY <2>2 DEF Lifecycle!Next
<1>8. CASE Handled(j, row)
  <2>0. jobs[j].status = "RUNNING" /\ jobs[j].retry_count < MAX_RETRIES
    BY <1>8 DEF Handled, AttemptsLeft
  <2>1. CASE row = [jobs[j] EXCEPT !.status = "COMPLETED", !.completed_at = TRUE]
    <3>1. row.status = "COMPLETED" /\ row.retry_count = jobs[j].retry_count
      BY <1>1, <2>1 DEF Row
    <3>2. Lifecycle!Succeed(j)
      BY <3>1, <2>0, <1>2, <1>3 DEF Lifecycle!Succeed
    <3> QED BY <3>2 DEF Lifecycle!Next
  <2>2. CASE /\ jobs[j].retry_count + 1 < MAX_RETRIES
             /\ row = [jobs[j] EXCEPT !.status = "QUEUED", !.retry_count = jobs[j].retry_count + 1,
                                      !.started_at = FALSE]
    <3>1. row.status = "QUEUED" /\ row.retry_count = jobs[j].retry_count + 1
      BY <1>1, <2>2 DEF Row
    <3>2. Lifecycle!FailAgain(j)
      BY <3>1, <2>0, <2>2, <1>2, <1>4 DEF Lifecycle!FailAgain
    <3> QED BY <3>2 DEF Lifecycle!Next
  <2>3. CASE /\ jobs[j].retry_count + 1 >= MAX_RETRIES
             /\ row = [jobs[j] EXCEPT !.status = "DEAD", !.retry_count = jobs[j].retry_count + 1,
                                      !.completed_at = TRUE]
    <3>1. row.status = "DEAD" /\ row.retry_count = jobs[j].retry_count + 1
      BY <1>1, <2>3 DEF Row
    <3>3. jobs[j].retry_count + 1 = MAX_RETRIES
      BY <2>0, <2>3, <1>1, StoreAssumption
    <3>2. Lifecycle!FailForGood(j)
      BY <3>1, <3>3, <2>0, <1>2, <1>4 DEF Lifecycle!FailForGood
    <3> QED BY <3>2 DEF Lifecycle!Next
  <2> QED BY <1>8, <2>1, <2>2, <2>3 DEF Handled
<1>9. CASE Recovered(j, row)
  <2>1. row.status = "QUEUED" /\ row.retry_count = jobs[j].retry_count /\ jobs[j].status = "RUNNING"
    BY <1>1, <1>9 DEF Recovered, Row
  <2>2. Lifecycle!Recover(j)
    BY <2>1, <1>2, <1>3 DEF Lifecycle!Recover
  <2> QED BY <2>2 DEF Lifecycle!Next
<1>10. CASE RetriedByHand(j, row)
  <2>1. row.status = "QUEUED" /\ row.retry_count = 0 /\ jobs[j].status = "DEAD"
    BY <1>1, <1>10 DEF RetriedByHand, Row
  <2>2. Lifecycle!RetryByHand(j)
    BY <2>1, <1>2, <1>4 DEF Lifecycle!RetryByHand
  <2> QED BY <2>2 DEF Lifecycle!Next
<1> QED BY <1>5, <1>6, <1>7, <1>8, <1>9, <1>10 DEF RowStep

\* Rows move only along JobLifecycle, and a job dies after exactly MAX_RETRIES
\* failed attempts, however many processes are killed, as long as that is all
\* that happens (worker.py:140-161, watchdog.py:74).
THEOREM ImplementsLifecycle ==
  ASSUME CrashesOnly, MAX_RETRIES # 0
  PROVE  Spec => RefinesLifecycle
<1>1. Init => QueueInv /\ CrashInv /\ AttemptsLeft
  <2>1. Init => AttemptsLeft
    BY StoreAssumption DEF Init, StoreInit, AttemptsLeft
  <2> QED BY <2>1, InitQueueInv, CrashInit
<1>2. QueueInv /\ CrashInv /\ AttemptsLeft /\ [Next]_vars => QueueInv' /\ CrashInv' /\ AttemptsLeft'
  BY QueueInvStep, CrashStep, AttemptsStep DEF QueueInv
<1>3. Init => Lifecycle!Init
  BY DEF Init, StoreInit, Lifecycle!Init
<1>4. QueueInv /\ CrashInv /\ AttemptsLeft /\ [Next]_vars => [Lifecycle!Next]_(Lifecycle!lifecycle)
  <2> SUFFICES ASSUME TypeOK, CrashInv, AttemptsLeft, [Next]_vars
               PROVE  [Lifecycle!Next]_(Lifecycle!lifecycle)
    BY DEF QueueInv
  <2>1. CASE UNCHANGED jobs
    BY <2>1 DEF Lifecycle!lifecycle
  <2>2. ASSUME NEW j \in Jobs, NEW row, RowStep(j, row), jobs' = [jobs EXCEPT ![j] = row]
        PROVE  Lifecycle!Next
    BY <2>2, RowStepRefines
  <2> QED BY <2>1, <2>2, RowSteps
<1> QED BY <1>1, <1>2, <1>3, <1>4, PTL DEF Spec, RefinesLifecycle, Lifecycle!Spec
-----------------------------------------------------------------------------
(* StuckJobsAreWatched *)

HasRunAt(j) == Exists(j) /\ jobs[j].run_at

\* Where a RUNNING row is looked after.
Watched(j) ==
  jobs[j].status = "RUNNING" =>
    \/ Truthful(j)
    \/ \E w \in Workers : jobs[j].worker_id = w /\ workers[w].status = "ONLINE"
    \/ wd.worker = jobs[j].worker_id /\ (wd.pc = "select" \/ j \in wd.stuck)
    \/ \E k \in Jobs \ {j} : HasRunAt(k)

\* The watchdog's dict has a datetime only if the row has.
RawIsTold ==
  wd.pc = "push" /\ wd.doc.raw => wd.doc.id = wd.id /\ wd.id \in Jobs /\ HasRunAt(wd.id)

WatchInv == RawIsTold /\ \A j \in Jobs : Watched(j)

LEMMA RunAtStays ==
  ASSUME CrashesOnly, TypeOK, CrashInv, [Next]_vars, NEW j \in Jobs, HasRunAt(j)
  PROVE  HasRunAt(j)'
<1>1. jobs[j] \in Row
  BY DEF TypeOK, StoreTypeOK
<1>2. CASE Fired(j, jobs'[j]) \/ PickedUp(j, jobs'[j])
  BY <1>1, <1>2 DEF Fired, PickedUp, Row, HasRunAt, Exists
<1>3. CASE Recovered(j, jobs'[j]) \/ RetriedByHand(j, jobs'[j])
  BY <1>1, <1>3 DEF Recovered, RetriedByHand, Row, HasRunAt, Exists
<1>4. CASE Handled(j, jobs'[j])
  <2>1. jobs'[j].run_at = jobs[j].run_at /\ jobs'[j].status \in {"COMPLETED", "QUEUED", "DEAD"}
    BY <1>1, <1>4 DEF Handled, Row
  <2> QED BY <2>1 DEF HasRunAt, Exists
<1>5. ~Submitted(j, jobs'[j])
  BY DEF Submitted, HasRunAt, Exists
<1>6. CASE jobs'[j] = jobs[j]
  BY <1>6 DEF HasRunAt, Exists
<1> QED BY <1>2, <1>3, <1>4, <1>5, <1>6, OneRow DEF RowStep

LEMMA RawIsToldStep ==
  ASSUME CrashesOnly, TypeOK, CrashInv, RawIsTold, [Next]_vars
  PROVE  RawIsTold'
<1> USE DEF store, worker
<1>a. /\ WorkersFit /\ ClientsFit /\ wd \in WatchdogState
      /\ wd.pc \in {"refetch", "push"} => wd.id \in Jobs
  BY DEF CrashInv, TypeOK, WatchdogTypeOK, WatchdogState
<1>b. \A i \in Jobs : HasRunAt(i) => HasRunAt(i)'
  BY RunAtStays
<1>1. CASE UNCHANGED wd
  <2>1. ASSUME wd.pc = "push", wd.doc.raw
        PROVE  wd.doc.id = wd.id /\ wd.id \in Jobs /\ HasRunAt(wd.id) /\ HasRunAt(wd.id)'
    <3>1. wd.doc.id = wd.id /\ wd.id \in Jobs /\ HasRunAt(wd.id)
      BY <2>1 DEF RawIsTold
    <3>2. HasRunAt(wd.id)'
      <4>1. ASSUME NEW i \in Jobs, wd.id = i, HasRunAt(i), HasRunAt(i)'
            PROVE  HasRunAt(wd.id)'
        BY <4>1, <1>1 DEF HasRunAt, Exists
      <4> QED BY <4>1, <3>1, <1>b
    <3> QED BY <3>1, <3>2
  <2> QED BY <2>1, <1>1 DEF RawIsTold
<1>2. CASE RefetchStuck
  <2>1. /\ wd'.doc = get_job(wd.id) /\ wd'.id = wd.id /\ wd.id \in Jobs /\ UNCHANGED jobs
    BY <1>2, <1>a DEF RefetchStuck, WatchdogState
  <2>2. wd'.doc.raw => wd'.doc.id = wd.id /\ Exists(wd.id) /\ jobs[wd.id].run_at
    BY <2>1 DEF get_job, NoDoc
  <2> QED BY <2>1, <2>2 DEF RawIsTold, HasRunAt, Exists
<1>3. wd'.pc # "push" \/ RefetchStuck \/ UNCHANGED wd
  <2>1. ASSUME NEW left PROVE Resume(left).pc # "push"
    BY <1>a DEF Resume, WatchdogState, Asleep
  <2>2. ASSUME CheckWorkers PROVE wd'.pc # "push"
    BY <2>2, <1>a DEF CheckWorkers, WatchdogState
  <2>6. ASSUME SelectStuck PROVE wd'.pc # "push"
    BY <2>1, <2>6 DEF SelectStuck
  <2>7. ASSUME PushStuck PROVE wd'.pc # "push"
    BY <2>1, <2>7 DEF PushStuck, Asleep
  <2>3. ASSUME NEW w \in Workers, MarkOffline(w) PROVE wd'.pc # "push"
    BY <2>3, <1>a DEF MarkOffline, WatchdogState
  <2>4. ASSUME NEW j \in Jobs, RecoverJob(j) PROVE wd'.pc # "push"
    BY <2>4, <1>a DEF RecoverJob, WatchdogState
  <2>5. ASSUME ApiCrash PROVE wd'.pc # "push"
    BY <2>5 DEF ApiCrash, Asleep
  <2>8. WatchdogStep => wd'.pc # "push" \/ RefetchStuck
    BY <2>2, <2>3, <2>4, <2>6, <2>7 DEF WatchdogStep
  <2> QED BY <2>5, <2>8, <1>a, CarefulSteps DEF vars
<1>4. ASSUME wd'.pc # "push" PROVE RawIsTold'
  BY <1>4 DEF RawIsTold
<1> QED BY <1>1, <1>2, <1>3, <1>4

\* The watchdog does not lose sight of a row that stays RUNNING.
LEMMA WatchdogWatches ==
  ASSUME CrashInv, RawIsTold, TypeOK, WatchdogStep, UNCHANGED worker,
         NEW j \in Jobs, jobs[j].status = "RUNNING", jobs'[j] = jobs[j], Watched(j)
  PROVE  Truthful(j)' \/ Watched(j)' \/ \E k \in Jobs \ {j} : HasRunAt(k)
<1> USE DEF store, worker
<1>a. /\ WatchdogFits /\ OneCopy(j) /\ wd \in WatchdogState
      /\ workers \in [Workers -> WorkerRow] /\ jobs \in [Jobs -> Row]
  BY DEF CrashInv, TypeOK, StoreTypeOK, WatchdogTypeOK
<1>t. Truthful(j) => Truthful(j)'
  BY DEF Truthful, BusyWith
<1>1. CASE \E w \in Workers : jobs[j].worker_id = w /\ workers[w].status = "ONLINE"
  <2>1. PICK w \in Workers : jobs[j].worker_id = w /\ workers[w].status = "ONLINE"
    BY <1>1
  <2>2. CASE MarkOffline(w)
    <3>1. wd'.worker = w /\ wd'.pc = "select"
      BY <2>2, <1>a DEF MarkOffline, WatchdogState
    <3> QED BY <3>1, <2>1 DEF Watched
  <2>3. CASE ~MarkOffline(w)
    <3>1. workers'[w].status = "ONLINE"
      BY <2>1, <2>3, <1>a DEF WatchdogStep, CheckWorkers, MarkOffline, mark_worker_offline,
         SelectStuck, RecoverJob, RefetchStuck, PushStuck, WorkerRow
    <3> QED BY <3>1, <2>1 DEF Watched
  <2> QED BY <2>2, <2>3
<1>2. CASE wd.worker = jobs[j].worker_id /\ (wd.pc = "select" \/ j \in wd.stuck)
  <2>1. wd.pc \in {"select", "recover", "refetch", "push"}
    BY <1>2, <1>a DEF WatchdogFits
  <2>2. ASSUME NEW left \in SUBSET Jobs, wd' = Resume(left), j \in left
        PROVE  Watched(j)'
    <3>1. wd' = [wd EXCEPT !.pc = "recover", !.stuck = left, !.id = NoJob, !.doc = NoDoc]
      BY <2>2 DEF Resume
    <3>2. wd'.worker = wd.worker /\ wd'.stuck = left
      BY <3>1, <1>a DEF WatchdogState
    <3> QED BY <3>2, <2>2, <1>2 DEF Watched
  <2>3. CASE SelectStuck
    <3> DEFINE left == {i \in Jobs : jobs[i].status = "RUNNING" /\ jobs[i].worker_id = wd.worker}
    <3>1. wd' = Resume(left) /\ left \in SUBSET Jobs /\ j \in left
      BY <2>3, <1>2 DEF SelectStuck
    <3> HIDE DEF left
    <3> QED BY <3>1, <2>2
  <2>4. CASE wd.pc # "select"
    <3>0. j \in wd.stuck
      BY <1>2, <2>4
    <3>1. ASSUME NEW i \in Jobs, RecoverJob(i)
          PROVE  Watched(j)'
      <4>1. i # j
        BY <3>1, <1>a DEF RecoverJob, update_job, Exists, Row
      <4>2. wd'.worker = wd.worker /\ wd'.stuck = wd.stuck \ {i}
        BY <3>1, <1>a DEF RecoverJob, WatchdogState
      <4> QED BY <4>1, <4>2, <3>0, <1>2 DEF Watched
    <3>2. CASE RefetchStuck
      <4>1. wd'.worker = wd.worker /\ wd'.stuck = wd.stuck
        BY <3>2, <1>a DEF RefetchStuck, WatchdogState
      <4> QED BY <4>1, <3>0, <1>2 DEF Watched
    <3>3. CASE PushStuck /\ ~wd.doc.raw
      <4>1. wd' = Resume(wd.stuck) /\ wd.stuck \in SUBSET Jobs
        BY <3>3, <1>a DEF PushStuck, WatchdogState
      <4> QED BY <4>1, <3>0, <2>2
    <3>4. CASE PushStuck /\ wd.doc.raw
      <4>1. wd.pc = "push" /\ wd.doc.id = wd.id /\ wd.id \in Jobs /\ HasRunAt(wd.id)
        BY <3>4 DEF PushStuck, RawIsTold
      <4>2. wd.id # j
        <5>1. wd.id = j => At(j, "watchdog", "watchdog", wd.doc.retry_count)
          BY <4>1 DEF At, HasInHand
        <5> QED BY <5>1, <1>a, RowSays
      <4> QED BY <4>1, <4>2
    <3>5. ~CheckWorkers /\ ~SelectStuck /\ \A w \in Workers : ~MarkOffline(w)
      BY <2>1, <2>4 DEF CheckWorkers, SelectStuck, MarkOffline
    <3> QED BY <3>1, <3>2, <3>3, <3>4, <3>5 DEF WatchdogStep
  <2>5. wd.pc = "select" => SelectStuck
    BY DEF WatchdogStep, CheckWorkers, MarkOffline, RecoverJob, RefetchStuck, PushStuck
  <2> QED BY <2>3, <2>4, <2>5
<1> QED BY <1>t, <1>1, <1>2 DEF Watched

LEMMA WatchStep ==
  ASSUME CrashesOnly, MaxOutages = 0, TypeOK, CrashInv, WatchInv, [Next]_vars
  PROVE  WatchInv'
<1> USE DEF store, worker
<1>0. RawIsTold'
  BY RawIsToldStep DEF WatchInv
<1> SUFFICES ASSUME NEW j \in Jobs, jobs'[j].status = "RUNNING"
             PROVE  Watched(j)'
  BY <1>0 DEF WatchInv, Watched
<1>a. /\ WorkersFit /\ ClientsFit /\ WorkerTypeOK /\ workers \in [Workers -> WorkerRow]
      /\ jobs \in [Jobs -> Row] /\ jobs[j] \in Row /\ Watched(j) /\ RawIsTold
  BY DEF CrashInv, WatchInv, TypeOK, StoreTypeOK
<1>r. (\E k \in Jobs \ {j} : HasRunAt(k)) => Watched(j)'
  <2>1. ASSUME NEW k \in Jobs \ {j}, HasRunAt(k)
        PROVE  HasRunAt(k)'
    BY <2>1, RunAtStays
  <2> QED BY <2>1 DEF Watched
<1>1. CASE RowStep(j, jobs'[j])
  <2>1. PickedUp(j, jobs'[j])
    <3>1. ~Submitted(j, jobs'[j])
      <4>1. ASSUME NEW s \in {"QUEUED", "SCHEDULED"}, NEW p, NEW b
            PROVE  NewRow(s, p, b).status # "RUNNING"
        BY DEF NewRow
      <4> QED BY <4>1 DEF Submitted
    <3>3. ~Fired(j, jobs'[j])
      BY <1>a DEF Fired, Row
    <3>2. ~Handled(j, jobs'[j]) /\ ~Recovered(j, jobs'[j]) /\ ~RetriedByHand(j, jobs'[j])
      BY <1>a DEF Handled, Recovered, RetriedByHand, Row
    <3> QED BY <1>1, <3>1, <3>2, <3>3 DEF RowStep
  <2>2. PICK w \in Workers, t \in Threads :
          /\ jobs'[j] = [jobs[j] EXCEPT !.status = "RUNNING", !.worker_id = w, !.started_at = TRUE]
          /\ PickUp(w, t) /\ thread[w][t].id = j
    BY <2>1 DEF PickedUp
  <2>3. jobs'[j].worker_id = w
    BY <2>2, <1>a DEF Row
  <2>4. thread'[w][t].id = j /\ thread'[w][t].pc = "executing"
    <3>1. thread[w][t] \in ThreadState
      BY <1>a, ThreadType
    <3>2. thread'[w][t] = [thread[w][t] EXCEPT !.pc = "executing"]
      BY <2>2, <1>a DEF PickUp, Goto, WorkerTypeOK
    <3> QED BY <3>1, <3>2, <2>2 DEF ThreadState
  <2> QED BY <2>3, <2>4 DEF Watched, Truthful, BusyWith
<1>2. CASE jobs'[j] = jobs[j]
  <2>1. ASSUME NEW w \in Workers, CarefulWorker(w), UNCHANGED wd
        PROVE  Watched(j)'
    <3>1. \A x \in Workers : workers[x].status = "ONLINE" => workers'[x].status = "ONLINE"
      <4>1. ASSUME NEW t \in Threads, ThreadStep(w, t), NEW x \in Workers
            PROVE  workers'[x].status = workers[x].status
        BY <4>1, <1>a DEF ThreadStep, StartTask, DropNull, PickUp, Complete, ExecuteFails, Count,
           RetryLater, Refetch, Requeue, GiveUp, PushDLQ, increment_jobs_processed, WorkerRow
      <4>2. ASSUME Start(w) \/ PopJob(w) \/ Crash(w) \/ Heartbeat(w) \/ Silence(w),
                   NEW x \in Workers, workers[x].status = "ONLINE"
            PROVE  workers'[x].status = "ONLINE"
        BY <4>2, <1>a DEF Start, PopJob, Crash, Heartbeat, Silence, WorkerRow
      <4> QED BY <2>1, <4>1, <4>2 DEF CarefulWorker
    <3>2. CASE Truthful(j)
      <4>1. ASSUME NEW t \in Threads, ThreadStep(w, t)
            PROVE  Truthful(j)'
        BY <4>1, <3>2, ThreadTruth
      <4>2. CASE Start(w) \/ PopJob(w) \/ Heartbeat(w) \/ Silence(w)
        <5>1. UNCHANGED thread
          BY <4>2 DEF Start, PopJob, Heartbeat, Silence
        <5>2. Truthful(j)'
          BY <5>1, <3>2, <1>2 DEF Truthful, BusyWith
        <5> QED BY <5>2 DEF Watched
      <4>3. CASE Crash(w)
        <5>1. PICK x \in Workers, u \in Threads : jobs[j].worker_id = x /\ BusyWith(x, u, j)
          BY <3>2, <1>2 DEF Truthful
        <5>2. proc[x] # "down"
          BY <5>1, <1>a, StoreAssumption DEF WorkersFit, BusyWith, IdleThread
        <5>3. workers[x].status = "ONLINE"
          BY <5>2, <1>a DEF WorkersFit
        <5> QED BY <5>1, <5>3, <3>1, <1>2 DEF Watched
      <4> QED BY <2>1, <4>1, <4>2, <4>3 DEF CarefulWorker, Watched
    <3> QED BY <2>1, <3>1, <3>2, <1>2, <1>a, <1>r DEF Watched
  <2>2. CASE WatchdogStep /\ UNCHANGED worker
    <3>1. Truthful(j)' \/ Watched(j)' \/ \E k \in Jobs \ {j} : HasRunAt(k)
      BY <2>2, <1>2, <1>a, WatchdogWatches
    <3> QED BY <3>1, <1>r DEF Watched
  <2>3. CASE UNCHANGED <<workers, thread, wd>>
    <3>1. Truthful(j) => Truthful(j)'
      BY <2>3, <1>2 DEF Truthful, BusyWith
    <3> QED BY <2>3, <3>1, <1>2, <1>a, <1>r DEF Watched
  <2>4. SchedulerStep => UNCHANGED workers
    BY DEF SchedulerStep, FindDue, FireJob, PushFired
  <2>5. ASSUME NEW c \in Clients, CarefulRequest(c)
        PROVE  UNCHANGED workers
    BY <2>5 DEF CarefulRequest, SubmitNow, SubmitLater, CheckRetry, PushJob, RetryJob, RefetchJob
  <2>6. ~ApiCrash
    BY DEF ApiCrash, TypeOK, StoreTypeOK, Env
  <2> QED BY <2>1, <2>2, <2>3, <2>4, <2>5, <2>6, <1>a, CarefulSteps DEF vars
<1> QED BY <1>1, <1>2, OneRow

\* A RUNNING row nobody works on is one the watchdog will still come across,
\* however many workers are killed while the API process lives: its worker is
\* not yet marked OFFLINE, or is the one being handled, or a job with a run_at
\* ended the pass (watchdog.py:31-77).
THEOREM WatchdogForgetsNobody ==
  ASSUME CrashesOnly, MaxOutages = 0
  PROVE  Spec => []StuckJobsAreWatched
<1>1. Init => QueueInv /\ CrashInv /\ WatchInv
  <2>1. Init => WatchInv
    BY DEF Init, StoreInit, WatchdogInit, Asleep, WatchInv, RawIsTold, Watched
  <2> QED BY <2>1, InitQueueInv, CrashInit
<1>2. QueueInv /\ CrashInv /\ WatchInv /\ [Next]_vars => QueueInv' /\ CrashInv' /\ WatchInv'
  BY QueueInvStep, CrashStep, WatchStep DEF QueueInv
<1>3. WatchInv => StuckJobsAreWatched
  <2> SUFFICES ASSUME WatchInv, NEW j \in Jobs, jobs[j].status = "RUNNING", ~Carried(j)
               PROVE  \/ workers[jobs[j].worker_id].status = "ONLINE"
                      \/ /\ wd.worker = jobs[j].worker_id
                         /\ wd.pc = "select" \/ j \in wd.stuck
                      \/ \E k \in Jobs \ {j} : Exists(k) /\ jobs[k].run_at
    BY DEF StuckJobsAreWatched
  <2>1. ~Truthful(j)
    BY DEF Truthful, BusyWith, Carried, WithWorker, OnThread
  <2> QED BY <2>1 DEF WatchInv, Watched, HasRunAt
<1> QED BY <1>1, <1>2, <1>3, PTL DEF Spec
-----------------------------------------------------------------------------
(* CountersAgree *)

Counting(w) == {t \in Threads : thread[w][t].pc = "counting"}

CompletedBy(w) == {j \in Jobs : jobs[j].status = "COMPLETED" /\ jobs[j].worker_id = w}

counted(w) == workers[w].jobs_processed + Cardinality(Counting(w))

CountInv ==
  \A w \in Workers :
    /\ counted(w) <= Cardinality(CompletedBy(w))
    /\ env.crashes = 0 => counted(w) = Cardinality(CompletedBy(w))

\* A COMPLETED row stays, and only Complete makes one.
LEMMA CompletedRow ==
  ASSUME CrashesOnly, TypeOK, CrashInv, [Next]_vars, NEW w \in Workers,
         \A t \in Threads : ~Complete(w, t)
  PROVE  CompletedBy(w)' = CompletedBy(w)
<1> SUFFICES ASSUME NEW j \in Jobs, jobs'[j] # jobs[j]
             PROVE  /\ jobs[j].status # "COMPLETED"
                    /\ ~(jobs'[j].status = "COMPLETED" /\ jobs'[j].worker_id = w)
  BY DEF CompletedBy
<1>1. RowStep(j, jobs'[j]) /\ jobs[j] \in Row
  BY OneRow DEF TypeOK, StoreTypeOK
<1>2. jobs[j].status # "COMPLETED"
  BY <1>1 DEF RowStep, Submitted, Fired, PickedUp, Handled, Recovered, RetriedByHand
<1>3. CASE Submitted(j, jobs'[j])
  <2>1. ASSUME NEW s \in {"QUEUED", "SCHEDULED"}, NEW p, NEW b
        PROVE  NewRow(s, p, b).status # "COMPLETED"
    BY DEF NewRow
  <2> QED BY <2>1, <1>2, <1>3 DEF Submitted
<1>4. CASE \/ Fired(j, jobs'[j]) \/ PickedUp(j, jobs'[j]) \/ Recovered(j, jobs'[j])
           \/ RetriedByHand(j, jobs'[j])
  BY <1>1, <1>2, <1>4 DEF Fired, PickedUp, Recovered, RetriedByHand, Row
<1>5. CASE Handled(j, jobs'[j])
  <2>1. PICK x \in Workers, t \in Threads :
          /\ jobs[j].worker_id = x
          /\ \/ Complete(x, t) /\ jobs'[j] = [jobs[j] EXCEPT !.status = "COMPLETED", !.completed_at = TRUE]
             \/ jobs'[j] = [jobs[j] EXCEPT !.status = "QUEUED", !.retry_count = jobs[j].retry_count + 1,
                                           !.started_at = FALSE]
             \/ jobs'[j] = [jobs[j] EXCEPT !.status = "DEAD", !.retry_count = jobs[j].retry_count + 1,
                                           !.completed_at = TRUE]
    BY <1>5 DEF Handled
  <2>2. jobs'[j].worker_id = x /\ (jobs'[j].status = "COMPLETED" => Complete(x, t))
    BY <2>1, <1>1 DEF Row
  <2> QED BY <2>2, <1>2
<1> QED BY <1>1, <1>2, <1>3, <1>4, <1>5 DEF RowStep

\* A job counts for the worker as soon as its row is COMPLETED.
LEMMA CompleteCounts ==
  ASSUME TypeOK, CrashInv, NEW w \in Workers, NEW t \in Threads, Complete(w, t)
  PROVE  /\ UNCHANGED <<workers, env>>
         /\ t \notin Counting(w) /\ Counting(w)' = Counting(w) \union {t}
         /\ \E j \in Jobs \ CompletedBy(w) : CompletedBy(w)' = CompletedBy(w) \union {j}
         /\ \A x \in Workers \ {w} : /\ Counting(x)' = Counting(x)
                                     /\ CompletedBy(x)' = CompletedBy(x)
<1> DEFINE j == thread[w][t].id
<1>a. WorkerTypeOK /\ jobs \in [Jobs -> Row]
  BY DEF TypeOK, StoreTypeOK
<1>b. /\ thread[w][t] \in ThreadState /\ j \in Jobs /\ UNCHANGED <<workers, env>>
      /\ thread[w][t].pc = "executing"
      /\ thread' = [thread EXCEPT ![w][t].pc = "counting"]
  BY <1>a, ThreadType DEF Complete, Goto
<1>1. jobs[j].status = "RUNNING" /\ Exists(j) /\ jobs[j].worker_id = w
  BY <1>b, ThreadRow DEF CrashInv
<1>2. jobs' = [jobs EXCEPT ![j] = [jobs[j] EXCEPT !.status = "COMPLETED", !.completed_at = TRUE]]
  BY <1>1 DEF Complete, update_job
<1> HIDE DEF j
<1>3. /\ jobs'[j].status = "COMPLETED" /\ jobs'[j].worker_id = w
      /\ \A i \in Jobs \ {j} : jobs'[i] = jobs[i]
  <2>1. jobs[j] \in Row /\ jobs'[j] = [jobs[j] EXCEPT !.status = "COMPLETED", !.completed_at = TRUE]
    BY <1>2, <1>a, <1>b
  <2>2. jobs'[j].status = "COMPLETED" /\ jobs'[j].worker_id = jobs[j].worker_id
    BY <2>1 DEF Row
  <2> QED BY <2>2, <1>1, <1>2, <1>a
<1>4. /\ thread'[w][t].pc = "counting"
      /\ \A u \in Threads \ {t} : thread'[w][u] = thread[w][u]
      /\ \A x \in Workers \ {w} : thread'[x] = thread[x]
  BY <1>b, <1>a DEF WorkerTypeOK, ThreadState
<1>5. t \notin Counting(w) /\ Counting(w)' = Counting(w) \union {t}
  BY <1>b, <1>4 DEF Counting
<1>6. j \notin CompletedBy(w) /\ CompletedBy(w)' = CompletedBy(w) \union {j}
  BY <1>1, <1>3, <1>b DEF CompletedBy
<1>7. \A x \in Workers \ {w} : Counting(x)' = Counting(x) /\ CompletedBy(x)' = CompletedBy(x)
  BY <1>1, <1>3, <1>4 DEF Counting, CompletedBy
<1> QED BY <1>b, <1>5, <1>6, <1>7

\* What any other step does to the two sides.
LEMMA OtherCounts ==
  ASSUME CrashesOnly, TypeOK, CrashInv, [Next]_vars, NEW w \in Workers,
         \A t \in Threads : ~Complete(w, t)
  PROVE  \/ /\ Counting(w)' = Counting(w) /\ env'.crashes \in {env.crashes, env.crashes + 1}
            /\ workers'[w].jobs_processed = workers[w].jobs_processed
         \/ /\ \E t \in Counting(w) : Counting(w)' = Counting(w) \ {t}
            /\ workers'[w].jobs_processed = workers[w].jobs_processed + 1
            /\ UNCHANGED env
         \/ /\ Counting(w)' = {} /\ env'.crashes = env.crashes + 1
            /\ workers'[w].jobs_processed = workers[w].jobs_processed
<1> USE DEF store, worker
<1>a. /\ WorkersFit /\ ClientsFit /\ WorkerTypeOK /\ workers \in [Workers -> WorkerRow] /\ env \in Env
  BY DEF CrashInv, TypeOK, StoreTypeOK
<1>q. ASSUME UNCHANGED thread, env'.crashes = env.crashes,
             workers'[w].jobs_processed = workers[w].jobs_processed
      PROVE  /\ Counting(w)' = Counting(w) /\ env'.crashes \in {env.crashes, env.crashes + 1}
             /\ workers'[w].jobs_processed = workers[w].jobs_processed
  BY <1>q DEF Counting
<1>1. ASSUME NEW t \in Threads, ThreadStep(w, t), ~Count(w, t)
      PROVE  /\ Counting(w)' = Counting(w) /\ env' = env /\ workers' = workers
  <2>1. /\ thread[w][t] \in ThreadState /\ thread[w][t].pc # "counting" /\ env' = env
        /\ workers' = workers
    BY <1>1, <1>a, ThreadType DEF ThreadStep, StartTask, DropNull, PickUp, Complete, ExecuteFails,
       RetryLater, Refetch, Requeue, GiveUp, PushDLQ
  <2>2. \A u \in Threads \ {t} : thread'[w][u] = thread[w][u]
    <3>1. CASE StartTask(w, t) \/ DropNull(w, t) \/ Refetch(w, t)
      BY <3>1, <1>a DEF StartTask, DropNull, Refetch, WorkerTypeOK
    <3>2. CASE PickUp(w, t) \/ ExecuteFails(w, t) \/ RetryLater(w, t) \/ GiveUp(w, t)
      BY <3>2, <1>a DEF PickUp, ExecuteFails, RetryLater, GiveUp, Goto, WorkerTypeOK
    <3>3. CASE Requeue(w, t) \/ PushDLQ(w, t)
      BY <3>3, <1>a DEF Requeue, PushDLQ, Finish, WorkerTypeOK
    <3> QED BY <1>1, <3>1, <3>2, <3>3 DEF ThreadStep
  <2>3. thread'[w][t].pc # "counting"
    <3>1. CASE StartTask(w, t) \/ DropNull(w, t)
      BY <3>1, <2>1, <1>a DEF StartTask, DropNull, WorkerTypeOK
    <3>2. CASE PickUp(w, t) \/ ExecuteFails(w, t) \/ RetryLater(w, t) \/ GiveUp(w, t)
      BY <3>2, <2>1, <1>a DEF PickUp, ExecuteFails, RetryLater, GiveUp, Goto, WorkerTypeOK, ThreadState
    <3>3. CASE Requeue(w, t) \/ PushDLQ(w, t)
      BY <3>3, <1>a DEF Requeue, PushDLQ, Finish, IdleThread, WorkerTypeOK
    <3>4. CASE Refetch(w, t)
      BY <3>4, <2>1, <1>a DEF Refetch, WorkerTypeOK, ThreadState
    <3> QED BY <1>1, <3>1, <3>2, <3>3, <3>4 DEF ThreadStep
  <2> QED BY <2>1, <2>2, <2>3 DEF Counting
<1>2. ASSUME NEW t \in Threads, Count(w, t)
      PROVE  /\ \E u \in Counting(w) : Counting(w)' = Counting(w) \ {u}
             /\ workers'[w].jobs_processed = workers[w].jobs_processed + 1
             /\ UNCHANGED env
  <2>1. /\ thread[w][t].pc = "counting" /\ thread' = [thread EXCEPT ![w][t] = IdleThread]
        /\ workers' = [workers EXCEPT ![w].jobs_processed = workers[w].jobs_processed + 1]
        /\ UNCHANGED env
    BY <1>2 DEF Count, Finish, increment_jobs_processed
  <2>2. thread'[w][t].pc = "idle" /\ \A u \in Threads \ {t} : thread'[w][u] = thread[w][u]
    BY <2>1, <1>a DEF WorkerTypeOK, IdleThread
  <2>3. workers'[w].jobs_processed = workers[w].jobs_processed + 1
    BY <2>1, <1>a DEF WorkerRow
  <2>4. t \in Counting(w) /\ Counting(w)' = Counting(w) \ {t}
    BY <2>1, <2>2 DEF Counting
  <2> QED BY <2>1, <2>3, <2>4
<1>3. ASSUME Crash(w)
      PROVE  /\ Counting(w)' = {} /\ env'.crashes = env.crashes + 1
             /\ workers'[w].jobs_processed = workers[w].jobs_processed
  <2>1. thread'[w] = [t \in Threads |-> IdleThread] /\ workers' = workers
    BY <1>3, <1>a DEF Crash, WorkerTypeOK
  <2>2. env'.crashes = env.crashes + 1
    BY <1>3, <1>a DEF Crash, Env
  <2> QED BY <2>1, <2>2 DEF Counting, IdleThread
<1>4. ASSUME NEW x \in Workers, x # w, CarefulWorker(x)
      PROVE  /\ Counting(w)' = Counting(w) /\ env'.crashes \in {env.crashes, env.crashes + 1}
             /\ workers'[w].jobs_processed = workers[w].jobs_processed
  <2>1. ASSUME NEW t \in Threads, ThreadStep(x, t)
        PROVE  thread'[w] = thread[w] /\ workers'[w] = workers[w] /\ env' = env
    BY <2>1, <1>4, <1>a DEF ThreadStep, StartTask, DropNull, PickUp, Complete, ExecuteFails, Count,
       RetryLater, Refetch, Requeue, GiveUp, PushDLQ, Goto, Finish, increment_jobs_processed,
       WorkerTypeOK
  <2>2. ASSUME Start(x) \/ PopJob(x) \/ Heartbeat(x) \/ (Silence(x) /\ proc[x] = "down")
        PROVE  thread'[w] = thread[w] /\ workers'[w] = workers[w] /\ env' = env
    BY <2>2, <1>4, <1>a DEF Start, PopJob, Heartbeat, Silence, Beating
  <2>3. ASSUME Crash(x)
        PROVE  /\ thread'[w] = thread[w] /\ workers'[w] = workers[w]
               /\ env'.crashes = env.crashes + 1
    BY <2>3, <1>4, <1>a DEF Crash, WorkerTypeOK, Env
  <2>4. thread'[w] = thread[w] /\ workers'[w] = workers[w] /\ env'.crashes \in {env.crashes, env.crashes + 1}
    <3>1. CASE \E t \in Threads : ThreadStep(x, t)
      BY <3>1, <2>1
    <3>2. CASE ~\E t \in Threads : ThreadStep(x, t)
      BY <1>4, <2>2, <2>3, <3>2 DEF CarefulWorker
    <3> QED BY <3>1, <3>2
  <2>5. Counting(w)' = Counting(w)
    BY <2>4 DEF Counting
  <2> QED BY <2>4, <2>5
<1>5. ASSUME Start(w) \/ PopJob(w) \/ Heartbeat(w) \/ (Silence(w) /\ proc[w] = "down")
      PROVE  /\ UNCHANGED thread /\ env'.crashes = env.crashes
             /\ workers'[w].jobs_processed = workers[w].jobs_processed
  BY <1>5, <1>a DEF Start, PopJob, Heartbeat, Silence, Beating, WorkerRow
<1>6. ASSUME WatchdogStep, UNCHANGED worker
      PROVE  /\ UNCHANGED thread /\ env'.crashes = env.crashes
             /\ workers'[w].jobs_processed = workers[w].jobs_processed
  <2>1. ASSUME NEW x \in Workers, MarkOffline(x)
        PROVE  env' = env /\ workers'[w].jobs_processed = workers[w].jobs_processed
    <3>1. env' = env /\ workers' = [workers EXCEPT ![x].status = "OFFLINE"]
      BY <2>1 DEF MarkOffline, mark_worker_offline
    <3> QED BY <3>1, <1>a DEF WorkerRow
  <2>2. CASE \/ CheckWorkers \/ SelectStuck \/ (\E j \in Jobs : RecoverJob(j))
             \/ RefetchStuck \/ PushStuck
    BY <1>6, <2>2 DEF CheckWorkers, SelectStuck, RecoverJob, RefetchStuck, PushStuck
  <2> QED BY <1>6, <2>1, <2>2 DEF WatchdogStep
<1>7. ASSUME SchedulerStep, UNCHANGED worker
      PROVE  UNCHANGED <<thread, env, workers>>
  BY <1>7 DEF SchedulerStep, FindDue, FireJob, PushFired
<1>8. ASSUME NEW c \in Clients, CarefulRequest(c), UNCHANGED worker
      PROVE  UNCHANGED <<thread, workers>> /\ env'.crashes = env.crashes
  BY <1>8, <1>a DEF CarefulRequest, SubmitNow, SubmitLater, CheckRetry, PushJob, RetryJob, RefetchJob, Env
<1>9. ASSUME ApiCrash \/ UNCHANGED vars
      PROVE  UNCHANGED <<thread, workers>> /\ env'.crashes = env.crashes
  BY <1>9, <1>a DEF ApiCrash, vars, Env
<1>c. ASSUME CarefulWorker(w)
      PROVE  \/ Start(w) \/ PopJob(w) \/ Heartbeat(w) \/ (Silence(w) /\ proc[w] = "down")
             \/ Crash(w)
             \/ \E t \in Threads : Count(w, t)
             \/ \E t \in Threads : ThreadStep(w, t) /\ ~Count(w, t)
  <2>1. ASSUME NEW t \in Threads, ThreadStep(w, t)
        PROVE  (\E u \in Threads : Count(w, u)) \/ \E u \in Threads : ThreadStep(w, u) /\ ~Count(w, u)
    <3>1. CASE Count(w, t)
      BY <3>1, Zenon
    <3>2. CASE ~Count(w, t)
      BY <3>2, <2>1, Zenon
    <3> QED BY <3>1, <3>2
  <2>2. CASE \E t \in Threads : ThreadStep(w, t)
    BY <2>1, <2>2, Zenon
  <2>3. CASE ~\E t \in Threads : ThreadStep(w, t)
    BY <1>c, <2>3 DEF CarefulWorker
  <2> QED BY <2>2, <2>3
<1>d. \/ CarefulWorker(w)
      \/ \E x \in Workers : x # w /\ CarefulWorker(x)
      \/ WatchdogStep /\ UNCHANGED worker
      \/ SchedulerStep /\ UNCHANGED worker
      \/ \E c \in Clients : CarefulRequest(c) /\ UNCHANGED worker
      \/ ApiCrash \/ UNCHANGED vars
  BY <1>a, CarefulSteps
<1> QED BY <1>q, <1>1, <1>2, <1>3, <1>4, <1>5, <1>6, <1>7, <1>8, <1>9, <1>c, <1>d

LEMMA CountStep ==
  ASSUME CrashesOnly, IsFiniteSet(Jobs), IsFiniteSet(Threads),
         TypeOK, CrashInv, CountInv, [Next]_vars
  PROVE  CountInv'
<1> SUFFICES ASSUME NEW w \in Workers
             PROVE  /\ counted(w)' <= Cardinality(CompletedBy(w))'
                    /\ env'.crashes = 0 => counted(w)' = Cardinality(CompletedBy(w))'
  BY DEF CountInv
<1> DEFINE n == workers[w].jobs_processed
           c == Cardinality(Counting(w))
           d == Cardinality(CompletedBy(w))
<1>a. /\ IsFiniteSet(Counting(w)) /\ IsFiniteSet(CompletedBy(w))
      /\ n \in Nat /\ c \in Nat /\ d \in Nat /\ env.crashes \in Nat
  <2>1. IsFiniteSet(Counting(w)) /\ IsFiniteSet(CompletedBy(w))
    BY FS_Subset DEF Counting, CompletedBy
  <2> QED BY <2>1, FS_CardinalityType DEF TypeOK, StoreTypeOK, WorkerRow, Env
<1>b. n + c <= d /\ (env.crashes = 0 => n + c = d)
  BY DEF CountInv, counted
<1>1. CASE \E t \in Threads : Complete(w, t)
  <2>1. PICK t \in Threads : Complete(w, t)
    BY <1>1
  <2>2. Cardinality(Counting(w)') = c + 1
    BY <2>1, <1>a, CompleteCounts, FS_AddElement
  <2>3. Cardinality(CompletedBy(w)') = d + 1
    BY <2>1, <1>a, CompleteCounts, FS_AddElement
  <2>4. workers' = workers /\ env' = env
    BY <2>1, CompleteCounts
  <2> QED BY <2>2, <2>3, <2>4, <1>a, <1>b DEF counted
<1>2. CASE \A t \in Threads : ~Complete(w, t)
  <2>1. CompletedBy(w)' = CompletedBy(w)
    BY <1>2, CompletedRow
  <2>2. CASE /\ Counting(w)' = Counting(w) /\ env'.crashes \in {env.crashes, env.crashes + 1}
             /\ workers'[w].jobs_processed = n
    BY <2>1, <2>2, <1>a, <1>b DEF counted
  <2>3. CASE /\ \E t \in Counting(w) : Counting(w)' = Counting(w) \ {t}
             /\ workers'[w].jobs_processed = n + 1 /\ UNCHANGED env
    <3>1. Cardinality(Counting(w)') = c - 1
      BY <2>3, <1>a, FS_RemoveElement
    <3> QED BY <3>1, <2>1, <2>3, <1>a, <1>b DEF counted
  <2>4. CASE /\ Counting(w)' = {} /\ env'.crashes = env.crashes + 1
             /\ workers'[w].jobs_processed = n
    <3>1. Cardinality(Counting(w)') = 0
      BY <2>4, FS_EmptySet
    <3> QED BY <3>1, <2>1, <2>4, <1>a, <1>b DEF counted
  <2> QED BY <1>2, <2>2, <2>3, <2>4, OtherCounts
<1> QED BY <1>1, <1>2

\* When kills are the only disturbance and no job is deleted, a worker's counter
\* never runs ahead of the COMPLETED rows that name it, and falls behind only
\* after a worker is killed (worker.py:133-134, metrics.py:165-177).
THEOREM WorkersAreCredited ==
  ASSUME CrashesOnly, IsFiniteSet(Jobs), IsFiniteSet(Threads)
  PROVE  Spec => []CountersAgree
<1>1. Init => QueueInv /\ CrashInv /\ TimesFit /\ CountInv
  <2>1. ASSUME Init, NEW w \in Workers
        PROVE  workers[w].jobs_processed = 0 /\ Counting(w) = {} /\ CompletedBy(w) = {}
    BY <2>1 DEF Init, StoreInit, WorkerInit, IdleThread, Counting, CompletedBy
  <2>2. Init => CountInv
    BY <2>1, FS_EmptySet DEF CountInv, counted
  <2> QED BY <2>2, InitQueueInv, CrashInit, TimesInit
<1>2. QueueInv /\ CrashInv /\ TimesFit /\ CountInv /\ [Next]_vars =>
        QueueInv' /\ CrashInv' /\ TimesFit' /\ CountInv'
  BY QueueInvStep, CrashStep, TimesStep, CountStep DEF QueueInv
<1>3. TimesFit /\ CountInv => CountersAgree
  <2> SUFFICES ASSUME TimesFit, CountInv, NEW w \in Workers
               PROVE  /\ counted(w) <= get_worker_performance(w).completed
                      /\ env.crashes = 0 => counted(w) = get_worker_performance(w).completed
    BY DEF CountersAgree, counted, Counting, get_worker_performance
  <2>1. {j \in JobsOf(w) : jobs[j].status = "COMPLETED"} = CompletedBy(w)
    BY DEF JobsOf, CompletedBy, TimesFit, Timed, Exists
  <2>2. get_worker_performance(w).completed = Cardinality(CompletedBy(w))
    BY <2>1 DEF get_worker_performance
  <2> QED BY <2>2 DEF CountInv
<1> QED BY <1>1, <1>2, <1>3, PTL DEF Spec
=============================================================================
