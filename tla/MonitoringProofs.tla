--------------------------- MODULE MonitoringProofs --------------------------
(***************************************************************************)
(* That _active_jobs is what the worker is doing, proved for any number of *)
(* workers, threads and jobs.                                              *)
(***************************************************************************)
EXTENDS Monitoring, TLAPS

\* As long as no worker gets a job it already has, its threads have different
\* jobs, so that no discard takes away the id of another thread's job.
OwnJob ==
  env.copies = 0 =>
    \A w \in Workers : \A t, u \in Threads :
      /\ thread[w][t].pc # "idle" /\ thread[w][u].pc # "idle"
      /\ thread[w][t].id = thread[w][u].id
      => t = u

IInv == MonitoringTypeOK /\ ActiveJobsAreReal /\ OwnJob

LEMMA InitIInv == Init => IInv
<1> SUFFICES ASSUME Init PROVE IInv
  OBVIOUS
<1>1. MonitoringTypeOK
  BY MonitoringAssumption
     DEF Init, MonitoringTypeOK, WorkerRow, Oldest, ThreadState, IdleThread, NoBeat
<1>2. ActiveJobsAreReal
  BY DEF Init, ActiveJobsAreReal, HasOnThread, IdleThread
<1>3. OwnJob
  BY DEF Init, OwnJob, IdleThread
<1> QED BY <1>1, <1>2, <1>3 DEF IInv

-----------------------------------------------------------------------------
(* Steps that touch neither _active_jobs nor the threads *)

LEMMA RowTypes ==
  ASSUME row \in [Workers -> WorkerRow], NEW w \in Workers
  PROVE  /\ register_worker(w) => row' \in [Workers -> WorkerRow]
         /\ mark_worker_offline(w) => row' \in [Workers -> WorkerRow]
         /\ \A s \in {"IDLE", "RUNNING"}, j \in Jobs \union {NoJob} :
              heartbeat(w, s, j) => row' \in [Workers -> WorkerRow]
<1>0. 0 \in 0 .. Oldest
  BY MonitoringAssumption DEF Oldest
<1>1. ASSUME register_worker(w) PROVE row' \in [Workers -> WorkerRow]
  BY <1>0, <1>1 DEF register_worker, WorkerRow
<1>2. ASSUME mark_worker_offline(w) PROVE row' \in [Workers -> WorkerRow]
  BY <1>2 DEF mark_worker_offline, WorkerRow
<1>3. ASSUME NEW s \in {"IDLE", "RUNNING"}, NEW j \in Jobs \union {NoJob}, heartbeat(w, s, j)
      PROVE  row' \in [Workers -> WorkerRow]
  BY <1>0, <1>3 DEF heartbeat, WorkerRow
<1> QED BY <1>1, <1>2, <1>3

LEMMA RaiseType ==
  ASSUME MonitoringTypeOK, CallRaises
  PROVE  /\ env' \in [errors : Nat, copies : Nat]
         /\ env'.errors # 0
         /\ env'.copies = env.copies
  BY DEF MonitoringTypeOK, CallRaises

\* A call that raises only adds to env.errors.
Milder == env'.copies = env.copies /\ (env'.errors = 0 => env.errors = 0)

LEMMA Untouched ==
  ASSUME ActiveJobsAreReal, OwnJob, UNCHANGED <<active, thread>>, Milder
  PROVE  ActiveJobsAreReal' /\ OwnJob'
  BY DEF ActiveJobsAreReal, OwnJob, HasOnThread, Milder

\* Start, sign-off, heartbeats.
LEMMA ProcessStep ==
  ASSUME IInv, NEW w \in Workers,
         \/ Start(w) \/ Stop(w) \/ LeaveLoop(w) \/ SignOff(w) \/ SignOffRaises(w)
         \/ HeartbeatStep(w) \/ WriteBeatRaises(w)
  PROVE  IInv'
<1>a. MonitoringTypeOK /\ ActiveJobsAreReal /\ OwnJob
  BY DEF IInv
<1>b. UNCHANGED <<active, thread>> /\ Milder
  <2>1. CASE Start(w)
    BY <2>1 DEF Start, Milder
  <2>2. CASE Stop(w)
    BY <2>2 DEF Stop, Milder
  <2>3. CASE LeaveLoop(w)
    BY <2>3, <1>a, RaiseType DEF LeaveLoop, Milder
  <2>4. CASE SignOff(w)
    BY <2>4 DEF SignOff, Milder
  <2>5. CASE SignOffRaises(w)
    BY <2>5, <1>a, RaiseType DEF SignOffRaises, Milder
  <2>6. CASE HeartbeatStep(w)
    BY <2>6 DEF HeartbeatStep, ReadActive, WriteBeat, Milder
  <2>7. CASE WriteBeatRaises(w)
    BY <2>7, <1>a, RaiseType DEF WriteBeatRaises, Milder
  <2> QED BY <2>1, <2>2, <2>3, <2>4, <2>5, <2>6, <2>7
<1>1. MonitoringTypeOK'
  <2>1. CASE Start(w)
    BY <2>1, <1>a, RowTypes DEF Start, MonitoringTypeOK
  <2>2. CASE Stop(w)
    BY <2>2, <1>a DEF Stop, MonitoringTypeOK
  <2>3. CASE LeaveLoop(w)
    BY <2>3, <1>a, RaiseType DEF LeaveLoop, MonitoringTypeOK
  <2>4. CASE SignOff(w)
    BY <2>4, <1>a, RowTypes DEF SignOff, MonitoringTypeOK
  <2>5. CASE SignOffRaises(w)
    BY <2>5, <1>a, RaiseType DEF SignOffRaises, MonitoringTypeOK
  <2>6. CASE ReadActive(w)
    <3>1. \A j \in active[w] : j \in Jobs
      BY <1>a DEF MonitoringTypeOK
    <3>2. PICK new \in Beat : beat' = [beat EXCEPT ![w] = new]
      BY <2>6, <3>1 DEF ReadActive, Beat
    <3> QED BY <2>6, <3>2, <1>a DEF ReadActive, MonitoringTypeOK
  <2>7. CASE WriteBeat(w)
    <3>1. beat[w] \in Beat
      BY <2>7, <1>a DEF WriteBeat, MonitoringTypeOK
    <3>2. beat[w].status \in {"IDLE", "RUNNING"} /\ beat[w].job \in Jobs \union {NoJob}
      BY <3>1 DEF Beat
    <3>3. row' \in [Workers -> WorkerRow]
      BY <2>7, <3>2, <1>a, RowTypes DEF WriteBeat, MonitoringTypeOK
    <3> QED BY <2>7, <3>3, <1>a DEF WriteBeat, MonitoringTypeOK
  <2>8. CASE WriteBeatRaises(w)
    BY <2>8, <1>a, RaiseType DEF WriteBeatRaises, MonitoringTypeOK
  <2> QED BY <2>1, <2>2, <2>3, <2>4, <2>5, <2>6, <2>7, <2>8 DEF HeartbeatStep
<1> QED BY <1>1, <1>a, <1>b, Untouched DEF IInv

\* The watchdog and the clock.
LEMMA OutsideStep ==
  ASSUME IInv, WatchdogStep \/ PassEnds \/ Tick
  PROVE  IInv'
<1>a. MonitoringTypeOK /\ ActiveJobsAreReal /\ OwnJob
  BY DEF IInv
<1>1. CASE CheckWorkers
  <2>1. MonitoringTypeOK'
    BY <1>1, <1>a DEF CheckWorkers, Worker, MonitoringTypeOK
  <2> QED BY <1>1, <2>1, <1>a, Untouched DEF CheckWorkers, Worker, Milder, IInv
<1>2. ASSUME NEW w \in Workers, MarkOffline(w)
      PROVE  IInv'
  <2>1. MonitoringTypeOK'
    BY <1>2, <1>a, RowTypes DEF MarkOffline, Worker, MonitoringTypeOK
  <2> QED BY <1>2, <2>1, <1>a, Untouched DEF MarkOffline, Worker, Milder, IInv
<1>3. CASE PassEnds
  <2>1. MonitoringTypeOK'
    BY <1>3, <1>a, RaiseType DEF PassEnds, Worker, MonitoringTypeOK
  <2> QED BY <1>3, <2>1, <1>a, RaiseType, Untouched DEF PassEnds, Worker, Milder, IInv
<1>4. CASE Tick
  <2>1. ASSUME NEW w \in Workers
        PROVE  [row[w] EXCEPT !.age = IF @ = Oldest THEN Oldest ELSE @ + 1] \in WorkerRow
    <3>1. row[w] \in WorkerRow /\ Oldest \in Nat
      BY <1>a, MonitoringAssumption DEF MonitoringTypeOK, Oldest
    <3>2. row[w].age \in 0 .. Oldest
      BY <3>1 DEF WorkerRow
    <3> DEFINE age == IF row[w].age = Oldest THEN Oldest ELSE row[w].age + 1
    <3>3. age \in 0 .. Oldest
      BY <3>1, <3>2
    <3> HIDE DEF age
    <3>4. [row[w] EXCEPT !.age = age] \in WorkerRow
      BY <3>1, <3>3 DEF WorkerRow
    <3> QED BY <3>4 DEF age
  <2>2. row' \in [Workers -> WorkerRow]
    BY <1>4, <2>1 DEF Tick
  <2>3. MonitoringTypeOK'
    BY <1>4, <2>2, <1>a DEF Tick, Worker, MonitoringTypeOK
  <2> QED BY <1>4, <2>3, <1>a, Untouched DEF Tick, Worker, Milder, IInv
<1> QED BY <1>1, <1>2, <1>3, <1>4 DEF WatchdogStep

-----------------------------------------------------------------------------
(* Steps of the pool threads, and the end of a process *)

\* One thread of w gets a new state; _active_jobs of w becomes `ids`.
LEMMA ThreadMoveType ==
  ASSUME MonitoringTypeOK, NEW w \in Workers, NEW t \in Threads,
         NEW new \in ThreadState, new.pc # "idle" => new.id \in Jobs,
         NEW ids \in SUBSET Jobs,
         thread' = [thread EXCEPT ![w][t] = new],
         active' = [active EXCEPT ![w] = ids],
         UNCHANGED <<row, proc, running, beat, late>>,
         env' \in [errors : Nat, copies : Nat]
  PROVE  /\ MonitoringTypeOK'
         /\ thread'[w][t] = new
         /\ \A v \in Workers, u \in Threads : v # w \/ u # t => thread'[v][u] = thread[v][u]
         /\ active'[w] = ids
         /\ \A v \in Workers \ {w} : active'[v] = active[v]
  BY DEF MonitoringTypeOK

LEMMA IdleType == IdleThread \in ThreadState /\ IdleThread.pc = "idle"
  BY DEF IdleThread, ThreadState

LEMMA PickUpStep ==
  ASSUME IInv, NEW w \in Workers, NEW t \in Threads, NEW j \in Jobs, PickUp(w, t, j)
  PROVE  IInv'
<1> DEFINE new == [pc |-> "picked", id |-> j]
           ids == active[w] \union {j}
<1>a. MonitoringTypeOK /\ ActiveJobsAreReal /\ OwnJob
  BY DEF IInv
<1>b. /\ thread[w][t].pc = "idle"
      /\ thread' = [thread EXCEPT ![w][t] = new]
      /\ active' = [active EXCEPT ![w] = ids]
      /\ UNCHANGED <<row, proc, running, beat, late>>
  BY DEF PickUp
<1>c. new \in ThreadState /\ new.pc # "idle" /\ new.id = j /\ ids \in SUBSET Jobs
  BY <1>a DEF ThreadState, MonitoringTypeOK
<1>d. /\ env' \in [errors : Nat, copies : Nat]
      /\ env'.errors = env.errors
      /\ env'.copies = 0 => env.copies = 0 /\ ~HasOnThread(w, j)
  BY <1>a DEF PickUp, MonitoringTypeOK
<1> HIDE DEF new
<1>1. /\ MonitoringTypeOK'
      /\ thread'[w][t] = new
      /\ \A v \in Workers, u \in Threads : v # w \/ u # t => thread'[v][u] = thread[v][u]
      /\ active'[w] = ids
      /\ \A v \in Workers \ {w} : active'[v] = active[v]
  <2> HIDE DEF ids
  <2> QED BY <1>a, <1>b, <1>c, <1>d, ThreadMoveType
<1>2. ActiveJobsAreReal'
  BY <1>1, <1>a, <1>b, <1>c, <1>d DEF ActiveJobsAreReal, HasOnThread
<1>3. OwnJob'
  BY <1>1, <1>a, <1>b, <1>c, <1>d DEF OwnJob, HasOnThread
<1> QED BY <1>1, <1>2, <1>3 DEF IInv

LEMMA ExecuteStep ==
  ASSUME IInv, NEW w \in Workers, NEW t \in Threads, Execute(w, t)
  PROVE  IInv'
<1> DEFINE new == [thread[w][t] EXCEPT !.pc = "trying"]
           ids == active[w]
<1>a. MonitoringTypeOK /\ ActiveJobsAreReal /\ OwnJob
  BY DEF IInv
<1>b. thread[w][t] \in ThreadState /\ thread[w][t].pc = "picked" /\ thread[w][t].id \in Jobs
  BY <1>a DEF Execute, MonitoringTypeOK
<1>c. new \in ThreadState /\ new.pc # "idle" /\ new.id = thread[w][t].id /\ ids \in SUBSET Jobs
  BY <1>a, <1>b DEF ThreadState, MonitoringTypeOK
<1>d. /\ thread' = [thread EXCEPT ![w][t] = new]
      /\ active' = [active EXCEPT ![w] = ids]
      /\ UNCHANGED <<row, proc, running, beat, late, env>>
  BY <1>a DEF Execute, MonitoringTypeOK
<1> HIDE DEF new, ids
<1>1. /\ MonitoringTypeOK'
      /\ thread'[w][t] = new
      /\ \A v \in Workers, u \in Threads : v # w \/ u # t => thread'[v][u] = thread[v][u]
  BY <1>a, <1>b, <1>c, <1>d, ThreadMoveType DEF MonitoringTypeOK
<1>2. active' = active
  BY DEF Execute
<1>3. \A v \in Workers, u \in Threads :
        /\ thread'[v][u].id = thread[v][u].id
        /\ thread'[v][u].pc = "idle" <=> thread[v][u].pc = "idle"
  BY <1>1, <1>b, <1>c
<1>4. ActiveJobsAreReal' /\ OwnJob'
  BY <1>2, <1>3, <1>d, <1>a DEF ActiveJobsAreReal, OwnJob, HasOnThread
<1> QED BY <1>1, <1>4 DEF IInv

\* The id is left behind, and env.errors says so.
LEMMA PickUpRaisesStep ==
  ASSUME IInv, NEW w \in Workers, NEW t \in Threads, PickUpRaises(w, t)
  PROVE  IInv'
<1> DEFINE ids == active[w]
<1>a. MonitoringTypeOK /\ ActiveJobsAreReal /\ OwnJob
  BY DEF IInv
<1>b. /\ thread' = [thread EXCEPT ![w][t] = IdleThread]
      /\ active' = [active EXCEPT ![w] = ids]
      /\ UNCHANGED <<row, proc, running, beat, late>>
      /\ ids \in SUBSET Jobs
  BY <1>a DEF PickUpRaises, MonitoringTypeOK
<1>c. /\ env' \in [errors : Nat, copies : Nat]
      /\ env'.errors # 0
      /\ env'.copies = env.copies
  BY <1>a, RaiseType DEF PickUpRaises
<1> HIDE DEF ids
<1>1. /\ MonitoringTypeOK'
      /\ thread'[w][t] = IdleThread
      /\ \A v \in Workers, u \in Threads : v # w \/ u # t => thread'[v][u] = thread[v][u]
      /\ active'[w] = ids
      /\ \A v \in Workers \ {w} : active'[v] = active[v]
  <2>1. env' \in [errors : Nat, copies : Nat]
    BY <1>c
  <2>2. IdleThread.pc # "idle" => IdleThread.id \in Jobs
    BY IdleType
  <2> QED BY <1>a, <1>b, <2>1, <2>2, IdleType, ThreadMoveType
<1>2. active' = active
  BY DEF PickUpRaises
<1>3. ActiveJobsAreReal' /\ OwnJob'
  BY <1>1, <1>2, <1>c, <1>a, IdleType DEF ActiveJobsAreReal, OwnJob, HasOnThread
<1> QED BY <1>1, <1>3 DEF IInv

\* The discard is right because no other thread has the job, or env.copies
\* says that one may.
LEMMA FinishStep ==
  ASSUME IInv, NEW w \in Workers, NEW t \in Threads, Finish(w, t)
  PROVE  IInv'
<1> DEFINE ids == active[w] \ {thread[w][t].id}
<1>a. MonitoringTypeOK /\ ActiveJobsAreReal /\ OwnJob
  BY DEF IInv
<1>b. /\ thread[w][t].pc = "trying"
      /\ thread' = [thread EXCEPT ![w][t] = IdleThread]
      /\ active' = [active EXCEPT ![w] = ids]
      /\ UNCHANGED <<row, proc, running, beat, late, env>>
      /\ ids \in SUBSET Jobs
  BY <1>a DEF Finish, MonitoringTypeOK
<1>1. /\ MonitoringTypeOK'
      /\ thread'[w][t] = IdleThread
      /\ \A v \in Workers, u \in Threads : v # w \/ u # t => thread'[v][u] = thread[v][u]
      /\ active'[w] = ids
      /\ \A v \in Workers \ {w} : active'[v] = active[v]
  <2> HIDE DEF ids
  <2>1. env' \in [errors : Nat, copies : Nat]
    BY <1>a, <1>b DEF MonitoringTypeOK
  <2> QED BY <1>a, <1>b, <2>1, IdleType, ThreadMoveType
<1>2. ActiveJobsAreReal'
  <2>1. ASSUME NEW v \in Workers, env.errors = 0, NEW j \in active'[v]
        PROVE  HasOnThread(v, j)'
    BY <2>1, <1>1, <1>b, <1>a DEF ActiveJobsAreReal, HasOnThread
  <2>2. ASSUME NEW v \in Workers, env.copies = 0, NEW j \in Jobs, HasOnThread(v, j)'
        PROVE  j \in active'[v]
    <3>1. PICK u \in Threads : thread'[v][u].pc # "idle" /\ thread'[v][u].id = j
      BY <2>2 DEF HasOnThread
    <3>2. v # w \/ u # t
      BY <3>1, <1>1, IdleType
    <3>3. thread[v][u].pc # "idle" /\ thread[v][u].id = j
      BY <3>1, <3>2, <1>1
    <3>4. j \in active[v]
      BY <2>2, <3>3, <1>a DEF ActiveJobsAreReal, HasOnThread
    <3>5. v = w => j # thread[w][t].id
      BY <2>2, <3>2, <3>3, <1>a, <1>b DEF OwnJob
    <3> QED BY <3>4, <3>5, <1>1
  <2> QED BY <2>1, <2>2, <1>b DEF ActiveJobsAreReal
<1>3. OwnJob'
  BY <1>1, <1>a, <1>b, IdleType DEF OwnJob
<1> QED BY <1>1, <1>2, <1>3 DEF IInv

LEMMA VanishStep ==
  ASSUME IInv, NEW w \in Workers, Vanish(w)
  PROVE  IInv'
<1>a. MonitoringTypeOK /\ ActiveJobsAreReal /\ OwnJob
  BY DEF IInv
<1>1. MonitoringTypeOK'
  BY <1>a, IdleType DEF Vanish, MonitoringTypeOK
<1>2. /\ active'[w] = {} /\ \A t \in Threads : thread'[w][t].pc = "idle"
      /\ \A v \in Workers \ {w} : active'[v] = active[v] /\ thread'[v] = thread[v]
      /\ UNCHANGED env
  BY <1>a, IdleType DEF Vanish, MonitoringTypeOK
<1>3. ActiveJobsAreReal'
  BY <1>2, <1>a DEF ActiveJobsAreReal, HasOnThread
<1>4. OwnJob'
  BY <1>2, <1>a DEF OwnJob
<1> QED BY <1>1, <1>3, <1>4 DEF IInv

-----------------------------------------------------------------------------
LEMMA NextIInv == IInv /\ [Next]_vars => IInv'
<1> SUFFICES ASSUME IInv, [Next]_vars PROVE IInv'
  OBVIOUS
<1>1. ASSUME NEW w \in Workers,
             \/ Start(w) \/ Stop(w) \/ LeaveLoop(w) \/ SignOff(w) \/ SignOffRaises(w)
             \/ HeartbeatStep(w) \/ WriteBeatRaises(w)
      PROVE  IInv'
  BY <1>1, ProcessStep
<1>2. ASSUME NEW w \in Workers, Exit(w) \/ Kill(w)
      PROVE  IInv'
  BY <1>2, VanishStep DEF Exit, Kill
<1>3. ASSUME NEW w \in Workers, NEW t \in Threads,
             (\E j \in Jobs : PickUp(w, t, j)) \/ ThreadStep(w, t) \/ PickUpRaises(w, t)
      PROVE  IInv'
  BY <1>3, PickUpStep, ExecuteStep, FinishStep, PickUpRaisesStep DEF ThreadStep
<1>4. CASE WatchdogStep \/ PassEnds \/ Tick
  BY <1>4, OutsideStep
<1>5. CASE UNCHANGED vars
  BY <1>5 DEF vars, IInv, MonitoringTypeOK, ActiveJobsAreReal, OwnJob, HasOnThread
<1> QED BY <1>1, <1>2, <1>3, <1>4, <1>5 DEF Next

LEMMA Invariance == Spec => []IInv
  BY InitIInv, NextIInv, PTL DEF Spec

\* The heartbeat loop, the pool threads and the watchdog keep the types of what
\* they share, and a thread that is not idle always has a job (MonitoringTypeOK).
THEOREM MonitoringTypeCorrect == Spec => []MonitoringTypeOK
<1>1. IInv => MonitoringTypeOK
  BY DEF IInv
<1> QED BY <1>1, Invariance, PTL

\* The set that every heartbeat reads is the set of jobs on the worker's
\* threads, up to the two ways in which it can go wrong: a call that raises
\* before the try block (worker.py:127) and a job that runs twice on one worker
\* (worker.py:170).
THEOREM ActiveJobsAreRight == Spec => []ActiveJobsAreReal
<1>1. IInv => ActiveJobsAreReal
  BY DEF IInv
<1> QED BY <1>1, Invariance, PTL
=============================================================================
