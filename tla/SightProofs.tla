----------------------------- MODULE SightProofs -----------------------------
(***************************************************************************)
(* The watchdog's pass misses no row, for any number of jobs, workers,     *)
(* threads and clients.  The argument: a worker marked OFFLINE goes        *)
(* straight into the hands of the pass, the pass keeps every row it has    *)
(* selected until it has re-queued it, and nobody but the pass writes the  *)
(* pass.                                                                   *)
(***************************************************************************)
EXTENDS RowProofs

\* The pass has worker w on its list, or is handling it and has not yet been
\* past row j.
Seen(w, j) ==
  \/ w \in wd.due
  \/ wd.worker = w /\ (wd.pc = "select" \/ j \in wd.stuck)

\* Between passes nothing is listed; before the SELECT nothing is selected.
PassInv ==
  /\ wd.pc = "sleep" => wd.due = {} /\ wd.stuck = {}
  /\ wd.pc \in {"mark", "select"} => wd.stuck = {}

\* What Resume keeps: the workers still to come, and the rows left.
LEMMA ResumeKeeps ==
  ASSUME wd \in WatchdogState, NEW left \in SUBSET Jobs, wd' = Resume(left)
  PROVE  /\ PassInv'
         /\ wd'.due = wd.due
         /\ left # {} => wd'.worker = wd.worker /\ wd'.stuck = left
<1>1. CASE left # {}
  BY <1>1 DEF Resume, WatchdogState, PassInv
<1>2. CASE left = {} /\ wd.due # {}
  BY <1>2 DEF Resume, WatchdogState, Asleep, PassInv
<1>3. CASE left = {} /\ wd.due = {}
  BY <1>3 DEF Resume, WatchdogState, Asleep, PassInv
<1> QED BY <1>1, <1>2, <1>3

LEMMA AsleepPasses == wd' = Asleep => PassInv'
  BY DEF Asleep, PassInv

LEMMA PassInvStep == TypeOK /\ PassInv /\ [Next]_vars => PassInv'
<1> SUFFICES ASSUME TypeOK, PassInv, [Next]_vars
             PROVE  PassInv'
  OBVIOUS
<1>a. wd \in WatchdogState
  BY DEF TypeOK, WatchdogTypeOK
<1>1. CASE UNCHANGED wd
  BY <1>1 DEF PassInv
<1>2. CASE WatchdogNext
  <2>1. CASE CheckWorkers
    BY <2>1 DEF CheckWorkers, Asleep, PassInv
  <2>2. ASSUME NEW w \in Workers, MarkOffline(w)
        PROVE  PassInv'
    BY <2>2, <1>a DEF MarkOffline, WatchdogState, PassInv
  <2>3. CASE SelectStuck
    <3>1. \E left \in SUBSET Jobs : wd' = Resume(left)
      BY <2>3 DEF SelectStuck
    <3> QED BY <3>1, <1>a, ResumeKeeps
  <2>4. ASSUME NEW k \in Jobs, RecoverJob(k)
        PROVE  PassInv'
    BY <2>4, <1>a DEF RecoverJob, WatchdogState, PassInv
  <2>5. CASE RefetchStuck
    BY <2>5, <1>a DEF RefetchStuck, WatchdogState, PassInv
  <2>6. CASE PushStuck
    <3>1. wd' = Asleep \/ (wd' = Resume(wd.stuck) /\ wd.stuck \in SUBSET Jobs)
      BY <2>6, <1>a DEF PushStuck, WatchdogState
    <3> QED BY <3>1, <1>a, ResumeKeeps, AsleepPasses
  <2>7. CASE WatchdogRaises
    BY <2>7, AsleepPasses DEF WatchdogRaises
  <2> QED BY <1>2, <2>1, <2>2, <2>3, <2>4, <2>5, <2>6, <2>7 DEF WatchdogNext, WatchdogStep
<1>3. CASE ApiCrash
  BY <1>3, AsleepPasses DEF ApiCrash
<1> QED BY <1>1, <1>2, <1>3 DEF Next, vars

-----------------------------------------------------------------------------
\* A row that stays as it is, RUNNING on w, stays in sight of the pass, unless
\* json.dumps ends the pass.
LEMMA PassKeepsSight ==
  ASSUME TypeOK, PassInv, WatchdogStep, ~(wd.pc = "push" /\ wd.doc.raw),
         NEW j \in Jobs, jobs[j].status = "RUNNING", jobs'[j] = jobs[j],
         NEW w \in Workers, jobs[j].worker_id = w, Seen(w, j)
  PROVE  Seen(w, j)'
<1>a. wd \in WatchdogState /\ jobs \in [Jobs -> Row]
  BY DEF TypeOK, WatchdogTypeOK, StoreTypeOK
<1>1. CASE CheckWorkers
  BY <1>1 DEF CheckWorkers, PassInv, Seen
<1>2. ASSUME NEW x \in Workers, MarkOffline(x)
      PROVE  Seen(w, j)'
  <2>1. /\ wd.pc = "mark" /\ wd.stuck = {}
        /\ wd'.due = wd.due \ {x} /\ wd'.worker = x /\ wd'.pc = "select"
    BY <1>2, <1>a DEF MarkOffline, WatchdogState, PassInv
  <2> QED BY <2>1 DEF Seen
<1>3. CASE SelectStuck
  <2> DEFINE left == {k \in Jobs : jobs[k].status = "RUNNING" /\ jobs[k].worker_id = wd.worker}
  <2>1. wd.pc = "select" /\ wd.stuck = {} /\ wd' = Resume(left) /\ left \in SUBSET Jobs
    BY <1>3 DEF SelectStuck, PassInv
  <2>2. wd.worker = w => j \in left
    OBVIOUS
  <2> HIDE DEF left
  <2>3. wd'.due = wd.due /\ (left # {} => wd'.worker = wd.worker /\ wd'.stuck = left)
    BY <2>1, <1>a, ResumeKeeps
  <2> QED BY <2>2, <2>3, <2>1 DEF Seen
<1>4. ASSUME NEW k \in Jobs, RecoverJob(k)
      PROVE  Seen(w, j)'
  <2>1. k # j
    BY <1>4, <1>a DEF RecoverJob, update_job, Exists, Row
  <2>2. /\ wd.pc = "recover"
        /\ wd'.due = wd.due /\ wd'.worker = wd.worker /\ wd'.stuck = wd.stuck \ {k}
    BY <1>4, <1>a DEF RecoverJob, WatchdogState
  <2> QED BY <2>1, <2>2 DEF Seen
<1>5. CASE RefetchStuck
  <2>1. /\ wd.pc = "refetch"
        /\ wd'.due = wd.due /\ wd'.worker = wd.worker /\ wd'.stuck = wd.stuck
    BY <1>5, <1>a DEF RefetchStuck, WatchdogState
  <2> QED BY <2>1 DEF Seen
<1>6. CASE PushStuck
  <2>1. wd.pc = "push" /\ wd' = Resume(wd.stuck) /\ wd.stuck \in SUBSET Jobs
    BY <1>6, <1>a DEF PushStuck, WatchdogState
  <2>2. wd'.due = wd.due /\ (wd.stuck # {} => wd'.worker = wd.worker /\ wd'.stuck = wd.stuck)
    BY <2>1, <1>a, ResumeKeeps
  <2> QED BY <2>1, <2>2 DEF Seen
<1> QED BY <1>1, <1>2, <1>3, <1>4, <1>5, <1>6 DEF WatchdogStep

\* Without a fault, a row that is RUNNING with nobody on it has not been written.
LEMMA StrayRowsStay ==
  ASSUME TypeOK, [Next]_vars, Faults' = Faults,
         NEW j \in Jobs, jobs'[j].status = "RUNNING", ~Carried(j)'
  PROVE  jobs'[j] = jobs[j]
<1> USE DEF store, worker
<1>a. /\ jobs \in [Jobs -> Row] /\ WorkerTypeOK /\ env \in Env /\ ~CallRaises
      /\ \A k \in Jobs : jobs[k] \in Row
  BY FaultsGrow DEF TypeOK, StoreTypeOK
<1>1. CASE WorkerNext
  <2>1. ASSUME NEW w \in Workers, NEW t \in Threads, ThreadStep(w, t)
        PROVE  jobs'[j] = jobs[j]
    <3> DEFINE self == thread[w][t]
    <3>a. self \in ThreadState /\ (self.pc # "idle" => self.id \in Jobs)
      BY <1>a, ThreadType
    <3>1. CASE PickUp(w, t)
      <4>1. self.id # j
        <5>1. thread'[w][t].pc = "executing" /\ thread'[w][t].id = self.id
          BY <3>1, <3>a, <1>a DEF PickUp, Goto, WorkerTypeOK, ThreadState
        <5> QED BY <5>1 DEF Carried, WithWorker, OnThread
      <4> QED BY <3>1, <4>1, <3>a, <1>a, OtherRows DEF PickUp, MarkRunning
    <3>2. CASE Complete(w, t)
      BY <3>2, <3>a, <1>a DEF Complete, update_job, Row
    <3>3. CASE RetryLater(w, t)
      BY <3>3, <3>a, <1>a DEF RetryLater, update_job, Row
    <3>4. CASE GiveUp(w, t)
      BY <3>4, <3>a, <1>a DEF GiveUp, update_job, Row
    <3>5. CASE UNCHANGED jobs
      BY <3>5
    <3> QED BY <2>1, <3>1, <3>2, <3>3, <3>4, <3>5
            DEF ThreadStep, StartTask, DropNull, ExecuteFails, Count, Refetch, Requeue, PushDLQ
  <2>2. ASSUME NEW w \in Workers,
               Start(w) \/ MainStep(w) \/ Stop(w) \/ Crash(w) \/ Heartbeat(w) \/ Silence(w)
        PROVE  jobs'[j] = jobs[j]
    BY <2>2 DEF Start, MainStep, PopJob, LeaveLoop, Shutdown, Stop, Crash, Heartbeat, Silence
  <2> QED BY <1>1, <1>a, <2>1, <2>2
          DEF WorkerNext, PopRaises, ShutdownRaises, PickUpThenRaise, CountRaises, ThreadRaises
<1>2. CASE WatchdogNext \/ SchedulerNext \/ JobsApiNext
  BY <1>2, OthersStop
<1>3. CASE ApiCrash \/ UNCHANGED vars
  BY <1>3 DEF ApiCrash, vars
<1> QED BY <1>1, <1>2, <1>3 DEF Next

\* A worker's row turns OFFLINE when it signs off or when the watchdog marks it.
LEMMA TurnsOffline ==
  ASSUME TypeOK, [Next]_vars, NEW w \in Workers,
         workers'[w].status = "OFFLINE", ~\E x \in Workers : Shutdown(x), ~MarkOffline(w)
  PROVE  workers[w].status = "OFFLINE"
<1> USE DEF store
<1>a. workers \in [Workers -> WorkerRow] /\ \A x \in Workers : workers[x] \in WorkerRow
  BY DEF TypeOK, StoreTypeOK
<1>1. CASE WorkerNext
  <2>1. ASSUME NEW x \in Workers, NEW t \in Threads,
               \/ ThreadStep(x, t) \/ PickUpThenRaise(x, t) \/ CountRaises(x, t)
               \/ ThreadRaises(x, t)
        PROVE  workers[w].status = "OFFLINE"
    <3>1. increment_jobs_processed(x) \/ UNCHANGED workers
      BY <2>1 DEF ThreadStep, StartTask, DropNull, PickUp, Complete, ExecuteFails, Count, RetryLater,
                  Refetch, Requeue, GiveUp, PushDLQ, PickUpThenRaise, CountRaises, ThreadRaises
    <3> QED BY <3>1, <1>a DEF increment_jobs_processed, WorkerRow
  <2>2. ASSUME NEW x \in Workers, Start(x) \/ Heartbeat(x)
        PROVE  workers[w].status = "OFFLINE"
    BY <2>2, <1>a DEF Start, Heartbeat, WorkerRow
  <2>3. ASSUME NEW x \in Workers, Silence(x)
        PROVE  workers[w].status = "OFFLINE"
    BY <2>3, <1>a DEF Silence, WorkerRow
  <2>4. ASSUME NEW x \in Workers,
               \/ MainStep(x) \/ Stop(x) \/ PopRaises(x) \/ ShutdownRaises(x) \/ Crash(x)
        PROVE  workers[w].status = "OFFLINE"
    BY <2>4 DEF MainStep, PopJob, LeaveLoop, Stop, PopRaises, ShutdownRaises, Crash
  <2> QED BY <1>1, <2>1, <2>2, <2>3, <2>4 DEF WorkerNext
<1>2. CASE WatchdogNext
  <2>1. ASSUME NEW x \in Workers, MarkOffline(x)
        PROVE  workers[w].status = "OFFLINE"
    BY <2>1, <1>a DEF MarkOffline, mark_worker_offline, WorkerRow
  <2> QED BY <1>2, <2>1 DEF WatchdogNext, WatchdogStep, CheckWorkers, SelectStuck, RecoverJob,
          RefetchStuck, PushStuck, WatchdogRaises
<1>3. CASE SchedulerNext
  BY <1>3 DEF SchedulerNext, SchedulerStep, FindDue, FireJob, PushFired, SchedulerRaises
<1>4. CASE JobsApiNext
  BY <1>4 DEF JobsApiNext, HandlerStep, SubmitNow, SubmitLater, PushJob, CheckRetry, RetryJob,
              RefetchJob, CheckCancel, CancelJob, CheckDelete, DeleteJob, ClientRaises
<1>5. CASE ApiCrash \/ UNCHANGED vars
  BY <1>5 DEF ApiCrash, vars
<1> QED BY <1>1, <1>2, <1>3, <1>4, <1>5 DEF Next

-----------------------------------------------------------------------------
LEMMA Sight ==
  ASSUME TypeOK, PassInv, [Next]_vars, Faults' = Faults,
         ~(wd.pc = "push" /\ wd.doc.raw), ~\E x \in Workers : Shutdown(x),
         NEW j \in Jobs, Forgotten(j)'
  PROVE  Forgotten(j)
<1>1. LostPlain(j)
  BY Custody DEF Forgotten
<1>2. jobs'[j] = jobs[j] /\ jobs[j].status = "RUNNING"
  BY StrayRowsStay DEF Forgotten, LostPlain, Lost
<1>3. PICK w \in Workers : jobs[j].worker_id = w /\ workers'[w].status = "OFFLINE" /\ ~Seen(w, j)'
  BY <1>2 DEF Forgotten, Seen
<1>4. ~MarkOffline(w)
  <2>1. ASSUME MarkOffline(w)
        PROVE  wd'.worker = w /\ wd'.pc = "select"
    BY <2>1 DEF MarkOffline, TypeOK, WatchdogTypeOK, WatchdogState
  <2> QED BY <2>1, <1>3 DEF Seen
<1>5. workers[w].status = "OFFLINE"
  BY <1>3, <1>4, TurnsOffline
<1>6. ~Seen(w, j)
  <2>1. CASE UNCHANGED wd
    BY <2>1, <1>3 DEF Seen
  <2>2. CASE WatchdogNext
    <3>1. WatchdogStep
      BY <2>2, FaultsGrow DEF WatchdogNext, WatchdogRaises
    <3> QED BY <3>1, <1>2, <1>3, PassKeepsSight
  <2>3. CASE ApiCrash
    BY <2>3 DEF ApiCrash, Faults, TypeOK, StoreTypeOK, Env
  <2> QED BY <2>1, <2>2, <2>3 DEF Next, vars
<1> QED BY <1>1, <1>2, <1>3, <1>5, <1>6 DEF Forgotten, Seen

\* From any reachable state, also after earlier faults: the pass misses no row
\* of a worker that has been marked OFFLINE, whatever heartbeats, restarts and
\* requests come in between, except in the step of a fault, by a document that
\* json.dumps rejects, or by a worker's sign-off (watchdog.py:31-77, worker.py:95).
THEOREM PassMissesNoRow == Spec => ForgottenForAReason
<1>1. Init => PassInv
  BY AsleepShape DEF Init, WatchdogInit, PassInv, Asleep
<1>2. TypeOK /\ PassInv /\ [Next]_vars =>
        [\A j \in Jobs :
           Forgotten(j)' /\ ~Forgotten(j) =>
             \/ Faults' > Faults
             \/ wd.pc = "push" /\ wd.doc.raw
             \/ \E w \in Workers : Shutdown(w)]_vars
  <2> SUFFICES ASSUME TypeOK, PassInv, [Next]_vars, NEW j \in Jobs,
                      Forgotten(j)', ~Forgotten(j),
                      ~(wd.pc = "push" /\ wd.doc.raw), ~\E w \in Workers : Shutdown(w)
               PROVE  Faults' > Faults
    OBVIOUS
  <2>1. Faults' # Faults
    BY Sight
  <2> QED BY <2>1, FaultsGrow
<1> QED BY <1>1, <1>2, PassInvStep, TypeCorrect, PTL DEF Spec, ForgottenForAReason
=============================================================================
