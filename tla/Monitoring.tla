------------------------------ MODULE Monitoring -----------------------------
(***************************************************************************)
(* A worker as others see it: the row of the workers table that its        *)
(* heartbeat thread, its own shutdown and the watchdog all write, and what *)
(* /workers makes of it.  Platform knows only whether a row is ONLINE and  *)
(* fresh; here are the status and job it shows, the age of its heartbeat,  *)
(* _active_jobs, and heartbeats that are still under way when the process  *)
(* signs off.  Which jobs a worker gets is left to the environment.        *)
(***************************************************************************)
EXTENDS Naturals

CONSTANTS
  Workers,            \* worker ids
  Threads,            \* pool threads of one worker
  Jobs,               \* job ids
  NoJob,              \* NULL
  HEARTBEAT_TIMEOUT,  \* in ticks of the clock
  MaxErrors,          \* bound: calls that raise
  MaxCopies           \* bound: a worker gets a job it already has on a thread

ASSUME MonitoringAssumption ==
  /\ NoJob \notin Jobs
  /\ HEARTBEAT_TIMEOUT \in Nat
  /\ MaxErrors \in Nat /\ MaxCopies \in Nat

VARIABLES
  row,      \* MySQL table workers, by id
  proc,     \* down | polling | draining | leaving (signed off, not yet gone)
  running,  \* self.running
  active,   \* self._active_jobs
  thread,   \* the _process_job call of each pool thread
  beat,     \* the heartbeat under way: what was read of _active_jobs
  late,     \* the watchdog's pass: rows found too old and not yet handled
  env       \* how often the environment has intervened; bounds the model

vars == <<row, proc, running, active, thread, beat, late, env>>

Worker == <<proc, running, active, thread, beat>>

\* age: ticks since last_heartbeat; beyond the timeout all ages are alike.
Oldest == HEARTBEAT_TIMEOUT + 1

WorkerRow == [status         : {"NONE", "IDLE", "RUNNING", "OFFLINE"},
              age            : 0 .. Oldest,
              current_job_id : Jobs \union {NoJob}]

\* picked: before the try block, whose finally clause discards the id.
ThreadState == [pc : {"idle", "picked", "trying"}, id : Jobs \union {NoJob}]

IdleThread == [pc |-> "idle", id |-> NoJob]

Beat == [status : {"IDLE", "RUNNING"}, job : Jobs \union {NoJob}]

NoBeat == [status |-> "NONE", job |-> NoJob]

Init ==
  /\ row = [w \in Workers |-> [status |-> "NONE", age |-> Oldest, current_job_id |-> NoJob]]
  /\ proc = [w \in Workers |-> "down"]
  /\ running = [w \in Workers |-> FALSE]
  /\ active = [w \in Workers |-> {}]
  /\ thread = [w \in Workers |-> [t \in Threads |-> IdleThread]]
  /\ beat = [w \in Workers |-> NoBeat]
  /\ late = {}
  /\ env = [errors |-> 0, copies |-> 0]

MonitoringTypeOK ==
  /\ row \in [Workers -> WorkerRow]
  /\ proc \in [Workers -> {"down", "polling", "draining", "leaving"}]
  /\ running \in [Workers -> BOOLEAN]
  /\ active \in [Workers -> SUBSET Jobs]
  /\ thread \in [Workers -> [Threads -> ThreadState]]
  /\ \A w \in Workers, t \in Threads : thread[w][t].pc # "idle" => thread[w][t].id \in Jobs
  /\ beat \in [Workers -> Beat \union {NoBeat}]
  /\ late \subseteq Workers
  /\ env \in [errors : Nat, copies : Nat]

CallRaises ==
  /\ env.errors < MaxErrors
  /\ env' = [env EXCEPT !.errors = @ + 1]

-----------------------------------------------------------------------------
(* core/db.py: the workers table *)

\* An upsert, which leaves current_job_id of an old row alone.
register_worker(w) == row' = [row EXCEPT ![w].status = "IDLE", ![w].age = 0]

heartbeat(w, status, job) ==
  row' = [row EXCEPT ![w] = [status |-> status, age |-> 0, current_job_id |-> job]]

\* Mutant: the job stays in the row.
mark_worker_offline_KeepsJob(w) == row' = [row EXCEPT ![w].status = "OFFLINE"]

mark_worker_offline(w) ==
  row' = [row EXCEPT ![w].status = "OFFLINE", ![w].current_job_id = NoJob]

-----------------------------------------------------------------------------
(* The process *)

\* start, up to the loop.
Start(w) ==
  /\ proc[w] = "down"
  /\ register_worker(w)
  /\ proc' = [proc EXCEPT ![w] = "polling"]
  /\ running' = [running EXCEPT ![w] = TRUE]
  /\ UNCHANGED <<active, thread, beat, late, env>>

\* stop, the signal handler.
Stop(w) ==
  /\ proc[w] # "down" /\ running[w]
  /\ running' = [running EXCEPT ![w] = FALSE]
  /\ UNCHANGED <<row, proc, active, thread, beat, late, env>>

\* The loop ends; if it is because pop_job raised, running stays True.
LeaveLoop(w) ==
  /\ proc[w] = "polling"
  /\ \/ ~running[w] /\ UNCHANGED env
     \/ CallRaises
  /\ proc' = [proc EXCEPT ![w] = "draining"]
  /\ UNCHANGED <<row, running, active, thread, beat, late>>

Drained(w) == proc[w] = "draining" /\ \A t \in Threads : thread[w][t].pc = "idle"

\* _graceful_shutdown: the last call of start.  The heartbeat thread, a daemon,
\* lives on until the interpreter is gone.
SignOff(w) ==
  /\ Drained(w)
  /\ mark_worker_offline(w)
  /\ proc' = [proc EXCEPT ![w] = "leaving"]
  /\ UNCHANGED <<running, active, thread, beat, late, env>>

SignOffRaises(w) ==
  /\ Drained(w)
  /\ CallRaises
  /\ proc' = [proc EXCEPT ![w] = "leaving"]
  /\ UNCHANGED <<row, running, active, thread, beat, late>>

\* Nothing is left of the process, killed or come to its end.
Vanish(w) ==
  /\ proc' = [proc EXCEPT ![w] = "down"]
  /\ running' = [running EXCEPT ![w] = FALSE]
  /\ active' = [active EXCEPT ![w] = {}]
  /\ thread' = [thread EXCEPT ![w] = [t \in Threads |-> IdleThread]]
  /\ beat' = [beat EXCEPT ![w] = NoBeat]
  /\ UNCHANGED <<row, late, env>>

Exit(w) == proc[w] = "leaving" /\ Vanish(w)

Kill(w) == proc[w] # "down" /\ Vanish(w)

-----------------------------------------------------------------------------
(* _heartbeat_loop *)

Beating(w) == proc[w] # "down" /\ running[w]

\* list(set)[0] is any element.
ReadActive(w) ==
  /\ Beating(w)
  /\ beat[w] = NoBeat
  /\ \/ /\ active[w] = {}
        /\ beat' = [beat EXCEPT ![w] = [status |-> "IDLE", job |-> NoJob]]
     \/ \E j \in active[w] : beat' = [beat EXCEPT ![w] = [status |-> "RUNNING", job |-> j]]
  /\ UNCHANGED <<row, proc, running, active, thread, late, env>>

\* Mutant: a worker taken for dead has to register again.
WriteBeat_NotWhenOffline(w) ==
  /\ beat[w] # NoBeat
  /\ IF row[w].status = "OFFLINE" THEN UNCHANGED row
     ELSE heartbeat(w, beat[w].status, beat[w].job)
  /\ beat' = [beat EXCEPT ![w] = NoBeat]
  /\ UNCHANGED <<proc, running, active, thread, late, env>>

\* running is not looked at again: the UPDATE may come after the sign-off.
WriteBeat(w) ==
  /\ beat[w] # NoBeat
  /\ heartbeat(w, beat[w].status, beat[w].job)
  /\ beat' = [beat EXCEPT ![w] = NoBeat]
  /\ UNCHANGED <<proc, running, active, thread, late, env>>

\* Swallowed by the loop.
WriteBeatRaises(w) ==
  /\ beat[w] # NoBeat
  /\ CallRaises
  /\ beat' = [beat EXCEPT ![w] = NoBeat]
  /\ UNCHANGED <<row, proc, running, active, thread, late>>

-----------------------------------------------------------------------------
(* _process_job and _active_jobs *)

HasOnThread(w, j) == \E t \in Threads : thread[w][t].pc # "idle" /\ thread[w][t].id = j

\* Mutant: the id is not kept for the end of the call.
PickUp_NullJob(w, t, j) ==
  /\ proc[w] \in {"polling", "draining"}
  /\ thread[w][t].pc = "idle"
  /\ active' = [active EXCEPT ![w] = @ \union {j}]
  /\ thread' = [thread EXCEPT ![w][t].pc = "picked"]
  /\ UNCHANGED <<row, proc, running, beat, late, env>>

\* A job may come twice: recovered while it runs, or retried twice by hand.
PickUp(w, t, j) ==
  /\ proc[w] \in {"polling", "draining"}
  /\ thread[w][t].pc = "idle"
  /\ IF HasOnThread(w, j)
     THEN env.copies < MaxCopies /\ env' = [env EXCEPT !.copies = @ + 1]
     ELSE UNCHANGED env
  /\ active' = [active EXCEPT ![w] = @ \union {j}]
  /\ thread' = [thread EXCEPT ![w][t] = [pc |-> "picked", id |-> j]]
  /\ UNCHANGED <<row, proc, running, beat, late>>

\* update_job or add_log raises outside the try block: the id is not discarded.
PickUpRaises(w, t) ==
  /\ thread[w][t].pc = "picked"
  /\ CallRaises
  /\ thread' = [thread EXCEPT ![w][t] = IdleThread]
  /\ UNCHANGED <<row, proc, running, active, beat, late>>

Execute(w, t) ==
  /\ thread[w][t].pc = "picked"
  /\ thread' = [thread EXCEPT ![w][t].pc = "trying"]
  /\ UNCHANGED <<row, proc, running, active, beat, late, env>>

\* Mutant: only a job that succeeded is discarded.
Finish_OnSuccess(w, t) ==
  /\ thread[w][t].pc = "trying"
  /\ active' = [active EXCEPT ![w] = @ \ {thread[w][t].id}] \/ UNCHANGED active
  /\ thread' = [thread EXCEPT ![w][t] = IdleThread]
  /\ UNCHANGED <<row, proc, running, beat, late, env>>

\* However the attempt ended, a call in the except clause that raises included.
Finish(w, t) ==
  /\ thread[w][t].pc = "trying"
  /\ active' = [active EXCEPT ![w] = @ \ {thread[w][t].id}]
  /\ thread' = [thread EXCEPT ![w][t] = IdleThread]
  /\ UNCHANGED <<row, proc, running, beat, late, env>>

-----------------------------------------------------------------------------
(* The watchdog, the API and the clock *)

TooOld(w) == row[w].age > HEARTBEAT_TIMEOUT

\* Mutant: only workers with a job are looked at.
CheckWorkers_Running ==
  /\ late = {}
  /\ late' = {w \in Workers : row[w].status = "RUNNING" /\ TooOld(w)}
  /\ late' # {}
  /\ UNCHANGED <<row, env, Worker>>

\* One SELECT; the pass goes by it however long it lasts.
CheckWorkers ==
  /\ late = {}
  /\ late' = {w \in Workers : row[w].status \notin {"NONE", "OFFLINE"} /\ TooOld(w)}
  /\ late' # {}
  /\ UNCHANGED <<row, env, Worker>>

MarkOffline(w) ==
  /\ w \in late
  /\ mark_worker_offline(w)
  /\ late' = late \ {w}
  /\ UNCHANGED <<env, Worker>>

\* A call of the pass raises, or the API process dies: the pass is over.
PassEnds ==
  /\ late # {}
  /\ CallRaises
  /\ late' = {}
  /\ UNCHANGED <<row, Worker>>

\* _enrich_worker.
heartbeat_healthy(w) == row[w].age < HEARTBEAT_TIMEOUT

Tick ==
  /\ \E w \in Workers : row[w].age # Oldest
  /\ row' = [w \in Workers |->
               [row[w] EXCEPT !.age = IF @ = Oldest THEN Oldest ELSE @ + 1]]
  /\ UNCHANGED <<late, env, Worker>>

-----------------------------------------------------------------------------
WatchdogStep == CheckWorkers \/ \E w \in Workers : MarkOffline(w)

ThreadStep(w, t) == Execute(w, t) \/ Finish(w, t)

HeartbeatStep(w) == ReadActive(w) \/ WriteBeat(w)

Next ==
  \/ \E w \in Workers :
       \/ Start(w) \/ Stop(w) \/ LeaveLoop(w) \/ SignOff(w) \/ SignOffRaises(w)
       \/ Exit(w) \/ Kill(w)
       \/ HeartbeatStep(w) \/ WriteBeatRaises(w)
       \/ \E t \in Threads :
            \/ \E j \in Jobs : PickUp(w, t, j)
            \/ ThreadStep(w, t) \/ PickUpRaises(w, t)
  \/ WatchdogStep \/ PassEnds \/ Tick

Spec == Init /\ [][Next]_vars

\* Time passes, the heartbeat threads and the watchdog run.  Nothing is assumed
\* of jobs, nor of how fast a heartbeat is compared with the clock.
FairSpec ==
  /\ Spec
  /\ WF_vars(Tick) /\ WF_vars(WatchdogStep)
  /\ \A w \in Workers : WF_vars(HeartbeatStep(w))

-----------------------------------------------------------------------------
(* Properties *)

\* _active_jobs is what the worker is doing: it names no job that no thread has,
\* unless a call before the try block has raised (worker.py:127), and no thread
\* has a job it does not name, unless two threads had the same one and the
\* first to end discarded it for both (worker.py:170).
ActiveJobsAreReal ==
  \A w \in Workers :
    /\ env.errors = 0 => \A j \in active[w] : HasOnThread(w, j)
    /\ env.copies = 0 => \A j \in Jobs : HasOnThread(w, j) => j \in active[w]

\* A worker that is gone for good, killed or signed off, ends up OFFLINE and
\* unhealthy for good: a heartbeat that comes after the sign-off puts the row
\* back to IDLE only until the watchdog finds it (worker.py:95, 107), and a row
\* of exactly HEARTBEAT_TIMEOUT, which is neither healthy nor late, gets older
\* (workers.py:17, watchdog.py:49).
GoneWorkersGoOffline ==
  \A w \in Workers :
    <>[](proc[w] = "down" /\ row[w].status # "NONE") =>
      <>[](row[w].status = "OFFLINE" /\ ~heartbeat_healthy(w))

\* A worker that is marked OFFLINE and yet alive (its row was old when the pass
\* began) comes back by itself with its next heartbeat (worker.py:107).
LiveWorkersComeBack ==
  \A w \in Workers :
    <>[]Beating(w) => []<>(row[w].status # "OFFLINE")

\* A worker that has no job any more, up for good or gone for good, does in the
\* end show none, whatever heartbeats were under way (worker.py:103-107,
\* db.py:214).  Not so a worker that dies and restarts without end, since
\* register_worker leaves the job of its last life in the row; nor one in which
\* a call has raised before the try block: every heartbeat shows the id that
\* was left in _active_jobs.
NoGhostJobs ==
  \A w \in Workers, up \in BOOLEAN :
    LET HasNone == \A t \in Threads : thread[w][t].pc = "idle"
    IN <>[](env.errors = 0 /\ HasNone /\ up = (proc[w] # "down")) =>
         <>[](row[w].current_job_id = NoJob)
=============================================================================
