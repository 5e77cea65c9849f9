------------------------------ MODULE Schedules ------------------------------
(***************************************************************************)
(* Recurring schedules: the scheduler's pass (core/scheduler.py), the      *)
(* handlers of /schedules, and the schedules table, with a clock.  A job   *)
(* created here is a row saved QUEUED and then pushed, like one submitted  *)
(* to /jobs; Platform says what becomes of it.  Of the one-time jobs,      *)
(* which go first in each pass and which module Scheduler is about, there  *)
(* is here only that firing one ends the pass.                             *)
(***************************************************************************)
EXTENDS Integers, Sequences, FiniteSets

CONSTANTS
  Schedules,   \* schedule ids (uuid4: never reused)
  Requests,    \* requests served at the same time
  NoSchedule,
  Cron,        \* schedules with a cron_expression; the others have an interval
  Ticks,       \* the times each cron expression names; may end (year field)
  Interval,    \* interval_seconds
  OneTime,     \* one-time jobs, submitted beforehand
  RunAt,       \* the run_at of each
  MaxTime,     \* bound: the clock stops here
  MaxErrors,   \* bound: MySQL or Redis calls of the scheduler that raise
  MaxOutages,  \* bound: the API process is killed and comes back
  MaxResumes   \* bound: resume requests

ASSUME SchedulesAssumption ==
  /\ IsFiniteSet(Requests)
  /\ NoSchedule \notin Schedules
  /\ Cron \subseteq Schedules
  /\ Ticks \in [Schedules -> SUBSET Nat]
  /\ Interval \in [Schedules -> Int]
  /\ RunAt \in [OneTime -> Nat]
  /\ MaxTime \in Nat /\ MaxErrors \in Nat /\ MaxOutages \in Nat /\ MaxResumes \in Nat

VARIABLES
  now,        \* the clock of all processes and of MySQL
  schedules,  \* MySQL table schedules, by id
  waiting,    \* one-time jobs whose row is still SCHEDULED
  created,    \* rows of jobs with that schedule_id, in the order of creation
  pass,       \* the pass of _fire_recurring_schedules under way
  request,    \* each request handler: its next call, its schedule, next_run
  env         \* how often the environment has intervened; bounds the model

vars == <<now, schedules, waiting, created, pass, request, env>>

\* status ACTIVE and PAUSED are is_active = 1 and 0.
ScheduleRow == [status      : {"UNUSED", "ACTIVE", "PAUSED", "DELETED"},
                next_run_at : Int,
                run_count   : Nat]

\* A job: when it was created, and whether it has been pushed.
Created == [at : Nat, pushed : BOOLEAN]

\* What the pass keeps of a row of its SELECT.
Snapshot == [id : Schedules, next_run_at : Int, run_count : Nat]

NoSnapshot == [id |-> NoSchedule, next_run_at |-> 0, run_count |-> 0]

\* due: rows not yet handled; row, at: the one in hand and its `now`.
PassState == [pc  : {"sleep", "select", "create", "push", "advance"},
              due : SUBSET Snapshot,
              row : Snapshot \union {NoSnapshot},
              at  : Nat]

NoPass == [pc |-> "sleep", due |-> {}, row |-> NoSnapshot, at |-> 0]

RequestState == [pc   : {"idle", "save", "pause", "compute", "resume", "delete"},
                 id   : Schedules \union {NoSchedule},
                 next : Int]

IdleRequest == [pc |-> "idle", id |-> NoSchedule, next |-> 0]

Env == [errors : Nat, outages : Nat, resumes : Nat]

Init ==
  /\ now = 0
  /\ schedules = [s \in Schedules |->
                    [status |-> "UNUSED", next_run_at |-> 0, run_count |-> 0]]
  /\ waiting = OneTime
  /\ created = [s \in Schedules |-> <<>>]
  /\ pass = NoPass
  /\ request = [c \in Requests |-> IdleRequest]
  /\ env = [errors |-> 0, outages |-> 0, resumes |-> 0]

SchedulesTypeOK ==
  /\ now \in Nat
  /\ schedules \in [Schedules -> ScheduleRow]
  /\ waiting \subseteq OneTime
  /\ created \in [Schedules -> Seq(Created)]
  /\ pass \in PassState
  /\ pass.pc = "sleep" => pass = NoPass
  /\ pass.pc \in {"push", "advance"} =>
       /\ pass.row # NoSnapshot
       /\ created[pass.row.id] # <<>>
  /\ request \in [Requests -> RequestState]
  /\ \A c \in Requests : request[c].pc # "idle" => request[c].id # NoSchedule
  /\ env \in Env

-----------------------------------------------------------------------------
(* Helpers *)

\* _compute_next_run: the one next time, or none.
compute_next_run(s, after) ==
  IF s \in Cron
  THEN {t \in Ticks[s] : t > after /\ \A u \in Ticks[s] : u > after => t <= u}
  ELSE {after + i : i \in {Interval[s]} \ {0}}

Exists(s) == schedules[s].status \notin {"UNUSED", "DELETED"}

\* UPDATE ... WHERE id = s; an absent row is left absent.
update_schedule(s, row) ==
  schedules' = IF Exists(s) THEN [schedules EXCEPT ![s] = row] ELSE schedules

Due(s) == schedules[s].status = "ACTIVE" /\ schedules[s].next_run_at <= now

-----------------------------------------------------------------------------
(* The scheduler's pass *)

\* get_due_scheduled_jobs; of its rows only the first is got to.
DueOneTime == {j \in waiting : RunAt[j] <= now /\ \A k \in waiting : RunAt[j] <= RunAt[k]}

\* Mutant: the job is pushed before its row is updated.
FireOneTime_PushFirst ==
  /\ pass.pc = "sleep"
  /\ DueOneTime # {}
  /\ UNCHANGED vars

\* _fire_scheduled_jobs with a job to fire: its row is set QUEUED, json.dumps
\* rejects its run_at, and the except clause of _scheduler_loop ends the pass.
FireOneTime ==
  /\ pass.pc = "sleep"
  /\ \E j \in DueOneTime : waiting' = waiting \ {j}
  /\ UNCHANGED <<now, schedules, created, pass, request, env>>

\* _fire_scheduled_jobs with none.
NoneToFire ==
  /\ pass.pc = "sleep"
  /\ DueOneTime = {}
  /\ pass' = [pass EXCEPT !.pc = "select"]
  /\ UNCHANGED <<now, schedules, waiting, created, request, env>>

\* get_due_schedules: one SELECT for the whole pass.
FindDueSchedules ==
  LET due == {s \in Schedules : Due(s)}
  IN /\ pass.pc = "select"
     /\ pass' = IF due = {} THEN NoPass
                ELSE [NoPass EXCEPT !.pc = "create", !.due =
                        {[id |-> s, next_run_at |-> schedules[s].next_run_at,
                          run_count |-> schedules[s].run_count] : s \in due}]
     /\ UNCHANGED <<now, schedules, waiting, created, request, env>>

\* The loop body up to save_job, earliest next_run_at first.  What has become
\* of the schedule since the SELECT is not looked at.
CreateJob(r) ==
  /\ pass.pc = "create"
  /\ r \in pass.due
  /\ \A o \in pass.due : r.next_run_at <= o.next_run_at
  /\ created' = [created EXCEPT ![r.id] = Append(@, [at |-> now, pushed |-> FALSE])]
  /\ pass' = [pc |-> "push", due |-> pass.due \ {r}, row |-> r, at |-> now]
  /\ UNCHANGED <<now, schedules, waiting, request, env>>

PushCreated ==
  LET s == pass.row.id
  IN /\ pass.pc = "push"
     /\ created' = [created EXCEPT ![s][Len(created[s])].pushed = TRUE]
     /\ pass' = [pass EXCEPT !.pc = "advance"]
     /\ UNCHANGED <<now, schedules, waiting, request, env>>

NextInPass ==
  IF pass.due = {} THEN NoPass ELSE [NoPass EXCEPT !.pc = "create", !.due = pass.due]

\* Mutant: the runs that were missed are made up for, one after the other.
AdvanceSchedule_FromDue ==
  LET s    == pass.row.id
      next == compute_next_run(s, pass.row.next_run_at)
  IN /\ pass.pc = "advance"
     /\ \/ \E t \in next :
             update_schedule(s, [schedules[s] EXCEPT !.next_run_at = t,
                                                     !.run_count = pass.row.run_count + 1])
        \/ next = {} /\ update_schedule(s, [schedules[s] EXCEPT !.status = "PAUSED"])
     /\ pass' = NextInPass
     /\ UNCHANGED <<now, waiting, created, request, env>>

\* Mutant: the run is not counted.
AdvanceSchedule_ForgetsCount ==
  LET s    == pass.row.id
      next == compute_next_run(s, pass.at)
  IN /\ pass.pc = "advance"
     /\ \/ \E t \in next : update_schedule(s, [schedules[s] EXCEPT !.next_run_at = t])
        \/ next = {} /\ update_schedule(s, [schedules[s] EXCEPT !.status = "PAUSED"])
     /\ pass' = NextInPass
     /\ UNCHANGED <<now, waiting, created, request, env>>

\* Next time from the `now` of this schedule's turn, run_count from the SELECT;
\* an expression without a next time is switched off, and that run not counted.
AdvanceSchedule ==
  LET s    == pass.row.id
      next == compute_next_run(s, pass.at)
  IN /\ pass.pc = "advance"
     /\ \/ \E t \in next :
             update_schedule(s, [schedules[s] EXCEPT !.next_run_at = t,
                                                     !.run_count = pass.row.run_count + 1])
        \/ next = {} /\ update_schedule(s, [schedules[s] EXCEPT !.status = "PAUSED"])
     /\ pass' = NextInPass
     /\ UNCHANGED <<now, waiting, created, request, env>>

\* Mutant: the next pass would go on where this one stopped.
PassRaises_KeepsDue ==
  /\ pass.pc # "sleep"
  /\ env.errors < MaxErrors
  /\ env' = [env EXCEPT !.errors = @ + 1]
  /\ pass' = [pass EXCEPT !.pc = "sleep"]
  /\ UNCHANGED <<now, schedules, waiting, created, request>>

\* A call raises: the except clause of _scheduler_loop ends the pass.
PassRaises ==
  /\ pass.pc # "sleep"
  /\ env.errors < MaxErrors
  /\ env' = [env EXCEPT !.errors = @ + 1]
  /\ pass' = NoPass
  /\ UNCHANGED <<now, schedules, waiting, created, request>>

-----------------------------------------------------------------------------
(* The handlers of /schedules: check in one call, write in another *)

Ask(c, pc, s, next) == request' = [request EXCEPT ![c] = [pc |-> pc, id |-> s, next |-> next]]

Respond(c) == request' = [request EXCEPT ![c] = IdleRequest]

\* create_schedule up to _parse_first_run; no next time means 400.
BeginCreate(c, s) ==
  /\ request[c].pc = "idle"
  /\ schedules[s].status = "UNUSED" /\ \A d \in Requests : request[d].id # s
  /\ \E t \in compute_next_run(s, now) : Ask(c, "save", s, t)
  /\ UNCHANGED <<now, schedules, waiting, created, pass, env>>

SaveSchedule(c) ==
  /\ request[c].pc = "save"
  /\ schedules' = [schedules EXCEPT ![request[c].id] =
                     [status |-> "ACTIVE", next_run_at |-> request[c].next, run_count |-> 0]]
  /\ Respond(c)
  /\ UNCHANGED <<now, waiting, created, pass, env>>

CheckPause(c, s) ==
  /\ request[c].pc = "idle"
  /\ schedules[s].status = "ACTIVE"
  /\ Ask(c, "pause", s, 0)
  /\ UNCHANGED <<now, schedules, waiting, created, pass, env>>

PauseSchedule(c) ==
  LET s == request[c].id
  IN /\ request[c].pc = "pause"
     /\ update_schedule(s, [schedules[s] EXCEPT !.status = "PAUSED"])
     /\ Respond(c)
     /\ UNCHANGED <<now, waiting, created, pass, env>>

CheckResume(c, s) ==
  /\ request[c].pc = "idle"
  /\ schedules[s].status = "PAUSED"
  /\ env.resumes < MaxResumes
  /\ env' = [env EXCEPT !.resumes = @ + 1]
  /\ Ask(c, "compute", s, 0)
  /\ UNCHANGED <<now, schedules, waiting, created, pass>>

\* The handler reads the clock; no next time means 400.
ComputeResume(c) ==
  LET next == compute_next_run(request[c].id, now)
  IN /\ request[c].pc = "compute"
     /\ \/ \E t \in next : Ask(c, "resume", request[c].id, t)
        \/ next = {} /\ Respond(c)
     /\ UNCHANGED <<now, schedules, waiting, created, pass, env>>

ResumeSchedule(c) ==
  LET s == request[c].id
  IN /\ request[c].pc = "resume"
     /\ update_schedule(s, [schedules[s] EXCEPT !.status = "ACTIVE",
                                                !.next_run_at = request[c].next])
     /\ Respond(c)
     /\ UNCHANGED <<now, waiting, created, pass, env>>

CheckDelete(c, s) ==
  /\ request[c].pc = "idle"
  /\ Exists(s)
  /\ Ask(c, "delete", s, 0)
  /\ UNCHANGED <<now, schedules, waiting, created, pass, env>>

DeleteSchedule(c) ==
  LET s == request[c].id
  IN /\ request[c].pc = "delete"
     /\ update_schedule(s, [schedules[s] EXCEPT !.status = "DELETED"])
     /\ Respond(c)
     /\ UNCHANGED <<now, waiting, created, pass, env>>

-----------------------------------------------------------------------------
\* Time passes.
Tick ==
  /\ now < MaxTime
  /\ now' = now + 1
  /\ UNCHANGED <<schedules, waiting, created, pass, request, env>>

\* The API process dies in the middle of something and is started again.
ApiCrash ==
  /\ env.outages < MaxOutages
  /\ pass # NoPass \/ \E c \in Requests : request[c] # IdleRequest
  /\ env' = [env EXCEPT !.outages = @ + 1]
  /\ pass' = NoPass
  /\ request' = [c \in Requests |-> IdleRequest]
  /\ UNCHANGED <<now, schedules, waiting, created>>

SchedulerStep ==
  FireOneTime \/ NoneToFire \/ FindDueSchedules
  \/ (\E r \in pass.due : CreateJob(r)) \/ PushCreated \/ AdvanceSchedule

Next ==
  \/ SchedulerStep \/ PassRaises \/ ApiCrash \/ Tick
  \/ \E c \in Requests :
       \/ SaveSchedule(c) \/ PauseSchedule(c) \/ ComputeResume(c) \/ ResumeSchedule(c)
       \/ DeleteSchedule(c)
       \/ \E s \in Schedules :
            BeginCreate(c, s) \/ CheckPause(c, s) \/ CheckResume(c, s) \/ CheckDelete(c, s)

Spec == Init /\ [][Next]_vars

\* The scheduler thread runs for ever; nothing is assumed of requests, which
\* may hang, nor of the clock.
FairSpec == Spec /\ WF_vars(SchedulerStep)

-----------------------------------------------------------------------------
(* Properties *)

InHand(s) == pass.pc \in {"push", "advance"} /\ pass.row.id = s

\* run_count counts jobs that were really pushed, and misses one only for a
\* fault, for the job in hand, or when the expression has come to its end
\* (scheduler.py:101-120): the order save, push, advance never loses a run.
RunsAreCounted ==
  \A s \in Schedules : Exists(s) =>
    LET jobs   == created[s]
        pushed == {i \in DOMAIN jobs : jobs[i].pushed}
        slack  == Cardinality({x \in {s} : InHand(x)})
        ended  == Cardinality({i \in DOMAIN jobs : compute_next_run(s, jobs[i].at) = {}})
    IN /\ schedules[s].run_count <= Cardinality(pushed)
       /\ Len(jobs) <= schedules[s].run_count + slack + ended + env.errors + env.outages

\* Jobs of a schedule keep their distance, however late a pass is: a job that
\* comes before the time computed from the one before it is paid for by a
\* fault between push_job and update_schedule, or by a resume that was
\* computed before that job (scheduler.py:109-114, schedules.py:90-95).
EarlyRunsHaveACause ==
  \A s \in Schedules :
    LET jobs  == created[s]
        early == {i \in DOMAIN jobs \ {1} :
                    ~\E t \in compute_next_run(s, jobs[i - 1].at) : t <= jobs[i].at}
    IN Cardinality(early) <= env.errors + env.outages + env.resumes

\* A schedule that is due is served, and then is not due any more (or it is
\* switched off or deleted), whatever crashes on the way (scheduler.py:78-121)
\* and although each one-time job that is due costs a pass (scheduler.py:131).
DueSchedulesAreServed == \A s \in Schedules : Due(s) ~> ~Due(s)
=============================================================================
