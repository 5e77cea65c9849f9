------------------------------ MODULE Scheduler ------------------------------
(***************************************************************************)
(* core/scheduler.py: the API process's background thread, its one-time    *)
(* part (_fire_scheduled_jobs).  Recurring schedules are not in this       *)
(* module: the only state they share with it is the pass they follow.      *)
(***************************************************************************)
EXTENDS Store

VARIABLE
  sch  \* the pass of _fire_scheduled_jobs under way

\* due: rows of the SELECT not yet fired; doc: the row whose UPDATE is done.
SchedulerState ==
  [pc : {"sleep", "fire", "push"}, due : SUBSET Jobs, doc : Doc]

NoPass == [pc |-> "sleep", due |-> {}, doc |-> NoDoc]

SchedulerInit == sch = NoPass

SchedulerTypeOK ==
  /\ sch \in SchedulerState
  /\ sch.pc = "push" => sch.doc.id # NoJob

\* get_due_scheduled_jobs.  Time is not modelled: any SCHEDULED rows may be
\* the ones whose run_at has passed.
FindDue ==
  /\ sch.pc = "sleep"
  /\ \E due \in SUBSET {j \in Jobs : jobs[j].status = "SCHEDULED"} :
       /\ due # {}
       /\ sch' = [NoPass EXCEPT !.pc = "fire", !.due = due]
  /\ UNCHANGED store

\* The UPDATE does not look at the status the row has by now.
FireJob(j) ==
  /\ sch.pc = "fire"
  /\ j \in sch.due
  /\ update_job(j, [jobs[j] EXCEPT !.status = "QUEUED"])
  /\ sch' = [pc |-> "push", due |-> sch.due \ {j},
             doc |-> [id |-> j, retry_count |-> 0, raw |-> jobs[j].run_at]]
  /\ UNCHANGED <<workers, queue, env>>

\* The dict comes from the SELECT, with its datetime: json.dumps raises and
\* the except clause of _scheduler_loop ends the pass.
PushFired ==
  /\ sch.pc = "push"
  /\ push_or_raise(PRIORITY_QUEUE_MAP[jobs[sch.doc.id].priority], sch.doc)
  /\ sch' = IF sch.doc.raw \/ sch.due = {} THEN NoPass
            ELSE [sch EXCEPT !.pc = "fire", !.doc = NoDoc]
  /\ UNCHANGED <<jobs, workers, env>>

SchedulerRaises ==
  /\ sch.pc # "sleep"
  /\ CallRaises
  /\ sch' = NoPass
  /\ UNCHANGED <<jobs, workers, queue>>

SchedulerStep == FindDue \/ (\E j \in Jobs : FireJob(j)) \/ PushFired

SchedulerNext == SchedulerStep \/ SchedulerRaises
=============================================================================
