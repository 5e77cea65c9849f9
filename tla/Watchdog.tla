------------------------------ MODULE Watchdog -------------------------------
(***************************************************************************)
(* core/watchdog.py: the API process's background thread that marks silent *)
(* workers OFFLINE and re-queues the jobs they were running.               *)
(***************************************************************************)
EXTENDS Store

VARIABLE
  wd  \* the pass of _check_workers under way

\* due: listed workers whose heartbeat was too old, not yet handled;
\* worker, stuck: the _recover_jobs call and the rows it has yet to re-queue;
\* id, doc: the row being re-queued.
WatchdogState ==
  [pc     : {"sleep", "mark", "select", "recover", "refetch", "push"},
   due    : SUBSET Workers,
   worker : Workers \union {NoWorker},
   stuck  : SUBSET Jobs,
   id     : Jobs \union {NoJob},
   doc    : Doc]

Asleep == [pc |-> "sleep", due |-> {}, worker |-> NoWorker,
           stuck |-> {}, id |-> NoJob, doc |-> NoDoc]

WatchdogInit == wd = Asleep

WatchdogTypeOK ==
  /\ wd \in WatchdogState
  /\ wd.pc \in {"refetch", "push"} => wd.id # NoJob

\* list_workers, and the filter of the loop: all ages are taken from this one
\* SELECT, however long the pass then lasts.
CheckWorkers ==
  LET late == {w \in Workers : workers[w].status = "ONLINE" /\ ~workers[w].fresh}
  IN /\ wd.pc = "sleep"
     /\ late # {}
     /\ wd' = [Asleep EXCEPT !.pc = "mark", !.due = late]
     /\ UNCHANGED store

mark_worker_offline(w) == workers' = [workers EXCEPT ![w].status = "OFFLINE"]

\* Mutant: the worker is marked OFFLINE and its jobs are forgotten.
MarkOffline_Only(w) ==
  /\ wd.pc = "mark"
  /\ w \in wd.due
  /\ mark_worker_offline(w)
  /\ wd' = IF wd.due = {w} THEN Asleep ELSE [wd EXCEPT !.due = @ \ {w}]
  /\ UNCHANGED <<jobs, queue, env>>

MarkOffline(w) ==
  /\ wd.pc = "mark"
  /\ w \in wd.due
  /\ mark_worker_offline(w)
  /\ wd' = [wd EXCEPT !.pc = "select", !.due = @ \ {w}, !.worker = w]
  /\ UNCHANGED <<jobs, queue, env>>

\* What follows when `left` rows of the current worker remain.
Resume(left) ==
  IF left # {} THEN [wd EXCEPT !.pc = "recover", !.stuck = left, !.id = NoJob, !.doc = NoDoc]
  ELSE IF wd.due # {} THEN [Asleep EXCEPT !.pc = "mark", !.due = wd.due]
  ELSE Asleep

\* Mutant: the SELECT has no worker_id condition.
SelectStuck_AnyWorker ==
  /\ wd.pc = "select"
  /\ wd' = Resume({j \in Jobs : jobs[j].status = "RUNNING"})
  /\ UNCHANGED store

SelectStuck ==
  /\ wd.pc = "select"
  /\ wd' = Resume({j \in Jobs : jobs[j].status = "RUNNING" /\ jobs[j].worker_id = wd.worker})
  /\ UNCHANGED store

\* Mutant: the UPDATE does not reset the status.
RecoverJob_StaysRunning(j) ==
  /\ wd.pc = "recover"
  /\ j \in wd.stuck
  /\ update_job(j, [jobs[j] EXCEPT !.worker_id = NoWorker, !.started_at = FALSE])
  /\ wd' = [wd EXCEPT !.pc = "refetch", !.stuck = @ \ {j}, !.id = j]
  /\ UNCHANGED <<workers, queue, env>>

RecoverJob(j) ==
  /\ wd.pc = "recover"
  /\ j \in wd.stuck
  /\ update_job(j, [jobs[j] EXCEPT !.status = "QUEUED", !.worker_id = NoWorker,
                                   !.started_at = FALSE])
  /\ wd' = [wd EXCEPT !.pc = "refetch", !.stuck = @ \ {j}, !.id = j]
  /\ UNCHANGED <<workers, queue, env>>

RefetchStuck ==
  /\ wd.pc = "refetch"
  /\ wd' = [wd EXCEPT !.pc = "push", !.doc = get_job(wd.id)]
  /\ UNCHANGED store

\* Mutant: recovered jobs all go to the medium queue.
PushStuck_Medium ==
  /\ wd.pc = "push"
  /\ push_or_raise("queue:medium", wd.doc)
  /\ wd' = IF wd.doc.raw THEN Asleep ELSE Resume(wd.stuck)
  /\ UNCHANGED <<jobs, workers, env>>

\* Mutant: a worker that has come back is left its job.
PushStuck_SkipsWhenBack ==
  /\ wd.pc = "push"
  /\ IF \A w \in Workers : jobs[wd.id].worker_id # w /\ (workers[w].status = "OFFLINE" \/ ~workers[w].fresh)
     THEN push_or_raise(PRIORITY_QUEUE_MAP[jobs[wd.id].priority], wd.doc)
     ELSE UNCHANGED queue
  /\ wd' = IF wd.doc.raw THEN Asleep ELSE Resume(wd.stuck)
  /\ UNCHANGED <<jobs, workers, env>>

\* A TypeError of json.dumps ends the whole pass: the except clause is in
\* _watchdog_loop.
PushStuck ==
  /\ wd.pc = "push"
  /\ push_or_raise(PRIORITY_QUEUE_MAP[jobs[wd.id].priority], wd.doc)
  /\ wd' = IF wd.doc.raw THEN Asleep ELSE Resume(wd.stuck)
  /\ UNCHANGED <<jobs, workers, env>>

\* Any other call of the pass raises: same end.
WatchdogRaises ==
  /\ wd.pc # "sleep"
  /\ CallRaises
  /\ wd' = Asleep
  /\ UNCHANGED <<jobs, workers, queue>>

WatchdogStep ==
  \/ CheckWorkers
  \/ \E w \in Workers : MarkOffline(w)
  \/ SelectStuck
  \/ \E j \in Jobs : RecoverJob(j)
  \/ RefetchStuck
  \/ PushStuck

WatchdogNext == WatchdogStep \/ WatchdogRaises
=============================================================================
