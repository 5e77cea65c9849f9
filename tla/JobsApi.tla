------------------------------- MODULE JobsApi -------------------------------
(***************************************************************************)
(* api/routes/jobs.py: the handlers of /jobs that change state.  They are  *)
(* plain functions, which FastAPI runs in a thread pool: several requests  *)
(* are served at once (Clients), interleaved at every database call.       *)
(* A handler that answers 400 or 404 changes nothing and is not a step.    *)
(***************************************************************************)
EXTENDS Store

CONSTANTS
  Clients,          \* requests served at the same time
  SubmitPriorities, \* bound: priorities clients ask for
  RunAts,           \* bound: run_at values clients send: none, past, future
  Ops,              \* bound: other requests clients make: retry, cancel, delete
  MaxRetriesApi     \* bound: accepted POST /jobs/{id}/retry

ASSUME JobsApiAssumption ==
  /\ SubmitPriorities \subseteq Priorities
  /\ RunAts \subseteq {"none", "past", "future"}
  /\ Ops \subseteq {"retry", "cancel", "delete"}
  /\ MaxRetriesApi \in Nat

VARIABLE
  client  \* each request handler: the call it makes next, its job, its dict

ClientState == [pc  : {"idle", "push", "retry", "refetch", "cancel", "delete"},
                id  : Jobs \union {NoJob},
                doc : Doc]

IdleClient == [pc |-> "idle", id |-> NoJob, doc |-> NoDoc]

JobsApiInit == client = [c \in Clients |-> IdleClient]

JobsApiTypeOK ==
  /\ client \in [Clients -> ClientState]
  /\ \A c \in Clients : client[c].pc # "idle" => client[c].id # NoJob

NewRow(status, priority, run_at) ==
  [status |-> status, priority |-> priority, retry_count |-> 0,
   worker_id |-> NoWorker, run_at |-> run_at,
   started_at |-> FALSE, completed_at |-> FALSE]

Respond(c) == client' = [client EXCEPT ![c] = IdleClient]

-----------------------------------------------------------------------------
\* submit_job without run_at or with one that has passed: saved QUEUED, then
\* pushed as the pydantic dump, whose run_at is a string.
SubmitNow(c, j, p, run_at) ==
  /\ client[c].pc = "idle"
  /\ jobs[j].status = "UNUSED"
  /\ run_at \in RunAts \ {"future"}
  /\ save_job(j, NewRow("QUEUED", p, run_at = "past"))
  /\ client' = [client EXCEPT ![c] =
                  [pc |-> "push", id |-> j,
                   doc |-> [id |-> j, retry_count |-> 0, raw |-> FALSE]]]
  /\ UNCHANGED <<workers, queue, env>>

\* submit_job with run_at in the future: saved SCHEDULED, not pushed.
SubmitLater(c, j, p) ==
  /\ client[c].pc = "idle"
  /\ jobs[j].status = "UNUSED"
  /\ "future" \in RunAts
  /\ save_job(j, NewRow("SCHEDULED", p, TRUE))
  /\ UNCHANGED <<workers, queue, env, client>>

\* The queue.push_job that ends submit_job and retry_job.
PushJob(c) ==
  /\ client[c].pc = "push"
  /\ push_or_raise(PRIORITY_QUEUE_MAP[jobs[client[c].id].priority], client[c].doc)
  /\ Respond(c)
  /\ UNCHANGED <<jobs, workers, env>>

-----------------------------------------------------------------------------
(* Check the status, then act on it in a later call *)

\* Mutant: jobs in any state are accepted.
CheckRetry_AnyStatus(c, j) ==
  /\ client[c].pc = "idle" /\ "retry" \in Ops
  /\ Exists(j)
  /\ env.retries < MaxRetriesApi
  /\ env' = [env EXCEPT !.retries = @ + 1]
  /\ client' = [client EXCEPT ![c].pc = "retry", ![c].id = j]
  /\ UNCHANGED <<jobs, workers, queue>>

CheckRetry(c, j) ==
  /\ client[c].pc = "idle" /\ "retry" \in Ops
  /\ jobs[j].status = "DEAD"
  /\ env.retries < MaxRetriesApi
  /\ env' = [env EXCEPT !.retries = @ + 1]
  /\ client' = [client EXCEPT ![c].pc = "retry", ![c].id = j]
  /\ UNCHANGED <<jobs, workers, queue>>

\* Mutant: completed_at is left as it was.
RetryJob_KeepsEnd(c) ==
  LET j == client[c].id
  IN /\ client[c].pc = "retry"
     /\ update_job(j, [jobs[j] EXCEPT !.status = "QUEUED", !.retry_count = 0,
                                      !.started_at = FALSE])
     /\ client' = [client EXCEPT ![c].pc = "refetch"]
     /\ UNCHANGED <<workers, queue, env>>

RetryJob(c) ==
  LET j == client[c].id
  IN /\ client[c].pc = "retry"
     /\ update_job(j, [jobs[j] EXCEPT !.status = "QUEUED", !.retry_count = 0,
                                      !.started_at = FALSE, !.completed_at = FALSE])
     /\ client' = [client EXCEPT ![c].pc = "refetch"]
     /\ UNCHANGED <<workers, queue, env>>

\* Mutant: the row is updated and the push is forgotten.
RefetchJob_NoPush(c) ==
  /\ client[c].pc = "refetch"
  /\ Respond(c)
  /\ UNCHANGED store

RefetchJob(c) ==
  /\ client[c].pc = "refetch"
  /\ client' = [client EXCEPT ![c].pc = "push", ![c].doc = get_job(client[c].id)]
  /\ UNCHANGED store

CheckCancel(c, j) ==
  /\ client[c].pc = "idle" /\ "cancel" \in Ops
  /\ jobs[j].status = "SCHEDULED"
  /\ client' = [client EXCEPT ![c].pc = "cancel", ![c].id = j]
  /\ UNCHANGED store

CancelJob(c) ==
  LET j == client[c].id
  IN /\ client[c].pc = "cancel"
     /\ update_job(j, [jobs[j] EXCEPT !.status = "DEAD"])
     /\ Respond(c)
     /\ UNCHANGED <<workers, queue, env>>

CheckDelete(c, j) ==
  /\ client[c].pc = "idle" /\ "delete" \in Ops
  /\ Exists(j) /\ jobs[j].status # "RUNNING"
  /\ client' = [client EXCEPT ![c].pc = "delete", ![c].id = j]
  /\ UNCHANGED store

DeleteJob(c) ==
  /\ client[c].pc = "delete"
  /\ delete_job(client[c].id)
  /\ Respond(c)
  /\ UNCHANGED <<workers, queue, env>>

\* A call of the handler raises: HTTP 500, what was done stays done.
ClientRaises(c) ==
  /\ client[c].pc # "idle"
  /\ CallRaises
  /\ Respond(c)
  /\ UNCHANGED <<jobs, workers, queue>>

-----------------------------------------------------------------------------
\* A handler that has begun goes on.
HandlerStep(c) ==
  PushJob(c) \/ RetryJob(c) \/ RefetchJob(c) \/ CancelJob(c) \/ DeleteJob(c)

JobsApiNext ==
  \E c \in Clients :
    \/ \E j \in Jobs :
         \/ \E p \in SubmitPriorities :
              \/ \E r \in RunAts : SubmitNow(c, j, p, r)
              \/ SubmitLater(c, j, p)
         \/ CheckRetry(c, j) \/ CheckCancel(c, j) \/ CheckDelete(c, j)
    \/ HandlerStep(c)
    \/ ClientRaises(c)
=============================================================================
