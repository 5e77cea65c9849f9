-------------------------------- MODULE Store --------------------------------
(***************************************************************************)
(* The state every LytQueue process shares: the MySQL tables written by    *)
(* core/db.py and the Redis lists written by core/queue.py.                *)
(*                                                                         *)
(* Every db.* and queue.* call opens its own autocommitted connection, so  *)
(* a call is atomic and a handler that makes several is not.  The          *)
(* component modules therefore have one action per call; the operators     *)
(* below are the calls.                                                    *)
(***************************************************************************)
EXTENDS Naturals, Sequences, FiniteSets

CONSTANTS
  Jobs,         \* job ids (uuid4: never reused)
  Workers,      \* worker ids
  NoJob,        \* the id of the JSON document "null"
  NoWorker,     \* SQL NULL in jobs.worker_id
  MAX_RETRIES,  \* config.MAX_RETRIES
  MaxErrors     \* bound: MySQL or Redis calls that raise

ASSUME StoreAssumption ==
  /\ NoJob \notin Jobs
  /\ NoWorker \notin Workers
  /\ MAX_RETRIES \in Nat
  /\ MaxErrors \in Nat

VARIABLES
  jobs,     \* MySQL table jobs, by id
  workers,  \* MySQL table workers, by id
  queue,    \* Redis lists, by name; the head is the right end (BRPOP)
  env       \* how often the environment has intervened; bounds the model

store == <<jobs, workers, queue, env>>

Priorities == {"high", "medium", "low"}

PRIORITY_QUEUE_MAP ==
  [high |-> "queue:high", medium |-> "queue:medium", low |-> "queue:low"]

QUEUE_PRIORITY_ORDER == <<"queue:high", "queue:medium", "queue:low">>

QUEUE_DLQ == "queue:dlq"

PriorityQueues == {"queue:high", "queue:medium", "queue:low"}

Queues == PriorityQueues \union {QUEUE_DLQ}

\* UNUSED: no such row yet.  DELETED: the row is gone, the id is spent.
RowStatus == {"QUEUED", "RUNNING", "COMPLETED", "DEAD", "SCHEDULED"}

Row == [status      : RowStatus \union {"UNUSED", "DELETED"},
        priority    : Priorities,
        retry_count : Nat,
        worker_id   : Workers \union {NoWorker},
        run_at       : BOOLEAN,         \* is the column non-NULL?
        started_at   : BOOLEAN,         \* likewise
        completed_at : BOOLEAN]         \* likewise

\* status ONLINE stands for IDLE and RUNNING, which no code path tells apart;
\* fresh: last_heartbeat is at most HEARTBEAT_TIMEOUT old.
WorkerRow == [status         : {"NONE", "ONLINE", "OFFLINE"},
              fresh          : BOOLEAN,
              jobs_processed : Nat]

\* A queued JSON document: what a worker reads of it.
Message == [id : Jobs \union {NoJob}, retry_count : Nat]

\* A job dict about to be pushed.  raw: it holds a datetime object, which
\* json.dumps rejects with a TypeError.
Doc == [id : Jobs \union {NoJob}, retry_count : Nat, raw : BOOLEAN]

NoDoc == [id |-> NoJob, retry_count |-> 0, raw |-> FALSE]

Env == [errors : Nat, crashes : Nat, outages : Nat,
        stalls : Nat, stops : Nat, retries : Nat]

StoreInit ==
  /\ jobs = [j \in Jobs |->
               [status |-> "UNUSED", priority |-> "medium", retry_count |-> 0,
                worker_id |-> NoWorker, run_at |-> FALSE,
                started_at |-> FALSE, completed_at |-> FALSE]]
  /\ workers = [w \in Workers |->
                  [status |-> "NONE", fresh |-> FALSE, jobs_processed |-> 0]]
  /\ queue = [q \in Queues |-> <<>>]
  /\ env = [errors |-> 0, crashes |-> 0, outages |-> 0,
            stalls |-> 0, stops |-> 0, retries |-> 0]

StoreTypeOK ==
  /\ jobs \in [Jobs -> Row]
  /\ workers \in [Workers -> WorkerRow]
  /\ queue \in [Queues -> Seq(Message)]
  /\ env \in Env

-----------------------------------------------------------------------------
(* core/db.py: the jobs table *)

Exists(j) == jobs[j].status \notin {"UNUSED", "DELETED"}

save_job(j, row) == jobs' = [jobs EXCEPT ![j] = row]

\* UPDATE ... WHERE id = j; an absent row is left absent.
update_job(j, row) == jobs' = IF Exists(j) THEN [jobs EXCEPT ![j] = row] ELSE jobs

delete_job(j) == update_job(j, [jobs[j] EXCEPT !.status = "DELETED"])

\* The SELECT that ends update_job.  _fix_job turns created_at, started_at and
\* completed_at into strings but leaves run_at a datetime.
get_job(j) ==
  IF Exists(j)
  THEN [id |-> j, retry_count |-> jobs[j].retry_count, raw |-> jobs[j].run_at]
  ELSE NoDoc

-----------------------------------------------------------------------------
(* core/queue.py *)

push_job(q, doc) ==
  queue' = [queue EXCEPT ![q] =
              Append(@, [id |-> doc.id, retry_count |-> doc.retry_count])]

\* json.dumps comes before LPUSH: a document with a datetime is not pushed.
push_or_raise(q, doc) == IF doc.raw THEN UNCHANGED queue ELSE push_job(q, doc)

\* BRPOP serves the first non-empty list in the order given.
PopsFrom(q) ==
  \E i \in DOMAIN QUEUE_PRIORITY_ORDER :
    /\ q = QUEUE_PRIORITY_ORDER[i]
    /\ queue[q] # <<>>
    /\ \A k \in 1 .. (i - 1) : queue[QUEUE_PRIORITY_ORDER[k]] = <<>>

-----------------------------------------------------------------------------
(* A call of MySQL or Redis that raises (connection refused, timeout). *)
CallRaises ==
  /\ env.errors < MaxErrors
  /\ env' = [env EXCEPT !.errors = @ + 1]
=============================================================================
