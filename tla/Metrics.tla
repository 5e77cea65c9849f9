------------------------------- MODULE Metrics -------------------------------
(***************************************************************************)
(* What core/metrics.py and api/routes/metrics.py compute from the tables. *)
(* Of a timestamp only its presence matters here: which rows are counted.  *)
(***************************************************************************)
EXTENDS Store

\* get_metrics: jobs by status.
by_status(s) == Cardinality({j \in Jobs : jobs[j].status = s})

\* The rows of both SELECTs of get_runtime_stats_by_type, and of the average in
\* get_metrics.
Measured ==
  {j \in Jobs : jobs[j].status = "COMPLETED" /\ jobs[j].started_at /\ jobs[j].completed_at}

\* get_worker_performance: the LEFT JOIN for one worker.
JobsOf(w) == {j \in Jobs : Exists(j) /\ jobs[j].worker_id = w /\ jobs[j].started_at}

get_worker_performance(w) ==
  [jobs_processed |-> workers[w].jobs_processed,
   total_jobs     |-> Cardinality(JobsOf(w)),
   completed      |-> Cardinality({j \in JobsOf(w) : jobs[j].status = "COMPLETED"}),
   dead           |-> Cardinality({j \in JobsOf(w) : jobs[j].status = "DEAD"})]

=============================================================================
