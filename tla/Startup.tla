------------------------------- MODULE Startup -------------------------------
(***************************************************************************)
(* How the processes come up and the tables come into being: init_schema   *)
(* and init_schedule_schema of core/db.py, run without any lock by every   *)
(* process that starts, _startup_background of api/main.py, and the start  *)
(* of a worker.  MySQL commits each DDL statement by itself.               *)
(***************************************************************************)
EXTENDS Naturals, FiniteSets

CONSTANTS
  Apis,         \* API processes
  WorkerProcs,  \* worker processes
  MaxErrors,    \* bound: calls of MySQL that raise (connection refused, timeout)
  MaxKills      \* bound: processes killed

ASSUME StartupAssumption ==
  /\ Apis \intersect WorkerProcs = {}
  /\ MaxErrors \in Nat /\ MaxKills \in Nat

VARIABLES
  schema,  \* the tables, and the two columns added to jobs, that exist
  pc,      \* of each process: the statement it executes next
  failed,  \* API processes whose database initialisation raised
  loops,   \* background threads of each API process
  cut,     \* has a fault fallen between the two ALTERs?
  env      \* how often the environment has intervened; bounds the model

vars == <<schema, pc, failed, loops, cut, env>>

Procs == Apis \union WorkerProcs

BaseTables == {"jobs", "workers", "logs"}

Columns == {"run_at", "schedule_id"}

Everything == BaseTables \union Columns \union {"schedules"}

\* Each value names what the process does next; "run_at" and "schedule_id" are
\* the two ALTERs, a table's name is its CREATE TABLE IF NOT EXISTS.
DbSteps == Everything \union {"count", "register"}

ProcState == DbSteps \union {"down", "watchdog", "scheduler", "up"}

Init ==
  /\ schema = {}
  /\ pc = [p \in Procs |-> "down"]
  /\ failed = {}
  /\ loops = [p \in Apis |-> {}]
  /\ cut = FALSE
  /\ env = [errors |-> 0, kills |-> 0]

StartupTypeOK ==
  /\ schema \subseteq Everything
  /\ pc \in [Procs -> ProcState]
  /\ failed \subseteq Apis
  /\ loops \in [Apis -> SUBSET {"watchdog", "scheduler"}]
  /\ cut \in BOOLEAN
  /\ env \in [errors : Nat, kills : Nat]
  /\ \A p \in WorkerProcs : pc[p] \in BaseTables \union {"down", "register", "up"}
  /\ \A p \in Apis : pc[p] # "register"

-----------------------------------------------------------------------------
(* core/db.py *)

Goto(p, next) == pc' = [pc EXCEPT ![p] = next]

\* Mutant: a worker migrates too.
AfterTable_Same(p, table) ==
  CASE table = "jobs"      -> "workers"
    [] table = "workers"   -> "logs"
    [] table = "logs"      -> "count"
    [] table = "schedules" -> "watchdog"

\* init_schema is the same for all; then an API process goes on with
\* init_schedule_schema and a worker with register_worker.
AfterTable(p, table) ==
  CASE table = "jobs"      -> "workers"
    [] table = "workers"   -> "logs"
    [] table = "logs"      -> IF p \in Apis THEN "count" ELSE "register"
    [] table = "schedules" -> "watchdog"

\* Mutant: the tables are taken to be complete when the first one is there.
CreateTable_SkipsRest(p) ==
  /\ pc[p] \in BaseTables \union {"schedules"}
  /\ schema' = schema \union {pc[p]}
  /\ Goto(p, IF pc[p] \in schema /\ p \in Apis THEN "watchdog" ELSE AfterTable(p, pc[p]))
  /\ UNCHANGED <<failed, loops, cut, env>>

CreateTable(p) ==
  /\ pc[p] \in BaseTables \union {"schedules"}
  /\ schema' = schema \union {pc[p]}
  /\ Goto(p, AfterTable(p, pc[p]))
  /\ UNCHANGED <<failed, loops, cut, env>>

\* Mutant: a first start without schedules has no use for the new columns.
CountColumns_Skips(p) ==
  /\ pc[p] = "count"
  /\ Goto(p, "schedules")
  /\ UNCHANGED <<schema, failed, loops, cut, env>>

\* SELECT COUNT(*) for run_at alone decides about both columns.
CountColumns(p) ==
  /\ pc[p] = "count"
  /\ Goto(p, IF "run_at" \in schema THEN "schedules" ELSE "run_at")
  /\ UNCHANGED <<schema, failed, loops, cut, env>>

AfterColumn(column) == IF column = "run_at" THEN "schedule_id" ELSE "schedules"

\* Mutant: the second column is left to the next start.
AddColumn_First(p) ==
  /\ pc[p] \in Columns
  /\ pc[p] \notin schema
  /\ schema' = schema \union {pc[p]}
  /\ Goto(p, "schedules")
  /\ UNCHANGED <<failed, loops, cut, env>>

AddColumn(p) ==
  /\ pc[p] \in Columns
  /\ pc[p] \notin schema
  /\ schema' = schema \union {pc[p]}
  /\ Goto(p, AfterColumn(pc[p]))
  /\ UNCHANGED <<failed, loops, cut, env>>

\* A statement raised.  _startup_background goes on with the background
\* threads; a worker's start() is left and its process ends.
Raise(p) ==
  /\ Goto(p, IF p \in Apis THEN "watchdog" ELSE "down")
  /\ failed' = failed \union ({p} \intersect Apis)

\* The column has come into being since CountColumns: "Duplicate column name".
DuplicateColumn(p) ==
  /\ pc[p] \in Columns
  /\ pc[p] \in schema
  /\ Raise(p)
  /\ UNCHANGED <<schema, loops, cut, env>>

Fault(p) == cut' = (cut \/ pc[p] = "schedule_id")

CallRaises(p) ==
  /\ pc[p] \in DbSteps
  /\ env.errors < MaxErrors
  /\ env' = [env EXCEPT !.errors = @ + 1]
  /\ Fault(p)
  /\ Raise(p)
  /\ UNCHANGED <<schema, loops>>

-----------------------------------------------------------------------------
(* The processes *)

Launch(p) ==
  /\ pc[p] = "down"
  /\ Goto(p, "jobs")
  /\ UNCHANGED <<schema, failed, loops, cut, env>>

RegisterWorker(p) ==
  /\ pc[p] = "register"
  /\ Goto(p, "up")
  /\ UNCHANGED <<schema, failed, loops, cut, env>>

\* Mutant: without a database there is nothing to watch.
StartWatchdog_IfInitialised(p) ==
  /\ pc[p] = "watchdog"
  /\ loops' = IF p \in failed THEN loops ELSE [loops EXCEPT ![p] = @ \union {"watchdog"}]
  /\ Goto(p, "scheduler")
  /\ UNCHANGED <<schema, failed, cut, env>>

\* start_watchdog and start_scheduler do not depend on what came before.
StartWatchdog(p) ==
  /\ pc[p] = "watchdog"
  /\ loops' = [loops EXCEPT ![p] = @ \union {"watchdog"}]
  /\ Goto(p, "scheduler")
  /\ UNCHANGED <<schema, failed, cut, env>>

StartScheduler(p) ==
  /\ pc[p] = "scheduler"
  /\ loops' = [loops EXCEPT ![p] = @ \union {"scheduler"}]
  /\ Goto(p, "up")
  /\ UNCHANGED <<schema, failed, cut, env>>

Kill(p) ==
  /\ pc[p] # "down"
  /\ env.kills < MaxKills
  /\ env' = [env EXCEPT !.kills = @ + 1]
  /\ Fault(p)
  /\ Goto(p, "down")
  /\ failed' = failed \ {p}
  /\ loops' = [a \in Apis |-> IF a = p THEN {} ELSE loops[a]]
  /\ UNCHANGED schema

ProcStep(p) ==
  \/ CreateTable(p) \/ RegisterWorker(p)
  \/ CountColumns(p) \/ AddColumn(p) \/ DuplicateColumn(p)
  \/ StartWatchdog(p) \/ StartScheduler(p)

Next == \E p \in Procs : Launch(p) \/ ProcStep(p) \/ CallRaises(p) \/ Kill(p)

Spec == Init /\ [][Next]_vars

\* A process that has been launched goes on; nothing is assumed of launches.
FairSpec == Spec /\ \A p \in Procs : WF_vars(ProcStep(p))

-----------------------------------------------------------------------------
(* Properties *)

\* The INSERT of save_job names both columns: without them every submission
\* and every run of a recurring schedule raises.
save_job_works == {"jobs", "run_at", "schedule_id"} \subseteq schema

\* What an initialisation that has not raised guarantees, whoever else was
\* starting, dying or failing at the time: all tables, and run_at, without
\* which each pass of the scheduler would raise (db.py:38-76, 267-303).
InitialisedMeansUsable ==
  \A p \in Apis :
    pc[p] \in {"watchdog", "scheduler", "up"} /\ p \notin failed =>
      Everything \ {"schedule_id"} \subseteq schema

\* The one window in which a fault does lasting harm is between the two ALTERs:
\* unless one fell into it, a table with run_at and without schedule_id has a
\* process that is about to add it, however many start at once (db.py:279-281).
HalfMigratedIsInProgress ==
  ~cut /\ "run_at" \in schema /\ "schedule_id" \notin schema =>
    \E p \in Apis : pc[p] = "schedule_id"

\* Without faults any number of simultaneous starts, the losers of the race for
\* the columns included, ends with a complete schema (db.py:267-303).
SchemaGetsCompleted ==
  \A p \in Apis :
    pc[p] # "down" ~> schema = Everything \/ env.errors + env.kills > 0

\* Crash recovery and schedules do not depend on the database being there when
\* the API process starts: both threads run even if the initialisation raised
\* (main.py:13-29).
LoopsAlwaysStart ==
  \A p \in Apis :
    pc[p] # "down" ~> pc[p] = "down" \/ loops[p] = {"watchdog", "scheduler"}

\* core/db.py:268: an initialisation that is run again leaves what save_job
\* needs.  (With one API process; it does not hold after a kill.)
SafeToRunAgain ==
  \A p \in Apis : pc[p] = "up" /\ p \notin failed => save_job_works
=============================================================================
