---------------------------- MODULE StartupProofs ----------------------------
(***************************************************************************)
(* The schema after any number of simultaneous, failing and killed starts, *)
(* for every set of processes and every number of faults.                  *)
(***************************************************************************)
EXTENDS Startup, TLAPS

\* Past its own initialisation, whether or not that raised.
Past == {"watchdog", "scheduler", "up"}

\* What a process that is where it is has seen, or put, into the schema.
Behind(p) ==
  /\ pc[p] \in {"workers", "logs", "count", "run_at", "schedule_id", "schedules"} =>
       "jobs" \in schema
  /\ pc[p] \in {"logs", "count", "run_at", "schedule_id", "schedules"} =>
       "workers" \in schema
  /\ pc[p] \in {"count", "run_at", "schedule_id", "schedules"} => "logs" \in schema
  /\ pc[p] \in {"schedule_id", "schedules"} => "run_at" \in schema
  /\ pc[p] \in Past /\ p \notin failed =>
       {"jobs", "workers", "logs", "run_at", "schedules"} \subseteq schema

IInv ==
  /\ StartupTypeOK
  /\ \A p \in Apis : Behind(p)
  /\ HalfMigratedIsInProgress

LEMMA TypeInit == Init => StartupTypeOK
<1> SUFFICES ASSUME Init PROVE StartupTypeOK
  OBVIOUS
<1>1. schema \subseteq Everything /\ failed \subseteq Apis /\ cut \in BOOLEAN
  BY DEF Init
<1>2. env \in [errors : Nat, kills : Nat]
  BY DEF Init
<1>3. pc \in [Procs -> ProcState]
  BY DEF Init, ProcState
<1>4. loops \in [Apis -> SUBSET {"watchdog", "scheduler"}]
  BY DEF Init
<1>5. \A p \in WorkerProcs : pc[p] \in BaseTables \union {"down", "register", "up"}
  BY DEF Init, Procs
<1>6. \A p \in Apis : pc[p] # "register"
  BY DEF Init, Procs
<1>7. QED
  BY <1>1, <1>2, <1>3, <1>4, <1>5, <1>6 DEF StartupTypeOK

\* Every step of every process keeps the types.
LEMMA TypeStep == StartupTypeOK /\ [Next]_vars => StartupTypeOK'
<1> SUFFICES ASSUME StartupTypeOK, [Next]_vars PROVE StartupTypeOK'
  OBVIOUS
<1> USE StartupAssumption
<1> USE DEF StartupTypeOK, Procs, ProcState, DbSteps, Everything, BaseTables, Columns, Goto
<1>1. CASE UNCHANGED vars
  BY <1>1 DEF vars
<1>2. ASSUME NEW p \in Procs, Launch(p) PROVE StartupTypeOK'
  BY <1>2 DEF Launch
<1>3. ASSUME NEW p \in Procs, CreateTable(p) PROVE StartupTypeOK'
  BY <1>3 DEF CreateTable, AfterTable
<1>4. ASSUME NEW p \in Procs, RegisterWorker(p) PROVE StartupTypeOK'
  BY <1>4 DEF RegisterWorker
<1>5. ASSUME NEW p \in Procs, CountColumns(p) PROVE StartupTypeOK'
  BY <1>5 DEF CountColumns
<1>6. ASSUME NEW p \in Procs, AddColumn(p) PROVE StartupTypeOK'
  BY <1>6 DEF AddColumn, AfterColumn
<1>7. ASSUME NEW p \in Procs, DuplicateColumn(p) PROVE StartupTypeOK'
  BY <1>7 DEF DuplicateColumn, Raise
<1>8. ASSUME NEW p \in Procs, StartWatchdog(p) PROVE StartupTypeOK'
  BY <1>8 DEF StartWatchdog
<1>9. ASSUME NEW p \in Procs, StartScheduler(p) PROVE StartupTypeOK'
  BY <1>9 DEF StartScheduler
<1>10. ASSUME NEW p \in Procs, CallRaises(p) PROVE StartupTypeOK'
  <2>1. env' \in [errors : Nat, kills : Nat] /\ cut' \in BOOLEAN
    BY <1>10 DEF CallRaises, Fault
  <2>2. failed' \subseteq Apis /\ UNCHANGED <<schema, loops>>
    BY <1>10 DEF CallRaises, Raise
  <2>3. pc' \in [Procs -> ProcState]
    BY <1>10 DEF CallRaises, Raise
  <2>4. \A w \in WorkerProcs : pc'[w] \in BaseTables \union {"down", "register", "up"}
    BY <1>10 DEF CallRaises, Raise
  <2>5. \A a \in Apis : pc'[a] # "register"
    BY <1>10 DEF CallRaises, Raise
  <2>6. QED
    BY <2>1, <2>2, <2>3, <2>4, <2>5
<1>11. ASSUME NEW p \in Procs, Kill(p) PROVE StartupTypeOK'
  <2>1. env' \in [errors : Nat, kills : Nat] /\ cut' \in BOOLEAN
    BY <1>11 DEF Kill, Fault
  <2>2. failed' \subseteq Apis /\ schema' = schema
    BY <1>11 DEF Kill
  <2>3. loops' \in [Apis -> SUBSET {"watchdog", "scheduler"}]
    BY <1>11 DEF Kill
  <2>4. pc' \in [Procs -> ProcState]
    BY <1>11 DEF Kill
  <2>5. \A w \in WorkerProcs : pc'[w] \in BaseTables \union {"down", "register", "up"}
    BY <1>11 DEF Kill
  <2>6. \A a \in Apis : pc'[a] # "register"
    BY <1>11 DEF Kill
  <2>7. QED
    BY <2>1, <2>2, <2>3, <2>4, <2>5, <2>6
<1>12. QED
  BY <1>1, <1>2, <1>3, <1>4, <1>5, <1>6, <1>7, <1>8, <1>9, <1>10, <1>11 DEF Next, ProcStep

\* No statement drops a table or a column, so what one process has seen stays
\* true whatever the others do.
LEMMA SchemaGrows == StartupTypeOK /\ [Next]_vars => schema \subseteq schema'
  BY DEF Next, vars, Launch, ProcStep, CreateTable, RegisterWorker, CountColumns, AddColumn,
         DuplicateColumn, StartWatchdog, StartScheduler, CallRaises, Kill

\* A step of one process leaves the others where they are.
LEMMA OthersStay ==
  ASSUME StartupTypeOK, NEW p \in Procs, NEW q \in Procs, q # p,
         Launch(p) \/ ProcStep(p) \/ CallRaises(p) \/ Kill(p)
  PROVE  pc'[q] = pc[q] /\ (q \in failed' <=> q \in failed)
  BY DEF StartupTypeOK, Launch, ProcStep, CreateTable, RegisterWorker, CountColumns, AddColumn,
         DuplicateColumn, StartWatchdog, StartScheduler, CallRaises, Kill, Goto, Raise

\* The process that moves keeps its own account of the schema.
LEMMA BehindStep ==
  ASSUME StartupTypeOK, NEW p \in Apis, Behind(p),
         Launch(p) \/ ProcStep(p) \/ CallRaises(p) \/ Kill(p)
  PROVE  Behind(p)'
<1> USE StartupAssumption
<1> USE DEF StartupTypeOK, Procs, ProcState, DbSteps, Everything, BaseTables, Columns,
            Goto, Behind, Past
<1>1. CASE Launch(p)
  BY <1>1 DEF Launch
<1>2. CASE CreateTable(p)
  <2>1. pc'[p] = AfterTable(p, pc[p]) /\ schema' = schema \union {pc[p]} /\ failed' = failed
    BY <1>2 DEF CreateTable
  <2>2. pc[p] \in {"jobs", "workers", "logs", "schedules"}
    BY <1>2 DEF CreateTable
  <2>3. CASE pc[p] = "jobs"
    BY <2>1, <2>3 DEF AfterTable
  <2>4. CASE pc[p] = "workers"
    BY <2>1, <2>4 DEF AfterTable
  <2>5. CASE pc[p] = "logs"
    BY <2>1, <2>5 DEF AfterTable
  <2>6. CASE pc[p] = "schedules"
    BY <2>1, <2>6 DEF AfterTable
  <2>7. QED
    BY <2>2, <2>3, <2>4, <2>5, <2>6
<1>3. CASE RegisterWorker(p)
  BY <1>3 DEF RegisterWorker
<1>4. CASE CountColumns(p)
  BY <1>4 DEF CountColumns
<1>5. CASE AddColumn(p)
  BY <1>5 DEF AddColumn, AfterColumn
<1>6. CASE DuplicateColumn(p)
  BY <1>6 DEF DuplicateColumn, Raise
<1>7. CASE StartWatchdog(p)
  BY <1>7 DEF StartWatchdog
<1>8. CASE StartScheduler(p)
  BY <1>8 DEF StartScheduler
<1>9. CASE CallRaises(p)
  BY <1>9 DEF CallRaises, Raise
<1>10. CASE Kill(p)
  BY <1>10 DEF Kill
<1>11. QED
  BY <1>1, <1>2, <1>3, <1>4, <1>5, <1>6, <1>7, <1>8, <1>9, <1>10 DEF ProcStep

\* Whoever adds run_at goes on to add schedule_id, and leaves that place only
\* by adding it or by a fault.
LEMMA HalfStep ==
  ASSUME StartupTypeOK, \A p \in Apis : Behind(p), HalfMigratedIsInProgress,
         NEW p \in Procs, Launch(p) \/ ProcStep(p) \/ CallRaises(p) \/ Kill(p)
  PROVE  HalfMigratedIsInProgress'
<1> USE StartupAssumption
<1> SUFFICES ASSUME ~cut', "run_at" \in schema', "schedule_id" \notin schema'
             PROVE  \E q \in Apis : pc'[q] = "schedule_id"
  BY DEF HalfMigratedIsInProgress
<1>1. [Next]_vars
  BY DEF Next
<1>2. "schedule_id" \notin schema
  BY <1>1, SchemaGrows
<1>3. ~cut
  BY DEF Launch, ProcStep, CreateTable, RegisterWorker, CountColumns, AddColumn,
         DuplicateColumn, StartWatchdog, StartScheduler, CallRaises, Kill, Fault
<1>4. CASE "run_at" \in schema
  <2>1. PICK q \in Apis : pc[q] = "schedule_id"
    BY <1>2, <1>3, <1>4 DEF HalfMigratedIsInProgress
  <2>2. q \in Procs
    BY DEF Procs
  <2>3. CASE q # p
    BY <2>1, <2>2, <2>3, OthersStay
  <2>4. CASE q = p
    \* What p can do at schedule_id: add it, or meet with a fault.
    BY <1>2, <2>1, <2>4
       DEF Launch, ProcStep, CreateTable, BaseTables, RegisterWorker, CountColumns, AddColumn,
           DuplicateColumn, StartWatchdog, StartScheduler, CallRaises, Kill, Fault, Columns
  <2>5. QED
    BY <2>3, <2>4
<1>5. CASE "run_at" \notin schema
  <2>1. AddColumn(p) /\ pc[p] = "run_at"
    BY <1>5 DEF Launch, ProcStep, CreateTable, BaseTables, RegisterWorker, CountColumns,
                AddColumn, DuplicateColumn, StartWatchdog, StartScheduler, CallRaises, Kill
  <2>2. pc'[p] = "schedule_id"
    BY <2>1 DEF AddColumn, Goto, AfterColumn, StartupTypeOK
  <2>3. p \in Apis
    BY <2>1 DEF StartupTypeOK, BaseTables, Procs
  <2>4. QED
    BY <2>2, <2>3
<1>6. QED
  BY <1>4, <1>5

LEMMA IInvInit == Init => IInv
<1> SUFFICES ASSUME Init PROVE IInv
  OBVIOUS
<1>1. StartupTypeOK
  BY TypeInit
<1>2. \A p \in Apis : Behind(p)
  BY DEF Init, Behind, Procs, Past
<1>3. HalfMigratedIsInProgress
  BY DEF Init, HalfMigratedIsInProgress
<1>4. QED
  BY <1>1, <1>2, <1>3 DEF IInv

LEMMA IInvStep == IInv /\ [Next]_vars => IInv'
<1> SUFFICES ASSUME IInv, [Next]_vars PROVE IInv'
  OBVIOUS
<1> USE DEF IInv
<1>1. StartupTypeOK'
  BY TypeStep
<1>2. CASE UNCHANGED vars
  BY <1>1, <1>2 DEF vars, Behind, HalfMigratedIsInProgress
<1>3. ASSUME NEW p \in Procs, Launch(p) \/ ProcStep(p) \/ CallRaises(p) \/ Kill(p)
      PROVE  IInv'
  <2>1. ASSUME NEW q \in Apis PROVE Behind(q)'
    <3>1. CASE q = p
      BY <1>3, <3>1, BehindStep
    <3>2. CASE q # p
      <4>1. pc'[q] = pc[q] /\ (q \in failed' <=> q \in failed)
        BY <1>3, <3>2, OthersStay DEF Procs
      <4>2. schema \subseteq schema'
        BY SchemaGrows
      <4>3. QED
        BY <4>1, <4>2 DEF Behind
    <3>3. QED
      BY <3>1, <3>2
  <2>2. HalfMigratedIsInProgress'
    BY <1>3, HalfStep
  <2>3. QED
    BY <1>1, <2>1, <2>2
<1>4. QED
  BY <1>2, <1>3 DEF Next

LEMMA Invariance == Spec => []IInv
  BY IInvInit, IInvStep, PTL DEF Spec

\* Every process is at a statement of its own start-up sequence (StartupTypeOK):
\* only API processes migrate columns and start threads, only workers register.
THEOREM StartupTypeCorrect == Spec => []StartupTypeOK
<1>1. IInv => StartupTypeOK
  BY DEF IInv
<1>2. QED
  BY <1>1, Invariance, PTL

\* All tables and run_at are there once an initialisation has not raised
\* (InitialisedMeansUsable), for any number of API processes and workers
\* starting at once (db.py init_schema, main.py _startup_background).
THEOREM InitialisedIsUsable == Spec => []InitialisedMeansUsable
<1>1. IInv => InitialisedMeansUsable
  BY DEF IInv, InitialisedMeansUsable, Behind, Past, Everything, BaseTables, Columns
<1>2. QED
  BY <1>1, Invariance, PTL

\* A half-migrated jobs table is either being completed or the work of a fault
\* between the two ALTERs (db.py init_schedule_schema).
THEOREM SchemaIsSafe == Spec => []HalfMigratedIsInProgress
<1>1. IInv => HalfMigratedIsInProgress
  BY DEF IInv
<1>2. QED
  BY <1>1, Invariance, PTL
=============================================================================
