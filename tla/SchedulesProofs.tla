--------------------------- MODULE SchedulesProofs ----------------------------
(***************************************************************************)
(* Theorems about Schedules, for any number of schedules and requests, any *)
(* intervals and cron expressions, and any bounds on time and faults.      *)
(***************************************************************************)
EXTENDS Schedules, FiniteSetTheorems, TLAPS

Working == pass.pc \in {"push", "advance"}

\* The job that the pass is at has been created but not yet accounted for.
Settled(s) == IF InHand(s) THEN Len(created[s]) - 1 ELSE Len(created[s])

UpTo(A, n) == Cardinality({i \in 1 .. n : i \in A})

PushedOf(jobs) == {i \in DOMAIN jobs : jobs[i].pushed}

EndedOf(s, jobs) == {i \in DOMAIN jobs : compute_next_run(s, jobs[i].at) = {}}

EarlyOf(s, jobs) ==
  {i \in DOMAIN jobs \ {1} : ~\E t \in compute_next_run(s, jobs[i - 1].at) : t <= jobs[i].at}

\* Would one more job, created at time t, come too early?
TooEarly(s, jobs, t) ==
  jobs # <<>> /\ ~\E u \in compute_next_run(s, jobs[Len(jobs)].at) : u <= t

-----------------------------------------------------------------------------
(* The inductive invariant *)

\* A schedule that is not saved yet is known to one request at most; there are
\* no jobs of it and no pass has found it.
SavedOnce ==
  /\ \A c \in Requests : request[c].pc = "save" =>
       /\ schedules[request[c].id].status = "UNUSED"
       /\ \A d \in Requests \ {c} : request[d].id # request[c].id
  /\ \A s \in Schedules : schedules[s].status = "UNUSED" =>
       /\ created[s] = <<>>
       /\ \A r \in pass.due : r.id # s
       /\ Working => pass.row.id # s

\* The snapshots of a pass: one per schedule, due, and with the run_count the
\* row still has, since only the pass itself changes it.
SnapshotsHold ==
  /\ \A r \in pass.due :
       /\ r.next_run_at <= now
       /\ Exists(r.id) => r.run_count = schedules[r.id].run_count
       /\ \A o \in pass.due : o.id = r.id => o = r
       /\ Working => pass.row.id # r.id
  /\ Working /\ Exists(pass.row.id) => pass.row.run_count = schedules[pass.row.id].run_count

\* The job in hand is the last of its schedule.
InHandIsLast ==
  Working =>
    LET jobs == created[pass.row.id]
    IN /\ jobs[Len(jobs)].at = pass.at
       /\ pass.pc = "advance" => jobs[Len(jobs)].pushed

\* RunsAreCounted without the job in hand.
Counted(s) ==
  Exists(s) =>
    /\ schedules[s].run_count <= UpTo(PushedOf(created[s]), Settled(s))
    /\ Settled(s) <= schedules[s].run_count + UpTo(EndedOf(s, created[s]), Settled(s))
                       + env.errors + env.outages

\* The next job of s may be early: its row, or the snapshot the pass has of it,
\* names a time before the one computed from the last job.
Owing(s) ==
  /\ ~InHand(s)
  /\ \/ schedules[s].status = "ACTIVE" /\ TooEarly(s, created[s], schedules[s].next_run_at)
     \/ \E r \in pass.due : r.id = s /\ TooEarly(s, created[s], r.next_run_at)

Owed(s) == IF Owing(s) THEN 1 ELSE 0

\* Requests that will set the next time of s to one computed some time ago.
Resuming(s) == {c \in Requests : request[c].pc \in {"compute", "resume"} /\ request[c].id = s}

\* Every early job, and every one that can still come, has a cause of its own.
Caused(s) ==
  Cardinality(EarlyOf(s, created[s])) + Owed(s) + Cardinality(Resuming(s))
    <= env.errors + env.outages + env.resumes

IInv ==
  /\ SchedulesTypeOK
  /\ SavedOnce
  /\ SnapshotsHold
  /\ InHandIsLast
  /\ \A s \in Schedules : Counted(s) /\ Caused(s)
-----------------------------------------------------------------------------
(* Sequences and counting *)

LEMMA CreatedAppend ==
  ASSUME NEW s \in Seq(Created), NEW m \in Created
  PROVE  /\ Append(s, m) \in Seq(Created) /\ Append(s, m) # <<>>
         /\ Len(s) \in Nat /\ Len(Append(s, m)) = Len(s) + 1
         /\ DOMAIN s = 1 .. Len(s) /\ DOMAIN Append(s, m) = 1 .. Len(s) + 1
         /\ \A i \in 1 .. Len(s) : Append(s, m)[i] = s[i]
         /\ Append(s, m)[Len(s) + 1] = m
  OBVIOUS

\* Setting a column of the last element.
LEMMA CreatedEdit ==
  ASSUME NEW s \in Seq(Created), s # <<>>, NEW e, e = [s EXCEPT ![Len(s)].pushed = TRUE]
  PROVE  /\ e \in Seq(Created) /\ e # <<>>
         /\ Len(s) \in Nat \ {0} /\ Len(e) = Len(s)
         /\ DOMAIN s = 1 .. Len(s) /\ DOMAIN e = DOMAIN s
         /\ \A i \in DOMAIN s : e[i].at = s[i].at
         /\ \A i \in DOMAIN s : i # Len(s) => e[i] = s[i]
         /\ e[Len(s)].pushed
<1> DEFINE n == Len(s)
<1>1. n \in Nat /\ n # 0 /\ DOMAIN s = 1 .. n /\ s \in [1 .. n -> Created]
  OBVIOUS
<1> HIDE DEF n
<1>2. e = [s EXCEPT ![n].pushed = TRUE]
  BY DEF n
<1>3. n \in DOMAIN s /\ s[n] \in Created
  BY <1>1
<1>4. [s[n] EXCEPT !.pushed = TRUE] \in Created /\ [s[n] EXCEPT !.pushed = TRUE].at = s[n].at
      /\ [s[n] EXCEPT !.pushed = TRUE].pushed
  BY <1>3 DEF Created
<1>5. e \in [1 .. n -> Created] /\ e[n] = [s[n] EXCEPT !.pushed = TRUE]
      /\ \A i \in 1 .. n : i # n => e[i] = s[i]
  BY <1>1, <1>2, <1>3, <1>4
<1>6. e \in Seq(Created) /\ Len(e) = n
  BY <1>1, <1>5
<1>7. e # <<>>
  BY <1>1, <1>6
<1> QED BY <1>1, <1>4, <1>5, <1>6, <1>7 DEF n

LEMMA UpToNext ==
  ASSUME NEW A, NEW n \in Nat
  PROVE  /\ UpTo(A, n) \in Nat
         /\ UpTo(A, n + 1) = IF n + 1 \in A THEN UpTo(A, n) + 1 ELSE UpTo(A, n)
<1> DEFINE S == {i \in 1 .. n : i \in A}
           T == {i \in 1 .. n + 1 : i \in A}
<1>1. IsFiniteSet(1 .. n)
  BY FS_Interval
<1>2. IsFiniteSet(S)
  BY <1>1, FS_Subset
<1>3. T = IF n + 1 \in A THEN S \union {n + 1} ELSE S
  OBVIOUS
<1>4. n + 1 \notin S
  OBVIOUS
<1> HIDE DEF S, T
<1>5. Cardinality(S) \in Nat /\ Cardinality(S \union {n + 1}) = Cardinality(S) + 1
  BY <1>2, <1>4, FS_CardinalityType, FS_AddElement
<1> QED BY <1>3, <1>5 DEF UpTo, S, T

LEMMA UpToSame ==
  ASSUME NEW A, NEW B, NEW n, \A i \in 1 .. n : i \in A <=> i \in B
  PROVE  UpTo(A, n) = UpTo(B, n)
<1>1. {i \in 1 .. n : i \in A} = {i \in 1 .. n : i \in B}
  OBVIOUS
<1> QED BY <1>1 DEF UpTo

LEMMA NextType ==
  ASSUME NEW s \in Schedules, NEW after \in Int
  PROVE  compute_next_run(s, after) \subseteq Int
  BY SchedulesAssumption DEF compute_next_run

-----------------------------------------------------------------------------
(* Type correctness *)

LEMMA InitType == Init => SchedulesTypeOK
  BY DEF Init, SchedulesTypeOK, ScheduleRow, PassState, NoPass, NoSnapshot, RequestState,
     IdleRequest, Env, Created

LEMMA UpdateType ==
  ASSUME SchedulesTypeOK, NEW s \in Schedules, NEW row \in ScheduleRow, update_schedule(s, row)
  PROVE  schedules' \in [Schedules -> ScheduleRow]
  BY DEF update_schedule, SchedulesTypeOK

LEMMA RowTypes ==
  ASSUME NEW row \in ScheduleRow, NEW t \in Int, NEW n \in Nat
  PROVE  /\ \A st \in {"ACTIVE", "PAUSED", "DELETED"} :
              /\ [row EXCEPT !.status = st] \in ScheduleRow
              /\ [row EXCEPT !.status = st, !.next_run_at = t] \in ScheduleRow
         /\ [row EXCEPT !.next_run_at = t, !.run_count = n] \in ScheduleRow
  BY DEF ScheduleRow

LEMMA PassTypes ==
  /\ NoPass \in PassState /\ NoPass.pc = "sleep" /\ NoPass.due = {}
  /\ \A pc \in {"select", "create"}, due \in SUBSET Snapshot :
       LET p == [NoPass EXCEPT !.pc = pc, !.due = due]
       IN p \in PassState /\ p.pc = pc /\ p.due = due
  BY DEF PassState, NoPass

\* The steps of the pass.
LEMMA PassTypeStep ==
  ASSUME SchedulesTypeOK, SchedulerStep
  PROVE  SchedulesTypeOK'
<1>a. /\ schedules \in [Schedules -> ScheduleRow] /\ created \in [Schedules -> Seq(Created)]
      /\ pass \in PassState /\ now \in Nat
  BY DEF SchedulesTypeOK
<1>1. CASE FireOneTime
  BY <1>1 DEF FireOneTime, SchedulesTypeOK
<1>2. CASE NoneToFire
  <2>1. pass' \in PassState /\ pass'.pc = "select"
    BY <1>2, <1>a DEF NoneToFire, PassState
  <2> QED BY <1>2, <2>1 DEF NoneToFire, SchedulesTypeOK
<1>3. CASE FindDueSchedules
  <2> DEFINE due == {s \in Schedules : Due(s)}
             found == {[id |-> s, next_run_at |-> schedules[s].next_run_at,
                        run_count |-> schedules[s].run_count] : s \in due}
  <2>1. found \in SUBSET Snapshot
    BY <1>a DEF Snapshot, ScheduleRow
  <2>2. pass' = NoPass \/ pass' = [NoPass EXCEPT !.pc = "create", !.due = found]
    BY <1>3 DEF FindDueSchedules
  <2> HIDE DEF found
  <2>3. pass' \in PassState /\ (pass' = NoPass \/ pass'.pc = "create")
    BY <2>1, <2>2, PassTypes
  <2> QED BY <1>3, <2>3, PassTypes DEF FindDueSchedules, SchedulesTypeOK
<1>4. ASSUME NEW r \in pass.due, CreateJob(r)
      PROVE  SchedulesTypeOK'
  <2>1. r \in Snapshot /\ r.id \in Schedules
    BY <1>a DEF PassState, Snapshot
  <2> DEFINE m == [at |-> now, pushed |-> FALSE]
  <2>2. m \in Created
    BY <1>a DEF Created
  <2>3. created' = [created EXCEPT ![r.id] = Append(created[r.id], m)]
    BY <1>4 DEF CreateJob
  <2> HIDE DEF m
  <2>4. created' \in [Schedules -> Seq(Created)] /\ created'[r.id] # <<>>
    BY <2>1, <2>2, <2>3, <1>a, CreatedAppend
  <2>5. pass' \in PassState /\ pass'.pc = "push" /\ pass'.row = r
    BY <1>4, <2>1, <1>a DEF CreateJob, PassState
  <2>6. r # NoSnapshot
    BY <2>1, SchedulesAssumption DEF NoSnapshot
  <2> QED BY <1>4, <2>4, <2>5, <2>6 DEF CreateJob, SchedulesTypeOK
<1>5. CASE PushCreated
  <2> DEFINE s == pass.row.id
             e == [created[s] EXCEPT ![Len(created[s])].pushed = TRUE]
  <2>1. s \in Schedules /\ created[s] # <<>> /\ created[s] \in Seq(Created)
    BY <1>5, <1>a, SchedulesAssumption
       DEF PushCreated, SchedulesTypeOK, PassState, Snapshot, NoSnapshot
  <2>2. e \in Seq(Created) /\ e # <<>>
    BY <2>1, CreatedEdit
  <2>3. created' = [created EXCEPT ![s] = e]
    BY <1>5, <1>a, <2>1 DEF PushCreated
  <2>4. pass' \in PassState /\ pass'.pc = "advance" /\ pass'.row = pass.row
        /\ pass.row # NoSnapshot
    BY <1>5, <1>a DEF PushCreated, PassState, SchedulesTypeOK
  <2> HIDE DEF e
  <2>5. created' \in [Schedules -> Seq(Created)] /\ created'[s] # <<>>
    BY <2>1, <2>2, <2>3, <1>a
  <2> QED BY <1>5, <2>4, <2>5 DEF PushCreated, SchedulesTypeOK
<1>6. CASE AdvanceSchedule
  <2> DEFINE s == pass.row.id
  <2>1. s \in Schedules /\ pass.row \in Snapshot /\ pass.at \in Nat
    BY <1>6, <1>a DEF AdvanceSchedule, SchedulesTypeOK, PassState, Snapshot
  <2>2. schedules' \in [Schedules -> ScheduleRow]
    <3>1. ASSUME NEW t \in compute_next_run(s, pass.at),
                 update_schedule(s, [schedules[s] EXCEPT !.next_run_at = t,
                                                 !.run_count = pass.row.run_count + 1])
          PROVE  schedules' \in [Schedules -> ScheduleRow]
      <4>1. t \in Int /\ pass.row.run_count + 1 \in Nat
        BY <2>1, NextType DEF Snapshot
      <4> QED BY <4>1, <3>1, <2>1, <1>a, RowTypes, UpdateType
    <3>2. ASSUME update_schedule(s, [schedules[s] EXCEPT !.status = "PAUSED"])
          PROVE  schedules' \in [Schedules -> ScheduleRow]
      <4>1. schedules[s] \in ScheduleRow
        BY <2>1, <1>a
      <4>2. [schedules[s] EXCEPT !.status = "PAUSED"] \in ScheduleRow
        BY <4>1 DEF ScheduleRow
      <4> QED BY <4>2, <3>2, <2>1, UpdateType
    <3> QED BY <1>6, <3>1, <3>2 DEF AdvanceSchedule
  <2>3. pass' \in PassState /\ (pass' = NoPass \/ pass'.pc = "create")
    BY <1>6, <1>a, PassTypes DEF AdvanceSchedule, NextInPass, PassState
  <2> QED BY <1>6, <2>2, <2>3, PassTypes DEF AdvanceSchedule, SchedulesTypeOK
<1> QED BY <1>1, <1>2, <1>3, <1>4, <1>5, <1>6 DEF SchedulerStep

RequestStep(c) ==
  \/ SaveSchedule(c) \/ PauseSchedule(c) \/ ComputeResume(c) \/ ResumeSchedule(c)
  \/ DeleteSchedule(c)
  \/ \E s \in Schedules :
       BeginCreate(c, s) \/ CheckPause(c, s) \/ CheckResume(c, s) \/ CheckDelete(c, s)

\* The steps of a request.
LEMMA RequestTypeStep ==
  ASSUME SchedulesTypeOK, NEW c \in Requests, RequestStep(c)
  PROVE  SchedulesTypeOK'
<1>a. /\ schedules \in [Schedules -> ScheduleRow] /\ now \in Nat
      /\ request \in [Requests -> RequestState]
      /\ request[c].pc # "idle" => request[c].id \in Schedules
      /\ request[c].next \in Int /\ env \in Env
  BY DEF SchedulesTypeOK, RequestState
<1>b. ASSUME NEW new \in RequestState, request' = [request EXCEPT ![c] = new],
             new.pc # "idle" => new.id # NoSchedule,
             schedules' \in [Schedules -> ScheduleRow], env' \in Env,
             UNCHANGED <<now, waiting, created, pass>>
      PROVE  SchedulesTypeOK'
  BY <1>b DEF SchedulesTypeOK
<1>c. IdleRequest \in RequestState /\ IdleRequest.pc = "idle"
  BY DEF IdleRequest, RequestState
<1>d. ASSUME NEW s \in Schedules, NEW t \in Int, NEW pc \in {"save", "pause", "compute", "resume", "delete"}
      PROVE  [pc |-> pc, id |-> s, next |-> t] \in RequestState /\ s # NoSchedule
  BY SchedulesAssumption DEF RequestState
<1>1. CASE SaveSchedule(c)
  <2>1. [status |-> "ACTIVE", next_run_at |-> request[c].next, run_count |-> 0] \in ScheduleRow
    BY <1>a DEF ScheduleRow
  <2>2. schedules' \in [Schedules -> ScheduleRow]
    BY <1>1, <1>a, <2>1 DEF SaveSchedule
  <2> QED BY <1>1, <2>2, <1>a, <1>b, <1>c DEF SaveSchedule, Respond
<1>2. CASE PauseSchedule(c) \/ ResumeSchedule(c) \/ DeleteSchedule(c)
  <2>1. request[c].id \in Schedules /\ schedules[request[c].id] \in ScheduleRow
    BY <1>2, <1>a DEF PauseSchedule, ResumeSchedule, DeleteSchedule
  <2>2. schedules' \in [Schedules -> ScheduleRow]
    BY <1>2, <2>1, <1>a, RowTypes, UpdateType DEF PauseSchedule, ResumeSchedule, DeleteSchedule
  <2> QED BY <1>2, <2>2, <1>a, <1>b, <1>c DEF PauseSchedule, ResumeSchedule, DeleteSchedule, Respond
<1>3. CASE ComputeResume(c)
  <2>1. request[c].id \in Schedules /\ compute_next_run(request[c].id, now) \subseteq Int
    BY <1>3, <1>a, NextType DEF ComputeResume
  <2> QED BY <1>3, <2>1, <1>a, <1>b, <1>c, <1>d DEF ComputeResume, Ask, Respond
<1>4. ASSUME NEW s \in Schedules, BeginCreate(c, s)
      PROVE  SchedulesTypeOK'
  <2>1. compute_next_run(s, now) \subseteq Int
    BY <1>a, NextType
  <2> QED BY <1>4, <2>1, <1>a, <1>b, <1>d DEF BeginCreate, Ask
<1>5. ASSUME NEW s \in Schedules, CheckPause(c, s) \/ CheckResume(c, s) \/ CheckDelete(c, s)
      PROVE  SchedulesTypeOK'
  <2>1. env' \in Env
    BY <1>5, <1>a DEF CheckPause, CheckResume, CheckDelete, Env
  <2>2. \E pc \in {"pause", "compute", "delete"} :
          request' = [request EXCEPT ![c] = [pc |-> pc, id |-> s, next |-> 0]]
    BY <1>5 DEF CheckPause, CheckResume, CheckDelete, Ask
  <2>3. UNCHANGED <<now, schedules, waiting, created, pass>>
    BY <1>5 DEF CheckPause, CheckResume, CheckDelete
  <2>4. PICK pc \in {"pause", "compute", "delete"} :
          request' = [request EXCEPT ![c] = [pc |-> pc, id |-> s, next |-> 0]]
    BY <2>2
  <2> DEFINE new == [pc |-> pc, id |-> s, next |-> 0]
  <2>5. new \in RequestState /\ new.id # NoSchedule
    BY SchedulesAssumption DEF RequestState
  <2>6. request' = [request EXCEPT ![c] = new]
    BY <2>4
  <2> HIDE DEF new
  <2> QED BY <2>1, <2>3, <2>5, <2>6, <1>a, <1>b
<1> QED BY <1>1, <1>2, <1>3, <1>4, <1>5 DEF RequestStep

LEMMA TypeStep == SchedulesTypeOK /\ [Next]_vars => SchedulesTypeOK'
<1> SUFFICES ASSUME SchedulesTypeOK, [Next]_vars PROVE SchedulesTypeOK'
  OBVIOUS
<1>1. CASE PassRaises \/ ApiCrash
  <2>1. env' \in Env /\ pass' = NoPass /\ UNCHANGED <<now, schedules, waiting, created>>
    BY <1>1 DEF PassRaises, ApiCrash, SchedulesTypeOK, Env
  <2>2. IdleRequest \in RequestState /\ IdleRequest.pc = "idle"
    BY DEF IdleRequest, RequestState
  <2>3. request' \in [Requests -> RequestState]
        /\ \A c \in Requests : request'[c].pc # "idle" => request'[c].id # NoSchedule
    BY <1>1, <2>2 DEF PassRaises, ApiCrash, SchedulesTypeOK
  <2> QED BY <2>1, <2>3, PassTypes DEF SchedulesTypeOK
<1>2. CASE Tick \/ UNCHANGED vars
  BY <1>2 DEF Tick, vars, SchedulesTypeOK
<1> QED BY <1>1, <1>2, PassTypeStep, RequestTypeStep DEF Next, RequestStep

\* Rows, the created jobs, the pass and the requests keep their types, and a
\* pass never has a schedule in hand without a job of it (SchedulesTypeOK).
THEOREM SchedulesTypeCorrect == Spec => []SchedulesTypeOK
  BY InitType, TypeStep, PTL DEF Spec
-----------------------------------------------------------------------------
(* Jobs of a schedule, one more or one pushed *)

LEMMA EarlyFinite ==
  ASSUME NEW s, NEW jobs \in Seq(Created)
  PROVE  IsFiniteSet(EarlyOf(s, jobs)) /\ Cardinality(EarlyOf(s, jobs)) \in Nat
<1> DEFINE n == Len(jobs)
<1>1. n \in Nat /\ DOMAIN jobs = 1 .. n
  OBVIOUS
<1>2. EarlyOf(s, jobs) \subseteq 1 .. n
  BY <1>1 DEF EarlyOf
<1> HIDE DEF n
<1>3. IsFiniteSet(1 .. n)
  BY <1>1, FS_Interval
<1> QED BY <1>2, <1>3, FS_Subset, FS_CardinalityType

LEMMA EarlyAppend ==
  ASSUME NEW s, NEW jobs \in Seq(Created), NEW m \in Created
  PROVE  Cardinality(EarlyOf(s, Append(jobs, m)))
           = Cardinality(EarlyOf(s, jobs)) + IF TooEarly(s, jobs, m.at) THEN 1 ELSE 0
<1> DEFINE n == Len(jobs)
           more == Append(jobs, m)
           E == EarlyOf(s, jobs)
<1>1. /\ n \in Nat /\ DOMAIN jobs = 1 .. n /\ DOMAIN more = 1 .. n + 1
      /\ \A i \in 1 .. n : more[i] = jobs[i]
      /\ more[n + 1] = m
      /\ jobs = <<>> <=> n = 0
  BY CreatedAppend
<1> HIDE DEF more, n
<1>2. n + 1 \notin E
  BY <1>1 DEF E, EarlyOf
<1>3. \A i \in 1 .. n : i \in EarlyOf(s, more) <=> i \in E
  <2> SUFFICES ASSUME NEW i \in 1 .. n, i # 1
               PROVE  more[i] = jobs[i] /\ more[i - 1] = jobs[i - 1]
    BY <1>1 DEF E, EarlyOf
  <2>1. i - 1 \in 1 .. n
    BY <1>1
  <2> QED BY <2>1, <1>1
<1>4. n + 1 \in EarlyOf(s, more) <=> TooEarly(s, jobs, m.at)
  <2>1. CASE n = 0
    BY <2>1, <1>1 DEF EarlyOf, TooEarly
  <2>2. CASE n # 0
    <3>1. n \in 1 .. n /\ n + 1 \in DOMAIN more \ {1} /\ (n + 1) - 1 = n
      BY <2>2, <1>1
    <3>2. more[n] = jobs[n] /\ more[n + 1] = m /\ jobs # <<>>
      BY <3>1, <2>2, <1>1
    <3> QED BY <3>1, <3>2 DEF EarlyOf, TooEarly, n
  <2> QED BY <2>1, <2>2
<1>5. EarlyOf(s, more) \subseteq 1 .. n + 1 /\ E \subseteq 1 .. n
  BY <1>1 DEF EarlyOf, E
<1>6. EarlyOf(s, more) = IF TooEarly(s, jobs, m.at) THEN E \union {n + 1} ELSE E
  BY <1>3, <1>4, <1>5, <1>1
<1>7. IsFiniteSet(E) /\ Cardinality(E) \in Nat
  BY EarlyFinite
<1> HIDE DEF E
<1>8. Cardinality(E \union {n + 1}) = Cardinality(E) + 1
  BY <1>2, <1>7, FS_AddElement
<1> QED BY <1>6, <1>7, <1>8 DEF E, more

LEMMA AppendSame ==
  ASSUME NEW s, NEW jobs \in Seq(Created), NEW m \in Created
  PROVE  /\ UpTo(PushedOf(Append(jobs, m)), Len(jobs)) = UpTo(PushedOf(jobs), Len(jobs))
         /\ UpTo(EndedOf(s, Append(jobs, m)), Len(jobs)) = UpTo(EndedOf(s, jobs), Len(jobs))
<1>1. \A i \in 1 .. Len(jobs) :
        /\ i \in PushedOf(Append(jobs, m)) <=> i \in PushedOf(jobs)
        /\ i \in EndedOf(s, Append(jobs, m)) <=> i \in EndedOf(s, jobs)
  BY CreatedAppend DEF PushedOf, EndedOf
<1> QED BY <1>1, UpToSame

LEMMA EditSame ==
  ASSUME NEW s, NEW jobs \in Seq(Created), jobs # <<>>,
         NEW e, e = [jobs EXCEPT ![Len(jobs)].pushed = TRUE]
  PROVE  /\ EarlyOf(s, e) = EarlyOf(s, jobs)
         /\ \A t : TooEarly(s, e, t) <=> TooEarly(s, jobs, t)
         /\ EndedOf(s, e) = EndedOf(s, jobs)
         /\ UpTo(PushedOf(e), Len(jobs) - 1) = UpTo(PushedOf(jobs), Len(jobs) - 1)
<1>1. /\ e # <<>> /\ Len(jobs) \in Nat \ {0} /\ Len(e) = Len(jobs)
      /\ DOMAIN jobs = 1 .. Len(jobs) /\ DOMAIN e = DOMAIN jobs
      /\ \A i \in DOMAIN jobs : e[i].at = jobs[i].at
      /\ \A i \in DOMAIN jobs : i # Len(jobs) => e[i] = jobs[i]
  BY CreatedEdit
<1>2. EarlyOf(s, e) = EarlyOf(s, jobs)
  <2>1. \A i \in DOMAIN jobs \ {1} : i - 1 \in DOMAIN jobs
    BY <1>1
  <2> QED BY <2>1, <1>1 DEF EarlyOf
<1>3. \A t : TooEarly(s, e, t) <=> TooEarly(s, jobs, t)
  <2>1. Len(jobs) \in DOMAIN jobs
    BY <1>1
  <2> QED BY <2>1, <1>1 DEF TooEarly
<1>4. EndedOf(s, e) = EndedOf(s, jobs)
  BY <1>1 DEF EndedOf
<1>5. \A i \in 1 .. Len(jobs) - 1 : i \in PushedOf(e) <=> i \in PushedOf(jobs)
  BY <1>1 DEF PushedOf
<1> QED BY <1>2, <1>3, <1>4, <1>5, UpToSame

-----------------------------------------------------------------------------
(* Frames: what leaves Counted and Caused alone *)

LEMMA Numbers ==
  ASSUME SchedulesTypeOK, NEW s \in Schedules
  PROVE  /\ Cardinality(EarlyOf(s, created[s])) \in Nat
         /\ Owed(s) \in {0, 1}
         /\ IsFiniteSet(Resuming(s)) /\ Cardinality(Resuming(s)) \in Nat
         /\ env.errors \in Nat /\ env.outages \in Nat /\ env.resumes \in Nat
         /\ schedules[s].run_count \in Nat
         /\ Len(created[s]) \in Nat /\ Settled(s) \in Nat
<1>1. created[s] \in Seq(Created)
  BY DEF SchedulesTypeOK
<1>2. Cardinality(EarlyOf(s, created[s])) \in Nat
  BY <1>1, EarlyFinite
<1>3. Resuming(s) \subseteq Requests
  BY DEF Resuming
<1>4. IsFiniteSet(Resuming(s)) /\ Cardinality(Resuming(s)) \in Nat
  BY <1>3, SchedulesAssumption, FS_Subset, FS_CardinalityType
<1>5. Len(created[s]) \in Nat /\ (created[s] # <<>> => Len(created[s]) > 0)
  BY <1>1
<1>6. InHand(s) => created[s] # <<>>
  BY DEF InHand, SchedulesTypeOK
<1>7. /\ env.errors \in Nat /\ env.outages \in Nat /\ env.resumes \in Nat
      /\ schedules[s].run_count \in Nat
  BY DEF SchedulesTypeOK, Env, ScheduleRow
<1> QED BY <1>2, <1>4, <1>5, <1>6, <1>7 DEF Owed, Settled

LEMMA CountedFrame ==
  ASSUME SchedulesTypeOK, NEW s \in Schedules, Counted(s),
         Exists(s)' => Exists(s) /\ schedules'[s].run_count = schedules[s].run_count,
         created'[s] = created[s], InHand(s)' <=> InHand(s),
         env'.errors \in Nat, env'.outages \in Nat,
         env'.errors >= env.errors, env'.outages >= env.outages
  PROVE  Counted(s)'
<1>1. Settled(s)' = Settled(s) /\ Settled(s) \in Nat
  BY Numbers DEF Settled
<1>2. UpTo(EndedOf(s, created[s]), Settled(s)) \in Nat
      /\ UpTo(PushedOf(created[s]), Settled(s)) \in Nat
  BY <1>1, UpToNext
<1>3. env.errors \in Nat /\ env.outages \in Nat /\ schedules[s].run_count \in Nat
  BY Numbers
<1> QED BY <1>1, <1>2, <1>3 DEF Counted

\* The causes may grow by one when something is owed, or asked for.
LEMMA CausedFrame ==
  ASSUME SchedulesTypeOK, SchedulesTypeOK', NEW s \in Schedules, Caused(s),
         EarlyOf(s, created'[s]) = EarlyOf(s, created[s]),
         Resuming(s)' \subseteq Resuming(s),
         env'.errors + env'.outages + env'.resumes >= env.errors + env.outages + env.resumes,
         \/ Owing(s)' => Owing(s)
         \/ env'.errors + env'.outages + env'.resumes > env.errors + env.outages + env.resumes
         \/ \E c \in Resuming(s) : c \notin Resuming(s)'
  PROVE  Caused(s)'
<1>1. /\ Cardinality(EarlyOf(s, created[s])) \in Nat
      /\ Owed(s) \in {0, 1}
      /\ IsFiniteSet(Resuming(s)) /\ Cardinality(Resuming(s)) \in Nat
      /\ env.errors \in Nat /\ env.outages \in Nat /\ env.resumes \in Nat
  BY Numbers
<1>2. env'.errors \in Nat /\ env'.outages \in Nat /\ env'.resumes \in Nat
  BY DEF SchedulesTypeOK, Env
<1>3. Cardinality(Resuming(s)') \in Nat /\ Cardinality(Resuming(s)') <= Cardinality(Resuming(s))
  BY <1>1, FS_Subset, FS_CardinalityType
<1>4. ASSUME \E c \in Resuming(s) : c \notin Resuming(s)'
      PROVE  Cardinality(Resuming(s)') < Cardinality(Resuming(s))
  <2>1. Resuming(s)' # Resuming(s)
    BY <1>4
  <2>2. Cardinality(Resuming(s)') # Cardinality(Resuming(s))
    BY <2>1, <1>1, FS_Subset
  <2> QED BY <2>2, <1>1, <1>3
<1>5. Owed(s)' \in {0, 1} /\ (Owed(s)' = 1 => Owing(s)') /\ (Owing(s) => Owed(s) = 1)
  BY DEF Owed
<1>6. Cardinality(EarlyOf(s, created[s])) + Owed(s) + Cardinality(Resuming(s))
        <= env.errors + env.outages + env.resumes
  BY DEF Caused
<1>7. Cardinality(EarlyOf(s, created'[s])) + Owed(s)' + Cardinality(Resuming(s)')
        <= env'.errors + env'.outages + env'.resumes
  <2> DEFINE E == Cardinality(EarlyOf(s, created[s]))
             O == Owed(s)
             P == Owed(s)'
             R == Cardinality(Resuming(s))
             Q == Cardinality(Resuming(s)')
             N == env.errors + env.outages + env.resumes
             M == env'.errors + env'.outages + env'.resumes
  <2>1. E \in Nat /\ O \in {0, 1} /\ P \in {0, 1} /\ R \in Nat /\ Q \in Nat /\ N \in Nat /\ M \in Nat
    BY <1>1, <1>2, <1>3, <1>5
  <2>2. E + O + R <= N /\ Q <= R /\ M >= N
    BY <1>3, <1>6
  <2>3. P <= O \/ M > N \/ Q < R
    BY <1>4, <1>5, <2>1
  <2> HIDE DEF E, O, P, R, Q, N, M
  <2>4. E + P + Q <= M
    BY <2>1, <2>2, <2>3
  <2> QED BY <2>4 DEF E, P, Q, M
<1> QED BY <1>7 DEF Caused
-----------------------------------------------------------------------------
(* The invariant holds initially *)

LEMMA InitIInv == Init => IInv
<1> SUFFICES ASSUME Init PROVE IInv
  OBVIOUS
<1>1. SchedulesTypeOK
  BY InitType
<1>2. /\ \A s \in Schedules : created[s] = <<>> /\ ~Exists(s) /\ schedules[s].status = "UNUSED"
      /\ pass.pc = "sleep" /\ pass.due = {}
      /\ \A c \in Requests : request[c].pc = "idle"
      /\ env = [errors |-> 0, outages |-> 0, resumes |-> 0]
  BY DEF Init, Exists, NoPass, IdleRequest
<1>3. SavedOnce /\ SnapshotsHold /\ InHandIsLast
  BY <1>2 DEF SavedOnce, SnapshotsHold, InHandIsLast, Working
<1>4. ASSUME NEW s \in Schedules
      PROVE  Counted(s) /\ Caused(s)
  <2>1. Counted(s)
    BY <1>2 DEF Counted
  <2>2. ~Owing(s)
    BY <1>2 DEF Owing
  <2>3. Resuming(s) = {} /\ EarlyOf(s, created[s]) = {}
    BY <1>2 DEF Resuming, EarlyOf
  <2> QED BY <2>1, <2>2, <2>3, <1>2, FS_EmptySet DEF Caused, Owed
<1> QED BY <1>1, <1>3, <1>4 DEF IInv

-----------------------------------------------------------------------------
(* The requests *)

\* What a request can do to a row: save a new one, pause, delete or resume it.
LEMMA RequestRows ==
  ASSUME SchedulesTypeOK, NEW c \in Requests, RequestStep(c), NEW s \in Schedules
  PROVE  \/ schedules'[s] = schedules[s]
         \/ /\ SaveSchedule(c) /\ s = request[c].id
            /\ schedules'[s].status = "ACTIVE" /\ schedules'[s].run_count = 0
         \/ /\ Exists(s) /\ schedules'[s].status # "UNUSED"
            /\ schedules'[s].run_count = schedules[s].run_count
            /\ (ResumeSchedule(c) /\ s = request[c].id) \/ schedules'[s].status # "ACTIVE"
<1>a. schedules \in [Schedules -> ScheduleRow] /\ schedules[s] \in ScheduleRow
  BY DEF SchedulesTypeOK
<1>1. CASE SaveSchedule(c)
  BY <1>1, <1>a DEF SaveSchedule
<1>2. CASE PauseSchedule(c)
  BY <1>2, <1>a DEF PauseSchedule, update_schedule, ScheduleRow
<1>3. CASE DeleteSchedule(c)
  BY <1>3, <1>a DEF DeleteSchedule, update_schedule, ScheduleRow
<1>4. CASE ResumeSchedule(c)
  BY <1>4, <1>a DEF ResumeSchedule, update_schedule, ScheduleRow
<1>5. CASE UNCHANGED schedules
  BY <1>5
<1> QED BY <1>1, <1>2, <1>3, <1>4, <1>5
        DEF RequestStep, ComputeResume, BeginCreate, CheckPause, CheckResume, CheckDelete

\* What it can do to the requests: its own entry is answered or asks for more.
LEMMA RequestEntries ==
  ASSUME SchedulesTypeOK, NEW c \in Requests, RequestStep(c)
  PROVE  /\ UNCHANGED <<now, waiting, created, pass>>
         /\ \A d \in Requests \ {c} : request'[d] = request[d]
         /\ \/ request'[c].pc = "idle" /\ request'[c].id = NoSchedule /\ UNCHANGED env
            \/ /\ ComputeResume(c) /\ UNCHANGED env
               /\ request'[c].pc = "resume" /\ request'[c].id = request[c].id
            \/ \E s \in Schedules :
                 /\ request'[c].id = s /\ request[c].pc = "idle"
                 /\ \/ /\ request'[c].pc = "save" /\ UNCHANGED env
                       /\ schedules[s].status = "UNUSED"
                       /\ \A d \in Requests : request[d].id # s
                    \/ /\ schedules[s].status # "UNUSED" /\ request'[c].pc \in {"pause", "delete"}
                       /\ UNCHANGED env
                    \/ /\ schedules[s].status # "UNUSED" /\ request'[c].pc = "compute"
                       /\ env' = [env EXCEPT !.resumes = @ + 1]
<1>a. request \in [Requests -> RequestState]
  BY DEF SchedulesTypeOK
<1>1. CASE SaveSchedule(c) \/ PauseSchedule(c) \/ ResumeSchedule(c) \/ DeleteSchedule(c)
  BY <1>1, <1>a DEF SaveSchedule, PauseSchedule, ResumeSchedule, DeleteSchedule, Respond, IdleRequest
<1>2. CASE ComputeResume(c)
  BY <1>2, <1>a DEF ComputeResume, Ask, Respond, IdleRequest
<1>3. ASSUME NEW s \in Schedules, BeginCreate(c, s)
      PROVE  /\ UNCHANGED <<now, waiting, created, pass>>
             /\ \A d \in Requests \ {c} : request'[d] = request[d]
             /\ request'[c].id = s /\ request'[c].pc = "save" /\ UNCHANGED env
             /\ schedules[s].status = "UNUSED" /\ \A d \in Requests : request[d].id # s
             /\ request[c].pc = "idle"
  BY <1>3, <1>a DEF BeginCreate, Ask
<1>4. ASSUME NEW s \in Schedules, CheckPause(c, s) \/ CheckDelete(c, s)
      PROVE  /\ UNCHANGED <<now, waiting, created, pass>>
             /\ \A d \in Requests \ {c} : request'[d] = request[d]
             /\ request'[c].id = s /\ request'[c].pc \in {"pause", "delete"} /\ UNCHANGED env
             /\ schedules[s].status # "UNUSED" /\ request[c].pc = "idle"
  BY <1>4, <1>a DEF CheckPause, CheckDelete, Ask, Exists
<1>5. ASSUME NEW s \in Schedules, CheckResume(c, s)
      PROVE  /\ UNCHANGED <<now, waiting, created, pass>>
             /\ \A d \in Requests \ {c} : request'[d] = request[d]
             /\ request'[c].id = s /\ request'[c].pc = "compute"
             /\ env' = [env EXCEPT !.resumes = @ + 1]
             /\ schedules[s].status # "UNUSED" /\ request[c].pc = "idle"
  BY <1>5, <1>a DEF CheckResume, Ask
<1> QED BY <1>1, <1>2, <1>3, <1>4, <1>5 DEF RequestStep
LEMMA RequestSaved ==
  ASSUME SchedulesTypeOK, SavedOnce, NEW c \in Requests, RequestStep(c)
  PROVE  SavedOnce'
<1>a. /\ UNCHANGED <<now, created, pass>>
      /\ \A d \in Requests \ {c} : request'[d] = request[d]
      /\ \A d \in Requests : request[d].pc # "idle" => request[d].id \in Schedules
      /\ \A d \in Requests : request[d].id \in Schedules \union {NoSchedule}
  BY RequestEntries DEF SchedulesTypeOK, RequestState
<1>b. \A s \in Schedules :
        \/ schedules'[s] = schedules[s]
        \/ SaveSchedule(c) /\ s = request[c].id /\ schedules'[s].status = "ACTIVE"
        \/ Exists(s) /\ schedules'[s].status # "UNUSED"
  BY RequestRows
<1>c. \A s \in Schedules : schedules'[s].status = "UNUSED" => schedules[s].status = "UNUSED"
  BY <1>b
<1>1. \A s \in Schedules : schedules'[s].status = "UNUSED" =>
        /\ created'[s] = <<>>
        /\ \A r \in pass'.due : r.id # s
        /\ Working' => pass'.row.id # s
  BY <1>a, <1>c DEF SavedOnce, Working
<1>2. ASSUME NEW e \in Requests, request'[e].pc = "save"
      PROVE  /\ schedules'[request'[e].id].status = "UNUSED"
             /\ \A d \in Requests \ {e} : request'[d].id # request'[e].id
  <2>1. CASE e = c
    <3>1. PICK s \in Schedules :
            /\ request'[c].id = s /\ request[c].pc = "idle"
            /\ schedules[s].status = "UNUSED" /\ \A d \in Requests : request[d].id # s
      BY <2>1, <1>2, RequestEntries
    <3>2. schedules'[s] = schedules[s]
      BY <3>1, <1>b DEF Exists, SaveSchedule
    <3> QED BY <3>1, <3>2, <2>1, <1>a
  <2>2. CASE e # c
    <3>1. /\ request'[e] = request[e] /\ request[e].id \in Schedules
          /\ schedules[request[e].id].status = "UNUSED"
          /\ \A d \in Requests \ {e} : request[d].id # request[e].id
      BY <2>2, <1>2, <1>a DEF SavedOnce
    <3>2. schedules'[request[e].id] = schedules[request[e].id]
      BY <3>1, <2>2, <1>b DEF Exists
    <3>3. request'[c].id # request[e].id
      <4>1. CASE request'[c].id = NoSchedule
        BY <4>1, <3>1, SchedulesAssumption
      <4>2. CASE request'[c].id = request[c].id
        BY <4>2, <3>1, <2>2
      <4>3. CASE \E s \in Schedules : request'[c].id = s
                   /\ (schedules[s].status # "UNUSED" \/ \A d \in Requests : request[d].id # s)
        BY <4>3, <3>1
      <4> QED BY <4>1, <4>2, <4>3, RequestEntries
    <3> QED BY <3>1, <3>2, <3>3, <1>a
  <2> QED BY <2>1, <2>2
<1> QED BY <1>1, <1>2 DEF SavedOnce

LEMMA RequestInv ==
  ASSUME IInv, NEW c \in Requests, RequestStep(c)
  PROVE  IInv'
<1>a. SchedulesTypeOK /\ SavedOnce /\ SnapshotsHold /\ InHandIsLast
  BY DEF IInv
<1>b. SchedulesTypeOK' /\ SavedOnce'
  BY <1>a, RequestTypeStep, RequestSaved
<1>c. UNCHANGED <<now, created, pass>> /\ env'.errors = env.errors /\ env'.outages = env.outages
  BY <1>a, RequestEntries DEF SchedulesTypeOK, Env
<1>d. ASSUME NEW s \in Schedules
      PROVE  \/ schedules'[s] = schedules[s]
             \/ SaveSchedule(c) /\ s = request[c].id /\ schedules[s].status = "UNUSED"
                  /\ schedules'[s].run_count = 0
             \/ /\ Exists(s) /\ schedules'[s].run_count = schedules[s].run_count
                /\ (ResumeSchedule(c) /\ s = request[c].id) \/ schedules'[s].status # "ACTIVE"
  <2>1. SaveSchedule(c) => schedules[request[c].id].status = "UNUSED"
    BY <1>a DEF SaveSchedule, SavedOnce
  <2> QED BY <1>a, <2>1, RequestRows
<1>e. Working' = Working /\ \A s \in Schedules : InHand(s)' = InHand(s)
  BY <1>c DEF Working, InHand
<1>f. pass.due \subseteq Snapshot /\ (Working => pass.row \in Snapshot)
  BY <1>a DEF SchedulesTypeOK, PassState, Working
<1>1. SnapshotsHold'
  <2>1. ASSUME NEW s \in Schedules, Exists(s)', schedules[s].status # "UNUSED"
        PROVE  Exists(s) /\ schedules'[s].run_count = schedules[s].run_count
    BY <2>1, <1>d DEF Exists
  <2>2. ASSUME NEW r \in pass.due, Exists(r.id)'
        PROVE  r.run_count = schedules'[r.id].run_count
    BY <2>1, <2>2, <1>a, <1>f DEF SavedOnce, SnapshotsHold, Snapshot
  <2>3. ASSUME Working, Exists(pass.row.id)'
        PROVE  pass.row.run_count = schedules'[pass.row.id].run_count
    BY <2>1, <2>3, <1>a, <1>c, <1>f DEF SavedOnce, SnapshotsHold, Snapshot
  <2> QED BY <2>2, <2>3, <1>a, <1>c, <1>e DEF SnapshotsHold
<1>2. InHandIsLast'
  BY <1>a, <1>c, <1>e DEF InHandIsLast
<1>3. ASSUME NEW s \in Schedules
      PROVE  Counted(s)'
  <2>0. Counted(s) /\ InHand(s)' = InHand(s) /\ created'[s] = created[s]
        /\ env.errors \in Nat /\ env.outages \in Nat
    BY <1>a, <1>c, <1>e, Numbers DEF IInv
  <2>1. CASE schedules[s].status # "UNUSED"
    <3>1. Exists(s)' => Exists(s) /\ schedules'[s].run_count = schedules[s].run_count
      BY <2>1, <1>d DEF Exists
    <3> QED BY <3>1, <2>0, <1>a, <1>c, CountedFrame
  <2>2. CASE schedules[s].status = "UNUSED"
    <3>1. created'[s] = <<>> /\ ~InHand(s)'
      BY <2>2, <2>0, <1>a DEF SavedOnce, InHand, Working
    <3>2. Exists(s)' => schedules'[s].run_count = 0
      BY <2>2, <1>d DEF Exists
    <3>3. Settled(s)' = 0
      BY <3>1 DEF Settled
    <3>4. UpTo(EndedOf(s, created[s]), Settled(s))' \in Nat
          /\ UpTo(PushedOf(created[s]), Settled(s))' \in Nat
      BY <3>3, UpToNext
    <3> QED BY <3>2, <3>3, <3>4, <2>0, <1>c DEF Counted
  <2> QED BY <2>1, <2>2
<1>4. ASSUME NEW s \in Schedules
      PROVE  Caused(s)'
  <2>0. Caused(s) /\ InHand(s)' = InHand(s) /\ created'[s] = created[s]
    BY <1>c, <1>e DEF IInv
  <2>1. CASE ResumeSchedule(c) /\ s = request[c].id
    <3>1. Resuming(s)' \subseteq Resuming(s) /\ c \in Resuming(s) /\ c \notin Resuming(s)' /\ env' = env
      BY <2>1, <1>a DEF ResumeSchedule, Respond, IdleRequest, Resuming, SchedulesTypeOK
    <3>2. env'.errors + env'.outages + env'.resumes >= env.errors + env.outages + env.resumes
      BY <3>1, <1>a, Numbers
    <3> QED BY <3>1, <3>2, <2>0, <1>a, <1>b, CausedFrame
  <2>2. CASE ~(ResumeSchedule(c) /\ s = request[c].id)
    <3>1. Owing(s)' => Owing(s)
      <4>1. \/ schedules'[s] = schedules[s] \/ created[s] = <<>> \/ schedules'[s].status # "ACTIVE"
        BY <2>2, <1>d, <1>a DEF SavedOnce
      <4> QED BY <4>1, <2>0, <1>c DEF Owing, TooEarly
    <3>2. CASE Resuming(s)' \subseteq Resuming(s)
      <4>1. env'.errors + env'.outages + env'.resumes >= env.errors + env.outages + env.resumes
        <5>1. env.errors \in Nat /\ env.outages \in Nat /\ env.resumes \in Nat
          BY <1>a, Numbers
        <5>2. env' = env \/ env' = [env EXCEPT !.resumes = @ + 1]
          BY <1>a, RequestEntries
        <5>3. env'.resumes >= env.resumes /\ env'.resumes \in Nat
          BY <5>1, <5>2, <1>a DEF SchedulesTypeOK, Env
        <5> QED BY <5>1, <5>3, <1>c
      <4> QED BY <3>1, <3>2, <4>1, <2>0, <1>a, <1>b, CausedFrame
    <3>3. CASE ~(Resuming(s)' \subseteq Resuming(s))
      <4>1. /\ request[c].pc = "idle" /\ env' = [env EXCEPT !.resumes = @ + 1]
            /\ request'[c].pc = "compute" /\ request'[c].id = s
            /\ \A d \in Requests \ {c} : request'[d] = request[d]
        <5>1. PICK d \in Requests : d \in Resuming(s)' /\ d \notin Resuming(s)
          BY <3>3 DEF Resuming
        <5>2. d = c
          BY <5>1, <1>a, RequestEntries DEF Resuming
        <5>3. request'[c].pc \in {"compute", "resume"} /\ request'[c].id = s
              /\ ~(request[c].pc = "compute" /\ request[c].id = s)
          BY <5>1, <5>2 DEF Resuming
        <5>4. ~(ComputeResume(c) /\ request'[c].id = request[c].id)
          BY <5>3 DEF ComputeResume
        <5> QED BY <5>3, <5>4, <1>a, RequestEntries
      <4>2. Resuming(s)' = Resuming(s) \union {c} /\ c \notin Resuming(s)
        BY <4>1 DEF Resuming
      <4>3. Cardinality(Resuming(s)') = Cardinality(Resuming(s)) + 1
        BY <4>2, <1>a, Numbers, FS_AddElement
      <4>4. env'.resumes = env.resumes + 1
        BY <4>1, <1>a DEF SchedulesTypeOK, Env
      <4>5. Owed(s)' \in {0, 1} /\ Owed(s)' <= Owed(s)
        BY <3>1 DEF Owed
      <4>6. Cardinality(EarlyOf(s, created[s])) \in Nat /\ Owed(s) \in {0, 1}
            /\ Cardinality(Resuming(s)) \in Nat
            /\ env.errors \in Nat /\ env.outages \in Nat /\ env.resumes \in Nat
        BY <1>a, Numbers
      <4> QED BY <4>3, <4>4, <4>5, <4>6, <2>0, <1>c DEF Caused
    <3> QED BY <3>2, <3>3
  <2> QED BY <2>1, <2>2
<1> QED BY <1>b, <1>1, <1>2, <1>3, <1>4 DEF IInv
-----------------------------------------------------------------------------
(* The pass *)

\* Steps outside the loop body, which only find what is due, or let time pass.
LEMMA LookInv ==
  ASSUME IInv, SchedulesTypeOK', UNCHANGED <<schedules, created, request, env>>, now' \in Nat, now' >= now,
         \/ UNCHANGED pass
         \/ /\ ~Working /\ ~Working'
            /\ \A r \in pass'.due :
                 /\ Due(r.id) /\ r.id \in Schedules
                 /\ r.next_run_at = schedules[r.id].next_run_at
                 /\ r.run_count = schedules[r.id].run_count
                 /\ \A o \in pass'.due : o.id = r.id => o = r
  PROVE  IInv'
<1>a. /\ SchedulesTypeOK /\ SavedOnce /\ SnapshotsHold /\ InHandIsLast /\ now \in Nat
      /\ schedules \in [Schedules -> ScheduleRow] /\ pass.due \subseteq Snapshot
  BY DEF IInv, SchedulesTypeOK, PassState
<1>b. Working' = Working /\ \A s \in Schedules : InHand(s)' = InHand(s)
  BY DEF Working, InHand
<1>c. \A r \in pass'.due : Due(r.id) => schedules[r.id].status = "ACTIVE" /\ schedules[r.id].next_run_at <= now
  BY DEF Due
<1>1. SavedOnce'
  <2>1. CASE UNCHANGED pass
    BY <2>1, <1>a DEF SavedOnce, Working
  <2>2. CASE ~UNCHANGED pass
    BY <2>2, <1>a, <1>b, <1>c DEF SavedOnce
  <2> QED BY <2>1, <2>2
<1>2. SnapshotsHold'
  <2>1. CASE UNCHANGED pass
    <3>1. \A r \in pass.due : r.next_run_at <= now'
      BY <1>a DEF SnapshotsHold, Snapshot
    <3> QED BY <2>1, <3>1, <1>a DEF SnapshotsHold, Working, Exists
  <2>2. CASE ~UNCHANGED pass
    <3>1. \A r \in pass'.due : r.next_run_at <= now'
      BY <2>2, <1>a, <1>c DEF ScheduleRow
    <3> QED BY <2>2, <3>1, <1>b DEF SnapshotsHold, Exists
  <2> QED BY <2>1, <2>2
<1>3. InHandIsLast'
  BY <1>a, <1>b DEF InHandIsLast, Working
<1>4. ASSUME NEW s \in Schedules
      PROVE  Counted(s)' /\ Caused(s)'
  <2>1. Counted(s)'
    BY <1>a, <1>b, Numbers, CountedFrame DEF IInv, Exists
  <2>2. Owing(s)' => Owing(s)
    <3>1. CASE UNCHANGED pass
      BY <3>1 DEF Owing, InHand, TooEarly
    <3>2. CASE ~UNCHANGED pass
      BY <3>2, <1>b, <1>c DEF Owing, TooEarly
    <3> QED BY <3>1, <3>2
  <2>3. Resuming(s)' = Resuming(s)
    BY DEF Resuming
  <2>4. env'.errors + env'.outages + env'.resumes >= env.errors + env.outages + env.resumes
    BY <1>a, Numbers
  <2> QED BY <2>1, <2>2, <2>3, <2>4, <1>a, CausedFrame DEF IInv
<1> QED BY <1>1, <1>2, <1>3, <1>4 DEF IInv

LEMMA CreateInv ==
  ASSUME IInv, NEW r \in pass.due, CreateJob(r)
  PROVE  IInv'
<1>a. SchedulesTypeOK /\ SavedOnce /\ SnapshotsHold /\ InHandIsLast
  BY DEF IInv
<1>b. SchedulesTypeOK'
  BY <1>a, PassTypeStep DEF SchedulerStep
<1> DEFINE s == r.id
           m == [at |-> now, pushed |-> FALSE]
<1>1. r \in Snapshot /\ s \in Schedules /\ created[s] \in Seq(Created) /\ m \in Created
      /\ now \in Nat /\ r.next_run_at \in Int
  BY <1>a DEF SchedulesTypeOK, PassState, Snapshot, Created
<1>2. /\ created' = [created EXCEPT ![s] = Append(created[s], m)]
      /\ created'[s] = Append(created[s], m)
      /\ \A u \in Schedules \ {s} : created'[u] = created[u]
      /\ ~Working /\ Working' /\ pass'.due = pass.due \ {r} /\ pass'.row = r /\ pass'.at = now
      /\ pass'.pc = "push"
      /\ UNCHANGED <<now, schedules, request, env>>
  BY <1>a, <1>1 DEF CreateJob, Working, SchedulesTypeOK
<1>3. m.at = now
  OBVIOUS
<1> HIDE DEF m
<1>4. schedules[s].status # "UNUSED"
  BY <1>a, <1>1 DEF SavedOnce
<1>5. SavedOnce'
  BY <1>2, <1>4, <1>a DEF SavedOnce
<1>6. SnapshotsHold'
  <2>1. \A o \in pass'.due : o \in pass.due /\ o.id # s
    BY <1>2, <1>a DEF SnapshotsHold
  <2> QED BY <2>1, <1>2, <1>a DEF SnapshotsHold, Exists
<1>7. InHandIsLast'
  <2>1. created'[s][Len(created'[s])] = m
    BY <1>1, <1>2, CreatedAppend
  <2> QED BY <2>1, <1>2, <1>3 DEF InHandIsLast
<1>8. \A u \in Schedules : ~InHand(u) /\ (InHand(u)' <=> u = s) /\ Resuming(u)' = Resuming(u)
  BY <1>2 DEF InHand, Working, Resuming
<1>9. env'.errors + env'.outages + env'.resumes >= env.errors + env.outages + env.resumes
      /\ env.errors \in Nat /\ env.outages \in Nat /\ env.resumes \in Nat
  BY <1>1, <1>2, <1>a, Numbers
<1>10. ASSUME NEW u \in Schedules, u # s
       PROVE  Counted(u)' /\ Caused(u)'
  <2>1. Counted(u)'
    BY <1>10, <1>2, <1>8, <1>9, <1>a, CountedFrame DEF IInv, Exists
  <2>2. Owing(u)' => Owing(u)
    BY <1>10, <1>2, <1>8 DEF Owing, TooEarly
  <2> QED BY <2>1, <2>2, <1>10, <1>2, <1>8, <1>9, <1>a, <1>b, CausedFrame DEF IInv
<1>11. Counted(s)'
  <2>1. Settled(s) = Len(created[s]) /\ Settled(s)' = Settled(s)
    <3>1. Len(created'[s]) = Len(created[s]) + 1 /\ Len(created[s]) \in Nat
      BY <1>1, <1>2, CreatedAppend
    <3> QED BY <3>1, <1>8, <1>1 DEF Settled
  <2>2. /\ UpTo(PushedOf(created'[s]), Settled(s)) = UpTo(PushedOf(created[s]), Settled(s))
        /\ UpTo(EndedOf(s, created'[s]), Settled(s)) = UpTo(EndedOf(s, created[s]), Settled(s))
    BY <2>1, <1>1, <1>2, AppendSame
  <2>3. Counted(s) /\ (Exists(s)' <=> Exists(s))
    BY <1>1, <1>2 DEF IInv, Exists
  <2> QED BY <2>1, <2>2, <2>3, <1>2 DEF Counted
<1>12. Caused(s)'
  <2>1. TooEarly(s, created[s], now) => Owing(s)
    <3>1. r.next_run_at <= now
      BY <1>a DEF SnapshotsHold
    <3>2. ASSUME TooEarly(s, created[s], now)
          PROVE  TooEarly(s, created[s], r.next_run_at)
      <4>1. created[s][Len(created[s])].at \in Int
        <5>1. created[s] # <<>>
          BY <3>2 DEF TooEarly
        <5>2. created[s][Len(created[s])] \in Created
          BY <5>1, <1>1
        <5> QED BY <5>2 DEF Created
      <4>2. compute_next_run(s, created[s][Len(created[s])].at) \subseteq Int
        BY <4>1, <1>1, NextType
      <4> QED BY <3>1, <3>2, <4>2, <1>1 DEF TooEarly
    <3> QED BY <3>2, <1>1, <1>8 DEF Owing
  <2>2. Cardinality(EarlyOf(s, created'[s]))
          = Cardinality(EarlyOf(s, created[s])) + IF TooEarly(s, created[s], now) THEN 1 ELSE 0
    BY <1>1, <1>2, <1>3, EarlyAppend
  <2>3. Owed(s)' = 0
    BY <1>1, <1>8 DEF Owed, Owing
  <2>4. /\ Cardinality(EarlyOf(s, created[s])) \in Nat /\ Owed(s) \in {0, 1}
        /\ Cardinality(Resuming(s)) \in Nat /\ Caused(s) /\ Resuming(s)' = Resuming(s)
    BY <1>1, <1>8, <1>a, Numbers DEF IInv
  <2>5. TooEarly(s, created[s], now) => Owed(s) = 1
    BY <2>1 DEF Owed
  <2> QED BY <2>2, <2>3, <2>4, <2>5, <1>9, <1>2 DEF Caused
<1> QED BY <1>b, <1>5, <1>6, <1>7, <1>10, <1>11, <1>12 DEF IInv
LEMMA PushInv ==
  ASSUME IInv, PushCreated
  PROVE  IInv'
<1>a. SchedulesTypeOK /\ SavedOnce /\ SnapshotsHold /\ InHandIsLast
  BY DEF IInv
<1>b. SchedulesTypeOK'
  BY <1>a, PassTypeStep DEF SchedulerStep
<1> DEFINE s == pass.row.id
           e == [created[s] EXCEPT ![Len(created[s])].pushed = TRUE]
<1>1. s \in Schedules /\ created[s] \in Seq(Created) /\ created[s] # <<>>
  BY <1>a, SchedulesAssumption DEF PushCreated, SchedulesTypeOK, PassState, Snapshot, NoSnapshot
<1>2. /\ created'[s] = e
      /\ \A u \in Schedules \ {s} : created'[u] = created[u]
      /\ Working /\ Working' /\ pass'.due = pass.due /\ pass'.row = pass.row /\ pass'.at = pass.at
      /\ UNCHANGED <<now, schedules, request, env>>
  BY <1>a, <1>1 DEF PushCreated, Working, SchedulesTypeOK, PassState
<1>3. /\ EarlyOf(s, e) = EarlyOf(s, created[s])
      /\ \A t : TooEarly(s, e, t) <=> TooEarly(s, created[s], t)
      /\ EndedOf(s, e) = EndedOf(s, created[s])
      /\ UpTo(PushedOf(e), Len(created[s]) - 1) = UpTo(PushedOf(created[s]), Len(created[s]) - 1)
  BY <1>1, EditSame
<1>4. /\ e # <<>> /\ Len(created[s]) \in Nat \ {0} /\ Len(e) = Len(created[s])
      /\ \A i \in 1 .. Len(created[s]) : e[i].at = created[s][i].at
      /\ e[Len(created[s])].pushed
  BY <1>1, CreatedEdit
<1> HIDE DEF e
<1>5. SavedOnce'
  BY <1>1, <1>2, <1>a DEF SavedOnce
<1>6. SnapshotsHold'
  BY <1>2, <1>a DEF SnapshotsHold, Exists
<1>7. InHandIsLast'
  BY <1>2, <1>4, <1>a DEF InHandIsLast
<1>8. \A u \in Schedules : (InHand(u)' <=> InHand(u)) /\ Resuming(u)' = Resuming(u)
  BY <1>2 DEF InHand, Working, Resuming
<1>9. env'.errors + env'.outages + env'.resumes >= env.errors + env.outages + env.resumes
      /\ env.errors \in Nat /\ env.outages \in Nat /\ env.resumes \in Nat
  BY <1>1, <1>2, <1>a, Numbers
<1>10. ASSUME NEW u \in Schedules
       PROVE  Caused(u)'
  <2>1. EarlyOf(u, created'[u]) = EarlyOf(u, created[u])
    BY <1>2, <1>3
  <2>2. Owing(u)' => Owing(u)
    <3>1. \A t : TooEarly(u, created'[u], t) <=> TooEarly(u, created[u], t)
      BY <1>2, <1>3
    <3> QED BY <3>1, <1>2, <1>8 DEF Owing
  <2> QED BY <2>1, <2>2, <1>8, <1>9, <1>a, <1>b, CausedFrame DEF IInv
<1>11. ASSUME NEW u \in Schedules
       PROVE  Counted(u)'
  <2>1. CASE u # s
    BY <2>1, <1>2, <1>8, <1>9, <1>a, CountedFrame DEF IInv, Exists
  <2>2. CASE u = s
    <3>1. Settled(s) = Len(created[s]) - 1 /\ Settled(s)' = Settled(s)
      BY <1>1, <1>2, <1>4, <1>8 DEF Settled, InHand, Working
    <3>2. Counted(s) /\ (Exists(s)' <=> Exists(s))
      BY <1>1, <1>2 DEF IInv, Exists
    <3>3. /\ UpTo(PushedOf(created'[s]), Settled(s)) = UpTo(PushedOf(created[s]), Settled(s))
          /\ UpTo(EndedOf(s, created'[s]), Settled(s)) = UpTo(EndedOf(s, created[s]), Settled(s))
      BY <3>1, <1>2, <1>3
    <3> QED BY <2>2, <3>1, <3>2, <3>3, <1>1, <1>2 DEF Counted
  <2> QED BY <2>1, <2>2
<1> QED BY <1>b, <1>5, <1>6, <1>7, <1>10, <1>11 DEF IInv

\* The job in hand is accounted for when it has been counted, or when its
\* schedule has ended.
LEMMA CountedOneMore ==
  ASSUME SchedulesTypeOK, NEW s \in Schedules, Counted(s), InHand(s), ~InHand(s)',
         created'[s] = created[s], Exists(s)' => Exists(s),
         env'.errors \in Nat, env'.outages \in Nat,
         env'.errors + env'.outages >= env.errors + env.outages,
         Exists(s)' =>
           \/ /\ schedules'[s].run_count = schedules[s].run_count + 1
              /\ Len(created[s]) \in PushedOf(created[s])
           \/ /\ schedules'[s].run_count = schedules[s].run_count
              /\ \/ Len(created[s]) \in EndedOf(s, created[s])
                 \/ env'.errors + env'.outages > env.errors + env.outages
  PROVE  Counted(s)'
<1> DEFINE n == Len(created[s]) - 1
           P == PushedOf(created[s])
           E == EndedOf(s, created[s])
<1>1. created[s] \in Seq(Created) /\ created[s] # <<>>
  BY DEF SchedulesTypeOK, InHand
<1>2. n \in Nat /\ n + 1 = Len(created[s])
  BY <1>1
<1>3. Settled(s) = n /\ Settled(s)' = n + 1
  BY <1>2 DEF Settled
<1>4. /\ UpTo(P, n) \in Nat /\ UpTo(E, n) \in Nat
      /\ UpTo(P, n + 1) = IF n + 1 \in P THEN UpTo(P, n) + 1 ELSE UpTo(P, n)
      /\ UpTo(E, n + 1) = IF n + 1 \in E THEN UpTo(E, n) + 1 ELSE UpTo(E, n)
  BY <1>2, UpToNext
<1>5. env.errors \in Nat /\ env.outages \in Nat /\ schedules[s].run_count \in Nat
  BY Numbers
<1>6. ASSUME Exists(s)'
      PROVE  /\ schedules'[s].run_count <= UpTo(P, n + 1)
             /\ n + 1 <= schedules'[s].run_count + UpTo(E, n + 1) + env'.errors + env'.outages
  <2>1. /\ schedules[s].run_count <= UpTo(P, n)
        /\ n <= schedules[s].run_count + UpTo(E, n) + env.errors + env.outages
    BY <1>3, <1>6 DEF Counted
  <2>2. \/ schedules'[s].run_count = schedules[s].run_count + 1 /\ n + 1 \in P
        \/ schedules'[s].run_count = schedules[s].run_count /\ n + 1 \in E
        \/ /\ schedules'[s].run_count = schedules[s].run_count
           /\ env'.errors + env'.outages > env.errors + env.outages
    BY <1>2, <1>6
  <2> HIDE DEF n, P, E
  <2> DEFINE p == UpTo(P, n)
             q == UpTo(P, n + 1)
             e == UpTo(E, n)
             f == UpTo(E, n + 1)
             k == schedules[s].run_count
             l == schedules'[s].run_count
             N == env.errors + env.outages
             M == env'.errors + env'.outages
  <2>a. /\ p \in Nat /\ e \in Nat /\ k \in Nat /\ N \in Nat /\ M \in Nat /\ M >= N /\ k <= p
    BY <1>4, <1>5, <2>1
  <2>b. q \in {p, p + 1} /\ f \in {e, e + 1}
    BY <1>4
  <2>c. (l = k + 1 /\ q = p + 1) \/ (l = k /\ f = e + 1) \/ (l = k /\ M > N)
    BY <1>4, <2>2
  <2>3. /\ p \in Nat /\ e \in Nat /\ k \in Nat /\ N \in Nat /\ M \in Nat /\ M >= N /\ k <= p
        /\ q \in {p, p + 1} /\ f \in {e, e + 1}
        /\ (l = k + 1 /\ q = p + 1) \/ (l = k /\ f = e + 1) \/ (l = k /\ M > N)
    BY <2>a, <2>b, <2>c
  <2>4. n <= k + e + N
    BY <2>1, <1>4, <1>5
  <2> HIDE DEF p, q, e, f, k, l, N, M
  <2>5. l <= q /\ n + 1 <= l + f + M
    BY <2>3, <2>4, <1>2
  <2>6. l + f + M = schedules'[s].run_count + UpTo(E, n + 1) + env'.errors + env'.outages
    <3>1. l \in Nat /\ f \in Nat /\ env'.errors \in Nat /\ env'.outages \in Nat
      BY <2>3
    <3> QED BY <3>1 DEF l, f, M
  <2> QED BY <2>5, <2>6 DEF l, q
<1>7. PushedOf(created[s])' = P /\ EndedOf(s, created[s])' = E
  BY DEF PushedOf, EndedOf
<1> QED BY <1>3, <1>6, <1>7 DEF Counted

LEMMA AdvanceInv ==
  ASSUME IInv, AdvanceSchedule
  PROVE  IInv'
<1>a. SchedulesTypeOK /\ SavedOnce /\ SnapshotsHold /\ InHandIsLast
  BY DEF IInv
<1>b. SchedulesTypeOK'
  BY <1>a, PassTypeStep DEF SchedulerStep
<1> DEFINE next == compute_next_run(pass.row.id, pass.at)
<1>0. PICK s \in Schedules : s = pass.row.id
  BY <1>a, SchedulesAssumption DEF AdvanceSchedule, SchedulesTypeOK, PassState, Snapshot, NoSnapshot
<1> DEFINE jobs == created[s]
<1>1. s \in Schedules /\ jobs \in Seq(Created) /\ jobs # <<>> /\ pass.row \in Snapshot
  BY <1>0, <1>a, SchedulesAssumption DEF AdvanceSchedule, SchedulesTypeOK, PassState, Snapshot, NoSnapshot
<1>2. /\ Working /\ ~Working' /\ pass'.due = pass.due
      /\ UNCHANGED <<now, created, request, env>>
  BY DEF AdvanceSchedule, Working, NextInPass, NoPass
<1>3. jobs[Len(jobs)].at = pass.at /\ jobs[Len(jobs)].pushed /\ Len(jobs) \in DOMAIN jobs
  <2>1. pass.pc = "advance" /\ Working
    BY DEF AdvanceSchedule, Working
  <2>2. Len(jobs) \in DOMAIN jobs
    BY <1>1
  <2>3. InHandIsLast
    BY <1>a
  <2> QED BY <2>1, <2>2, <2>3, <1>0 DEF InHandIsLast
<1>4. /\ \A u \in Schedules \ {s} : schedules'[u] = schedules[u]
      /\ Exists(s)' <=> Exists(s)
      /\ schedules'[s].status = "UNUSED" <=> schedules[s].status = "UNUSED"
      /\ Exists(s) =>
           \/ schedules'[s].run_count = pass.row.run_count + 1 /\ schedules'[s].next_run_at \in next
           \/ /\ schedules'[s].run_count = schedules[s].run_count
              /\ schedules'[s].status = "PAUSED" /\ next = {}
  <2>1. schedules \in [Schedules -> ScheduleRow] /\ schedules[s] \in ScheduleRow
    BY <1>1, <1>a DEF SchedulesTypeOK
  <2>2. ASSUME NEW t \in next, update_schedule(s, [schedules[s] EXCEPT !.next_run_at = t,
                                                         !.run_count = pass.row.run_count + 1])
        PROVE  /\ \A u \in Schedules \ {s} : schedules'[u] = schedules[u]
               /\ schedules'[s].status = schedules[s].status
               /\ Exists(s) => /\ schedules'[s].run_count = pass.row.run_count + 1
                               /\ schedules'[s].next_run_at \in next
    BY <2>1, <2>2, <1>1 DEF update_schedule, ScheduleRow
  <2>3. ASSUME next = {}, update_schedule(s, [schedules[s] EXCEPT !.status = "PAUSED"])
        PROVE  /\ \A u \in Schedules \ {s} : schedules'[u] = schedules[u]
               /\ ~Exists(s) => schedules'[s] = schedules[s]
               /\ Exists(s) => /\ schedules'[s].run_count = schedules[s].run_count
                               /\ schedules'[s].status = "PAUSED"
    BY <2>1, <2>3, <1>1 DEF update_schedule, ScheduleRow
  <2>4. AdvanceSchedule
    OBVIOUS
  <2> HIDE DEF next
  <2>5. \/ \E t \in next : update_schedule(s, [schedules[s] EXCEPT !.next_run_at = t,
                                                         !.run_count = pass.row.run_count + 1])
        \/ next = {} /\ update_schedule(s, [schedules[s] EXCEPT !.status = "PAUSED"])
    BY <2>4, <1>0 DEF AdvanceSchedule, next
  <2>6. CASE \E t \in next : update_schedule(s, [schedules[s] EXCEPT !.next_run_at = t,
                                                         !.run_count = pass.row.run_count + 1])
    <3>1. /\ \A u \in Schedules \ {s} : schedules'[u] = schedules[u]
          /\ schedules'[s].status = schedules[s].status
          /\ Exists(s) => /\ schedules'[s].run_count = pass.row.run_count + 1
                          /\ schedules'[s].next_run_at \in next
      BY <2>2, <2>6
    <3> QED BY <3>1 DEF Exists
  <2>7. CASE next = {} /\ update_schedule(s, [schedules[s] EXCEPT !.status = "PAUSED"])
    BY <2>3, <2>7 DEF Exists
  <2> QED BY <2>5, <2>6, <2>7
<1>5. SavedOnce'
  BY <1>0, <1>1, <1>2, <1>4, <1>a DEF SavedOnce, SchedulesTypeOK, RequestState
<1>6. SnapshotsHold'
  BY <1>0, <1>2, <1>4, <1>a DEF SnapshotsHold, Exists, SchedulesTypeOK, PassState, Snapshot
<1>7. InHandIsLast'
  BY <1>2 DEF InHandIsLast
<1>8. InHand(s) /\ \A u \in Schedules : ~InHand(u)' /\ (u # s => ~InHand(u)) /\ Resuming(u)' = Resuming(u)
  BY <1>0, <1>2 DEF InHand, Working, Resuming
<1>9. env'.errors + env'.outages + env'.resumes >= env.errors + env.outages + env.resumes
      /\ env.errors \in Nat /\ env.outages \in Nat /\ env.resumes \in Nat
  BY <1>1, <1>2, <1>a, Numbers
<1>10. ASSUME NEW u \in Schedules
       PROVE  Caused(u)'
  <2>1. Owing(u)' => Owing(u)
    <3>1. CASE u # s
      BY <3>1, <1>2, <1>4, <1>8 DEF Owing, TooEarly
    <3>2. CASE u = s
      <4>1. \A r \in pass'.due : r.id # s
        BY <1>0, <1>2, <1>a DEF SnapshotsHold
      <4>2. ~(schedules'[s].status = "ACTIVE" /\ TooEarly(s, created[s], schedules'[s].next_run_at))
        <5>1. schedules'[s].status = "ACTIVE" => schedules'[s].next_run_at \in next
          BY <1>4 DEF Exists
        <5>2. schedules'[s].next_run_at \in Int
          BY <1>1, <1>b DEF SchedulesTypeOK, ScheduleRow
        <5>3. \A t \in Int : t <= t
          OBVIOUS
        <5> QED BY <5>1, <5>2, <5>3, <1>0, <1>3 DEF TooEarly
      <4>3. TooEarly(s, created[s], schedules[s].next_run_at)'
              <=> TooEarly(s, created[s], schedules'[s].next_run_at)
        BY <1>2 DEF TooEarly
      <4> QED BY <3>2, <4>1, <4>2, <4>3 DEF Owing
    <3> QED BY <3>1, <3>2
  <2> QED BY <2>1, <1>2, <1>8, <1>9, <1>a, <1>b, CausedFrame DEF IInv
<1>11. ASSUME NEW u \in Schedules
       PROVE  Counted(u)'
  <2>1. CASE u # s
    BY <2>1, <1>2, <1>4, <1>8, <1>9, <1>a, CountedFrame DEF IInv, Exists
  <2>2. CASE u = s
    <3>1. Len(jobs) \in PushedOf(jobs) /\ (next = {} => Len(jobs) \in EndedOf(s, jobs))
      BY <1>0, <1>3 DEF PushedOf, EndedOf
    <3>2. Exists(s) => pass.row.run_count = schedules[s].run_count
      BY <1>0, <1>2, <1>a DEF SnapshotsHold
    <3>3. Counted(s)'
      BY <3>1, <3>2, <1>1, <1>2, <1>4, <1>8, <1>9, <1>a, CountedOneMore DEF IInv
    <3> QED BY <2>2, <3>3
  <2> QED BY <2>1, <2>2
<1> QED BY <1>b, <1>5, <1>6, <1>7, <1>10, <1>11 DEF IInv
\* A fault pays for the job in hand, and for the early one that may come of it.
LEMMA AbandonInv ==
  ASSUME IInv, PassRaises \/ ApiCrash
  PROVE  IInv'
<1>a. SchedulesTypeOK /\ SavedOnce /\ SnapshotsHold /\ InHandIsLast
  BY DEF IInv
<1>b. SchedulesTypeOK'
  BY <1>a, TypeStep DEF Next
<1>1. /\ pass' = NoPass /\ UNCHANGED <<now, schedules, created>>
      /\ \A c \in Requests : request'[c] = request[c] \/ request'[c] = IdleRequest
      /\ env' = [env EXCEPT !.errors = @ + 1] \/ env' = [env EXCEPT !.outages = @ + 1]
  BY DEF PassRaises, ApiCrash
<1>2. pass'.due = {} /\ ~Working' /\ \A s \in Schedules : ~InHand(s)'
  BY <1>1 DEF NoPass, Working, InHand
<1>3. env \in Env
  BY <1>a DEF SchedulesTypeOK
<1>4. /\ env'.errors \in Nat /\ env'.outages \in Nat /\ env'.resumes = env.resumes
      /\ env'.errors >= env.errors /\ env'.outages >= env.outages
      /\ env'.errors + env'.outages > env.errors + env.outages
      /\ env'.errors + env'.outages + env'.resumes > env.errors + env.outages + env.resumes
  BY <1>1, <1>3 DEF Env
<1>5. SavedOnce'
  <2>1. \A c \in Requests : request[c].pc = "save" => request[c].id \in Schedules
    BY <1>a DEF SchedulesTypeOK, RequestState
  <2>2. IdleRequest.pc # "save" /\ IdleRequest.id \notin Schedules
    BY SchedulesAssumption DEF IdleRequest
  <2>3. \A c \in Requests : request'[c].pc = "save" => request'[c] = request[c]
    BY <1>1, <2>2
  <2> QED BY <2>1, <2>2, <2>3, <1>1, <1>2, <1>a DEF SavedOnce
<1>6. SnapshotsHold' /\ InHandIsLast'
  BY <1>2 DEF SnapshotsHold, InHandIsLast
<1>7. ASSUME NEW s \in Schedules
      PROVE  Counted(s)'
  <2>0. Exists(s)' <=> Exists(s)
    BY <1>1 DEF Exists
  <2>1. CASE InHand(s)
    BY <2>0, <2>1, <1>1, <1>2, <1>4, <1>3, <1>a, CountedOneMore DEF IInv, Env
  <2>2. CASE ~InHand(s)
    BY <2>0, <2>2, <1>1, <1>2, <1>4, <1>a, CountedFrame DEF IInv
  <2> QED BY <2>1, <2>2
<1>8. ASSUME NEW s \in Schedules
      PROVE  Caused(s)'
  <2>1. Resuming(s)' \subseteq Resuming(s)
    BY <1>1 DEF Resuming, IdleRequest
  <2>2. env'.errors + env'.outages + env'.resumes >= env.errors + env.outages + env.resumes
    BY <1>3, <1>4 DEF Env
  <2> QED BY <2>1, <2>2, <1>1, <1>4, <1>a, <1>b, CausedFrame DEF IInv
<1> QED BY <1>b, <1>5, <1>6, <1>7, <1>8 DEF IInv

LEMMA IInvStep == IInv /\ [Next]_vars => IInv'
<1> SUFFICES ASSUME IInv, [Next]_vars PROVE IInv'
  OBVIOUS
<1>a. /\ SchedulesTypeOK /\ now \in Nat /\ pass \in PassState
      /\ pass.pc = "sleep" => pass = NoPass
  BY DEF IInv, SchedulesTypeOK
<1>b. SchedulesTypeOK'
  BY <1>a, TypeStep
<1>1. CASE FireOneTime
  BY <1>1, <1>a, <1>b, LookInv DEF FireOneTime
<1>2. CASE NoneToFire
  <2>1. ~Working /\ ~Working' /\ pass'.due = {}
    BY <1>2, <1>a DEF NoneToFire, Working, NoPass, PassState
  <2> QED BY <1>2, <2>1, <1>a, <1>b, LookInv DEF NoneToFire
<1>3. CASE FindDueSchedules
  <2> DEFINE due == {s \in Schedules : Due(s)}
             snap(s) == [id |-> s, next_run_at |-> schedules[s].next_run_at,
                         run_count |-> schedules[s].run_count]
             found == {snap(s) : s \in due}
  <2>1. ~Working /\ ~Working' /\ pass'.due \subseteq found
    <3>1. pass.pc = "select" /\ (pass' = NoPass \/ pass' = [NoPass EXCEPT !.pc = "create", !.due = found])
      BY <1>3 DEF FindDueSchedules
    <3> HIDE DEF found
    <3>2. CASE pass' = NoPass
      BY <3>1, <3>2 DEF Working, NoPass
    <3>3. CASE pass' = [NoPass EXCEPT !.pc = "create", !.due = found]
      <4>1. pass'.pc = "create" /\ pass'.due = found
        BY <3>3 DEF NoPass
      <4> QED BY <3>1, <4>1 DEF Working
    <3> QED BY <3>1, <3>2, <3>3
  <2>2. ASSUME NEW r \in pass'.due
        PROVE  /\ Due(r.id) /\ r.id \in Schedules
               /\ r.next_run_at = schedules[r.id].next_run_at
               /\ r.run_count = schedules[r.id].run_count
               /\ \A o \in pass'.due : o.id = r.id => o = r
    <3>1. PICK s \in due : r = snap(s)
      BY <2>1
    <3>2. ASSUME NEW o \in pass'.due, o.id = r.id
          PROVE  o = r
      <4>1. PICK u \in due : o = snap(u)
        BY <2>1
      <4> QED BY <4>1, <3>1, <3>2
    <3> QED BY <3>1, <3>2
  <2> QED BY <1>3, <2>1, <2>2, <1>a, <1>b, LookInv DEF FindDueSchedules
<1>4. CASE Tick
  BY <1>4, <1>a, <1>b, LookInv DEF Tick
<1>5. CASE UNCHANGED vars
  BY <1>5, <1>a, <1>b, LookInv DEF vars
<1> QED BY <1>1, <1>2, <1>3, <1>4, <1>5, CreateInv, PushInv, AdvanceInv, AbandonInv, RequestInv
        DEF Next, SchedulerStep, RequestStep

LEMMA Invariance == Spec => []IInv
  BY InitIInv, IInvStep, PTL DEF Spec

-----------------------------------------------------------------------------
(* The theorems *)

LEMMA IInvCounts == IInv => RunsAreCounted
<1> SUFFICES ASSUME IInv, NEW s \in Schedules, Exists(s)
             PROVE  LET jobs   == created[s]
                        pushed == {i \in DOMAIN jobs : jobs[i].pushed}
                        slack  == Cardinality({x \in {s} : InHand(x)})
                        ended  == Cardinality({i \in DOMAIN jobs : compute_next_run(s, jobs[i].at) = {}})
                    IN /\ schedules[s].run_count <= Cardinality(pushed)
                       /\ Len(jobs) <= schedules[s].run_count + slack + ended + env.errors + env.outages
  BY DEF RunsAreCounted
<1> DEFINE P == PushedOf(created[s])
           E == EndedOf(s, created[s])
           n == Len(created[s])
           k == Settled(s)
           slack == Cardinality({x \in {s} : InHand(x)})
<1>1. /\ n \in Nat /\ k \in Nat /\ schedules[s].run_count \in Nat
      /\ env.errors \in Nat /\ env.outages \in Nat
  BY Numbers DEF IInv
<1>2. created[s] \in Seq(Created) /\ DOMAIN created[s] = 1 .. n
  BY DEF IInv, SchedulesTypeOK
<1>3. k = IF InHand(s) THEN n - 1 ELSE n
  BY DEF Settled
<1>4. slack = IF InHand(s) THEN 1 ELSE 0
  <2>1. {x \in {s} : InHand(x)} = IF InHand(s) THEN {s} ELSE {}
    OBVIOUS
  <2> QED BY <2>1, FS_EmptySet, FS_Singleton
<1>5. P \subseteq 1 .. n /\ E \subseteq 1 .. n
  BY <1>2 DEF PushedOf, EndedOf
<1>6. schedules[s].run_count <= UpTo(P, k) /\ k <= schedules[s].run_count + UpTo(E, k) + env.errors + env.outages
  BY DEF IInv, Counted
<1> HIDE DEF P, E, n, k, slack
<1>7. IsFiniteSet(P) /\ IsFiniteSet(E)
  <2>1. IsFiniteSet(1 .. n)
    BY <1>1, FS_Interval
  <2> QED BY <2>1, <1>5, FS_Subset
<1>8. /\ UpTo(P, k) <= Cardinality(P) /\ UpTo(E, k) <= Cardinality(E)
      /\ UpTo(P, k) \in Nat /\ UpTo(E, k) \in Nat /\ Cardinality(P) \in Nat /\ Cardinality(E) \in Nat
  <2>1. {i \in 1 .. k : i \in P} \subseteq P /\ {i \in 1 .. k : i \in E} \subseteq E
    OBVIOUS
  <2> QED BY <2>1, <1>1, <1>7, FS_Subset, FS_CardinalityType, UpToNext DEF UpTo
<1>9. /\ schedules[s].run_count <= Cardinality(P)
      /\ n <= schedules[s].run_count + slack + Cardinality(E) + env.errors + env.outages
  BY <1>1, <1>3, <1>4, <1>6, <1>8
<1> QED BY <1>9 DEF P, E, n, slack, PushedOf, EndedOf

\* run_count never runs ahead of the jobs really pushed, and falls behind the
\* jobs created only by the one in hand, by runs after which the expression
\* has ended, and by one for each fault of the environment (RunsAreCounted).
THEOREM RunsAreCountedAlways == Spec => []RunsAreCounted
  BY Invariance, IInvCounts, PTL

LEMMA IInvCauses == IInv => EarlyRunsHaveACause
<1> SUFFICES ASSUME IInv, NEW s \in Schedules
             PROVE  Cardinality(EarlyOf(s, created[s])) <= env.errors + env.outages + env.resumes
  BY DEF EarlyRunsHaveACause, EarlyOf
<1>1. /\ Cardinality(EarlyOf(s, created[s])) \in Nat /\ Owed(s) \in {0, 1}
      /\ Cardinality(Resuming(s)) \in Nat
      /\ env.errors \in Nat /\ env.outages \in Nat /\ env.resumes \in Nat
  BY Numbers DEF IInv
<1> QED BY <1>1 DEF IInv, Caused

\* There are no more jobs that come before the time computed from the one
\* before than there were faults and resumes: late passes and requests racing
\* with the pass never make one (EarlyRunsHaveACause).
THEOREM EarlyRunsAreCaused == Spec => []EarlyRunsHaveACause
  BY Invariance, IInvCauses, PTL
=============================================================================
