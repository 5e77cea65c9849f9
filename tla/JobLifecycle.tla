---------------------------- MODULE JobLifecycle -----------------------------
(***************************************************************************)
(* The life of a job as its row tells it, whoever runs the job: the states *)
(* of api/models.py that the code writes, the moves between them, and the  *)
(* number of attempts made.  No worker, queue or message appears here.     *)
(*                                                                         *)
(* It is the life cycle of the code, not the drawing in README.md:97-111,  *)
(* which has a state FAILED and three retries before the dead letter       *)
(* queue: no statement writes FAILED, and MAX_RETRIES is the number of     *)
(* attempts, the first one included.                                       *)
(***************************************************************************)
EXTENDS Naturals

CONSTANTS Jobs, MAX_RETRIES

VARIABLES
  status,   \* of each job; UNUSED before submission, DELETED after deletion
  attempts  \* failed attempts since the job was submitted or retried by hand

lifecycle == <<status, attempts>>

Init ==
  /\ status = [j \in Jobs |-> "UNUSED"]
  /\ attempts = [j \in Jobs |-> 0]

Move(j, from, to) ==
  /\ status[j] = from
  /\ status' = [status EXCEPT ![j] = to]

Submit(j) ==
  /\ Move(j, "UNUSED", "QUEUED") \/ Move(j, "UNUSED", "SCHEDULED")
  /\ UNCHANGED attempts

Fire(j) == Move(j, "SCHEDULED", "QUEUED") /\ UNCHANGED attempts

\* POST /jobs/{id}/cancel checks the status in an earlier call: the scheduler
\* may have fired the job meanwhile.
Cancel(j) ==
  /\ attempts[j] = 0
  /\ Move(j, "SCHEDULED", "DEAD") \/ Move(j, "QUEUED", "DEAD")
  /\ UNCHANGED attempts

\* The scheduler sets every row it had selected to QUEUED, one that has been
\* cancelled since like the others.
FireCancelled(j) ==
  /\ attempts[j] = 0
  /\ Move(j, "DEAD", "QUEUED")
  /\ UNCHANGED attempts

Run(j) == Move(j, "QUEUED", "RUNNING") /\ UNCHANGED attempts

Succeed(j) == Move(j, "RUNNING", "COMPLETED") /\ UNCHANGED attempts

FailAgain(j) ==
  /\ attempts[j] + 1 < MAX_RETRIES
  /\ Move(j, "RUNNING", "QUEUED")
  /\ attempts' = [attempts EXCEPT ![j] = @ + 1]

FailForGood(j) ==
  /\ attempts[j] + 1 = MAX_RETRIES
  /\ Move(j, "RUNNING", "DEAD")
  /\ attempts' = [attempts EXCEPT ![j] = @ + 1]

\* The worker running the job died: the attempt does not count as a failure.
Recover(j) == Move(j, "RUNNING", "QUEUED") /\ UNCHANGED attempts

\* POST /jobs/{id}/retry
RetryByHand(j) ==
  /\ Move(j, "DEAD", "QUEUED")
  /\ attempts' = [attempts EXCEPT ![j] = 0]

\* DELETE /jobs/{id} checks the status in an earlier call: a job that has
\* started meanwhile is deleted all the same.
Delete(j) ==
  /\ status[j] \notin {"UNUSED", "DELETED"}
  /\ status' = [status EXCEPT ![j] = "DELETED"]
  /\ UNCHANGED attempts

Next ==
  \E j \in Jobs :
    \/ Submit(j) \/ Fire(j) \/ Cancel(j) \/ FireCancelled(j)
    \/ Run(j) \/ Succeed(j)
    \/ FailAgain(j) \/ FailForGood(j) \/ Recover(j)
    \/ RetryByHand(j) \/ Delete(j)

Spec == Init /\ [][Next]_lifecycle
=============================================================================
