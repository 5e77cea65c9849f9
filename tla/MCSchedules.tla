----------------------------- MODULE MCSchedules -----------------------------
(* Schedules for TLC: one schedule every two units of time, and one cron       *)
(* expression whose times come to an end.                                      *)
EXTENDS Schedules

CONSTANTS every, cron, c1, once  \* model values

MCTicks == [s \in Schedules |-> IF s \in Cron THEN {1, 3} ELSE {}]

MCRunAt == [j \in OneTime |-> 1]

MCInterval == [s \in Schedules |-> IF s \in Cron THEN 0 ELSE 2]
=============================================================================
