----------------------------- MODULE MCScheduler -----------------------------
(* Small instances of Scheduler: weekday lists that touch both ends of the week. *)
EXTENDS Scheduler

SomeDays == {{0}, {7}, {6}, {1}, {1, 3}, {5, 6, 7}}
=============================================================================
