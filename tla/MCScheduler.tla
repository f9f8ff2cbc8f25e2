----------------------------- MODULE MCScheduler -----------------------------
(* Three timers: called once, twice, or for ever.                              *)
EXTENDS Scheduler

MCCounts == {1, 2, -1}
=============================================================================
