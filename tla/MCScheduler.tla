---------------------------- MODULE MCScheduler ----------------------------
(* Scheduler with small bounds for TLC.                                    *)
EXTENDS Scheduler

MCGarbage == {0, 9}
=============================================================================
