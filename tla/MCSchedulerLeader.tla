------------------------- MODULE MCSchedulerLeader -------------------------
(* An instance of SchedulerLeader for TLC.                                  *)
EXTENDS SchedulerLeader

CONSTANTS w1, w2, w3

MCWorkers  == {w1, w2, w3}
=============================================================================
