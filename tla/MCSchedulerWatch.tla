--------------------------- MODULE MCSchedulerWatch ---------------------------
(***************************************************************************)
(* Instances of SchedulerWatch: every job has the same lease duration.     *)
(***************************************************************************)
EXTENDS SchedulerWatch

CONSTANT Duree
MCDurees == [j \in Jobs |-> Duree]
===============================================================================
