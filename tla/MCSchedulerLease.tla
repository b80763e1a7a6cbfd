--------------------------- MODULE MCSchedulerLease ---------------------------
(***************************************************************************)
(* Instances of SchedulerLease: processes and jobs are model values, every *)
(* job has the same lease duration.  Processes are interchangeable.        *)
(***************************************************************************)
EXTENDS SchedulerLease, TLC

CONSTANT Duree
MCDurees == [j \in Jobs |-> Duree]
Symetrie == Permutations(Procs)
===============================================================================
