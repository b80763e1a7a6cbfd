----------------------------- MODULE MCMobileSdk -----------------------------
(***************************************************************************)
(* Instances of MobileSdk: the queue in memory, whose first event is a root *)
(* action and the others may be its effects, consent asked and refused; and *)
(* the durable queue over two lives of the process, consent granted.        *)
(***************************************************************************)
EXTENDS MobileSdk

EnMemoire ==
  [n |-> 4, racines |-> {1}, perissables |-> {1, 2}, maxFile |-> 3, maxAttente |-> 2, maxLot |-> 2,
   persistant |-> FALSE, depart |-> "pending", maxTaches |-> 3, maxVies |-> 1,
   lectureFragile |-> FALSE, ecritureFragile |-> TRUE]

Durable ==
  [n |-> 2, racines |-> {}, perissables |-> {}, maxFile |-> 2, maxAttente |-> 1, maxLot |-> 2,
   persistant |-> TRUE, depart |-> "granted", maxTaches |-> 2, maxVies |-> 2,
   lectureFragile |-> FALSE, ecritureFragile |-> TRUE]

MCMontages == {EnMemoire, Durable}
===============================================================================
