CONSTANTS
  Montages <- MCMontages
SPECIFICATION Spec
INVARIANTS
  TypeOK
  EpoqueCourante
  RienDeTu
  BailDuLot
  LienVivant
\* Once every event is collected and the bounds are reached, nothing is left to do.
CHECK_DEADLOCK FALSE
