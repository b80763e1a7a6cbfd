CHECK_DEADLOCK FALSE
CONSTANTS
  Runs = {r1}
  Travailleurs = {w1}
  NbSegments = 2
  Taille = 1
  Serie = TRUE
  MaxId = 2
  MaxPannes = 1
  Libre = Libre
SPECIFICATION Spec
INVARIANTS
  TypeOK
  Complet
  SansDoublon
  RienDeRessuscite
