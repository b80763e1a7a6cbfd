CONSTANTS
  Procs = {p1, p2, p3}
  Jobs = {tick}
  Personne = Personne
  Duree = 1
  DUREES <- MCDurees
  MaxNow = 6
SYMMETRY Symetrie
SPECIFICATION Spec
INVARIANTS
  Exclusion
  BattementExact
  SuccesJamaisOublie
