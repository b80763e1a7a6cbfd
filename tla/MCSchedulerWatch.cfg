CONSTANTS
  Procs = {p1}
  Jobs = {tick}
  Personne = Personne
  Duree = 2
  DUREES <- MCDurees
  MaxNow = 8
  Tick = tick
  Veilleurs = {v1, v2}
  CadenceMin = 1
  MARGE_SILENCE_MIN = 0
  Deborde = FALSE
  MaxPannes = 1
  MaxFenetres = 3
SPECIFICATION SpecVeille
INVARIANTS
  TypeVeille
  FenetresDisjointes
PROPERTIES
  UneAlerteParSilence
  VeilleSuit
