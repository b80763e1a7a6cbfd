CONSTANTS
  N = 2
  Livreurs = {w1, w2}
  AvecEmail = {w1}
  Personne = Personne
  Canal <- MCCanal
  Escalade = {1}
  MAX_ATTEMPTS = 2
  MaxPannes = 2
SPECIFICATION Spec
INVARIANTS
  UnSeulEnVol
  CompteExact
  LivreEstRecu
  AcquittementArrete
PROPERTIES
  PromesseTenue
\* Once every line is settled the deliverers have nothing left to do.
CHECK_DEADLOCK FALSE
