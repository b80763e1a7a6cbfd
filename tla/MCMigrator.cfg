CONSTANTS
  Migrateurs = {m1, m2}
  N = 3
  AvecIndex = {3}
  Baseline = 2
  Liaisons = {"directe", "pooler", "aucune"}
  Bassin = {b1, b2}
  Tentatives = 2
  VerrouEssais = 2
  BaselineOubliee = FALSE
  MaxLancements = 3
  MaxMorts = 1
  Personne = Personne
SPECIFICATION Spec
INVARIANTS
  TypeOK
  IndexVivant
PROPERTY
  PromesseTenue
CHECK_DEADLOCK FALSE
