CONSTANTS
  Onglets = {o1, o2}
  Actions = {a1, a2}
  AvecEffet = {a1}
  MaxRetry = 2
  MaxBatch = 2
  MaxTentatives = 1
  MaxPages = 2
  MaxEchecs = 2
  MaxRefus = 1
SYMMETRY Symetrie
SPECIFICATION WebSpec
INVARIANTS
  WebTypeOK
  EnfantApresRacine
  RefusTient
CHECK_DEADLOCK FALSE
