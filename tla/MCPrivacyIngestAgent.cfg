SPECIFICATION Spec
CONSTANTS
  s1 = s1
  s2 = s2
  s3 = s3
  v1 = v1
  v2 = v2
  h1 = h1
  p1 = p1
  p2 = p2
  Aucun = Aucun
  Procs = {p1, p2}
  Sessions = {s1, s2}
  Visiteurs = {v1, v2}
  Identites = {h1}
  Signaux <- Agent
  Sujets <- LesSujets
  Mode = "enforce"
  MaxDepots = 1
  MaxTentatives = 2
INVARIANTS
  RienDuSujet
