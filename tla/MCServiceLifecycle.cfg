CONSTANTS
  Boucles = {livraison, reconciliation}
  Immediates = {livraison}
  Clients = {c1, c2}
  Http = Http
SPECIFICATION Spec
INVARIANTS
  FermetureApresTravail
PROPERTY
  Sortie
