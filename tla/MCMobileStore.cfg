CONSTANTS
  Ecrivains = {w1, w2}
  Dechirables = {"emplacement", "manifeste"}
  MaxEcritures = 6
SPECIFICATION StoreSpec
INVARIANTS
  DerniereEcriture
  LectureEntiere
