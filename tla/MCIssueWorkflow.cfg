CONSTANTS
  Erreurs <- MCErreurs
  Anciennes <- MCAnciennes
  Sujet <- MCSujet
  Lots <- MCLots
  Historique <- MCHistorique
  Deployee <- MCDeployee
  Inconnue = "aucune"
  Avance = 0
  Utilisateurs = {u1, u2}
  Decisions = {"resolved", "ignored", "note"}
  Retention = 1
  MaxHorloge = 4
  MaxIssues = 2
  MaxRevision = 2
SPECIFICATION Spec
INVARIANTS
  TypeOK
  DecisionSurLeVu
  RegressionVue
  BornesCouvrent
PROPERTIES
  StatutHumain
SYMMETRY Symetrie
CHECK_DEADLOCK FALSE
