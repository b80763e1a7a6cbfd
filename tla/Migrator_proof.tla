---------------------------- MODULE Migrator_proof ----------------------------
(***************************************************************************)
(* Migrators keep the safety part of MigrationPromise, for any number of   *)
(* them, of files, launches and deaths, whatever their connections, when   *)
(* MIGRATE_BASELINE does not outlive the creation of a base.               *)
(*                                                                         *)
(* A migrator decides on what it read: the registry when it was launched,  *)
(* then the registry under the lock.  IInv says what of it lasts: a file   *)
(* it has not to apply is in the registry, and the file it executes is not *)
(* until it commits, because the backend that holds the lock serves one    *)
(* migrator and only the holder commits.                                   *)
(***************************************************************************)
EXTENDS Migrator, TLAPS, WellFoundedInduction

USE FichiersAssumption, DorsauxAssumption

AvecFichier == {"verrou", "preuve", "index", "supprime", "cree", "construit", "attendAnciens",
                "nettoie", "rend", "rendEchec", "garde", "ouvre", "attend"} \cup EnTransaction
Lieux    == Finis \cup AvecFichier \cup {"etalonne", "acheve"}
Siens(m) == Bassin \cup {Directe(m), Principale(m)}

Types ==
  /\ registre \subseteq Fichiers /\ passages \in [Fichiers -> Nat]
  /\ neuve \in BOOLEAN /\ posee \in BOOLEAN /\ (neuve \/ posee)
  /\ pc \in [Migrateurs -> Lieux]
  /\ enAttente \in [Migrateurs -> SUBSET Fichiers]
  /\ dorsal \in [Migrateurs -> Dorsaux \cup {Personne}]
  /\ \A m \in Migrateurs : dorsal[m] \in Siens(m) \cup {Personne}
  /\ lancements \in Nat

\* The registry tells what the base has, but for the files an adopted base had
\* already, which are marked before the first file is applied.
Memoire ==
  /\ neuve => schema = registre
  /\ ~neuve => /\ schema = registre \cup 1..Baseline
               /\ \A m \in Migrateurs :
                    pc[m] \in AvecFichier \cup {"acheve"} => 1..Baseline \subseteq registre

\* What a migrator has not to apply is applied.
Plan ==
  \A m \in Migrateurs :
    /\ pc[m] \notin Finis => Fichiers \ enAttente[m] \subseteq registre
    /\ pc[m] \in AvecFichier => enAttente[m] # {}
    /\ pc[m] = "acheve" => enAttente[m] = {}

\* A baseline meant for another base is looked at once, by the only launch, on
\* an empty base.
Etalon ==
  /\ lancements = 0 => (neuve => registre = {}) /\ \A m \in Migrateurs : pc[m] \in Finis
  /\ \A m \in Migrateurs :
       neuve /\ pc[m] = "etalonne" =>
         registre = {} /\ lancements # 0 /\ posee /\ \A p \in Migrateurs \ {m} : pc[p] \in Finis

\* A backend serves one migrator; the one in a transaction holds the lock, and
\* what it executes is still to be applied.
Tenue ==
  /\ \A m, p \in Migrateurs : dorsal[m] # Personne /\ dorsal[m] = dorsal[p] => m = p
  /\ \A m \in Migrateurs :
       /\ pc[m] \in EnTransaction \cup {"attend"} => dorsal[m] # Personne
       /\ pc[m] \in EnTransaction => transaction = dorsal[m]
       /\ pc[m] = "execute" => Fichier(m) \notin registre
       /\ pc[m] = "deja" => Fichier(m) \in registre

IInv == Types /\ Memoire /\ Plan /\ Etalon /\ Tenue

\* What a reader of the registry sees of a migrator.
issue == [m \in Migrateurs |-> IF pc[m] \in Finis THEN pc[m] ELSE "enCours"]

(***************************************************************************)
(* The first file left to apply.                                           *)
(***************************************************************************)

\* A set of files that is not empty has a first one.
LEMMA Premier ==
  ASSUME NEW S \in SUBSET Fichiers, S # {}
  PROVE  /\ Min(S) \in S
         /\ \A k \in S : Min(S) <= k
  <1>1. S \subseteq Nat
    BY DEF Fichiers
  <1>2. PICK n \in S : \A k \in S : <<k, n>> \notin OpToRel(<, Nat)
    BY <1>1, WFMin, NatLessThanWellFounded, Zenon
  <1>3. \A k \in S : ~(k < n)
    BY <1>1, <1>2, Zenon DEF OpToRel
  <1>4. \E x \in S : \A y \in S : x =< y
    BY <1>1, <1>3
  <1> QED
    BY <1>4 DEF Min

(***************************************************************************)
(* Moves: the steps that touch neither the registry nor the plan.          *)
(***************************************************************************)

\* From a place to another, on a backend that serves nobody else, taking or
\* giving back the lock on the way.
Mouvement(m) ==
  /\ UNCHANGED <<registre, passages, neuve, posee, enAttente, lancements>>
  /\ pc[m] \notin Finis
  /\ pc' = [pc EXCEPT ![m] = pc'[m]]
  /\ pc'[m] = "echec" \/ (pc'[m] \in AvecFichier /\ pc[m] \in AvecFichier)
  /\ dorsal' = [dorsal EXCEPT ![m] = dorsal'[m]]
  /\ dorsal'[m] \in Siens(m) \cup {Personne}
  /\ dorsal'[m] = dorsal[m] \/ \A p \in Migrateurs \ {m} : dorsal[p] = dorsal'[m] => dorsal'[m] = Personne
  /\ \/ transaction' = transaction
     \/ transaction = Personne
     \/ dorsal[m] # Personne /\ transaction = dorsal[m]
  /\ pc'[m] \in EnTransaction \cup {"attend"} => dorsal'[m] # Personne
  /\ pc'[m] \in EnTransaction => transaction' = dorsal'[m]
  /\ pc'[m] = "execute" => Fichier(m) \notin registre
  /\ pc'[m] = "deja" => Fichier(m) \in registre

LEMMA MouvementIInv ==
  ASSUME IInv, NEW m \in Migrateurs, Mouvement(m)
  PROVE  IInv'
  <1> USE DEF IInv, Mouvement
  <1>0. /\ pc'[m] \in Lieux /\ pc'[m] # "acheve" /\ pc'[m] # "etalonne"
        /\ \A p \in Migrateurs \ {m} : pc'[p] = pc[p] /\ dorsal'[p] = dorsal[p]
    BY DEF Types, Lieux, AvecFichier, Finis, EnTransaction
  <1>1. Types'
    <2>1. pc' \in [Migrateurs -> Lieux]
      BY <1>0 DEF Types
    <2>2. \A p \in Migrateurs : dorsal'[p] \in Siens(p) \cup {Personne}
      BY <1>0 DEF Types
    <2>3. dorsal' \in [Migrateurs -> Dorsaux \cup {Personne}]
      BY <2>2 DEF Types, Siens, Dorsaux
    <2> QED
      BY <2>1, <2>2, <2>3 DEF Types
  <1>2. Memoire'
    BY <1>0 DEF Memoire, schema, Types, AvecFichier, EnTransaction
  <1>3. Plan'
    BY <1>0 DEF Plan, Finis, AvecFichier, EnTransaction
  <1>4. Etalon'
    BY <1>0 DEF Etalon, Finis
  <1>5. Tenue'
    <2>1. \A p, q \in Migrateurs : dorsal'[p] # Personne /\ dorsal'[p] = dorsal'[q] => p = q
      BY <1>0 DEF Tenue
    <2>2. \A p \in Migrateurs : Fichier(p)' = Fichier(p)
      BY DEF Fichier
    <2>3. ASSUME NEW p \in Migrateurs
          PROVE  /\ pc'[p] \in EnTransaction \cup {"attend"} => dorsal'[p] # Personne
                 /\ pc'[p] \in EnTransaction => transaction' = dorsal'[p]
                 /\ pc'[p] = "execute" => Fichier(p)' \notin registre'
                 /\ pc'[p] = "deja" => Fichier(p)' \in registre'
      <3>1. CASE p = m
        BY <2>2, <3>1
      <3>2. CASE p # m
        BY <1>0, <2>2, <3>2 DEF Tenue
      <3> QED
        BY <3>1, <3>2
    <2> QED
      BY <2>1, <2>3 DEF Tenue
  <1> QED
    BY <1>1, <1>2, <1>3, <1>4, <1>5

\* A reader sees nothing, or a failure.
LEMMA MouvementVu ==
  ASSUME IInv, NEW m \in Migrateurs, Mouvement(m)
  PROVE  Promesse!Echouer(m) \/ UNCHANGED <<registre, passages, issue>>
  <1> USE DEF IInv, Mouvement
  <1>1. CASE pc'[m] = "echec"
    <2>1. issue[m] = "enCours" /\ issue' = [issue EXCEPT ![m] = "echec"]
      BY <1>1 DEF issue, Types, Finis
    <2> QED
      BY <2>1 DEF Promesse!Echouer, issue
  <1>2. CASE pc'[m] \in AvecFichier
    BY <1>2 DEF issue, Types, AvecFichier, Finis, EnTransaction
  <1> QED
    BY <1>1, <1>2

\* Where the next file is handled.
LEMMA SuiteLieu ==
  ASSUME NEW m \in Migrateurs, NEW reste \in SUBSET Fichiers
  PROVE  /\ reste = {} => Suite(m, reste) = "acheve"
         /\ reste # {} => Suite(m, reste) \in {"ouvre", "garde", "verrou"}
  BY DEF Suite

\* The backends a statement may fall on serve nobody else.
LEMMA LibresLibres ==
  ASSUME IInv, NEW m \in Migrateurs, NEW d, d \in Connexion(m) \cup Ouvertures(m)
  PROVE  d \in Siens(m) /\ d # Personne /\ \A p \in Migrateurs \ {m} : dorsal[p] # d
  <1>1. CASE d \in Bassin
    <2>1. d \in Libres(m)
      BY <1>1 DEF Connexion, Ouvertures
    <2> QED
      BY <1>1, <2>1 DEF Libres, Siens, Dorsaux
  <1>2. CASE d \in {Directe(m), Principale(m)}
    <2>1. \A p \in Migrateurs \ {m} : d \notin Siens(p)
      BY <1>2 DEF Siens, Directe, Principale
    <2>2. d # Personne
      BY <1>2 DEF Dorsaux
    <2> QED
      BY <1>2, <2>1, <2>2 DEF IInv, Types, Siens
  <1> QED
    BY <1>1, <1>2 DEF Connexion, Ouvertures, Libres

\* The actions that are moves.
Deplacer(m) ==
  EssayerVerrou(m) \/ Prouver(m) \/ LireIndex(m) \/ Supprimer(m) \/ Creer(m) \/ DernierePhase(m)
  \/ Valider(m) \/ Rater(m) \/ Nettoyer(m) \/ Rendre(m) \/ Garder(m) \/ Ouvrir(m) \/ Obtenir(m)
  \/ Interbloquer(m) \/ Relire(m) \/ Refuser(m)

\* Those of the pre-deployment never touch the transaction's lock.
LEMMA PreDeploiementMouvement ==
  ASSUME IInv, NEW m \in Migrateurs,
         EssayerVerrou(m) \/ Prouver(m) \/ LireIndex(m) \/ Supprimer(m) \/ Creer(m) \/ DernierePhase(m)
         \/ Valider(m) \/ Rater(m) \/ Nettoyer(m) \/ Rendre(m) \/ Garder(m)
  PROVE  Mouvement(m)
  <1> USE DEF base, verrou, cadre, traces, Aller, Finis, AvecFichier, EnTransaction
  <1>0. /\ pc \in [Migrateurs -> Lieux] /\ dorsal \in [Migrateurs -> Dorsaux \cup {Personne}]
        /\ dorsal[m] \in Siens(m) \cup {Personne}
    BY DEF IInv, Types
  <1>1. CASE EssayerVerrou(m)
    BY <1>0, <1>1 DEF EssayerVerrou, Mouvement
  <1>2. CASE Prouver(m)
    BY <1>0, <1>2 DEF Prouver, Mouvement
  <1>3. CASE LireIndex(m)
    BY <1>0, <1>3 DEF LireIndex, Mouvement
  <1>4. CASE Supprimer(m)
    BY <1>0, <1>4 DEF Supprimer, Mouvement
  <1>5. CASE Creer(m)
    <2>1. CASE index[Fichier(m)] = "absent"
      <3>1. PICK d \in Connexion(m) : dorsal' = [dorsal EXCEPT ![m] = d]
        BY <1>5, <2>1 DEF Creer
      <3> QED
        BY <1>0, <1>5, <2>1, <3>1, LibresLibres DEF Creer, Mouvement
    <2>2. CASE index[Fichier(m)] # "absent"
      BY <1>0, <1>5, <2>2 DEF Creer, Mouvement
    <2> QED
      BY <2>1, <2>2
  <1>6. CASE DernierePhase(m)
    BY <1>0, <1>6 DEF DernierePhase, Mouvement
  <1>7. CASE Valider(m)
    BY <1>0, <1>7 DEF Valider, Mouvement
  <1>8. CASE Rater(m)
    BY <1>0, <1>8 DEF Rater, Mouvement
  <1>9. CASE Nettoyer(m)
    BY <1>0, <1>9 DEF Nettoyer, Mouvement
  <1>10. CASE Rendre(m)
    BY <1>0, <1>10 DEF Rendre, Mouvement
  <1>11. CASE Garder(m)
    BY <1>0, <1>11 DEF Garder, Mouvement
  <1> QED
    BY <1>1, <1>2, <1>3, <1>4, <1>5, <1>6, <1>7, <1>8, <1>9, <1>10, <1>11

\* Those of a transaction do.
LEMMA TransactionMouvement ==
  ASSUME IInv, NEW m \in Migrateurs,
         Ouvrir(m) \/ Obtenir(m) \/ Interbloquer(m) \/ Relire(m) \/ Refuser(m)
  PROVE  Mouvement(m)
  <1> USE DEF base, verrou, cadre, traces, Aller, Finis, AvecFichier, EnTransaction
  <1>0. /\ pc \in [Migrateurs -> Lieux] /\ dorsal \in [Migrateurs -> Dorsaux \cup {Personne}]
        /\ dorsal[m] \in Siens(m) \cup {Personne}
        /\ pc[m] \in EnTransaction \cup {"attend"} => dorsal[m] # Personne
        /\ pc[m] \in EnTransaction => transaction = dorsal[m]
    BY DEF IInv, Types, Tenue
  <1>1. CASE Ouvrir(m)
    <2>1. PICK d \in Ouvertures(m) : dorsal' = [dorsal EXCEPT ![m] = d]
      BY <1>1 DEF Ouvrir
    <2> QED
      BY <1>0, <1>1, <2>1, LibresLibres DEF Ouvrir, Mouvement
  <1>2. CASE Obtenir(m)
    BY <1>0, <1>2 DEF Obtenir, Accorde, Mouvement
  <1>3. CASE Interbloquer(m)
    BY <1>0, <1>3 DEF Interbloquer, Annuler, Mouvement
  <1>4. CASE Relire(m)
    BY <1>0, <1>4 DEF Relire, DejaApplique, Mouvement
  <1>5. CASE Refuser(m)
    BY <1>0, <1>5 DEF Refuser, Annuler, Mouvement
  <1> QED
    BY <1>1, <1>2, <1>3, <1>4, <1>5

\* A death gives back the lock of the transaction, if it held it.
LEMMA MourirMouvement ==
  ASSUME IInv, NEW m \in Migrateurs, Mourir(m)
  PROVE  Mouvement(m)
  BY DEF IInv, Types, Mourir, Fermer, Mouvement, base, cadre, Aller, EnTransaction

LEMMA DeplacerMouvement ==
  ASSUME IInv, NEW m \in Migrateurs, Deplacer(m) \/ Mourir(m)
  PROVE  Mouvement(m)
  BY PreDeploiementMouvement, TransactionMouvement, MourirMouvement DEF Deplacer

(***************************************************************************)
(* The other steps: the invariant, and what a reader sees.                 *)
(***************************************************************************)

\* A launch reads the registry; with a baseline on a new base, it is the only
\* one, and the registry is empty.
LEMMA LancerIInv ==
  ASSUME ~BaselineOubliee, IInv, NEW m \in Migrateurs, Lancer(m)
  PROVE  IInv' /\ Promesse!Lancer(m)
  <1> USE DEF IInv, Lancer, Aller, base, verrou, cadre
  <1>0. /\ pc'[m] = (IF posee THEN "etalonne" ELSE Suite(m, Fichiers \ registre))
        /\ enAttente'[m] = Fichiers \ registre
        /\ \A p \in Migrateurs \ {m} : pc'[p] = pc[p] /\ enAttente'[p] = enAttente[p]
        /\ pc[m] \in Finis
    BY DEF Types
  <1>1. /\ pc'[m] \in {"etalonne", "acheve", "ouvre", "garde", "verrou"}
        /\ pc'[m] = "acheve" => Fichiers \ registre = {}
        /\ pc'[m] \in AvecFichier => Fichiers \ registre # {}
        /\ pc'[m] # "etalonne" => ~posee
    BY <1>0, SuiteLieu DEF AvecFichier, EnTransaction
  <1>2. Types'
    <2>1. pc' \in [Migrateurs -> Lieux]
      BY <1>1 DEF Types, Lieux, AvecFichier
    <2>2. lancements' \in Nat
      BY DEF Types
    <2> QED
      BY <2>1, <2>2 DEF Types
  <1>3. Memoire'
    <2>1. schema' = schema
      BY DEF schema
    <2>2. ~neuve => pc'[m] = "etalonne"
      BY <1>1 DEF Types
    <2> QED
      BY <1>0, <2>1, <2>2 DEF Memoire, AvecFichier, EnTransaction
  <1>4. Plan'
    BY <1>0, <1>1 DEF Plan, Types, Finis
  <1>5. Etalon'
    <2>1. lancements' # 0
      BY DEF Types
    <2>2. ASSUME neuve, pc'[m] = "etalonne"
          PROVE  registre = {} /\ posee /\ \A p \in Migrateurs : pc[p] \in Finis
      <3>1. posee
        BY <1>0, <2>2, SuiteLieu
      <3>2. lancements = 0
        BY <2>2, <3>1
      <3> QED
        BY <2>2, <3>1, <3>2 DEF Etalon
    <2>3. ASSUME NEW p \in Migrateurs \ {m}, neuve, pc[p] = "etalonne" PROVE FALSE
      <3>1. lancements # 0 /\ posee
        BY <2>3 DEF Etalon
      <3> QED
        BY <2>3, <3>1
    <2> QED
      BY <1>0, <2>1, <2>2, <2>3 DEF Etalon
  <1>6. Tenue'
    <2>1. \A p \in Migrateurs \ {m} : Fichier(p)' = Fichier(p)
      BY <1>0 DEF Fichier
    <2> QED
      BY <1>0, <1>1, <2>1 DEF Tenue, EnTransaction
  <1>7. Promesse!Lancer(m)
    <2>1. issue[m] # "enCours" /\ issue' = [issue EXCEPT ![m] = "enCours"]
      BY <1>0, <1>1 DEF issue, Types, Finis
    <2> QED
      BY <2>1 DEF Promesse!Lancer, issue
  <1> QED
    BY <1>2, <1>3, <1>4, <1>5, <1>6, <1>7

\* The baseline marks what the base has, or nothing new.
LEMMA EtalonnerIInv ==
  ASSUME IInv, NEW m \in Migrateurs, Etalonner(m)
  PROVE  IInv' /\ (Promesse!Etalonner(m) \/ UNCHANGED <<registre, passages, issue>>)
  <1> USE DEF IInv, Aller, verrou, cadre, traces
  <1> DEFINE marques == IF Vierge THEN {} ELSE 1..Baseline
             reste   == enAttente[m] \ marques
  <1>0. /\ pc[m] = "etalonne" /\ pc'[m] = Suite(m, reste) /\ enAttente'[m] = reste
        /\ registre' = registre \cup marques /\ UNCHANGED passages
        /\ \A p \in Migrateurs \ {m} : pc'[p] = pc[p] /\ enAttente'[p] = enAttente[p]
        /\ UNCHANGED <<neuve, posee, dorsal, transaction, lancements>>
        /\ reste \in SUBSET Fichiers
    BY DEF Etalonner, Types
  <1>1. /\ pc'[m] \in {"acheve", "ouvre", "garde", "verrou"}
        /\ pc'[m] = "acheve" => reste = {}
        /\ pc'[m] \in AvecFichier => reste # {}
    BY <1>0, SuiteLieu DEF AvecFichier, EnTransaction
  <1>2. 1 \in Fichiers /\ 1 \in 1..Baseline /\ 1..Baseline \subseteq Fichiers
    BY DEF Fichiers
  <1>3. /\ neuve => Vierge /\ registre = {} /\ lancements # 0 /\ \A p \in Migrateurs \ {m} : pc[p] \in Finis
        /\ ~neuve => ~Vierge
    BY <1>0, <1>2 DEF Etalon, Memoire, Vierge
  <1>4. registre \subseteq registre' /\ registre' \subseteq Fichiers /\ schema' = schema
    BY <1>0, <1>2 DEF Types, schema
  <1>5. Types'
    <2>1. pc' \in [Migrateurs -> Lieux]
      BY <1>0, <1>1 DEF Types, Lieux, AvecFichier, Etalonner
    <2>2. enAttente' \in [Migrateurs -> SUBSET Fichiers]
      BY <1>0 DEF Types, Etalonner
    <2> QED
      BY <1>0, <1>4, <2>1, <2>2 DEF Types
  <1>6. Memoire'
    <2>1. CASE neuve
      BY <1>0, <1>3, <1>4, <2>1 DEF Memoire
    <2>2. CASE ~neuve
      BY <1>0, <1>3, <1>4, <2>2 DEF Memoire
    <2> QED
      BY <2>1, <2>2
  <1>7. Plan'
    <2>1. Fichiers \ reste \subseteq registre'
      BY <1>0 DEF Plan, Finis
    <2> QED
      BY <1>0, <1>1, <1>4, <2>1 DEF Plan
  <1>8. Etalon'
    <2>1. lancements # 0 /\ pc'[m] # "etalonne"
      BY <1>0, <1>1 DEF Etalon, Finis
    <2>2. ASSUME NEW p \in Migrateurs \ {m}, pc[p] = "etalonne" PROVE ~neuve
      BY <1>3, <2>2 DEF Finis
    <2> QED
      BY <1>0, <2>1, <2>2 DEF Etalon
  <1>9. Tenue'
    <2>1. ASSUME NEW p \in Migrateurs, pc'[p] \in EnTransaction
          PROVE  p # m /\ ~neuve /\ registre' = registre /\ Fichier(p)' = Fichier(p)
      <3>1. p # m
        BY <1>1, <2>1 DEF EnTransaction
      <3>2. ~neuve
        BY <1>0, <1>3, <2>1, <3>1 DEF EnTransaction, Finis
      <3>3. 1..Baseline \subseteq registre
        BY <1>0, <2>1, <3>1, <3>2 DEF Memoire, AvecFichier
      <3> QED
        BY <1>0, <3>1, <3>2, <3>3 DEF Fichier
    <2> QED
      BY <1>0, <1>1, <2>1 DEF Tenue, EnTransaction
  <1>10. issue' = issue
    BY <1>0, <1>1 DEF issue, Finis
  <1>11. CASE neuve
    BY <1>0, <1>3, <1>10, <1>11, <1>5, <1>6, <1>7, <1>8, <1>9
  <1>12. CASE ~neuve
    <2>1. registre' = registre \cup 1..Baseline /\ 1..Baseline \subseteq schema
      BY <1>0, <1>3, <1>12 DEF Memoire
    <2>2. issue[m] = "enCours"
      BY <1>0 DEF issue, Finis
    <2>3. Promesse!Etalonner(m)
      BY <1>0, <1>10, <2>1, <2>2 DEF Promesse!Etalonner, Promesse!schema, schema, issue, Fichiers
    <2> QED
      BY <2>3, <1>5, <1>6, <1>7, <1>8, <1>9
  <1> QED
    BY <1>11, <1>12

\* What the end of a transaction leaves, when what it had to do is done.
LEMMA CommitterIInv ==
  ASSUME IInv, NEW m \in Migrateurs, pc[m] \in {"deja", "execute"}, Committer(m),
         registre' = registre \cup {Fichier(m)},
         passages' = [passages EXCEPT ![Fichier(m)] = passages'[Fichier(m)]],
         passages'[Fichier(m)] \in Nat \ {0}
  PROVE  IInv' /\ issue' = issue /\ issue[m] = "enCours"
  <1> USE DEF IInv, Committer, Aller, cadre, traces
  <1> DEFINE f == Fichier(m)
             reste == enAttente[m] \ {f}
  <1>0. /\ f \in enAttente[m] /\ f \in Fichiers /\ reste \in SUBSET Fichiers
        /\ transaction = dorsal[m] /\ dorsal[m] # Personne
    <2>1. enAttente[m] # {} /\ enAttente[m] \in SUBSET Fichiers
      BY DEF Plan, Types, AvecFichier, EnTransaction
    <2> QED
      BY <2>1, Premier DEF Fichier, Tenue, EnTransaction
  <1>1. /\ pc'[m] = Suite(m, reste) /\ enAttente'[m] = reste /\ dorsal'[m] = Personne
        /\ \A p \in Migrateurs \ {m} : pc'[p] = pc[p] /\ enAttente'[p] = enAttente[p] /\ dorsal'[p] = dorsal[p]
    BY DEF Types
  <1>2. /\ pc'[m] \in {"acheve", "ouvre", "garde", "verrou"}
        /\ pc'[m] = "acheve" => reste = {}
        /\ pc'[m] \in AvecFichier => reste # {}
    BY <1>0, <1>1, SuiteLieu DEF AvecFichier, EnTransaction
  <1>3. Types'
    <2>1. pc' \in [Migrateurs -> Lieux]
      BY <1>1, <1>2 DEF Types, Lieux, AvecFichier
    <2>2. enAttente' \in [Migrateurs -> SUBSET Fichiers]
      BY <1>0 DEF Types
    <2>3. passages' \in [Fichiers -> Nat]
      BY <1>0 DEF Types
    <2>4. dorsal' \in [Migrateurs -> Dorsaux \cup {Personne}]
          /\ \A p \in Migrateurs : dorsal'[p] \in Siens(p) \cup {Personne}
      BY DEF Types
    <2> QED
      BY <1>0, <2>1, <2>2, <2>3, <2>4 DEF Types
  <1>4. schema' = schema \cup {f}
    BY <1>0 DEF Types, schema
  <1>5. Memoire'
    BY <1>1, <1>2, <1>4 DEF Memoire, AvecFichier, EnTransaction
  <1>6. Plan'
    BY <1>0, <1>1, <1>2 DEF Plan, Finis
  <1>7. Etalon'
    <2>1. ~(\E p \in Migrateurs \ {m} : neuve /\ pc[p] = "etalonne")
      BY DEF Etalon, Finis
    <2>2. lancements' # 0
      BY DEF Etalon, Finis
    <2>3. \A p \in Migrateurs : ~(neuve' /\ pc'[p] = "etalonne")
      BY <1>1, <1>2, <2>1
    <2> QED
      BY <2>2, <2>3, Zenon DEF Etalon
  <1>8. Tenue'
    <2>1. \A p \in Migrateurs \ {m} : pc'[p] \notin EnTransaction
      BY <1>0, <1>1 DEF Tenue
    <2> QED
      BY <1>1, <1>2, <2>1 DEF Tenue, EnTransaction
  <1>9. issue' = issue /\ issue[m] = "enCours"
    BY <1>1, <1>2 DEF issue, Finis
  <1> QED
    BY <1>3, <1>5, <1>6, <1>7, <1>8, <1>9

\* A file already there is left alone; what a reader sees does not change.
LEMMA SauterIInv ==
  ASSUME IInv, NEW m \in Migrateurs, Sauter(m)
  PROVE  IInv' /\ UNCHANGED <<registre, passages, issue>>
  <1>1. Fichier(m) \in registre /\ registre \subseteq schema
    BY DEF IInv, Tenue, Memoire, Sauter, Types
  <1>2. Fichier(m) \in Fichiers /\ passages[Fichier(m)] \in Nat \ {0} /\ UNCHANGED <<registre, passages>>
    BY <1>1 DEF IInv, Types, schema, Sauter, base
  <1>3. passages' = [passages EXCEPT ![Fichier(m)] = passages'[Fichier(m)]]
    BY <1>2 DEF IInv, Types
  <1> QED
    BY <1>1, <1>2, <1>3, CommitterIInv DEF Sauter

\* A file is executed in its turn, and once.
LEMMA AppliquerIInv ==
  ASSUME IInv, NEW m \in Migrateurs, Appliquer(m)
  PROVE  IInv' /\ Promesse!Appliquer(m)
  <1> DEFINE f == Fichier(m)
  <1>1. /\ f \in enAttente[m] /\ f \in Fichiers /\ f \notin registre
        /\ \A k \in enAttente[m] : f <= k
        /\ Fichiers \ enAttente[m] \subseteq registre
    <2>1. enAttente[m] # {} /\ enAttente[m] \in SUBSET Fichiers
      BY DEF IInv, Plan, Types, Appliquer, AvecFichier, EnTransaction
    <2> QED
      BY <2>1, Premier DEF IInv, Tenue, Plan, Appliquer, Fichier, Finis
  <1>2. f \notin schema /\ passages[f] = 0
    <2>1. f \notin schema
      BY <1>1 DEF IInv, Memoire, Types, Appliquer, AvecFichier, EnTransaction
    <2> QED
      BY <1>1, <2>1 DEF schema, IInv, Types
  <1>3. 1..(f - 1) \subseteq registre
    BY <1>1 DEF Fichiers
  <1>4. /\ registre' = registre \cup {f} /\ passages' = [passages EXCEPT ![f] = 1]
        /\ passages'[f] = 1
    BY <1>1, <1>2 DEF Appliquer, IInv, Types
  <1>5. IInv' /\ issue' = issue /\ issue[m] = "enCours"
    <2>1. pc[m] = "execute" /\ Committer(m)
      BY DEF Appliquer
    <2>2. passages' = [passages EXCEPT ![Fichier(m)] = 1] /\ passages'[Fichier(m)] = 1
      BY <1>4
    <2>3. passages' = [passages EXCEPT ![Fichier(m)] = passages'[Fichier(m)]]
      BY <2>2, Zenon
    <2>4. passages'[Fichier(m)] \in Nat \ {0}
      BY <2>2
    <2> QED
      BY <1>4, <2>1, <2>3, <2>4, CommitterIInv
  <1>6. Promesse!Appliquer(m)
    <2>1. f \in (1..N) \ (registre \cup Promesse!schema)
      BY <1>1, <1>2 DEF Promesse!schema, schema, Fichiers
    <2> QED
      BY <1>3, <1>4, <1>5, <2>1 DEF Promesse!Appliquer, issue
  <1> QED
    BY <1>5, <1>6

\* A migrator ends well when nothing is left.
LEMMA AcheverIInv ==
  ASSUME IInv, NEW m \in Migrateurs, Achever(m)
  PROVE  IInv' /\ Promesse!Finir(m)
  <1> USE DEF IInv, Achever, Aller, base, verrou, cadre, traces
  <1>1. /\ pc[m] = "acheve" /\ pc'[m] = "fini" /\ \A p \in Migrateurs \ {m} : pc'[p] = pc[p]
    BY DEF Types
  <1>2. Types'
    BY DEF Types, Lieux, Finis
  <1>3. Memoire'
    BY <1>1 DEF Memoire, schema, AvecFichier, EnTransaction
  <1>4. Plan'
    BY <1>1 DEF Plan, Finis, AvecFichier, EnTransaction
  <1>5. Etalon'
    BY <1>1 DEF Etalon, Finis
  <1>6. Tenue'
    <2>1. \A p \in Migrateurs : Fichier(p)' = Fichier(p)
      BY DEF Fichier
    <2> QED
      BY <1>1, <2>1 DEF Tenue, EnTransaction
  <1>7. Promesse!Finir(m)
    <2>1. registre = 1..N
      BY <1>1 DEF Plan, Types, Finis, Fichiers
    <2>2. issue[m] = "enCours" /\ issue' = [issue EXCEPT ![m] = "fini"]
      BY <1>1 DEF issue, Finis
    <2> QED
      BY <2>1, <2>2 DEF Promesse!Finir, issue
  <1> QED
    BY <1>2, <1>3, <1>4, <1>5, <1>6, <1>7

(***************************************************************************)
(* The specification.                                                      *)
(***************************************************************************)

\* A base is empty, or adopted with the files of the baseline.
LEMMA InitIInv == Init => IInv /\ Promesse!Init
  <1> SUFFICES ASSUME Init PROVE IInv /\ Promesse!Init
    OBVIOUS
  <1> USE DEF Init
  <1>1. Types
    BY DEF Types, Lieux, Finis, Fichiers
  <1>2. schema = IF neuve THEN {} ELSE 1..Baseline
    BY DEF schema, Fichiers
  <1>3. Memoire
    BY <1>2 DEF Memoire, AvecFichier, EnTransaction
  <1>4. Plan /\ Etalon /\ Tenue
    BY DEF Plan, Etalon, Tenue, Finis, AvecFichier, EnTransaction
  <1>5. Promesse!Init
    <2>1. passages = [g \in 1..N |-> IF g <= (IF neuve THEN 0 ELSE Baseline) THEN 1 ELSE 0]
      BY DEF Fichiers
    <2>2. issue = [p \in Migrateurs |-> "hors"]
      BY DEF issue, Finis
    <2> QED
      BY <2>1, <2>2 DEF Promesse!Init, issue
  <1> QED
    BY <1>1, <1>3, <1>4, <1>5 DEF IInv

\* Every step keeps the invariant, and is a step of the promise or nothing to a reader.
LEMMA NextIInv ==
  ASSUME ~BaselineOubliee
  PROVE  IInv /\ [Next]_vars => IInv' /\ [Promesse!Next]_(Promesse!vars)
  <1> SUFFICES ASSUME IInv, [Next]_vars
               PROVE  IInv' /\ (Promesse!Next \/ UNCHANGED <<registre, passages, issue>>)
    BY DEF Promesse!vars, issue
  <1>1. ASSUME NEW m \in Migrateurs, Lancer(m)
        PROVE  IInv' /\ (Promesse!Next \/ UNCHANGED <<registre, passages, issue>>)
    BY <1>1, LancerIInv DEF Promesse!Next
  <1>2. ASSUME NEW m \in Migrateurs, Deplacer(m) \/ Mourir(m)
        PROVE  IInv' /\ (Promesse!Next \/ UNCHANGED <<registre, passages, issue>>)
    <2>1. Mouvement(m)
      BY <1>2, DeplacerMouvement
    <2> QED
      BY <2>1, MouvementIInv, MouvementVu DEF Promesse!Next
  <1>3. ASSUME NEW m \in Migrateurs, Etalonner(m)
        PROVE  IInv' /\ (Promesse!Next \/ UNCHANGED <<registre, passages, issue>>)
    BY <1>3, EtalonnerIInv DEF Promesse!Next
  <1>4. ASSUME NEW m \in Migrateurs, Sauter(m) \/ Appliquer(m) \/ Achever(m)
        PROVE  IInv' /\ (Promesse!Next \/ UNCHANGED <<registre, passages, issue>>)
    BY <1>4, SauterIInv, AppliquerIInv, AcheverIInv DEF Promesse!Next
  <1>5. CASE UNCHANGED vars
    <2>1. UNCHANGED <<registre, passages, issue>>
      BY <1>5 DEF vars, base, place, issue
    <2>2. IInv'
      BY <1>5 DEF vars, base, verrou, cadre, place, traces, IInv, Types, Memoire, schema, Plan, Etalon,
                  Tenue, Fichier
    <2> QED
      BY <2>1, <2>2
  <1> QED
    BY <1>1, <1>2, <1>3, <1>4, <1>5 DEF Next, Avancer, Deplacer

\* Files are executed in their order and once, none is marked that the base
\* lacks, and a migrator that ends well leaves nothing to apply: with any
\* number of migrators, on any connections, killed or launched again anywhere.
THEOREM RegistryPromise ==
  ASSUME ~BaselineOubliee
  PROVE  Spec => Promesse!Surete
  <1>1. Init => IInv /\ Promesse!Init
    BY InitIInv
  <1>2. IInv /\ [Next]_vars => IInv' /\ [Promesse!Next]_(Promesse!vars)
    BY NextIInv
  <1> QED
    BY <1>1, <1>2, PTL DEF Spec, Promesse!Surete

-----------------------------------------------------------------------------
(* The lock, whatever MIGRATE_BASELINE and the connections: CInv does not  *)
(* rest on IInv, which asks that the setting be withdrawn.                 *)

USE BornesAssumption

Occupes == EnTransaction \cup {"attend", "construit", "attendAnciens"}
Essais  == 1..(IF Tentatives > VerrouEssais THEN Tentatives ELSE VerrouEssais)

\* A migrator occupies a backend while it waits for the lock, holds it or builds an index, and no other
\* occupies it; a transaction that holds the lock is that of a migrator.
Occupation ==
  /\ \A m \in Migrateurs : pc[m] \in AvecFichier => enAttente[m] # {}
  /\ \A m \in Migrateurs : dorsal[m] # Personne <=> pc[m] \in Occupes
  /\ \A m, p \in Migrateurs : dorsal[m] # Personne /\ dorsal[m] = dorsal[p] => m = p
  /\ transaction # Personne => \E p \in Migrateurs : pc[p] \in EnTransaction /\ dorsal[p] = transaction
  /\ essai \in [Migrateurs -> Essais]

CInv == Types /\ TypeOK /\ Occupation

\* What every step does: one migrator moves; its transaction holds the lock or does not.
Tour(m) ==
  /\ UNCHANGED <<neuve, posee>> /\ lancements' \in Nat
  /\ registre' \subseteq Fichiers /\ passages' \in [Fichiers -> Nat]
  /\ index' \in [AvecIndex -> {"absent", "invalide", "valide"}]
  /\ pc' = [pc EXCEPT ![m] = pc'[m]] /\ pc'[m] \in Lieux
  /\ enAttente' = [enAttente EXCEPT ![m] = enAttente'[m]] /\ enAttente'[m] \subseteq Fichiers
  /\ pc'[m] \in AvecFichier => enAttente'[m] # {}
  /\ essai' = [essai EXCEPT ![m] = essai'[m]] /\ essai'[m] \in Essais
  /\ dorsal' = [dorsal EXCEPT ![m] = dorsal'[m]] /\ dorsal'[m] \in Siens(m) \cup {Personne}
  /\ dorsal'[m] # Personne <=> pc'[m] \in Occupes
  /\ dorsal'[m] \in {dorsal[m], Personne} \/ \A p \in Migrateurs \ {m} : dorsal[p] # dorsal'[m]
  /\ transaction' = IF pc'[m] \in EnTransaction THEN dorsal'[m]
                    ELSE IF dorsal[m] # Personne /\ transaction = dorsal[m] THEN Personne ELSE transaction
  /\ pc'[m] \in EnTransaction => transaction \in {Personne, dorsal[m]} /\ dorsal'[m] = dorsal[m]
  /\ session' \in Dorsaux \cup {Personne} /\ prises' \in Nat /\ (session' = Personne <=> prises' = 0)
  /\ session' # Personne /\ transaction' # Personne => session' = transaction'

LEMMA TourCInv ==
  ASSUME CInv, NEW m \in Migrateurs, Tour(m)
  PROVE  CInv'
  <1> USE DEF Tour, CInv
  <1>1. /\ \A p \in Migrateurs \ {m} : /\ pc'[p] = pc[p] /\ enAttente'[p] = enAttente[p] /\ dorsal'[p] = dorsal[p]
                                       /\ essai'[p] = essai[p]
        /\ EnTransaction \subseteq Occupes
    BY DEF Types, Occupation, Occupes
  <1>2. Siens(m) \subseteq Dorsaux
    BY DEF Siens, Dorsaux
  <1>3. Types'
    <2>1. pc' \in [Migrateurs -> Lieux] /\ enAttente' \in [Migrateurs -> SUBSET Fichiers]
      BY DEF Types
    <2>2. dorsal' \in [Migrateurs -> Dorsaux \cup {Personne}] /\ \A p \in Migrateurs : dorsal'[p] \in Siens(p) \cup {Personne}
      BY <1>1, <1>2 DEF Types
    <2> QED BY <2>1, <2>2 DEF Types
  <1>4. \A p \in Migrateurs \ {m} : dorsal[p] # Personne => dorsal'[m] # dorsal[p] /\ dorsal[m] # dorsal[p]
    BY DEF Occupation
  <1>5. \A p \in Migrateurs : dorsal'[p] # Personne <=> pc'[p] \in Occupes
    BY <1>1 DEF Occupation
  <1>6. transaction' # Personne => \E p \in Migrateurs : pc'[p] \in EnTransaction /\ dorsal'[p] = transaction'
    <2>1. CASE pc'[m] \in EnTransaction
      BY <2>1
    <2>2. CASE pc'[m] \notin EnTransaction
      <3> SUFFICES ASSUME transaction' # Personne PROVE \E p \in Migrateurs : pc'[p] \in EnTransaction /\ dorsal'[p] = transaction'
        OBVIOUS
      <3>1. transaction' = transaction /\ ~(dorsal[m] # Personne /\ transaction = dorsal[m])
        BY <2>2
      <3>2. PICK p \in Migrateurs : pc[p] \in EnTransaction /\ dorsal[p] = transaction
        BY <3>1 DEF Occupation
      <3> QED BY <1>1, <3>1, <3>2
    <2> QED BY <2>1, <2>2
  <1>7. \A p, q \in Migrateurs : dorsal'[p] # Personne /\ dorsal'[p] = dorsal'[q] => p = q
    BY <1>1, <1>4 DEF Occupation
  <1>8. essai' \in [Migrateurs -> Essais]
    BY DEF Occupation
  <1>9. Occupation'
    BY <1>1, <1>5, <1>6, <1>7, <1>8 DEF Occupation
  <1>10. \A p \in Migrateurs : pc'[p] \in EnTransaction <=> transaction' # Personne /\ transaction' = dorsal'[p]
    <2> SUFFICES ASSUME NEW p \in Migrateurs
                 PROVE  pc'[p] \in EnTransaction <=> transaction' # Personne /\ transaction' = dorsal'[p]
      OBVIOUS
    <2>1. ASSUME pc'[p] \in EnTransaction PROVE transaction' # Personne /\ transaction' = dorsal'[p]
      <3>1. dorsal'[p] # Personne
        BY <1>1, <1>5, <2>1
      <3>2. CASE p # m
        <4>1. transaction = dorsal[p] /\ dorsal[p] # dorsal[m] /\ dorsal[p] # Personne /\ dorsal'[p] = dorsal[p]
          BY <1>1, <1>4, <2>1, <3>1, <3>2 DEF TypeOK
        <4>2. pc'[m] \notin EnTransaction
          BY <4>1
        <4> QED BY <4>1, <4>2
      <3> QED BY <2>1, <3>1, <3>2
    <2>2. ASSUME transaction' # Personne, transaction' = dorsal'[p] PROVE pc'[p] \in EnTransaction
      BY <1>6, <1>7, <2>2
    <2> QED BY <2>1, <2>2
  <1>11. TypeOK'
    <2>1. transaction' \in Dorsaux \cup {Personne}
      BY <1>2 DEF TypeOK
    <2>2. \A p \in Migrateurs : essai'[p] \in Essais
      BY <1>8
    <2>3. \A p \in Migrateurs : enAttente'[p] \subseteq Fichiers
      BY <1>3 DEF Types
    <2> QED BY <1>10, <2>1, <2>2, <2>3 DEF TypeOK, Essais
  <1> QED BY <1>3, <1>9, <1>11

\* Where the backend, the session lock and the lock of transactions stand for one migrator.
LEMMA Position ==
  ASSUME CInv, NEW m \in Migrateurs
  PROVE  /\ pc[m] \in Lieux /\ enAttente[m] \subseteq Fichiers /\ essai[m] \in Essais
         /\ dorsal[m] \in Siens(m) \cup {Personne} /\ (dorsal[m] # Personne <=> pc[m] \in Occupes)
         /\ pc[m] \in EnTransaction => transaction = dorsal[m] /\ dorsal[m] # Personne
         /\ pc[m] \notin EnTransaction => ~(dorsal[m] # Personne /\ transaction = dorsal[m])
         /\ pc[m] \in AvecFichier => enAttente[m] # {} /\ Fichier(m) \in enAttente[m] /\ Fichier(m) \in Fichiers
         /\ session \in Dorsaux \cup {Personne} /\ transaction \in Dorsaux \cup {Personne} /\ prises \in Nat
         /\ (session = Personne <=> prises = 0) /\ (session # Personne /\ transaction # Personne => session = transaction)
         /\ registre \subseteq Fichiers /\ passages \in [Fichiers -> Nat] /\ lancements \in Nat
         /\ index \in [AvecIndex -> {"absent", "invalide", "valide"}]
  <1>1. pc[m] \in AvecFichier => Fichier(m) \in enAttente[m] /\ Fichier(m) \in Fichiers
    BY Premier DEF CInv, Types, Occupation, Fichier
  <1> QED BY <1>1 DEF CInv, Types, TypeOK, Occupation, Occupes, Essais

\* A step that leaves the backend of the migrator, its files and the registry alone.
LEMMA TourSurPlace ==
  ASSUME CInv, NEW m \in Migrateurs, NEW l \in Lieux,
         UNCHANGED <<registre, passages, enAttente, dorsal, transaction, neuve, posee, lancements>>,
         index' \in [AvecIndex -> {"absent", "invalide", "valide"}],
         pc' = [pc EXCEPT ![m] = l], essai' = [essai EXCEPT ![m] = essai'[m]], essai'[m] \in Essais,
         l \in AvecFichier => pc[m] \in AvecFichier,
         l \in Occupes <=> pc[m] \in Occupes,
         l \in EnTransaction <=> pc[m] \in EnTransaction,
         session' \in Dorsaux \cup {Personne}, prises' \in Nat, session' = Personne <=> prises' = 0,
         session' # Personne /\ transaction # Personne => session' = transaction
  PROVE  Tour(m)
  <1>1. pc'[m] = l /\ dorsal' = [dorsal EXCEPT ![m] = dorsal'[m]] /\ enAttente' = [enAttente EXCEPT ![m] = enAttente'[m]]
    BY DEF CInv, Types
  <1>2. enAttente'[m] = enAttente[m] /\ dorsal'[m] = dorsal[m]
    OBVIOUS
  <1> QED BY <1>1, <1>2, Position DEF Tour

\* A connection is a backend of the migrator that nobody else occupies.
LEMMA Connexions ==
  ASSUME CInv, NEW m \in Migrateurs, NEW d \in Connexion(m) \cup Ouvertures(m)
  PROVE  /\ d \in Siens(m) /\ d \in Dorsaux /\ d # Personne
         /\ \A p \in Migrateurs \ {m} : dorsal[p] # d
  <1>1. d \in Siens(m)
    BY DEF Connexion, Ouvertures, Libres, Siens
  <1>2. d \in Dorsaux
    BY <1>1 DEF Siens, Dorsaux
  <1>3. ASSUME NEW p \in Migrateurs \ {m}, dorsal[p] = d PROVE FALSE
    <2>1. dorsal[p] \in Bassin \cup {Directe(p), Principale(p)}
      BY <1>2, <1>3 DEF CInv, Types, Siens
    <2>2. Directe(p) # Directe(m) /\ Principale(p) # Principale(m) /\ Directe(p) # Principale(m) /\ Principale(p) # Directe(m)
      BY DEF Directe, Principale
    <2>3. {Directe(p), Principale(p), Directe(m), Principale(m)} \cap Bassin = {}
      OBVIOUS
    <2> QED BY <1>3, <2>1, <2>2, <2>3 DEF Connexion, Ouvertures, Libres
  <1> QED BY <1>1, <1>2, <1>3

LEMMA TourPreDeploiement ==
  ASSUME CInv, NEW m \in Migrateurs,
         \/ EssayerVerrou(m) \/ Prouver(m) \/ LireIndex(m) \/ Supprimer(m) \/ DernierePhase(m) \/ Nettoyer(m)
         \/ Rendre(m) \/ Garder(m) \/ Relire(m) \/ Achever(m)
  PROVE  Tour(m)
  <1> USE Position DEF Aller, base, verrou, cadre, traces, Occupes, AvecFichier, EnTransaction, Lieux, Finis
  <1>1. essai = [essai EXCEPT ![m] = essai[m]] /\ 1 \in Essais /\ VerrouEssais \in Nat \ {0} /\ Tentatives \in Nat \ {0}
        /\ \A k \in Essais : k < VerrouEssais \/ k < Tentatives => k + 1 \in Essais
    BY DEF CInv, Occupation, Essais
  <1>2. CASE EssayerVerrou(m)
    <2>1. PICK d \in Connexion(m) :
             \/ /\ Accorde(d)
                /\ session' = d /\ prises' = prises + 1
                /\ Aller(m, "preuve")
                /\ UNCHANGED essai
             \/ /\ ~Accorde(d)
                /\ essai' = [essai EXCEPT ![m] = IF @ < VerrouEssais THEN @ + 1 ELSE 1]
                /\ Aller(m, IF essai[m] < VerrouEssais THEN "verrou" ELSE "echec")
                /\ UNCHANGED <<session, prises>>
      BY <1>2 DEF EssayerVerrou
    <2>2. d \in Dorsaux /\ d # Personne
      BY Connexions
    <2>3. session' \in Dorsaux \cup {Personne} /\ prises' \in Nat /\ (session' = Personne <=> prises' = 0)
          /\ (session' # Personne /\ transaction # Personne => session' = transaction)
      BY <2>1, <2>2 DEF Accorde
    <2>4. essai' = [essai EXCEPT ![m] = essai'[m]] /\ essai'[m] \in Essais
      <3>1. CASE UNCHANGED essai
        BY <1>1, <3>1
      <3>2. CASE essai' = [essai EXCEPT ![m] = IF @ < VerrouEssais THEN @ + 1 ELSE 1]
        <4>1. essai'[m] = IF essai[m] < VerrouEssais THEN essai[m] + 1 ELSE 1
          BY <3>2 DEF CInv, Occupation
        <4> QED BY <1>1, <3>2, <4>1
      <3> QED BY <2>1, <3>1, <3>2
    <2>5. PICK l \in {"preuve", "verrou", "echec"} : pc' = [pc EXCEPT ![m] = l]
      BY <2>1
    <2>6. pc[m] = "verrou" /\ UNCHANGED <<base, transaction, cadre, enAttente, dorsal, anciens, traces>>
      BY <1>2 DEF EssayerVerrou
    <2> QED BY <2>3, <2>4, <2>5, <2>6, TourSurPlace
  <1>3. CASE Prouver(m)
    <2>1. PICK l \in {"index", "rend"} : pc' = [pc EXCEPT ![m] = l]
      BY <1>3 DEF Prouver
    <2>2. pc[m] = "preuve" /\ essai' = [essai EXCEPT ![m] = 1] /\ essai'[m] = 1
          /\ UNCHANGED <<base, verrou, cadre, enAttente, dorsal, anciens, traces>>
      BY <1>3 DEF Prouver, CInv, Occupation
    <2>3. essai' = [essai EXCEPT ![m] = essai'[m]]
      BY <2>2
    <2> QED BY <1>1, <2>1, <2>2, <2>3, TourSurPlace
  <1>4. CASE LireIndex(m)
    <2>1. PICK l \in {"rend", "supprime", "cree"} : pc' = [pc EXCEPT ![m] = l]
      BY <1>4 DEF LireIndex
    <2>2. pc[m] = "index" /\ UNCHANGED <<base, verrou, cadre, enAttente, essai, dorsal, anciens, lancements, morts>>
      BY <1>4 DEF LireIndex
    <2> QED BY <1>1, <2>1, <2>2, TourSurPlace
  <1>5. CASE Supprimer(m) \/ DernierePhase(m) \/ Nettoyer(m)
    <2>1. PICK l \in {"cree", "attendAnciens", "rendEchec"} :
            /\ pc' = [pc EXCEPT ![m] = l]
            /\ pc[m] \in {"supprime", "construit", "nettoie"} /\ (l = "attendAnciens" <=> pc[m] = "construit")
      BY <1>5 DEF Supprimer, DernierePhase, Nettoyer
    <2>2. index' \in [AvecIndex -> {"absent", "invalide", "valide"}]
          /\ UNCHANGED <<registre, passages, verrou, cadre, enAttente, essai, dorsal, traces>>
      BY <1>5 DEF Supprimer, DernierePhase, Nettoyer
    <2> QED BY <1>1, <2>1, <2>2, TourSurPlace
  <1>6. CASE Rendre(m)
    <2>1. PICK d \in Connexion(m) : /\ session' = IF session = d /\ prises = 1 THEN Personne ELSE session
                                    /\ prises' = IF session = d THEN prises - 1 ELSE prises
      BY <1>6 DEF Rendre
    <2>2. d \in Dorsaux /\ d # Personne
      BY Connexions
    <2>3. PICK l \in {"garde", "echec"} : pc' = [pc EXCEPT ![m] = l]
      BY <1>6 DEF Rendre
    <2>4. pc[m] \in {"rend", "rendEchec"} /\ UNCHANGED <<base, transaction, cadre, enAttente, essai, dorsal, anciens, traces>>
      BY <1>6 DEF Rendre
    <2>5. session' \in Dorsaux \cup {Personne} /\ prises' \in Nat /\ (session' = Personne <=> prises' = 0)
          /\ (session' # Personne => session' = session)
      BY <2>1, <2>2
    <2> QED BY <1>1, <2>3, <2>4, <2>5, TourSurPlace
  <1>7. CASE Garder(m)
    <2>1. PICK l \in {"echec", "ouvre"} : pc' = [pc EXCEPT ![m] = l]
      BY <1>7 DEF Garder
    <2>2. pc[m] = "garde" /\ essai' = [essai EXCEPT ![m] = 1] /\ essai'[m] = 1
          /\ UNCHANGED <<base, verrou, cadre, enAttente, dorsal, anciens, traces>>
      BY <1>7 DEF Garder, CInv, Occupation
    <2>3. essai' = [essai EXCEPT ![m] = essai'[m]]
      BY <2>2
    <2> QED BY <1>1, <2>1, <2>2, <2>3, TourSurPlace
  <1>8. CASE Relire(m)
    <2>1. PICK l \in {"deja", "execute"} : pc' = [pc EXCEPT ![m] = l]
      BY <1>8 DEF Relire
    <2>2. pc[m] = "tient" /\ UNCHANGED <<base, verrou, cadre, enAttente, essai, dorsal, anciens, traces>>
      BY <1>8 DEF Relire
    <2> QED BY <1>1, <2>1, <2>2, TourSurPlace
  <1>9. CASE Achever(m)
    <2>1. pc[m] = "acheve" /\ pc' = [pc EXCEPT ![m] = "fini"]
          /\ UNCHANGED <<base, verrou, cadre, enAttente, essai, dorsal, anciens, traces>>
      BY <1>9 DEF Achever
    <2> QED BY <1>1, <2>1, TourSurPlace
  <1> QED BY <1>2, <1>3, <1>4, <1>5, <1>6, <1>7, <1>8, <1>9

\* A build or a transaction takes a backend or gives it back.
LEMMA TourDorsal ==
  ASSUME CInv, NEW m \in Migrateurs,
         \/ Creer(m) \/ Valider(m) \/ Rater(m) \/ Ouvrir(m) \/ Obtenir(m) \/ Interbloquer(m) \/ Refuser(m)
  PROVE  Tour(m)
  <1> USE Position DEF Aller, base, verrou, cadre, traces, Occupes, AvecFichier, EnTransaction, Lieux, Finis
  <1>1. essai = [essai EXCEPT ![m] = essai[m]] /\ 1 \in Essais /\ enAttente = [enAttente EXCEPT ![m] = enAttente[m]]
        /\ dorsal = [dorsal EXCEPT ![m] = dorsal[m]] /\ pc \in [Migrateurs -> Lieux]
        /\ \A k \in Essais : k < Tentatives => k + 1 \in Essais
    BY DEF CInv, Occupation, Essais, Types
  <1>2. \A d : (dorsal' = [dorsal EXCEPT ![m] = d] => dorsal'[m] = d /\ dorsal' = [dorsal EXCEPT ![m] = dorsal'[m]])
               /\ \A l : pc' = [pc EXCEPT ![m] = l] => pc'[m] = l /\ pc' = [pc EXCEPT ![m] = pc'[m]]
    BY DEF CInv, Types
  <1>3. CASE Creer(m)
    <2>1. pc[m] = "cree" /\ UNCHANGED <<registre, passages, verrou, cadre, enAttente, essai, anciens, traces>>
      BY <1>3 DEF Creer
    <2>2. CASE index[Fichier(m)] = "absent"
      <3>1. PICK d \in Connexion(m) : dorsal' = [dorsal EXCEPT ![m] = d]
        BY <1>3, <2>2 DEF Creer
      <3>2. index' \in [AvecIndex -> {"absent", "invalide", "valide"}] /\ pc' = [pc EXCEPT ![m] = "construit"]
        BY <1>3, <2>2 DEF Creer
      <3>3. dorsal'[m] = d /\ dorsal' = [dorsal EXCEPT ![m] = dorsal'[m]] /\ pc'[m] = "construit" /\ pc' = [pc EXCEPT ![m] = pc'[m]]
        BY <1>2, <3>1, <3>2
      <3>4. d \in Siens(m) /\ d # Personne /\ \A p \in Migrateurs \ {m} : dorsal[p] # d
        BY Connexions
      <3> QED BY <1>1, <2>1, <3>2, <3>3, <3>4 DEF Tour
    <2>3. CASE index[Fichier(m)] # "absent"
      <3>1. pc' = [pc EXCEPT ![m] = "index"] /\ UNCHANGED <<index, dorsal>>
        BY <1>3, <2>3 DEF Creer
      <3> QED BY <1>1, <2>1, <3>1, TourSurPlace
    <2> QED BY <2>2, <2>3
  <1>4. CASE Valider(m)
    <2>1. /\ pc[m] = "attendAnciens" /\ index' \in [AvecIndex -> {"absent", "invalide", "valide"}]
          /\ dorsal' = [dorsal EXCEPT ![m] = Personne] /\ pc' = [pc EXCEPT ![m] = "index"]
          /\ UNCHANGED <<registre, passages, verrou, cadre, enAttente, essai, anciens, traces>>
      BY <1>4 DEF Valider
    <2>2. dorsal'[m] = Personne /\ dorsal' = [dorsal EXCEPT ![m] = dorsal'[m]] /\ pc'[m] = "index" /\ pc' = [pc EXCEPT ![m] = pc'[m]]
      BY <1>2, <2>1
    <2> QED BY <1>1, <2>1, <2>2 DEF Tour
  <1>5. CASE Rater(m)
    <2>1. /\ pc[m] \in {"supprime", "cree", "construit", "attendAnciens"}
          /\ \/ essai[m] < Tentatives /\ essai' = [essai EXCEPT ![m] = @ + 1] /\ pc' = [pc EXCEPT ![m] = "index"]
             \/ pc' = [pc EXCEPT ![m] = "nettoie"] /\ UNCHANGED essai
          /\ dorsal' = [dorsal EXCEPT ![m] = Personne]
          /\ UNCHANGED <<base, verrou, cadre, enAttente, traces>>
      BY <1>5 DEF Rater
    <2>2. dorsal'[m] = Personne /\ dorsal' = [dorsal EXCEPT ![m] = dorsal'[m]] /\ pc'[m] \in {"index", "nettoie"} /\ pc' = [pc EXCEPT ![m] = pc'[m]]
      BY <1>2, <2>1
    <2>3. essai'[m] \in Essais /\ essai' = [essai EXCEPT ![m] = essai'[m]]
      BY <1>1, <2>1 DEF CInv, Occupation
    <2> QED BY <1>1, <2>1, <2>2, <2>3 DEF Tour
  <1>6. CASE Ouvrir(m)
    <2>1. PICK d \in Ouvertures(m) : dorsal' = [dorsal EXCEPT ![m] = d]
      BY <1>6 DEF Ouvrir
    <2>2. pc[m] = "ouvre" /\ pc' = [pc EXCEPT ![m] = "attend"] /\ UNCHANGED <<base, verrou, cadre, enAttente, essai, anciens, traces>>
      BY <1>6 DEF Ouvrir
    <2>3. dorsal'[m] = d /\ dorsal' = [dorsal EXCEPT ![m] = dorsal'[m]] /\ pc'[m] = "attend" /\ pc' = [pc EXCEPT ![m] = pc'[m]]
      BY <1>2, <2>1, <2>2
    <2>4. d \in Siens(m) /\ d # Personne /\ \A p \in Migrateurs \ {m} : dorsal[p] # d
      BY Connexions
    <2> QED BY <1>1, <2>2, <2>3, <2>4 DEF Tour
  <1>7. CASE Obtenir(m)
    <2>1. /\ pc[m] = "attend" /\ Accorde(dorsal[m]) /\ transaction' = dorsal[m] /\ pc' = [pc EXCEPT ![m] = "tient"]
          /\ UNCHANGED <<base, session, prises, cadre, enAttente, essai, dorsal, traces>>
      BY <1>7 DEF Obtenir
    <2>2. pc'[m] = "tient" /\ pc' = [pc EXCEPT ![m] = pc'[m]]
      BY <1>2, <2>1
    <2> QED BY <1>1, <2>1, <2>2 DEF Tour, Accorde
  <1>8. CASE Interbloquer(m) \/ Refuser(m)
    <2>1. /\ pc[m] \in {"attend", "execute"}
          /\ \/ essai[m] < Tentatives /\ essai' = [essai EXCEPT ![m] = @ + 1] /\ pc' = [pc EXCEPT ![m] = "ouvre"]
             \/ pc' = [pc EXCEPT ![m] = "echec"] /\ UNCHANGED essai
          /\ transaction' = IF transaction = dorsal[m] THEN Personne ELSE transaction
          /\ dorsal' = [dorsal EXCEPT ![m] = Personne]
          /\ UNCHANGED <<base, session, prises, cadre, enAttente, traces>>
      BY <1>8 DEF Interbloquer, Refuser, Annuler
    <2>2. dorsal'[m] = Personne /\ dorsal' = [dorsal EXCEPT ![m] = dorsal'[m]] /\ pc'[m] \in {"ouvre", "echec"} /\ pc' = [pc EXCEPT ![m] = pc'[m]]
      BY <1>2, <2>1
    <2>3. essai'[m] \in Essais /\ essai' = [essai EXCEPT ![m] = essai'[m]]
      BY <1>1, <2>1 DEF CInv, Occupation
    <2> QED BY <1>1, <2>1, <2>2, <2>3 DEF Tour
  <1> QED BY <1>3, <1>4, <1>5, <1>6, <1>7, <1>8

\* A launch, the baseline, the end of a transaction, a death.
LEMMA TourFichiers ==
  ASSUME CInv, NEW m \in Migrateurs, Lancer(m) \/ Etalonner(m) \/ Sauter(m) \/ Appliquer(m) \/ Mourir(m)
  PROVE  Tour(m)
  <1> USE Position DEF Aller, base, verrou, cadre, traces, Occupes, AvecFichier, EnTransaction, Lieux, Finis
  <1>1. essai = [essai EXCEPT ![m] = essai[m]] /\ 1 \in Essais /\ enAttente = [enAttente EXCEPT ![m] = enAttente[m]]
        /\ dorsal = [dorsal EXCEPT ![m] = dorsal[m]]
    BY DEF CInv, Occupation, Essais, Types
  <1>2. /\ \A d : dorsal' = [dorsal EXCEPT ![m] = d] => dorsal'[m] = d /\ dorsal' = [dorsal EXCEPT ![m] = dorsal'[m]]
        /\ \A l : pc' = [pc EXCEPT ![m] = l] => pc'[m] = l /\ pc' = [pc EXCEPT ![m] = pc'[m]]
        /\ \A S : enAttente' = [enAttente EXCEPT ![m] = S] => enAttente'[m] = S /\ enAttente' = [enAttente EXCEPT ![m] = enAttente'[m]]
        /\ \A k : essai' = [essai EXCEPT ![m] = k] => essai'[m] = k /\ essai' = [essai EXCEPT ![m] = essai'[m]]
    BY DEF CInv, Occupation, Types
  <1>3. CASE Lancer(m)
    <2> DEFINE reste == Fichiers \ registre
               l == IF posee THEN "etalonne" ELSE Suite(m, reste)
    <2>1. /\ pc[m] \in {"hors", "fini", "echec"} /\ enAttente' = [enAttente EXCEPT ![m] = reste] /\ essai' = [essai EXCEPT ![m] = 1]
          /\ pc' = [pc EXCEPT ![m] = l] /\ lancements' = lancements + 1
          /\ UNCHANGED <<base, verrou, cadre, dorsal, anciens, pretes, morts>>
      BY <1>3 DEF Lancer
    <2>2. l \in {"etalonne", "acheve", "ouvre", "garde", "verrou"} /\ (l \notin {"etalonne", "acheve"} => reste # {})
      BY SuiteLieu
    <2> HIDE DEF l, reste
    <2>3. pc'[m] = l /\ enAttente'[m] = reste /\ essai'[m] = 1 /\ pc' = [pc EXCEPT ![m] = pc'[m]]
          /\ enAttente' = [enAttente EXCEPT ![m] = enAttente'[m]] /\ essai' = [essai EXCEPT ![m] = essai'[m]]
      BY <1>2, <2>1
    <2>4. reste \subseteq Fichiers
      BY DEF reste
    <2> QED BY <1>1, <2>1, <2>2, <2>3, <2>4 DEF Tour
  <1>4. CASE Etalonner(m)
    <2> DEFINE marques == IF Vierge THEN {} ELSE 1..Baseline
               reste == enAttente[m] \ marques
               l == Suite(m, reste)
    <2>1. /\ pc[m] = "etalonne" /\ enAttente' = [enAttente EXCEPT ![m] = reste] /\ pc' = [pc EXCEPT ![m] = l]
          /\ registre' = registre \cup marques
          /\ UNCHANGED <<passages, index, verrou, cadre, essai, dorsal, anciens, traces>>
      BY <1>4 DEF Etalonner
    <2>2. marques \subseteq Fichiers /\ reste \in SUBSET Fichiers
      BY DEF Fichiers
    <2>3. l \in {"acheve", "ouvre", "garde", "verrou"} /\ (l # "acheve" => reste # {})
      BY <2>2, SuiteLieu
    <2> HIDE DEF l, reste, marques
    <2>4. pc'[m] = l /\ enAttente'[m] = reste /\ pc' = [pc EXCEPT ![m] = pc'[m]]
          /\ enAttente' = [enAttente EXCEPT ![m] = enAttente'[m]]
      BY <1>2, <2>1
    <2> QED BY <1>1, <2>1, <2>2, <2>3, <2>4 DEF Tour
  <1>5. CASE Sauter(m) \/ Appliquer(m)
    <2> DEFINE f == Fichier(m)
               reste == enAttente[m] \ {f}
               l == Suite(m, reste)
    <2>1. /\ pc[m] \in {"deja", "execute"} /\ transaction' = Personne /\ dorsal' = [dorsal EXCEPT ![m] = Personne]
          /\ essai' = [essai EXCEPT ![m] = 1] /\ enAttente' = [enAttente EXCEPT ![m] = reste]
          /\ pc' = [pc EXCEPT ![m] = l] /\ UNCHANGED <<session, prises, cadre, anciens, traces>>
      BY <1>5 DEF Sauter, Appliquer, Committer
    <2>2. f \in Fichiers /\ reste \in SUBSET Fichiers /\ transaction = dorsal[m] /\ dorsal[m] # Personne
      BY <2>1
    <2>3. registre' \subseteq Fichiers /\ passages' \in [Fichiers -> Nat] /\ index' \in [AvecIndex -> {"absent", "invalide", "valide"}]
      <3>1. CASE Sauter(m)
        BY <3>1 DEF Sauter
      <3>2. CASE Appliquer(m)
        <4>1. /\ registre' = registre \cup {f} /\ passages' = [passages EXCEPT ![f] = @ + 1]
              /\ index' = [g \in AvecIndex |-> IF g = f /\ index[g] = "absent" THEN "valide" ELSE index[g]]
          BY <3>2 DEF Appliquer
        <4> QED BY <2>2, <4>1
      <3> QED BY <1>5, <3>1, <3>2
    <2>4. l \in {"acheve", "ouvre", "garde", "verrou"} /\ (l # "acheve" => reste # {})
      BY <2>2, SuiteLieu
    <2> HIDE DEF l, reste, f
    <2>5. pc'[m] = l /\ enAttente'[m] = reste /\ essai'[m] = 1 /\ dorsal'[m] = Personne /\ pc' = [pc EXCEPT ![m] = pc'[m]]
          /\ enAttente' = [enAttente EXCEPT ![m] = enAttente'[m]] /\ essai' = [essai EXCEPT ![m] = essai'[m]]
          /\ dorsal' = [dorsal EXCEPT ![m] = dorsal'[m]]
      BY <1>2, <2>1
    <2> QED BY <1>1, <2>1, <2>2, <2>3, <2>4, <2>5 DEF Tour
  <1>6. CASE Mourir(m)
    <2>1. /\ pc' = [pc EXCEPT ![m] = "echec"] /\ dorsal' = [dorsal EXCEPT ![m] = Personne]
          /\ session' = IF session = Directe(m) THEN Personne ELSE session
          /\ prises' = IF session = Directe(m) THEN 0 ELSE prises
          /\ transaction' = IF dorsal[m] # Personne /\ transaction = dorsal[m] THEN Personne ELSE transaction
          /\ UNCHANGED <<base, cadre, enAttente, essai, pretes, lancements>>
      BY <1>6 DEF Mourir, Fermer
    <2>2. pc'[m] = "echec" /\ dorsal'[m] = Personne /\ pc' = [pc EXCEPT ![m] = pc'[m]] /\ dorsal' = [dorsal EXCEPT ![m] = dorsal'[m]]
      BY <1>2, <2>1
    <2> QED BY <1>1, <2>1, <2>2 DEF Tour
  <1> QED BY <1>3, <1>4, <1>5, <1>6

LEMMA InitCInv == Init => CInv
  <1> SUFFICES ASSUME Init PROVE CInv
    OBVIOUS
  <1>1. Types
    BY InitIInv DEF IInv
  <1>2. 1 \in Essais /\ Personne \notin Dorsaux
    BY DEF Essais
  <1>3. TypeOK
    BY <1>2 DEF Init, TypeOK, EnTransaction, Fichiers, Essais
  <1>4. Occupation
    BY <1>2 DEF Init, Occupation, AvecFichier, EnTransaction, Occupes
  <1> QED
    BY <1>1, <1>3, <1>4 DEF CInv

LEMMA UnTour ==
  ASSUME CInv, NEW m \in Migrateurs, Lancer(m) \/ Avancer(m) \/ Mourir(m)
  PROVE  Tour(m)
  BY TourPreDeploiement, TourDorsal, TourFichiers DEF Avancer

LEMMA NextCInv == CInv /\ [Next]_vars => CInv'
  <1> SUFFICES ASSUME CInv, [Next]_vars PROVE CInv'
    OBVIOUS
  <1>1. CASE Next
    BY <1>1, UnTour, TourCInv DEF Next
  <1>2. CASE UNCHANGED vars
    BY <1>2 DEF vars, base, verrou, cadre, place, traces, CInv, Types, TypeOK, Occupation
  <1> QED
    BY <1>1, <1>2

\* The registry, the base and the lock stay what they are, with any number of migrators on any connections:
\* the lock is held by one backend, by its session and its transaction alike, and the migrators whose
\* transaction is under way are the ones that hold it.
THEOREM TypeCorrect == Spec => []TypeOK
  <1>1. CInv => TypeOK
    BY DEF CInv
  <1> QED
    BY InitCInv, NextCInv, <1>1, PTL DEF Spec

-----------------------------------------------------------------------------
(* The index.  Its state is read under the session lock and changed later, *)
(* in other statements: what was read still holds, because whoever changes *)
(* an index holds the lock, by its session or by its transaction.  This    *)
(* asks that no connection be a hidden pooler's, whose sessions share      *)
(* backends.                                                               *)

\* The places between the taking of the session lock and its return.
Sessions == {"preuve", "index", "supprime", "cree", "construit", "attendAnciens", "nettoie", "rend", "rendEchec"}

\* The session lock is that of one migrator, taken once; transactions are on the other connection.
Exclusif ==
  /\ \A m \in Migrateurs : session = Directe(m) <=> pc[m] \in Sessions
  /\ session # Personne => prises = 1 /\ \E m \in Migrateurs : session = Directe(m)
  /\ \A m \in Migrateurs : pc[m] \in EnTransaction \cup {"attend"} => dorsal[m] = Principale(m)

\* What a migrator read of the index it builds still holds.
Etat(m) ==
  /\ pc[m] \in {"supprime", "construit", "attendAnciens"} => index[Fichier(m)] = "invalide"
  /\ pc[m] = "cree" => index[Fichier(m)] = "absent"
  /\ pc[m] = "nettoie" => index[Fichier(m)] # "valide"

\* A pre-deployment is that of a file which has one.
Indexee(m) == pc[m] \in Sessions \cup {"verrou", "garde"} => Fichier(m) \in AvecIndex

\* A file is executed when its pre-deployment has ended well, or another migrator has applied it meanwhile.
Pret(m) ==
  pc[m] \in {"rend", "garde", "ouvre", "attend", "tient", "execute"} /\ Fichier(m) \in AvecIndex =>
    Fichier(m) \in pretes \/ (pc[m] # "execute" /\ Fichier(m) \in registre)

VInv ==
  /\ CInv
  /\ \A m \in Migrateurs : Indexee(m)
  /\ pretes \subseteq AvecIndex
  /\ SansBassin => /\ Exclusif
                   /\ \A m \in Migrateurs : Etat(m)
                   /\ \A f \in pretes : index[f] = "valide"
  /\ Directes => /\ \A m \in Migrateurs : Pret(m)
                 /\ \A f \in schema \cap AvecIndex : index[f] = "valide"

\* What a step does to the indexes and to the session lock, beside Tour.
Geste(m) ==
  /\ UNCHANGED liaison /\ registre \subseteq registre'
  /\ Indexee(m)' /\ pretes \subseteq pretes' /\ pretes' \subseteq AvecIndex
  /\ SansBassin =>
       /\ \/ UNCHANGED <<session, prises>> /\ (pc'[m] \in Sessions <=> pc[m] \in Sessions)
          \/ session = Personne /\ session' = Directe(m) /\ prises' = 1 /\ pc'[m] \in Sessions
          \/ session = Directe(m) /\ session' = Personne /\ pc'[m] \notin Sessions
       /\ pc'[m] \in EnTransaction \cup {"attend"} => dorsal'[m] = Principale(m)
       /\ Etat(m)'
       /\ index' = index \/ pc[m] \in Sessions \/ transaction # Personne
       /\ \A g \in AvecIndex : index[g] = "valide" => index'[g] = "valide"
       /\ \A g \in pretes' \ pretes : index'[g] = "valide"
  /\ Directes =>
       /\ Pret(m)'
       /\ \A g \in AvecIndex : passages'[g] > 0 => passages[g] > 0 \/ index'[g] = "valide"

\* A session lock and a transaction are never on the same backend.
LEMMA Separes ==
  ASSUME VInv, SansBassin, NEW m \in Migrateurs, NEW p \in Migrateurs
  PROVE  /\ Directe(m) # Principale(p) /\ Directe(m) # Personne /\ Principale(m) # Personne
         /\ Directe(m) = Directe(p) => m = p
         /\ transaction # Personne => session = Personne
         /\ Connexion(m) = {Directe(m)} /\ Ouvertures(m) = {Principale(m)}
  <1>1. /\ Directe(m) # Principale(p) /\ Directe(m) # Personne /\ Principale(m) # Personne
        /\ Directe(m) = Directe(p) => m = p
    BY DEF Directe, Principale, Dorsaux
  <1>2. ASSUME transaction # Personne, session # Personne PROVE FALSE
    <2>1. PICK q \in Migrateurs : pc[q] \in EnTransaction /\ dorsal[q] = transaction
      BY <1>2 DEF VInv, CInv, Occupation
    <2>2. transaction = Principale(q)
      BY <2>1 DEF VInv, Exclusif
    <2>3. PICK s \in Migrateurs : session = Directe(s)
      BY <1>2 DEF VInv, Exclusif
    <2> QED BY <1>2, <2>2, <2>3 DEF VInv, CInv, TypeOK, Directe, Principale
  <1> QED BY <1>1, <1>2 DEF SansBassin, Connexion, Ouvertures

LEMMA GesteVInv ==
  ASSUME VInv, NEW m \in Migrateurs, Tour(m), Geste(m)
  PROVE  VInv'
  <1>1. CInv'
    BY TourCInv DEF VInv
  <1>2. \A p \in Migrateurs \ {m} : pc'[p] = pc[p] /\ enAttente'[p] = enAttente[p] /\ dorsal'[p] = dorsal[p]
                                    /\ Fichier(p)' = Fichier(p)
    BY DEF Tour, Fichier, VInv, CInv, Types
  <1>3. \A p \in Migrateurs : Indexee(p)'
    BY <1>2 DEF Geste, Indexee, VInv
  <1>4. (SansBassin' <=> SansBassin) /\ (Directes' <=> Directes) /\ (Directes => SansBassin)
    BY DEF Geste, SansBassin, Directes
  <1>5. ASSUME SansBassin
        PROVE  Exclusif' /\ (\A p \in Migrateurs : Etat(p)') /\ \A f \in pretes' : index'[f] = "valide"
    <2>1. \A p \in Migrateurs : /\ Directe(m) # Personne /\ Directe(p) # Personne /\ (Directe(m) = Directe(p) => m = p)
                                /\ (transaction # Personne => session = Personne)
      BY <1>5, Separes
    <2>2. Exclusif'
      <3>1. \A p \in Migrateurs : session' = Directe(p) <=> pc'[p] \in Sessions
        BY <1>2, <1>5, <2>1 DEF VInv, Exclusif, Geste
      <3>2. session' # Personne => prises' = 1 /\ \E p \in Migrateurs : session' = Directe(p)
        BY <1>5 DEF VInv, Exclusif, Geste
      <3>3. \A p \in Migrateurs : pc'[p] \in EnTransaction \cup {"attend"} => dorsal'[p] = Principale(p)
        BY <1>2, <1>5 DEF VInv, Exclusif, Geste
      <3> QED BY <3>1, <3>2, <3>3 DEF Exclusif
    <2>3. ASSUME NEW p \in Migrateurs PROVE Etat(p)'
      <3>1. CASE p = m
        BY <1>5, <3>1 DEF Geste
      <3>2. CASE p # m /\ index' = index
        BY <1>2, <1>5, <3>2 DEF VInv, Etat
      <3>3. CASE p # m /\ index' # index
        <4>1. pc[p] \notin Sessions
          BY <1>5, <2>1, <3>3 DEF VInv, Exclusif, Geste
        <4> QED BY <1>2, <3>3, <4>1 DEF Etat, Sessions
      <3> QED BY <3>1, <3>2, <3>3
    <2>4. \A f \in pretes' : index'[f] = "valide"
      BY <1>5 DEF VInv, Geste
    <2> QED BY <2>2, <2>3, <2>4
  <1>6. ASSUME Directes
        PROVE  (\A p \in Migrateurs : Pret(p)') /\ \A f \in schema' \cap AvecIndex : index'[f] = "valide"
    <2>1. \A p \in Migrateurs : Pret(p)'
      BY <1>2, <1>6 DEF VInv, Geste, Pret
    <2>2. \A f \in schema' \cap AvecIndex : index'[f] = "valide"
      BY <1>4, <1>6 DEF VInv, Geste, schema
    <2> QED BY <2>1, <2>2
  <1> QED BY <1>1, <1>3, <1>4, <1>5, <1>6 DEF VInv, Geste

\* A step that stays on one file and leaves the indexes, the registry and the session lock alone.
LEMMA GesteSurPlace ==
  ASSUME VInv, NEW m \in Migrateurs, Tour(m),
         UNCHANGED <<registre, passages, index, session, prises, liaison, pretes, enAttente>>,
         pc'[m] \in Sessions \cup {"verrou", "garde"} => pc[m] \in Sessions \cup {"verrou", "garde"},
         SansBassin => (pc'[m] \in Sessions <=> pc[m] \in Sessions) /\ Etat(m)',
         SansBassin => (pc'[m] \in EnTransaction \cup {"attend"} => dorsal'[m] = Principale(m)),
         Directes => Pret(m)'
  PROVE  Geste(m)
  <1>1. Indexee(m)'
    BY DEF Indexee, Fichier, VInv
  <1> QED BY <1>1 DEF Geste, VInv

LEMMA GestePreDeploiement ==
  ASSUME VInv, NEW m \in Migrateurs, Tour(m),
         EssayerVerrou(m) \/ Prouver(m) \/ LireIndex(m) \/ DernierePhase(m) \/ Rater(m) \/ Rendre(m) \/ Garder(m)
  PROVE  Geste(m)
  <1> USE DEF Aller, base, cadre, traces, Sessions, EnTransaction
  <1>1. /\ CInv /\ Indexee(m) /\ (SansBassin => Exclusif /\ Etat(m)) /\ (Directes => SansBassin /\ Pret(m))
        /\ \A f \in pretes : SansBassin => index[f] = "valide"
    BY DEF VInv, SansBassin, Directes
  <1>2. \A l : pc' = [pc EXCEPT ![m] = l] => pc'[m] = l
    BY <1>1 DEF CInv, Types
  <1>3. UNCHANGED enAttente => Fichier(m)' = Fichier(m)
    BY DEF Fichier
  <1>4. SansBassin => Connexion(m) = {Directe(m)} /\ Directe(m) # Personne
    BY Separes
  <1>5. CASE EssayerVerrou(m)
    <2>1. PICK d \in Connexion(m) :
             \/ Accorde(d) /\ session' = d /\ prises' = prises + 1 /\ pc' = [pc EXCEPT ![m] = "preuve"]
             \/ UNCHANGED <<session, prises>> /\ \E l \in {"verrou", "echec"} : pc' = [pc EXCEPT ![m] = l]
      BY <1>5 DEF EssayerVerrou
    <2>2. pc[m] = "verrou" /\ UNCHANGED <<registre, passages, index, liaison, pretes, enAttente>>
      BY <1>5 DEF EssayerVerrou
    <2>3. pc'[m] \in {"preuve", "verrou", "echec"} /\ Indexee(m)' /\ Fichier(m)' = Fichier(m)
      BY <1>1, <1>2, <1>3, <2>1, <2>2 DEF Indexee
    <2>4. ASSUME SansBassin
          PROVE  \/ UNCHANGED <<session, prises>> /\ pc'[m] \notin Sessions
                 \/ session = Personne /\ session' = Directe(m) /\ prises' = 1 /\ pc'[m] \in Sessions
      <3>1. session # Directe(m) /\ d = Directe(m)
        BY <1>1, <1>4, <2>2, <2>4 DEF Exclusif
      <3>2. CASE session' = d /\ Accorde(d) /\ prises' = prises + 1 /\ pc' = [pc EXCEPT ![m] = "preuve"]
        <4>1. session = Personne /\ prises = 0
          BY <1>1, <3>1, <3>2 DEF Accorde, CInv, TypeOK
        <4>2. pc'[m] = "preuve"
          BY <1>2, <3>2
        <4> QED BY <3>1, <3>2, <4>1, <4>2
      <3>3. CASE UNCHANGED <<session, prises>> /\ \E l \in {"verrou", "echec"} : pc' = [pc EXCEPT ![m] = l]
        <4>1. pc'[m] \in {"verrou", "echec"}
          BY <1>2, <3>3
        <4> QED BY <3>3, <4>1
      <3> QED BY <2>1, <3>2, <3>3
    <2>5. Etat(m)' /\ Pret(m)'
      BY <2>3 DEF Etat, Pret
    <2> QED BY <1>1, <2>2, <2>3, <2>4, <2>5 DEF Geste, VInv
  <1>6. CASE Prouver(m)
    <2>1. PICK d \in Connexion(m) :
             pc' = [pc EXCEPT ![m] = IF session = d /\ Fichier(m) \notin registre THEN "index" ELSE "rend"]
      BY <1>6 DEF Prouver
    <2>2. /\ pc[m] = "preuve" /\ UNCHANGED <<registre, passages, index, liaison, pretes, enAttente>>
          /\ UNCHANGED <<session, prises>>
      BY <1>6 DEF Prouver, verrou
    <2>3. pc'[m] \in {"index", "rend"}
      BY <1>2, <2>1
    <2>4. Directes /\ pc'[m] = "rend" => Fichier(m) \in registre
      <3>1. SansBassin => session = Directe(m)
        BY <1>1, <2>2 DEF Exclusif
      <3>2. SansBassin => d = Directe(m)
        BY <1>4
      <3>3. pc'[m] = IF session = d /\ Fichier(m) \notin registre THEN "index" ELSE "rend"
        BY <1>2, <2>1
      <3> QED BY <1>1, <3>1, <3>2, <3>3
    <2>5. Etat(m)' /\ (Directes => Pret(m)')
      BY <1>3, <2>2, <2>3, <2>4 DEF Etat, Pret
    <2> QED BY <2>2, <2>3, <2>5, GesteSurPlace
  <1>7. CASE LireIndex(m)
    <2>1. /\ pc[m] = "index" /\ UNCHANGED <<registre, passages, index, liaison, enAttente>>
          /\ UNCHANGED <<session, prises>>
      BY <1>7 DEF LireIndex, verrou
    <2>2. \/ index[Fichier(m)] = "valide" /\ pc' = [pc EXCEPT ![m] = "rend"] /\ pretes' = pretes \cup {Fichier(m)}
          \/ index[Fichier(m)] = "invalide" /\ pc' = [pc EXCEPT ![m] = "supprime"] /\ UNCHANGED pretes
          \/ index[Fichier(m)] \notin {"valide", "invalide"} /\ pc' = [pc EXCEPT ![m] = "cree"] /\ UNCHANGED pretes
      BY <1>7 DEF LireIndex
    <2>3. Fichier(m) \in AvecIndex /\ index[Fichier(m)] \in {"absent", "invalide", "valide"} /\ Fichier(m)' = Fichier(m)
      BY <1>1, <1>3, <2>1 DEF Indexee, CInv, TypeOK
    <2>4. Etat(m)' /\ Pret(m)' /\ Indexee(m)' /\ pc'[m] \in {"rend", "supprime", "cree"}
      BY <1>2, <2>1, <2>2, <2>3 DEF Etat, Pret, Indexee
    <2> QED BY <1>1, <2>1, <2>2, <2>3, <2>4 DEF Geste, VInv
  <1>8. CASE DernierePhase(m)
    <2>1. /\ pc[m] = "construit" /\ pc'[m] = "attendAnciens"
          /\ UNCHANGED <<registre, passages, index, session, prises, liaison, pretes, enAttente>>
      BY <1>2, <1>8 DEF DernierePhase, verrou
    <2>2. (SansBassin => Etat(m)') /\ Pret(m)'
      BY <1>1, <1>3, <2>1 DEF Etat, Pret
    <2> QED BY <2>1, <2>2, GesteSurPlace
  <1>9. CASE Rater(m)
    <2>1. /\ pc[m] \in {"supprime", "cree", "construit", "attendAnciens"} /\ pc'[m] \in {"index", "nettoie"}
          /\ UNCHANGED <<registre, passages, index, session, prises, liaison, pretes, enAttente>>
      BY <1>2, <1>9 DEF Rater, verrou
    <2>2. (SansBassin => Etat(m)') /\ Pret(m)'
      BY <1>1, <1>3, <2>1 DEF Etat, Pret
    <2> QED BY <2>1, <2>2, GesteSurPlace
  <1>10. CASE Rendre(m)
    <2>1. PICK d \in Connexion(m) : /\ session' = IF session = d /\ prises = 1 THEN Personne ELSE session
                                    /\ prises' = IF session = d THEN prises - 1 ELSE prises
      BY <1>10 DEF Rendre
    <2>2. /\ pc[m] \in {"rend", "rendEchec"} /\ pc' = [pc EXCEPT ![m] = IF pc[m] = "rend" THEN "garde" ELSE "echec"]
          /\ UNCHANGED <<registre, passages, index, liaison, pretes, enAttente>>
      BY <1>10 DEF Rendre
    <2>3. pc'[m] = IF pc[m] = "rend" THEN "garde" ELSE "echec"
      BY <1>2, <2>2
    <2>4. SansBassin => session = Directe(m) /\ session' = Personne
      BY <1>1, <1>4, <2>1, <2>2 DEF Exclusif
    <2>5. Etat(m)' /\ (Directes => Pret(m)') /\ Indexee(m)'
      BY <1>1, <1>3, <2>2, <2>3 DEF Etat, Pret, Indexee
    <2> QED BY <1>1, <2>2, <2>3, <2>4, <2>5 DEF Geste, VInv
  <1>11. CASE Garder(m)
    <2>1. /\ pc[m] = "garde" /\ pc'[m] \in {"echec", "ouvre"}
          /\ UNCHANGED <<registre, passages, index, session, prises, liaison, pretes, enAttente>>
      BY <1>2, <1>11 DEF Garder, verrou
    <2>2. Etat(m)' /\ (Directes => Pret(m)')
      BY <1>1, <1>3, <2>1 DEF Etat, Pret
    <2> QED BY <2>1, <2>2, GesteSurPlace
  <1> QED BY <1>5, <1>6, <1>7, <1>8, <1>9, <1>10, <1>11

\* The commands on an index: what was read of it still holds.
LEMMA GesteIndex ==
  ASSUME VInv, NEW m \in Migrateurs, Tour(m),
         Supprimer(m) \/ Creer(m) \/ Valider(m) \/ Nettoyer(m)
  PROVE  Geste(m)
  <1> USE DEF Aller, cadre, traces, Sessions, EnTransaction
  <1>1. /\ CInv /\ Indexee(m) /\ (SansBassin => Etat(m))
        /\ index \in [AvecIndex -> {"absent", "invalide", "valide"}]
    BY DEF VInv, CInv, TypeOK
  <1>2. \A l : pc' = [pc EXCEPT ![m] = l] => pc'[m] = l
    BY <1>1 DEF CInv, Types
  <1>3. UNCHANGED enAttente => Fichier(m)' = Fichier(m)
    BY DEF Fichier
  <1>4. pc[m] \in Sessions
    BY DEF Supprimer, Creer, Valider, Nettoyer
  <1>5. Fichier(m) \in AvecIndex
    BY <1>1, <1>4 DEF Indexee
  <1>6. UNCHANGED <<registre, passages, session, prises, liaison, pretes, enAttente>>
    BY DEF Supprimer, Creer, Valider, Nettoyer, verrou
  <1>7. \/ pc[m] = "supprime" /\ pc'[m] = "cree" /\ index' = [index EXCEPT ![Fichier(m)] = "absent"]
        \/ pc[m] = "cree" /\ pc'[m] = "construit" /\ index[Fichier(m)] = "absent" /\ index' = [index EXCEPT ![Fichier(m)] = "invalide"]
        \/ pc[m] = "cree" /\ pc'[m] = "index" /\ index' = index
        \/ pc[m] = "attendAnciens" /\ pc'[m] = "index" /\ index' = [index EXCEPT ![Fichier(m)] = "valide"]
        \/ pc[m] = "nettoie" /\ pc'[m] = "rendEchec" /\ index[Fichier(m)] = "invalide" /\ index' = [index EXCEPT ![Fichier(m)] = "absent"]
        \/ pc[m] = "nettoie" /\ pc'[m] = "rendEchec" /\ index' = index
    <2>1. CASE Supprimer(m)
      BY <1>2, <2>1 DEF Supprimer
    <2>2. CASE Creer(m)
      BY <1>2, <2>2 DEF Creer
    <2>3. CASE Valider(m)
      BY <1>2, <2>3 DEF Valider
    <2>4. CASE Nettoyer(m)
      BY <1>2, <2>4 DEF Nettoyer
    <2> QED BY <2>1, <2>2, <2>3, <2>4
  <1>8. pc'[m] \in {"cree", "construit", "index", "rendEchec"} /\ Indexee(m)' /\ Pret(m)'
    BY <1>3, <1>5, <1>6, <1>7 DEF Indexee, Pret
  <1>9. SansBassin => Etat(m)'
    BY <1>1, <1>3, <1>5, <1>6, <1>7 DEF Etat
  <1>10. SansBassin => \A g \in AvecIndex : index[g] = "valide" => index'[g] = "valide"
    BY <1>1, <1>5, <1>7 DEF Etat
  <1> QED BY <1>4, <1>6, <1>8, <1>9, <1>10 DEF Geste, VInv

\* The transaction of a file, to its end.
LEMMA GesteTransaction ==
  ASSUME VInv, NEW m \in Migrateurs, Tour(m),
         Ouvrir(m) \/ Obtenir(m) \/ Interbloquer(m) \/ Relire(m) \/ Refuser(m) \/ Achever(m)
  PROVE  Geste(m)
  <1> USE DEF Aller, base, cadre, traces, Sessions, EnTransaction
  <1>1. /\ CInv /\ (SansBassin => Exclusif) /\ (Directes => Pret(m))
    BY DEF VInv
  <1>2. \A l : pc' = [pc EXCEPT ![m] = l] => pc'[m] = l
    BY <1>1 DEF CInv, Types
  <1>3. UNCHANGED enAttente => Fichier(m)' = Fichier(m)
    BY DEF Fichier
  <1>4. SansBassin => Ouvertures(m) = {Principale(m)}
    BY Separes
  <1>5. UNCHANGED <<registre, passages, index, session, prises, liaison, pretes, enAttente>>
    BY DEF Ouvrir, Obtenir, Interbloquer, Relire, Refuser, Achever, Annuler, verrou
  <1>6. \/ pc[m] = "ouvre" /\ pc'[m] = "attend"
        \/ pc[m] = "attend" /\ pc'[m] \in {"tient", "ouvre", "echec"}
        \/ pc[m] = "tient" /\ pc'[m] = "deja"
        \/ pc[m] = "tient" /\ pc'[m] = "execute" /\ Fichier(m) \notin registre
        \/ pc[m] = "execute" /\ pc'[m] \in {"ouvre", "echec"}
        \/ pc[m] = "acheve" /\ pc'[m] = "fini"
    BY <1>2 DEF Ouvrir, Obtenir, Interbloquer, Relire, Refuser, Achever, Annuler, DejaApplique
  <1>7. SansBassin => (pc'[m] \in EnTransaction \cup {"attend"} => dorsal'[m] = Principale(m))
    <2>1. CASE Ouvrir(m)
      <3>1. PICK d \in Ouvertures(m) : dorsal' = [dorsal EXCEPT ![m] = d]
        BY <2>1 DEF Ouvrir
      <3>2. dorsal'[m] = d
        BY <1>1, <3>1 DEF CInv, Types
      <3> QED BY <1>4, <3>2
    <2>2. CASE Obtenir(m) \/ Relire(m)
      BY <1>1, <2>2 DEF Obtenir, Relire, Exclusif
    <2>3. CASE Interbloquer(m) \/ Refuser(m) \/ Achever(m)
      <3>1. pc'[m] \in {"ouvre", "echec", "fini"}
        BY <1>2, <2>3 DEF Interbloquer, Refuser, Achever, Annuler
      <3> QED BY <3>1
    <2> QED BY <2>1, <2>2, <2>3
  <1>8. Directes => Pret(m)'
    BY <1>1, <1>3, <1>5, <1>6 DEF Pret
  <1>9. Etat(m)'
    BY <1>6 DEF Etat
  <1> QED BY <1>5, <1>6, <1>7, <1>8, <1>9, GesteSurPlace

\* The next file: its pre-deployment is to be done, when it has one and the migrator a connection for it.
LEMMA SuiteGeste ==
  ASSUME NEW m \in Migrateurs, NEW reste, enAttente'[m] = reste, pc'[m] = Suite(m, reste), UNCHANGED liaison
  PROVE  /\ pc'[m] \in {"acheve", "ouvre", "garde", "verrou"}
         /\ Indexee(m)' /\ Etat(m)' /\ (Directes => Pret(m)')
  <1>1. Fichier(m)' = Min(reste)
    BY DEF Fichier
  <1>2. pc'[m] \in {"acheve", "ouvre", "garde", "verrou"}
        /\ (pc'[m] \in {"garde", "verrou"} => Min(reste) \in AvecIndex)
        /\ (pc'[m] = "ouvre" => Min(reste) \notin AvecIndex)
        /\ (pc'[m] = "garde" => liaison[m] = "aucune")
    BY DEF Suite
  <1> QED BY <1>1, <1>2 DEF Indexee, Etat, Pret, Directes, Sessions

LEMMA GesteFichiers ==
  ASSUME VInv, NEW m \in Migrateurs, Tour(m),
         Lancer(m) \/ Etalonner(m) \/ Sauter(m) \/ Appliquer(m) \/ Mourir(m)
  PROVE  Geste(m)
  <1> USE DEF Aller, base, verrou, cadre, traces, Sessions, EnTransaction
  <1>1. /\ CInv /\ pretes \subseteq AvecIndex /\ (SansBassin => Exclusif) /\ (Directes => SansBassin /\ Pret(m))
        /\ \A f \in pretes : SansBassin => index[f] = "valide"
        /\ index \in [AvecIndex -> {"absent", "invalide", "valide"}] /\ passages \in [Fichiers -> Nat]
    BY DEF VInv, SansBassin, Directes, CInv, TypeOK
  <1>2. /\ \A l : pc' = [pc EXCEPT ![m] = l] => pc'[m] = l
        /\ \A S : enAttente' = [enAttente EXCEPT ![m] = S] => enAttente'[m] = S
    BY <1>1 DEF CInv, Types
  <1>3. CASE Lancer(m)
    <2>1. /\ pc[m] \in Finis /\ UNCHANGED <<registre, passages, index, session, prises, liaison, pretes>>
          /\ pc' = [pc EXCEPT ![m] = IF posee THEN "etalonne" ELSE Suite(m, Fichiers \ registre)]
          /\ enAttente' = [enAttente EXCEPT ![m] = Fichiers \ registre]
      BY <1>3 DEF Lancer
    <2>2. enAttente'[m] = Fichiers \ registre /\ pc'[m] = IF posee THEN "etalonne" ELSE Suite(m, Fichiers \ registre)
      BY <1>2, <2>1
    <2>3. CASE pc'[m] = "etalonne"
      BY <1>1, <2>1, <2>3 DEF Geste, Indexee, Etat, Pret, Finis
    <2>4. CASE pc'[m] = Suite(m, Fichiers \ registre)
      <3>1. /\ pc'[m] \in {"acheve", "ouvre", "garde", "verrou"} /\ Indexee(m)' /\ Etat(m)' /\ (Directes => Pret(m)')
        BY <2>1, <2>2, <2>4, SuiteGeste
      <3> QED BY <1>1, <2>1, <3>1 DEF Geste, Finis
    <2> QED BY <2>2, <2>3, <2>4
  <1>4. CASE Etalonner(m)
    <2> DEFINE marques == IF Vierge THEN {} ELSE 1..Baseline
    <2>1. /\ pc[m] = "etalonne" /\ UNCHANGED <<passages, index, session, prises, liaison, pretes>>
          /\ registre' = registre \cup marques
          /\ pc' = [pc EXCEPT ![m] = Suite(m, enAttente[m] \ marques)]
          /\ enAttente' = [enAttente EXCEPT ![m] = enAttente[m] \ marques]
      BY <1>4 DEF Etalonner
    <2> HIDE DEF marques
    <2>2. enAttente'[m] = enAttente[m] \ marques /\ pc'[m] = Suite(m, enAttente[m] \ marques)
      BY <1>2, <2>1
    <2>3. pc'[m] \in {"acheve", "ouvre", "garde", "verrou"} /\ Indexee(m)' /\ Etat(m)' /\ (Directes => Pret(m)')
      BY <2>1, <2>2, SuiteGeste
    <2> QED BY <1>1, <2>1, <2>3 DEF Geste
  <1>5. CASE Sauter(m) \/ Appliquer(m)
    <2> DEFINE f == Fichier(m)
    <2>1. /\ pc[m] \in {"deja", "execute"} /\ UNCHANGED <<session, prises, liaison, pretes>>
          /\ pc' = [pc EXCEPT ![m] = Suite(m, enAttente[m] \ {f})]
          /\ enAttente' = [enAttente EXCEPT ![m] = enAttente[m] \ {f}]
      BY <1>5 DEF Sauter, Appliquer, Committer
    <2>2. enAttente'[m] = enAttente[m] \ {f} /\ pc'[m] = Suite(m, enAttente[m] \ {f})
      BY <1>2, <2>1
    <2>3. pc'[m] \in {"acheve", "ouvre", "garde", "verrou"} /\ Indexee(m)' /\ Etat(m)' /\ (Directes => Pret(m)')
      BY <2>1, <2>2, SuiteGeste
    <2>4. transaction # Personne
      BY <2>1, Position, <1>1
    <2>5. registre \subseteq registre' /\ (\A g \in AvecIndex : index[g] = "valide" => index'[g] = "valide")
          /\ (Directes => \A g \in AvecIndex : passages'[g] > 0 => passages[g] > 0 \/ index'[g] = "valide")
      <3>1. CASE Sauter(m)
        BY <3>1 DEF Sauter
      <3>2. CASE Appliquer(m)
        <4>1. /\ registre' = registre \cup {f} /\ passages' = [passages EXCEPT ![f] = @ + 1] /\ pc[m] = "execute"
              /\ index' = [g \in AvecIndex |-> IF g = f /\ index[g] = "absent" THEN "valide" ELSE index[g]]
          BY <3>2 DEF Appliquer
        <4>2. \A g \in AvecIndex : index[g] = "valide" => index'[g] = "valide"
          BY <4>1
        <4>3. Directes /\ f \in AvecIndex => index[f] = "valide"
          BY <1>1, <4>1 DEF Pret
        <4>4. \A g \in AvecIndex : g # f => passages'[g] = passages[g]
          BY <1>1, <4>1
        <4> QED BY <4>1, <4>2, <4>3, <4>4
      <3> QED BY <1>5, <3>1, <3>2
    <2> QED BY <1>1, <2>1, <2>3, <2>4, <2>5 DEF Geste
  <1>6. CASE Mourir(m)
    <2>1. /\ session' = IF session = Directe(m) THEN Personne ELSE session
          /\ prises' = IF session = Directe(m) THEN 0 ELSE prises
          /\ pc'[m] = "echec" /\ UNCHANGED <<registre, passages, index, liaison, enAttente, pretes>>
      BY <1>2, <1>6 DEF Mourir, Fermer
    <2>2. SansBassin => (session = Directe(m) <=> pc[m] \in Sessions)
      BY <1>1 DEF Exclusif
    <2>3. Indexee(m)' /\ Etat(m)' /\ Pret(m)'
      BY <2>1 DEF Indexee, Etat, Pret
    <2> QED BY <1>1, <2>1, <2>2, <2>3 DEF Geste
  <1> QED BY <1>3, <1>4, <1>5, <1>6

LEMMA NextVInv == VInv /\ [Next]_vars => VInv'
  <1> SUFFICES ASSUME VInv, [Next]_vars PROVE VInv'
    OBVIOUS
  <1>1. ASSUME NEW m \in Migrateurs, Lancer(m) \/ Avancer(m) \/ Mourir(m) PROVE VInv'
    <2>1. Tour(m)
      BY <1>1, UnTour DEF VInv
    <2>2. Geste(m)
      BY <1>1, <2>1, GestePreDeploiement, GesteIndex, GesteTransaction, GesteFichiers DEF Avancer
    <2> QED BY <2>1, <2>2, GesteVInv
  <1>2. CASE UNCHANGED vars
    <2>1. CInv'
      BY <1>2, NextCInv DEF VInv
    <2> QED BY <1>2, <2>1 DEF vars, base, verrou, cadre, place, traces, VInv, Indexee, SansBassin, Directes, Exclusif,
                              Etat, Pret, Fichier, schema
  <1> QED BY <1>1, <1>2 DEF Next

LEMMA InitVInv == Init => VInv
  <1> SUFFICES ASSUME Init PROVE VInv
    OBVIOUS
  <1>1. CInv
    BY InitCInv
  <1>2. \A m \in Migrateurs : /\ pc[m] = "hors" /\ Directe(m) # Personne
    BY DEF Init, Dorsaux
  <1>3. \A m \in Migrateurs : Indexee(m) /\ Etat(m) /\ Pret(m)
    BY <1>2 DEF Indexee, Etat, Pret, Sessions
  <1>4. Exclusif
    BY <1>2 DEF Init, Exclusif, Sessions, EnTransaction
  <1>5. \A f \in schema \cap AvecIndex : index[f] = "valide"
    BY DEF Init, schema, Fichiers
  <1> QED BY <1>1, <1>3, <1>4, <1>5 DEF VInv, Init

\* An index that a pre-deployment has found ready stays valid, whatever other migrators build, clean or leave
\* behind when they die, when no connection is a hidden pooler's; and with a direct connection for each, no
\* file is registered above an index the planner cannot use.
THEOREM IndexStaysValid == Spec => []IndexVivant
  <1>1. VInv => IndexVivant
    BY DEF VInv, IndexVivant, SansBassin, Directes
  <1> QED BY InitVInv, NextVInv, <1>1, PTL DEF Spec
===============================================================================
