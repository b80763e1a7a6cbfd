------------------------------- MODULE Migrator -------------------------------
(***************************************************************************)
(* The migrator (packages/db/migrate.mjs): applies the files the registry  *)
(* does not have, in order, each in a transaction under an advisory lock;  *)
(* before a file that has a pre-deployment script, builds its index        *)
(* CONCURRENTLY under a session lock of the same key.  Several migrators    *)
(* run at once, fail, die and are launched again.                           *)
(*                                                                          *)
(* A connection is a backend, except behind a pooler in transaction mode,   *)
(* where each statement falls on any of its backends.  A build waits, as    *)
(* PostgreSQL does, for the statements that were running before its last    *)
(* phase: a migrator blocked on the lock is one of them.                    *)
(***************************************************************************)
EXTENDS Naturals, FiniteSetsExt

CONSTANTS Migrateurs,
          N,               \* files, in their order; file 1 is schema.sql
          AvecIndex,       \* files with a pre-deployment script, of one index
          Baseline,        \* the file MIGRATE_BASELINE names
          Liaisons,        \* of "directe", "pooler" (one nothing betrays) and "aucune"
          Bassin,          \* backends of the pooler
          Tentatives,      \* DELAIS.tentatives
          VerrouEssais,    \* DELAIS.verrouEssais
          BaselineOubliee, \* MIGRATE_BASELINE may outlive the creation of a base
          MaxLancements,   \* bound on launches
          MaxMorts,        \* bound on deaths
          Personne

Fichiers == 1..N
ASSUME FichiersAssumption == N \in Nat \ {0} /\ Baseline \in Fichiers /\ AvecIndex \subseteq Fichiers
ASSUME BornesAssumption == Tentatives \in Nat \ {0} /\ VerrouEssais \in Nat \ {0}

Directe(m)    == <<m, "directe">>
Principale(m) == <<m, "principale">>
Dorsaux == Bassin \cup {Directe(m) : m \in Migrateurs} \cup {Principale(m) : m \in Migrateurs}
ASSUME DorsauxAssumption ==
  /\ Personne \notin Dorsaux
  /\ \A m \in Migrateurs : {Directe(m), Principale(m)} \cap Bassin = {}

VARIABLES
  registre, passages, index, \* schema_migration, times a file was executed, pg_index
  session, prises,          \* the backend that holds the session lock, how many times
  transaction,              \* the backend whose transaction holds the lock
  liaison,                  \* liaison[m]: what its pre-deployment connection is
  posee, neuve,             \* MIGRATE_BASELINE is set; the base was created empty
  pc, enAttente, essai,     \* of each migrator: its place, files to apply, attempt
  dorsal,                   \* the backend its transaction or its build is on
  anciens,                  \* the migrators its build waits for
  pretes,                   \* files whose pre-deployment has ended well (history)
  lancements, morts         \* counters of the bounds

base   == <<registre, passages, index>>
verrou == <<session, prises, transaction>>
cadre  == <<liaison, posee, neuve>>
place  == <<pc, enAttente, essai, dorsal, anciens>>
traces == <<pretes, lancements, morts>>
vars   == <<base, verrou, cadre, place, traces>>

\* The files whose effects the base has.
schema == {f \in Fichiers : passages[f] > 0}

Init ==
  /\ neuve \in BOOLEAN /\ posee \in BOOLEAN /\ (neuve \/ posee)
  /\ registre = {}
  /\ passages = [f \in Fichiers |-> IF ~neuve /\ f <= Baseline THEN 1 ELSE 0]
  /\ index = [f \in AvecIndex |-> IF ~neuve /\ f <= Baseline THEN "valide" ELSE "absent"]
  /\ session = Personne /\ prises = 0 /\ transaction = Personne
  /\ liaison \in [Migrateurs -> Liaisons]
  /\ pc = [m \in Migrateurs |-> "hors"]
  /\ enAttente = [m \in Migrateurs |-> {}]
  /\ essai = [m \in Migrateurs |-> 1]
  /\ dorsal = [m \in Migrateurs |-> Personne]
  /\ anciens = [m \in Migrateurs |-> {}]
  /\ pretes = {} /\ lancements = 0 /\ morts = 0

Finis == {"hors", "fini", "echec"}
EnTransaction == {"tient", "deja", "execute"}
Fichier(m) == Min(enAttente[m])

\* Where a statement of m may fall: a busy backend of the pooler serves nobody else.
Libres(m) == Bassin \ {dorsal[p] : p \in Migrateurs \ {m}}
Connexion(m) == IF liaison[m] = "pooler" THEN Libres(m) ELSE {Directe(m)}
Ouvertures(m) == IF liaison[m] = "pooler" THEN Libres(m) ELSE {Principale(m)}

\* The lock is granted to a backend when no other holds it.
Accorde(d) == session \in {Personne, d} /\ transaction \in {Personne, d}

Aller(m, lieu) == pc' = [pc EXCEPT ![m] = lieu]

\* The next thing to do when reste is left to apply.
Suite(m, reste) ==
  IF reste = {} THEN "acheve"
  ELSE IF Min(reste) \notin AvecIndex THEN "ouvre"
  ELSE IF liaison[m] = "aucune" THEN "garde" ELSE "verrou"

\* The connections close: a direct session gives its lock back, a pooled one does not.
Fermer(m) ==
  /\ session' = IF session = Directe(m) THEN Personne ELSE session
  /\ prises' = IF session = Directe(m) THEN 0 ELSE prises
  /\ transaction' = IF dorsal[m] # Personne /\ transaction = dorsal[m] THEN Personne ELSE transaction
  /\ dorsal' = [dorsal EXCEPT ![m] = Personne]
  /\ anciens' = [p \in Migrateurs |-> IF p = m THEN {} ELSE anciens[p] \ {m}]

Lancer(m) ==
  /\ pc[m] \in Finis
  /\ lancements < MaxLancements /\ lancements' = lancements + 1
  /\ BaselineOubliee \/ lancements = 0 \/ ~(posee /\ neuve)
  /\ enAttente' = [enAttente EXCEPT ![m] = Fichiers \ registre]
  /\ essai' = [essai EXCEPT ![m] = 1]
  /\ Aller(m, IF posee THEN "etalonne" ELSE Suite(m, Fichiers \ registre))
  /\ UNCHANGED <<base, verrou, cadre, dorsal, anciens, pretes, morts>>

\* baseVierge: schema.sql creates the table that is looked for.
Vierge == 1 \notin schema

\* The files up to the baseline are marked, without executing them, unless the
\* base is empty.
Etalonner(m) ==
  /\ pc[m] = "etalonne"
  /\ LET marques == IF Vierge THEN {} ELSE 1..Baseline
         reste   == enAttente[m] \ marques
     IN /\ registre' = registre \cup marques
        /\ enAttente' = [enAttente EXCEPT ![m] = reste]
        /\ Aller(m, Suite(m, reste))
  /\ UNCHANGED <<passages, index, verrou, cadre, essai, dorsal, anciens, traces>>

(***************************************************************************)
(* The pre-deployment of a file.                                           *)
(***************************************************************************)

\* Mutant: a transaction that holds the lock is not seen.
EssayerVerrou_Aveugle(m) ==
  /\ pc[m] = "verrou"
  /\ \E d \in Connexion(m) :
       /\ session \in {Personne, d}
       /\ session' = d /\ prises' = prises + 1
       /\ Aller(m, "preuve")
       /\ UNCHANGED essai
  /\ UNCHANGED <<base, transaction, cadre, enAttente, dorsal, anciens, traces>>

\* pg_try_advisory_lock, a bounded number of times.
EssayerVerrou(m) ==
  /\ pc[m] = "verrou"
  /\ \E d \in Connexion(m) :
       \/ /\ Accorde(d)
          /\ session' = d /\ prises' = prises + 1
          /\ Aller(m, "preuve")
          /\ UNCHANGED essai
       \/ /\ ~Accorde(d)
          /\ essai' = [essai EXCEPT ![m] = IF @ < VerrouEssais THEN @ + 1 ELSE 1]
          /\ Aller(m, IF essai[m] < VerrouEssais THEN "verrou" ELSE "echec")
          /\ UNCHANGED <<session, prises>>
  /\ UNCHANGED <<base, transaction, cadre, enAttente, dorsal, anciens, traces>>

\* Is the lock on the backend that answers; is the file still to apply?
Prouver(m) ==
  /\ pc[m] = "preuve"
  /\ \E d \in Connexion(m) :
       Aller(m, IF session = d /\ Fichier(m) \notin registre THEN "index" ELSE "rend")
  /\ essai' = [essai EXCEPT ![m] = 1]
  /\ UNCHANGED <<base, verrou, cadre, enAttente, dorsal, anciens, traces>>

\* Mutant: an index that exists is taken for built.
LireIndex_SiExiste(m) ==
  /\ pc[m] = "index"
  /\ LET f == Fichier(m)
     IN IF index[f] # "absent"
        THEN Aller(m, "rend") /\ pretes' = pretes \cup {f}
        ELSE Aller(m, "cree") /\ UNCHANGED pretes
  /\ UNCHANGED <<base, verrou, cadre, enAttente, essai, dorsal, anciens, lancements, morts>>

\* construireIndex reads the state of the index.
LireIndex(m) ==
  /\ pc[m] = "index"
  /\ LET f == Fichier(m)
     IN CASE index[f] = "valide"   -> Aller(m, "rend") /\ pretes' = pretes \cup {f}
          [] index[f] = "invalide" -> Aller(m, "supprime") /\ UNCHANGED pretes
          [] OTHER                 -> Aller(m, "cree") /\ UNCHANGED pretes
  /\ UNCHANGED <<base, verrou, cadre, enAttente, essai, dorsal, anciens, lancements, morts>>

\* Two commands on one index exclude each other.
Construit(f) == \E p \in Migrateurs : pc[p] \in {"construit", "attendAnciens"} /\ Fichier(p) = f

Supprimer(m) ==
  /\ pc[m] = "supprime"
  /\ ~Construit(Fichier(m))
  /\ index' = [index EXCEPT ![Fichier(m)] = "absent"]
  /\ Aller(m, "cree")
  /\ UNCHANGED <<registre, passages, verrou, cadre, enAttente, essai, dorsal, anciens, traces>>

\* The index is in the catalogue, invalid, while it is built.
Creer(m) ==
  /\ pc[m] = "cree"
  /\ ~Construit(Fichier(m))
  /\ IF index[Fichier(m)] = "absent"
     THEN /\ index' = [index EXCEPT ![Fichier(m)] = "invalide"]
          /\ \E d \in Connexion(m) : dorsal' = [dorsal EXCEPT ![m] = d]
          /\ Aller(m, "construit")
     ELSE Aller(m, "index") /\ UNCHANGED <<index, dorsal>>
  /\ UNCHANGED <<registre, passages, verrou, cadre, enAttente, essai, anciens, traces>>

DernierePhase(m) ==
  /\ pc[m] = "construit"
  /\ anciens' = [anciens EXCEPT ![m] = {p \in Migrateurs : pc[p] = "attend"}]
  /\ Aller(m, "attendAnciens")
  /\ UNCHANGED <<base, verrou, cadre, enAttente, essai, dorsal, traces>>

Valider(m) ==
  /\ pc[m] = "attendAnciens"
  /\ anciens[m] = {}
  /\ index' = [index EXCEPT ![Fichier(m)] = "valide"]
  /\ dorsal' = [dorsal EXCEPT ![m] = Personne]
  /\ Aller(m, "index")
  /\ UNCHANGED <<registre, passages, verrou, cadre, enAttente, essai, anciens, traces>>

\* A wait that expires or a deadlock is tried again; anything else, or the last
\* attempt, gives up.
Rater(m) ==
  /\ pc[m] \in {"supprime", "cree", "construit", "attendAnciens"}
  /\ \/ /\ essai[m] < Tentatives
        /\ essai' = [essai EXCEPT ![m] = @ + 1]
        /\ Aller(m, "index")
     \/ Aller(m, "nettoie") /\ UNCHANGED essai
  /\ dorsal' = [dorsal EXCEPT ![m] = Personne]
  /\ anciens' = [anciens EXCEPT ![m] = {}]
  /\ UNCHANGED <<base, verrou, cadre, enAttente, traces>>

\* supprimerSiInvalide, at best.
Nettoyer(m) ==
  /\ pc[m] = "nettoie"
  /\ \/ /\ index[Fichier(m)] = "invalide" /\ ~Construit(Fichier(m))
        /\ index' = [index EXCEPT ![Fichier(m)] = "absent"]
     \/ UNCHANGED index
  /\ Aller(m, "rendEchec")
  /\ UNCHANGED <<registre, passages, verrou, cadre, enAttente, essai, dorsal, anciens, traces>>

\* pg_advisory_unlock, on the backend the statement falls on.
Rendre(m) ==
  /\ pc[m] \in {"rend", "rendEchec"}
  /\ \E d \in Connexion(m) :
       /\ session' = IF session = d /\ prises = 1 THEN Personne ELSE session
       /\ prises' = IF session = d THEN prises - 1 ELSE prises
  /\ Aller(m, IF pc[m] = "rend" THEN "garde" ELSE "echec")
  /\ UNCHANGED <<base, transaction, cadre, enAttente, essai, dorsal, anciens, traces>>

\* exigerIndexValides, outside the lock.
Garder(m) ==
  /\ pc[m] = "garde"
  /\ Aller(m, IF index[Fichier(m)] = "invalide" THEN "echec" ELSE "ouvre")
  /\ essai' = [essai EXCEPT ![m] = 1]
  /\ UNCHANGED <<base, verrou, cadre, enAttente, dorsal, anciens, traces>>

(***************************************************************************)
(* The file, in its transaction.                                           *)
(***************************************************************************)

\* begin, then the wait for the lock, with a snapshot and no timeout.
Ouvrir(m) ==
  /\ pc[m] = "ouvre"
  /\ \E d \in Ouvertures(m) : dorsal' = [dorsal EXCEPT ![m] = d]
  /\ Aller(m, "attend")
  /\ UNCHANGED <<base, verrou, cadre, enAttente, essai, anciens, traces>>

Obtenir(m) ==
  /\ pc[m] = "attend"
  /\ Accorde(dorsal[m])
  /\ transaction' = dorsal[m]
  /\ anciens' = [p \in Migrateurs |-> anciens[p] \ {m}]
  /\ Aller(m, "tient")
  /\ UNCHANGED <<base, session, prises, cadre, enAttente, essai, dorsal, traces>>

\* The transaction is rolled back, and tried again if it was a wait.
Annuler(m) ==
  /\ \/ /\ essai[m] < Tentatives
        /\ essai' = [essai EXCEPT ![m] = @ + 1]
        /\ Aller(m, "ouvre")
     \/ Aller(m, "echec") /\ UNCHANGED essai
  /\ transaction' = IF transaction = dorsal[m] THEN Personne ELSE transaction
  /\ dorsal' = [dorsal EXCEPT ![m] = Personne]
  /\ anciens' = [p \in Migrateurs |-> anciens[p] \ {m}]
  /\ UNCHANGED <<base, session, prises, cadre, enAttente, traces>>

\* PostgreSQL breaks the cycle: m waits for the lock of a session whose build
\* waits for m.  (The build may be the victim instead: Rater.)
Interbloquer(m) ==
  /\ pc[m] = "attend"
  /\ \E p \in Migrateurs : m \in anciens[p] /\ session = dorsal[p]
  /\ Annuler(m)

\* Mutant: the registry read before the wait is trusted.
DejaApplique_AvantVerrou(f) == FALSE

\* The registry, read again under the lock.
DejaApplique(f) == f \in registre

\* Already there, or to be executed.
Relire(m) ==
  /\ pc[m] = "tient"
  /\ Aller(m, IF DejaApplique(Fichier(m)) THEN "deja" ELSE "execute")
  /\ UNCHANGED <<base, verrou, cadre, enAttente, essai, dorsal, anciens, traces>>

\* The transaction commits and the migrator goes on to the next file.
Committer(m) ==
  /\ transaction' = Personne
  /\ dorsal' = [dorsal EXCEPT ![m] = Personne]
  /\ essai' = [essai EXCEPT ![m] = 1]
  /\ enAttente' = [enAttente EXCEPT ![m] = @ \ {Fichier(m)}]
  /\ Aller(m, Suite(m, enAttente[m] \ {Fichier(m)}))
  /\ UNCHANGED <<session, prises, cadre, anciens, traces>>

Sauter(m) == pc[m] = "deja" /\ Committer(m) /\ UNCHANGED base

\* The file and its line commit together; a file whose index is missing creates it.
Appliquer(m) ==
  /\ pc[m] = "execute"
  /\ LET f == Fichier(m)
     IN /\ registre' = registre \cup {f}
        /\ passages' = [passages EXCEPT ![f] = @ + 1]
        /\ index' = [g \in AvecIndex |-> IF g = f /\ index[g] = "absent" THEN "valide" ELSE index[g]]
  /\ Committer(m)

\* The file fails: its own guard, or a lock it could not take.
Refuser(m) ==
  /\ pc[m] = "execute"
  /\ Annuler(m)

Achever(m) ==
  /\ pc[m] = "acheve"
  /\ Aller(m, "fini")
  /\ UNCHANGED <<base, verrou, cadre, enAttente, essai, dorsal, anciens, traces>>

\* The process dies, or loses its connections.
Mourir(m) ==
  /\ pc[m] \notin Finis
  /\ morts < MaxMorts /\ morts' = morts + 1
  /\ Aller(m, "echec")
  /\ Fermer(m)
  /\ UNCHANGED <<base, cadre, enAttente, essai, pretes, lancements>>

Avancer(m) ==
  \/ Etalonner(m)
  \/ EssayerVerrou(m)
  \/ Prouver(m)
  \/ LireIndex(m)
  \/ Supprimer(m)
  \/ Creer(m)
  \/ DernierePhase(m)
  \/ Valider(m)
  \/ Rater(m)
  \/ Nettoyer(m)
  \/ Rendre(m)
  \/ Garder(m)
  \/ Ouvrir(m)
  \/ Obtenir(m)
  \/ Interbloquer(m)
  \/ Relire(m)
  \/ Sauter(m)
  \/ Appliquer(m)
  \/ Refuser(m)
  \/ Achever(m)

Next == \E m \in Migrateurs : Lancer(m) \/ Avancer(m) \/ Mourir(m)

\* A statement ends: a command on an index has a lock_timeout, a cycle is broken
\* by the server, and the lock is granted once it is free.
Fairness == \A m \in Migrateurs : WF_vars(Avancer(m))

Spec == Init /\ [][Next]_vars /\ Fairness

(***************************************************************************)
(* Properties.                                                             *)
(***************************************************************************)

\* Type invariant; the lock is held by one backend, its session and its
\* transaction alike, and a migrator in its transaction holds it.
TypeOK ==
  /\ registre \subseteq Fichiers /\ passages \in [Fichiers -> Nat]
  /\ index \in [AvecIndex -> {"absent", "invalide", "valide"}]
  /\ session \in Dorsaux \cup {Personne} /\ transaction \in Dorsaux \cup {Personne}
  /\ prises \in Nat
  /\ (session = Personne) <=> (prises = 0)
  /\ session # Personne /\ transaction # Personne => session = transaction
  /\ \A m \in Migrateurs :
       /\ enAttente[m] \subseteq Fichiers
       /\ essai[m] \in 1..(IF Tentatives > VerrouEssais THEN Tentatives ELSE VerrouEssais)
       /\ pc[m] \in EnTransaction <=> transaction # Personne /\ transaction = dorsal[m]

SansBassin == \A m \in Migrateurs : liaison[m] # "pooler"
Directes   == \A m \in Migrateurs : liaison[m] = "directe"

\* "« Invalide » veut aussi dire « en cours de construction » : c'est le verrou de
\* session qui garantit": an index a pre-deployment found ready stays valid,
\* whatever other migrators do, die or clean; and when all have a direct
\* connection no file is registered above a dead index.
IndexVivant ==
  /\ SansBassin => \A f \in pretes : index[f] = "valide"
  /\ Directes => \A f \in registre \cap schema \cap AvecIndex : index[f] = "valide"

\* Migrators together keep the promise of the registry: each file once and in
\* order, none marked that the schema lacks, and a migrator ends, with nothing
\* left when it ends well (without a hidden pooler, whose lost lock is for ever).
Promesse == INSTANCE MigrationPromise WITH
  issue <- [m \in Migrateurs |-> IF pc[m] \in Finis THEN pc[m] ELSE "enCours"]
PromesseTenue == Promesse!Surete /\ (SansBassin => Promesse!Vivacite)

\* No file is registered above an index the planner cannot use (refuted as soon
\* as one migrator has no direct connection).
AucunIndexMort == \A f \in registre \cap schema \cap AvecIndex : index[f] = "valide"
===============================================================================
