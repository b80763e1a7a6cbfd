------------------------- MODULE BackfillRunner_proof -------------------------
(***************************************************************************)
(* What a backfill promises, for any runs, workers, sources, ids, batches  *)
(* and failures.                                                           *)
(*                                                                         *)
(* Everything rests on LotJuste: from the reading of a batch to its commit *)
(* the lock keeps the sources as they were read, so that what is written   *)
(* is what a reading would find.  A place in the sources then stands for   *)
(* the rows it has passed (Complets), a row written for a row that will    *)
(* not be written again (Comptes), and, one execution at a time on a run,  *)
(* a row examined for a row behind the checkpoint (Derriere).              *)
(***************************************************************************)
EXTENDS BackfillRunner, FiniteSetTheorems, WellFoundedInduction, TLAPS

USE SegmentsAssumption, TailleAssumption, SerieAssumption, BornesAssumption, LibreAssumption

Pcs    == {"repos", "demarrer", "boucle", "lot", "ecrire", "terminer", "pauser"}
Taches == [pc : Pcs, run : Runs \cup {Libre}, ici : Places, lot : SUBSET (1..MaxId)]

Candidats(t) == {n \in sources[t.ici.i] : n > t.ici.curseur /\ (t.ici.phase = "fenetre" => n <= bornes[t.run][t.ici.i])}
Premieres(c) == {n \in c : Cardinality({k \in c : k < n}) < Taille}

\* The types TypeOK leaves aside.
Formes ==
  /\ trav \in [Travailleurs -> Taches]
  /\ verrou \in Travailleurs \cup {Libre, "ecrivain"}
  /\ \A w \in Travailleurs : trav[w].pc # "repos" => trav[w].run \in Runs
  /\ attendues \in [Runs -> SUBSET Lignes] /\ ecrites \in [Runs -> SUBSET Lignes]
  /\ vues \in [Runs -> SUBSET (Phases \X Lignes)] /\ revues \in [Runs -> SUBSET (Phases \X Lignes)]

\* What a worker will write is what it would read now; it holds nothing otherwise.
LotJuste == \A w \in Travailleurs :
  trav[w].lot = IF trav[w].pc = "ecrire" THEN Premieres(Candidats(trav[w])) ELSE {}

\* Ids are drawn once.
Presentes == Validees \cup enVol
Tirees == \A x \in Presentes : x[2] < prochain[x[1]]

\* Nobody works on a run that is not planned.
Absents == \A r \in Runs : etat[r] = "absent" => \A w \in Travailleurs : trav[w].run # r \/ trav[w].pc = "repos"

IInv == TypeOK /\ Formes /\ LotJuste /\ Tirees /\ Absents /\ RienDeRessuscite

-----------------------------------------------------------------------------
(* Sets of ids *)

\* A set of ids that is not empty has a least and a greatest one.
LEMMA Moindre ==
  ASSUME NEW S \in SUBSET Nat, S # {}
  PROVE  \E n \in S : \A k \in S : n <= k
  <1>1. PICK n \in S : \A k \in S : <<k, n>> \notin OpToRel(<, Nat)
    BY WFMin, NatLessThanWellFounded, Zenon
  <1>2. \A k \in S : ~(k < n)
    BY <1>1, Zenon DEF OpToRel
  <1> QED BY <1>2

LEMMA PlusGrand ==
  ASSUME NEW S \in SUBSET (0..MaxId), S # {}
  PROVE  Max(S) \in S /\ \A k \in S : k <= Max(S)
  <1>1. \A k \in S : k \in 0..MaxId
    OBVIOUS
  <1> DEFINE T == {n \in Nat : \E k \in S : n = MaxId - k}
  <1>2. \A k \in S : MaxId - k \in T
    BY <1>1
  <1>3. T \in SUBSET Nat /\ T # {}
    BY <1>2
  <1> HIDE DEF T
  <1>4. PICK n \in T : \A k \in T : n <= k
    BY <1>3, Moindre
  <1>5. PICK m \in S : n = MaxId - m
    BY <1>4 DEF T
  <1>6. ASSUME NEW k \in S PROVE k <= m
    <2>1. MaxId - m <= MaxId - k
      BY <1>2, <1>4, <1>5
    <2> QED BY <1>1, <2>1
  <1>7. \E x \in S : \A y \in S : x >= y
    BY <1>1, <1>6
  <1> QED BY <1>1, <1>7 DEF Max

\* Sets of ids are finite, and ids are numbers.
LEMMA Finis ==
  ASSUME NEW c \in SUBSET (1..MaxId)
  PROVE  IsFiniteSet(c) /\ Cardinality(c) \in Nat /\ \A n \in c : n \in Nat
  <1>1. IsFiniteSet(1..MaxId)
    BY FS_Interval
  <1>2. IsFiniteSet(c)
    BY <1>1, FS_Subset
  <1> QED BY <1>2, FS_CardinalityType

LEMMA LignesFinies ==
  ASSUME NEW L \in SUBSET Lignes
  PROVE  IsFiniteSet(L) /\ Cardinality(L) \in Nat
  <1>1. IsFiniteSet(Segments) /\ IsFiniteSet(1..MaxId)
    BY FS_Interval DEF Segments
  <1>2. IsFiniteSet(Lignes)
    BY <1>1, FS_Product DEF Lignes
  <1> QED BY <1>2, FS_Subset, FS_CardinalityType

\* The first ids of a set: with each, those before it; all of them if they are few.
LEMMA Tete ==
  ASSUME NEW c \in SUBSET (1..MaxId)
  PROVE  /\ Premieres(c) \subseteq c
         /\ \A m \in Premieres(c), n \in c : n <= m => n \in Premieres(c)
         /\ Cardinality(Premieres(c)) < Taille => Premieres(c) = c
         /\ Cardinality(Premieres(c)) >= Taille => Premieres(c) # {}
         /\ Cardinality(Premieres(c)) \in Nat
  <1>1. \A n \in c : n \in Nat
    BY Finis
  <1>2. Premieres(c) \subseteq c
    BY DEF Premieres
  <1>3. ASSUME NEW m \in Premieres(c), NEW n \in c, n <= m
        PROVE  n \in Premieres(c)
    <2> DEFINE A == {k \in c : k < n}
               B == {k \in c : k < m}
    <2>1. A \subseteq B
      <3> SUFFICES ASSUME NEW k \in c, k < n PROVE k < m
        OBVIOUS
      <3>1. m \in c
        BY <1>2, <1>3
      <3>2. k \in Nat /\ n \in Nat /\ m \in Nat
        BY <1>1, <3>1
      <3> QED BY <1>3, <3>2
    <2>2. A \in SUBSET (1..MaxId) /\ B \in SUBSET (1..MaxId)
      OBVIOUS
    <2>3. Cardinality(B) < Taille
      BY <1>3 DEF Premieres
    <2> HIDE DEF A, B
    <2>4. Cardinality(A) <= Cardinality(B) /\ Cardinality(A) \in Nat /\ Cardinality(B) \in Nat
      BY <2>1, <2>2, Finis, FS_Subset
    <2>5. Cardinality(A) < Taille
      BY <2>3, <2>4
    <2> QED BY <2>5 DEF A, Premieres
  <1>4. ASSUME Cardinality(Premieres(c)) < Taille, Premieres(c) # c
        PROVE  FALSE
    <2>1. c \ Premieres(c) \in SUBSET Nat
      BY <1>1
    <2>2. PICK n \in c \ Premieres(c) : \A k \in c \ Premieres(c) : n <= k
      BY <1>2, <1>4, <2>1, Moindre
    <2> DEFINE A == {k \in c : k < n}
    <2>3. A \subseteq Premieres(c)
      <3> SUFFICES ASSUME NEW k \in c, k < n PROVE k \in Premieres(c)
        OBVIOUS
      <3>1. ~(n <= k)
        BY <1>1, <2>2
      <3> QED BY <2>2, <3>1
    <2>4. ~(Cardinality(A) < Taille)
      BY <2>2 DEF Premieres
    <2>5. A \in SUBSET (1..MaxId) /\ Premieres(c) \in SUBSET (1..MaxId)
      BY <1>2
    <2> HIDE DEF A
    <2>6. Cardinality(A) <= Cardinality(Premieres(c)) /\ Cardinality(A) \in Nat /\ Cardinality(Premieres(c)) \in Nat
      BY <2>3, <2>5, Finis, FS_Subset
    <2> QED BY <1>4, <2>4, <2>6
  <1>5. Cardinality(Premieres(c)) >= Taille => Premieres(c) # {}
    BY FS_EmptySet
  <1>6. Cardinality(Premieres(c)) \in Nat
    BY <1>2, Finis
  <1> QED BY <1>2, <1>3, <1>4, <1>5, <1>6

-----------------------------------------------------------------------------
(* Places, batches and types *)

\* The place after a batch is a place.
LEMMA Avancer ==
  ASSUME NEW p \in Places
  PROVE  avancer(p) \in Places
  <1>1. p.i \in 1..NbSegments /\ p = [phase |-> p.phase, i |-> p.i, curseur |-> p.curseur]
    BY DEF Places, Segments
  <1>2. CASE p.i < NbSegments
    <2>1. p.i + 1 \in 1..NbSegments /\ 0 \in 0..MaxId
      BY <1>1, <1>2
    <2>2. avancer(p) = [p EXCEPT !.i = @ + 1, !.curseur = 0]
      BY <1>2 DEF avancer
    <2> QED BY <2>1, <2>2 DEF Places, Segments
  <1>3. CASE ~(p.i < NbSegments) /\ p.phase = "fenetre"
    <2>1. avancer(p) = [phase |-> "reconciliation", i |-> 1, curseur |-> 0]
      BY <1>3 DEF avancer
    <2>2. 1 \in 1..NbSegments /\ 0 \in 0..MaxId
      OBVIOUS
    <2> QED BY <2>1, <2>2 DEF Places, Segments, Phases
  <1>4. CASE ~(p.i < NbSegments) /\ p.phase # "fenetre"
    <2>1. avancer(p) = [p EXCEPT !.curseur = 0]
      BY <1>4 DEF avancer
    <2>2. 0 \in 0..MaxId
      OBVIOUS
    <2> QED BY <2>1, <2>2 DEF Places
  <1> QED BY <1>2, <1>3, <1>4

\* A batch: the first rows after the cursor, present in the source.
LEMMA LotLu ==
  ASSUME IInv, NEW w \in Travailleurs, trav[w].pc = "ecrire"
  PROVE  /\ trav[w] \in Taches /\ trav[w].run \in Runs /\ verrou = w
         /\ Candidats(trav[w]) \in SUBSET (1..MaxId) /\ Candidats(trav[w]) \subseteq sources[trav[w].ici.i]
         /\ trav[w].lot = Premieres(Candidats(trav[w]))
         /\ trav[w].lot \subseteq Candidats(trav[w])
         /\ Cardinality(trav[w].lot) \in Nat
         /\ \A n \in trav[w].lot : <<trav[w].ici.i, n>> \in Validees
  <1>1. trav[w] \in Taches /\ trav[w].run \in Runs /\ verrou = w
    BY DEF IInv, TypeOK, Formes
  <1>2. Candidats(trav[w]) \subseteq sources[trav[w].ici.i]
    BY DEF Candidats
  <1>3. sources[trav[w].ici.i] \in SUBSET (1..MaxId) /\ trav[w].ici.i \in Segments
    BY <1>1 DEF IInv, TypeOK, Taches, Places
  <1>4. Candidats(trav[w]) \in SUBSET (1..MaxId)
    BY <1>2, <1>3
  <1>5. trav[w].lot = Premieres(Candidats(trav[w]))
    BY DEF IInv, LotJuste
  <1>6. trav[w].lot \subseteq Candidats(trav[w]) /\ Cardinality(trav[w].lot) \in Nat
    BY <1>4, <1>5, Tete
  <1>7. ASSUME NEW n \in trav[w].lot PROVE <<trav[w].ici.i, n>> \in Validees
    BY <1>2, <1>3, <1>6, <1>7 DEF Validees, Lignes
  <1> QED BY <1>1, <1>2, <1>4, <1>5, <1>6, <1>7

\* Where a batch leaves the checkpoint: within the sources.
LEMMA Arrivee ==
  ASSUME IInv, NEW w \in Travailleurs, trav[w].pc = "ecrire"
  PROVE  /\ Suivant(w) \in Places
         /\ ~Fini(w) => Max(trav[w].lot) \in trav[w].lot /\ \A n \in trav[w].lot : n <= Max(trav[w].lot)
  <1> DEFINE t == trav[w]
  <1>1. t \in Taches /\ t.ici \in Places
    BY LotLu DEF Taches
  <1>2. t.lot \in SUBSET (1..MaxId) /\ t.lot \in SUBSET (0..MaxId) /\ Cardinality(t.lot) \in Nat
    BY LotLu
  <1>3. ASSUME ~Fini(w)
        PROVE  Max(t.lot) \in t.lot /\ \A n \in t.lot : n <= Max(t.lot)
    <2>1. Cardinality(t.lot) >= Taille
      BY <1>2, <1>3 DEF Fini
    <2>2. t.lot # {}
      BY <2>1, FS_EmptySet
    <2> QED BY <1>2, <2>2, PlusGrand
  <1>4. CASE Fini(w)
    BY <1>1, <1>4, Avancer DEF Suivant
  <1>5. CASE ~Fini(w)
    <2>1. Max(t.lot) \in 0..MaxId
      BY <1>2, <1>3, <1>5
    <2> QED BY <1>1, <1>3, <1>5, <2>1 DEF Suivant, Places
  <1> QED BY <1>3, <1>4, <1>5

-----------------------------------------------------------------------------
(* IInv is inductive *)

LEMMA Initial == Init => IInv
  <1> SUFFICES ASSUME Init PROVE IInv
    OBVIOUS
  <1> USE DEF Init
  <1>1. Debut \in Places /\ Repos \in Taches
    BY DEF Debut, Repos, Places, Phases, Segments, Taches, Pcs
  <1>2. TypeOK
    BY <1>1 DEF TypeOK, Vivant, Lignes, Repos
  <1>3. Formes
    BY <1>1 DEF Formes, Repos
  <1>4. LotJuste
    BY DEF LotJuste, Repos
  <1>5. Validees = {} /\ Presentes = {}
    BY DEF Validees, Lignes, Presentes
  <1>6. Tirees /\ Absents /\ RienDeRessuscite
    BY <1>5 DEF Tirees, Absents, RienDeRessuscite, Repos
  <1> QED BY <1>2, <1>3, <1>4, <1>6 DEF IInv

\* A line of the application: it opens, commits, undoes or erases, and no batch is being written.
LEMMA IInvApplication ==
  ASSUME IInv,
         \/ \E s \in Segments : EcritureOuverte(s)
         \/ EcritureClose
         \/ \E x \in Lignes : Effacer(x)
  PROVE  IInv'
  <1> USE DEF IInv
  <1>1. UNCHANGED <<etat, bornes, point, written, trav, pannes, attendues, vues, revues, ecrites>>
    BY DEF EcritureOuverte, EcritureClose, Effacer, journal, traces
  <1>2. \A w \in Travailleurs : trav[w].pc # "ecrire" /\ trav[w].lot = {}
    BY DEF EcritureOuverte, EcritureClose, Effacer, TypeOK, LotJuste
  <1>3. /\ sources' \in [Segments -> SUBSET (1..MaxId)] /\ prochain' \in [Segments -> 1..(MaxId + 1)]
        /\ enVol' \subseteq Lignes /\ cible' \subseteq Lignes
        /\ verrou' \in {Libre, "ecrivain"} /\ (enVol' # {} <=> verrou' = "ecrivain")
        /\ Tirees' /\ RienDeRessuscite'
    <2>1. CASE \E s \in Segments : EcritureOuverte(s)
      <3>1. PICK s \in Segments : EcritureOuverte(s)
        BY <2>1
      <3> DEFINE n == prochain[s]
      <3>2. n \in 1..MaxId /\ n + 1 \in 1..(MaxId + 1)
        BY <3>1 DEF EcritureOuverte, TypeOK
      <3>3. /\ enVol' = {<<s, n>>} /\ prochain' = [prochain EXCEPT ![s] = n + 1] /\ UNCHANGED <<sources, cible>>
            /\ enVol = {} /\ verrou' = "ecrivain"
        BY <3>1 DEF EcritureOuverte, TypeOK
      <3>4. <<s, n>> \in Lignes /\ prochain' \in [Segments -> 1..(MaxId + 1)]
        BY <3>2, <3>3 DEF Lignes, TypeOK
      <3>5. Validees' = Validees
        BY <3>3 DEF Validees
      <3>6. Tirees'
        <4> SUFFICES ASSUME NEW x \in Presentes' PROVE x[2] < prochain'[x[1]]
          BY DEF Tirees
        <4>1. CASE x = <<s, n>>
          BY <3>2, <3>3, <4>1 DEF TypeOK
        <4>2. CASE x \in Validees
          <5>1. x[1] \in Segments /\ x[2] \in 1..MaxId /\ x[2] < prochain[x[1]]
            BY <4>2 DEF Validees, Lignes, Tirees, Presentes
          <5> QED BY <3>2, <3>3, <5>1 DEF TypeOK
        <4> QED BY <3>3, <3>5, <4>1, <4>2 DEF Presentes
      <3>7. RienDeRessuscite'
        BY <3>3, <3>5 DEF RienDeRessuscite
      <3> QED BY <3>3, <3>4, <3>6, <3>7 DEF TypeOK
    <2>2. CASE EcritureClose
      <3>1. enVol' = {} /\ verrou' = Libre /\ prochain' = prochain
        BY <2>2 DEF EcritureClose
      <3>2. CASE /\ sources' = [s \in Segments |-> sources[s] \cup {x[2] : x \in {y \in enVol : y[1] = s}}]
                 /\ cible' \in {cible, cible \cup enVol}
        <4>1. \A x \in enVol : x[1] \in Segments /\ x[2] \in 1..MaxId /\ x = <<x[1], x[2]>>
          BY DEF TypeOK, Lignes
        <4>2. sources' \in [Segments -> SUBSET (1..MaxId)]
          <5> SUFFICES ASSUME NEW s \in Segments
                       PROVE  sources[s] \cup {x[2] : x \in {y \in enVol : y[1] = s}} \in SUBSET (1..MaxId)
            BY <3>2
          <5> QED BY <4>1 DEF TypeOK
        <4>3. \A x \in Lignes : x[2] \in sources'[x[1]] <=> x[2] \in sources[x[1]] \/ x \in enVol
          <5> SUFFICES ASSUME NEW x \in Lignes
                       PROVE  x[2] \in sources'[x[1]] <=> x[2] \in sources[x[1]] \/ x \in enVol
            OBVIOUS
          <5>1. x = <<x[1], x[2]>> /\ x[1] \in Segments
            BY DEF Lignes
          <5>2. sources'[x[1]] = sources[x[1]] \cup {z[2] : z \in {y \in enVol : y[1] = x[1]}}
            BY <3>2, <5>1
          <5>3. x[2] \in {z[2] : z \in {y \in enVol : y[1] = x[1]}} <=> x \in enVol
            BY <4>1, <5>1
          <5> QED BY <5>2, <5>3
        <4>4. Validees' = Validees \cup enVol
          BY <4>3 DEF Validees, TypeOK
        <4>5. Presentes' = Presentes
          BY <3>1, <4>4 DEF Presentes
        <4>6. Tirees' /\ RienDeRessuscite' /\ cible' \subseteq Lignes
          BY <3>1, <3>2, <4>4, <4>5 DEF Tirees, RienDeRessuscite, TypeOK
        <4> QED BY <3>1, <4>2, <4>6 DEF TypeOK
      <3>3. CASE UNCHANGED <<sources, cible>>
        <4>1. Validees' = Validees
          BY <3>3 DEF Validees
        <4> QED BY <3>1, <3>3, <4>1 DEF Tirees, Presentes, RienDeRessuscite, TypeOK
      <3> QED BY <2>2, <3>2, <3>3 DEF EcritureClose
    <2>3. CASE \E x \in Lignes : Effacer(x)
      <3>1. PICK x \in Lignes : Effacer(x)
        BY <2>3
      <3>2. /\ x[1] \in Segments /\ x[2] \in 1..MaxId /\ x = <<x[1], x[2]>> /\ verrou = Libre
            /\ UNCHANGED <<verrou, prochain, enVol>> /\ cible' = cible \ {x}
            /\ sources' = [sources EXCEPT ![x[1]] = @ \ {x[2]}]
        BY <3>1 DEF Effacer, Lignes
      <3>3. sources' \in [Segments -> SUBSET (1..MaxId)]
        BY <3>2 DEF TypeOK
      <3>4. Validees' = Validees \ {x}
        <4>1. ASSUME NEW y \in Lignes
              PROVE  y[2] \in sources'[y[1]] <=> y[2] \in sources[y[1]] /\ y # x
          <5>1. y = <<y[1], y[2]>> /\ y[1] \in Segments
            BY DEF Lignes
          <5> QED BY <3>2, <5>1 DEF TypeOK
        <4> QED BY <4>1 DEF Validees
      <3>5. Tirees' /\ RienDeRessuscite'
        BY <3>2, <3>4 DEF Tirees, Presentes, RienDeRessuscite
      <3> QED BY <3>2, <3>3, <3>5 DEF TypeOK
    <2> QED BY <2>1, <2>2, <2>3
  <1>4. verrou' \notin Travailleurs
    BY <1>3
  <1>5. TypeOK'
    BY <1>1, <1>2, <1>3, <1>4 DEF TypeOK
  <1>6. Formes' /\ Absents'
    BY <1>1, <1>3 DEF Formes, Absents
  <1>7. LotJuste'
    BY <1>1, <1>2 DEF LotJuste
  <1> QED BY <1>3, <1>5, <1>6, <1>7

\* Planning and pausing: the journal only.
LEMMA IInvJournal ==
  ASSUME IInv, \/ \E r \in Runs : Inscrire(r) \/ MettreEnPause(r)
               \/ UNCHANGED vars
  PROVE  IInv'
  <1> USE DEF IInv
  <1>1. UNCHANGED <<point, written, verrou, sources, prochain, enVol, cible, trav, pannes, vues, revues, ecrites>>
    BY DEF Inscrire, MettreEnPause, base, vars, journal, traces
  <1>2. Validees' = Validees /\ Presentes' = Presentes /\ Validees \subseteq Lignes /\ enVol \subseteq Lignes
    BY <1>1 DEF Validees, Presentes, TypeOK
  <1>3. /\ etat' \in [Runs -> Vivant \cup {"absent", "completed", "failed"}]
        /\ bornes' \in [Runs -> [Segments -> 0..MaxId]]
        /\ attendues' \in [Runs -> SUBSET Lignes]
        /\ \A r \in Runs : etat'[r] = "absent" => etat[r] = "absent"
        /\ \A r \in Runs : etat[r] # "absent" => bornes'[r] = bornes[r]
    <2>1. CASE \E r \in Runs : Inscrire(r)
      <3>1. PICK r \in Runs : Inscrire(r)
        BY <2>1
      <3>2. \A s \in Segments : Max(sources[s] \cup {0}) \in 0..MaxId
        <4> SUFFICES ASSUME NEW s \in Segments PROVE Max(sources[s] \cup {0}) \in 0..MaxId
          OBVIOUS
        <4>1. sources[s] \in SUBSET (1..MaxId)
          BY DEF TypeOK
        <4>2. sources[s] \cup {0} \in SUBSET (0..MaxId) /\ sources[s] \cup {0} # {}
          BY <4>1
        <4> QED BY <4>2, PlusGrand
      <3>3. /\ etat' = [etat EXCEPT ![r] = "planned"] /\ etat[r] = "absent"
            /\ bornes' = [bornes EXCEPT ![r] = [s \in Segments |-> Max(sources[s] \cup {0})]]
            /\ attendues' = [attendues EXCEPT ![r] = Validees \cup enVol]
        BY <3>1 DEF Inscrire, Devient
      <3>4. etat' \in [Runs -> Vivant \cup {"absent", "completed", "failed"}] /\ bornes' \in [Runs -> [Segments -> 0..MaxId]]
        BY <3>2, <3>3 DEF TypeOK, Vivant
      <3>5. attendues' \in [Runs -> SUBSET Lignes]
        BY <1>2, <3>3 DEF Formes
      <3> QED BY <3>3, <3>4, <3>5 DEF TypeOK
    <2>2. CASE \E r \in Runs : MettreEnPause(r)
      BY <2>2 DEF MettreEnPause, Devient, traces, TypeOK, Formes, Vivant
    <2>3. CASE UNCHANGED vars
      BY <2>3 DEF vars, journal, traces, TypeOK, Formes
    <2> QED BY <2>1, <2>2, <2>3
  <1>4. TypeOK' /\ Formes' /\ Absents'
    BY <1>1, <1>3 DEF TypeOK, Formes, Absents
  <1>5. ASSUME NEW w \in Travailleurs, trav[w].pc = "ecrire"
        PROVE  Candidats(trav[w])' = Candidats(trav[w])
    <2>1. trav[w].run \in Runs /\ etat[trav[w].run] # "absent"
      BY <1>5 DEF Formes, Absents
    <2> QED BY <1>1, <1>3, <2>1 DEF Candidats
  <1>6. LotJuste'
    BY <1>1, <1>5 DEF LotJuste, Premieres
  <1> QED BY <1>1, <1>2, <1>4, <1>6 DEF Tirees, RienDeRessuscite

\* A step of a worker other than the commit: its task, the lock it takes or returns.
LEMMA IInvTache ==
  ASSUME IInv, NEW w \in Travailleurs, NEW t \in Taches,
         trav' = [trav EXCEPT ![w] = t],
         UNCHANGED <<bornes, point, written, sources, prochain, enVol, cible, traces>>,
         pannes' \in 0..MaxPannes,
         etat' \in [Runs -> Vivant \cup {"absent", "completed", "failed"}],
         \A r \in Runs : etat'[r] = "absent" => etat[r] = "absent",
         t.pc # "repos" => t.run \in Runs /\ etat[t.run] # "absent",
         verrou' = IF t.pc = "ecrire" THEN w ELSE Rendu(w),
         t.pc = "ecrire" => verrou = Libre,
         t.lot = IF t.pc = "ecrire" THEN Premieres(Candidats(t)) ELSE {}
  PROVE  IInv'
  <1> USE DEF IInv
  <1>1. trav \in [Travailleurs -> Taches] /\ trav'[w] = t /\ \A v \in Travailleurs \ {w} : trav'[v] = trav[v]
    BY DEF Formes
  <1>2. verrou \in Travailleurs \cup {Libre, "ecrivain"} /\ verrou' \in Travailleurs \cup {Libre, "ecrivain"}
    BY DEF Formes, Rendu
  <1>3. (verrou' = "ecrivain" <=> verrou = "ecrivain") /\ \A v \in Travailleurs \ {w} : verrou' = v <=> verrou = v
    BY <1>2 DEF Rendu
  <1>4. t.pc = "ecrire" <=> verrou' = w
    BY DEF Rendu
  <1>5. t.lot \subseteq sources[t.ici.i]
    BY DEF Premieres, Candidats
  <1>6. TypeOK'
    <2>1. \A v \in Travailleurs : /\ trav'[v].pc \in Pcs /\ trav'[v].run \in Runs \cup {Libre} /\ trav'[v].ici \in Places
                                  /\ trav'[v].lot \subseteq sources[trav'[v].ici.i]
                                  /\ trav'[v].pc = "ecrire" <=> verrou' = v
      BY <1>1, <1>3, <1>4, <1>5 DEF TypeOK, Taches
    <2> QED BY <1>3, <2>1 DEF TypeOK, Pcs
  <1>7. Formes'
    <2>1. trav' \in [Travailleurs -> Taches]
      BY <1>1
    <2> QED BY <1>1, <1>2, <2>1 DEF Formes, traces
  <1>8. LotJuste'
    <2> SUFFICES ASSUME NEW v \in Travailleurs
                 PROVE  trav'[v].lot = IF trav'[v].pc = "ecrire" THEN Premieres(Candidats(trav'[v])) ELSE {}
      <3>1. \A v \in Travailleurs : Premieres(Candidats(trav[v]))' = Premieres(Candidats(trav'[v]))
        BY DEF Premieres, Candidats
      <3> QED BY <3>1 DEF LotJuste
    <2> QED BY <1>1 DEF LotJuste
  <1>9. Absents'
    BY <1>1 DEF Absents
  <1>10. Validees' = Validees /\ Presentes' = Presentes
    BY DEF Validees, Presentes
  <1> QED BY <1>6, <1>7, <1>8, <1>9, <1>10 DEF Tirees, RienDeRessuscite

\* The commit of a batch.
LEMMA IInvValider ==
  ASSUME IInv, NEW w \in Travailleurs, Valider(w)
  PROVE  IInv'
  <1> USE DEF IInv
  <1> DEFINE t == trav[w]
             lignes == {<<t.ici.i, n>> : n \in t.lot}
             u == [pc |-> IF Termine(w) THEN "terminer" ELSE "boucle", run |-> t.run, ici |-> Suivant(w), lot |-> {}]
  <1>1. t.pc = "ecrire" /\ t \in Taches /\ t.run \in Runs /\ verrou = w
    BY LotLu DEF Valider
  <1>2. lignes \subseteq Validees /\ Suivant(w) \in Places
    BY <1>1, LotLu, Arrivee
  <1>3. /\ cible' = cible \cup lignes /\ point' = [point EXCEPT ![t.run] = Suivant(w)]
        /\ verrou' = Libre /\ trav' = [trav EXCEPT ![w] = u]
        /\ written' = [written EXCEPT ![t.run] = @ + Cardinality(lignes \ cible)]
        /\ vues' = [vues EXCEPT ![t.run] = @ \cup ({t.ici.phase} \X lignes)]
        /\ revues' = [revues EXCEPT ![t.run] = @ \cup (vues[t.run] \cap ({t.ici.phase} \X lignes))]
        /\ ecrites' = [ecrites EXCEPT ![t.run] = @ \cup (lignes \ cible)]
        /\ UNCHANGED <<etat, bornes, sources, prochain, enVol, pannes, attendues>>
    BY DEF Valider, PointDeReprise
  <1>4. IsFiniteSet(lignes) /\ Cardinality(lignes \ cible) \in Nat
    <2>1. lignes \in SUBSET Lignes /\ lignes \ cible \in SUBSET Lignes
      BY <1>2 DEF Validees
    <2> QED BY <2>1, LignesFinies
  <1>5. u \in Taches /\ u.pc # "ecrire"
    BY <1>1, <1>2 DEF Taches, Pcs
  <1>6. t.ici.phase \in Phases /\ lignes \subseteq Lignes /\ Validees \subseteq Lignes
    BY <1>1, <1>2 DEF Taches, Places, Validees
  <1>7. enVol = {} /\ \A v \in Travailleurs \ {w} : trav'[v] = trav[v] /\ trav[v].pc # "ecrire"
    BY <1>1, <1>3 DEF TypeOK, Formes
  <1> HIDE DEF lignes, u
  <1>8. trav' \in [Travailleurs -> Taches] /\ trav'[w] = u
    BY <1>3, <1>5 DEF Formes
  <1>9. Validees' = Validees /\ Presentes' = Presentes
    BY <1>3 DEF Validees, Presentes
  <1>10. TypeOK'
    <2>1. written' \in [Runs -> Nat] /\ point' \in [Runs -> Places] /\ cible' \subseteq Lignes
      BY <1>1, <1>2, <1>3, <1>4, <1>6 DEF TypeOK
    <2>2. \A v \in Travailleurs : /\ trav'[v].pc \in Pcs /\ trav'[v].run \in Runs \cup {Libre} /\ trav'[v].ici \in Places
                                  /\ trav'[v].lot \subseteq sources'[trav'[v].ici.i]
                                  /\ trav'[v].pc = "ecrire" <=> verrou' = v
      <3>1. u.lot = {}
        BY DEF u
      <3> QED BY <1>3, <1>5, <1>7, <1>8, <3>1 DEF TypeOK, Taches
    <2>3. enVol' # {} <=> verrou' = "ecrivain"
      BY <1>3, <1>7
    <2> QED BY <1>3, <2>1, <2>2, <2>3 DEF TypeOK, Pcs
  <1>11. Formes'
    <2>1. {t.ici.phase} \X lignes \in SUBSET (Phases \X Lignes)
      BY <1>6
    <2>2. vues' \in [Runs -> SUBSET (Phases \X Lignes)] /\ revues' \in [Runs -> SUBSET (Phases \X Lignes)]
      BY <1>1, <1>3, <2>1 DEF Formes
    <2>3. ecrites' \in [Runs -> SUBSET Lignes]
      BY <1>1, <1>3, <1>6 DEF Formes
    <2>4. \A v \in Travailleurs : trav'[v].pc # "repos" => trav'[v].run \in Runs
      BY <1>1, <1>7, <1>8 DEF Formes, u
    <2> QED BY <1>3, <1>8, <2>2, <2>3, <2>4 DEF Formes
  <1>12. LotJuste'
    <2>1. \A v \in Travailleurs : trav'[v].pc # "ecrire" /\ trav'[v].lot = {}
      BY <1>5, <1>7, <1>8 DEF LotJuste, u
    <2> QED BY <2>1 DEF LotJuste
  <1>13. Absents'
    BY <1>1, <1>3, <1>7, <1>8 DEF Absents, u
  <1> QED BY <1>2, <1>3, <1>9, <1>10, <1>11, <1>12, <1>13 DEF Tirees, RienDeRessuscite

LEMMA IInvExecuter ==
  ASSUME IInv, NEW w \in Travailleurs, Executer(w)
  PROVE  IInv'
  <1> USE DEF IInv
  <1> DEFINE t == trav[w]
  <1>1. t \in Taches /\ Repos \in Taches /\ pannes \in 0..MaxPannes
    BY DEF TypeOK, Formes, Repos, Debut, Places, Phases, Segments, Taches, Pcs
  <1>2. etat \in [Runs -> Vivant \cup {"absent", "completed", "failed"}]
    BY DEF TypeOK
  <1>3. t.pc # "repos" => t.run \in Runs /\ etat[t.run] # "absent"
    BY DEF Formes, Absents
  <1>4. t.pc # "ecrire" => verrou # w /\ Rendu(w) = verrou /\ t.lot = {}
    BY DEF TypeOK, LotJuste, Rendu
  <1>5. Repos.pc = "repos" /\ Repos.lot = {}
    BY DEF Repos
  <1>6. ASSUME NEW r \in Runs, Charger(w, r) PROVE IInv'
    <2> DEFINE u == [pc |-> "demarrer", run |-> r, ici |-> point[r], lot |-> {}]
    <2>1. u \in Taches /\ u.pc = "demarrer" /\ u.run = r /\ u.lot = {}
      BY DEF TypeOK, Taches, Pcs
    <2>2. /\ trav' = [trav EXCEPT ![w] = u] /\ t.pc = "repos" /\ etat[r] # "absent"
          /\ UNCHANGED <<journal, base, pannes, traces>>
      BY <1>6 DEF Charger
    <2> HIDE DEF u
    <2> QED BY <1>1, <1>2, <1>4, <2>1, <2>2, IInvTache DEF journal, base
  <1>7. ASSUME Demarrer(w) PROVE IInv'
    <2>1. t.pc = "demarrer" /\ UNCHANGED <<bornes, point, written, base, pannes, traces>>
      BY <1>7 DEF Demarrer
    <2>2. CASE Admis(t.run, "running")
      <3> DEFINE u == [t EXCEPT !.pc = "boucle"]
      <3>1. trav' = [trav EXCEPT ![w] = u] /\ etat' = [etat EXCEPT ![t.run] = "running"]
        BY <1>7, <2>2 DEF Demarrer, Etape, Devient, Formes
      <3>2. u \in Taches /\ u.pc = "boucle" /\ u.run = t.run /\ u.lot = t.lot
        BY <1>1 DEF Taches, Pcs
      <3>3. etat' \in [Runs -> Vivant \cup {"absent", "completed", "failed"}] /\ \A r \in Runs : etat'[r] = "absent" => etat[r] = "absent"
        BY <1>2, <1>3, <2>1, <3>1 DEF Vivant
      <3> HIDE DEF u
      <3> QED BY <1>1, <1>3, <1>4, <2>1, <3>1, <3>2, <3>3, IInvTache DEF base
    <2>3. CASE ~Admis(t.run, "running")
      <3>1. trav' = [trav EXCEPT ![w] = Repos] /\ UNCHANGED etat
        BY <1>7, <2>3 DEF Demarrer
      <3> QED BY <1>1, <1>2, <1>4, <1>5, <2>1, <3>1, IInvTache DEF base
    <2> QED BY <2>2, <2>3
  <1>8. ASSUME Boucle(w) PROVE IInv'
    <2>1. t.pc = "boucle" /\ UNCHANGED <<journal, base, pannes, traces>>
      BY <1>8 DEF Boucle
    <2>2. PICK pc \in {"pauser", "lot"} : trav' = [trav EXCEPT ![w] = [t EXCEPT !.pc = pc]]
      BY <1>8 DEF Boucle, Etape, Formes
    <2> DEFINE u == [t EXCEPT !.pc = pc]
    <2>3. u \in Taches /\ u.pc = pc /\ u.run = t.run /\ u.lot = t.lot
      BY <1>1 DEF Taches, Pcs
    <2> HIDE DEF u
    <2> QED BY <1>1, <1>2, <1>3, <1>4, <2>1, <2>2, <2>3, IInvTache DEF base, journal, u
  <1>9. ASSUME Relire(w) PROVE IInv'
    <2> DEFINE u == [t EXCEPT !.pc = "ecrire", !.lot = Premieres(Candidats(t))]
    <2>1. /\ t.pc = "lot" /\ verrou = Libre /\ verrou' = w /\ trav' = [trav EXCEPT ![w] = u]
          /\ UNCHANGED <<journal, sources, prochain, enVol, cible, pannes, traces>>
      BY <1>9 DEF Relire, Premieres, Candidats, Formes
    <2>2. Premieres(Candidats(t)) \in SUBSET (1..MaxId)
      <3>1. t.ici.i \in Segments
        BY <1>1 DEF Taches, Places
      <3>2. sources[t.ici.i] \in SUBSET (1..MaxId)
        BY <3>1 DEF TypeOK
      <3> QED BY <3>2 DEF Premieres, Candidats
    <2>3. u \in Taches /\ u.pc = "ecrire" /\ u.run = t.run /\ u.ici = t.ici /\ u.lot = Premieres(Candidats(t))
      BY <1>1, <2>2 DEF Taches, Pcs
    <2> HIDE DEF u
    <2>4. Candidats(u) = Candidats(t)
      BY <2>3 DEF Candidats
    <2> QED BY <1>1, <1>2, <1>3, <2>1, <2>3, <2>4, IInvTache DEF journal
  <1>10. ASSUME Clore(w) PROVE IInv'
    <2>1. PICK e \in {"completed", "paused"} : etat' = [etat EXCEPT ![t.run] = e]
      BY <1>10 DEF Clore, Devient
    <2>2. /\ trav' = [trav EXCEPT ![w] = Repos] /\ t.pc \in {"terminer", "pauser"}
          /\ UNCHANGED <<bornes, point, written, base, pannes, traces>>
      BY <1>10 DEF Clore
    <2>3. etat' \in [Runs -> Vivant \cup {"absent", "completed", "failed"}] /\ \A r \in Runs : etat'[r] = "absent" => etat[r] = "absent"
      BY <1>2, <1>3, <2>1, <2>2 DEF Vivant
    <2> QED BY <1>1, <1>4, <1>5, <2>2, <2>3, IInvTache DEF base
  <1>11. ASSUME Echouer(w) \/ Mourir(w) PROVE IInv'
    <2>1. /\ trav' = [trav EXCEPT ![w] = Repos] /\ verrou' = Rendu(w) /\ pannes < MaxPannes /\ pannes' = pannes + 1
          /\ t.pc # "repos" /\ etat' \in {etat, [etat EXCEPT ![t.run] = "failed"]}
          /\ UNCHANGED <<bornes, point, written, sources, prochain, enVol, cible, traces>>
      BY <1>11 DEF Echouer, Mourir, journal
    <2>2. etat' \in [Runs -> Vivant \cup {"absent", "completed", "failed"}] /\ \A r \in Runs : etat'[r] = "absent" => etat[r] = "absent"
      BY <1>2, <1>3, <2>1
    <2>3. pannes' \in 0..MaxPannes
      BY <1>1, <2>1
    <2> QED BY <1>1, <1>5, <2>1, <2>2, <2>3, IInvTache
  <1> QED BY <1>6, <1>7, <1>8, <1>9, <1>10, <1>11, IInvValider DEF Executer

LEMMA Inductif == IInv /\ [Next]_vars => IInv'
  BY IInvApplication, IInvJournal, IInvExecuter DEF Next

THEOREM Fondement == Spec => []IInv
  BY Initial, Inductif, PTL DEF Spec

\* Types, the lock held by whoever has a transaction open, and batches made of rows of their source,
\* whatever dies, fails or is paused.
THEOREM TypeCorrect == Spec => []TypeOK
  BY Fondement, PTL DEF IInv

\* A batch never brings back the projection of a row that an erasure has taken: it is read and written
\* under the lock erasures take.
THEOREM NothingRevived == Spec => []RienDeRessuscite
  BY Fondement, PTL DEF IInv

-----------------------------------------------------------------------------
(* No hole: a place stands for the rows it has passed. *)

\* Rows that a place of the second phase has passed: those before it, in the order of the sources.
Passee(p, x) == p.phase = "reconciliation" /\ (x[1] < p.i \/ (x[1] = p.i /\ x[2] <= p.curseur))

\* What was expected and is still there has been projected: up to a place, or altogether.
Acquis(r, p) == \A x \in attendues[r] \cap Presentes : Passee(p, x) => x \in cible
ToutAcquis(r) == attendues[r] \cap Presentes \subseteq cible

Complets ==
  /\ \A r \in Runs : Acquis(r, point[r])
  /\ \A w \in Travailleurs : trav[w].pc # "repos" => Acquis(trav[w].run, trav[w].ici)
  /\ \A w \in Travailleurs : trav[w].pc = "terminer" => ToutAcquis(trav[w].run)
  /\ \A r \in Runs : etat[r] = "completed" => ToutAcquis(r)

\* A run that is not planned has passed nothing.
Neufs == \A r \in Runs : etat[r] = "absent" => point[r].phase = "fenetre"

\* The journal counts what the run wrote; what it wrote and is still there is projected.
Comptes == \A r \in Runs : written[r] = Cardinality(ecrites[r]) /\ ecrites[r] \cap Presentes \subseteq cible

\* Rows expected or written have drawn their id.
Tires == \A r \in Runs : \A x \in attendues[r] \cup ecrites[r] : x[2] < prochain[x[1]]

JInv == IInv /\ Tires /\ Neufs /\ Complets /\ Comptes

\* Ids are not drawn twice, rolled-back rows do not come back, and only an erasure takes a projection.
LEMMA Durable ==
  ASSUME IInv, [Next]_vars
  PROVE  /\ \A s \in Segments : prochain[s] <= prochain'[s]
         /\ \A x \in Lignes : x[2] < prochain[x[1]] /\ x \in Presentes' => x \in Presentes /\ (x \in cible => x \in cible')
  <1> USE DEF IInv
  <1>1. prochain \in [Segments -> 1..(MaxId + 1)] /\ enVol \subseteq Lignes /\ sources \in [Segments -> SUBSET (1..MaxId)]
    BY DEF TypeOK
  <1>2. CASE \E s \in Segments : EcritureOuverte(s)
    <2>1. PICK s \in Segments : EcritureOuverte(s)
      BY <1>2
    <2>2. /\ enVol' = {<<s, prochain[s]>>} /\ prochain' = [prochain EXCEPT ![s] = @ + 1] /\ UNCHANGED <<sources, cible>>
      BY <2>1 DEF EcritureOuverte
    <2>3. Validees' = Validees
      BY <2>2 DEF Validees
    <2>4. \A z \in Segments : prochain[z] <= prochain'[z]
      BY <1>1, <2>2
    <2>5. ASSUME NEW x \in Lignes, x[2] < prochain[x[1]], x \in Presentes'
          PROVE  x \in Presentes
      <3>1. x # <<s, prochain[s]>>
        BY <1>1, <2>5
      <3> QED BY <2>2, <2>3, <2>5, <3>1 DEF Presentes
    <2> QED BY <2>2, <2>4, <2>5
  <1>3. CASE EcritureClose
    <2>1. prochain' = prochain /\ enVol' = {} /\ cible \subseteq cible'
      BY <1>3 DEF EcritureClose
    <2>2. ASSUME NEW x \in Lignes, x \in Validees' PROVE x \in Presentes
      <3>1. x[1] \in Segments /\ x = <<x[1], x[2]>> /\ x[2] \in sources'[x[1]]
        BY <2>2 DEF Validees, Lignes
      <3>2. CASE sources' = [s \in Segments |-> sources[s] \cup {y[2] : y \in {z \in enVol : z[1] = s}}]
        <4>1. x[2] \in sources[x[1]] \/ x[2] \in {y[2] : y \in {z \in enVol : z[1] = x[1]}}
          BY <3>1, <3>2
        <4>2. \A y \in enVol : y = <<y[1], y[2]>>
          BY <1>1 DEF Lignes
        <4> QED BY <3>1, <4>1, <4>2 DEF Presentes, Validees
      <3>3. CASE sources' = sources
        BY <3>1, <3>3 DEF Presentes, Validees
      <3> QED BY <1>3, <3>2, <3>3 DEF EcritureClose
    <2> QED BY <1>1, <2>1, <2>2 DEF Presentes
  <1>4. CASE \E x \in Lignes : Effacer(x)
    <2>1. PICK x \in Lignes : Effacer(x)
      BY <1>4
    <2>2. /\ prochain' = prochain /\ enVol' = enVol /\ cible' = cible \ {x}
          /\ sources' = [sources EXCEPT ![x[1]] = @ \ {x[2]}] /\ x \in Validees /\ verrou = Libre
      BY <2>1 DEF Effacer
    <2>3. enVol = {}
      BY <2>2 DEF TypeOK
    <2>4. ASSUME NEW y \in Lignes, y \in Validees' PROVE y \in Validees /\ y # x
      <3>1. y = <<y[1], y[2]>> /\ y[1] \in Segments /\ x = <<x[1], x[2]>> /\ x[1] \in Segments /\ y[2] \in sources'[y[1]]
        BY <2>4 DEF Validees, Lignes
      <3> QED BY <1>1, <2>2, <3>1 DEF Validees
    <2> QED BY <1>1, <2>2, <2>3, <2>4 DEF Presentes
  <1>5. ASSUME UNCHANGED <<sources, prochain, enVol>>, cible \subseteq cible'
        PROVE  /\ \A s \in Segments : prochain[s] <= prochain'[s]
               /\ \A x \in Lignes : x \in Presentes' => x \in Presentes /\ (x \in cible => x \in cible')
    BY <1>1, <1>5 DEF Presentes, Validees
  <1>6. CASE \E r \in Runs : Inscrire(r) \/ MettreEnPause(r)
    BY <1>5, <1>6 DEF Inscrire, MettreEnPause, base
  <1>7. ASSUME NEW w \in Travailleurs, Executer(w)
        PROVE  UNCHANGED <<sources, prochain, enVol>> /\ cible \subseteq cible'
    BY <1>7 DEF Executer, Charger, Demarrer, Boucle, Relire, Valider, Clore, Echouer, Mourir, base
  <1>8. CASE UNCHANGED vars
    BY <1>5, <1>8 DEF vars, base
  <1> QED BY <1>2, <1>3, <1>4, <1>5, <1>6, <1>7, <1>8 DEF Next

\* What the place after a batch has passed was passed before it, or is in the batch; at the end nothing is left.
LEMMA Passage ==
  ASSUME IInv, NEW w \in Travailleurs, trav[w].pc = "ecrire", NEW x \in Validees,
         Passee(Suivant(w), x) \/ Termine(w)
  PROVE  Passee(trav[w].ici, x) \/ (x[1] = trav[w].ici.i /\ x[2] \in trav[w].lot)
  <1> DEFINE t == trav[w]
             p == t.ici
             q == Suivant(w)
  <1>1. /\ p = [phase |-> p.phase, i |-> p.i, curseur |-> p.curseur] /\ p.phase \in Phases /\ p.i \in 1..NbSegments
        /\ p.curseur \in 0..MaxId /\ t.run \in Runs
    BY LotLu DEF Taches, Places, Segments
  <1>2. x[1] \in 1..NbSegments /\ x[2] \in 1..MaxId /\ x[2] \in sources[x[1]]
    BY DEF Validees, Lignes, Segments
  <1>3. p.phase = "reconciliation"
    <2> SUFFICES ASSUME p.phase = "fenetre" PROVE FALSE
      BY <1>1 DEF Phases
    <2>1. CASE ~Fini(w)
      BY <1>1, <2>1 DEF Suivant, Termine, Passee
    <2>2. CASE Fini(w) /\ p.i < NbSegments
      BY <1>1, <2>2 DEF Suivant, Termine, Passee, avancer
    <2>3. CASE Fini(w) /\ ~(p.i < NbSegments)
      <3>1. avancer(p) = [phase |-> "reconciliation", i |-> 1, curseur |-> 0]
        BY <2>3 DEF avancer
      <3> QED BY <1>1, <1>2, <2>3, <3>1 DEF Suivant, Termine, Passee
    <2> QED BY <2>1, <2>2, <2>3
  <1>4. CASE x[1] = p.i /\ x[2] > p.curseur
    <2> DEFINE c == Candidats(t)
    <2>1. x[2] \in c
      BY <1>2, <1>3, <1>4 DEF Candidats
    <2>2. c \in SUBSET (1..MaxId) /\ t.lot = Premieres(c)
      BY LotLu
    <2> HIDE DEF c
    <2>3. CASE Fini(w)
      <3>1. Premieres(c) = c
        BY <2>2, <2>3, Tete DEF Fini
      <3> QED BY <1>4, <2>1, <2>2, <3>1
    <2>4. CASE ~Fini(w)
      <3>1. q = [p EXCEPT !.curseur = Max(t.lot)] /\ Max(t.lot) \in t.lot
        BY <2>4, Arrivee DEF Suivant
      <3>2. x[2] <= Max(t.lot)
        BY <1>1, <1>4, <2>4, <3>1 DEF Passee, Termine
      <3> QED BY <1>4, <2>1, <2>2, <3>1, <3>2, Tete
    <2> QED BY <2>3, <2>4
  <1>5. CASE ~(x[1] = p.i /\ x[2] > p.curseur)
    <2>1. x[1] <= p.i
      <3>1. CASE ~Fini(w)
        BY <1>1, <1>2, <3>1 DEF Suivant, Termine, Passee
      <3>2. CASE Fini(w) /\ p.i < NbSegments
        <4>1. avancer(p) = [p EXCEPT !.i = @ + 1, !.curseur = 0]
          BY <3>2 DEF avancer
        <4> QED BY <1>1, <1>2, <3>2, <4>1 DEF Suivant, Termine, Passee
      <3>3. CASE Fini(w) /\ ~(p.i < NbSegments)
        BY <1>1, <1>2, <3>3
      <3> QED BY <3>1, <3>2, <3>3
    <2> QED BY <1>1, <1>2, <1>3, <1>5, <2>1 DEF Passee
  <1> QED BY <1>4, <1>5

LEMMA Garde ==
  ASSUME JInv, [Next]_vars
  PROVE  /\ \A r \in Runs : attendues'[r] = attendues[r] =>
              /\ \A p : Acquis(r, p) => \A x \in attendues'[r] \cap Presentes' : Passee(p, x) => x \in cible'
              /\ ToutAcquis(r) => attendues'[r] \cap Presentes' \subseteq cible'
         /\ \A r \in Runs : ecrites[r] \cap Presentes' \subseteq cible'
         /\ \A r \in Runs : \A x \in attendues[r] \cup ecrites[r] : x[2] < prochain'[x[1]]
  <1>1. /\ attendues \in [Runs -> SUBSET Lignes] /\ ecrites \in [Runs -> SUBSET Lignes] /\ Tires /\ Comptes
        /\ prochain \in [Segments -> 1..(MaxId + 1)] /\ prochain' \in [Segments -> 1..(MaxId + 1)]
    BY Inductif DEF JInv, IInv, Formes, TypeOK
  <1>2. /\ \A s \in Segments : prochain[s] <= prochain'[s]
        /\ \A x \in Lignes : x[2] < prochain[x[1]] /\ x \in Presentes' => x \in Presentes /\ (x \in cible => x \in cible')
    BY Durable DEF JInv
  <1>3. \A x \in Lignes : x[1] \in Segments /\ x[2] \in Nat
    BY DEF Lignes
  <1>4. \A r \in Runs : \A x \in attendues[r] \cup ecrites[r] : x[2] < prochain'[x[1]]
    <2> SUFFICES ASSUME NEW r \in Runs, NEW x \in attendues[r] \cup ecrites[r] PROVE x[2] < prochain'[x[1]]
      OBVIOUS
    <2>1. x \in Lignes /\ x[2] < prochain[x[1]]
      BY <1>1 DEF Tires
    <2>2. prochain[x[1]] \in Nat /\ prochain'[x[1]] \in Nat /\ prochain[x[1]] <= prochain'[x[1]]
      BY <1>1, <1>2, <1>3, <2>1
    <2> QED BY <1>3, <2>1, <2>2
  <1>5. \A r \in Runs : ecrites[r] \cap Presentes' \subseteq cible'
    BY <1>1, <1>2 DEF Tires, Comptes
  <1>6. ASSUME NEW r \in Runs, attendues'[r] = attendues[r]
        PROVE  /\ \A p : Acquis(r, p) => \A x \in attendues'[r] \cap Presentes' : Passee(p, x) => x \in cible'
               /\ ToutAcquis(r) => attendues'[r] \cap Presentes' \subseteq cible'
    <2>1. \A x \in attendues'[r] \cap Presentes' : x \in attendues[r] \cap Presentes /\ (x \in cible => x \in cible')
      BY <1>1, <1>2, <1>6 DEF Tires
    <2> QED BY <2>1 DEF Acquis, ToutAcquis
  <1> QED BY <1>4, <1>5, <1>6

LEMMA JInitial == Init => JInv
  <1> SUFFICES ASSUME Init PROVE JInv
    OBVIOUS
  <1>1. Tires /\ Neufs
    BY DEF Init, Tires, Neufs, Debut
  <1>2. Complets
    BY DEF Init, Complets, Acquis, ToutAcquis, Repos
  <1>3. Comptes
    BY FS_EmptySet DEF Init, Comptes
  <1> QED BY Initial, <1>1, <1>2, <1>3 DEF JInv

\* Steps that plan no run and commit no batch: a task goes on, ends, or begins at the checkpoint.
LEMMA JAilleurs ==
  ASSUME JInv, [Next]_vars, UNCHANGED <<point, written, attendues, ecrites>>,
         \A w \in Travailleurs : \/ trav'[w].pc = "repos"
                                 \/ /\ trav'[w].run \in Runs /\ trav'[w].ici = point[trav'[w].run]
                                    /\ trav'[w].pc # "terminer"
                                 \/ /\ trav'[w].run = trav[w].run /\ trav'[w].ici = trav[w].ici /\ trav[w].pc # "repos"
                                    /\ trav'[w].pc = "terminer" => trav[w].pc = "terminer",
         \A r \in Runs : /\ etat'[r] = "absent" => etat[r] = "absent"
                         /\ etat'[r] = "completed" => etat[r] = "completed" \/ \E w \in Travailleurs : trav[w].pc = "terminer" /\ trav[w].run = r
  PROVE  JInv'
  <1>1. IInv' /\ Comptes /\ Complets /\ Neufs
    BY Inductif DEF JInv
  <1>2. \A w \in Travailleurs : trav[w].pc # "repos" => trav[w].run \in Runs
    BY DEF JInv, IInv, Formes
  <1>3. Tires' /\ Comptes'
    BY <1>1, Garde DEF Tires, Comptes
  <1>4. Neufs'
    BY <1>1 DEF Neufs
  <1>5. \A r \in Runs : Acquis(r, point[r])'
    BY <1>1, Garde DEF Complets, Acquis
  <1>6. ASSUME NEW w \in Travailleurs, trav'[w].pc # "repos"
        PROVE  Acquis(trav[w].run, trav[w].ici)' /\ (trav'[w].pc = "terminer" => ToutAcquis(trav[w].run)')
    <2>1. CASE /\ trav'[w].run \in Runs /\ trav'[w].ici = point[trav'[w].run] /\ trav'[w].pc # "terminer"
      BY <1>5, <2>1 DEF Acquis
    <2>2. CASE /\ trav'[w].run = trav[w].run /\ trav'[w].ici = trav[w].ici /\ trav[w].pc # "repos"
               /\ trav'[w].pc = "terminer" => trav[w].pc = "terminer"
      <3>1. trav[w].run \in Runs /\ Acquis(trav[w].run, trav[w].ici) /\ (trav'[w].pc = "terminer" => ToutAcquis(trav[w].run))
        BY <1>1, <1>2, <2>2 DEF Complets
      <3> QED BY <2>2, <3>1, Garde DEF Acquis, ToutAcquis
    <2> QED BY <1>6, <2>1, <2>2
  <1>7. ASSUME NEW r \in Runs, etat'[r] = "completed" PROVE ToutAcquis(r)'
    <2>1. ToutAcquis(r)
      BY <1>1, <1>7 DEF Complets
    <2> QED BY <2>1, Garde DEF ToutAcquis
  <1>8. Complets'
    BY <1>5, <1>6, <1>7 DEF Complets
  <1> QED BY <1>1, <1>3, <1>4, <1>8 DEF JInv

LEMMA JInscrire ==
  ASSUME JInv, [Next]_vars, NEW r \in Runs, Inscrire(r)
  PROVE  JInv'
  <1>1. IInv' /\ Comptes /\ Complets /\ Neufs /\ Absents /\ Tirees
    BY Inductif DEF JInv, IInv
  <1>2. /\ etat \in [Runs -> Vivant \cup {"absent", "completed", "failed"}] /\ attendues \in [Runs -> SUBSET Lignes]
        /\ \A w \in Travailleurs : trav[w].pc # "repos" => trav[w].run \in Runs
    BY DEF JInv, IInv, TypeOK, Formes
  <1>3. /\ etat[r] = "absent" /\ etat' = [etat EXCEPT ![r] = "planned"] /\ attendues' = [attendues EXCEPT ![r] = Presentes]
        /\ UNCHANGED <<point, written, verrou, sources, prochain, enVol, cible, trav, pannes, vues, revues, ecrites>>
    BY DEF Inscrire, Devient, base, Presentes
  <1>4. Presentes' = Presentes
    BY <1>3 DEF Presentes, Validees
  <1>5. attendues'[r] = Presentes /\ \A q \in Runs \ {r} : attendues'[q] = attendues[q]
    BY <1>2, <1>3
  <1>6. Tires'
    BY <1>1, <1>3, <1>5 DEF JInv, Tires, Tirees
  <1>7. Neufs' /\ Comptes'
    BY <1>1, <1>2, <1>3, <1>4 DEF Neufs, Comptes
  <1>8. \A q \in Runs \ {r} : ToutAcquis(q)' <=> ToutAcquis(q)
    BY <1>3, <1>4, <1>5 DEF ToutAcquis
  <1>9. \A q \in Runs : Acquis(q, point[q])'
    <2>1. \A x : ~Passee(point[r], x)
      BY <1>1, <1>3 DEF Neufs, Passee
    <2> QED BY <1>1, <1>3, <1>4, <1>5, <2>1 DEF Complets, Acquis
  <1>10. ASSUME NEW w \in Travailleurs, trav'[w].pc # "repos"
         PROVE  Acquis(trav[w].run, trav[w].ici)' /\ (trav'[w].pc = "terminer" => ToutAcquis(trav[w].run)')
    <2>1. trav'[w] = trav[w] /\ trav[w].run \in Runs \ {r}
      BY <1>1, <1>2, <1>3, <1>10 DEF Absents
    <2>2. Acquis(trav[w].run, trav[w].ici) /\ (trav[w].pc = "terminer" => ToutAcquis(trav[w].run))
      BY <1>1, <1>10, <2>1 DEF Complets
    <2> QED BY <1>3, <1>4, <1>5, <2>1, <2>2 DEF Acquis, ToutAcquis
  <1>11. \A q \in Runs : etat'[q] = "completed" => ToutAcquis(q)'
    <2>1. \A q \in Runs : etat'[q] = "completed" => q # r /\ etat[q] = "completed"
      BY <1>2, <1>3
    <2> QED BY <1>1, <1>8, <2>1 DEF Complets
  <1>12. Complets'
    BY <1>9, <1>10, <1>11 DEF Complets
  <1> QED BY <1>1, <1>6, <1>7, <1>12 DEF JInv

\* The commit: the rows passed are projected, those written were not.
LEMMA JValider ==
  ASSUME JInv, [Next]_vars, NEW w \in Travailleurs, Valider(w)
  PROVE  JInv'
  <1> DEFINE t == trav[w]
             r == t.run
             lignes == {<<t.ici.i, n>> : n \in t.lot}
             neuves == lignes \ cible
             u == [pc |-> IF Termine(w) THEN "terminer" ELSE "boucle", run |-> r, ici |-> Suivant(w), lot |-> {}]
  <1>1. IInv /\ IInv' /\ Comptes /\ Complets /\ Neufs /\ Absents /\ Tirees
    BY Inductif DEF JInv, IInv
  <1>2. t.pc = "ecrire" /\ r \in Runs /\ lignes \subseteq Validees /\ Validees \subseteq Lignes /\ enVol = {}
    BY <1>1, LotLu DEF Valider, IInv, TypeOK, Validees
  <1>3. /\ cible' = cible \cup lignes /\ point' = [point EXCEPT ![r] = Suivant(w)]
        /\ trav' = [trav EXCEPT ![w] = u]
        /\ written' = [written EXCEPT ![r] = @ + Cardinality(neuves)]
        /\ ecrites' = [ecrites EXCEPT ![r] = @ \cup neuves]
        /\ UNCHANGED <<etat, bornes, sources, prochain, enVol, pannes, attendues>>
    BY DEF Valider, PointDeReprise
  <1>4. Presentes' = Validees /\ Presentes = Validees
    BY <1>2, <1>3 DEF Presentes, Validees
  <1>5. /\ trav \in [Travailleurs -> Taches] /\ point \in [Runs -> Places] /\ written \in [Runs -> Nat]
        /\ ecrites \in [Runs -> SUBSET Lignes]
        /\ \A v \in Travailleurs : trav[v].pc # "repos" => trav[v].run \in Runs
    BY <1>1 DEF IInv, TypeOK, Formes
  <1>6. /\ trav'[w] = u /\ \A v \in Travailleurs \ {w} : trav'[v] = trav[v]
        /\ u.run = r /\ u.ici = Suivant(w) /\ (u.pc = "terminer" => Termine(w))
    BY <1>3, <1>5
  <1>7. \A x \in Validees : (x[1] = t.ici.i /\ x[2] \in t.lot) => x \in lignes
    BY DEF Validees, Lignes
  <1>8. /\ \A x \in attendues[r] \cap Validees : Passee(Suivant(w), x) => x \in cible'
        /\ Termine(w) => attendues[r] \cap Validees \subseteq cible'
    <2>1. Acquis(r, t.ici)
      BY <1>1, <1>2 DEF Complets
    <2>2. \A x \in attendues[r] \cap Validees : Passee(t.ici, x) => x \in cible
      BY <1>4, <2>1 DEF Acquis
    <2>3. ASSUME NEW x \in attendues[r] \cap Validees, Passee(Suivant(w), x) \/ Termine(w)
          PROVE  x \in cible'
      <3>1. Passee(t.ici, x) \/ (x[1] = t.ici.i /\ x[2] \in t.lot)
        BY <1>1, <1>2, <2>3, Passage
      <3> QED BY <1>3, <1>7, <2>2, <3>1
    <2> QED BY <2>3
  <1>9. \A q \in Runs : written'[q] = Cardinality(ecrites'[q])
    <2>1. neuves \cap ecrites[r] = {}
      BY <1>1, <1>2, <1>4 DEF Comptes
    <2>2. neuves \in SUBSET Lignes /\ ecrites[r] \in SUBSET Lignes
      BY <1>2, <1>5
    <2> HIDE DEF neuves
    <2>3. Cardinality(ecrites[r] \cup neuves) = Cardinality(ecrites[r]) + Cardinality(neuves)
      <3>1. IsFiniteSet(neuves) /\ IsFiniteSet(ecrites[r]) /\ Cardinality(neuves) \in Nat /\ Cardinality(ecrites[r]) \in Nat
        BY <2>2, LignesFinies
      <3>2. Cardinality(ecrites[r] \cup neuves) = Cardinality(ecrites[r]) + Cardinality(neuves) - Cardinality(ecrites[r] \cap neuves)
        BY <3>1, FS_Union
      <3>3. ecrites[r] \cap neuves = {}
        BY <2>1
      <3>4. Cardinality(ecrites[r] \cap neuves) = 0
        BY <3>3, FS_EmptySet
      <3> QED BY <3>1, <3>2, <3>4
    <2> QED BY <1>1, <1>2, <1>3, <1>5, <2>3 DEF Comptes
  <1> HIDE DEF lignes, u
  <1>10. Comptes'
    <2>1. ASSUME NEW q \in Runs, NEW x \in ecrites'[q], x \in Validees PROVE x \in cible'
      BY <1>1, <1>2, <1>3, <1>4, <1>5, <2>1 DEF Comptes
    <2> QED BY <1>4, <1>9, <2>1 DEF Comptes
  <1>11. Tires'
    <2>1. \A x \in neuves : x[2] < prochain[x[1]]
      BY <1>1, <1>2, <1>4 DEF Tirees
    <2> QED BY <1>2, <1>3, <1>5, <2>1 DEF JInv, Tires
  <1>12. Neufs'
    <2>1. etat[r] # "absent"
      BY <1>1, <1>2 DEF Absents
    <2> QED BY <1>1, <1>3, <1>5, <2>1 DEF Neufs
  <1>13. \A q \in Runs : attendues'[q] = attendues[q]
    BY <1>3
  <1>14. \A q \in Runs : Acquis(q, point[q])'
    <2> SUFFICES ASSUME NEW q \in Runs PROVE \A x \in attendues'[q] \cap Presentes' : Passee(point'[q], x) => x \in cible'
      BY DEF Acquis
    <2>1. CASE q = r
      BY <1>2, <1>3, <1>4, <1>5, <1>8, <2>1
    <2>2. CASE q # r
      <3>1. point'[q] = point[q] /\ Acquis(q, point[q])
        BY <1>1, <1>3, <1>5, <2>2 DEF Complets
      <3> QED BY <1>13, <3>1, Garde
    <2> QED BY <2>1, <2>2
  <1>15. ASSUME NEW v \in Travailleurs, trav'[v].pc # "repos"
         PROVE  Acquis(trav[v].run, trav[v].ici)' /\ (trav'[v].pc = "terminer" => ToutAcquis(trav[v].run)')
    <2>1. CASE v = w
      BY <1>3, <1>4, <1>6, <1>8, <2>1 DEF Acquis, ToutAcquis
    <2>2. CASE v # w
      BY <1>1, <1>5, <1>6, <1>13, <1>15, <2>2, Garde DEF Complets, Acquis, ToutAcquis
    <2> QED BY <2>1, <2>2
  <1>16. \A q \in Runs : etat'[q] = "completed" => ToutAcquis(q)'
    BY <1>1, <1>3, <1>13, Garde DEF Complets, ToutAcquis
  <1>17. Complets'
    BY <1>14, <1>15, <1>16 DEF Complets
  <1> QED BY <1>1, <1>10, <1>11, <1>12, <1>17 DEF JInv

LEMMA JInductif == JInv /\ [Next]_vars => JInv'
  <1> SUFFICES ASSUME JInv, [Next]_vars PROVE JInv'
    OBVIOUS
  <1>1. /\ trav \in [Travailleurs -> Taches] /\ etat \in [Runs -> Vivant \cup {"absent", "completed", "failed"}]
        /\ \A w \in Travailleurs : trav[w].pc # "repos" => trav[w].run \in Runs /\ etat[trav[w].run] # "absent"
    BY DEF JInv, IInv, TypeOK, Formes, Absents
  <1>2. CASE \/ \E s \in Segments : EcritureOuverte(s)
             \/ EcritureClose
             \/ \E x \in Lignes : Effacer(x)
             \/ UNCHANGED vars
    <2>1. UNCHANGED <<etat, point, written, trav, attendues, ecrites>>
      BY <1>2 DEF EcritureOuverte, EcritureClose, Effacer, vars, journal, traces
    <2> QED BY <2>1, JAilleurs
  <1>3. ASSUME NEW r \in Runs, MettreEnPause(r) PROVE JInv'
    <2>1. UNCHANGED <<point, written, trav, attendues, ecrites>> /\ etat' = [etat EXCEPT ![r] = "paused"]
      BY <1>3 DEF MettreEnPause, Devient, base, traces
    <2> QED BY <1>1, <2>1, JAilleurs
  <1>4. ASSUME NEW w \in Travailleurs, Executer(w), ~Valider(w) PROVE JInv'
    <2>1. UNCHANGED <<point, written, attendues, ecrites>> /\ Repos.pc = "repos"
      BY <1>4 DEF Executer, Charger, Demarrer, Boucle, Relire, Clore, Echouer, Mourir, journal, traces, Repos
    <2>2. \E t : /\ trav' = [trav EXCEPT ![w] = t]
                 /\ \/ t.pc = "repos"
                    \/ t.run \in Runs /\ t.ici = point[t.run] /\ t.pc # "terminer"
                    \/ t.run = trav[w].run /\ t.ici = trav[w].ici /\ trav[w].pc # "repos" /\ t.pc # "terminer"
      <3>1. trav[w] \in Taches
        BY <1>1
      <3>2. CASE \E r \in Runs : Charger(w, r)
        BY <3>2 DEF Charger
      <3>3. CASE Demarrer(w)
        <4>1. \/ trav' = [trav EXCEPT ![w] = [trav[w] EXCEPT !.pc = "boucle"]] /\ trav[w].pc # "repos"
              \/ trav' = [trav EXCEPT ![w] = Repos]
          BY <1>1, <3>3 DEF Demarrer, Etape
        <4> DEFINE u == [trav[w] EXCEPT !.pc = "boucle"]
        <4>2. u.pc = "boucle" /\ u.run = trav[w].run /\ u.ici = trav[w].ici
          BY <3>1 DEF Taches
        <4> QED BY <2>1, <4>1, <4>2
      <3>4. CASE Boucle(w)
        <4>1. PICK pc \in {"pauser", "lot"} : trav' = [trav EXCEPT ![w] = [trav[w] EXCEPT !.pc = pc]] /\ trav[w].pc # "repos"
          BY <1>1, <3>4 DEF Boucle, Etape
        <4> DEFINE u == [trav[w] EXCEPT !.pc = pc]
        <4>2. u.pc = pc /\ u.run = trav[w].run /\ u.ici = trav[w].ici
          BY <3>1 DEF Taches
        <4> QED BY <4>1, <4>2
      <3>5. CASE Relire(w)
        <4> DEFINE u == [trav[w] EXCEPT !.pc = "ecrire", !.lot = Premieres(Candidats(trav[w]))]
        <4>1. trav' = [trav EXCEPT ![w] = u] /\ trav[w].pc # "repos"
          BY <1>1, <3>5 DEF Relire, Premieres, Candidats
        <4>2. u.pc = "ecrire" /\ u.run = trav[w].run /\ u.ici = trav[w].ici
          BY <3>1 DEF Taches
        <4> QED BY <4>1, <4>2
      <3>6. CASE Clore(w) \/ Echouer(w) \/ Mourir(w)
        BY <2>1, <3>6 DEF Clore, Echouer, Mourir
      <3> QED BY <1>4, <3>2, <3>3, <3>4, <3>5, <3>6 DEF Executer
    <2>3. \A r \in Runs : /\ etat'[r] = "absent" => etat[r] = "absent"
                          /\ etat'[r] = "completed" => etat[r] = "completed" \/ (trav[w].pc = "terminer" /\ trav[w].run = r)
      BY <1>1, <1>4 DEF Executer, Charger, Demarrer, Boucle, Relire, Clore, Echouer, Mourir, journal, Devient
    <2>4. \A v \in Travailleurs : \/ trav'[v].pc = "repos"
                                  \/ /\ trav'[v].run \in Runs /\ trav'[v].ici = point[trav'[v].run]
                                     /\ trav'[v].pc # "terminer"
                                  \/ /\ trav'[v].run = trav[v].run /\ trav'[v].ici = trav[v].ici /\ trav[v].pc # "repos"
                                     /\ trav'[v].pc = "terminer" => trav[v].pc = "terminer"
      <3>1. PICK t : /\ trav' = [trav EXCEPT ![w] = t]
                     /\ \/ t.pc = "repos"
                        \/ t.run \in Runs /\ t.ici = point[t.run] /\ t.pc # "terminer"
                        \/ t.run = trav[w].run /\ t.ici = trav[w].ici /\ trav[w].pc # "repos" /\ t.pc # "terminer"
        BY <2>2
      <3>2. trav'[w] = t /\ \A v \in Travailleurs \ {w} : trav'[v] = trav[v]
        BY <1>1, <3>1
      <3> QED BY <3>1, <3>2
    <2> QED BY <2>1, <2>3, <2>4, JAilleurs
  <1> QED BY <1>2, <1>3, <1>4, JInscrire, JValider DEF Next

THEOREM FondementDesComptes == Spec => []JInv
  BY JInitial, JInductif, PTL DEF Spec

\* No hole: a completed run has projected every row committed or in flight when it was planned, but for
\* those rolled back or erased since, however many executions it took and however many ran at once.
THEOREM NoHole == Spec => []Complet
  <1>1. JInv => Complet
    BY DEF JInv, Complets, ToutAcquis, Presentes, Complet
  <1> QED BY <1>1, FondementDesComptes, PTL

-----------------------------------------------------------------------------
(* No row twice: one execution at a time on a run, and nothing behind its  *)
(* place is read again, but for the last source.                           *)

\* A row examined lies behind a place; at the last source of the second phase the place stays.
Avant(y, p) ==
  \/ y[1] = "fenetre" /\ p.phase = "reconciliation"
  \/ y[1] = p.phase /\ \/ y[2][1] < p.i
                       \/ y[2][1] = p.i /\ y[2][2] <= p.curseur
                       \/ y[2][1] = p.i /\ p.phase = "reconciliation" /\ p.i = NbSegments

\* With executions that wait for one another, there is one on a run, at its checkpoint.
Seuls == \A v, w \in Travailleurs : trav[v].pc # "repos" /\ trav[w].pc # "repos" /\ trav[v].run = trav[w].run => v = w
AuPoint == \A w \in Travailleurs : trav[w].pc # "repos" => trav[w].ici = point[trav[w].run]
Derriere == \A r \in Runs : \A y \in vues[r] : Avant(y, point[r])
Repris == \A r \in Runs : \A y \in revues[r] : y[1] = "reconciliation" /\ y[2][1] = NbSegments

KInv == Seuls /\ AuPoint /\ Derriere /\ Repris

\* A batch leaves behind it what was behind, and its own rows; it takes again nothing from behind.
LEMMA Avancee ==
  ASSUME IInv, NEW w \in Travailleurs, trav[w].pc = "ecrire", NEW y \in Phases \X Lignes
  PROVE  LET p == trav[w].ici
             examinee == y[1] = p.phase /\ y[2][1] = p.i /\ y[2][2] \in trav[w].lot
         IN /\ Avant(y, p) \/ examinee => Avant(y, Suivant(w))
            /\ Avant(y, p) /\ examinee => y[1] = "reconciliation" /\ y[2][1] = NbSegments
  <1> DEFINE t == trav[w]
             p == t.ici
             q == Suivant(w)
             examinee == y[1] = p.phase /\ y[2][1] = p.i /\ y[2][2] \in t.lot
  <1>1. /\ p = [phase |-> p.phase, i |-> p.i, curseur |-> p.curseur] /\ p.phase \in Phases /\ p.i \in 1..NbSegments
        /\ p.curseur \in 0..MaxId
    BY LotLu DEF Taches, Places, Segments
  <1>2. y[1] \in Phases /\ y[2][1] \in 1..NbSegments /\ y[2][2] \in 1..MaxId
    BY DEF Lignes, Segments
  <1>3. examinee => y[2][2] > p.curseur
    BY LotLu DEF Candidats
  <1>4. Avant(y, p) /\ examinee => y[1] = "reconciliation" /\ y[2][1] = NbSegments
    BY <1>1, <1>2, <1>3 DEF Avant
  <1>5. ASSUME Avant(y, p) \/ examinee PROVE Avant(y, q)
    <2>1. CASE ~Fini(w)
      <3>1. q = [p EXCEPT !.curseur = Max(t.lot)] /\ Max(t.lot) \in t.lot /\ \A n \in t.lot : n <= Max(t.lot)
        BY <2>1, Arrivee DEF Suivant
      <3>2. Max(t.lot) \in 1..MaxId /\ Max(t.lot) > p.curseur
        BY <3>1, LotLu DEF Candidats
      <3>3. q.phase = p.phase /\ q.i = p.i /\ q.curseur = Max(t.lot)
        BY <1>1, <3>1
      <3>4. CASE examinee
        BY <3>1, <3>3, <3>4 DEF Avant
      <3>5. CASE Avant(y, p)
        BY <1>1, <1>2, <3>2, <3>3, <3>5 DEF Avant
      <3> QED BY <1>5, <3>4, <3>5
    <2>2. CASE Fini(w) /\ p.i < NbSegments
      <3>1. q = [p EXCEPT !.i = @ + 1, !.curseur = 0]
        BY <2>2 DEF Suivant, avancer
      <3>2. q.phase = p.phase /\ q.i = p.i + 1
        BY <1>1, <3>1
      <3> QED BY <1>1, <1>2, <1>5, <2>2, <3>2 DEF Avant
    <2>3. CASE Fini(w) /\ ~(p.i < NbSegments) /\ p.phase = "fenetre"
      <3>1. q = [phase |-> "reconciliation", i |-> 1, curseur |-> 0]
        BY <2>3 DEF Suivant, avancer
      <3> QED BY <1>1, <1>2, <1>5, <2>3, <3>1 DEF Avant
    <2>4. CASE Fini(w) /\ ~(p.i < NbSegments) /\ p.phase = "reconciliation"
      <3>1. q = [p EXCEPT !.curseur = 0] /\ p.i = NbSegments
        BY <1>1, <2>4 DEF Suivant, avancer
      <3>2. q.phase = "reconciliation" /\ q.i = NbSegments
        BY <1>1, <2>4, <3>1
      <3> QED BY <1>1, <1>2, <1>5, <2>4, <3>1, <3>2 DEF Avant
    <2> QED BY <1>1, <2>1, <2>2, <2>3, <2>4 DEF Phases
  <1> QED BY <1>4, <1>5

LEMMA KInitial == Init => KInv
  BY DEF Init, KInv, Seuls, AuPoint, Derriere, Repris, Repos

LEMMA KValider ==
  ASSUME IInv, KInv, NEW w \in Travailleurs, Valider(w)
  PROVE  KInv'
  <1> DEFINE t == trav[w]
             r == t.run
             lignes == {<<t.ici.i, n>> : n \in t.lot}
             examinees == {t.ici.phase} \X lignes
             u == [pc |-> IF Termine(w) THEN "terminer" ELSE "boucle", run |-> r, ici |-> Suivant(w), lot |-> {}]
  <1>1. /\ t.pc = "ecrire" /\ r \in Runs /\ trav \in [Travailleurs -> Taches] /\ point \in [Runs -> Places]
        /\ vues \in [Runs -> SUBSET (Phases \X Lignes)] /\ revues \in [Runs -> SUBSET (Phases \X Lignes)]
    BY LotLu DEF Valider, IInv, TypeOK, Formes
  <1>2. /\ point' = [point EXCEPT ![r] = Suivant(w)] /\ trav' = [trav EXCEPT ![w] = u]
        /\ vues' = [vues EXCEPT ![r] = @ \cup examinees]
        /\ revues' = [revues EXCEPT ![r] = @ \cup (vues[r] \cap examinees)]
    BY DEF Valider, PointDeReprise
  <1>3. trav'[w] = u /\ u.run = r /\ u.ici = Suivant(w) /\ \A v \in Travailleurs \ {w} : trav'[v] = trav[v]
    BY <1>1, <1>2
  <1>4. \A y \in examinees : y \in Phases \X Lignes /\ y[1] = t.ici.phase /\ y[2][1] = t.ici.i /\ y[2][2] \in t.lot
    <2>1. t.ici.phase \in Phases
      BY <1>1 DEF Taches, Places
    <2>2. \A n \in t.lot : <<t.ici.i, n>> \in Lignes
      BY <1>1, LotLu DEF Validees
    <2> QED BY <2>1, <2>2
  <1>5. t.ici = point[r]
    BY <1>1 DEF KInv, AuPoint
  <1> HIDE DEF examinees, u
  <1>6. Seuls'
    BY <1>1, <1>3 DEF KInv, Seuls
  <1>7. AuPoint'
    <2> SUFFICES ASSUME NEW v \in Travailleurs, trav'[v].pc # "repos" PROVE trav'[v].ici = point'[trav'[v].run]
      BY DEF AuPoint
    <2>1. CASE v = w
      BY <1>1, <1>2, <1>3, <2>1
    <2>2. CASE v # w
      <3>1. trav'[v] = trav[v] /\ trav[v].run # r /\ trav[v].run \in Runs
        BY <1>1, <1>3, <2>2 DEF KInv, Seuls, IInv, Formes
      <3> QED BY <1>1, <1>2, <3>1 DEF KInv, AuPoint
    <2> QED BY <2>1, <2>2
  <1>8. Derriere'
    <2> SUFFICES ASSUME NEW q \in Runs, NEW y \in vues'[q] PROVE Avant(y, point'[q])
      BY DEF Derriere
    <2>1. CASE q = r
      <3>1. point'[q] = Suivant(w) /\ (y \in vues[r] \/ y \in examinees)
        BY <1>1, <1>2, <2>1
      <3>2. y \in Phases \X Lignes
        BY <1>1, <1>4, <3>1
      <3>3. Avant(y, t.ici) \/ (y[1] = t.ici.phase /\ y[2][1] = t.ici.i /\ y[2][2] \in t.lot)
        BY <1>1, <1>4, <1>5, <3>1 DEF KInv, Derriere
      <3> QED BY <1>1, <3>1, <3>2, <3>3, Avancee
    <2>2. CASE q # r
      BY <1>1, <1>2, <2>2 DEF KInv, Derriere
    <2> QED BY <2>1, <2>2
  <1>9. Repris'
    <2> SUFFICES ASSUME NEW q \in Runs, NEW y \in revues'[q] PROVE y[1] = "reconciliation" /\ y[2][1] = NbSegments
      BY DEF Repris
    <2>1. CASE y \in revues[q]
      BY <2>1 DEF KInv, Repris
    <2>2. CASE y \notin revues[q]
      <3>1. y \in vues[r] /\ y \in examinees
        BY <1>1, <1>2, <2>2
      <3>2. Avant(y, t.ici)
        BY <1>1, <1>5, <3>1 DEF KInv, Derriere
      <3> QED BY <1>1, <1>4, <3>1, <3>2, Avancee
    <2> QED BY <2>1, <2>2
  <1> QED BY <1>6, <1>7, <1>8, <1>9 DEF KInv

\* Everything else: tasks go on, end, or begin where nobody else works.
LEMMA KAilleurs ==
  ASSUME IInv, KInv, UNCHANGED <<point, vues, revues>>, NEW w \in Travailleurs, NEW t,
         trav' = [trav EXCEPT ![w] = t],
         \/ t.pc = "repos"
         \/ t.ici = point[t.run] /\ \A v \in Travailleurs : trav[v].run # t.run
         \/ t.run = trav[w].run /\ t.ici = trav[w].ici /\ trav[w].pc # "repos"
  PROVE  KInv'
  <1>1. trav'[w] = t /\ \A v \in Travailleurs \ {w} : trav'[v] = trav[v]
    BY DEF IInv, Formes
  <1>2. Seuls' /\ AuPoint'
    BY <1>1 DEF KInv, Seuls, AuPoint
  <1>3. Derriere' /\ Repris'
    BY DEF KInv, Derriere, Repris
  <1> QED BY <1>2, <1>3 DEF KInv

LEMMA KInductif ==
  ASSUME Serie, IInv, KInv, [Next]_vars
  PROVE  KInv'
  <1>1. trav \in [Travailleurs -> Taches]
    BY DEF IInv, Formes
  <1>2. ASSUME UNCHANGED <<point, vues, revues, trav>> PROVE KInv'
    BY <1>2 DEF KInv, Seuls, AuPoint, Derriere, Repris
  <1>3. CASE \/ \E s \in Segments : EcritureOuverte(s)
             \/ EcritureClose
             \/ \E x \in Lignes : Effacer(x)
             \/ \E r \in Runs : Inscrire(r) \/ MettreEnPause(r)
             \/ UNCHANGED vars
    BY <1>2, <1>3 DEF EcritureOuverte, EcritureClose, Effacer, Inscrire, MettreEnPause, vars, journal, base, traces
  <1>4. ASSUME NEW w \in Travailleurs, Executer(w), ~Valider(w) PROVE KInv'
    <2>1. UNCHANGED <<point, vues, revues>> /\ Repos.pc = "repos" /\ trav[w] \in Taches
      BY <1>1, <1>4 DEF Executer, Charger, Demarrer, Boucle, Relire, Clore, Echouer, Mourir, journal, traces, Repos
    <2>2. CASE \E r \in Runs : Charger(w, r)
      <3>1. PICK r \in Runs : Charger(w, r)
        BY <2>2
      <3> DEFINE u == [pc |-> "demarrer", run |-> r, ici |-> point[r], lot |-> {}]
      <3>2. trav' = [trav EXCEPT ![w] = u] /\ u.ici = point[u.run] /\ \A v \in Travailleurs : trav[v].run # u.run
        BY <3>1 DEF Charger
      <3> HIDE DEF u
      <3> QED BY <2>1, <3>2, KAilleurs
    <2>3. CASE Demarrer(w) \/ Boucle(w)
      <3>1. \/ trav' = [trav EXCEPT ![w] = Repos]
            \/ trav[w].pc # "repos" /\ \E pc \in Pcs : trav' = [trav EXCEPT ![w] = [trav[w] EXCEPT !.pc = pc]]
        BY <1>1, <2>3 DEF Demarrer, Boucle, Etape, Pcs
      <3>2. ASSUME NEW pc \in Pcs, trav[w].pc # "repos", trav' = [trav EXCEPT ![w] = [trav[w] EXCEPT !.pc = pc]]
            PROVE  KInv'
        <4> DEFINE u == [trav[w] EXCEPT !.pc = pc]
        <4>1. u.run = trav[w].run /\ u.ici = trav[w].ici
          BY <2>1 DEF Taches
        <4> HIDE DEF u
        <4> QED BY <2>1, <3>2, <4>1, KAilleurs DEF u
      <3> QED BY <2>1, <3>1, <3>2, KAilleurs
    <2>4. CASE Relire(w)
      <3> DEFINE u == [trav[w] EXCEPT !.pc = "ecrire", !.lot = Premieres(Candidats(trav[w]))]
      <3>1. trav' = [trav EXCEPT ![w] = u] /\ trav[w].pc # "repos"
        BY <1>1, <2>4 DEF Relire, Premieres, Candidats
      <3>2. u.run = trav[w].run /\ u.ici = trav[w].ici
        BY <2>1 DEF Taches
      <3> HIDE DEF u
      <3> QED BY <2>1, <3>1, <3>2, KAilleurs
    <2>5. CASE Clore(w) \/ Echouer(w) \/ Mourir(w)
      BY <2>1, <2>5, KAilleurs DEF Clore, Echouer, Mourir
    <2> QED BY <1>4, <2>2, <2>3, <2>4, <2>5 DEF Executer
  <1> QED BY <1>3, <1>4, KValider DEF Next

\* The journal counts the rows written, each once, whatever died and however many executions ran at once.
THEOREM CountExact == Spec => [](\A r \in Runs : written[r] = Cardinality(ecrites[r]))
  <1>1. JInv => \A r \in Runs : written[r] = Cardinality(ecrites[r])
    BY DEF JInv, Comptes
  <1> QED BY <1>1, FondementDesComptes, PTL

\* No batch is done again after a death, but for the last source of the second phase, provided operators
\* wait for an execution to end before they resume it.
THEOREM NoRowTwice ==
  ASSUME Serie
  PROVE  Spec => []SansDoublon
  <1>1. IInv /\ KInv /\ [Next]_vars => KInv'
    BY KInductif
  <1>2. JInv /\ KInv => SansDoublon
    BY DEF JInv, Comptes, KInv, Repris, SansDoublon
  <1> QED BY <1>1, <1>2, KInitial, Fondement, FondementDesComptes, PTL DEF Spec
===============================================================================
