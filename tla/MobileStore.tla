------------------------------ MODULE MobileStore ------------------------------
(***************************************************************************)
(* How the mobile SDK writes one record durably on a storage whose setItem  *)
(* is not atomic (PersistentStore, rum-mobile): two slots written in turn,  *)
(* and a manifest written last, which names the active slot and carries a   *)
(* fingerprint of both.                                                     *)
(*                                                                          *)
(* Every storage operation is awaited, so coroutines that write the record  *)
(* interleave; nothing in the SDK keeps them apart.  An operation may fail: *)
(* a value that cannot be read is taken for a missing one.  The system may  *)
(* kill the application during a setItem, which then leaves a truncated     *)
(* value.  A record is a number, that of the write it comes from; two       *)
(* records never have the same fingerprint.                                 *)
(***************************************************************************)
EXTENDS Naturals

CONSTANTS
  Ecrivains,    \* coroutines that write or erase the record
  Dechirables,  \* keys a kill may truncate: "emplacement", "manifeste"
  MaxEcritures  \* bound on the records written

ASSUME StoreAssumption ==
  /\ Dechirables \subseteq {"emplacement", "manifeste"}
  /\ MaxEcritures \in Nat

VARIABLES
  manifeste,     \* [lisible, actif, sommes], what the key of the record holds
  emplacements,  \* emplacements[s]: the record in slot s, Absent, or Tronque
  ecrivain,      \* where each coroutine is; its fields aveugle and seul are history
  \* History variables.
  ecrits,        \* records begun so far
  finis,         \* records whose manifest was written
  dernier,       \* the last of them; Absent once erased
  incertain      \* something befell the record, and nothing has set it right since

storeVars == <<manifeste, emplacements, ecrivain, ecrits, finis, dernier, incertain>>

Absent  == 0
Tronque == MaxEcritures + 1
Slots   == {0, 1}
Records == 1..MaxEcritures

SansManifeste == [lisible |-> FALSE, actif |-> 0, sommes |-> [s \in Slots |-> Absent]]

\* A coroutine: the step it is at, its record, the manifest it read; aveugle, the
\* manifest could not be read; seul, no other was under way since it began.
StoreRepos == [pas |-> "repos", n |-> Absent, lu |-> SansManifeste, aveugle |-> FALSE, seul |-> FALSE]

StoreInit ==
  /\ manifeste = SansManifeste
  /\ emplacements = [s \in Slots |-> Absent]
  /\ ecrivain = [w \in Ecrivains |-> StoreRepos]
  /\ ecrits = 0
  /\ finis = {}
  /\ dernier = Absent
  /\ incertain = FALSE

\* The coroutine w begins as e, and those under way are no longer alone.
Entamer(w, e) ==
  LET seul == \A v \in Ecrivains : ecrivain[v].pas = "repos"
  IN  ecrivain' = [v \in Ecrivains |-> IF v = w THEN [e EXCEPT !.seul = seul]
                                       ELSE [ecrivain[v] EXCEPT !.seul = FALSE]]

\* ecrireEnregistrement begins: the manifest is read, or cannot be (lire).
Lire(w) ==
  /\ ecrivain[w].pas = "repos" /\ ecrits < MaxEcritures
  /\ ecrits' = ecrits + 1
  /\ \E echec \in BOOLEAN :
       Entamer(w, [StoreRepos EXCEPT !.pas = "emplacement", !.n = ecrits + 1, !.aveugle = echec,
                                     !.lu = IF echec THEN SansManifeste ELSE manifeste])
  /\ UNCHANGED <<manifeste, emplacements, finis, dernier, incertain>>

\* Mutant: the active slot is written over.
Cible_Active(w) == ecrivain[w].lu.actif

\* The slot that is not active; the first when no manifest could be read.
Cible(w) == LET m == ecrivain[w].lu
            IN  IF m.lisible /\ m.actif = 0 THEN 1 ELSE 0

\* What w writes to a slot may fall on the active one.
Hasard(w) == ecrivain[w].aveugle \/ ~ecrivain[w].seul

EcrireEmplacement(w) ==
  /\ ecrivain[w].pas = "emplacement"
  /\ emplacements' = [emplacements EXCEPT ![Cible(w)] = ecrivain[w].n]
  /\ ecrivain' = [ecrivain EXCEPT ![w].pas = "manifeste"]
  /\ incertain' = (incertain \/ Hasard(w))
  /\ UNCHANGED <<manifeste, ecrits, finis, dernier>>

\* The manifest read at the start, with the new slot and its fingerprint.
EcrireManifeste(w) ==
  /\ ecrivain[w].pas = "manifeste"
  /\ manifeste' = [lisible |-> TRUE, actif |-> Cible(w),
                   sommes |-> [ecrivain[w].lu.sommes EXCEPT ![Cible(w)] = ecrivain[w].n]]
  /\ dernier' = ecrivain[w].n
  /\ finis' = finis \cup {ecrivain[w].n}
  /\ incertain' = ~ecrivain[w].seul
  /\ ecrivain' = [ecrivain EXCEPT ![w] = StoreRepos]
  /\ UNCHANGED <<emplacements, ecrits>>

\* ecrire fails (disk full): the write is given up, the key keeps its value.
Renoncer(w) ==
  /\ ecrivain[w].pas \in {"emplacement", "manifeste"}
  /\ ecrivain' = [ecrivain EXCEPT ![w] = StoreRepos]
  /\ UNCHANGED <<manifeste, emplacements, ecrits, finis, dernier, incertain>>

\* effacerEnregistrement: the manifest, then each slot.  An erasure that fails
\* is not reported, and the value stays.
EffacerManifeste(w) ==
  /\ ecrivain[w].pas = "repos"
  /\ \/ manifeste' = SansManifeste /\ dernier' = Absent /\ incertain' = FALSE
     \/ incertain' = TRUE /\ UNCHANGED <<manifeste, dernier>>
  /\ Entamer(w, [StoreRepos EXCEPT !.pas = "efface0"])
  /\ UNCHANGED <<emplacements, ecrits, finis>>

EffacerEmplacement(w, s) ==
  /\ ecrivain[w].pas = IF s = 0 THEN "efface0" ELSE "efface1"
  /\ emplacements' \in {emplacements, [emplacements EXCEPT ![s] = Absent]}
  /\ ecrivain' = [ecrivain EXCEPT ![w] = IF s = 0 THEN [@ EXCEPT !.pas = "efface1"] ELSE StoreRepos]
  /\ incertain' = (incertain \/ ~ecrivain[w].seul)
  /\ UNCHANGED <<manifeste, ecrits, finis, dernier>>

\* The application is killed, perhaps in the middle of a setItem.
TuerEnEcriture ==
  /\ \E w \in Ecrivains : ecrivain[w].pas # "repos"
  /\ ecrivain' = [w \in Ecrivains |-> StoreRepos]
  /\ \/ UNCHANGED <<manifeste, emplacements, incertain>>
     \/ \E w \in Ecrivains :
          /\ ecrivain[w].pas = "emplacement" /\ "emplacement" \in Dechirables
          /\ emplacements' = [emplacements EXCEPT ![Cible(w)] = Tronque]
          /\ incertain' = (incertain \/ Hasard(w))
          /\ UNCHANGED manifeste
     \/ \E w \in Ecrivains :
          /\ ecrivain[w].pas = "manifeste" /\ "manifeste" \in Dechirables
          /\ manifeste' = SansManifeste
          /\ incertain' = TRUE
          /\ UNCHANGED emplacements
  /\ UNCHANGED <<ecrits, finis, dernier>>

StoreNext ==
  \/ \E w \in Ecrivains :
       \/ Lire(w) \/ EcrireEmplacement(w) \/ EcrireManifeste(w) \/ Renoncer(w)
       \/ EffacerManifeste(w) \/ \E s \in Slots : EffacerEmplacement(w, s)
  \/ TuerEnEcriture

StoreSpec == StoreInit /\ [][StoreNext]_storeVars

(***************************************************************************)
(* Reading.                                                                 *)
(***************************************************************************)

\* Mutant: a slot is taken for whole as soon as the manifest knows it.
Intact_SansEmpreinte(s) == manifeste.sommes[s] # Absent /\ emplacements[s] # Absent

\* The fingerprint of slot s is that of the manifest.
Intact(s) == manifeste.sommes[s] # Absent /\ emplacements[s] = manifeste.sommes[s]

\* lireEnregistrement when the slots K can be read: the active slot if it is
\* there and intact, else the other one.
Lecture(K) ==
  LET a == manifeste.actif
  IN  IF ~manifeste.lisible THEN Absent
      ELSE IF a \in K /\ Intact(a) THEN emplacements[a]
      ELSE IF 1 - a \in K /\ Intact(1 - a) THEN emplacements[1 - a]
      ELSE Absent

(***************************************************************************)
(* Properties.                                                              *)
(***************************************************************************)

Manifestes == [lisible : BOOLEAN, actif : Slots, sommes : [Slots -> Records \cup {Absent}]]
StorePas == {"repos", "emplacement", "manifeste", "efface0", "efface1"}

\* Type invariant; a coroutine that writes has a record to write.
StoreTypeOK ==
  /\ manifeste \in Manifestes
  /\ emplacements \in [Slots -> Records \cup {Absent, Tronque}]
  /\ ecrivain \in [Ecrivains -> [pas : StorePas, n : Records \cup {Absent}, lu : Manifestes,
                                 aveugle : BOOLEAN, seul : BOOLEAN]]
  /\ \A w \in Ecrivains : ecrivain[w].pas \in {"emplacement", "manifeste"} => ecrivain[w].n \in Records
  /\ ecrits \in 0..MaxEcritures
  /\ finis \subseteq Records /\ dernier \in Records \cup {Absent}
  /\ incertain \in BOOLEAN

\* persist.ts: "une interruption laisse donc le manifeste precedent, qui designe
\* l'emplacement precedent, qui est intact".  A launch reads the last record whose
\* write ended, whatever write was cut or given up since, and nothing once the
\* record is erased.  Four events leave this open: the erasure of the manifest
\* fails, the manifest is truncated, a slot is written by a coroutine that could
\* not read the manifest, or by one that was not alone.  A write that runs alone
\* to its end sets it right, whatever it has read.
DerniereEcriture == ~incertain => Lecture(Slots) = dernier

\* persist.ts: "Une somme de controle accompagne chaque ecriture (...) la lecture
\* le voit, retombe sur l'autre emplacement, et si les deux sont perdus, abandonne
\* la file".  Whatever the coroutines, the failures, the kills, and the slots a
\* launch cannot read, it reads nothing, or a whole record whose write ended.
LectureEntiere == \A K \in SUBSET Slots : Lecture(K) \in finis \cup {Absent}

\* "Tant qu'il n'est pas ecrit, la lecture continue de designer l'emplacement
\* precedent, qui est complet": once a record is written, a launch reads one.
\* TLC refutes it (README, counterexamples without a run).
ToujoursLisible == dernier # Absent => Lecture(Slots) # Absent
===============================================================================
