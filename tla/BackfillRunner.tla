---------------------------- MODULE BackfillRunner ----------------------------
(***************************************************************************)
(* A backfill of the event index (lib/backfills/runner.mjs, event-index.   *)
(* mjs): a journal row says where a run is; a worker re-reads one batch of *)
(* the sources, writes the projection and advances the checkpoint in one   *)
(* transaction, under the ingestion lock of the application.  Operators    *)
(* plan, pause and resume; workers die; batches fail; the application goes *)
(* on writing, and people are erased, between two batches.                 *)
(*                                                                         *)
(* Ids come from a sequence and are drawn before the commit: the bounds    *)
(* read when planning miss the rows in flight.  Hence a second pass over   *)
(* the same window, without the bounds.                                    *)
(***************************************************************************)
EXTENDS Naturals, FiniteSets, FiniteSetsExt

CONSTANTS Runs,          \* rows of backfill_run: one application, kind and window
          Travailleurs,  \* processes that may call executer
          NbSegments,    \* source tables, in their order
          Taille,        \* rows of a batch
          Serie,         \* operators wait for an execution to end before they resume it
          MaxId,         \* bound on the ids of a source
          MaxPannes,     \* bound on failures and deaths of workers
          Libre          \* the lock when nobody holds it

Segments == 1..NbSegments

ASSUME SegmentsAssumption == NbSegments \in Nat \ {0}
ASSUME TailleAssumption == Taille \in Nat \ {0}
ASSUME SerieAssumption == Serie \in BOOLEAN
ASSUME BornesAssumption == MaxId \in Nat /\ MaxPannes \in Nat
ASSUME LibreAssumption == Libre \notin Travailleurs /\ "ecrivain" \notin Travailleurs /\ Libre # "ecrivain"

VARIABLES
  etat,      \* etat[r]: backfill_run.state, "absent" before the plan
  bornes,    \* bornes[r][s]: highest id seen when planning
  point,     \* point[r]: checkpoint_json
  written,   \* written[r]: rows written, as the journal counts them
  verrou,    \* who holds the ingestion lock of the application
  sources,   \* sources[s]: ids of the committed rows of table s
  prochain,  \* prochain[s]: next value of the sequence of table s
  enVol,     \* rows of the open write transaction
  cible,     \* projected rows: rum_event_index
  trav,      \* trav[w]: what worker w is doing
  pannes,
  \* History variables.
  attendues, \* attendues[r]: rows committed or in flight when r was planned
  vues,      \* vues[r]: rows examined by the committed batches of r, per phase
  revues,    \* revues[r]: those examined again in the same phase
  ecrites    \* ecrites[r]: rows written by r

journal == <<etat, bornes, point, written>>
base    == <<verrou, sources, prochain, enVol, cible>>
traces  == <<attendues, vues, revues, ecrites>>
vars    == <<journal, base, trav, pannes, traces>>

Lignes == Segments \X (1..MaxId)
Phases == {"fenetre", "reconciliation"}
Debut  == [phase |-> "fenetre", i |-> 1, curseur |-> 0]
Repos  == [pc |-> "repos", run |-> Libre, ici |-> Debut, lot |-> {}]
Vivant == {"planned", "running", "paused"}

Init ==
  /\ etat = [r \in Runs |-> "absent"]
  /\ bornes = [r \in Runs |-> [s \in Segments |-> 0]]
  /\ point = [r \in Runs |-> Debut]
  /\ written = [r \in Runs |-> 0]
  /\ verrou = Libre
  /\ sources = [s \in Segments |-> {}]
  /\ prochain = [s \in Segments |-> 1]
  /\ enVol = {}
  /\ cible = {}
  /\ trav = [w \in Travailleurs |-> Repos]
  /\ pannes = 0
  /\ attendues = [r \in Runs |-> {}]
  /\ vues = [r \in Runs |-> {}]
  /\ revues = [r \in Runs |-> {}]
  /\ ecrites = [r \in Runs |-> {}]

Validees == {x \in Lignes : x[2] \in sources[x[1]]}

(***************************************************************************)
(* The application: ingestion and erasure, under the same lock.            *)
(***************************************************************************)

\* A write draws its id while it holds the lock, and commits later.
EcritureOuverte(s) ==
  /\ verrou = Libre
  /\ prochain[s] <= MaxId
  /\ verrou' = "ecrivain"
  /\ enVol' = {<<s, prochain[s]>>}
  /\ prochain' = [prochain EXCEPT ![s] = @ + 1]
  /\ UNCHANGED <<journal, sources, cible, trav, pannes, traces>>

\* Commit, by a version that projects what it writes or by one that does not;
\* or rollback: the ids are lost.
EcritureClose ==
  /\ enVol # {}
  /\ \/ /\ sources' = [s \in Segments |-> sources[s] \cup {x[2] : x \in {y \in enVol : y[1] = s}}]
        /\ cible' \in {cible, cible \cup enVol}
     \/ UNCHANGED <<sources, cible>>
  /\ enVol' = {}
  /\ verrou' = Libre
  /\ UNCHANGED <<journal, prochain, trav, pannes, traces>>

\* An erasure takes the source row and its projection.
Effacer(x) ==
  /\ verrou = Libre
  /\ x \in Validees
  /\ sources' = [sources EXCEPT ![x[1]] = @ \ {x[2]}]
  /\ cible' = cible \ {x}
  /\ UNCHANGED <<journal, verrou, prochain, enVol, trav, pannes, traces>>

(***************************************************************************)
(* The journal.                                                            *)
(***************************************************************************)

\* backfill_run_active_v83 and backfill_run_un_travailleur_v83: what the
\* unique indexes let a row become.
Admis(r, e) ==
  /\ e \in Vivant => \A q \in Runs \ {r} : etat[q] \notin Vivant
  /\ e = "running" => \A q \in Runs \ {r} : etat[q] # "running"

Devient(r, e) == Admis(r, e) /\ etat' = [etat EXCEPT ![r] = e]

\* inscrirePlan: the bounds of the plan are what is committed, not in flight.
Inscrire(r) ==
  /\ etat[r] = "absent"
  /\ Devient(r, "planned")
  /\ bornes' = [bornes EXCEPT ![r] = [s \in Segments |-> Max(sources[s] \cup {0})]]
  /\ attendues' = [attendues EXCEPT ![r] = Validees \cup enVol]
  /\ UNCHANGED <<point, written, base, trav, pannes, vues, revues, ecrites>>

MettreEnPause(r) ==
  /\ etat[r] \in {"planned", "running"}
  /\ Devient(r, "paused")
  /\ UNCHANGED <<bornes, point, written, base, trav, pannes, traces>>

(***************************************************************************)
(* executer.                                                               *)
(***************************************************************************)

Etape(w, pc) == trav' = [trav EXCEPT ![w].pc = pc]

\* The state and the checkpoint are read once, at the beginning.
Charger(w, r) ==
  /\ trav[w].pc = "repos"
  /\ etat[r] \in {"planned", "paused", "failed"}
  /\ Serie => \A v \in Travailleurs : trav[v].run # r
  /\ trav' = [trav EXCEPT ![w] = [pc |-> "demarrer", run |-> r, ici |-> point[r], lot |-> {}]]
  /\ UNCHANGED <<journal, base, pannes, traces>>

\* The row becomes "running" whatever it has become since, unless an index
\* refuses.
Demarrer(w) ==
  LET r == trav[w].run
  IN /\ trav[w].pc = "demarrer"
     /\ IF Admis(r, "running")
        THEN Devient(r, "running") /\ Etape(w, "boucle")
        ELSE trav' = [trav EXCEPT ![w] = Repos] /\ UNCHANGED etat
     /\ UNCHANGED <<bornes, point, written, base, pannes, traces>>

\* Between two batches: a signal or the number of batches asked for, then the
\* state of the row.
Boucle(w) ==
  /\ trav[w].pc = "boucle"
  /\ \/ Etape(w, "pauser")
     \/ Etape(w, IF etat[trav[w].run] = "paused" THEN "pauser" ELSE "lot")
  /\ UNCHANGED <<journal, base, pannes, traces>>

\* Mutant: the rows are read before the lock is asked for.
Relire_SansVerrou(w) ==
  LET ici == trav[w].ici
      candidats == {n \in sources[ici.i] : n > ici.curseur /\ (ici.phase = "fenetre" => n <= bornes[trav[w].run][ici.i])}
  IN /\ trav[w].pc = "lot"
     /\ trav' = [trav EXCEPT ![w].pc = "ecrire",
                             ![w].lot = {n \in candidats : Cardinality({k \in candidats : k < n}) < Taille}]
     /\ UNCHANGED <<journal, base, pannes, traces>>

\* lire: the first rows after the cursor, re-read under the lock; the bounds of
\* the plan hold in the first phase only.
Relire(w) ==
  LET ici == trav[w].ici
      candidats == {n \in sources[ici.i] : n > ici.curseur /\ (ici.phase = "fenetre" => n <= bornes[trav[w].run][ici.i])}
  IN /\ trav[w].pc = "lot"
     /\ verrou = Libre
     /\ verrou' = w
     /\ trav' = [trav EXCEPT ![w].pc = "ecrire",
                             ![w].lot = {n \in candidats : Cardinality({k \in candidats : k < n}) < Taille}]
     /\ UNCHANGED <<journal, sources, prochain, enVol, cible, pannes, traces>>

\* Mutant: the second phase is left out.
avancer_SansReconciliation(p) ==
  IF p.i < NbSegments THEN [p EXCEPT !.i = @ + 1, !.curseur = 0] ELSE [p EXCEPT !.curseur = 0]

\* avancer: the segments, then the segments again.  At the end the place does
\* not change but for the cursor, and the run is over.
avancer(p) ==
  IF p.i < NbSegments THEN [p EXCEPT !.i = @ + 1, !.curseur = 0]
  ELSE IF p.phase = "fenetre" THEN [phase |-> "reconciliation", i |-> 1, curseur |-> 0]
  ELSE [p EXCEPT !.curseur = 0]

Fini(w)    == Cardinality(trav[w].lot) < Taille
Suivant(w) == IF Fini(w) THEN avancer(trav[w].ici) ELSE [trav[w].ici EXCEPT !.curseur = Max(trav[w].lot)]
Termine(w) == Fini(w) /\ avancer(trav[w].ici).i = trav[w].ici.i /\ avancer(trav[w].ici).phase = trav[w].ici.phase

\* Mutant: the checkpoint is left for a later statement, which a death forgets.
PointDeReprise_Differe(w) ==
  point' = IF Fini(w) THEN [point EXCEPT ![trav[w].run] = Suivant(w)] ELSE point

\* The checkpoint, in the transaction of the rows.
PointDeReprise(w) == point' = [point EXCEPT ![trav[w].run] = Suivant(w)]

\* ecrire (on conflict do nothing), the checkpoint and the counters, then commit.
Valider(w) ==
  LET r       == trav[w].run
      ici     == trav[w].ici
      lignes  == {<<ici.i, n>> : n \in trav[w].lot}
      neuves  == lignes \ cible
      examinees == {ici.phase} \X lignes
  IN /\ trav[w].pc = "ecrire"
     /\ cible' = cible \cup lignes
     /\ PointDeReprise(w)
     /\ written' = [written EXCEPT ![r] = @ + Cardinality(neuves)]
     /\ verrou' = Libre
     /\ trav' = [trav EXCEPT ![w] = [pc |-> IF Termine(w) THEN "terminer" ELSE "boucle",
                                     run |-> r, ici |-> Suivant(w), lot |-> {}]]
     /\ vues' = [vues EXCEPT ![r] = @ \cup examinees]
     /\ revues' = [revues EXCEPT ![r] = @ \cup (vues[r] \cap examinees)]
     /\ ecrites' = [ecrites EXCEPT ![r] = @ \cup neuves]
     /\ UNCHANGED <<etat, bornes, sources, prochain, enVol, pannes, attendues>>

\* After the loop: "completed" whatever the row says, or "paused".
Clore(w) ==
  /\ \/ trav[w].pc = "terminer" /\ Devient(trav[w].run, "completed")
     \/ trav[w].pc = "pauser" /\ Devient(trav[w].run, "paused")
  /\ trav' = [trav EXCEPT ![w] = Repos]
  /\ UNCHANGED <<bornes, point, written, base, pannes, traces>>

Rendu(w) == IF verrou = w THEN Libre ELSE verrou

\* A batch fails: rolled back, and the row says so.
Echouer(w) ==
  /\ trav[w].pc \in {"boucle", "lot", "ecrire"}
  /\ pannes < MaxPannes
  /\ pannes' = pannes + 1
  /\ etat' = [etat EXCEPT ![trav[w].run] = "failed"]
  /\ verrou' = Rendu(w)
  /\ trav' = [trav EXCEPT ![w] = Repos]
  /\ UNCHANGED <<bornes, point, written, sources, prochain, enVol, cible, traces>>

\* The worker dies: its transaction is undone, and the row still says "running".
Mourir(w) ==
  /\ trav[w].pc # "repos"
  /\ pannes < MaxPannes
  /\ pannes' = pannes + 1
  /\ verrou' = Rendu(w)
  /\ trav' = [trav EXCEPT ![w] = Repos]
  /\ UNCHANGED <<journal, sources, prochain, enVol, cible, traces>>

Executer(w) ==
  \/ \E r \in Runs : Charger(w, r)
  \/ Demarrer(w)
  \/ Boucle(w)
  \/ Relire(w)
  \/ Valider(w)
  \/ Clore(w)
  \/ Echouer(w)
  \/ Mourir(w)

Next ==
  \/ \E s \in Segments : EcritureOuverte(s)
  \/ EcritureClose
  \/ \E x \in Lignes : Effacer(x)
  \/ \E r \in Runs : Inscrire(r) \/ MettreEnPause(r)
  \/ \E w \in Travailleurs : Executer(w)

Spec == Init /\ [][Next]_vars

(***************************************************************************)
(* Properties.                                                             *)
(***************************************************************************)

Places == [phase : Phases, i : Segments, curseur : 0..MaxId]

\* Type invariant: the lock is held by whoever has a transaction open, and a
\* batch holds rows of the source it is at.
TypeOK ==
  /\ etat \in [Runs -> Vivant \cup {"absent", "completed", "failed"}]
  /\ bornes \in [Runs -> [Segments -> 0..MaxId]]
  /\ point \in [Runs -> Places]
  /\ written \in [Runs -> Nat]
  /\ sources \in [Segments -> SUBSET (1..MaxId)]
  /\ prochain \in [Segments -> 1..(MaxId + 1)]
  /\ enVol \subseteq Lignes
  /\ cible \subseteq Lignes
  /\ \A w \in Travailleurs :
       /\ trav[w].pc \in {"repos", "demarrer", "boucle", "lot", "ecrire", "terminer", "pauser"}
       /\ trav[w].run \in Runs \cup {Libre}
       /\ trav[w].ici \in Places
       /\ trav[w].lot \subseteq sources[trav[w].ici.i]
       /\ trav[w].pc = "ecrire" <=> verrou = w
  /\ enVol # {} <=> verrou = "ecrivain"
  /\ pannes \in 0..MaxPannes

\* "il n'y a ni trou...": a completed run has projected every row committed or
\* in flight when it was planned, but for those rolled back or erased since,
\* whatever died, failed or was paused on the way.
Complet ==
  \A r \in Runs : etat[r] = "completed" => attendues[r] \cap Validees \subseteq cible

\* "...ni doublon": the journal counts each row written once, over all the
\* executions of the run, and no batch is done again after a death.  The one
\* exception: a death between the last batch and "completed" has the last source
\* read again.
SansDoublon ==
  \A r \in Runs : /\ written[r] = Cardinality(ecrites[r])
                  /\ \A x \in revues[r] : x[1] = "reconciliation" /\ x[2][1] = NbSegments

\* No projection of a row that is not in its source any more: a batch never
\* brings back what an erasure has just taken.
RienDeRessuscite == cible \subseteq Validees

\* "un seul travailleur par application": two executions never run at once.
\* TLC refutes it: the passage to running asks nothing of the state of the run
\* (README, counterexamples without a run).
EnCours(w) == trav[w].pc \in {"boucle", "lot", "ecrire"}
UnSeulTravailleur ==
  \A v, w \in Travailleurs : EnCours(v) /\ EnCours(w) => v = w
===============================================================================
