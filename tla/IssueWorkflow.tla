---------------------------- MODULE IssueWorkflow ----------------------------
(***************************************************************************)
(* The issues of one application whose errors are grouped                  *)
(* (packages/backend/lib/error-grouping.mjs, the function                  *)
(* error_issue_record_occurrences of migration-v74, purge_rum_app and      *)
(* privacy_reconcilier_issues of migrations v81 and v82, and the triage of *)
(* apps/console/lib/error-issue-workflow.ts).                              *)
(*                                                                         *)
(* A batch of errors creates the issues it needs, writes its rows, then    *)
(* moves the bounds of its issues and reopens one resolved too early.      *)
(* Users decide of the status of an issue they have read; retention and    *)
(* erasure remove rows and issues.                                         *)
(*                                                                         *)
(* Transactions are at READ COMMITTED: a statement reads what is committed *)
(* and what its own transaction wrote; a row updated or deleted stays      *)
(* locked until the commit.  A step is a statement, or several that follow *)
(* each other and between which the others can change nothing they read    *)
(* but what retention deletes: the three lookups of a batch                *)
(* (Chercher), its inserts (Ecrire), the lock of a user and the reference  *)
(* of the resolution read under it (Verrouiller).  Batches and erasures    *)
(* hold the lock of the application, so there is one of them at a time;    *)
(* consoles and retention do not take it.  The barriers of an erasure are  *)
(* enforced.                                                               *)
(*                                                                         *)
(* A version stands for a release of one environment; every error names    *)
(* one, and Inconnue is that of a resolution without a reference.          *)
(* Activity, comments, assignees and audit follow the status in the same   *)
(* transaction and are left out, but for the revision they count.          *)
(***************************************************************************)
EXTENDS Naturals, FiniteSets, FiniteSetsExt, Functions

CONSTANTS
  Erreurs,       \* errors: [nom, cle, empreinte, ts, version]
  Anciennes,     \* those written before the grouping was activated
  Sujet,         \* those of a person who may ask for erasure
  Lots,          \* batches a client may send, and send again
  Historique,    \* error_status of each fingerprint: [statut, resoluLe]
  Deployee,      \* first deployment marker of each version, 0 without one
  Inconnue,      \* no version
  Avance,        \* how far ahead of the database the clock of a client may be
  Utilisateurs,  \* users of the console
  Decisions,     \* what they may ask: a status, or "note" for the rest
  Retention,     \* app_registry.retention_days
  MaxHorloge,    \* bound on time
  MaxIssues,     \* bound on the issues ever created
  MaxRevision    \* bound on the revision at which a user decides

Statuts    == {"open", "for_review", "resolved", "ignored"}
Ids        == 1..MaxIssues
Cles       == {e.cle : e \in Erreurs}
Empreintes == {e.empreinte : e \in Erreurs}
Versions   == DOMAIN Deployee

ASSUME ErreursAssumption ==
  /\ \A e \in Erreurs : e.ts \in Nat /\ e.version \in Versions
  /\ Inconnue \notin Versions /\ Deployee \in [Versions -> Nat]
  /\ Anciennes \subseteq Erreurs /\ Sujet \subseteq Erreurs
  /\ \A l \in Lots : l \subseteq Erreurs \ Anciennes
  /\ IsFiniteSet(Erreurs)
  /\ Historique \in [Empreintes -> [statut : {"open", "resolved", "ignored"}, resoluLe : Nat]]
ASSUME DecisionsAssumption == Decisions \subseteq Statuts \cup {"note"}
ASSUME BornesAssumption ==
  /\ Avance \in Nat /\ Retention \in Nat /\ MaxHorloge \in Nat /\ MaxIssues \in Nat /\ MaxRevision \in Nat

VARIABLES
  horloge,   \* the clock of the database
  lignes,    \* rum_error: the rows committed
  issueDe,   \* rum_error.issue_id, 0 for null
  issues,    \* error_issue
  alias,     \* error_issue_alias: <<fingerprint, issue>>
  avis,      \* error_issue_notification: its event keys
  prochaine, \* next identifier of an issue
  efface,    \* the subject was erased, and its barrier refuses it
  lot,       \* the transaction of a batch
  purge,     \* the transaction of retention
  ecran,     \* what each user reads: an issue, its revision and status
  triage     \* the transaction of each user

vars == <<horloge, lignes, issueDe, issues, alias, avis, prochaine, efface, lot, purge, ecran, triage>>
base == <<lignes, issueDe, issues, alias, avis>>

Absente == [cle |-> "", statut |-> "absente", source |-> "system", premiere |-> 0, derniere |-> 0,
            resoluLe |-> 0, ref |-> Inconnue, revision |-> 0]
Vives == {i \in Ids : issues[i].statut # "absente"}

PasDeLot    == [etape |-> "repos", recues |-> {}, fraiches |-> {}, cible |-> [k \in Cles |-> 0],
                creees |-> {}, vues |-> {}, ecrites |-> {}, nouveaux |-> {}, reste |-> {},
                tient |-> {}, brouillon |-> [i \in Ids |-> Absente], avis |-> {}]
PasDePurge  == [etape |-> "repos", coupure |-> 0, lignes |-> {}, reste |-> {}, supprime |-> {}]
PasDEcran   == [issue |-> 0, revision |-> 0, statut |-> "absente"]
PasDeTriage == [issue |-> 0, demande |-> "note", vu |-> "absente", le |-> 0, ref |-> Inconnue]

\* Rows are there already; time 0 stands for no resolution.
Init ==
  /\ horloge \in 1..MaxHorloge /\ \A e \in Anciennes : e.ts <= horloge + Avance
  /\ lignes = Anciennes /\ issueDe = [e \in Erreurs |-> 0]
  /\ issues = [i \in Ids |-> Absente] /\ alias = {} /\ avis = {} /\ prochaine = 1 /\ efface = FALSE
  /\ lot = PasDeLot /\ purge = PasDePurge
  /\ ecran = [u \in Utilisateurs |-> PasDEcran] /\ triage = [u \in Utilisateurs |-> PasDeTriage]

Avancer ==
  /\ horloge < MaxHorloge
  /\ horloge' = horloge + 1
  /\ UNCHANGED <<base, prochaine, efface, lot, purge, ecran, triage>>

\* Row locks.  A batch that adds an alias shares the key of its issue, which
\* only a deletion waits for.
TenueParLot(i)   == i \in lot.tient
TenueParTriage(i) == \E u \in Utilisateurs : triage[u].issue = i
TenueParPurge(i) == i \in purge.supprime
Partagee(i)      == lot.etape \in {"finaliser", "juger"} /\ \E a \in lot.nouveaux : a[2] = i

-----------------------------------------------------------------------------
(* A batch *)

Instants(S) == {e.ts : e \in S}
DeCle(S, k) == {e \in S : e.cle = k}
DEmpreintes(S, F) == {e \in S : e.empreinte \in F}

\* groupesHistoriques: the fingerprints with a row before this batch.
Connues(F) == {f \in F : DEmpreintes(lot.vues, {f}) # {}}
StatutsDe(F) == {Historique[f].statut : f \in Connues(F)}

\* regrouperErreurs, first reads.  Once every row is written, a batch sent
\* again changes nothing.
Recevoir(l) ==
  LET admises == IF efface THEN l \ Sujet ELSE l
  IN  /\ lot.etape = "repos"
      /\ \A e \in l : e.ts <= horloge + Avance
      /\ ~(admises \subseteq lignes)
      /\ lot' = [PasDeLot EXCEPT !.etape = "chercher", !.recues = admises, !.fraiches = admises \ lignes]
      /\ UNCHANGED <<horloge, base, prochaine, efface, purge, ecran, triage>>

\* issuesExistantes, then the aliases and groupesHistoriques.
Chercher ==
  LET trouvee == [k \in Cles |->
        IF DeCle(lot.fraiches, k) = {} THEN {} ELSE {i \in Vives : issues[i].cle = k}]
      cible == [k \in Cles |-> IF trouvee[k] = {} THEN 0 ELSE Max(trouvee[k])]
  IN  /\ lot.etape = "chercher"
      /\ lot' = [lot EXCEPT !.etape = "ecrire", !.cible = cible, !.vues = lignes,
                 !.nouveaux = {<<e.empreinte, cible[e.cle]>> : e \in {x \in lot.fraiches : cible[x.cle] # 0}} \ alias]
      /\ UNCHANGED <<horloge, base, prochaine, efface, purge, ecran, triage>>

\* creerIssues: the status is that of the groups it gathers, when they agree.
Naissance(k) ==
  LET mes == DeCle(lot.fraiches, k)
      F == {e.empreinte : e \in mes}
      T == Instants(mes \cup DEmpreintes(lot.vues, F))
      S == StatutsDe(F)
      statut == CASE S = {} -> "open" [] Cardinality(S) = 1 -> (CHOOSE s \in S : TRUE) [] OTHER -> "for_review"
  IN  [Absente EXCEPT !.cle = k, !.statut = statut, !.source = IF S = {} THEN "system" ELSE "migration",
                      !.premiere = Min(T), !.derniere = Max(T), !.revision = 1,
                      !.resoluLe = IF statut = "resolved" THEN Max({Historique[f].resoluLe : f \in Connues(F)}) ELSE 0]

\* Mutant: the issues found are not looked for in what is missing.
Manquantes_Toutes == {k \in Cles : DeCle(lot.fraiches, k) # {}}

Manquantes == {k \in Cles : DeCle(lot.fraiches, k) # {} /\ lot.cible[k] = 0}

\* creerIssues, the aliases and the rows.  The alias of an issue being deleted
\* waits, and fails if it is: the foreign key.
Ecrire ==
  LET suivante == prochaine + Cardinality(Manquantes)
  IN  /\ lot.etape = "ecrire"
      /\ suivante <= MaxIssues + 1
      /\ \A a \in lot.nouveaux : a[2] \in Vives /\ ~TenueParPurge(a[2])
      /\ lot.recues \cap purge.lignes = {}  \* the unique key of a row being deleted
      /\ prochaine' = suivante
      /\ \E num \in Injection(Manquantes, prochaine..(suivante - 1)) :
           LET cible == [k \in Cles |-> IF k \in Manquantes THEN num[k] ELSE lot.cible[k]]
               creees == {num[k] : k \in Manquantes}
           IN  lot' = [lot EXCEPT
                 !.etape = "finaliser", !.cible = cible, !.creees = creees, !.tient = creees,
                 !.brouillon = [i \in Ids |-> IF i \in creees THEN Naissance(CHOOSE k \in Manquantes : num[k] = i)
                                              ELSE Absente],
                 !.ecrites = lot.recues \ lignes,
                 !.avis = {<<"new", num[k], 0>> : k \in {m \in Manquantes :
                              Connues({e.empreinte : e \in DeCle(lot.fraiches, m)}) = {}}},
                 !.reste = {cible[e.cle] : e \in lot.fraiches}]
      /\ UNCHANGED <<horloge, base, efface, purge, ecran, triage>>

\* The version of an issue the batch sees.
Vue(i) == IF TenueParLot(i) THEN lot.brouillon[i] ELSE issues[i]

\* Mutant: the row of an issue is taken without waiting for a decision.
Libre_SansAttente(i) == TenueParLot(i) \/ ~TenueParPurge(i)

Libre(i) == TenueParLot(i) \/ ~(TenueParTriage(i) \/ TenueParPurge(i))

\* What this batch brings to an issue: its rows, and the groups it attaches.
Siennes(i)  == {e \in lot.ecrites \cap lot.fraiches : lot.cible[e.cle] = i}
Empruntees(i) == {a[1] : a \in {b \in lot.nouveaux : b[2] = i}}
Apport(i)   == Instants(Siennes(i) \cup DEmpreintes(lot.vues, Empruntees(i)))

\* Mutant: the decision of a user weighs no more than a status of migration.
Diverge_SansSource(f, i) ==
  /\ f.statut # "for_review"
  /\ \E s \in StatutsDe(Empruntees(i)) : s # f.statut

Diverge(f, i) ==
  /\ f.source # "user" /\ f.statut # "for_review"
  /\ \E s \in StatutsDe(Empruntees(i)) : s # f.statut

\* Mutant: the change of status does not count as a revision.
Etendue_SansRevision(f, i) ==
  [f EXCEPT !.premiere = Min({@} \cup Apport(i)), !.derniere = Max({@} \cup Apport(i)),
            !.statut = IF Diverge(f, i) THEN "for_review" ELSE @,
            !.source = IF Diverge(f, i) THEN "migration" ELSE @]

\* Mutant: a late row does not move the first view.
Etendue_SansPremiere(f, i) ==
  [f EXCEPT !.derniere = Max({@} \cup Apport(i)),
            !.statut = IF Diverge(f, i) THEN "for_review" ELSE @,
            !.source = IF Diverge(f, i) THEN "migration" ELSE @,
            !.revision = IF Diverge(f, i) THEN @ + 1 ELSE @]

Etendue(f, i) ==
  [f EXCEPT !.premiere = Min({@} \cup Apport(i)), !.derniere = Max({@} \cup Apport(i)),
            !.statut = IF Diverge(f, i) THEN "for_review" ELSE @,
            !.source = IF Diverge(f, i) THEN "migration" ELSE @,
            !.revision = IF Diverge(f, i) THEN @ + 1 ELSE @]

\* finaliserIssues, the update of one issue: an issue nothing changes is not
\* locked; one that is gone is not found.
Finaliser ==
  LET i == Min(lot.reste) f == Vue(i)
  IN  /\ lot.etape = "finaliser" /\ lot.reste # {}
      /\ IF f.statut = "absente" \/ Etendue(f, i) = f
         THEN lot' = [lot EXCEPT !.etape = "juger"]
         ELSE /\ Libre(i)
              /\ lot' = [lot EXCEPT !.etape = "juger", !.tient = @ \cup {i}, !.brouillon[i] = Etendue(f, i)]
      /\ UNCHANGED <<horloge, base, prochaine, efface, purge, ecran, triage>>

\* A row later than the resolution, of a version deployed after its reference.
Confirme(e, f) ==
  /\ e.ts > f.resoluLe
  /\ f.ref # Inconnue /\ e.version # Inconnue
  /\ Deployee[f.ref] # 0 /\ Deployee[e.version] > Deployee[f.ref]

Rouverte(f) ==
  [f EXCEPT !.statut = "open", !.source = "system", !.resoluLe = 0, !.ref = Inconnue, !.revision = @ + 1]

\* error_issue_record_occurrences: only a resolved issue is locked.
Juger ==
  LET i == Min(lot.reste) f == Vue(i)
      suite == [lot EXCEPT !.etape = "finaliser", !.reste = @ \ {i}]
  IN  /\ lot.etape = "juger"
      /\ IF Siennes(i) = {} \/ f.statut # "resolved" THEN lot' = suite
         ELSE /\ Libre(i)
              /\ IF f.resoluLe # 0 /\ \E e \in Siennes(i) : Confirme(e, f)
                 THEN lot' = [suite EXCEPT !.tient = @ \cup {i}, !.brouillon[i] = Rouverte(f),
                                           !.avis = @ \cup {<<"regression", i, f.resoluLe>>}]
                 ELSE lot' = [suite EXCEPT !.tient = @ \cup {i}, !.brouillon[i] = f]
      /\ UNCHANGED <<horloge, base, prochaine, efface, purge, ecran, triage>>

\* The commit.
Valider ==
  /\ lot.etape = "finaliser" /\ lot.reste = {}
  /\ lignes' = lignes \cup lot.ecrites
  /\ issueDe' = [e \in Erreurs |-> IF e \notin lot.ecrites THEN issueDe[e]
                                   ELSE IF e \in lot.fraiches THEN lot.cible[e.cle] ELSE 0]
  /\ issues' = [i \in Ids |-> IF i \in lot.tient THEN lot.brouillon[i] ELSE issues[i]]
  /\ alias' = alias \cup {<<e.empreinte, lot.cible[e.cle]>> : e \in lot.fraiches}
  /\ avis' = avis \cup lot.avis
  /\ lot' = PasDeLot
  /\ UNCHANGED <<horloge, prochaine, efface, purge, ecran, triage>>

\* A deadline, a deadlock, a foreign key, the death of the process: rolled back.
\* The identifiers drawn are lost.
Echouer ==
  /\ lot.etape # "repos"
  /\ lot' = PasDeLot
  /\ UNCHANGED <<horloge, base, prochaine, efface, purge, ecran, triage>>

-----------------------------------------------------------------------------
(* The console *)

Lire(u) ==
  /\ triage[u] = PasDeTriage
  /\ \E i \in Vives :
       ecran' = [ecran EXCEPT ![u] = [issue |-> i, revision |-> issues[i].revision, statut |-> issues[i].statut]]
  /\ UNCHANGED <<horloge, base, prochaine, efface, lot, purge, triage>>

\* referenceResolution: the version of the last row attached.
Reference(i) ==
  LET R == {e \in lignes : issueDe[e] = i /\ e.ts = issues[i].derniere}
  IN  IF R = {} THEN {Inconnue} ELSE {e.version : e \in R}

Actuelle(u) == ecran[u].issue \in Vives /\ issues[ecran[u].issue].revision = ecran[u].revision

\* muter and the first statements of triageIssue and commentIssue: the row is
\* locked, then compared with what the user read; gone or changed, the answer
\* is not_found or conflict.
Verrouiller(u, d) ==
  LET i == ecran[u].issue
  IN  /\ i # 0 /\ triage[u] = PasDeTriage
      /\ ~(TenueParLot(i) \/ TenueParPurge(i) \/ TenueParTriage(i))
      /\ IF Actuelle(u)
         THEN /\ ecran[u].revision < MaxRevision
              /\ d # ecran[u].statut
              /\ \E r \in Reference(i) :
                   triage' = [triage EXCEPT ![u] = [issue |-> i, demande |-> d, vu |-> ecran[u].statut,
                                                    le |-> horloge, ref |-> IF d = "resolved" THEN r ELSE Inconnue]]
              /\ UNCHANGED ecran
         ELSE ecran' = [ecran EXCEPT ![u] = PasDEcran] /\ UNCHANGED triage
      /\ UNCHANGED <<horloge, base, prochaine, efface, lot, purge>>

Decidee(f, t) ==
  IF t.demande = "note" THEN [f EXCEPT !.revision = @ + 1]
  ELSE [f EXCEPT !.statut = t.demande, !.source = "user", !.ref = t.ref, !.revision = @ + 1,
                 !.resoluLe = IF t.demande = "resolved" THEN t.le ELSE 0]

\* The commit of a decision or of a comment.
Decider(u) ==
  LET i == triage[u].issue
  IN  /\ i # 0
      /\ issues' = [issues EXCEPT ![i] = Decidee(@, triage[u])]
      /\ triage' = [triage EXCEPT ![u] = PasDeTriage] /\ ecran' = [ecran EXCEPT ![u] = PasDEcran]
      /\ UNCHANGED <<horloge, lignes, issueDe, alias, avis, prochaine, efface, lot, purge>>

Renoncer(u) ==
  /\ triage[u].issue # 0
  /\ triage' = [triage EXCEPT ![u] = PasDeTriage]
  /\ UNCHANGED <<horloge, base, prochaine, efface, lot, purge, ecran>>

-----------------------------------------------------------------------------
(* Retention and erasure *)

Sans(S) == [e \in Erreurs |-> IF e \in S THEN 0 ELSE issueDe[e]]

\* purge_rum_app deletes the rows, then the issues last seen before the cutoff.
PurgerLignes ==
  /\ purge.etape = "repos" /\ horloge >= Retention
  /\ LET c == horloge - Retention
     IN purge' = [PasDePurge EXCEPT !.etape = "issues", !.coupure = c, !.lignes = {e \in lignes : e.ts < c}]
  /\ UNCHANGED <<horloge, base, prochaine, efface, lot, ecran, triage>>

Perimee(i) == issues[i].derniere < purge.coupure

PurgerIssues ==
  /\ purge.etape = "issues"
  /\ purge' = [purge EXCEPT !.etape = "supprimer", !.reste = {i \in Vives : Perimee(i)}]
  /\ UNCHANGED <<horloge, base, prochaine, efface, lot, ecran, triage>>

\* Once the row is free, the condition is evaluated again on its last version.
SupprimerIssue(i) ==
  /\ purge.etape = "supprimer" /\ i \in purge.reste
  /\ ~(TenueParLot(i) \/ TenueParTriage(i) \/ Partagee(i))
  /\ purge' = [purge EXCEPT !.reste = @ \ {i},
                            !.supprime = IF i \in Vives /\ Perimee(i) THEN @ \cup {i} ELSE @]
  /\ UNCHANGED <<horloge, base, prochaine, efface, lot, ecran, triage>>

\* What goes with an issue, by cascade.
Cascade(S) ==
  /\ alias' = {a \in alias : a[2] \notin S}
  /\ avis' = {a \in avis : a[2] \notin S}

ValiderPurge ==
  /\ purge.etape = "supprimer" /\ purge.reste = {}
  /\ lignes' = lignes \ purge.lignes /\ issueDe' = Sans(purge.lignes)
  /\ issues' = [i \in Ids |-> IF i \in purge.supprime THEN Absente ELSE issues[i]]
  /\ Cascade(purge.supprime)
  /\ purge' = PasDePurge
  /\ UNCHANGED <<horloge, prochaine, efface, lot, ecran, triage>>

AnnulerPurge ==
  /\ purge.etape # "repos"
  /\ purge' = PasDePurge
  /\ UNCHANGED <<horloge, base, prochaine, efface, lot, ecran, triage>>

\* privacy_reconcilier_issues: no row left, the issue goes; else its bounds are
\* those of the rows that remain.
Reconciliee(i, R) ==
  LET T == Instants({e \in R : issueDe[e] = i})
  IN  IF T = {} THEN Absente ELSE [issues[i] EXCEPT !.premiere = Min(T), !.derniere = Max(T)]

\* An erasure of the person, under the lock of the application; its barrier
\* refuses what comes back.
Effacer ==
  LET partantes == lignes \cap Sujet
      touchees == {issueDe[e] : e \in partantes} \cap Vives
      apres == [i \in Ids |-> IF i \in touchees THEN Reconciliee(i, lignes \ Sujet) ELSE issues[i]]
  IN  /\ ~efface /\ lot.etape = "repos"
      /\ partantes \cap purge.lignes = {}
      /\ \A i \in touchees : apres[i] # issues[i] => ~(TenueParTriage(i) \/ TenueParPurge(i))
      /\ efface' = TRUE
      /\ lignes' = lignes \ Sujet /\ issueDe' = Sans(Sujet)
      /\ issues' = apres
      /\ Cascade({i \in touchees : apres[i] = Absente})
      /\ UNCHANGED <<horloge, prochaine, lot, purge, ecran, triage>>

-----------------------------------------------------------------------------
Next ==
  \/ Avancer
  \/ \E l \in Lots : Recevoir(l)
  \/ Chercher \/ Ecrire \/ Finaliser \/ Juger \/ Valider \/ Echouer
  \/ \E u \in Utilisateurs : Lire(u) \/ Decider(u) \/ Renoncer(u) \/ \E d \in Decisions : Verrouiller(u, d)
  \/ PurgerLignes \/ PurgerIssues \/ ValiderPurge \/ AnnulerPurge \/ \E i \in Ids : SupprimerIssue(i)
  \/ Effacer

Spec == Init /\ [][Next]_vars

-----------------------------------------------------------------------------
(* Properties *)

Issue == [cle : Cles \cup {""}, statut : Statuts \cup {"absente"}, source : {"system", "migration", "user"},
          premiere : Nat, derniere : Nat, resoluLe : Nat, ref : Versions \cup {Inconnue}, revision : Nat]

\* Type invariant, the versions that a batch has drafted included; with the uniqueness
\* of (app_id, grouping_version, grouping_key) in error_issue, which an insert "on
\* conflict" made of what was read a step earlier relies on.
TypeOK ==
  /\ horloge \in 1..MaxHorloge /\ prochaine \in 1..(MaxIssues + 1) /\ efface \in BOOLEAN
  /\ lignes \subseteq Erreurs /\ issueDe \in [Erreurs -> Ids \cup {0}]
  /\ \A i \in Ids : issues[i] \in Issue /\ lot.brouillon[i] \in Issue
  /\ \A i, j \in Vives : issues[i].cle = issues[j].cle => i = j
  /\ lot.etape \in {"repos", "chercher", "ecrire", "finaliser", "juger"} /\ lot.tient \subseteq Ids
  /\ purge.etape \in {"repos", "issues", "supprimer"}
  /\ \A u \in Utilisateurs : triage[u].issue \in Ids \cup {0} /\ triage[u].demande \in Statuts \cup {"note"}

\* A user decides of the status seen on the screen: from the moment the row is
\* locked to the commit, the status of the issue is the one the user read, because
\* every change of it moved the revision (error-issue-workflow.ts: « révision
\* attendue »).
DecisionSurLeVu == \A u \in Utilisateurs : triage[u].issue # 0 => issues[triage[u].issue].statut = triage[u].vu

\* No regression is missed: while an issue is resolved, no row attached to it is
\* later than the resolution and of a version deployed after its reference, though
\* a batch reads the status without a lock while a decision is under way
\* (error_issue_record_occurrences).
RegressionVue ==
  \A i \in Vives : issues[i].statut = "resolved" =>
    \A e \in lignes : issueDe[e] = i => ~Confirme(e, issues[i])

\* What a user decided, only a user changes, but for a resolution that a
\* regression reopens (DIVERGE: « status_source <> 'user' »).
StatutHumain ==
  [][\A i \in Ids :
       (i \in Vives /\ issues[i].source = "user" /\ i \in Vives' /\ issues'[i].statut # issues[i].statut) =>
         \/ \E u \in Utilisateurs : triage[u].issue = i /\ triage[u].demande = issues'[i].statut
         \/ /\ issues[i].statut = "resolved" /\ issues'[i].statut = "open"
            /\ \E e \in lignes' : issueDe'[e] = i /\ Confirme(e, issues[i])]_vars

\* The first and last views of an issue cover the rows attached to it, whatever
\* the batches, retention and erasure do in between: purge_rum_app decides of an
\* issue by its last view alone.
BornesCouvrent ==
  \A e \in lignes : issueDe[e] \in Vives =>
    issues[issueDe[e]].premiere <= e.ts /\ e.ts <= issues[issueDe[e]].derniere

\* Not true of the code, see the README: a row names an issue that exists
\* (migration-v72: « une issue n'est purgée qu'après toutes ses occurrences »).
RattachementVivant == \A e \in lignes : issueDe[e] # 0 => issueDe[e] \in Vives
=============================================================================
