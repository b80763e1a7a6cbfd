------------------------- MODULE IssueWorkflow_proof -------------------------
(***************************************************************************)
(* What the issues promise, for any batches, users, decisions, retention   *)
(* and erasure: DecisionSurLeVu from IInv, then the types, the bounds, the *)
(* regressions and the decisions of users from DInv, which adds the data.  *)
(*                                                                         *)
(* While a decision is under way the row is locked; what matters is what   *)
(* happened since the user read it.  IInv says that the revision on a      *)
(* screen is at most that of the issue, and that when it is the same the   *)
(* status is too (Ecrans); that this is kept by the versions a batch has   *)
(* not committed yet (Brouillons); and that an identifier, once drawn, is  *)
(* that of one issue for ever (Creations), so that a screen left open      *)
(* never meets another issue under the same identifier.                    *)
(***************************************************************************)
EXTENDS IssueWorkflow, FiniteSetTheorems, WellFoundedInduction, TLAPS

\* A version of an issue, and one that follows it: a revision does not go back,
\* and a status does not change under one.
Champs == {"cle", "statut", "source", "premiere", "derniere", "resoluLe", "ref", "revision"}
Fiche(f) == f = [x \in Champs |-> f[x]] /\ f.revision \in Nat

Suit(g, f) == g.revision >= f.revision /\ (g.revision = f.revision => g.statut = f.statut)

ChampsLot == {"etape", "recues", "fraiches", "cible", "creees", "vues", "ecrites", "nouveaux", "reste",
              "tient", "brouillon", "avis"}
FormeLot(l) ==
  /\ l = [x \in ChampsLot |-> l[x]]
  /\ l.brouillon = [i \in Ids |-> l.brouillon[i]]
  /\ \A i \in Ids : Fiche(l.brouillon[i])

ChampsPurge == {"etape", "coupure", "lignes", "reste", "supprime"}
FormePurge(p) == p = [x \in ChampsPurge |-> p[x]]

Formes ==
  /\ prochaine \in Nat
  /\ issues = [i \in Ids |-> issues[i]] /\ \A i \in Ids : Fiche(issues[i])
  /\ FormeLot(lot) /\ FormePurge(purge)
  /\ ecran = [u \in Utilisateurs |-> ecran[u]]
  /\ \A u \in Utilisateurs : ecran[u].revision \in Nat
  /\ triage = [u \in Utilisateurs |-> triage[u]]

\* Identifiers are drawn in order.
Tires ==
  /\ \A i \in Ids : i \in Vives \/ i \in purge.supprime \/ i \in lot.tient => i < prochaine
  /\ \A u \in Utilisateurs : ecran[u].issue \in Ids => ecran[u].issue < prochaine

Ecrans == \A u \in Utilisateurs : ecran[u].issue \in Vives => Suit(issues[ecran[u].issue], ecran[u])

\* What the batch created, nobody has seen; nobody will see it before the commit.
Creations ==
  /\ lot.creees \subseteq lot.tient
  /\ \A i \in Ids \cap lot.creees : i \notin Vives /\ \A u \in Utilisateurs : ecran[u].issue # i

\* What it updates exists, is locked, and its version follows the committed one.
Brouillons ==
  /\ lot.etape \in {"repos", "chercher", "ecrire"} => lot.tient = {}
  /\ \A i \in Ids \cap lot.tient : i \notin purge.supprime /\ (i \notin lot.creees => i \in Vives /\ Suit(lot.brouillon[i], issues[i]))

\* Who decides holds the row alone.
Verrous ==
  \A u \in Utilisateurs : triage[u].issue # 0 =>
    /\ triage[u].issue \in Vives /\ issues[triage[u].issue].statut = triage[u].vu
    /\ triage[u].issue \notin lot.tient /\ triage[u].issue \notin purge.supprime
    /\ \A v \in Utilisateurs : triage[v].issue = triage[u].issue => v = u

IInv == Formes /\ Tires /\ Ecrans /\ Creations /\ Brouillons /\ Verrous

-----------------------------------------------------------------------------
\* A finite number of errors, so of keys and of timestamps.
LEMMA ImageFinie ==
  ASSUME NEW S, IsFiniteSet(S), NEW f, f \in [S -> {f[x] : x \in S}]
  PROVE  IsFiniteSet({f[x] : x \in S})
  <1>1. f \in Surjection(S, {f[x] : x \in S})
    BY DEF Surjection
  <1> QED BY <1>1, FS_Surjection

LEMMA ClesFinies == IsFiniteSet(Cles)
  <1> DEFINE f == [e \in Erreurs |-> e.cle]
  <1>1. Cles = {f[e] : e \in Erreurs} /\ f \in [Erreurs -> {f[e] : e \in Erreurs}]
    BY DEF Cles
  <1> HIDE DEF f
  <1> QED BY <1>1, ErreursAssumption, ImageFinie

LEMMA FicheAbsente == Fiche(Absente) /\ Absente.statut = "absente"
  BY DEF Fiche, Champs, Absente

LEMMA FormeRepos == FormeLot(PasDeLot) /\ FormePurge(PasDePurge)
  <1>1. \A i \in Ids : PasDeLot.brouillon[i] = Absente
    BY DEF PasDeLot
  <1>2. PasDeLot.brouillon = [i \in Ids |-> PasDeLot.brouillon[i]]
    BY DEF PasDeLot
  <1> QED BY <1>1, <1>2, FicheAbsente DEF FormeLot, FormePurge, ChampsLot, ChampsPurge, PasDeLot, PasDePurge

LEMMA DepartIInv ==
  ASSUME Init
  PROVE  IInv
  <1> USE DEF Init
  <1>1. Formes
    BY FormeRepos, FicheAbsente DEF Formes, PasDEcran
  <1>2. Vives = {}
    BY FicheAbsente DEF Vives
  <1>3. lot.tient = {} /\ lot.creees = {} /\ purge.supprime = {}
    BY DEF PasDeLot, PasDePurge
  <1>4. \A u \in Utilisateurs : ecran[u].issue = 0 /\ triage[u].issue = 0
    BY DEF PasDEcran, PasDeTriage
  <1>5. 0 \notin Ids
    BY DEF Ids
  <1> QED BY <1>1, <1>2, <1>3, <1>4, <1>5 DEF IInv, Tires, Ecrans, Creations, Brouillons, Verrous

-----------------------------------------------------------------------------
(* Versions *)

LEMMA SuitTransitif ==
  ASSUME NEW f, NEW g, NEW h, f.revision \in Nat, g.revision \in Nat, h.revision \in Nat, Suit(g, f), Suit(h, g)
  PROVE  Suit(h, f)
  BY DEF Suit

\* An extension moves the revision with the status.
LEMMA EtendueSuit ==
  ASSUME NEW f, NEW i, Fiche(f)
  PROVE  Fiche(Etendue(f, i)) /\ Suit(Etendue(f, i), f)
  <1>1. Etendue(f, i) = [x \in Champs |-> Etendue(f, i)[x]]
    BY DEF Fiche, Etendue
  <1>2. Etendue(f, i).revision = IF Diverge(f, i) THEN f.revision + 1 ELSE f.revision
    BY DEF Fiche, Champs, Etendue
  <1>3. ~Diverge(f, i) => Etendue(f, i).statut = f.statut
    BY DEF Fiche, Champs, Etendue
  <1> QED BY <1>1, <1>2, <1>3 DEF Fiche, Suit

LEMMA RouverteSuit ==
  ASSUME NEW f, Fiche(f)
  PROVE  Fiche(Rouverte(f)) /\ Suit(Rouverte(f), f)
  <1>1. Rouverte(f) = [x \in Champs |-> Rouverte(f)[x]]
    BY DEF Fiche, Rouverte
  <1>2. Rouverte(f).revision = f.revision + 1
    BY DEF Fiche, Champs, Rouverte
  <1> QED BY <1>1, <1>2 DEF Fiche, Suit

LEMMA FicheNaissance ==
  ASSUME NEW k
  PROVE  Fiche(Naissance(k))
  <1> DEFINE mes == DeCle(lot.fraiches, k)
             F == {e.empreinte : e \in mes}
             T == Instants(mes \cup DEmpreintes(lot.vues, F))
             S == StatutsDe(F)
             st == CASE S = {} -> "open" [] Cardinality(S) = 1 -> (CHOOSE s \in S : TRUE) [] OTHER -> "for_review"
             so == IF S = {} THEN "system" ELSE "migration"
             p == Min(T)
             d == Max(T)
             r == IF st = "resolved" THEN Max({Historique[f].resoluLe : f \in Connues(F)}) ELSE 0
  <1>1. Naissance(k) = [Absente EXCEPT !.cle = k, !.statut = st, !.source = so, !.premiere = p, !.derniere = d,
                                       !.revision = 1, !.resoluLe = r]
    BY DEF Naissance
  <1> HIDE DEF st, so, p, d, r
  <1>2. Naissance(k) = [x \in Champs |-> Naissance(k)[x]]
    BY <1>1, FicheAbsente DEF Fiche
  <1>3. Naissance(k).revision = 1
    BY <1>1 DEF Absente
  <1> QED BY <1>2, <1>3 DEF Fiche

LEMMA DecideeSuit ==
  ASSUME NEW f, NEW t, Fiche(f)
  PROVE  Fiche(Decidee(f, t)) /\ Decidee(f, t).revision = f.revision + 1
  <1>1. Decidee(f, t) = [x \in Champs |-> Decidee(f, t)[x]]
    BY DEF Fiche, Decidee
  <1>2. Decidee(f, t).revision = f.revision + 1
    BY DEF Fiche, Champs, Decidee
  <1> QED BY <1>1, <1>2 DEF Fiche

\* New bounds leave status and revision alone.
LEMMA ReconcilieeSuit ==
  ASSUME NEW i, NEW R, Fiche(issues[i])
  PROVE  /\ Fiche(Reconciliee(i, R))
         /\ \/ Reconciliee(i, R) = Absente
            \/ /\ Reconciliee(i, R).revision = issues[i].revision
               /\ Reconciliee(i, R).statut = issues[i].statut
  <1> DEFINE r == Reconciliee(i, R)
             T == Instants({e \in R : issueDe[e] = i})
  <1>1. CASE T = {}
    BY <1>1, FicheAbsente DEF Reconciliee
  <1>2. CASE T # {}
    <2>1. r = [issues[i] EXCEPT !.premiere = Min(T), !.derniere = Max(T)]
      BY <1>2 DEF Reconciliee
    <2> HIDE DEF r, T
    <2>2. r = [x \in Champs |-> r[x]]
      BY <2>1 DEF Fiche
    <2>3. r.revision = issues[i].revision /\ r.statut = issues[i].statut
      BY <2>1 DEF Fiche, Champs
    <2>4. Fiche(r)
      BY <2>2, <2>3 DEF Fiche
    <2> QED BY <2>3, <2>4 DEF r
  <1> QED BY <1>1, <1>2

\* What a batch sees of an issue.
LEMMA FicheVue ==
  ASSUME IInv, NEW i \in Ids
  PROVE  Fiche(Vue(i))
  BY DEF IInv, Formes, FormeLot, Vue

-----------------------------------------------------------------------------
(* Steps *)

\* A step of a batch that holds nothing yet, or no longer.
LEMMA LotSansVerrou ==
  ASSUME IInv, FormeLot(lot'), lot'.tient = {}, lot'.creees = {},
         UNCHANGED <<issues, prochaine, purge, ecran, triage>>
  PROVE  IInv'
  <1>1. Formes'
    BY DEF IInv, Formes
  <1>2. Vives' = Vives
    BY DEF Vives
  <1> QED BY <1>1, <1>2 DEF IInv, Tires, Ecrans, Creations, Brouillons, Verrous

LEMMA RecevoirIInv ==
  ASSUME IInv, NEW l \in Lots, Recevoir(l)
  PROVE  IInv'
  <1>1. PICK r, f : lot' = [PasDeLot EXCEPT !.etape = "chercher", !.recues = r, !.fraiches = f]
    BY DEF Recevoir
  <1>2. lot'.tient = {} /\ lot'.creees = {} /\ lot'.brouillon = PasDeLot.brouillon
    BY <1>1 DEF PasDeLot
  <1>3. lot' = [x \in ChampsLot |-> lot'[x]]
    BY <1>1, FormeRepos DEF FormeLot
  <1>4. FormeLot(lot')
    BY <1>2, <1>3, FormeRepos DEF FormeLot
  <1> QED BY <1>2, <1>4, LotSansVerrou DEF Recevoir, base

LEMMA ChercherIInv ==
  ASSUME IInv, Chercher
  PROVE  IInv'
  <1>0. FormeLot(lot) /\ lot.tient = {} /\ lot.creees = {}
    BY DEF IInv, Formes, Brouillons, Creations, Chercher
  <1>1. PICK c, v, n : lot' = [lot EXCEPT !.etape = "ecrire", !.cible = c, !.vues = v, !.nouveaux = n]
    BY DEF Chercher
  <1>2. lot'.tient = {} /\ lot'.creees = {} /\ lot'.brouillon = lot.brouillon
    BY <1>0, <1>1 DEF FormeLot, ChampsLot
  <1>3. lot' = [x \in ChampsLot |-> lot'[x]]
    BY <1>0, <1>1 DEF FormeLot
  <1>4. FormeLot(lot')
    BY <1>0, <1>2, <1>3 DEF FormeLot
  <1> QED BY <1>2, <1>4, LotSansVerrou DEF Chercher, base

LEMMA EchouerIInv ==
  ASSUME IInv, Echouer
  PROVE  IInv'
  <1>1. lot'.tient = {} /\ lot'.creees = {} /\ FormeLot(lot')
    BY FormeRepos DEF Echouer, PasDeLot
  <1> QED BY <1>1, LotSansVerrou DEF Echouer, base

\* The rows of the batch are written: the identifiers it draws are new.
LEMMA EcrireIInv ==
  ASSUME IInv, Ecrire
  PROVE  IInv'
  <1> DEFINE suivante == prochaine + Cardinality(Manquantes)
  <1>1. Cardinality(Manquantes) \in Nat
    <2>1. Manquantes \in SUBSET Cles
      BY DEF Manquantes
    <2> QED BY <2>1, ClesFinies, FS_Subset, FS_CardinalityType
  <1>2. prochaine \in Nat /\ suivante \in Nat /\ prochaine' = suivante /\ prochaine' >= prochaine
    BY <1>1 DEF IInv, Formes, Ecrire
  <1>3. PICK num \in Injection(Manquantes, prochaine..(suivante - 1)) :
          LET cible == [k \in Cles |-> IF k \in Manquantes THEN num[k] ELSE lot.cible[k]]
              creees == {num[k] : k \in Manquantes}
          IN  lot' = [lot EXCEPT
                 !.etape = "finaliser", !.cible = cible, !.creees = creees, !.tient = creees,
                 !.brouillon = [i \in Ids |-> IF i \in creees THEN Naissance(CHOOSE k \in Manquantes : num[k] = i)
                                              ELSE Absente],
                 !.ecrites = lot.recues \ lignes,
                 !.avis = {<<"new", num[k], 0>> : k \in {m \in Manquantes :
                              Connues({e.empreinte : e \in DeCle(lot.fraiches, m)}) = {}}},
                 !.reste = {cible[e.cle] : e \in lot.fraiches}]
    BY DEF Ecrire
  <1> DEFINE creees == {num[k] : k \in Manquantes}
             cible == [k \in Cles |-> IF k \in Manquantes THEN num[k] ELSE lot.cible[k]]
             brouillon == [i \in Ids |-> IF i \in creees THEN Naissance(CHOOSE k \in Manquantes : num[k] = i)
                                         ELSE Absente]
             avisLot == {<<"new", num[k], 0>> : k \in {m \in Manquantes :
                              Connues({e.empreinte : e \in DeCle(lot.fraiches, m)}) = {}}}
             reste == {cible[e.cle] : e \in lot.fraiches}
  <1>4. \A i \in creees : i \in Nat /\ i >= prochaine /\ i < prochaine'
    BY <1>2, <1>3 DEF Injection
  <1>5. \A i \in Ids : Fiche(brouillon[i])
    BY FicheNaissance, FicheAbsente
  <1>6. lot' = [lot EXCEPT !.etape = "finaliser", !.cible = cible, !.creees = creees, !.tient = creees,
                           !.brouillon = brouillon, !.ecrites = lot.recues \ lignes, !.avis = avisLot, !.reste = reste]
    BY <1>3
  <1>7. brouillon = [i \in Ids |-> brouillon[i]]
    OBVIOUS
  <1> HIDE DEF creees, cible, brouillon, avisLot, reste
  <1>8. FormeLot(lot)
    BY DEF IInv, Formes
  <1>9. lot'.tient = creees /\ lot'.creees = creees /\ lot'.brouillon = brouillon /\ lot'.etape = "finaliser"
    BY <1>6, <1>8 DEF FormeLot, ChampsLot
  <1>10. lot' = [x \in ChampsLot |-> lot'[x]]
    BY <1>6, <1>8 DEF FormeLot
  <1>11. FormeLot(lot')
    BY <1>5, <1>7, <1>9, <1>10 DEF FormeLot
  <1>12. UNCHANGED <<issues, purge, ecran, triage>>
    BY DEF Ecrire, base
  <1>13. Vives' = Vives
    BY <1>12 DEF Vives
  <1>14. Formes'
    BY <1>2, <1>11, <1>12 DEF IInv, Formes
  <1>15. Ids \subseteq Nat
    BY BornesAssumption DEF Ids
  <1>16. \A i \in Ids \cap creees : i \notin Vives /\ i \notin purge.supprime /\ \A u \in Utilisateurs : ecran[u].issue # i
    BY <1>2, <1>4, <1>15 DEF IInv, Tires
  <1>17. Tires'
    <2>1. ASSUME NEW i \in Ids, i \in Vives' \/ i \in purge'.supprime \/ i \in lot'.tient
          PROVE  i < prochaine'
      <3>1. i \in creees \/ i < prochaine
        BY <1>9, <1>12, <1>13, <2>1 DEF IInv, Tires
      <3> QED BY <1>2, <1>4, <1>15, <3>1
    <2>2. ASSUME NEW u \in Utilisateurs, ecran'[u].issue \in Ids
          PROVE  ecran'[u].issue < prochaine'
      <3>1. ecran[u].issue \in Nat /\ ecran[u].issue < prochaine
        BY <1>12, <1>15, <2>2 DEF IInv, Tires
      <3> QED BY <1>2, <1>12, <3>1
    <2> QED BY <2>1, <2>2 DEF Tires
  <1>18. Creations' /\ Brouillons' /\ Ecrans'
    BY <1>9, <1>12, <1>13, <1>16 DEF IInv, Creations, Brouillons, Ecrans
  <1>19. Verrous'
    BY <1>9, <1>12, <1>13, <1>16 DEF IInv, Verrous, Vives
  <1> QED BY <1>14, <1>17, <1>18, <1>19 DEF IInv

\* A batch takes a new version of an issue, once its row is free.
LEMMA UneVersion ==
  ASSUME IInv, NEW i, NEW g,
         lot.etape \in {"finaliser", "juger"}, lot'.etape \in {"finaliser", "juger"},
         lot' = [x \in ChampsLot |-> lot'[x]], lot'.creees = lot.creees, lot'.tient = lot.tient \cup {i},
         lot'.brouillon = [lot.brouillon EXCEPT ![i] = g],
         Libre(i), Vue(i).statut # "absente",
         i \in Ids => Fiche(g) /\ Suit(g, Vue(i)),
         UNCHANGED <<issues, prochaine, purge, ecran, triage>>
  PROVE  IInv'
  <1>1. Vives' = Vives
    BY DEF Vives
  <1>2. lot'.brouillon = [j \in Ids |-> lot'.brouillon[j]] /\ \A j \in Ids : lot'.brouillon[j] = IF j = i THEN g ELSE lot.brouillon[j]
    BY DEF IInv, Formes, FormeLot
  <1>3. FormeLot(lot')
    BY <1>2 DEF IInv, Formes, FormeLot
  <1>4. Formes'
    BY <1>3 DEF IInv, Formes
  <1>5. i \in lot.tient \/ (i \notin lot.tient /\ ~TenueParTriage(i) /\ ~TenueParPurge(i) /\ Vue(i) = issues[i] /\ (i \in Ids => i \in Vives))
    BY DEF Libre, TenueParLot, Vue, Vives
  <1>6. Tires' /\ Ecrans'
    BY <1>1, <1>5 DEF IInv, Tires, Ecrans
  <1>7. Creations'
    BY <1>1 DEF IInv, Creations
  <1>8. ASSUME NEW j \in Ids \cap lot'.tient
        PROVE  j \notin purge'.supprime /\ (j \notin lot'.creees => j \in Vives' /\ Suit(lot'.brouillon[j], issues'[j]))
    <2>1. CASE j # i
      BY <1>1, <1>2, <2>1 DEF IInv, Brouillons
    <2>2. CASE j = i /\ i \notin lot.tient
      BY <1>1, <1>2, <1>5, <2>2 DEF TenueParPurge
    <2>3. CASE j = i /\ i \in lot.tient
      <3>1. j \in Ids /\ j \notin purge.supprime /\ (j \notin lot.creees => j \in Vives /\ Suit(lot.brouillon[j], issues[j]))
        BY <2>3 DEF IInv, Brouillons
      <3>2. Suit(g, lot.brouillon[j]) /\ Fiche(g) /\ lot'.brouillon[j] = g
        BY <1>2, <2>3 DEF Vue, TenueParLot
      <3>3. lot.brouillon[j].revision \in Nat /\ issues[j].revision \in Nat /\ g.revision \in Nat
        BY <3>2 DEF IInv, Formes, FormeLot, Fiche
      <3>4. Suit(lot.brouillon[j], issues[j]) => Suit(g, issues[j])
        BY <3>2, <3>3, SuitTransitif
      <3> QED BY <1>1, <3>1, <3>2, <3>4
    <2> QED BY <2>1, <2>2, <2>3
  <1>9. Brouillons'
    BY <1>8 DEF Brouillons
  <1>10. Verrous'
    BY <1>1, <1>5 DEF IInv, Verrous, TenueParTriage
  <1> QED BY <1>4, <1>6, <1>7, <1>9, <1>10 DEF IInv

\* A batch goes on to the next statement without a lock.
LEMMA LotContinue ==
  ASSUME IInv, lot.etape \in {"finaliser", "juger"}, lot'.etape \in {"finaliser", "juger"},
         lot' = [x \in ChampsLot |-> lot'[x]], lot'.creees = lot.creees, lot'.tient = lot.tient,
         lot'.brouillon = lot.brouillon,
         UNCHANGED <<issues, prochaine, purge, ecran, triage>>
  PROVE  IInv'
  <1>1. Vives' = Vives
    BY DEF Vives
  <1>2. FormeLot(lot')
    BY DEF IInv, Formes, FormeLot
  <1>3. Formes'
    BY <1>2 DEF IInv, Formes
  <1> QED BY <1>1, <1>3 DEF IInv, Tires, Ecrans, Creations, Brouillons, Verrous

LEMMA FinaliserIInv ==
  ASSUME IInv, Finaliser
  PROVE  IInv'
  <1> DEFINE i == Min(lot.reste)
             f == Vue(i)
             g == Etendue(f, i)
  <1>0. FormeLot(lot) /\ lot.etape = "finaliser" /\ UNCHANGED <<issues, prochaine, purge, ecran, triage>>
    BY DEF IInv, Formes, Finaliser, base
  <1>1. CASE lot' = [lot EXCEPT !.etape = "juger"]
    <2>1. lot'.etape = "juger" /\ lot'.creees = lot.creees /\ lot'.tient = lot.tient /\ lot'.brouillon = lot.brouillon
      BY <1>0, <1>1 DEF FormeLot, ChampsLot
    <2>2. lot' = [x \in ChampsLot |-> lot'[x]]
      BY <1>0, <1>1 DEF FormeLot
    <2> QED BY <1>0, <2>1, <2>2, LotContinue
  <1>2. CASE /\ f.statut # "absente" /\ Libre(i)
             /\ lot' = [lot EXCEPT !.etape = "juger", !.tient = @ \cup {i}, !.brouillon[i] = g]
    <2>1. i \in Ids => Fiche(g) /\ Suit(g, f)
      BY FicheVue, EtendueSuit
    <2> HIDE DEF i, f, g
    <2>2. /\ lot'.etape = "juger" /\ lot'.creees = lot.creees /\ lot'.tient = lot.tient \cup {i}
          /\ lot'.brouillon = [lot.brouillon EXCEPT ![i] = g]
      BY <1>0, <1>2 DEF FormeLot, ChampsLot
    <2>3. lot' = [x \in ChampsLot |-> lot'[x]]
      BY <1>0, <1>2 DEF FormeLot
    <2> QED BY <1>0, <1>2, <2>1, <2>2, <2>3, UneVersion DEF f
  <1> QED BY <1>1, <1>2 DEF Finaliser

LEMMA JugerIInv ==
  ASSUME IInv, Juger
  PROVE  IInv'
  <1> DEFINE i == Min(lot.reste)
             f == Vue(i)
             suite == [lot EXCEPT !.etape = "finaliser", !.reste = @ \ {i}]
  <1>0. FormeLot(lot) /\ lot.etape = "juger" /\ UNCHANGED <<issues, prochaine, purge, ecran, triage>>
    BY DEF IInv, Formes, Juger, base
  <1>1. /\ suite.etape = "finaliser" /\ suite.creees = lot.creees /\ suite.tient = lot.tient
        /\ suite.brouillon = lot.brouillon
    BY <1>0 DEF FormeLot, ChampsLot
  <1>2. suite = [x \in ChampsLot |-> suite[x]]
    BY <1>0 DEF FormeLot
  <1>3. CASE lot' = suite
    <2> HIDE DEF suite
    <2> QED BY <1>0, <1>1, <1>2, <1>3, LotContinue
  <1>4. ASSUME NEW g, NEW a, f.statut = "resolved", Libre(i), i \in Ids => Fiche(g) /\ Suit(g, f),
               lot' = [suite EXCEPT !.tient = @ \cup {i}, !.brouillon[i] = g, !.avis = a]
        PROVE  IInv'
    <2> HIDE DEF suite, i, f
    <2>1. /\ lot'.etape = "finaliser" /\ lot'.creees = lot.creees /\ lot'.tient = lot.tient \cup {i}
          /\ lot'.brouillon = [lot.brouillon EXCEPT ![i] = g]
      BY <1>1, <1>2, <1>4 DEF ChampsLot
    <2>2. lot' = [x \in ChampsLot |-> lot'[x]]
      BY <1>2, <1>4
    <2> QED BY <1>0, <1>4, <2>1, <2>2, UneVersion DEF f
  <1>5. CASE /\ f.statut = "resolved" /\ Libre(i)
             /\ lot' = [suite EXCEPT !.tient = @ \cup {i}, !.brouillon[i] = Rouverte(f),
                                     !.avis = @ \cup {<<"regression", i, f.resoluLe>>}]
    <2>1. i \in Ids => Fiche(Rouverte(f)) /\ Suit(Rouverte(f), f)
      BY FicheVue, RouverteSuit
    <2> QED BY <1>4, <1>5, <2>1
  <1>6. CASE /\ f.statut = "resolved" /\ Libre(i)
             /\ lot' = [suite EXCEPT !.tient = @ \cup {i}, !.brouillon[i] = f]
    <2>1. i \in Ids => Fiche(f) /\ Suit(f, f)
      BY FicheVue DEF Suit, Fiche
    <2>2. lot' = [suite EXCEPT !.tient = @ \cup {i}, !.brouillon[i] = f, !.avis = suite.avis]
      BY <1>2, <1>6 DEF ChampsLot
    <2> QED BY <1>4, <1>6, <2>1, <2>2
  <1> QED BY <1>3, <1>5, <1>6 DEF Juger

LEMMA ValiderIInv ==
  ASSUME IInv, Valider
  PROVE  IInv'
  <1>1. /\ lot'.tient = {} /\ lot'.creees = {} /\ FormeLot(lot')
        /\ UNCHANGED <<prochaine, purge, ecran, triage>>
    BY FormeRepos DEF Valider, PasDeLot
  <1>2. /\ issues' = [i \in Ids |-> issues'[i]]
        /\ \A i \in Ids : issues'[i] = IF i \in lot.tient THEN lot.brouillon[i] ELSE issues[i]
    BY DEF Valider
  <1>3. \A i \in Ids : Fiche(issues'[i])
    BY <1>2 DEF IInv, Formes, FormeLot
  <1>4. Formes'
    BY <1>1, <1>2, <1>3 DEF IInv, Formes
  <1>5. \A i \in Ids : i \in Vives' => i \in Vives \/ i \in lot.tient
    BY <1>2 DEF Vives
  <1>6. Tires'
    BY <1>1, <1>5 DEF IInv, Tires
  <1>7. ASSUME NEW u \in Utilisateurs, ecran[u].issue \in Vives'
        PROVE  Suit(issues'[ecran[u].issue], ecran[u])
    <2> DEFINE i == ecran[u].issue
    <2>1. i \in Ids
      BY <1>7 DEF Vives
    <2>2. CASE i \notin lot.tient
      <3>1. i \in Vives
        BY <1>5, <1>7, <2>1, <2>2
      <3> QED BY <1>2, <2>1, <2>2, <3>1 DEF IInv, Ecrans
    <2>3. CASE i \in lot.tient
      <3>1. i \in Vives /\ Suit(lot.brouillon[i], issues[i])
        BY <2>1, <2>3 DEF IInv, Creations, Brouillons
      <3>2. Suit(issues[i], ecran[u])
        BY <3>1 DEF IInv, Ecrans
      <3>3. ecran[u].revision \in Nat /\ issues[i].revision \in Nat /\ lot.brouillon[i].revision \in Nat
        BY <2>1 DEF IInv, Formes, FormeLot, Fiche
      <3>4. Suit(lot.brouillon[i], ecran[u])
        BY <3>1, <3>2, <3>3, SuitTransitif
      <3> QED BY <1>2, <2>1, <2>3, <3>4
    <2> QED BY <2>2, <2>3
  <1>8. Ecrans'
    BY <1>1, <1>7 DEF Ecrans
  <1>9. Creations' /\ Brouillons'
    BY <1>1 DEF Creations, Brouillons
  <1>10. Verrous'
    BY <1>1, <1>2 DEF IInv, Verrous, Vives
  <1> QED BY <1>4, <1>6, <1>8, <1>9, <1>10 DEF IInv

\* A user reads an issue that is committed.
LEMMA LireIInv ==
  ASSUME IInv, NEW u \in Utilisateurs, Lire(u)
  PROVE  IInv'
  <1>0. UNCHANGED <<issues, prochaine, lot, purge, triage>>
    BY DEF Lire, base
  <1>1. PICK i \in Vives :
          ecran' = [ecran EXCEPT ![u] = [issue |-> i, revision |-> issues[i].revision, statut |-> issues[i].statut]]
    BY DEF Lire
  <1>2. /\ ecran' = [v \in Utilisateurs |-> ecran'[v]]
        /\ ecran'[u] = [issue |-> i, revision |-> issues[i].revision, statut |-> issues[i].statut]
        /\ \A v \in Utilisateurs : v # u => ecran'[v] = ecran[v]
    BY <1>1 DEF IInv, Formes
  <1>3. ecran'[u].issue = i /\ ecran'[u].revision = issues[i].revision /\ ecran'[u].statut = issues[i].statut
    BY <1>2
  <1>4. Vives' = Vives /\ i \in Ids /\ issues[i].revision \in Nat
    BY <1>0 DEF Vives, IInv, Formes, Fiche
  <1>5. Formes'
    <2>1. \A v \in Utilisateurs : ecran'[v].revision \in Nat
      BY <1>2, <1>3, <1>4 DEF IInv, Formes
    <2> QED BY <1>0, <1>2, <2>1 DEF IInv, Formes
  <1>6. Tires'
    <2>1. i < prochaine
      BY <1>4 DEF IInv, Tires
    <2> QED BY <1>0, <1>2, <1>3, <1>4, <2>1 DEF IInv, Tires
  <1>7. Ecrans'
    <2>1. Suit(issues[i], ecran'[u])
      BY <1>3, <1>4 DEF Suit
    <2> QED BY <1>0, <1>2, <1>3, <1>4, <2>1 DEF IInv, Ecrans
  <1>8. Creations' /\ Brouillons'
    BY <1>0, <1>2, <1>3, <1>4 DEF IInv, Creations, Brouillons
  <1>9. Verrous'
    BY <1>0, <1>4 DEF IInv, Verrous
  <1> QED BY <1>5, <1>6, <1>7, <1>8, <1>9 DEF IInv

\* A screen is closed.
LEMMA EcranFerme ==
  ASSUME IInv, NEW u \in Utilisateurs, ecran' = [ecran EXCEPT ![u] = PasDEcran]
  PROVE  /\ ecran' = [v \in Utilisateurs |-> ecran'[v]]
         /\ \A v \in Utilisateurs : ecran'[v].revision \in Nat
         /\ \A v \in Utilisateurs : (ecran'[v].issue \notin Ids) \/ (v # u /\ ecran'[v] = ecran[v])
  <1>1. ecran'[u] = PasDEcran /\ ecran' = [v \in Utilisateurs |-> ecran'[v]]
        /\ \A v \in Utilisateurs : v # u => ecran'[v] = ecran[v]
    BY DEF IInv, Formes
  <1>2. PasDEcran.issue \notin Ids /\ PasDEcran.revision \in Nat
    BY DEF PasDEcran, Ids
  <1> QED BY <1>1, <1>2 DEF IInv, Formes

\* The row is taken: it is free, and what is read is what was seen.
LEMMA VerrouillerIInv ==
  ASSUME IInv, NEW u \in Utilisateurs, NEW d \in Decisions, Verrouiller(u, d)
  PROVE  IInv'
  <1> DEFINE i == ecran[u].issue
  <1>0. UNCHANGED <<issues, prochaine, lot, purge>> /\ Vives' = Vives
    BY DEF Verrouiller, base, Vives
  <1>1. CASE Actuelle(u)
    <2>1. i \in Vives /\ i \in Ids /\ issues[i].revision = ecran[u].revision /\ issues[i].statut = ecran[u].statut
      <3>1. i \in Vives /\ i \in Ids /\ issues[i].revision = ecran[u].revision
        BY <1>1 DEF Actuelle, Vives
      <3> QED BY <3>1 DEF IInv, Ecrans, Suit
    <2>2. i \notin lot.tient /\ i \notin purge.supprime /\ \A v \in Utilisateurs : triage[v].issue # i
      BY DEF Verrouiller, TenueParLot, TenueParPurge, TenueParTriage
    <2>3. UNCHANGED ecran
      BY <1>1 DEF Verrouiller
    <2>4. \E t : triage' = [triage EXCEPT ![u] = t] /\ t.issue = i /\ t.vu = ecran[u].statut
      <3>1. PICK r \in Reference(i) :
              triage' = [triage EXCEPT ![u] = [issue |-> i, demande |-> d, vu |-> ecran[u].statut,
                                               le |-> horloge, ref |-> IF d = "resolved" THEN r ELSE Inconnue]]
        BY <1>1 DEF Verrouiller
      <3> DEFINE t == [issue |-> i, demande |-> d, vu |-> ecran[u].statut,
                       le |-> horloge, ref |-> IF d = "resolved" THEN r ELSE Inconnue]
      <3>2. t.issue = i /\ t.vu = ecran[u].statut
        OBVIOUS
      <3> QED BY <3>1, <3>2
    <2> PICK t : triage' = [triage EXCEPT ![u] = t] /\ t.issue = i /\ t.vu = ecran[u].statut
      BY <2>4
    <2>5. triage' = [v \in Utilisateurs |-> triage'[v]] /\ triage'[u] = t
          /\ \A v \in Utilisateurs : v # u => triage'[v] = triage[v]
      BY DEF IInv, Formes
    <2>6. Formes' /\ Tires' /\ Ecrans' /\ Creations' /\ Brouillons'
      BY <1>0, <2>3, <2>5 DEF IInv, Formes, Tires, Ecrans, Creations, Brouillons
    <2>7. ASSUME NEW v \in Utilisateurs, triage'[v].issue # 0
          PROVE  /\ triage'[v].issue \in Vives' /\ issues'[triage'[v].issue].statut = triage'[v].vu
                 /\ triage'[v].issue \notin lot'.tient /\ triage'[v].issue \notin purge'.supprime
                 /\ \A w \in Utilisateurs : triage'[w].issue = triage'[v].issue => w = v
      <3>1. CASE v = u
        BY <1>0, <2>1, <2>2, <2>5, <3>1
      <3>2. CASE v # u
        BY <1>0, <2>2, <2>5, <2>7, <3>2 DEF IInv, Verrous
      <3> QED BY <3>1, <3>2
    <2>8. Verrous'
      BY <2>7 DEF Verrous
    <2> QED BY <2>6, <2>8 DEF IInv
  <1>2. CASE ~Actuelle(u)
    <2>1. ecran' = [ecran EXCEPT ![u] = PasDEcran] /\ UNCHANGED triage
      BY <1>2 DEF Verrouiller
    <2>2. /\ ecran' = [v \in Utilisateurs |-> ecran'[v]]
          /\ \A v \in Utilisateurs : ecran'[v].revision \in Nat
          /\ \A v \in Utilisateurs : (ecran'[v].issue \notin Ids) \/ (v # u /\ ecran'[v] = ecran[v])
      BY <2>1, EcranFerme
    <2>3. Formes' /\ Tires'
      BY <1>0, <2>1, <2>2 DEF IInv, Formes, Tires
    <2>4. Ecrans' /\ Creations' /\ Brouillons' /\ Verrous'
      BY <1>0, <2>1, <2>2 DEF IInv, Ecrans, Creations, Brouillons, Verrous, Vives
    <2> QED BY <2>3, <2>4 DEF IInv
  <1> QED BY <1>1, <1>2

\* A transaction of a user ends, without a change or with one.
LEMMA TriageFini ==
  ASSUME IInv, NEW u \in Utilisateurs, triage' = [triage EXCEPT ![u] = PasDeTriage]
  PROVE  /\ triage' = [v \in Utilisateurs |-> triage'[v]]
         /\ \A v \in Utilisateurs : triage'[v].issue # 0 => v # u /\ triage'[v] = triage[v]
  BY DEF IInv, Formes, PasDeTriage

\* The decision moves the revision: every other screen is now late.
LEMMA DeciderIInv ==
  ASSUME IInv, NEW u \in Utilisateurs, Decider(u)
  PROVE  IInv'
  <1> DEFINE i == triage[u].issue
             g == Decidee(issues[i], triage[u])
  <1>0. UNCHANGED <<prochaine, lot, purge>>
    BY DEF Decider
  <1>1. i \in Vives /\ i \in Ids /\ i \notin lot.tient /\ \A v \in Utilisateurs : triage[v].issue = i => v = u
    BY DEF Decider, IInv, Verrous, Vives
  <1>2. Fiche(g) /\ g.revision = issues[i].revision + 1
    BY <1>1, DecideeSuit DEF IInv, Formes
  <1>3. /\ issues' = [j \in Ids |-> issues'[j]] /\ issues'[i] = g
        /\ \A j \in Ids : j # i => issues'[j] = issues[j]
    BY <1>1 DEF Decider, IInv, Formes
  <1>4. /\ ecran' = [v \in Utilisateurs |-> ecran'[v]]
        /\ \A v \in Utilisateurs : ecran'[v].revision \in Nat
        /\ \A v \in Utilisateurs : (ecran'[v].issue \notin Ids) \/ (v # u /\ ecran'[v] = ecran[v])
    BY EcranFerme DEF Decider
  <1>5. /\ triage' = [v \in Utilisateurs |-> triage'[v]]
        /\ \A v \in Utilisateurs : triage'[v].issue # 0 => v # u /\ triage'[v] = triage[v]
    BY TriageFini DEF Decider
  <1> HIDE DEF g
  <1>6. \A j \in Ids : (j \in Vives' => j \in Vives) /\ (j # i => (j \in Vives' <=> j \in Vives))
    BY <1>1, <1>3 DEF Vives
  <1>7. Formes'
    BY <1>0, <1>2, <1>3, <1>4, <1>5 DEF IInv, Formes
  <1>8. Tires'
    BY <1>0, <1>4, <1>6 DEF IInv, Tires
  <1>9. ASSUME NEW v \in Utilisateurs, ecran'[v].issue \in Vives'
        PROVE  Suit(issues'[ecran'[v].issue], ecran'[v])
    <2>1. ecran'[v].issue \in Ids /\ ecran'[v] = ecran[v] /\ ecran[v].issue \in Vives
      BY <1>4, <1>6, <1>9 DEF Vives
    <2>2. Suit(issues[ecran[v].issue], ecran[v])
      BY <2>1 DEF IInv, Ecrans
    <2>3. CASE ecran[v].issue # i
      BY <1>3, <2>1, <2>2, <2>3
    <2>4. CASE ecran[v].issue = i
      <3>1. issues[i].revision \in Nat /\ ecran[v].revision \in Nat
        BY <1>1 DEF IInv, Formes, Fiche
      <3>2. Suit(g, ecran[v])
        BY <1>2, <2>2, <2>4, <3>1 DEF Suit
      <3> QED BY <1>3, <2>1, <2>4, <3>2
    <2> QED BY <2>3, <2>4
  <1>10. Ecrans'
    BY <1>9 DEF Ecrans
  <1>11. Creations'
    BY <1>0, <1>4, <1>6 DEF IInv, Creations
  <1>12. Brouillons'
    BY <1>0, <1>1, <1>3, <1>6 DEF IInv, Brouillons
  <1>13. Verrous'
    <2>1. ASSUME NEW v \in Utilisateurs, triage'[v].issue # 0
          PROVE  triage'[v] = triage[v] /\ triage[v].issue # 0 /\ triage[v].issue # i /\ triage[v].issue \in Ids
      BY <1>1, <1>5, <2>1 DEF IInv, Verrous, Vives
    <2>2. \A v \in Utilisateurs : triage'[v].issue # 0 =>
            triage[v].issue \in Vives' /\ issues'[triage[v].issue] = issues[triage[v].issue]
      BY <1>3, <1>6, <2>1 DEF IInv, Verrous
    <2> QED BY <1>0, <2>1, <2>2 DEF IInv, Verrous
  <1> QED BY <1>7, <1>8, <1>10, <1>11, <1>12, <1>13 DEF IInv

LEMMA RenoncerIInv ==
  ASSUME IInv, NEW u \in Utilisateurs, Renoncer(u)
  PROVE  IInv'
  <1>1. UNCHANGED <<issues, prochaine, lot, purge, ecran>> /\ Vives' = Vives
    BY DEF Renoncer, base, Vives
  <1>2. /\ triage' = [v \in Utilisateurs |-> triage'[v]]
        /\ \A v \in Utilisateurs : triage'[v].issue # 0 => v # u /\ triage'[v] = triage[v]
    BY TriageFini DEF Renoncer
  <1>3. Formes' /\ Tires' /\ Ecrans' /\ Creations' /\ Brouillons'
    BY <1>1, <1>2 DEF IInv, Formes, Tires, Ecrans, Creations, Brouillons
  <1>4. Verrous'
    BY <1>1, <1>2 DEF IInv, Verrous
  <1> QED BY <1>3, <1>4 DEF IInv

\* A statement of retention: what it deletes, nobody holds.
LEMMA PurgeContinue ==
  ASSUME IInv, FormePurge(purge'), UNCHANGED <<issues, prochaine, lot, ecran, triage>>,
         \A i \in purge'.supprime : i \in purge.supprime \/
           (i \in Vives /\ i \notin lot.tient /\ \A u \in Utilisateurs : triage[u].issue # i)
  PROVE  IInv'
  <1>1. Vives' = Vives
    BY DEF Vives
  <1>2. Formes'
    BY DEF IInv, Formes
  <1> QED BY <1>1, <1>2 DEF IInv, Tires, Ecrans, Creations, Brouillons, Verrous

LEMMA PurgerLignesIInv ==
  ASSUME IInv, PurgerLignes
  PROVE  IInv'
  <1>1. PICK c, l : purge' = [PasDePurge EXCEPT !.etape = "issues", !.coupure = c, !.lignes = l]
    BY DEF PurgerLignes
  <1>2. FormePurge(purge') /\ purge'.supprime = {}
    BY <1>1 DEF PasDePurge, FormePurge, ChampsPurge
  <1> QED BY <1>2, PurgeContinue DEF PurgerLignes, base

LEMMA PurgerIssuesIInv ==
  ASSUME IInv, PurgerIssues
  PROVE  IInv'
  <1>0. FormePurge(purge)
    BY DEF IInv, Formes
  <1>1. PICK r : purge' = [purge EXCEPT !.etape = "supprimer", !.reste = r]
    BY DEF PurgerIssues
  <1>2. purge'.supprime = purge.supprime
    BY <1>0, <1>1 DEF FormePurge, ChampsPurge
  <1>3. FormePurge(purge')
    BY <1>0, <1>1 DEF FormePurge
  <1> QED BY <1>2, <1>3, PurgeContinue DEF PurgerIssues, base

LEMMA SupprimerIssueIInv ==
  ASSUME IInv, NEW i \in Ids, SupprimerIssue(i)
  PROVE  IInv'
  <1>0. FormePurge(purge)
    BY DEF IInv, Formes
  <1>1. i \notin lot.tient /\ \A u \in Utilisateurs : triage[u].issue # i
    BY DEF SupprimerIssue, TenueParLot, TenueParTriage
  <1>2. PICK r, s : /\ purge' = [purge EXCEPT !.reste = r, !.supprime = s]
                    /\ s = purge.supprime \/ (i \in Vives /\ s = purge.supprime \cup {i})
    BY DEF SupprimerIssue
  <1>3. purge'.supprime = s
    BY <1>0, <1>2 DEF FormePurge, ChampsPurge
  <1>4. FormePurge(purge')
    BY <1>0, <1>2 DEF FormePurge
  <1> QED BY <1>1, <1>2, <1>3, <1>4, PurgeContinue DEF SupprimerIssue, base

LEMMA AnnulerPurgeIInv ==
  ASSUME IInv, AnnulerPurge
  PROVE  IInv'
  <1>1. FormePurge(purge') /\ purge'.supprime = {}
    BY FormeRepos DEF AnnulerPurge, PasDePurge
  <1> QED BY <1>1, PurgeContinue DEF AnnulerPurge, base

LEMMA ValiderPurgeIInv ==
  ASSUME IInv, ValiderPurge
  PROVE  IInv'
  <1>1. FormePurge(purge') /\ purge'.supprime = {} /\ UNCHANGED <<prochaine, lot, ecran, triage>>
    BY FormeRepos DEF ValiderPurge, PasDePurge
  <1>2. /\ issues' = [i \in Ids |-> issues'[i]]
        /\ \A i \in Ids : issues'[i] = IF i \in purge.supprime THEN Absente ELSE issues[i]
    BY DEF ValiderPurge
  <1>3. Vives' = Vives \ purge.supprime
    BY <1>2, FicheAbsente DEF Vives
  <1>4. Formes'
    BY <1>1, <1>2, FicheAbsente DEF IInv, Formes
  <1>5. Tires' /\ Creations'
    BY <1>1, <1>3 DEF IInv, Tires, Creations
  <1>6. \A i \in Vives' : issues'[i] = issues[i] /\ i \in Vives
    BY <1>2, <1>3 DEF Vives
  <1>7. Ecrans'
    BY <1>1, <1>6 DEF IInv, Ecrans
  <1>8. Brouillons'
    BY <1>1, <1>3, <1>6 DEF IInv, Brouillons
  <1>9. Verrous'
    BY <1>1, <1>3, <1>6 DEF IInv, Verrous
  <1> QED BY <1>4, <1>5, <1>7, <1>8, <1>9 DEF IInv

\* An erasure changes bounds, or removes an issue nobody holds.
LEMMA EffacerIInv ==
  ASSUME IInv, Effacer
  PROVE  IInv'
  <1> DEFINE touchees == {issueDe[e] : e \in lignes \cap Sujet} \cap Vives
             apres == [i \in Ids |-> IF i \in touchees THEN Reconciliee(i, lignes \ Sujet) ELSE issues[i]]
  <1>0. lot.tient = {} /\ lot.creees = {} /\ UNCHANGED <<prochaine, lot, purge, ecran, triage>>
    BY DEF Effacer, IInv, Brouillons, Creations
  <1>1. issues' = apres
    BY DEF Effacer
  <1>2. \A i \in touchees : apres[i] # issues[i] => ~(TenueParTriage(i) \/ TenueParPurge(i))
    BY DEF Effacer
  <1>3. ASSUME NEW i \in Ids
        PROVE  /\ Fiche(apres[i])
               /\ apres[i] # issues[i] => ~TenueParTriage(i)
               /\ apres[i].statut = "absente" \/ (/\ apres[i].revision = issues[i].revision
                                                  /\ apres[i].statut = issues[i].statut)
    <2> HIDE DEF touchees
    <2>1. Fiche(issues[i])
      BY DEF IInv, Formes
    <2>2. CASE i \in touchees
      <3>1. apres[i] = Reconciliee(i, lignes \ Sujet)
        BY <2>2
      <3> QED BY <1>2, <2>1, <2>2, <3>1, ReconcilieeSuit, FicheAbsente
    <2>3. CASE i \notin touchees
      BY <2>1, <2>3
    <2> QED BY <2>2, <2>3
  <1>4. issues' = [i \in Ids |-> issues'[i]]
    BY <1>1
  <1> HIDE DEF apres, touchees
  <1>5. Formes'
    BY <1>0, <1>1, <1>3, <1>4 DEF IInv, Formes
  <1>6. \A i \in Vives' : i \in Vives /\ i \in Ids /\ issues'[i].revision = issues[i].revision
                          /\ issues'[i].statut = issues[i].statut
    BY <1>1, <1>3 DEF Vives
  <1>7. Tires' /\ Creations' /\ Brouillons'
    BY <1>0, <1>6 DEF IInv, Tires, Creations, Brouillons
  <1>8. Ecrans'
    BY <1>0, <1>6 DEF IInv, Ecrans, Suit
  <1>9. Verrous'
    <2>1. ASSUME NEW u \in Utilisateurs, triage[u].issue # 0
          PROVE  triage[u].issue \in Vives' /\ issues'[triage[u].issue] = issues[triage[u].issue]
      <3>1. triage[u].issue \in Vives /\ triage[u].issue \in Ids
        BY <2>1 DEF IInv, Verrous, Vives
      <3>2. issues'[triage[u].issue] = issues[triage[u].issue]
        BY <1>1, <1>3, <3>1 DEF TenueParTriage
      <3> QED BY <3>1, <3>2 DEF Vives
    <2> QED BY <1>0, <2>1 DEF IInv, Verrous
  <1> QED BY <1>5, <1>7, <1>8, <1>9 DEF IInv

-----------------------------------------------------------------------------
LEMMA SansChangementIInv ==
  ASSUME IInv, UNCHANGED <<issues, prochaine, lot, purge, ecran, triage>>
  PROVE  IInv'
  <1>1. Vives' = Vives
    BY DEF Vives
  <1>2. Formes'
    BY DEF IInv, Formes
  <1> QED BY <1>1, <1>2 DEF IInv, Tires, Ecrans, Creations, Brouillons, Verrous

LEMMA PasIInv ==
  ASSUME IInv, [Next]_vars
  PROVE  IInv'
  <1>1. CASE UNCHANGED vars
    BY <1>1, SansChangementIInv DEF vars
  <1>2. CASE Avancer
    BY <1>2, SansChangementIInv DEF Avancer, base
  <1>3. ASSUME NEW l \in Lots, Recevoir(l)
        PROVE  IInv'
    BY <1>3, RecevoirIInv
  <1>4. CASE Chercher
    BY <1>4, ChercherIInv
  <1>5. CASE Ecrire
    BY <1>5, EcrireIInv
  <1>6. CASE Finaliser
    BY <1>6, FinaliserIInv
  <1>7. CASE Juger
    BY <1>7, JugerIInv
  <1>8. CASE Valider
    BY <1>8, ValiderIInv
  <1>9. CASE Echouer
    BY <1>9, EchouerIInv
  <1>10. ASSUME NEW u \in Utilisateurs, Lire(u) \/ Decider(u) \/ Renoncer(u) \/ \E d \in Decisions : Verrouiller(u, d)
         PROVE  IInv'
    BY <1>10, LireIInv, DeciderIInv, RenoncerIInv, VerrouillerIInv
  <1>11. CASE PurgerLignes \/ PurgerIssues \/ ValiderPurge \/ AnnulerPurge \/ \E i \in Ids : SupprimerIssue(i)
    BY <1>11, PurgerLignesIInv, PurgerIssuesIInv, ValiderPurgeIInv, AnnulerPurgeIInv, SupprimerIssueIInv
  <1>12. CASE Effacer
    BY <1>12, EffacerIInv
  <1> QED BY <1>1, <1>2, <1>3, <1>4, <1>5, <1>6, <1>7, <1>8, <1>9, <1>10, <1>11, <1>12 DEF Next

\* The invariant the next theorem rests on: what is on a screen, in a version not
\* committed yet and under a lock are versions of one issue, in this order.
THEOREM InductiveInvariant == Spec => []IInv
  <1>1. Init => IInv
    BY DepartIInv
  <1>2. IInv /\ [Next]_vars => IInv'
    BY PasIInv
  <1> QED BY <1>1, <1>2, PTL DEF Spec

\* A user decides of the status seen on the screen (triageIssue and commentIssue
\* of error-issue-workflow.ts, against batches that reopen or reclassify, other
\* users, retention and erasure): from the lock to the commit, it is the status of
\* the issue.
THEOREM DecisionOnWhatWasSeen == Spec => []DecisionSurLeVu
  <1>1. IInv => DecisionSurLeVu
    BY DEF IInv, Verrous, DecisionSurLeVu
  <1> QED BY <1>1, InductiveInvariant, PTL

-----------------------------------------------------------------------------
(* The data: what the batches, retention and erasure leave of the bounds, *)
(* the status and the regressions of an issue.                            *)
(*                                                                        *)
(* What is committed rests on what the batch has decided and not written: *)
(* a version it holds covers the committed one and inherits its status    *)
(* (Heritages); the rows it has dealt with are within the version it sees  *)
(* and have been judged against it (RangsDuLot), and still are when a user  *)
(* decides meanwhile, because a decision keeps the bounds and is later     *)
(* than all they cover (Temps).                                           *)

(* The least and the greatest of a finite set of numbers. *)

\* The first of a set of numbers.
LEMMA PlusPetit ==
  ASSUME NEW S \in SUBSET Nat, S # {}
  PROVE  Min(S) \in S /\ \A k \in S : Min(S) <= k
  <1>1. PICK n \in S : \A k \in S : <<k, n>> \notin OpToRel(<, Nat)
    BY WFMin, NatLessThanWellFounded, Zenon
  <1>2. \A k \in S : ~(k < n)
    BY <1>1, Zenon DEF OpToRel
  <1>3. \E x \in S : \A y \in S : x =< y
    BY <1>2
  <1> QED
    BY <1>3 DEF Min

\* One more number has a bound still.
LEMMA UnDePlus ==
  ASSUME NEW p \in Nat, p # 0, NEW g \in [1..p -> Nat], NEW b \in Nat, \A k \in 1..(p - 1) : g[k] <= b
  PROVE  \E c \in Nat : \A k \in 1..p : g[k] <= c
  <1>1. p \in 1..p
    OBVIOUS
  <1>2. g[p] \in Nat
    BY <1>1
  <1>3. PICK c \in Nat : c >= b /\ c >= g[p]
    <2>1. CASE b <= g[p]
      BY <1>2, <2>1
    <2>2. CASE ~(b <= g[p])
      BY <1>2, <2>2
    <2> QED BY <2>1, <2>2
  <1>4. ASSUME NEW k \in 1..p PROVE g[k] <= c
    <2>1. g[k] \in Nat
      OBVIOUS
    <2>2. CASE k = p
      BY <1>3, <2>2
    <2>3. CASE k # p
      <3>1. g[k] <= b
        BY <2>3
      <3> QED BY <1>3, <2>1, <3>1
    <2> QED BY <2>2, <2>3
  <1> QED BY <1>4

\* A finite sequence of numbers has a bound.
Bornees(p) == \A g \in [1..p -> Nat] : \E b \in Nat : \A k \in 1..p : g[k] <= b

LEMMA SuiteBornee == \A n \in Nat : Bornees(n)
  <1> DEFINE Z == {p \in Nat : ~Bornees(p)}
  <1> SUFFICES ASSUME Z # {} PROVE FALSE
    OBVIOUS
  <1>1. PICK p \in Z : \A q \in Z : p <= q
    <2>1. Z \in SUBSET Nat
      OBVIOUS
    <2> HIDE DEF Z
    <2> QED BY <2>1, PlusPetit
  <1>2. p \in Nat /\ ~Bornees(p)
    OBVIOUS
  <1>3. p # 0
    BY <1>2 DEF Bornees
  <1>4. p - 1 \in Nat /\ Bornees(p - 1)
    <2>1. p - 1 \in Nat /\ ~(p <= p - 1)
      BY <1>2, <1>3
    <2> QED BY <1>1, <2>1
  <1>5. ASSUME NEW g \in [1..p -> Nat]
        PROVE  \E b \in Nat : \A k \in 1..p : g[k] <= b
    <2> HIDE DEF Z
    <2> DEFINE h == [k \in 1..(p - 1) |-> g[k]]
    <2>1. \A k \in 1..(p - 1) : k \in 1..p
      BY <1>2
    <2>2. h \in [1..(p - 1) -> Nat]
      BY <2>1
    <2>3. PICK b \in Nat : \A k \in 1..(p - 1) : h[k] <= b
      BY <1>4, <2>2 DEF Bornees
    <2>4. \A k \in 1..(p - 1) : g[k] <= b
      BY <2>3
    <2> QED BY <1>2, <1>3, <2>4, UnDePlus
  <1> QED BY <1>2, <1>5 DEF Bornees

\* The last of a finite set of numbers.
LEMMA PlusGrand ==
  ASSUME NEW S \in SUBSET Nat, S # {}, IsFiniteSet(S)
  PROVE  Max(S) \in S /\ \A k \in S : k <= Max(S)
  <1>1. PICK n \in Nat : ExistsSurjection(1..n, S)
    BY FS_NatSurjection
  <1>2. PICK f \in [1..n -> S] : \A s \in S : \E k \in 1..n : f[k] = s
    BY <1>1 DEF ExistsSurjection, Surjection
  <1>3. PICK b \in Nat : \A k \in 1..n : f[k] <= b
    <2>1. f \in [1..n -> Nat]
      BY <1>2
    <2> QED BY <2>1, SuiteBornee DEF Bornees
  <1> DEFINE B == {c \in Nat : \A s \in S : s <= c}
             m == Min(B)
  <1>4. b \in B /\ B \in SUBSET Nat
    BY <1>2, <1>3
  <1>5. m \in B /\ \A c \in B : m <= c
    <2> HIDE DEF B
    <2> QED BY <1>4, PlusPetit
  <1> HIDE DEF m
  <1>6. m \in S
    <2> SUFFICES ASSUME m \notin S PROVE FALSE
      OBVIOUS
    <2>0. m \in Nat
      BY <1>5
    <2>1. \A s \in S : s <= m /\ s # m /\ s \in Nat
      BY <1>5
    <2>2. m # 0
      <3> HIDE DEF B
      <3>1. PICK s \in S : TRUE
        OBVIOUS
      <3> QED BY <2>0, <2>1, <3>1
    <2>3. m - 1 \in B
      BY <2>0, <2>1, <2>2
    <2> QED BY <1>5, <2>0, <2>2, <2>3
  <1>7. \E x \in S : \A y \in S : x >= y
    BY <1>5, <1>6
  <1> QED
    BY <1>7 DEF Max

-----------------------------------------------------------------------------
(* The invariant *)

Etapes == {"repos", "chercher", "ecrire", "finaliser", "juger"}
Ouvertes == {"finaliser", "juger"}

TypesDuLot(l) ==
  /\ l.etape \in Etapes
  /\ l.recues \subseteq Erreurs /\ l.fraiches \subseteq l.recues
  /\ l.vues \subseteq Erreurs /\ l.ecrites \subseteq Erreurs
  /\ l.cible \in [Cles -> Ids \cup {0}]
  /\ l.tient \subseteq Ids /\ l.creees \subseteq l.tient
  /\ l.reste \subseteq Ids /\ (l.etape = "juger" => l.reste # {})
  /\ l.etape \in Ouvertes => \A e \in l.fraiches : l.cible[e.cle] # 0
  /\ \A i \in Ids : l.brouillon[i] \in Issue

TypesDuTriage(t) ==
  /\ t.issue \in Ids \cup {0} /\ t.demande \in Statuts \cup {"note"}
  /\ t.ref \in Versions \cup {Inconnue} /\ t.le \in Nat

Donnees ==
  /\ horloge \in 1..MaxHorloge /\ prochaine \in 1..(MaxIssues + 1) /\ efface \in BOOLEAN
  /\ lignes \subseteq Erreurs /\ issueDe \in [Erreurs -> Ids \cup {0}]
  /\ \A i \in Ids : issues[i] \in Issue
  /\ TypesDuLot(lot)
  /\ purge.etape \in {"repos", "issues", "supprimer"}
  /\ \A u \in Utilisateurs : TypesDuTriage(triage[u]) /\ ecran[u].issue \in Ids \cup {0}

\* One issue has a key, those the batch creates included; they have no row yet.
Identites ==
  /\ \A i, j \in Vives : issues[i].cle = issues[j].cle => i = j
  /\ lot.etape = "ecrire" => \A k \in Manquantes : \A i \in Vives : issues[i].cle # k
  /\ \A i \in lot.creees : /\ \A j \in Vives : issues[j].cle # lot.brouillon[i].cle
                           /\ \A j \in lot.creees : lot.brouillon[i].cle = lot.brouillon[j].cle => i = j
                           /\ \A e \in Erreurs : issueDe[e] # i
  /\ \A i \in lot.tient \ lot.creees : lot.brouillon[i].cle = issues[i].cle
  /\ (\A k \in Cles : lot.cible[k] < prochaine) /\ \A e \in Erreurs : issueDe[e] < prochaine

\* Rows, and the bounds that cover them, are not ahead of the clock by more than a client may be.
Avances(f) == f.derniere <= horloge + Avance /\ (f.ref # Inconnue => f.resoluLe # 0)

TempsDesLignes == \A e \in lignes : e.ts <= horloge + Avance
TempsDesIssues == \A i \in Ids : Avances(issues[i])
TempsDuLot ==
  /\ \A e \in lot.recues \cup lot.vues \cup lot.ecrites : e.ts <= horloge + Avance
  /\ \A i \in Ids : Avances(lot.brouillon[i])

\* A decision is dated later than what the issue has seen.
TempsDuTriage ==
  \A u \in Utilisateurs : triage[u].issue # 0 =>
    /\ triage[u].le >= 1 /\ (triage[u].ref # Inconnue => triage[u].demande = "resolved")
    /\ issues[triage[u].issue].derniere <= triage[u].le + Avance

Temps == TempsDesLignes /\ TempsDesIssues /\ TempsDuLot /\ TempsDuTriage

\* The batch leaves a decision alone, but for a resolution it reopens for a row of its own.
Herite(g, f, i) ==
  /\ g.premiere <= f.premiere /\ f.derniere <= g.derniere
  /\ g.statut = "resolved" => f.statut = "resolved" /\ g.resoluLe = f.resoluLe /\ g.ref = f.ref
  /\ f.source = "user" =>
       \/ g.statut = f.statut /\ g.source = "user" /\ g.resoluLe = f.resoluLe /\ g.ref = f.ref
       \/ /\ f.statut = "resolved" /\ g.statut = "open" /\ i \notin lot.reste
          /\ \E e \in Siennes(i) : Confirme(e, f)

Heritages == \A i \in lot.tient \ lot.creees : Herite(lot.brouillon[i], issues[i], i)

Couvre(f, e) == f.premiere <= e.ts /\ e.ts <= f.derniere

\* A row that should have reopened the issue, and not by the advance of its clock alone.
Manquee(e, f) == f.statut = "resolved" /\ Confirme(e, f) /\ e.ts > f.resoluLe + Avance

\* The issues whose bounds the batch has moved.
Finie(i) == i \notin lot.reste \/ (lot.etape = "juger" /\ i = Min(lot.reste))

RangsDuLot ==
  lot.etape \in Ouvertes =>
    \A e \in lot.ecrites \cap lot.fraiches :
      LET i == lot.cible[e.cle] IN
      /\ Finie(i) /\ Vue(i).statut # "absente" => Couvre(Vue(i), e)
      /\ i \notin lot.reste => ~Manquee(e, Vue(i))

RangsCommis ==
  \A e \in lignes : issueDe[e] \in Vives => Couvre(issues[issueDe[e]], e) /\ ~Manquee(e, issues[issueDe[e]])

DInv == IInv /\ Donnees /\ Identites /\ Temps /\ Heritages /\ RangsDuLot /\ RangsCommis

-----------------------------------------------------------------------------
(* Versions, again: their data *)

LEMMA InstantsFinis ==
  ASSUME NEW S \in SUBSET Erreurs
  PROVE  Instants(S) \in SUBSET Nat /\ IsFiniteSet(Instants(S))
  <1> DEFINE f == [e \in S |-> e.ts]
  <1>1. Instants(S) = {f[e] : e \in S} /\ f \in [S -> {f[e] : e \in S}]
    BY DEF Instants
  <1>2. IsFiniteSet(S)
    BY ErreursAssumption, FS_Subset
  <1> HIDE DEF f
  <1>3. IsFiniteSet(Instants(S))
    BY <1>1, <1>2, ImageFinie
  <1> QED BY <1>3, ErreursAssumption DEF Instants

\* The extremes of some rows and of a number.
LEMMA Extremes ==
  ASSUME NEW S \in SUBSET Erreurs, NEW n \in Nat
  PROVE  LET T == {n} \cup Instants(S) IN
         /\ Min(T) \in T /\ Max(T) \in T /\ Min(T) \in Nat /\ Max(T) \in Nat
         /\ \A t \in T : Min(T) <= t /\ t <= Max(T)
  <1> DEFINE T == {n} \cup Instants(S)
  <1>1. T \in SUBSET Nat /\ T # {} /\ IsFiniteSet(T)
    BY InstantsFinis, FS_Singleton, FS_Union
  <1> HIDE DEF T
  <1>2. Min(T) \in T /\ Max(T) \in T /\ \A t \in T : Min(T) <= t /\ t <= Max(T)
    BY <1>1, PlusPetit, PlusGrand
  <1> QED BY <1>1, <1>2 DEF T

\* What an extension does: bounds cover what the batch brings, and the status of a user stays.
LEMMA EtendueIssue ==
  ASSUME TypesDuLot(lot), NEW i \in Ids, NEW f \in Issue
  PROVE  LET g == Etendue(f, i) IN
         /\ g \in Issue /\ g.cle = f.cle /\ g.resoluLe = f.resoluLe /\ g.ref = f.ref
         /\ g.premiere <= f.premiere /\ f.derniere <= g.derniere
         /\ \A e \in Siennes(i) : Couvre(g, e)
         /\ g.derniere = f.derniere \/ \E e \in lot.ecrites \cup lot.vues : g.derniere = e.ts
         /\ \/ g.statut = f.statut /\ g.source = f.source
            \/ g.statut = "for_review" /\ f.source # "user"
  <1> DEFINE S == Siennes(i) \cup DEmpreintes(lot.vues, Empruntees(i))
             g == Etendue(f, i)
             p == Min({f.premiere} \cup Apport(i))
             d == Max({f.derniere} \cup Apport(i))
             dv == Diverge(f, i)
             st == IF dv THEN "for_review" ELSE f.statut
             so == IF dv THEN "migration" ELSE f.source
             rv == IF dv THEN f.revision + 1 ELSE f.revision
  <1>1. S \in SUBSET Erreurs /\ S \subseteq lot.ecrites \cup lot.vues /\ Siennes(i) \subseteq S /\ Apport(i) = Instants(S)
    BY DEF TypesDuLot, Siennes, DEmpreintes, Apport
  <1>2. /\ f.premiere \in Nat /\ f.derniere \in Nat /\ f.revision \in Nat
        /\ f.statut \in Statuts \cup {"absente"} /\ f.source \in {"system", "migration", "user"}
    BY DEF Issue
  <1> HIDE DEF S
  <1>3. /\ p \in Nat /\ p <= f.premiere /\ \A t \in Instants(S) : p <= t
        /\ d \in Nat /\ f.derniere <= d /\ \A t \in Instants(S) : t <= d
        /\ d \in {f.derniere} \cup Instants(S)
    BY <1>1, <1>2, Extremes
  <1>4. g = [f EXCEPT !.premiere = p, !.derniere = d, !.statut = st, !.source = so, !.revision = rv]
    BY DEF Etendue
  <1>5. dv => f.source # "user"
    BY DEF Diverge
  <1>10. st \in Statuts \cup {"absente"} /\ so \in {"system", "migration", "user"} /\ rv \in Nat
    <2>1. CASE dv
      <3>1. st = "for_review" /\ so = "migration" /\ rv = f.revision + 1
        BY <2>1
      <3> HIDE DEF st, so, rv, dv
      <3> QED BY <1>2, <3>1 DEF Statuts
    <2>2. CASE ~dv
      <3>1. st = f.statut /\ so = f.source /\ rv = f.revision
        BY <2>2
      <3> HIDE DEF st, so, rv, dv
      <3> QED BY <1>2, <3>1
    <2> HIDE DEF st, so, rv, dv
    <2> QED BY <2>1, <2>2
  <1>11. (st = f.statut /\ so = f.source) \/ (st = "for_review" /\ f.source # "user")
    BY <1>5
  <1> HIDE DEF p, d, g, dv, st, so, rv
  <1>6. /\ g \in Issue /\ g.cle = f.cle /\ g.resoluLe = f.resoluLe /\ g.ref = f.ref /\ g.premiere = p /\ g.derniere = d
        /\ g.statut = st /\ g.source = so
    BY <1>3, <1>4, <1>10 DEF Issue
  <1>7. \A e \in Siennes(i) : e.ts \in Instants(S)
    BY <1>1 DEF Instants
  <1>8. \A e \in Siennes(i) : Couvre(g, e)
    BY <1>3, <1>6, <1>7 DEF Couvre
  <1>9. g.derniere = f.derniere \/ \E e \in lot.ecrites \cup lot.vues : g.derniere = e.ts
    BY <1>1, <1>3, <1>6 DEF Instants
  <1> QED BY <1>3, <1>6, <1>8, <1>9, <1>11 DEF g

LEMMA RouverteIssue ==
  ASSUME NEW f \in Issue
  PROVE  LET g == Rouverte(f) IN
         /\ g \in Issue /\ g.cle = f.cle /\ g.statut = "open" /\ g.ref = Inconnue
         /\ g.premiere = f.premiere /\ g.derniere = f.derniere
  <1> DEFINE st == "open"
             so == "system"
             rv == f.revision + 1
             g == Rouverte(f)
  <1>0. f.revision \in Nat
    BY DEF Issue
  <1>1. st \in Statuts /\ so \in {"system", "migration", "user"} /\ rv \in Nat
    BY <1>0 DEF Statuts
  <1>2. g = [f EXCEPT !.statut = st, !.source = so, !.resoluLe = 0, !.ref = Inconnue, !.revision = rv]
    BY DEF Rouverte
  <1>3. st = "open"
    OBVIOUS
  <1> HIDE DEF st, so, rv, g
  <1>4. /\ g \in Issue /\ g.cle = f.cle /\ g.statut = st /\ g.ref = Inconnue
        /\ g.premiere = f.premiere /\ g.derniere = f.derniere
    BY <1>1, <1>2 DEF Issue
  <1> QED BY <1>3, <1>4 DEF g

LEMMA DecideeIssue ==
  ASSUME NEW f \in Issue, NEW t, TypesDuTriage(t)
  PROVE  LET g == Decidee(f, t) IN
         /\ g \in Issue /\ g.cle = f.cle /\ g.premiere = f.premiere /\ g.derniere = f.derniere
         /\ t.demande = "note" => g.statut = f.statut /\ g.source = f.source /\ g.ref = f.ref /\ g.resoluLe = f.resoluLe
         /\ t.demande # "note" => /\ g.statut = t.demande /\ g.ref = t.ref
                                  /\ g.resoluLe = IF t.demande = "resolved" THEN t.le ELSE 0
  <1> DEFINE st == t.demande
             so == "user"
             rs == IF t.demande = "resolved" THEN t.le ELSE 0
             rv == f.revision + 1
             g == Decidee(f, t)
  <1>0. f.revision \in Nat
    BY DEF Issue
  <1>1. CASE t.demande = "note"
    <2>1. g = [f EXCEPT !.revision = rv] /\ rv \in Nat
      BY <1>0, <1>1 DEF Decidee
    <2> HIDE DEF g, rv
    <2>2. /\ g \in Issue /\ g.cle = f.cle /\ g.premiere = f.premiere /\ g.derniere = f.derniere
          /\ g.statut = f.statut /\ g.source = f.source /\ g.ref = f.ref /\ g.resoluLe = f.resoluLe
      BY <2>1 DEF Issue
    <2> QED BY <1>1, <2>2 DEF g
  <1>2. CASE t.demande # "note"
    <2>1. g = [f EXCEPT !.statut = st, !.source = so, !.ref = t.ref, !.revision = rv, !.resoluLe = rs]
      BY <1>2 DEF Decidee
    <2>2. /\ st \in Statuts /\ so \in {"system", "migration", "user"} /\ rv \in Nat /\ rs \in Nat
          /\ t.ref \in Versions \cup {Inconnue}
      BY <1>0, <1>2 DEF TypesDuTriage
    <2> HIDE DEF g, rv, so, rs, st
    <2>3. /\ g \in Issue /\ g.cle = f.cle /\ g.premiere = f.premiere /\ g.derniere = f.derniere
          /\ g.statut = st /\ g.ref = t.ref /\ g.resoluLe = rs
      BY <2>1, <2>2 DEF Issue
    <2> QED BY <1>2, <2>3 DEF g, st, rs
  <1> QED BY <1>1, <1>2

\* What an erasure leaves of an issue covers the rows it leaves.
LEMMA ReconcilieeIssue ==
  ASSUME NEW i \in Ids, NEW R \in SUBSET Erreurs, issues[i] \in Issue
  PROVE  LET g == Reconciliee(i, R) IN
         \/ g = Absente /\ \A e \in R : issueDe[e] # i
         \/ /\ g \in Issue /\ g.cle = issues[i].cle /\ g.statut = issues[i].statut
            /\ g.resoluLe = issues[i].resoluLe /\ g.ref = issues[i].ref
            /\ \A e \in R : issueDe[e] = i => Couvre(g, e)
            /\ \E e \in R : g.derniere = e.ts
  <1> DEFINE S == {e \in R : issueDe[e] = i}
             T == Instants(S)
             g == Reconciliee(i, R)
  <1>1. CASE T = {}
    <2>1. S = {}
      BY <1>1 DEF Instants
    <2> QED BY <1>1, <2>1 DEF Reconciliee
  <1>2. CASE T # {}
    <2>1. g = [issues[i] EXCEPT !.premiere = Min(T), !.derniere = Max(T)]
      BY <1>2 DEF Reconciliee
    <2>2. T \in SUBSET Nat /\ IsFiniteSet(T)
      BY InstantsFinis
    <2> HIDE DEF g, T
    <2>3. Min(T) \in T /\ Max(T) \in T /\ \A t \in T : Min(T) <= t /\ t <= Max(T)
      BY <1>2, <2>2, PlusPetit, PlusGrand
    <2>4. /\ g \in Issue /\ g.cle = issues[i].cle /\ g.statut = issues[i].statut
          /\ g.resoluLe = issues[i].resoluLe /\ g.ref = issues[i].ref
          /\ g.premiere = Min(T) /\ g.derniere = Max(T)
      BY <2>1, <2>2, <2>3 DEF Issue
    <2>5. \A e \in R : issueDe[e] = i => Couvre(g, e)
      <3>1. \A e \in R : issueDe[e] = i => e.ts \in T
        BY DEF T, Instants
      <3> QED BY <2>3, <2>4, <3>1 DEF Couvre
    <2>6. \E e \in R : g.derniere = e.ts
      BY <2>3, <2>4 DEF T, Instants
    <2> QED BY <2>4, <2>5, <2>6 DEF g
  <1> QED BY <1>1, <1>2

LEMMA EmpreintesFinies == IsFiniteSet(Empreintes)
  <1> DEFINE f == [e \in Erreurs |-> e.empreinte]
  <1>1. Empreintes = {f[e] : e \in Erreurs} /\ f \in [Erreurs -> {f[e] : e \in Erreurs}]
    BY DEF Empreintes
  <1> HIDE DEF f
  <1> QED BY <1>1, ErreursAssumption, ImageFinie

LEMMA AbsenteIssue ==
  /\ Absente \in Issue /\ Absente.statut = "absente" /\ Absente.ref = Inconnue /\ Absente.derniere = 0
  BY DEF Absente, Issue, Statuts

\* What a batch creates is dated by its rows and those of their groups.
LEMMA NaissanceIssue ==
  ASSUME TypesDuLot(lot), NEW k \in Cles, DeCle(lot.fraiches, k) # {}
  PROVE  LET g == Naissance(k) IN
         /\ g \in Issue /\ g.cle = k /\ g.ref = Inconnue
         /\ \E e \in lot.fraiches \cup lot.vues : g.derniere = e.ts
  <1> DEFINE mes == DeCle(lot.fraiches, k)
             F == {e.empreinte : e \in mes}
             R == mes \cup DEmpreintes(lot.vues, F)
             T == Instants(R)
             S == StatutsDe(F)
             Q == {Historique[f].resoluLe : f \in Connues(F)}
             st == CASE S = {} -> "open" [] Cardinality(S) = 1 -> (CHOOSE s \in S : TRUE) [] OTHER -> "for_review"
             so == IF S = {} THEN "system" ELSE "migration"
             p == Min(T)
             d == Max(T)
             r == IF st = "resolved" THEN Max(Q) ELSE 0
             g == Naissance(k)
  <1>1. g = [Absente EXCEPT !.cle = k, !.statut = st, !.source = so, !.premiere = p, !.derniere = d,
                            !.revision = 1, !.resoluLe = r]
    BY DEF Naissance
  <1>2. R \in SUBSET Erreurs /\ R \subseteq lot.fraiches \cup lot.vues /\ mes \subseteq R /\ mes \subseteq Erreurs
    BY DEF TypesDuLot, DeCle, DEmpreintes
  <1>3. T \in SUBSET Nat /\ IsFiniteSet(T) /\ T # {}
    <2> HIDE DEF R
    <2>1. T \in SUBSET Nat /\ IsFiniteSet(T)
      BY <1>2, InstantsFinis
    <2>2. T # {}
      BY <1>2 DEF Instants
    <2> QED BY <2>1, <2>2
  <1>4. p \in Nat /\ d \in Nat /\ \E e \in lot.fraiches \cup lot.vues : d = e.ts
    <2>1. p \in T /\ d \in T
      <3> HIDE DEF T
      <3> QED BY <1>3, PlusPetit, PlusGrand
    <2>2. \E e \in R : d = e.ts
      BY <2>1 DEF Instants
    <2> QED BY <1>2, <1>3, <2>1, <2>2
  <1>5. Connues(F) \in SUBSET Empreintes
    BY <1>2 DEF Connues, Empreintes
  <1>6. \A f \in Connues(F) : Historique[f].statut \in {"open", "resolved", "ignored"} /\ Historique[f].resoluLe \in Nat
    BY <1>5, ErreursAssumption
  <1>7. S \subseteq {"open", "resolved", "ignored"} /\ (S # {} => Connues(F) # {})
    BY <1>6 DEF StatutsDe
  <1>8. st \in Statuts /\ (st = "resolved" => S # {})
    <2> HIDE DEF S
    <2>1. CASE S = {}
      <3>1. st = "open"
        BY <2>1
      <3> QED BY <3>1 DEF Statuts
    <2>2. CASE S # {} /\ Cardinality(S) = 1
      <3>1. st = (CHOOSE s \in S : TRUE)
        BY <2>2
      <3>2. (CHOOSE s \in S : TRUE) \in S
        BY <2>2
      <3> QED BY <1>7, <2>2, <3>1, <3>2 DEF Statuts
    <2>3. CASE S # {} /\ Cardinality(S) # 1
      <3>1. st = "for_review"
        BY <2>3
      <3> QED BY <2>3, <3>1 DEF Statuts
    <2> QED BY <2>1, <2>2, <2>3
  <1>9. so \in {"system", "migration", "user"}
    OBVIOUS
  <1>10. r \in Nat
    <2>1. CASE st = "resolved"
      <3>1. Connues(F) # {}
        BY <1>7, <1>8, <2>1
      <3>2. Q \in SUBSET Nat /\ Q # {}
        BY <1>6, <3>1
      <3>3. IsFiniteSet(Q)
        <4> DEFINE C == Connues(F)
                   h == [f \in C |-> Historique[f].resoluLe]
        <4>1. Q = {h[f] : f \in C} /\ h \in [C -> {h[f] : f \in C}]
          OBVIOUS
        <4>2. IsFiniteSet(C)
          BY <1>5, EmpreintesFinies, FS_Subset
        <4> HIDE DEF h, C, Q
        <4> QED BY <4>1, <4>2, ImageFinie
      <3>4. Max(Q) \in Q
        <4> HIDE DEF Q
        <4> QED BY <3>2, <3>3, PlusGrand
      <3>5. r = Max(Q)
        BY <2>1
      <3> HIDE DEF r, Q
      <3> QED BY <3>2, <3>4, <3>5
    <2>2. CASE st # "resolved"
      BY <2>2
    <2> QED BY <2>1, <2>2
  <1> HIDE DEF g, st, so, p, d, r
  <1>11. g \in Issue /\ g.cle = k /\ g.ref = Inconnue /\ g.derniere = d
    BY <1>1, <1>4, <1>8, <1>9, <1>10, AbsenteIssue DEF Issue
  <1> QED BY <1>4, <1>11 DEF g

-----------------------------------------------------------------------------
(* Steps, again *)

LEMMA RangDesIds == \A i \in Ids : i \in Nat /\ i # 0
  BY BornesAssumption DEF Ids

LEMMA TypesDuRepos ==
  /\ TypesDuLot(PasDeLot) /\ PasDeLot.tient = {} /\ PasDeLot.creees = {} /\ PasDeLot.etape = "repos"
  /\ PasDeLot.recues = {} /\ PasDeLot.vues = {} /\ PasDeLot.ecrites = {} /\ PasDeLot.fraiches = {}
  /\ (\A k \in Cles : PasDeLot.cible[k] = 0) /\ \A i \in Ids : PasDeLot.brouillon[i] = Absente
  <1>1. /\ PasDeLot.tient = {} /\ PasDeLot.creees = {} /\ PasDeLot.etape = "repos" /\ PasDeLot.reste = {}
        /\ PasDeLot.recues = {} /\ PasDeLot.vues = {} /\ PasDeLot.ecrites = {} /\ PasDeLot.fraiches = {}
        /\ PasDeLot.cible = [k \in Cles |-> 0] /\ PasDeLot.brouillon = [i \in Ids |-> Absente]
    BY DEF PasDeLot
  <1>2. PasDeLot.cible \in [Cles -> Ids \cup {0}]
    BY <1>1
  <1> QED BY <1>1, <1>2, AbsenteIssue DEF TypesDuLot, Etapes, Ouvertes

LEMMA DepartDInv ==
  ASSUME Init
  PROVE  DInv
  <1> USE DEF Init
  <1>1. IInv
    BY DepartIInv
  <1>2. \A i \in Ids : issues[i] = Absente
    OBVIOUS
  <1>3. Vives = {}
    BY <1>2, AbsenteIssue DEF Vives
  <1>4. horloge \in Nat /\ horloge >= 1 /\ horloge + Avance \in Nat
    BY BornesAssumption
  <1>5. \A u \in Utilisateurs : TypesDuTriage(triage[u]) /\ triage[u].issue = 0 /\ ecran[u].issue \in Ids \cup {0}
    BY DEF PasDeTriage, PasDEcran, TypesDuTriage
  <1>6. Donnees
    <2>1. prochaine \in 1..(MaxIssues + 1) /\ efface \in BOOLEAN /\ purge.etape \in {"repos", "issues", "supprimer"}
      <3>1. 1 \in 1..(MaxIssues + 1)
        BY BornesAssumption
      <3>2. PasDePurge.etape = "repos"
        BY DEF PasDePurge
      <3> QED BY <3>1, <3>2
    <2>2. lignes \subseteq Erreurs /\ issueDe \in [Erreurs -> Ids \cup {0}]
      BY ErreursAssumption
    <2> QED BY <1>2, <1>5, <2>1, <2>2, AbsenteIssue, TypesDuRepos DEF Donnees
  <1>7. Identites
    BY <1>3, TypesDuRepos DEF Identites
  <1>8. Avances(Absente)
    BY <1>4, AbsenteIssue DEF Avances
  <1>9. Temps
    BY <1>2, <1>5, <1>8, TypesDuRepos DEF Temps, TempsDesLignes, TempsDesIssues, TempsDuLot, TempsDuTriage
  <1>10. Heritages /\ RangsDuLot /\ RangsCommis
    BY <1>3, TypesDuRepos DEF Heritages, RangsDuLot, RangsCommis, Ouvertes
  <1> QED BY <1>1, <1>6, <1>7, <1>9, <1>10 DEF DInv

LEMMA PlusTard ==
  ASSUME NEW h \in Nat, NEW g \in Nat, g >= h, NEW a \in Nat, NEW t \in Nat, t <= h + a
  PROVE  t <= g + a
  OBVIOUS

\* Time passes, users read and lock, retention chooses: nothing is written.
LEMMA RienDEcrit ==
  ASSUME DInv, IInv', UNCHANGED <<lignes, issueDe, issues, prochaine, efface, lot>>,
         horloge' \in 1..MaxHorloge, horloge' >= horloge, purge'.etape \in {"repos", "issues", "supprimer"},
         \A u \in Utilisateurs : TypesDuTriage(triage'[u]) /\ ecran'[u].issue \in Ids \cup {0},
         TempsDuTriage'
  PROVE  DInv'
  <1>0. horloge \in Nat /\ horloge' \in Nat /\ Avance \in Nat
    <2>1. horloge \in 1..MaxHorloge
      BY DEF DInv, Donnees
    <2> QED BY <2>1, BornesAssumption
  <1>1. Donnees'
    BY DEF DInv, Donnees
  <1>2. Vives' = Vives /\ Manquantes' = Manquantes /\ \A i \in Ids : Vue(i)' = Vue(i)
    BY DEF Vives, Manquantes, Vue, TenueParLot
  <1>3. Identites'
    BY <1>2 DEF DInv, Identites
  <1>4. ASSUME NEW t \in Nat, t <= horloge + Avance PROVE t <= horloge' + Avance
    BY <1>0, <1>4, PlusTard
  <1>5. \A f \in Issue : Avances(f) => Avances(f)'
    <2>1. \A f \in Issue : f.derniere \in Nat
      BY DEF Issue
    <2> QED BY <1>4, <2>1 DEF Avances
  <1>6. \A e \in Erreurs : e.ts \in Nat
    BY ErreursAssumption
  <1>7. Temps'
    <2>1. TempsDesLignes'
      BY <1>4, <1>6 DEF DInv, Donnees, Temps, TempsDesLignes
    <2>2. TempsDesIssues'
      BY <1>5 DEF DInv, Donnees, Temps, TempsDesIssues
    <2>3. TempsDuLot'
      BY <1>4, <1>5, <1>6 DEF DInv, Donnees, TypesDuLot, Temps, TempsDuLot
    <2> QED BY <2>1, <2>2, <2>3 DEF Temps
  <1>8. Heritages'
    BY DEF DInv, Heritages, Herite, Siennes
  <1>9. RangsDuLot'
    <2>1. ASSUME lot.etape \in Ouvertes, NEW e \in lot.ecrites \cap lot.fraiches
          PROVE  lot.cible[e.cle] \in Ids
      BY <2>1 DEF DInv, Donnees, TypesDuLot, Cles
    <2> QED BY <1>2, <2>1 DEF DInv, RangsDuLot, Finie
  <1>10. RangsCommis'
    BY <1>2 DEF DInv, RangsCommis
  <1> QED BY <1>1, <1>3, <1>7, <1>8, <1>9, <1>10 DEF DInv

LEMMA AvancerDInv ==
  ASSUME DInv, Avancer
  PROVE  DInv'
  <1>0. /\ UNCHANGED <<lignes, issueDe, issues, prochaine, efface, lot, purge, ecran, triage>>
        /\ horloge < MaxHorloge /\ horloge' = horloge + 1
    BY DEF Avancer, base
  <1>1. horloge \in 1..MaxHorloge
    BY DEF DInv, Donnees
  <1>2. horloge' \in 1..MaxHorloge /\ horloge' >= horloge
    BY <1>0, <1>1, BornesAssumption
  <1>3. IInv'
    BY <1>0, SansChangementIInv DEF DInv
  <1>4. TempsDuTriage'
    BY <1>0 DEF DInv, Temps, TempsDuTriage
  <1>5. purge'.etape \in {"repos", "issues", "supprimer"}
        /\ \A u \in Utilisateurs : TypesDuTriage(triage'[u]) /\ ecran'[u].issue \in Ids \cup {0}
    BY <1>0 DEF DInv, Donnees
  <1> QED BY <1>0, <1>2, <1>3, <1>4, <1>5, RienDEcrit

\* A statement of retention chooses what to delete.
LEMMA PurgeDInv ==
  ASSUME DInv, PurgerLignes \/ PurgerIssues \/ AnnulerPurge \/ \E i \in Ids : SupprimerIssue(i)
  PROVE  DInv'
  <1>0. UNCHANGED <<horloge, lignes, issueDe, issues, prochaine, efface, lot, ecran, triage>>
    BY DEF PurgerLignes, PurgerIssues, AnnulerPurge, SupprimerIssue, base
  <1>1. IInv'
    BY PurgerLignesIInv, PurgerIssuesIInv, AnnulerPurgeIInv, SupprimerIssueIInv DEF DInv
  <1>2. FormePurge(purge) /\ purge.etape \in {"repos", "issues", "supprimer"}
    BY DEF DInv, Donnees, IInv, Formes
  <1>3. purge'.etape \in {"repos", "issues", "supprimer"}
    <2>1. CASE PurgerLignes
      <3>1. PICK c, l : purge' = [PasDePurge EXCEPT !.etape = "issues", !.coupure = c, !.lignes = l]
        BY <2>1 DEF PurgerLignes
      <3>2. purge'.etape = "issues"
        BY <3>1 DEF PasDePurge
      <3> QED BY <3>2
    <2>2. CASE PurgerIssues
      <3>1. PICK r : purge' = [purge EXCEPT !.etape = "supprimer", !.reste = r]
        BY <2>2 DEF PurgerIssues
      <3>2. purge'.etape = "supprimer"
        BY <1>2, <3>1 DEF FormePurge, ChampsPurge
      <3> QED BY <3>2
    <2>3. CASE AnnulerPurge
      <3>1. purge'.etape = "repos"
        BY <2>3 DEF AnnulerPurge, PasDePurge
      <3> QED BY <3>1
    <2>4. ASSUME NEW i \in Ids, SupprimerIssue(i)
          PROVE  purge'.etape = purge.etape
      <3>1. PICK r, s : purge' = [purge EXCEPT !.reste = r, !.supprime = s]
        BY <2>4 DEF SupprimerIssue
      <3> QED BY <1>2, <3>1 DEF FormePurge, ChampsPurge
    <2> QED BY <1>2, <2>1, <2>2, <2>3, <2>4
  <1>4. TempsDuTriage'
    BY <1>0 DEF DInv, Temps, TempsDuTriage
  <1>5. \A u \in Utilisateurs : TypesDuTriage(triage'[u]) /\ ecran'[u].issue \in Ids \cup {0}
    BY <1>0 DEF DInv, Donnees
  <1>6. horloge' \in 1..MaxHorloge /\ horloge' >= horloge
    <2>1. horloge \in 1..MaxHorloge
      BY DEF DInv, Donnees
    <2> QED BY <1>0, <2>1, BornesAssumption
  <1> QED BY <1>0, <1>1, <1>3, <1>4, <1>5, <1>6, RienDEcrit

\* A user reads, locks or gives up; a decision is dated after what the issue has seen.
LEMMA ConsoleDInv ==
  ASSUME DInv, NEW u \in Utilisateurs, Lire(u) \/ Renoncer(u) \/ \E d \in Decisions : Verrouiller(u, d)
  PROVE  DInv'
  <1>0. UNCHANGED <<horloge, lignes, issueDe, issues, prochaine, efface, lot, purge>>
    BY DEF Lire, Renoncer, Verrouiller, base
  <1>1. IInv'
    BY LireIInv, RenoncerIInv, VerrouillerIInv DEF DInv
  <1>2. horloge \in Nat /\ horloge >= 1 /\ horloge \in 1..MaxHorloge
    <2>1. horloge \in 1..MaxHorloge
      BY DEF DInv, Donnees
    <2> QED BY <2>1, BornesAssumption
  <1>3. \A v \in Utilisateurs : TypesDuTriage(triage[v]) /\ ecran[v].issue \in Ids \cup {0}
    BY DEF DInv, Donnees
  <1>4. /\ ecran = [v \in Utilisateurs |-> ecran[v]] /\ triage = [v \in Utilisateurs |-> triage[v]]
        /\ TempsDuTriage
    BY DEF DInv, IInv, Formes, Temps
  <1>5. PasDEcran.issue = 0 /\ PasDeTriage.issue = 0 /\ TypesDuTriage(PasDeTriage)
    BY DEF PasDEcran, PasDeTriage, TypesDuTriage
  <1>6. /\ \A v \in Utilisateurs : TypesDuTriage(triage'[v]) /\ ecran'[v].issue \in Ids \cup {0}
        /\ TempsDuTriage'
    <2>1. CASE Lire(u)
      <3>1. PICK i \in Vives : ecran' = [ecran EXCEPT ![u] = [issue |-> i, revision |-> issues[i].revision,
                                                                statut |-> issues[i].statut]]
        BY <2>1 DEF Lire
      <3>2. i \in Ids
        BY DEF Vives
      <3>3. \A v \in Utilisateurs : ecran'[v].issue \in Ids \cup {0}
        BY <1>3, <1>4, <3>1, <3>2
      <3>4. triage' = triage
        BY <2>1 DEF Lire
      <3> QED BY <1>0, <1>3, <1>4, <3>3, <3>4 DEF TempsDuTriage
    <2>2. CASE Renoncer(u)
      <3>1. triage' = [triage EXCEPT ![u] = PasDeTriage] /\ ecran' = ecran
        BY <2>2 DEF Renoncer
      <3>2. \A v \in Utilisateurs : triage'[v] = triage[v] \/ triage'[v] = PasDeTriage
        BY <1>4, <3>1
      <3> QED BY <1>0, <1>3, <1>4, <1>5, <3>1, <3>2 DEF TempsDuTriage
    <2>3. ASSUME NEW d \in Decisions, Verrouiller(u, d), ~Actuelle(u)
          PROVE  <1>6!1 /\ <1>6!2
      <3>1. triage' = triage /\ ecran' = [ecran EXCEPT ![u] = PasDEcran]
        BY <2>3 DEF Verrouiller
      <3>2. \A v \in Utilisateurs : ecran'[v] = ecran[v] \/ ecran'[v] = PasDEcran
        BY <1>4, <3>1
      <3> QED BY <1>0, <1>3, <1>4, <1>5, <3>1, <3>2 DEF TempsDuTriage
    <2>4. ASSUME NEW d \in Decisions, Verrouiller(u, d), Actuelle(u)
          PROVE  <1>6!1 /\ <1>6!2
      <3> DEFINE i == ecran[u].issue
      <3>0. i \in Ids
        BY <2>4 DEF Actuelle, Vives
      <3>1. PICK r \in Reference(i) :
              triage' = [triage EXCEPT ![u] = [issue |-> i, demande |-> d, vu |-> ecran[u].statut,
                                               le |-> horloge, ref |-> IF d = "resolved" THEN r ELSE Inconnue]]
        BY <2>4 DEF Verrouiller
      <3>2. ecran' = ecran
        BY <2>4 DEF Verrouiller
      <3>3. r \in Versions \cup {Inconnue}
        <4>1. lignes \subseteq Erreurs
          BY DEF DInv, Donnees
        <4>2. \A e \in Erreurs : e.version \in Versions
          BY ErreursAssumption
        <4> QED BY <3>1, <4>1, <4>2 DEF Reference
      <3> DEFINE t == [issue |-> i, demande |-> d, vu |-> ecran[u].statut,
                       le |-> horloge, ref |-> IF d = "resolved" THEN r ELSE Inconnue]
      <3>4. /\ t.issue = i /\ t.demande = d /\ t.le = horloge /\ t.ref \in Versions \cup {Inconnue}
            /\ t.ref # Inconnue => t.demande = "resolved"
        BY <3>3
      <3>5. triage' = [triage EXCEPT ![u] = t]
        BY <3>1
      <3> HIDE DEF t
      <3>6. TypesDuTriage(t)
        BY <1>2, <3>0, <3>4, DecisionsAssumption DEF TypesDuTriage
      <3>7. issues[i].derniere <= t.le + Avance
        BY <3>0, <3>4 DEF DInv, Temps, TempsDesIssues, Avances
      <3>8. \A v \in Utilisateurs : triage'[v] = triage[v] \/ triage'[v] = t
        BY <1>4, <3>5
      <3>9. \A v \in Utilisateurs : TypesDuTriage(triage'[v])
        BY <1>3, <3>6, <3>8
      <3>10. TempsDuTriage'
        BY <1>0, <1>2, <1>4, <3>4, <3>7, <3>8 DEF TempsDuTriage
      <3> QED BY <1>3, <3>2, <3>9, <3>10
    <2> QED BY <2>1, <2>2, <2>3, <2>4
  <1>7. horloge' \in 1..MaxHorloge /\ horloge' >= horloge
    BY <1>0, <1>2
  <1>8. purge'.etape \in {"repos", "issues", "supprimer"}
    BY <1>0 DEF DInv, Donnees
  <1> QED BY <1>0, <1>1, <1>6, <1>7, <1>8, RienDEcrit

\* A batch that holds nothing: before its rows are written, or after a failure.
LEMMA LotSansVersion ==
  ASSUME DInv, IInv', UNCHANGED <<horloge, lignes, issueDe, issues, prochaine, efface, purge, ecran, triage>>,
         TypesDuLot(lot'), lot'.tient = {}, lot'.etape \notin Ouvertes,
         lot'.etape = "ecrire" => \A k \in Manquantes' : \A i \in Vives : issues[i].cle # k,
         \A k \in Cles : lot'.cible[k] < prochaine,
         \A e \in lot'.recues \cup lot'.vues \cup lot'.ecrites : e.ts <= horloge + Avance,
         \A i \in Ids : Avances(lot'.brouillon[i])
  PROVE  DInv'
  <1>1. Vives' = Vives /\ lot'.creees = {}
    BY DEF Vives, TypesDuLot
  <1>2. Donnees'
    BY DEF DInv, Donnees
  <1>3. Identites'
    BY <1>1 DEF DInv, Identites
  <1>4. Temps'
    BY DEF DInv, Temps, TempsDesLignes, TempsDesIssues, TempsDuLot, TempsDuTriage, Avances
  <1>5. Heritages' /\ RangsDuLot' /\ RangsCommis'
    BY <1>1 DEF DInv, Heritages, RangsDuLot, RangsCommis
  <1> QED BY <1>2, <1>3, <1>4, <1>5 DEF DInv

LEMMA AvancesDAbsente ==
  ASSUME DInv
  PROVE  Avances(Absente) /\ prochaine \in Nat /\ prochaine >= 1 /\ horloge \in Nat
  <1>1. horloge \in 1..MaxHorloge /\ prochaine \in 1..(MaxIssues + 1)
    BY DEF DInv, Donnees
  <1>2. horloge \in Nat /\ horloge + Avance >= 0 /\ prochaine \in Nat /\ prochaine >= 1
    BY <1>1, BornesAssumption
  <1> QED BY <1>2, AbsenteIssue DEF Avances

LEMMA EchouerDInv ==
  ASSUME DInv, Echouer
  PROVE  DInv'
  <1>0. lot' = PasDeLot /\ UNCHANGED <<horloge, lignes, issueDe, issues, prochaine, efface, purge, ecran, triage>>
    BY DEF Echouer, base
  <1>1. IInv'
    BY EchouerIInv DEF DInv
  <1>2. \A k \in Cles : 0 < prochaine
    BY AvancesDAbsente
  <1> QED BY <1>0, <1>1, <1>2, TypesDuRepos, AvancesDAbsente, LotSansVersion DEF Ouvertes

LEMMA RecevoirDInv ==
  ASSUME DInv, NEW l \in Lots, Recevoir(l)
  PROVE  DInv'
  <1> DEFINE admises == IF efface THEN l \ Sujet ELSE l
  <1>0. UNCHANGED <<horloge, lignes, issueDe, issues, prochaine, efface, purge, ecran, triage>>
    BY DEF Recevoir, base
  <1>1. lot' = [PasDeLot EXCEPT !.etape = "chercher", !.recues = admises, !.fraiches = admises \ lignes]
    BY DEF Recevoir
  <1>2. admises \subseteq l /\ l \subseteq Erreurs /\ \A e \in l : e.ts <= horloge + Avance
    BY ErreursAssumption DEF Recevoir
  <1> HIDE DEF admises
  <1>3. /\ lot'.etape = "chercher" /\ lot'.recues = admises /\ lot'.fraiches = admises \ lignes
        /\ lot'.tient = {} /\ lot'.creees = {} /\ lot'.reste = {} /\ lot'.vues = {} /\ lot'.ecrites = {}
        /\ lot'.cible = [k \in Cles |-> 0] /\ lot'.brouillon = [i \in Ids |-> Absente]
    BY <1>1 DEF PasDeLot
  <1>4. lot'.cible \in [Cles -> Ids \cup {0}]
    BY <1>3
  <1>5. TypesDuLot(lot')
    BY <1>2, <1>3, <1>4, AbsenteIssue DEF TypesDuLot, Etapes, Ouvertes
  <1>6. \A k \in Cles : lot'.cible[k] < prochaine
    BY <1>3, AvancesDAbsente
  <1>7. \A i \in Ids : Avances(lot'.brouillon[i])
    BY <1>3, AvancesDAbsente
  <1>8. IInv'
    BY RecevoirIInv DEF DInv
  <1> QED BY <1>0, <1>2, <1>3, <1>5, <1>6, <1>7, <1>8, LotSansVersion DEF Ouvertes

\* The issues found exist; for a key without one, there is none.
LEMMA ChercherDInv ==
  ASSUME DInv, Chercher
  PROVE  DInv'
  <1> DEFINE trouvee == [k \in Cles |->
               IF DeCle(lot.fraiches, k) = {} THEN {} ELSE {i \in Vives : issues[i].cle = k}]
             cible == [k \in Cles |-> IF trouvee[k] = {} THEN 0 ELSE Max(trouvee[k])]
             nouveaux == {<<e.empreinte, cible[e.cle]>> : e \in {x \in lot.fraiches : cible[x.cle] # 0}} \ alias
  <1>0. UNCHANGED <<horloge, lignes, issueDe, issues, prochaine, efface, purge, ecran, triage>>
    BY DEF Chercher, base
  <1>1. lot' = [lot EXCEPT !.etape = "ecrire", !.cible = cible, !.vues = lignes, !.nouveaux = nouveaux]
    BY DEF Chercher
  <1>2. lot.etape = "chercher" /\ FormeLot(lot) /\ TypesDuLot(lot) /\ lot.tient = {}
    BY DEF Chercher, DInv, Donnees, IInv, Formes, Brouillons
  <1>3. ASSUME NEW k \in Cles
        PROVE  /\ cible[k] \in Ids \cup {0} /\ cible[k] < prochaine
               /\ cible[k] = 0 => trouvee[k] = {}
    <2>1. trouvee[k] \subseteq Vives
      OBVIOUS
    <2>2. CASE trouvee[k] = {}
      <3>1. cible[k] = 0
        BY <2>2
      <3> QED BY <2>2, <3>1, AvancesDAbsente
    <2>3. CASE trouvee[k] # {}
      <3>1. cible[k] = Max(trouvee[k])
        BY <2>3
      <3>2. trouvee[k] \in SUBSET Nat /\ IsFiniteSet(trouvee[k])
        <4>1. trouvee[k] \in SUBSET Ids
          BY <2>1 DEF Vives
        <4>2. IsFiniteSet(Ids)
          BY FS_Interval, BornesAssumption DEF Ids
        <4> HIDE DEF trouvee
        <4> QED BY <4>1, <4>2, FS_Subset, RangDesIds
      <3> HIDE DEF trouvee, cible
      <3>3. cible[k] \in trouvee[k]
        BY <2>3, <3>1, <3>2, PlusGrand
      <3>4. cible[k] \in Ids /\ cible[k] \in Vives
        BY <2>1, <3>3 DEF Vives
      <3>5. cible[k] < prochaine
        BY <3>4 DEF DInv, IInv, Tires
      <3> QED BY <3>4, <3>5, RangDesIds
    <2> QED BY <2>2, <2>3
  <1>4. cible \in [Cles -> Ids \cup {0}]
    BY <1>3
  <1>5. \A k \in Cles : cible[k] = 0 /\ DeCle(lot.fraiches, k) # {} => \A i \in Vives : issues[i].cle # k
    BY <1>3
  <1> HIDE DEF trouvee, cible, nouveaux
  <1>6. /\ lot'.etape = "ecrire" /\ lot'.recues = lot.recues /\ lot'.fraiches = lot.fraiches /\ lot'.cible = cible
        /\ lot'.vues = lignes /\ lot'.ecrites = lot.ecrites /\ lot'.tient = lot.tient /\ lot'.creees = lot.creees
        /\ lot'.reste = lot.reste /\ lot'.brouillon = lot.brouillon
    BY <1>1, <1>2 DEF FormeLot, ChampsLot
  <1>7. TypesDuLot(lot')
    <2>1. lignes \subseteq Erreurs
      BY DEF DInv, Donnees
    <2> QED BY <1>2, <1>4, <1>6, <2>1 DEF TypesDuLot, Etapes, Ouvertes
  <1>8. \A k \in Manquantes' : \A i \in Vives : issues[i].cle # k
    BY <1>5, <1>6 DEF Manquantes
  <1>9. \A e \in lot'.recues \cup lot'.vues \cup lot'.ecrites : e.ts <= horloge + Avance
    BY <1>6 DEF DInv, Temps, TempsDesLignes, TempsDuLot
  <1>10. \A i \in Ids : Avances(lot'.brouillon[i])
    BY <1>6 DEF DInv, Temps, TempsDuLot
  <1>11. IInv'
    BY ChercherIInv DEF DInv
  <1>12. lot'.etape \notin Ouvertes /\ lot'.tient = {}
    BY <1>2, <1>6 DEF Ouvertes
  <1>13. \A k \in Cles : lot'.cible[k] < prochaine
    BY <1>3, <1>6
  <1> QED BY <1>0, <1>7, <1>8, <1>9, <1>10, <1>11, <1>12, <1>13, LotSansVersion

\* The identifiers of the issues it creates are those of no issue and of no row.
LEMMA EcrireDInv ==
  ASSUME DInv, Ecrire
  PROVE  DInv'
  <1> DEFINE suivante == prochaine + Cardinality(Manquantes)
  <1>0. /\ lot.etape = "ecrire" /\ UNCHANGED <<horloge, lignes, issueDe, issues, efface, purge, ecran, triage>>
        /\ prochaine' = suivante /\ suivante <= MaxIssues + 1
    BY DEF Ecrire, base
  <1>1. Manquantes \in SUBSET Cles /\ Cardinality(Manquantes) \in Nat
    <2>1. Manquantes \in SUBSET Cles
      BY DEF Manquantes
    <2> QED BY <2>1, ClesFinies, FS_Subset, FS_CardinalityType
  <1>2. PICK num \in Injection(Manquantes, prochaine..(suivante - 1)) :
          LET cible == [k \in Cles |-> IF k \in Manquantes THEN num[k] ELSE lot.cible[k]]
              creees == {num[k] : k \in Manquantes}
          IN  lot' = [lot EXCEPT
                 !.etape = "finaliser", !.cible = cible, !.creees = creees, !.tient = creees,
                 !.brouillon = [i \in Ids |-> IF i \in creees THEN Naissance(CHOOSE k \in Manquantes : num[k] = i)
                                              ELSE Absente],
                 !.ecrites = lot.recues \ lignes,
                 !.avis = {<<"new", num[k], 0>> : k \in {m \in Manquantes :
                              Connues({e.empreinte : e \in DeCle(lot.fraiches, m)}) = {}}},
                 !.reste = {cible[e.cle] : e \in lot.fraiches}]
    BY DEF Ecrire
  <1> DEFINE creees == {num[k] : k \in Manquantes}
             cible == [k \in Cles |-> IF k \in Manquantes THEN num[k] ELSE lot.cible[k]]
             brouillon == [i \in Ids |-> IF i \in creees THEN Naissance(CHOOSE k \in Manquantes : num[k] = i)
                                         ELSE Absente]
             avisLot == {<<"new", num[k], 0>> : k \in {m \in Manquantes :
                              Connues({e.empreinte : e \in DeCle(lot.fraiches, m)}) = {}}}
             reste == {cible[e.cle] : e \in lot.fraiches}
  <1>3. lot' = [lot EXCEPT !.etape = "finaliser", !.cible = cible, !.creees = creees, !.tient = creees,
                           !.brouillon = brouillon, !.ecrites = lot.recues \ lignes, !.avis = avisLot, !.reste = reste]
    BY <1>2
  <1>4. /\ FormeLot(lot) /\ TypesDuLot(lot) /\ prochaine \in 1..(MaxIssues + 1)
        /\ \A k \in Cles : lot.cible[k] < prochaine
    BY DEF DInv, Donnees, IInv, Formes, Identites
  <1>5. prochaine' \in 1..(MaxIssues + 1) /\ prochaine <= prochaine' /\ prochaine \in Nat /\ prochaine' \in Nat
    BY <1>0, <1>1, <1>4, BornesAssumption
  <1>6. \A k \in Manquantes : /\ num[k] \in Ids /\ num[k] \in Nat /\ prochaine <= num[k] /\ num[k] < prochaine'
    <2>1. \A k \in Manquantes : num[k] \in prochaine..(suivante - 1)
      BY <1>2 DEF Injection
    <2> QED BY <1>0, <1>1, <1>4, <2>1, BornesAssumption DEF Ids
  <1>7. \A k \in Manquantes : k \in Cles /\ DeCle(lot.fraiches, k) # {} /\ \A i \in Vives : issues[i].cle # k
    BY <1>0 DEF Manquantes, DInv, Identites
  <1>8. \A i \in creees : \E k \in Manquantes : i = num[k] /\ brouillon[i] = Naissance(k)
    <2> SUFFICES ASSUME NEW i \in creees
                 PROVE  \E k \in Manquantes : i = num[k] /\ brouillon[i] = Naissance(k)
      OBVIOUS
    <2>1. i \in Ids
      BY <1>6
    <2>2. brouillon[i] = Naissance(CHOOSE k \in Manquantes : num[k] = i)
      BY <2>1
    <2>3. \E k \in Manquantes : num[k] = i
      OBVIOUS
    <2> QED BY <2>2, <2>3
  <1>9. \A i \in Ids : i \notin creees => brouillon[i] = Absente
    OBVIOUS
  <1>10. ASSUME NEW k \in Cles
         PROVE  cible[k] \in Ids \cup {0} /\ cible[k] < prochaine'
    <2>1. CASE k \in Manquantes
      <3>1. cible[k] = num[k]
        BY <2>1
      <3> HIDE DEF cible, suivante
      <3> QED BY <1>6, <2>1, <3>1
    <2>2. CASE k \notin Manquantes
      <3>1. cible[k] = lot.cible[k]
        BY <2>2
      <3>2. lot.cible[k] \in Ids \cup {0} /\ lot.cible[k] < prochaine /\ lot.cible[k] \in Nat
        BY <1>4, RangDesIds DEF TypesDuLot
      <3> HIDE DEF cible, suivante
      <3> QED BY <1>5, <3>1, <3>2
    <2> QED BY <2>1, <2>2
  <1>11. \A e \in lot.fraiches : e.cle \in Cles /\ cible[e.cle] # 0
    <2> SUFFICES ASSUME NEW e \in lot.fraiches PROVE e.cle \in Cles /\ cible[e.cle] # 0
      OBVIOUS
    <2>1. e.cle \in Cles /\ DeCle(lot.fraiches, e.cle) # {}
      BY <1>4 DEF TypesDuLot, Cles, DeCle
    <2>2. CASE e.cle \in Manquantes
      <3>1. cible[e.cle] = num[e.cle]
        BY <2>1, <2>2
      <3> QED BY <1>6, <2>1, <2>2, <3>1, RangDesIds
    <2>3. CASE e.cle \notin Manquantes
      BY <2>1, <2>3 DEF Manquantes
    <2> QED BY <2>2, <2>3
  <1>12. cible \in [Cles -> Ids \cup {0}] /\ creees \subseteq Ids
    BY <1>6, <1>10
  <1>13. reste \subseteq Ids
    BY <1>10, <1>11
  <1>14. \A e \in lot.fraiches : cible[e.cle] \in reste
    OBVIOUS
  <1>15. \A i \in creees, j \in creees : brouillon[i].cle = brouillon[j].cle => i = j
    <2> HIDE DEF brouillon, creees, suivante
    <2>1. \A k \in Manquantes : Naissance(k).cle = k
      BY <1>4, <1>7, NaissanceIssue
    <2> QED BY <1>8, <2>1
  <1> HIDE DEF creees, cible, brouillon, avisLot, reste, suivante
  <1>16. /\ lot'.etape = "finaliser" /\ lot'.recues = lot.recues /\ lot'.fraiches = lot.fraiches /\ lot'.cible = cible
         /\ lot'.vues = lot.vues /\ lot'.ecrites = lot.recues \ lignes /\ lot'.tient = creees /\ lot'.creees = creees
         /\ lot'.reste = reste /\ lot'.brouillon = brouillon
    BY <1>3, <1>4 DEF FormeLot, ChampsLot
  <1>17. \A i \in Ids : brouillon[i] \in Issue
    <2>1. ASSUME NEW i \in creees PROVE brouillon[i] \in Issue
      BY <1>4, <1>7, <1>8, <2>1, NaissanceIssue
    <2> QED BY <1>9, <2>1, AbsenteIssue
  <1>18. TypesDuLot(lot')
    BY <1>4, <1>11, <1>12, <1>13, <1>16, <1>17 DEF TypesDuLot, Etapes, Ouvertes
  <1>19. Vives' = Vives /\ \A i \in Vives : i \in Ids
    BY <1>0 DEF Vives
  <1>20. Donnees'
    BY <1>0, <1>5, <1>18 DEF DInv, Donnees
  <1>21. Identites'
    <2>1. \A i \in creees : \A j \in Vives : issues[j].cle # brouillon[i].cle
      <3>1. \A k \in Manquantes : Naissance(k).cle = k
        BY <1>4, <1>7, NaissanceIssue
      <3> QED BY <1>7, <1>8, <3>1
    <2>2. \A e \in Erreurs : issueDe[e] \in Nat /\ issueDe[e] < prochaine
      BY RangDesIds DEF DInv, Donnees, Identites
    <2>3. \A i \in creees : i \in Nat /\ prochaine <= i
      BY <1>6, <1>8
    <2>4. \A i \in creees : \A e \in Erreurs : issueDe[e] # i
      BY <1>5, <2>2, <2>3
    <2>5. \A e \in Erreurs : issueDe[e] < prochaine'
      BY <1>5, <2>2
    <2>6. \A i, j \in Vives : issues[i].cle = issues[j].cle => i = j
      BY DEF DInv, Identites
    <2> QED BY <1>0, <1>10, <1>15, <1>16, <1>19, <2>1, <2>4, <2>5, <2>6 DEF Identites
  <1>22. Temps'
    <2>1. \A e \in lot.recues \cup lot.vues : e.ts <= horloge + Avance
      BY DEF DInv, Temps, TempsDuLot
    <2>2. lot.fraiches \subseteq lot.recues
      BY <1>4 DEF TypesDuLot
    <2>3. ASSUME NEW i \in creees PROVE Avances(brouillon[i])
      <3>1. PICK k \in Manquantes : brouillon[i] = Naissance(k)
        BY <1>8, <2>3
      <3> QED BY <1>4, <1>7, <2>1, <2>2, <3>1, NaissanceIssue DEF Avances
    <2>4. \A i \in Ids : Avances(brouillon[i])
      BY <1>9, <2>3, AvancesDAbsente
    <2>5. TempsDuLot'
      BY <1>0, <1>16, <2>1, <2>4 DEF TempsDuLot, Avances
    <2> QED BY <1>0, <2>5 DEF DInv, Temps, TempsDesLignes, TempsDesIssues, TempsDuTriage, Avances
  <1>23. Heritages'
    BY <1>16 DEF Heritages
  <1>24. RangsDuLot'
    BY <1>14, <1>16 DEF RangsDuLot, Finie
  <1>25. RangsCommis'
    BY <1>0, <1>19 DEF DInv, RangsCommis
  <1>26. IInv'
    BY EcrireIInv DEF DInv
  <1> QED BY <1>20, <1>21, <1>22, <1>23, <1>24, <1>25, <1>26 DEF DInv

\* A statement of a batch that has written its rows: what is left to show is
\* that the version it takes, if it takes one, inherits the committed one.
LEMMA LotAvance ==
  ASSUME DInv, IInv', NEW i \in Ids,
         UNCHANGED <<horloge, lignes, issueDe, issues, prochaine, efface, purge, ecran, triage>>,
         lot.etape \in Ouvertes, lot'.etape \in Ouvertes,
         lot'.recues = lot.recues, lot'.fraiches = lot.fraiches, lot'.cible = lot.cible, lot'.vues = lot.vues,
         lot'.ecrites = lot.ecrites, lot'.creees = lot.creees,
         lot'.reste \subseteq lot.reste, lot'.etape = "juger" => lot'.reste # {},
         lot.tient \subseteq lot'.tient, lot'.tient \subseteq lot.tient \cup {i},
         \A j \in Ids : j # i => lot'.brouillon[j] = lot.brouillon[j],
         lot'.brouillon[i] \in Issue, Avances(lot'.brouillon[i]),
         i \in lot'.tient => lot'.brouillon[i].cle = Vue(i).cle,
         i \in lot'.tient \ lot.creees => Herite(lot.brouillon[i], issues[i], i)',
         RangsDuLot'
  PROVE  DInv'
  <1>0. TypesDuLot(lot) /\ lot.etape # "ecrire" /\ lot'.etape # "ecrire"
    BY DEF DInv, Donnees, Ouvertes
  <1>1. Vives' = Vives
    BY DEF Vives
  <1>2. TypesDuLot(lot')
    <2>1. \A j \in Ids : lot'.brouillon[j] \in Issue
      BY <1>0 DEF TypesDuLot
    <2> QED BY <1>0, <2>1 DEF TypesDuLot, Etapes, Ouvertes
  <1>3. Donnees'
    BY <1>2 DEF DInv, Donnees
  <1>4. Identites'
    <2>1. i \in lot.tient => Vue(i) = lot.brouillon[i]
      BY DEF Vue, TenueParLot
    <2>2. i \notin lot.tient => Vue(i) = issues[i]
      BY DEF Vue, TenueParLot
    <2>3. lot.creees \subseteq lot.tient /\ lot'.tient \subseteq Ids
      BY <1>0, <1>2 DEF TypesDuLot
    <2>4. \A j \in lot.creees : lot'.brouillon[j].cle = lot.brouillon[j].cle
      BY <2>1, <2>3
    <2>5. \A j \in lot'.tient \ lot.creees : lot'.brouillon[j].cle = issues[j].cle
      <3> SUFFICES ASSUME NEW j \in lot'.tient \ lot.creees
                   PROVE  lot'.brouillon[j].cle = issues[j].cle
        OBVIOUS
      <3>1. CASE j = i
        BY <2>1, <2>2, <3>1 DEF DInv, Identites
      <3>2. CASE j # i
        BY <2>3, <3>2 DEF DInv, Identites
      <3> QED BY <3>1, <3>2
    <2> QED BY <1>0, <1>1, <2>4, <2>5 DEF DInv, Identites
  <1>5. Temps'
    <2>1. \A j \in Ids : Avances(lot'.brouillon[j])
      BY DEF DInv, Temps, TempsDuLot
    <2> QED BY <2>1 DEF DInv, Temps, TempsDesLignes, TempsDesIssues, TempsDuLot, TempsDuTriage, Avances
  <1>6. Heritages'
    <2>1. ASSUME NEW j \in lot'.tient \ lot.creees
          PROVE  Herite(lot.brouillon[j], issues[j], j)'
      <3>1. CASE j = i
        BY <3>1
      <3>2. CASE j # i
        <4>1. j \in Ids /\ j \in lot.tient \ lot.creees
          BY <1>2, <3>2 DEF TypesDuLot
        <4>2. Herite(lot.brouillon[j], issues[j], j)
          BY <4>1 DEF DInv, Heritages
        <4> QED BY <3>2, <4>1, <4>2 DEF Herite, Siennes, Confirme
      <3> QED BY <3>1, <3>2
    <2> QED BY <2>1 DEF Heritages
  <1>7. RangsCommis'
    BY <1>1 DEF DInv, RangsCommis
  <1> QED BY <1>3, <1>4, <1>5, <1>6, <1>7 DEF DInv

\* The version a batch sees, and what holds of it.
LEMMA DonneesDeVue ==
  ASSUME DInv, NEW i \in Ids
  PROVE  /\ Vue(i) \in Issue /\ Avances(Vue(i))
         /\ i \in lot.tient => Vue(i) = lot.brouillon[i]
         /\ i \notin lot.tient => Vue(i) = issues[i]
  BY DEF DInv, Donnees, TypesDuLot, Temps, TempsDesIssues, TempsDuLot, Vue, TenueParLot

\* The bounds of an issue are moved.
LEMMA FinaliserDInv ==
  ASSUME DInv, Finaliser
  PROVE  DInv'
  <1>0. /\ UNCHANGED <<horloge, lignes, issueDe, issues, prochaine, efface, purge, ecran, triage>>
        /\ lot.etape = "finaliser" /\ lot.reste # {}
    BY DEF Finaliser, base
  <1>1. FormeLot(lot) /\ TypesDuLot(lot) /\ IInv'
    BY FinaliserIInv DEF DInv, Donnees, IInv, Formes
  <1>2. PICK i \in Ids : i = Min(lot.reste) /\ i \in lot.reste
    <2>1. lot.reste \in SUBSET Nat /\ lot.reste \subseteq Ids
      BY <1>1, RangDesIds DEF TypesDuLot
    <2> QED BY <1>0, <2>1, PlusPetit
  <1> DEFINE f == Vue(i)
             g == Etendue(f, i)
             h == issues[i]
  <1>3. /\ f \in Issue /\ Avances(f) /\ h \in Issue
        /\ i \in lot.tient => f = lot.brouillon[i]
        /\ i \notin lot.tient => f = h
    BY <1>2, DonneesDeVue DEF DInv, Donnees
  <1>4. /\ g \in Issue /\ g.cle = f.cle /\ g.resoluLe = f.resoluLe /\ g.ref = f.ref
        /\ g.premiere <= f.premiere /\ f.derniere <= g.derniere
        /\ \A e \in Siennes(i) : Couvre(g, e)
        /\ g.derniere = f.derniere \/ \E e \in lot.ecrites \cup lot.vues : g.derniere = e.ts
        /\ \/ g.statut = f.statut /\ g.source = f.source
           \/ g.statut = "for_review" /\ f.source # "user"
    BY <1>1, <1>2, <1>3, EtendueIssue
  <1>5. \A e \in lot.ecrites \cap lot.fraiches : e.cle \in Cles /\ lot.cible[e.cle] \in Ids
    BY <1>0, <1>1 DEF TypesDuLot, Cles, Ouvertes
  <1>6. \A e \in lot.ecrites \cap lot.fraiches : lot.cible[e.cle] = i => e \in Siennes(i)
    BY DEF Siennes
  <1> HIDE DEF f, g, h
  <1>7. CASE lot' = [lot EXCEPT !.etape = "juger"] /\ (f.statut = "absente" \/ g = f)
    <2>1. /\ lot'.etape = "juger" /\ lot'.recues = lot.recues /\ lot'.fraiches = lot.fraiches
          /\ lot'.cible = lot.cible /\ lot'.vues = lot.vues /\ lot'.ecrites = lot.ecrites
          /\ lot'.creees = lot.creees /\ lot'.reste = lot.reste /\ lot'.tient = lot.tient
          /\ lot'.brouillon = lot.brouillon
      BY <1>1, <1>7 DEF FormeLot, ChampsLot
    <2>2. \A j \in Ids : Vue(j)' = Vue(j)
      BY <1>0, <2>1 DEF Vue, TenueParLot
    <2>3. RangsDuLot'
      <3> SUFFICES ASSUME NEW e \in lot.ecrites \cap lot.fraiches, NEW j \in Ids, j = lot.cible[e.cle]
                   PROVE  /\ (j \notin lot.reste \/ j = i) /\ Vue(j).statut # "absente" => Couvre(Vue(j), e)
                          /\ j \notin lot.reste => ~Manquee(e, Vue(j))
        BY <1>2, <1>5, <2>1, <2>2 DEF RangsDuLot, Finie, Manquee, Couvre, Confirme
      <3>1. /\ j \notin lot.reste /\ Vue(j).statut # "absente" => Couvre(Vue(j), e)
            /\ j \notin lot.reste => ~Manquee(e, Vue(j))
        BY <1>0 DEF DInv, RangsDuLot, Finie, Ouvertes
      <3>2. j = i /\ Vue(j).statut # "absente" => Couvre(Vue(j), e)
        BY <1>4, <1>6, <1>7 DEF f
      <3> QED BY <3>1, <3>2
    <2>4. i \in lot.tient \ lot.creees => Herite(lot.brouillon[i], issues[i], i)'
      <3>1. i \in lot.tient \ lot.creees => Herite(lot.brouillon[i], issues[i], i)
        BY DEF DInv, Heritages
      <3> QED BY <1>0, <2>1, <3>1 DEF Herite, Siennes, Confirme
    <2>5. lot.brouillon[i] \in Issue /\ Avances(lot.brouillon[i])
      BY <1>2 DEF DInv, Donnees, TypesDuLot, Temps, TempsDuLot
    <2>6. i \in lot.tient => lot.brouillon[i].cle = Vue(i).cle
      BY <1>3 DEF f
    <2>7. lot.etape \in Ouvertes /\ lot'.etape \in Ouvertes
      BY <1>0, <2>1 DEF Ouvertes
    <2> QED BY <1>0, <1>1, <1>2, <2>1, <2>3, <2>4, <2>5, <2>6, <2>7, LotAvance
  <1>8. CASE lot' = [lot EXCEPT !.etape = "juger", !.tient = @ \cup {i}, !.brouillon[i] = g]
    <2>1. /\ lot'.etape = "juger" /\ lot'.recues = lot.recues /\ lot'.fraiches = lot.fraiches
          /\ lot'.cible = lot.cible /\ lot'.vues = lot.vues /\ lot'.ecrites = lot.ecrites
          /\ lot'.creees = lot.creees /\ lot'.reste = lot.reste /\ lot'.tient = lot.tient \cup {i}
          /\ lot'.brouillon = [lot.brouillon EXCEPT ![i] = g]
      BY <1>1, <1>8 DEF FormeLot, ChampsLot
    <2>2. lot'.brouillon[i] = g /\ \A j \in Ids : j # i => lot'.brouillon[j] = lot.brouillon[j]
      BY <1>1, <1>2, <2>1 DEF FormeLot
    <2>3. Vue(i)' = g /\ \A j \in Ids : j # i => Vue(j)' = Vue(j)
      BY <1>0, <2>1, <2>2 DEF Vue, TenueParLot
    <2>4. RangsDuLot'
      <3> SUFFICES ASSUME NEW e \in lot.ecrites \cap lot.fraiches, NEW j \in Ids, j = lot.cible[e.cle]
                   PROVE  /\ (j \notin lot.reste \/ j = i) /\ Vue(j)'.statut # "absente" => Couvre(Vue(j)', e)
                          /\ j \notin lot.reste => ~Manquee(e, Vue(j)')
        BY <1>2, <1>5, <2>1 DEF RangsDuLot, Finie, Manquee, Couvre, Confirme
      <3>1. /\ j \notin lot.reste /\ Vue(j).statut # "absente" => Couvre(Vue(j), e)
            /\ j \notin lot.reste => ~Manquee(e, Vue(j))
        BY <1>0 DEF DInv, RangsDuLot, Finie, Ouvertes
      <3>2. j = i => Couvre(Vue(j)', e)
        BY <1>4, <1>6, <2>3
      <3> QED BY <1>2, <2>3, <3>1, <3>2
    <2>5. i \notin lot.creees => Herite(lot.brouillon[i], issues[i], i)'
      <3> SUFFICES ASSUME i \notin lot.creees
                   PROVE  /\ g.premiere <= h.premiere /\ h.derniere <= g.derniere
                          /\ g.statut = "resolved" => h.statut = "resolved" /\ g.resoluLe = h.resoluLe /\ g.ref = h.ref
                          /\ h.source = "user" => /\ g.statut = h.statut /\ g.source = "user"
                                                  /\ g.resoluLe = h.resoluLe /\ g.ref = h.ref
        BY <1>0, <2>2 DEF Herite, h
      <3>0. /\ g.premiere \in Nat /\ f.premiere \in Nat /\ h.premiere \in Nat
            /\ g.derniere \in Nat /\ f.derniere \in Nat /\ h.derniere \in Nat
        BY <1>3, <1>4 DEF Issue
      <3>1. CASE i \notin lot.tient
        BY <1>3, <1>4, <3>1
      <3>2. CASE i \in lot.tient
        <4>1. Herite(f, h, i)
          BY <1>3, <3>2 DEF DInv, Heritages, h
        <4>2. f.premiere <= h.premiere /\ h.derniere <= f.derniere
              /\ (f.statut = "resolved" => h.statut = "resolved" /\ f.resoluLe = h.resoluLe /\ f.ref = h.ref)
              /\ (h.source = "user" => f.statut = h.statut /\ f.source = "user" /\ f.resoluLe = h.resoluLe /\ f.ref = h.ref)
          BY <1>2, <4>1 DEF Herite
        <4>3. g.premiere <= h.premiere /\ h.derniere <= g.derniere
          BY <1>4, <3>0, <4>2
        <4> QED BY <1>4, <4>2, <4>3
      <3> QED BY <3>1, <3>2
    <2>6. Avances(g)
      <3>1. \A e \in lot.ecrites \cup lot.vues : e.ts <= horloge + Avance
        BY DEF DInv, Temps, TempsDuLot
      <3> QED BY <1>3, <1>4, <3>1 DEF Avances
    <2>7. lot.etape \in Ouvertes /\ lot'.etape \in Ouvertes
      BY <1>0, <2>1 DEF Ouvertes
    <2> QED BY <1>0, <1>1, <1>2, <1>4, <2>1, <2>2, <2>4, <2>5, <2>6, <2>7, LotAvance DEF f
  <1> QED BY <1>2, <1>7, <1>8 DEF Finaliser, f, g

\* A row is judged against the version the batch sees: the issue is not
\* resolved, or the row reopens it, or the row did not have to.
LEMMA JugerDInv ==
  ASSUME DInv, Juger
  PROVE  DInv'
  <1>0. /\ UNCHANGED <<horloge, lignes, issueDe, issues, prochaine, efface, purge, ecran, triage>>
        /\ lot.etape = "juger"
    BY DEF Juger, base
  <1>1. FormeLot(lot) /\ TypesDuLot(lot) /\ IInv' /\ lot.reste # {}
    BY <1>0, JugerIInv DEF DInv, Donnees, IInv, Formes, TypesDuLot
  <1>2. PICK i \in Ids : i = Min(lot.reste) /\ i \in lot.reste
    <2>1. lot.reste \in SUBSET Nat /\ lot.reste \subseteq Ids
      BY <1>1, RangDesIds DEF TypesDuLot
    <2> QED BY <1>1, <2>1, PlusPetit
  <1> DEFINE f == Vue(i)
             h == issues[i]
             suite == [lot EXCEPT !.etape = "finaliser", !.reste = @ \ {i}]
  <1>3. /\ f \in Issue /\ Avances(f) /\ h \in Issue
        /\ i \in lot.tient => f = lot.brouillon[i]
        /\ i \notin lot.tient => f = h
    BY DonneesDeVue DEF DInv, Donnees
  <1>4. \A e \in lot.ecrites \cap lot.fraiches : e.cle \in Cles /\ lot.cible[e.cle] \in Ids
    BY <1>0, <1>1 DEF TypesDuLot, Cles, Ouvertes
  <1>5. \A e \in lot.ecrites \cap lot.fraiches : lot.cible[e.cle] = i => e \in Siennes(i)
    BY DEF Siennes
  <1>6. \A e \in lot.ecrites \cap lot.fraiches :
          LET j == lot.cible[e.cle] IN
          /\ (j = i \/ j \notin lot.reste) /\ Vue(j).statut # "absente" => Couvre(Vue(j), e)
          /\ j \notin lot.reste => ~Manquee(e, Vue(j))
    BY <1>0, <1>2 DEF DInv, RangsDuLot, Finie, Ouvertes
  <1>7. /\ suite.etape = "finaliser" /\ suite.recues = lot.recues /\ suite.fraiches = lot.fraiches
        /\ suite.cible = lot.cible /\ suite.vues = lot.vues /\ suite.ecrites = lot.ecrites
        /\ suite.creees = lot.creees /\ suite.reste = lot.reste \ {i} /\ suite.tient = lot.tient
        /\ suite.brouillon = lot.brouillon
    BY <1>1 DEF FormeLot, ChampsLot
  <1>8. suite = [x \in ChampsLot |-> suite[x]]
    BY <1>1 DEF FormeLot
  <1>9. i \in lot.tient \ lot.creees => Herite(f, h, i)
    BY <1>3 DEF DInv, Heritages
  <1> HIDE DEF f, h, suite
  <1>10. CASE lot' = suite /\ (Siennes(i) = {} \/ f.statut # "resolved")
    <2>2. \A j \in Ids : Vue(j)' = Vue(j)
      BY <1>0, <1>7, <1>10 DEF Vue, TenueParLot
    <2>3. RangsDuLot'
      <3> SUFFICES ASSUME NEW e \in lot.ecrites \cap lot.fraiches, NEW j \in Ids, j = lot.cible[e.cle]
                   PROVE  /\ (j \notin lot.reste \/ j = i) /\ Vue(j).statut # "absente" => Couvre(Vue(j), e)
                          /\ j \notin lot.reste \/ j = i => ~Manquee(e, Vue(j))
        BY <1>4, <1>7, <1>10, <2>2 DEF RangsDuLot, Finie, Manquee, Couvre, Confirme
      <3>1. j = i => ~Manquee(e, Vue(j))
        BY <1>5, <1>10 DEF f, Manquee
      <3> QED BY <1>6, <3>1
    <2>4. i \in lot.tient \ lot.creees => Herite(lot.brouillon[i], issues[i], i)'
      <3>1. i \in lot.tient \ lot.creees => Herite(lot.brouillon[i], issues[i], i)
        BY DEF DInv, Heritages
      <3> QED BY <1>0, <1>7, <1>10, <3>1 DEF Herite, Siennes, Confirme
    <2>5. lot.brouillon[i] \in Issue /\ Avances(lot.brouillon[i])
      BY DEF DInv, Donnees, TypesDuLot, Temps, TempsDuLot
    <2>6. i \in lot.tient => lot.brouillon[i].cle = Vue(i).cle
      BY <1>3 DEF f
    <2>7. lot.etape \in Ouvertes /\ lot'.etape \in Ouvertes /\ lot'.etape # "juger"
      BY <1>0, <1>7, <1>10 DEF Ouvertes
    <2> QED BY <1>0, <1>1, <1>2, <1>7, <1>10, <2>3, <2>4, <2>5, <2>6, <2>7, LotAvance
  <1>11. ASSUME NEW g \in Issue, NEW a,
                lot' = [suite EXCEPT !.tient = @ \cup {i}, !.brouillon[i] = g, !.avis = a],
                g.cle = f.cle, g.premiere = f.premiere, g.derniere = f.derniere, Avances(g), f.statut = "resolved",
                \A e \in Siennes(i) : ~Manquee(e, g),
                g = f \/ (g.statut = "open" /\ \E e \in Siennes(i) : Confirme(e, f))
         PROVE  DInv'
    <2>1. /\ lot'.etape = "finaliser" /\ lot'.recues = lot.recues /\ lot'.fraiches = lot.fraiches
          /\ lot'.cible = lot.cible /\ lot'.vues = lot.vues /\ lot'.ecrites = lot.ecrites
          /\ lot'.creees = lot.creees /\ lot'.reste = lot.reste \ {i} /\ lot'.tient = lot.tient \cup {i}
          /\ lot'.brouillon = [lot.brouillon EXCEPT ![i] = g]
      BY <1>7, <1>8, <1>11 DEF ChampsLot
    <2>2. lot'.brouillon[i] = g /\ \A j \in Ids : j # i => lot'.brouillon[j] = lot.brouillon[j]
      BY <1>1, <1>2, <2>1 DEF FormeLot
    <2>3. Vue(i)' = g /\ \A j \in Ids : j # i => Vue(j)' = Vue(j)
      BY <1>0, <2>1, <2>2 DEF Vue, TenueParLot
    <2>4. RangsDuLot'
      <3> SUFFICES ASSUME NEW e \in lot.ecrites \cap lot.fraiches, NEW j \in Ids, j = lot.cible[e.cle]
                   PROVE  /\ (j \notin lot.reste \/ j = i) /\ Vue(j)'.statut # "absente" => Couvre(Vue(j)', e)
                          /\ j \notin lot.reste \/ j = i => ~Manquee(e, Vue(j)')
        BY <1>4, <2>1 DEF RangsDuLot, Finie, Manquee, Couvre, Confirme
      <3>1. CASE j = i
        <4>1. f.statut # "absente" /\ e \in Siennes(i)
          BY <1>5, <1>11, <3>1
        <4>2. Couvre(g, e)
          BY <1>6, <1>11, <3>1, <4>1 DEF f, Couvre
        <4> QED BY <1>11, <2>3, <3>1, <4>1, <4>2
      <3>2. CASE j # i
        BY <1>6, <2>3, <3>2
      <3> QED BY <3>1, <3>2
    <2>5. i \notin lot.creees => Herite(lot.brouillon[i], issues[i], i)'
      <3> SUFFICES ASSUME i \notin lot.creees
                   PROVE  /\ g.premiere <= h.premiere /\ h.derniere <= g.derniere
                          /\ g.statut = "resolved" => h.statut = "resolved" /\ g.resoluLe = h.resoluLe /\ g.ref = h.ref
                          /\ h.source = "user" =>
                               \/ /\ g.statut = h.statut /\ g.source = "user"
                                  /\ g.resoluLe = h.resoluLe /\ g.ref = h.ref
                               \/ /\ h.statut = "resolved" /\ g.statut = "open"
                                  /\ \E e \in Siennes(i) : Confirme(e, h)
        BY <1>0, <2>1, <2>2 DEF Herite, Siennes, Confirme, h
      <3>0. h.premiere \in Nat /\ h.derniere \in Nat
        BY <1>3 DEF Issue
      <3>1. CASE i \notin lot.tient
        BY <1>3, <1>11, <3>0, <3>1
      <3>2. CASE i \in lot.tient
        <4>1. /\ f.premiere <= h.premiere /\ h.derniere <= f.derniere
              /\ f.statut = "resolved" => h.statut = "resolved" /\ f.resoluLe = h.resoluLe /\ f.ref = h.ref
              /\ h.source = "user" => f.statut = h.statut /\ f.source = "user" /\ f.resoluLe = h.resoluLe /\ f.ref = h.ref
          BY <1>2, <1>9, <3>2 DEF Herite
        <4>2. \A e \in Siennes(i) : Confirme(e, f) => Confirme(e, h)
          BY <1>11, <4>1 DEF Confirme
        <4> QED BY <1>11, <4>1, <4>2
      <3> QED BY <3>1, <3>2
    <2>6. lot.etape \in Ouvertes /\ lot'.etape \in Ouvertes /\ lot'.etape # "juger"
      BY <1>0, <2>1 DEF Ouvertes
    <2> QED BY <1>0, <1>1, <1>2, <1>11, <2>1, <2>2, <2>4, <2>5, <2>6, LotAvance DEF f
  <1>12. CASE /\ f.statut = "resolved" /\ \E e \in Siennes(i) : Confirme(e, f)
              /\ lot' = [suite EXCEPT !.tient = @ \cup {i}, !.brouillon[i] = Rouverte(f),
                                      !.avis = @ \cup {<<"regression", i, f.resoluLe>>}]
    <2> DEFINE g == Rouverte(f)
    <2>1. /\ g \in Issue /\ g.cle = f.cle /\ g.statut = "open" /\ g.ref = Inconnue
          /\ g.premiere = f.premiere /\ g.derniere = f.derniere
      BY <1>3, RouverteIssue
    <2>2. lot' = [suite EXCEPT !.tient = @ \cup {i}, !.brouillon[i] = g,
                               !.avis = suite.avis \cup {<<"regression", i, f.resoluLe>>}]
      BY <1>8, <1>12 DEF ChampsLot
    <2> HIDE DEF g
    <2>3. Avances(g) /\ \A e \in Siennes(i) : ~Manquee(e, g)
      BY <1>3, <2>1 DEF Avances, Manquee
    <2> QED BY <1>11, <1>12, <2>1, <2>2, <2>3
  <1>13. CASE /\ f.statut = "resolved" /\ ~(f.resoluLe # 0 /\ \E e \in Siennes(i) : Confirme(e, f))
              /\ lot' = [suite EXCEPT !.tient = @ \cup {i}, !.brouillon[i] = f]
    <2>1. \A e \in Siennes(i) : ~Manquee(e, f)
      BY <1>3, <1>13 DEF Manquee, Avances, Confirme
    <2>2. lot' = [suite EXCEPT !.tient = @ \cup {i}, !.brouillon[i] = f, !.avis = suite.avis]
      BY <1>8, <1>13 DEF ChampsLot
    <2> QED BY <1>3, <1>11, <1>13, <2>1, <2>2
  <1> QED BY <1>2, <1>10, <1>12, <1>13 DEF Juger, f, suite

\* The commit: each row was within, and judged against, what is now committed.
LEMMA ValiderDInv ==
  ASSUME DInv, Valider
  PROVE  DInv'
  <1>0. /\ UNCHANGED <<horloge, prochaine, efface, purge, ecran, triage>> /\ lot' = PasDeLot
        /\ lot.etape = "finaliser" /\ lot.reste = {} /\ lignes' = lignes \cup lot.ecrites
    BY DEF Valider
  <1>1. TypesDuLot(lot) /\ IInv' /\ lignes \subseteq Erreurs /\ issueDe \in [Erreurs -> Ids \cup {0}]
    BY ValiderIInv DEF DInv, Donnees
  <1>2. /\ issueDe' = [e \in Erreurs |-> issueDe'[e]]
        /\ \A e \in Erreurs : issueDe'[e] = IF e \notin lot.ecrites THEN issueDe[e]
                                            ELSE IF e \in lot.fraiches THEN lot.cible[e.cle] ELSE 0
    BY DEF Valider
  <1>3. \A i \in Ids : issues'[i] = IF i \in lot.tient THEN lot.brouillon[i] ELSE issues[i]
    BY DEF Valider
  <1>4. \A e \in lot.ecrites \cap lot.fraiches : e.cle \in Cles /\ lot.cible[e.cle] \in Ids
    BY <1>0, <1>1 DEF TypesDuLot, Cles, Ouvertes
  <1>5. \A e \in Erreurs : issueDe'[e] \in Ids \cup {0} /\ issueDe'[e] < prochaine'
    <2>1. \A e \in Erreurs : issueDe[e] < prochaine
      BY DEF DInv, Identites
    <2>2. \A k \in Cles : lot.cible[k] < prochaine
      BY DEF DInv, Identites
    <2>3. 0 < prochaine
      BY AvancesDAbsente
    <2> QED BY <1>0, <1>1, <1>2, <1>4, <2>1, <2>2, <2>3
  <1>6. \A i \in Ids : issues'[i] = Vue(i) /\ issues'[i] \in Issue
    BY <1>3, DonneesDeVue DEF Vue, TenueParLot
  <1>7. Donnees'
    <2>1. issueDe' \in [Erreurs -> Ids \cup {0}]
      BY <1>2, <1>5
    <2>2. lignes' \subseteq Erreurs
      BY <1>0, <1>1 DEF TypesDuLot
    <2> QED BY <1>0, <1>6, <2>1, <2>2, TypesDuRepos DEF DInv, Donnees
  <1>8. \A i \in Vives' : i \in Ids /\ (i \notin lot.creees => i \in Vives /\ issues'[i].cle = issues[i].cle)
    <2> SUFFICES ASSUME NEW i \in Vives', i \notin lot.creees
                 PROVE  i \in Vives /\ issues'[i].cle = issues[i].cle
      BY DEF Vives
    <2>1. i \in Ids
      BY DEF Vives
    <2>2. CASE i \in lot.tient
      <3>1. i \in Vives
        BY <2>1, <2>2 DEF DInv, IInv, Brouillons
      <3>2. lot.brouillon[i].cle = issues[i].cle
        BY <2>2 DEF DInv, Identites
      <3> QED BY <1>3, <2>1, <2>2, <3>1, <3>2
    <2>3. CASE i \notin lot.tient
      BY <1>3, <2>1, <2>3 DEF Vives
    <2> QED BY <2>2, <2>3
  <1>9. \A i \in lot.creees : i \in lot.tient /\ i \in Ids /\ issues'[i] = lot.brouillon[i]
    BY <1>1, <1>3 DEF TypesDuLot
  <1>10. Identites'
    <2>1. ASSUME NEW i \in Vives', NEW j \in Vives', issues'[i].cle = issues'[j].cle
          PROVE  i = j
      <3>1. CASE i \notin lot.creees /\ j \notin lot.creees
        BY <1>8, <2>1, <3>1 DEF DInv, Identites
      <3>2. CASE i \in lot.creees /\ j \in lot.creees
        BY <1>9, <2>1, <3>2 DEF DInv, Identites
      <3>3. CASE i \in lot.creees /\ j \notin lot.creees
        BY <1>8, <1>9, <2>1, <3>3 DEF DInv, Identites
      <3>4. CASE i \notin lot.creees /\ j \in lot.creees
        BY <1>8, <1>9, <2>1, <3>4 DEF DInv, Identites
      <3> QED BY <3>1, <3>2, <3>3, <3>4
    <2>2. \A k \in Cles : 0 < prochaine'
      BY <1>0, AvancesDAbsente
    <2> QED BY <1>0, <1>5, <2>1, <2>2, TypesDuRepos DEF Identites
  <1>11. Temps'
    <2>1. TempsDesLignes'
      BY <1>0 DEF DInv, Temps, TempsDesLignes, TempsDuLot
    <2>2. TempsDesIssues'
      BY <1>0, <1>6, DonneesDeVue DEF TempsDesIssues, Avances
    <2>3. TempsDuLot'
      BY <1>0, TypesDuRepos, AvancesDAbsente DEF TempsDuLot, Avances
    <2>4. TempsDuTriage'
      <3>1. \A u \in Utilisateurs : triage[u].issue # 0 => triage[u].issue \in Ids /\ triage[u].issue \notin lot.tient
        BY DEF DInv, IInv, Verrous, Vives
      <3> QED BY <1>0, <1>3, <3>1 DEF DInv, Temps, TempsDuTriage
    <2> QED BY <2>1, <2>2, <2>3, <2>4 DEF Temps
  <1>12. RangsCommis'
    <2> SUFFICES ASSUME NEW e \in lignes', issueDe'[e] \in Vives'
                 PROVE  Couvre(issues'[issueDe'[e]], e) /\ ~Manquee(e, issues'[issueDe'[e]])
      BY DEF RangsCommis, Couvre, Manquee, Confirme
    <2>0. e \in Erreurs /\ issueDe'[e] \in Ids
      BY <1>0, <1>1 DEF TypesDuLot, Vives
    <2>1. CASE e \notin lot.ecrites
      <3> DEFINE i == issueDe[e]
                 g == lot.brouillon[i]
                 h == issues[i]
      <3>1. e \in lignes /\ issueDe'[e] = i /\ i \in Ids
        BY <1>0, <1>2, <2>0, <2>1
      <3>2. i \notin lot.creees
        BY <2>0 DEF DInv, Identites
      <3>3. i \in Vives
        BY <1>8, <3>1, <3>2
      <3>4. Couvre(h, e) /\ ~Manquee(e, h)
        BY <3>1, <3>3 DEF DInv, RangsCommis
      <3>5. CASE i \notin lot.tient
        BY <1>3, <3>1, <3>4, <3>5
      <3>6. CASE i \in lot.tient
        <4>1. Herite(g, h, i)
          BY <3>2, <3>6 DEF DInv, Heritages
        <4>2. g \in Issue /\ h \in Issue /\ e.ts \in Nat
          BY <1>1, <2>0, <3>1, ErreursAssumption DEF TypesDuLot, DInv, Donnees
        <4>3. /\ g.premiere \in Nat /\ h.premiere \in Nat /\ g.derniere \in Nat /\ h.derniere \in Nat
          BY <4>2 DEF Issue
        <4>4. issues'[i] = g
          BY <1>3, <3>1, <3>6
        <4> HIDE DEF i, g, h
        <4>5. Couvre(g, e)
          BY <3>4, <4>1, <4>2, <4>3 DEF Couvre, Herite
        <4>6. ~Manquee(e, g)
          BY <3>4, <4>1 DEF Manquee, Confirme, Herite
        <4> QED BY <3>1, <4>4, <4>5, <4>6
      <3> QED BY <3>5, <3>6
    <2>2. CASE e \in lot.ecrites /\ e \in lot.fraiches
      <3>1. issueDe'[e] = lot.cible[e.cle] /\ issues'[issueDe'[e]] = Vue(lot.cible[e.cle])
        BY <1>2, <1>6, <2>0, <2>2
      <3>2. Vue(lot.cible[e.cle]).statut # "absente"
        BY <3>1 DEF Vives
      <3> QED BY <1>0, <2>2, <3>1, <3>2 DEF DInv, RangsDuLot, Finie, Ouvertes
    <2>3. CASE e \in lot.ecrites /\ e \notin lot.fraiches
      BY <1>2, <2>0, <2>3, RangDesIds
    <2> QED BY <2>1, <2>2, <2>3
  <1>13. Heritages' /\ RangsDuLot'
    BY <1>0, TypesDuRepos DEF Heritages, RangsDuLot, Ouvertes
  <1> QED BY <1>1, <1>7, <1>10, <1>11, <1>12, <1>13 DEF DInv

\* A decision keeps the bounds, and is later than all that they cover.
LEMMA DecisionTient ==
  ASSUME DInv, NEW u \in Utilisateurs, triage[u].issue # 0
  PROVE  LET i == triage[u].issue
             g == Decidee(issues[i], triage[u])
         IN  /\ g \in Issue /\ g.cle = issues[i].cle /\ g.derniere = issues[i].derniere /\ Avances(g)
             /\ \A e \in Erreurs : Couvre(issues[i], e) => Couvre(g, e)
             /\ \A e \in Erreurs : Couvre(issues[i], e) /\ ~Manquee(e, issues[i]) => ~Manquee(e, g)
  <1> DEFINE i == triage[u].issue
             f == issues[i]
             t == triage[u]
             g == Decidee(f, t)
  <1>0. i \in Ids /\ f \in Issue /\ TypesDuTriage(t)
    BY DEF DInv, Donnees, IInv, Verrous, Vives
  <1>1. /\ g \in Issue /\ g.cle = f.cle /\ g.premiere = f.premiere /\ g.derniere = f.derniere
        /\ t.demande = "note" => g.statut = f.statut /\ g.source = f.source /\ g.ref = f.ref /\ g.resoluLe = f.resoluLe
        /\ t.demande # "note" => /\ g.statut = t.demande /\ g.ref = t.ref
                                 /\ g.resoluLe = IF t.demande = "resolved" THEN t.le ELSE 0
    BY <1>0, DecideeIssue
  <1>2. /\ t.le \in Nat /\ t.le >= 1 /\ (t.ref # Inconnue => t.demande = "resolved")
        /\ f.derniere <= t.le + Avance /\ Avances(f)
    BY <1>0 DEF DInv, Temps, TempsDuTriage, TempsDesIssues, TypesDuTriage
  <1>3. f.derniere \in Nat /\ f.derniere = g.derniere
    BY <1>0, <1>1 DEF Issue
  <1> HIDE DEF i, f, t, g
  <1>4. Avances(g)
    <2>1. CASE t.demande = "note"
      BY <1>1, <1>2, <2>1 DEF Avances
    <2>2. CASE t.demande # "note"
      BY <1>1, <1>2, <2>2 DEF Avances
    <2> QED BY <2>1, <2>2
  <1>5. \A e \in Erreurs : Couvre(f, e) => Couvre(g, e)
    BY <1>1 DEF Couvre
  <1>6. ASSUME NEW e \in Erreurs, Couvre(f, e), ~Manquee(e, f)
        PROVE  ~Manquee(e, g)
    <2>1. CASE t.demande = "note"
      BY <1>1, <1>6, <2>1 DEF Manquee, Confirme
    <2>2. CASE t.demande = "resolved"
      <3>1. e.ts \in Nat /\ e.ts <= f.derniere
        BY <1>6, ErreursAssumption DEF Couvre
      <3>2. e.ts <= t.le + Avance
        BY <1>2, <1>3, <3>1, BornesAssumption
      <3>3. g.resoluLe = t.le
        BY <1>1, <2>2
      <3>4. ~(e.ts > g.resoluLe + Avance)
        BY <1>2, <3>1, <3>2, <3>3, BornesAssumption
      <3> QED BY <3>4 DEF Manquee
    <2>3. CASE t.demande \notin {"note", "resolved"}
      BY <1>1, <2>3 DEF Manquee
    <2> QED BY <2>1, <2>2, <2>3
  <1> QED BY <1>1, <1>4, <1>5, <1>6 DEF i, f, t, g

LEMMA DeciderDInv ==
  ASSUME DInv, NEW u \in Utilisateurs, Decider(u)
  PROVE  DInv'
  <1>0. /\ UNCHANGED <<horloge, lignes, issueDe, prochaine, efface, lot, purge>> /\ triage[u].issue # 0
        /\ issues' = [issues EXCEPT ![triage[u].issue] = Decidee(@, triage[u])]
        /\ triage' = [triage EXCEPT ![u] = PasDeTriage] /\ ecran' = [ecran EXCEPT ![u] = PasDEcran]
    BY DEF Decider
  <1>1. PICK i \in Ids : i = triage[u].issue /\ i \in Vives /\ i \notin lot.tient
    BY <1>0 DEF DInv, IInv, Verrous, Vives
  <1> DEFINE g == Decidee(issues[i], triage[u])
  <1>2. /\ g \in Issue /\ g.cle = issues[i].cle /\ g.derniere = issues[i].derniere /\ Avances(g)
        /\ \A e \in Erreurs : Couvre(issues[i], e) => Couvre(g, e)
        /\ \A e \in Erreurs : Couvre(issues[i], e) /\ ~Manquee(e, issues[i]) => ~Manquee(e, g)
    BY <1>0, <1>1, DecisionTient
  <1>3. issues'[i] = g /\ \A j \in Ids : j # i => issues'[j] = issues[j]
    BY <1>0, <1>1 DEF DInv, IInv, Formes
  <1> HIDE DEF g
  <1>4. IInv' /\ TypesDuLot(lot)
    BY DeciderIInv DEF DInv, Donnees
  <1>5. \A v \in Utilisateurs : (triage'[v] = triage[v] \/ triage'[v] = PasDeTriage)
                                /\ (ecran'[v] = ecran[v] \/ ecran'[v] = PasDEcran)
    BY <1>0 DEF DInv, IInv, Formes
  <1>6. PasDEcran.issue = 0 /\ PasDeTriage.issue = 0 /\ TypesDuTriage(PasDeTriage)
    BY DEF PasDEcran, PasDeTriage, TypesDuTriage
  <1>7. Donnees'
    <2>1. \A j \in Ids : issues'[j] \in Issue
      BY <1>2, <1>3 DEF DInv, Donnees
    <2> QED BY <1>0, <1>5, <1>6, <2>1 DEF DInv, Donnees
  <1>8. \A j \in Vives' : j \in Vives /\ j \in Ids
    BY <1>1, <1>3 DEF Vives
  <1>9. \A j \in Ids : issues'[j].cle = issues[j].cle
    BY <1>2, <1>3
  <1>10. Identites'
    <2>1. \A j \in lot.tient : j \in Ids
      BY <1>4 DEF TypesDuLot
    <2>2. Manquantes' = Manquantes
      BY <1>0 DEF Manquantes
    <2> QED BY <1>0, <1>8, <1>9, <2>1, <2>2 DEF DInv, Identites
  <1>11. Temps'
    <2>1. TempsDesIssues'
      BY <1>0, <1>2, <1>3 DEF DInv, Temps, TempsDesIssues, Avances
    <2>2. TempsDuTriage'
      <3>1. \A v \in Utilisateurs : triage[v].issue # 0 => triage[v].issue \in Ids
        BY DEF DInv, IInv, Verrous, Vives
      <3>2. \A j \in Ids : issues'[j].derniere = issues[j].derniere
        BY <1>2, <1>3
      <3> QED BY <1>0, <1>5, <1>6, <3>1, <3>2 DEF DInv, Temps, TempsDuTriage
    <2> QED BY <1>0, <2>1, <2>2 DEF DInv, Temps, TempsDesLignes, TempsDuLot, Avances
  <1>12. Heritages'
    <2>1. ASSUME NEW j \in lot.tient \ lot.creees
          PROVE  Herite(lot.brouillon[j], issues[j], j)'
      <3>1. issues'[j] = issues[j]
        BY <1>1, <1>3, <1>4 DEF TypesDuLot
      <3>2. Herite(lot.brouillon[j], issues[j], j)
        BY DEF DInv, Heritages
      <3> QED BY <1>0, <3>1, <3>2 DEF Herite, Siennes, Confirme
    <2> QED BY <1>0, <2>1 DEF Heritages
  <1>13. Vue(i) = issues[i] /\ Vue(i)' = g /\ \A j \in Ids : j # i => Vue(j)' = Vue(j)
    BY <1>0, <1>1, <1>3 DEF Vue, TenueParLot
  <1>14. RangsDuLot'
    <2> SUFFICES ASSUME lot.etape \in Ouvertes, NEW e \in lot.ecrites \cap lot.fraiches, NEW j \in Ids, j = lot.cible[e.cle]
                 PROVE  /\ Finie(j) /\ Vue(j)'.statut # "absente" => Couvre(Vue(j)', e)
                        /\ j \notin lot.reste => ~Manquee(e, Vue(j)')
      <3>1. lot.etape \in Ouvertes => \A e \in lot.ecrites \cap lot.fraiches : lot.cible[e.cle] \in Ids
        BY <1>4 DEF TypesDuLot, Cles
      <3> QED BY <1>0, <3>1 DEF RangsDuLot, Finie, Manquee, Couvre, Confirme
    <2>1. /\ Finie(j) /\ Vue(j).statut # "absente" => Couvre(Vue(j), e)
          /\ j \notin lot.reste => ~Manquee(e, Vue(j))
      BY DEF DInv, RangsDuLot
    <2>2. CASE j # i
      BY <1>13, <2>1, <2>2
    <2>3. CASE j = i
      <3>1. Vue(i).statut # "absente" /\ e \in Erreurs
        BY <1>1, <1>4, <1>13 DEF Vives, TypesDuLot
      <3>2. j \notin lot.reste => Finie(j)
        BY DEF Finie
      <3> QED BY <1>2, <1>13, <2>1, <2>3, <3>1, <3>2
    <2> QED BY <2>2, <2>3
  <1>15. RangsCommis'
    <2> SUFFICES ASSUME NEW e \in lignes, NEW j \in Vives', j = issueDe[e]
                 PROVE  Couvre(issues'[j], e) /\ ~Manquee(e, issues'[j])
      BY <1>0 DEF RangsCommis, Manquee, Couvre, Confirme
    <2>1. j \in Vives /\ j \in Ids /\ e \in Erreurs
      BY <1>8 DEF DInv, Donnees
    <2>2. Couvre(issues[j], e) /\ ~Manquee(e, issues[j])
      BY <2>1 DEF DInv, RangsCommis
    <2> QED BY <1>2, <1>3, <2>1, <2>2
  <1> QED BY <1>4, <1>7, <1>10, <1>11, <1>12, <1>14, <1>15 DEF DInv

\* Retention removes rows and issues nobody holds.
LEMMA ValiderPurgeDInv ==
  ASSUME DInv, ValiderPurge
  PROVE  DInv'
  <1>0. /\ UNCHANGED <<horloge, prochaine, efface, lot, ecran, triage>> /\ purge' = PasDePurge
        /\ lignes' \subseteq lignes
    BY DEF ValiderPurge
  <1>1. \A i \in Ids : issues'[i] = IF i \in purge.supprime THEN Absente ELSE issues[i]
    BY DEF ValiderPurge
  <1>2. /\ issueDe' = [e \in Erreurs |-> issueDe'[e]]
        /\ \A e \in Erreurs : issueDe'[e] = 0 \/ issueDe'[e] = issueDe[e]
    BY DEF ValiderPurge, Sans
  <1>3. IInv' /\ TypesDuLot(lot) /\ lignes \subseteq Erreurs /\ issueDe \in [Erreurs -> Ids \cup {0}]
    BY ValiderPurgeIInv DEF DInv, Donnees
  <1>4. Donnees'
    <2>1. \A i \in Ids : issues'[i] \in Issue
      BY <1>1, AbsenteIssue DEF DInv, Donnees
    <2>2. issueDe' \in [Erreurs -> Ids \cup {0}]
      BY <1>2, <1>3
    <2>3. purge'.etape = "repos"
      BY <1>0 DEF PasDePurge
    <2> QED BY <1>0, <2>1, <2>2, <2>3 DEF DInv, Donnees
  <1>5. \A i \in Vives' : i \in Vives /\ i \in Ids /\ issues'[i] = issues[i]
    BY <1>1, AbsenteIssue DEF Vives
  <1>6. \A i \in lot.tient : i \in Ids /\ issues'[i] = issues[i]
    <2>1. lot.tient \subseteq Ids
      BY <1>3 DEF TypesDuLot
    <2> QED BY <1>1, <2>1 DEF DInv, IInv, Brouillons
  <1>7. Identites'
    <2>1. Manquantes' = Manquantes
      BY <1>0 DEF Manquantes
    <2>2. \A e \in Erreurs : issueDe'[e] < prochaine
      BY <1>2, AvancesDAbsente DEF DInv, Identites
    <2>3. \A i \in lot.creees : i # 0
      BY <1>3, RangDesIds DEF TypesDuLot
    <2>4. \A i \in lot.creees : \A e \in Erreurs : issueDe'[e] # i
      BY <1>2, <2>3 DEF DInv, Identites
    <2> QED BY <1>0, <1>5, <1>6, <2>1, <2>2, <2>4 DEF DInv, Identites
  <1>8. Temps'
    <2>1. TempsDesIssues'
      BY <1>0, <1>1, AvancesDAbsente DEF DInv, Temps, TempsDesIssues, Avances
    <2>2. TempsDuTriage'
      <3>1. \A u \in Utilisateurs : triage[u].issue # 0 => triage[u].issue \in Ids /\ triage[u].issue \notin purge.supprime
        BY DEF DInv, IInv, Verrous, Vives
      <3> QED BY <1>0, <1>1, <3>1 DEF DInv, Temps, TempsDuTriage
    <2> QED BY <1>0, <2>1, <2>2 DEF DInv, Temps, TempsDesLignes, TempsDuLot, Avances
  <1>9. Heritages'
    <2>1. ASSUME NEW j \in lot.tient \ lot.creees
          PROVE  Herite(lot.brouillon[j], issues[j], j)'
      <3>1. Herite(lot.brouillon[j], issues[j], j)
        BY DEF DInv, Heritages
      <3> QED BY <1>0, <1>6, <3>1 DEF Herite, Siennes, Confirme
    <2> QED BY <1>0, <2>1 DEF Heritages
  <1>10. \A i \in Ids : Vue(i)' = Vue(i) \/ Vue(i)' = Absente
    BY <1>0, <1>1 DEF Vue, TenueParLot
  <1>11. RangsDuLot'
    <2> SUFFICES ASSUME lot.etape \in Ouvertes, NEW e \in lot.ecrites \cap lot.fraiches, NEW j \in Ids, j = lot.cible[e.cle]
                 PROVE  /\ Finie(j) /\ Vue(j)'.statut # "absente" => Couvre(Vue(j)', e)
                        /\ j \notin lot.reste => ~Manquee(e, Vue(j)')
      <3>1. lot.etape \in Ouvertes => \A e \in lot.ecrites \cap lot.fraiches : lot.cible[e.cle] \in Ids
        BY <1>3 DEF TypesDuLot, Cles
      <3> QED BY <1>0, <3>1 DEF RangsDuLot, Finie, Manquee, Couvre, Confirme
    <2>1. /\ Finie(j) /\ Vue(j).statut # "absente" => Couvre(Vue(j), e)
          /\ j \notin lot.reste => ~Manquee(e, Vue(j))
      BY DEF DInv, RangsDuLot
    <2>2. ~Manquee(e, Absente)
      BY AbsenteIssue DEF Manquee
    <2> QED BY <1>10, <2>1, <2>2, AbsenteIssue
  <1>12. RangsCommis'
    <2> SUFFICES ASSUME NEW e \in lignes', NEW j \in Vives', j = issueDe'[e]
                 PROVE  Couvre(issues'[j], e) /\ ~Manquee(e, issues'[j])
      BY DEF RangsCommis, Manquee, Couvre, Confirme
    <2>1. e \in lignes /\ e \in Erreurs /\ j \in Vives /\ j \in Ids /\ issues'[j] = issues[j]
      BY <1>0, <1>3, <1>5
    <2>2. j = issueDe[e]
      BY <1>2, <2>1, RangDesIds
    <2> QED BY <2>1, <2>2 DEF DInv, RangsCommis
  <1> QED BY <1>3, <1>4, <1>7, <1>8, <1>9, <1>11, <1>12 DEF DInv

\* An erasure leaves bounds that cover the rows it leaves, and the status alone.
LEMMA EffacerDInv ==
  ASSUME DInv, Effacer
  PROVE  DInv'
  <1> DEFINE touchees == {issueDe[e] : e \in lignes \cap Sujet} \cap Vives
             R == lignes \ Sujet
             apres == [i \in Ids |-> IF i \in touchees THEN Reconciliee(i, R) ELSE issues[i]]
  <1>0. /\ UNCHANGED <<horloge, prochaine, lot, purge, ecran, triage>> /\ lot.etape = "repos"
        /\ efface' = TRUE /\ lignes' = R /\ issues' = apres /\ issueDe' = Sans(Sujet)
        /\ \A i \in touchees : apres[i] # issues[i] => ~(TenueParTriage(i) \/ TenueParPurge(i))
    BY DEF Effacer
  <1>1. IInv' /\ TypesDuLot(lot) /\ lignes \subseteq Erreurs /\ issueDe \in [Erreurs -> Ids \cup {0}]
    BY EffacerIInv DEF DInv, Donnees
  <1>2. lot.tient = {} /\ lot.creees = {}
    BY <1>0, <1>1 DEF DInv, IInv, Brouillons, TypesDuLot
  <1>3. /\ issueDe' = [e \in Erreurs |-> issueDe'[e]]
        /\ \A e \in Erreurs : issueDe'[e] = IF e \in Sujet THEN 0 ELSE issueDe[e]
    BY <1>0 DEF Sans
  <1>4. R \in SUBSET Erreurs /\ R \subseteq lignes /\ \A e \in R : issueDe'[e] = issueDe[e]
    BY <1>1, <1>3
  <1>5. ASSUME NEW i \in Ids
        PROVE  \/ issues'[i] = issues[i]
               \/ issues'[i] = Absente
               \/ /\ issues'[i] \in Issue /\ issues'[i].cle = issues[i].cle /\ issues'[i].statut = issues[i].statut
                  /\ issues'[i].resoluLe = issues[i].resoluLe /\ issues'[i].ref = issues[i].ref
                  /\ \A e \in R : issueDe[e] = i => Couvre(issues'[i], e)
                  /\ \E e \in R : issues'[i].derniere = e.ts
    <2>1. CASE i \notin touchees
      BY <1>0, <2>1
    <2>2. CASE i \in touchees
      <3> DEFINE g == Reconciliee(i, R)
      <3>1. issues'[i] = g /\ issues[i] \in Issue
        BY <1>0, <2>2 DEF DInv, Donnees
      <3> HIDE DEF R, apres, touchees
      <3>2. \/ g = Absente
            \/ /\ g \in Issue /\ g.cle = issues[i].cle /\ g.statut = issues[i].statut
               /\ g.resoluLe = issues[i].resoluLe /\ g.ref = issues[i].ref
               /\ \A e \in R : issueDe[e] = i => Couvre(g, e)
               /\ \E e \in R : g.derniere = e.ts
        BY <1>4, <3>1, ReconcilieeIssue
      <3> HIDE DEF g
      <3> QED BY <3>1, <3>2
    <2> QED BY <2>1, <2>2
  <1>6. ASSUME NEW u \in Utilisateurs, triage[u].issue # 0
        PROVE  triage[u].issue \in Ids /\ issues'[triage[u].issue] = issues[triage[u].issue]
    <2>1. triage[u].issue \in Ids /\ TenueParTriage(triage[u].issue)
      BY <1>6 DEF DInv, IInv, Verrous, Vives, TenueParTriage
    <2> HIDE DEF touchees
    <2>2. CASE triage[u].issue \in touchees
      BY <1>0, <2>1, <2>2
    <2>3. CASE triage[u].issue \notin touchees
      BY <1>0, <2>1, <2>3
    <2> QED BY <2>1, <2>2, <2>3
  <1> HIDE DEF touchees, apres, R
  <1>7. Donnees'
    <2>1. \A i \in Ids : issues'[i] \in Issue
      BY <1>5, AbsenteIssue DEF DInv, Donnees
    <2>2. issueDe' \in [Erreurs -> Ids \cup {0}]
      BY <1>1, <1>3
    <2> QED BY <1>0, <1>4, <2>1, <2>2 DEF DInv, Donnees
  <1>8. \A i \in Vives' : /\ i \in Vives /\ i \in Ids /\ issues'[i].cle = issues[i].cle
                          /\ issues'[i].statut = issues[i].statut
    BY <1>5, AbsenteIssue DEF Vives
  <1>9. Identites'
    <2>1. \A e \in Erreurs : issueDe'[e] < prochaine
      BY <1>3, AvancesDAbsente DEF DInv, Identites
    <2> QED BY <1>0, <1>2, <1>8, <2>1 DEF DInv, Identites
  <1>10. Temps'
    <2>1. \A e \in lignes : e.ts <= horloge + Avance
      BY DEF DInv, Temps, TempsDesLignes
    <2>2. TempsDesIssues'
      <3>1. ASSUME NEW i \in Ids PROVE Avances(issues'[i])
        <4>1. Avances(issues[i])
          BY DEF DInv, Temps, TempsDesIssues
        <4> QED BY <1>4, <1>5, <2>1, <4>1, AvancesDAbsente DEF Avances
      <3> QED BY <1>0, <3>1 DEF TempsDesIssues, Avances
    <2>3. TempsDuTriage'
      BY <1>0, <1>6 DEF DInv, Temps, TempsDuTriage
    <2>4. TempsDesLignes'
      BY <1>0, <1>4, <2>1 DEF TempsDesLignes
    <2> QED BY <1>0, <2>2, <2>3, <2>4 DEF DInv, Temps, TempsDuLot, Avances
  <1>11. Heritages' /\ RangsDuLot'
    BY <1>0, <1>2 DEF Heritages, RangsDuLot, Ouvertes
  <1>12. RangsCommis'
    <2> SUFFICES ASSUME NEW e \in R, NEW j \in Vives', j = issueDe[e]
                 PROVE  Couvre(issues'[j], e) /\ ~Manquee(e, issues'[j])
      BY <1>0, <1>4 DEF RangsCommis, Manquee, Couvre, Confirme
    <2>1. j \in Vives /\ j \in Ids /\ e \in lignes
      BY <1>4, <1>8
    <2>2. Couvre(issues[j], e) /\ ~Manquee(e, issues[j])
      BY <2>1 DEF DInv, RangsCommis
    <2>3. issues'[j] # Absente
      BY AbsenteIssue DEF Vives
    <2>4. CASE issues'[j] = issues[j]
      BY <2>2, <2>4
    <2>5. CASE issues'[j] # issues[j]
      <3>1. /\ issues'[j].statut = issues[j].statut /\ issues'[j].resoluLe = issues[j].resoluLe
            /\ issues'[j].ref = issues[j].ref /\ Couvre(issues'[j], e)
        BY <1>5, <2>1, <2>3, <2>5
      <3> QED BY <2>2, <3>1 DEF Manquee, Confirme
    <2> QED BY <2>4, <2>5
  <1> QED BY <1>1, <1>7, <1>9, <1>10, <1>11, <1>12 DEF DInv

-----------------------------------------------------------------------------
LEMMA PasDInv ==
  ASSUME DInv, [Next]_vars
  PROVE  DInv'
  <1>1. CASE UNCHANGED vars
    <2>1. IInv'
      BY <1>1, PasIInv DEF DInv
    <2>2. UNCHANGED <<horloge, lignes, issueDe, issues, prochaine, efface, lot, purge, ecran, triage>>
      BY <1>1 DEF vars
    <2>3. horloge' \in 1..MaxHorloge /\ horloge' >= horloge
      <3>1. horloge \in 1..MaxHorloge
        BY DEF DInv, Donnees
      <3> QED BY <2>2, <3>1, BornesAssumption
    <2>4. /\ TempsDuTriage' /\ purge'.etape \in {"repos", "issues", "supprimer"}
          /\ \A u \in Utilisateurs : TypesDuTriage(triage'[u]) /\ ecran'[u].issue \in Ids \cup {0}
      BY <2>2 DEF DInv, Donnees, Temps, TempsDuTriage
    <2> QED BY <2>1, <2>2, <2>3, <2>4, RienDEcrit
  <1>2. CASE Avancer
    BY <1>2, AvancerDInv
  <1>3. ASSUME NEW l \in Lots, Recevoir(l)
        PROVE  DInv'
    BY <1>3, RecevoirDInv
  <1>4. CASE Chercher \/ Ecrire \/ Finaliser \/ Juger \/ Valider \/ Echouer
    BY <1>4, ChercherDInv, EcrireDInv, FinaliserDInv, JugerDInv, ValiderDInv, EchouerDInv
  <1>5. ASSUME NEW u \in Utilisateurs, Lire(u) \/ Decider(u) \/ Renoncer(u) \/ \E d \in Decisions : Verrouiller(u, d)
        PROVE  DInv'
    BY <1>5, ConsoleDInv, DeciderDInv
  <1>6. CASE PurgerLignes \/ PurgerIssues \/ ValiderPurge \/ AnnulerPurge \/ \E i \in Ids : SupprimerIssue(i)
    BY <1>6, PurgeDInv, ValiderPurgeDInv
  <1>7. CASE Effacer
    BY <1>7, EffacerDInv
  <1> QED BY <1>1, <1>2, <1>3, <1>4, <1>5, <1>6, <1>7 DEF Next

LEMMA DonneesTiennent == Spec => []DInv
  <1>1. Init => DInv
    BY DepartDInv
  <1>2. DInv /\ [Next]_vars => DInv'
    BY PasDInv
  <1> QED BY <1>1, <1>2, PTL DEF Spec

\* The state of the issues, the batch, retention and the console is well formed,
\* the batch holds issues, and no two issues have one key (the unique index of
\* error_issue, against creerIssues and the batches that look for one).
THEOREM TypeCorrect == Spec => []TypeOK
  <1>1. DInv => TypeOK
    BY DEF DInv, Donnees, TypesDuLot, TypesDuTriage, Identites, Etapes, TypeOK
  <1> QED BY <1>1, DonneesTiennent, PTL

\* The first and last views of an issue cover its rows (finaliserIssues,
\* creerIssues, privacy_reconcilier_issues, purge_rum_app), for any batches,
\* decisions, retention and erasure, and however far ahead clients date their rows.
THEOREM BoundsCover == Spec => []BornesCouvrent
  <1>1. DInv => BornesCouvrent
    BY DEF DInv, RangsCommis, Couvre, BornesCouvrent
  <1> QED BY <1>1, DonneesTiennent, PTL

\* A row missed by the judgement of its batch (error_issue_record_occurrences),
\* because a user resolved its issue meanwhile, is at most Avance later than the
\* resolution: it is the clock of its client that puts it after.
RegressionVueAAvancePres ==
  \A e \in lignes : issueDe[e] \in Vives => ~Manquee(e, issues[issueDe[e]])

THEOREM RegressionWithinAdvance == Spec => []RegressionVueAAvancePres
  <1>1. DInv => RegressionVueAAvancePres
    BY DEF DInv, RangsCommis, RegressionVueAAvancePres
  <1> QED BY <1>1, DonneesTiennent, PTL

\* No regression is missed when no client is ahead of the database: no row
\* attached to a resolved issue should have reopened it, whatever decisions were
\* under way when error_issue_record_occurrences read its status without a lock.
THEOREM RegressionSeen ==
  ASSUME Avance = 0
  PROVE  Spec => []RegressionVue
  <1>1. DInv => RegressionVue
    <2> SUFFICES ASSUME DInv, NEW i \in Vives, issues[i].statut = "resolved",
                        NEW e \in lignes, issueDe[e] = i, Confirme(e, issues[i])
                 PROVE  FALSE
      BY DEF RegressionVue
    <2>1. ~Manquee(e, issues[i])
      BY DEF DInv, RangsCommis
    <2>2. issues[i].resoluLe \in Nat
      BY DEF DInv, Donnees, Vives, Issue
    <2>3. issues[i].resoluLe + Avance = issues[i].resoluLe
      BY <2>2
    <2> QED BY <2>1, <2>3 DEF Manquee, Confirme
  <1> QED BY <1>1, DonneesTiennent, PTL

\* What a user decided, only a user changes, but for a resolution reopened by a
\* row that confirms the regression and is attached by the same commit (DIVERGE
\* of error-grouping.mjs, error_issue_record_occurrences).
THEOREM HumanDecisionStands == Spec => StatutHumain
  <1> DEFINE Tenu ==
        \A i \in Ids :
          (i \in Vives /\ issues[i].source = "user" /\ i \in Vives' /\ issues'[i].statut # issues[i].statut) =>
            \/ \E u \in Utilisateurs : triage[u].issue = i /\ triage[u].demande = issues'[i].statut
            \/ /\ issues[i].statut = "resolved" /\ issues'[i].statut = "open"
               /\ \E e \in lignes' : issueDe'[e] = i /\ Confirme(e, issues[i])
  <1>1. DInv /\ [Next]_vars => Tenu
    <2> SUFFICES ASSUME DInv, [Next]_vars, NEW i \in Ids,
                        i \in Vives, issues[i].source = "user", i \in Vives', issues'[i].statut # issues[i].statut
                 PROVE  \/ \E u \in Utilisateurs : triage[u].issue = i /\ triage[u].demande = issues'[i].statut
                        \/ /\ issues[i].statut = "resolved" /\ issues'[i].statut = "open"
                           /\ \E e \in lignes' : issueDe'[e] = i /\ Confirme(e, issues[i])
      OBVIOUS
    <2>1. CASE issues' = issues
      BY <2>1
    <2>2. ASSUME NEW u \in Utilisateurs, Decider(u)
          PROVE  triage[u].issue = i /\ triage[u].demande = issues'[i].statut
      <3>1. issues' = [issues EXCEPT ![triage[u].issue] = Decidee(@, triage[u])] /\ issues[i] \in Issue
        BY <2>2 DEF Decider, DInv, Donnees
      <3>2. triage[u].issue = i /\ issues'[i] = Decidee(issues[i], triage[u]) /\ TypesDuTriage(triage[u])
        BY <3>1 DEF DInv, IInv, Formes, Donnees
      <3> QED BY <3>1, <3>2, DecideeIssue
    <2>3. CASE Valider
      <3>1. i \in lot.tient /\ issues'[i] = lot.brouillon[i] /\ i \notin lot.creees
        BY <2>3 DEF Valider, DInv, IInv, Creations
      <3>2. Herite(lot.brouillon[i], issues[i], i)
        BY <3>1 DEF DInv, Heritages
      <3>3. /\ issues[i].statut = "resolved" /\ issues'[i].statut = "open"
            /\ \E e \in Siennes(i) : Confirme(e, issues[i])
        BY <3>1, <3>2 DEF Herite
      <3>4. \A e \in Siennes(i) : e \in lignes' /\ issueDe'[e] = i
        BY <2>3 DEF Valider, Siennes, DInv, Donnees, TypesDuLot
      <3> QED BY <3>3, <3>4
    <2>4. CASE ValiderPurge
      <3>1. issues'[i] = issues[i] \/ issues'[i] = Absente
        BY <2>4 DEF ValiderPurge
      <3> QED BY <3>1, AbsenteIssue DEF Vives
    <2>5. CASE Effacer
      <3>1. issues'[i] = issues[i] \/ issues'[i] = Reconciliee(i, lignes \ Sujet)
        BY <2>5 DEF Effacer
      <3>2. lignes \ Sujet \in SUBSET Erreurs /\ issues[i] \in Issue
        BY DEF DInv, Donnees
      <3> QED BY <3>1, <3>2, ReconcilieeIssue, AbsenteIssue DEF Vives
    <2>6. \/ issues' = issues
          \/ \E u \in Utilisateurs : Decider(u)
          \/ Valider \/ ValiderPurge \/ Effacer
      BY DEF Next, vars, base, Avancer, Recevoir, Chercher, Ecrire, Finaliser, Juger, Echouer,
             Lire, Renoncer, Verrouiller, PurgerLignes, PurgerIssues, AnnulerPurge, SupprimerIssue
    <2> QED BY <2>1, <2>2, <2>3, <2>4, <2>5, <2>6
  <1> QED BY <1>1, DonneesTiennent, PTL DEF Spec, StatutHumain
=============================================================================
