------------------------- MODULE PrivacyIngest_proof -------------------------
(***************************************************************************)
(* TypeOK, RienNeRevient, AutresIntacts and RienDuSujet, for any number of *)
(* processes, sessions, rows, batches, requests and attempts.              *)
(*                                                                         *)
(* They speak of what is committed; what a transaction has read under the  *)
(* lock and not yet committed is in between, and makes the invariant       *)
(* inductive: Promis, then Lectures, say what each transaction may rely on *)
(* until it commits.  It lasts because the lock has one holder (Verrou)    *)
(* and only the holder commits.  The last two theorems add where keys come *)
(* from (Provenance) and that a row with a key is never far from a session *)
(* that has it (Protegees).                                                *)
(***************************************************************************)
EXTENDS PrivacyIngest, TLAPS

USE SignauxAssumption, SujetsAssumption, BornesAssumption

Etapes    == {"attend", "tient", "filtre", "releve"}
Ecritures == [voie : {"depot", "direct"}, etape : Etapes, signal : {"traces", "logs", "rejeu"},
              lignes : SUBSET Lignes, gardees : SUBSET Lignes]
Drains    == [voie : {"drain"}, etape : Etapes, num : Nat, gardees : SUBSET Lignes]
Effacements == [voie : {"effacement"}, etape : Etapes, sujet : Sujets,
                stockees : SUBSET Sessions, enFile : SUBSET Sessions]
Transactions == {Repos} \cup Ecritures \cup Drains \cup Effacements
Lots == [lignes : SUBSET Lignes, tentatives : Nat]

\* The part of TypeOK about committed data.
Donnees ==
  /\ barrieres \subseteq Sujets \cup ({"session"} \X Sessions)
  /\ DOMAIN ancres \subseteq Sessions
  /\ \A s \in DOMAIN ancres : ancres[s] \in [visiteur : Visiteurs \cup {Aucun}, identite : Identites \cup {Aucun}]
  /\ DOMAIN enfants \subseteq Lignes
  /\ \A l \in DOMAIN enfants : enfants[l] \in Sessions \cup {Aucun}
  /\ \A l \in DOMAIN enfants : l.genre # "journal" /\ enfants[l] # Aucun => enfants[l] \in DOMAIN ancres
  /\ depots \in 0..MaxDepots /\ DOMAIN file \subseteq 1..depots
  /\ \A n \in DOMAIN file : file[n].lignes \in (SUBSET Lignes) \ {{}} /\ file[n].tentatives \in 0..MaxTentatives
  /\ effaces \subseteq Sujets /\ acquittes \subseteq Lignes

\* The queue is a function to batches, and what a process does is a transaction.
Formes == file \in [DOMAIN file -> Lots] /\ tx \in [Procs -> Transactions]

EnCours(p) == tx[p] # Repos /\ tx[p].etape # "attend"
Verrou == verrou \in Procs \cup {Aucun} /\ \A p \in Procs : EnCours(p) <=> verrou = p

\* A row that the barriers b let in.
Admise(l, b) == ~SousCle(l, b) /\ <<"session", l.session>> \notin b

\* Past "attend": what it kept is still admitted, the batch it drains is still there to be tried,
\* the sessions it found are still those of its subject; a replay names a session.
Promis(p) ==
  /\ tx[p].voie \in {"depot", "direct", "drain"} /\ tx[p].etape = "filtre" =>
       \A l \in tx[p].gardees : Admise(l, barrieres)
  /\ tx[p].voie = "drain" /\ tx[p].etape = "filtre" =>
       tx[p].num \in DOMAIN file /\ file[tx[p].num].tentatives < MaxTentatives
  /\ tx[p].voie = "effacement" /\ tx[p].etape = "releve" =>
       tx[p].stockees = {a \in DOMAIN ancres : PorteCle(ancres[a], tx[p].sujet)}

\* What a client sent as a replay names a session, before and after the filter.
Rejeux(p) ==
  tx[p].voie \in {"depot", "direct"} /\ tx[p].signal = "rejeu" =>
    \A l \in tx[p].lignes \cup tx[p].gardees : l.session \in Sessions

IInv ==
  /\ Donnees /\ Formes /\ Verrou
  /\ \A p \in Procs : EnCours(p) => Promis(p)
  /\ \A p \in Procs : Rejeux(p)

\* IInv says more than TypeOK.
LEMMA IInvType == IInv => TypeOK
  BY DEF IInv, Donnees, Verrou, EnCours, TypeOK

-----------------------------------------------------------------------------
(* The pure operators *)

\* What a row of a client is made of.
LEMMA LigneTypee ==
  ASSUME NEW l \in Lignes
  PROVE  /\ l.session \in Sessions \cup {Aucun} /\ l.claim \in Sessions \cup {Aucun}
         /\ l.visiteur \in Visiteurs \cup {Aucun} /\ l.identite \in Identites \cup {Aucun}
         /\ l.genre = "session" => l.session \in Sessions
  BY DEF Lignes

\* The filter keeps rows of the batch, and none the barriers refuse: a row without session is
\* refused by its own key only, since no barrier names the absent session.
LEMMA FiltreAdmis ==
  ASSUME NEW ls \in SUBSET Lignes, NEW b, b \subseteq Sujets \cup ({"session"} \X Sessions)
  PROVE  Filtre(ls, b) \subseteq ls /\ \A l \in Filtre(ls, b) : Admise(l, b)
  <1> SUFFICES ASSUME NEW l \in Filtre(ls, b)
      PROVE  l \in ls /\ Admise(l, b)
    OBVIOUS
  <1>1. l \in ls /\ ~SousCle(l, b) /\ l.session \notin SessionsRefusees(ls, b)
    BY DEF Filtre
  <1>2. <<"session", l.session>> \notin b
    <2>1. CASE l.session \in Sessions
      BY <1>1, <2>1 DEF SessionsRefusees
    <2>2. CASE l.session = Aucun
      BY <2>2
    <2> QED
      BY <1>1, <2>1, <2>2, LigneTypee
  <1> QED
    BY <1>1, <1>2 DEF Admise

\* Anchors are merged with the sessions of the batch and with nothing else.
LEMMA FusionDomaine ==
  ASSUME NEW anc, NEW ls \in SUBSET Lignes
  PROVE  DOMAIN Fusion(anc, ls) = DOMAIN anc \cup {l.session : l \in {k \in ls : k.genre = "session"}}
  BY DEF Fusion

-----------------------------------------------------------------------------
(* The lock *)

\* The field `voie` tells the kinds of transactions apart.
LEMMA Voies ==
  ASSUME NEW t \in Transactions
  PROVE  /\ t = Repos <=> t.voie = "repos"
         /\ t.voie \in {"depot", "direct"} => t \in Ecritures
         /\ t.voie = "drain" => t \in Drains
         /\ t.voie = "effacement" => t \in Effacements
  BY DEF Transactions, Repos, Ecritures, Drains, Effacements

\* A process moves on, and commits nothing.
LEMMA Avance ==
  ASSUME IInv, NEW p \in Procs, NEW t \in Transactions, t # Repos,
         UNCHANGED base, tx' = [tx EXCEPT ![p] = t],
         verrou' = IF t.etape = "attend" THEN verrou ELSE p,
         IF t.etape = "attend" THEN ~EnCours(p) ELSE verrou \in {p, Aucun},
         t.etape # "attend" => Promis(p)', Rejeux(p)'
  PROVE  IInv'
  <1>1. tx' \in [Procs -> Transactions] /\ tx'[p] = t /\ \A q \in Procs \ {p} : tx'[q] = tx[q]
    BY DEF IInv, Formes
  <1>2. Donnees' /\ Formes'
    BY <1>1 DEF IInv, Donnees, Formes, base
  <1>3. Verrou'
    BY <1>1 DEF IInv, Verrou, EnCours
  <1>4. ASSUME NEW q \in Procs, EnCours(q)'
        PROVE  Promis(q)'
    BY <1>1, <1>4 DEF IInv, EnCours, Promis, base
  <1>5. ASSUME NEW q \in Procs
        PROVE  Rejeux(q)'
    BY <1>1 DEF IInv, Rejeux
  <1> QED
    BY <1>2, <1>3, <1>4, <1>5 DEF IInv

\* The holder ends its transaction: it alone had promises to keep.
LEMMA Finit ==
  ASSUME IInv, NEW p \in Procs, EnCours(p), Rendre(p), file' \in [DOMAIN file' -> Lots]
  PROVE  /\ Formes' /\ Verrou'
         /\ \A q \in Procs : EnCours(q)' => Promis(q)'
         /\ \A q \in Procs : Rejeux(q)'
  <1>1. Repos \in Transactions /\ Repos.voie = "repos"
    BY DEF Transactions, Repos
  <1>2. tx' \in [Procs -> Transactions] /\ tx'[p] = Repos /\ \A q \in Procs \ {p} : tx'[q] = tx[q]
    BY <1>1 DEF IInv, Formes, Rendre
  <1>3. \A q \in Procs : ~EnCours(q)'
    BY <1>2 DEF IInv, Verrou, EnCours
  <1>4. Verrou'
    BY <1>3 DEF Rendre, Verrou
  <1>5. ASSUME NEW q \in Procs
        PROVE  Rejeux(q)'
    BY <1>1, <1>2 DEF IInv, Rejeux
  <1> QED
    BY <1>2, <1>3, <1>4, <1>5 DEF Formes

-----------------------------------------------------------------------------
(* Initially, and step by step *)

LEMMA InitIInv == Init => IInv
  <1> SUFFICES ASSUME Init PROVE IInv
    OBVIOUS
  <1>1. Repos \in Transactions /\ Repos.voie = "repos"
    BY DEF Transactions, Repos
  <1>2. tx \in [Procs -> Transactions] /\ \A p \in Procs : tx[p] = Repos
    BY <1>1 DEF Init
  <1>3. DOMAIN ancres = {} /\ DOMAIN enfants = {} /\ file \in [DOMAIN file -> Lots] /\ DOMAIN file = {}
    BY DEF Init
  <1>4. Donnees
    BY <1>3 DEF Init, Donnees
  <1>5. Formes /\ Verrou
    BY <1>2, <1>3 DEF Init, Formes, Verrou, EnCours
  <1>6. \A p \in Procs : ~EnCours(p) /\ Rejeux(p)
    BY <1>1, <1>2 DEF EnCours, Rejeux
  <1> QED
    BY <1>4, <1>5, <1>6 DEF IInv

LEMMA RecevoirIInv ==
  ASSUME IInv, NEW p \in Procs, Recevoir(p)
  PROVE  IInv'
  <1>1. PICK x \in Signaux, v \in {"depot", "direct"} :
          tx' = [tx EXCEPT ![p] = Ecrit(v, "attend", x.signal, x.lignes)]
    BY DEF Recevoir
  <1> DEFINE t == Ecrit(v, "attend", x.signal, x.lignes)
  <1>2. x.lignes \in SUBSET Lignes
    BY DEF Lignes
  <1>3. t \in Ecritures /\ t.etape = "attend" /\ t.voie = v /\ t.signal = x.signal /\ t.lignes = x.lignes /\ t.gardees = {}
    BY <1>2 DEF Ecrit, Ecritures, Etapes
  <1>4. t \in Transactions /\ t # Repos
    BY <1>3 DEF Transactions, Repos
  <1>5. tx'[p] = t
    BY <1>1 DEF IInv, Formes
  <1>6. Rejeux(p)'
    <2> SUFFICES ASSUME x.signal = "rejeu", NEW l \in x.lignes
        PROVE  l.session \in Sessions
      BY <1>3, <1>5 DEF Rejeux
    <2>1. l.session # Aucun
      OBVIOUS
    <2> QED
      BY <1>2, <2>1, LigneTypee
  <1>7. ~EnCours(p) /\ UNCHANGED base /\ verrou' = verrou
    BY DEF Recevoir, EnCours
  <1> HIDE DEF t
  <1> QED
    BY <1>1, <1>3, <1>4, <1>6, <1>7, Avance DEF t

LEMMA LireCandidatIInv ==
  ASSUME IInv, NEW p \in Procs, LireCandidat(p)
  PROVE  IInv'
  <1>1. PICK n \in DOMAIN file : tx' = [tx EXCEPT ![p] = Draine("attend", n, {})]
    BY DEF LireCandidat
  <1> DEFINE t == Draine("attend", n, {})
  <1>2. n \in Nat
    BY DEF IInv, Donnees
  <1>3. t \in Drains /\ t.etape = "attend" /\ t.voie = "drain"
    BY <1>2 DEF Draine, Drains, Etapes
  <1>4. t \in Transactions /\ t # Repos
    BY <1>3 DEF Transactions, Repos
  <1>5. Rejeux(p)'
    BY <1>1, <1>3 DEF IInv, Formes, Rejeux
  <1>6. ~EnCours(p) /\ UNCHANGED base /\ verrou' = verrou
    BY DEF LireCandidat, EnCours
  <1> HIDE DEF t
  <1> QED
    BY <1>1, <1>3, <1>4, <1>5, <1>6, Avance DEF t

LEMMA DemanderIInv ==
  ASSUME IInv, NEW p \in Procs, Demander(p)
  PROVE  IInv'
  <1>1. PICK s \in Sujets : tx' = [tx EXCEPT ![p] = Efface("attend", s, {}, {})]
    BY DEF Demander
  <1> DEFINE t == Efface("attend", s, {}, {})
  <1>2. t \in Effacements /\ t.etape = "attend" /\ t.voie = "effacement"
    BY DEF Efface, Effacements, Etapes
  <1>3. t \in Transactions /\ t # Repos
    BY <1>2 DEF Transactions, Repos
  <1>4. Rejeux(p)'
    BY <1>1, <1>2 DEF IInv, Formes, Rejeux
  <1>5. ~EnCours(p) /\ UNCHANGED base /\ verrou' = verrou
    BY DEF Demander, EnCours
  <1> HIDE DEF t
  <1> QED
    BY <1>1, <1>2, <1>3, <1>4, <1>5, Avance DEF t

\* A transaction keeps its form, and what it was sent, when its step changes.
LEMMA ChangeEtape ==
  ASSUME NEW u \in Transactions, u # Repos, NEW e \in Etapes
  PROVE  LET t == [u EXCEPT !.etape = e]
         IN /\ t \in Transactions /\ t # Repos /\ t.etape = e /\ t.voie = u.voie
            /\ t.voie \in {"depot", "direct"} =>
                 t.signal = u.signal /\ t.lignes = u.lignes /\ t.gardees = u.gardees
  <1>1. CASE u \in Ecritures
    BY <1>1 DEF Transactions, Ecritures, Repos
  <1>2. CASE u \in Drains
    BY <1>2 DEF Transactions, Drains, Repos
  <1>3. CASE u \in Effacements
    BY <1>3 DEF Transactions, Effacements, Repos
  <1> QED
    BY <1>1, <1>2, <1>3 DEF Transactions

LEMMA VerrouillerIInv ==
  ASSUME IInv, NEW p \in Procs, Verrouiller(p)
  PROVE  IInv'
  <1> DEFINE t == [tx[p] EXCEPT !.etape = "tient"]
  <1>1. tx[p] \in Transactions /\ tx[p] # Repos
    BY DEF IInv, Formes, Verrouiller, Attend
  <1>2. /\ t \in Transactions /\ t # Repos /\ t.etape = "tient" /\ t.voie = tx[p].voie
        /\ t.voie \in {"depot", "direct"} =>
             t.signal = tx[p].signal /\ t.lignes = tx[p].lignes /\ t.gardees = tx[p].gardees
    BY <1>1, ChangeEtape DEF Etapes
  <1> HIDE DEF t
  <1>3. tx' = [tx EXCEPT ![p] = t]
    BY DEF Verrouiller, t
  <1>4. tx'[p] = t
    BY <1>3 DEF IInv, Formes
  <1>5. Promis(p)' /\ Rejeux(p)'
    BY <1>2, <1>4 DEF Promis, Rejeux, IInv
  <1>6. verrou = Aucun /\ verrou' = p /\ UNCHANGED base
    BY DEF Verrouiller
  <1> QED
    BY <1>2, <1>3, <1>5, <1>6, Avance

\* Nothing is read and nothing is written without the lock.
LEMMA RenoncerIInv ==
  ASSUME IInv, NEW p \in Procs, Renoncer(p)
  PROVE  IInv'
  <1>1. Repos \in Transactions /\ Repos.voie = "repos"
    BY DEF Transactions, Repos
  <1>2. tx' \in [Procs -> Transactions] /\ tx'[p] = Repos /\ \A q \in Procs \ {p} : tx'[q] = tx[q]
    BY <1>1 DEF IInv, Formes, Renoncer
  <1>3. Donnees' /\ Formes'
    BY <1>2 DEF IInv, Donnees, Formes, Renoncer, base
  <1>4. Verrou'
    BY <1>2 DEF IInv, Verrou, EnCours, Renoncer, Attend
  <1>5. ASSUME NEW q \in Procs, EnCours(q)'
        PROVE  Promis(q)'
    BY <1>2, <1>5 DEF IInv, EnCours, Promis, Renoncer, base
  <1>6. ASSUME NEW q \in Procs
        PROVE  Rejeux(q)'
    BY <1>1, <1>2 DEF IInv, Rejeux
  <1> QED
    BY <1>3, <1>4, <1>5, <1>6 DEF IInv

\* The barriers read under the lock are those in force at the commit.
LEMMA FiltrerIInv ==
  ASSUME IInv, NEW p \in Procs, Filtrer(p)
  PROVE  IInv'
  <1> DEFINE g == Filtre(tx[p].lignes, barrieres)
             t == [tx[p] EXCEPT !.etape = "filtre", !.gardees = g]
  <1>1. tx[p] \in Ecritures /\ tx[p].voie \in {"depot", "direct"}
    BY Voies DEF IInv, Formes, Filtrer, Tient
  <1>2. g \subseteq tx[p].lignes /\ \A l \in g : Admise(l, barrieres)
    BY <1>1, FiltreAdmis DEF IInv, Donnees, Ecritures
  <1> HIDE DEF g
  <1>3. /\ t \in Ecritures /\ t.etape = "filtre" /\ t.voie = tx[p].voie
        /\ t.signal = tx[p].signal /\ t.lignes = tx[p].lignes /\ t.gardees = g
    BY <1>1, <1>2 DEF Ecritures, Etapes
  <1> HIDE DEF t
  <1>4. t \in Transactions /\ t # Repos
    BY <1>1, <1>3 DEF Transactions, Repos
  <1>5. tx' = [tx EXCEPT ![p] = t]
    BY DEF Filtrer, t, g
  <1>6. tx'[p] = t
    BY <1>5 DEF IInv, Formes
  <1>7. UNCHANGED base /\ verrou' = verrou /\ verrou = p
    BY DEF Filtrer, Tient, IInv, Verrou, EnCours
  <1>8. Promis(p)'
    BY <1>1, <1>2, <1>3, <1>6, <1>7 DEF Promis, base
  <1>9. Rejeux(p)'
    BY <1>1, <1>2, <1>3, <1>6 DEF IInv, Rejeux
  <1> QED
    BY <1>3, <1>4, <1>5, <1>7, <1>8, <1>9, Avance

\* The sessions found are those of the subject until its erasure commits.
LEMMA ReleverIInv ==
  ASSUME IInv, NEW p \in Procs, Relever(p)
  PROVE  IInv'
  <1> DEFINE s == tx[p].sujet
             st == {a \in DOMAIN ancres : PorteCle(ancres[a], s)}
             enfile == {l.session : l \in {k \in UNION {file[n].lignes : n \in DOMAIN file} :
                                             k.genre = "session" /\ PorteCle(k, s)}}
             t == Efface("releve", s, st, enfile)
  <1>1. tx[p] \in Effacements /\ tx[p].voie = "effacement"
    BY Voies DEF IInv, Formes, Relever, Tient
  <1>2. st \subseteq Sessions
    BY DEF IInv, Donnees
  <1>3. enfile \subseteq Sessions
    <2> SUFFICES ASSUME NEW n \in DOMAIN file, NEW l \in file[n].lignes, l.genre = "session"
        PROVE  l.session \in Sessions
      OBVIOUS
    <2>1. l \in Lignes
      BY DEF IInv, Donnees
    <2> QED
      BY <2>1, LigneTypee
  <1>4. tx' = [tx EXCEPT ![p] = t]
    BY DEF Relever
  <1> HIDE DEF st, enfile
  <1>5. t \in Effacements /\ t.etape = "releve" /\ t.voie = "effacement" /\ t.sujet = s /\ t.stockees = st
    BY <1>1, <1>2, <1>3 DEF Efface, Effacements, Etapes
  <1> HIDE DEF t
  <1>6. t \in Transactions /\ t # Repos
    BY <1>5 DEF Transactions, Repos
  <1>7. tx'[p] = t
    BY <1>4 DEF IInv, Formes
  <1>8. UNCHANGED base /\ verrou' = verrou /\ verrou = p
    BY DEF Relever, Tient, IInv, Verrou, EnCours
  <1>9. Promis(p)' /\ Rejeux(p)'
    BY <1>5, <1>7, <1>8 DEF Promis, Rejeux, base, st
  <1> QED
    BY <1>4, <1>5, <1>6, <1>8, <1>9, Avance

\* What leaves the data alone and ends the transaction.
LEMMA FinitSansRien ==
  ASSUME IInv, NEW p \in Procs, EnCours(p), Rendre(p), UNCHANGED base
  PROVE  IInv'
  <1>1. Donnees' /\ file' \in [DOMAIN file' -> Lots]
    BY DEF IInv, Donnees, Formes, base
  <1> QED
    BY <1>1, Finit DEF IInv

LEMMA CouperIInv ==
  ASSUME IInv, NEW p \in Procs, Couper(p)
  PROVE  IInv'
  BY FinitSansRien DEF Couper, EnCours

LEMMA ReprendreIInv ==
  ASSUME IInv, NEW p \in Procs, Reprendre(p)
  PROVE  IInv'
  <1> DEFINE n == tx[p].num
             g == Filtre(file[n].lignes, barrieres)
             t == Draine("filtre", n, g)
  <1>1. tx[p] \in Drains /\ tx[p].voie = "drain"
    BY Voies DEF IInv, Formes, Reprendre, Tient
  <1>2. EnCours(p) /\ verrou = p /\ UNCHANGED base
    BY DEF Reprendre, Tient, IInv, Verrou, EnCours
  <1>3. CASE ~(n \in DOMAIN file /\ file[n].tentatives < MaxTentatives)
    BY <1>2, <1>3, FinitSansRien DEF Reprendre
  <1>4. CASE n \in DOMAIN file /\ file[n].tentatives < MaxTentatives
    <2>1. tx' = [tx EXCEPT ![p] = t] /\ verrou' = verrou
      BY <1>4 DEF Reprendre
    <2>2. file[n].lignes \in SUBSET Lignes
      BY <1>4 DEF IInv, Donnees
    <2>3. g \subseteq Lignes /\ \A l \in g : Admise(l, barrieres)
      BY <2>2, FiltreAdmis DEF IInv, Donnees
    <2> HIDE DEF g
    <2>4. t \in Drains /\ t.etape = "filtre" /\ t.voie = "drain" /\ t.num = n /\ t.gardees = g
      BY <1>1, <2>3 DEF Draine, Drains, Etapes
    <2> HIDE DEF t
    <2>5. t \in Transactions /\ t # Repos
      BY <2>4 DEF Transactions, Repos
    <2>6. tx'[p] = t
      BY <2>1 DEF IInv, Formes
    <2>7. Promis(p)' /\ Rejeux(p)'
      BY <1>2, <1>4, <2>3, <2>4, <2>6 DEF Promis, Rejeux, base
    <2> QED
      BY <1>2, <2>1, <2>4, <2>5, <2>7, Avance
  <1> QED
    BY <1>3, <1>4

LEMMA DeposerIInv ==
  ASSUME IInv, NEW p \in Procs, Deposer(p)
  PROVE  IInv'
  <1> DEFINE ls == tx[p].gardees
  <1>1. tx[p] \in Ecritures /\ EnCours(p) /\ Rendre(p)
    BY Voies DEF IInv, Formes, Deposer, Filtree, EnCours
  <1>2. ls \in SUBSET Lignes /\ tx[p].lignes \in SUBSET Lignes
    BY <1>1 DEF Ecritures
  <1>3. UNCHANGED <<barrieres, ancres, enfants, effaces>> /\ acquittes' \subseteq Lignes
    BY <1>2 DEF Deposer, IInv, Donnees
  <1>4. CASE UNCHANGED <<file, depots>>
    <2>1. Donnees' /\ file' \in [DOMAIN file' -> Lots]
      BY <1>3, <1>4 DEF IInv, Donnees, Formes
    <2> QED
      BY <1>1, <2>1, Finit DEF IInv
  <1>5. CASE /\ ls # {} /\ depots < MaxDepots
             /\ depots' = depots + 1
             /\ file' = [n \in DOMAIN file \cup {depots + 1} |->
                           IF n \in DOMAIN file THEN file[n] ELSE [lignes |-> ls, tentatives |-> 0]]
    <2>1. depots' \in 0..MaxDepots /\ DOMAIN file' \subseteq 1..depots'
      BY <1>5 DEF IInv, Donnees
    <2>2. file' \in [DOMAIN file' -> Lots]
      BY <1>2, <1>5 DEF IInv, Formes, Lots
    <2>3. ASSUME NEW n \in DOMAIN file'
          PROVE  file'[n].lignes \in (SUBSET Lignes) \ {{}} /\ file'[n].tentatives \in 0..MaxTentatives
      <3>1. CASE n \in DOMAIN file
        BY <1>5, <3>1 DEF IInv, Donnees
      <3>2. CASE n \notin DOMAIN file
        <4>1. file'[n] = [lignes |-> ls, tentatives |-> 0]
          BY <1>5, <3>2
        <4>2. file'[n].lignes = ls /\ file'[n].tentatives = 0
          BY <4>1
        <4>3. 0 \in 0..MaxTentatives
          OBVIOUS
        <4>4. ls \in (SUBSET Lignes) \ {{}}
          BY <1>2, <1>5
        <4> QED
          BY <4>2, <4>3, <4>4
      <3> QED
        BY <3>1, <3>2
    <2>4. Donnees'
      BY <1>3, <2>1, <2>3 DEF IInv, Donnees
    <2> QED
      BY <1>1, <2>2, <2>4, Finit DEF IInv
  <1> QED
    BY <1>4, <1>5 DEF Deposer

LEMMA EchouerIInv ==
  ASSUME IInv, NEW p \in Procs, Echouer(p)
  PROVE  IInv'
  <1> DEFINE n == tx[p].num
  <1>1. EnCours(p) /\ Rendre(p) /\ tx[p].voie = "drain" /\ tx[p].etape = "filtre"
    BY DEF Echouer, Filtree, EnCours
  <1>2. n \in DOMAIN file /\ file[n].tentatives < MaxTentatives
    BY <1>1 DEF IInv, Promis
  <1>3. file' = [file EXCEPT ![n].tentatives = @ + 1] /\ UNCHANGED <<barrieres, ancres, enfants, depots, effaces, acquittes>>
    BY DEF Echouer
  <1>4. file' \in [DOMAIN file' -> Lots] /\ DOMAIN file' = DOMAIN file
    BY <1>2, <1>3 DEF IInv, Formes, Lots
  <1>5. ASSUME NEW k \in DOMAIN file
        PROVE  file'[k].lignes \in (SUBSET Lignes) \ {{}} /\ file'[k].tentatives \in 0..MaxTentatives
    BY <1>2, <1>3 DEF IInv, Donnees, Formes, Lots
  <1>6. Donnees'
    BY <1>3, <1>4, <1>5 DEF IInv, Donnees
  <1> QED
    BY <1>1, <1>4, <1>6, Finit DEF IInv

-----------------------------------------------------------------------------
(* Writing to the tables *)

\* A session that merges keeps a typed anchor.
LEMMA FusionTypee ==
  ASSUME Donnees, NEW ls \in SUBSET Lignes
  PROVE  LET f == Fusion(ancres, ls)
         IN /\ DOMAIN ancres \subseteq DOMAIN f /\ DOMAIN f \subseteq Sessions
            /\ \A s \in DOMAIN f : f[s] \in [visiteur : Visiteurs \cup {Aucun}, identite : Identites \cup {Aucun}]
  <1> DEFINE f == Fusion(ancres, ls)
             neuves == {l \in ls : l.genre = "session"}
  <1>1. DOMAIN f = DOMAIN ancres \cup {l.session : l \in neuves}
    BY FusionDomaine
  <1>2. DOMAIN f \subseteq Sessions
    BY <1>1, LigneTypee DEF Donnees
  <1>3. ASSUME NEW s \in DOMAIN f
        PROVE  f[s] \in [visiteur : Visiteurs \cup {Aucun}, identite : Identites \cup {Aucun}]
    <2>1. CASE ~\E l \in neuves : l.session = s
      <3>1. f[s] = ancres[s] /\ s \in DOMAIN ancres
        BY <1>1, <2>1 DEF Fusion
      <3> QED
        BY <3>1 DEF Donnees
    <2>2. CASE \E l \in neuves : l.session = s
      <3> DEFINE l == CHOOSE k \in neuves : k.session = s
      <3>1. l \in Lignes
        BY <2>2
      <3>2. f[s] = IF s \in DOMAIN ancres
                   THEN [visiteur |-> Coalesce(ancres[s].visiteur, l.visiteur),
                         identite |-> Coalesce(ancres[s].identite, l.identite)]
                   ELSE Ancre(l)
        BY <1>1, <2>2 DEF Fusion
      <3> HIDE DEF l
      <3>3. l.visiteur \in Visiteurs \cup {Aucun} /\ l.identite \in Identites \cup {Aucun}
        BY <3>1, LigneTypee
      <3> QED
        BY <3>2, <3>3 DEF Donnees, Coalesce, Ancre
    <2> QED
      BY <2>1, <2>2
  <1> QED
    BY <1>1, <1>2, <1>3

\* Rows go under stored sessions: the foreign keys see to those they name, and a claimed session
\* is taken only if it is stored.
LEMMA EcrireTablesDonnees ==
  ASSUME Donnees, NEW ls \in SUBSET Lignes, EcrireTables(ls)
  PROVE  /\ DOMAIN ancres \subseteq DOMAIN ancres' /\ DOMAIN ancres' \subseteq Sessions
         /\ \A s \in DOMAIN ancres' : ancres'[s] \in [visiteur : Visiteurs \cup {Aucun}, identite : Identites \cup {Aucun}]
         /\ DOMAIN enfants' \subseteq Lignes
         /\ \A l \in DOMAIN enfants' : enfants'[l] \in Sessions \cup {Aucun}
         /\ \A l \in DOMAIN enfants' : l.genre # "journal" /\ enfants'[l] # Aucun => enfants'[l] \in DOMAIN ancres'
  <1>1. ancres' = Fusion(ancres, ls) /\ ClesTenues(ls, ancres') /\ enfants' = Insertion(enfants, ls, ancres')
    BY DEF EcrireTables
  <1>2. /\ DOMAIN ancres \subseteq DOMAIN ancres' /\ DOMAIN ancres' \subseteq Sessions
        /\ \A s \in DOMAIN ancres' : ancres'[s] \in [visiteur : Visiteurs \cup {Aucun}, identite : Identites \cup {Aucun}]
    BY <1>1, FusionTypee
  <1>3. DOMAIN enfants' = DOMAIN enfants \cup {k \in ls : k.genre # "session"}
    BY <1>1 DEF Insertion
  <1>4. DOMAIN enfants' \subseteq Lignes
    BY <1>3 DEF Donnees
  <1>5. ASSUME NEW l \in DOMAIN enfants'
        PROVE  /\ enfants'[l] \in Sessions \cup {Aucun}
               /\ l.genre # "journal" /\ enfants'[l] # Aucun => enfants'[l] \in DOMAIN ancres'
    <2>1. CASE l \in DOMAIN enfants
      <3>1. enfants'[l] = enfants[l]
        BY <1>1, <2>1 DEF Insertion
      <3> QED
        BY <1>2, <2>1, <3>1 DEF Donnees
    <2>2. CASE l \notin DOMAIN enfants
      <3>1. l \in ls /\ l.genre # "session" /\ enfants'[l] = SessionEcrite(l, ancres')
        BY <1>1, <1>3, <2>2 DEF Insertion
      <3>2. CASE l.claim \in DOMAIN ancres'
        BY <1>2, <3>1, <3>2 DEF SessionEcrite
      <3>3. CASE l.claim \notin DOMAIN ancres'
        BY <1>1, <3>1, <3>3, LigneTypee DEF SessionEcrite, ClesTenues
      <3> QED
        BY <3>2, <3>3
    <2> QED
      BY <2>1, <2>2
  <1> QED
    BY <1>2, <1>4, <1>5

\* A replay goes under a stored session too, created for it if need be.
LEMMA EcrireRejeuDonnees ==
  ASSUME Donnees, NEW ls \in SUBSET Lignes, \A l \in ls : l.session \in Sessions, EcrireRejeu(ls)
  PROVE  /\ DOMAIN ancres \subseteq DOMAIN ancres' /\ DOMAIN ancres' \subseteq Sessions
         /\ \A s \in DOMAIN ancres' : ancres'[s] \in [visiteur : Visiteurs \cup {Aucun}, identite : Identites \cup {Aucun}]
         /\ DOMAIN enfants' \subseteq Lignes
         /\ \A l \in DOMAIN enfants' : enfants'[l] \in Sessions \cup {Aucun}
         /\ \A l \in DOMAIN enfants' : l.genre # "journal" /\ enfants'[l] # Aucun => enfants'[l] \in DOMAIN ancres'
         /\ acquittes' \subseteq acquittes \cup ls
  <1> DEFINE inconnues == {l.session : l \in ls} \ DOMAIN ancres
             admises == IF Mode = "enforce" THEN {l \in ls : l.session \notin inconnues} ELSE ls
  <1>1. /\ ancres' = [s \in DOMAIN ancres \cup {l.session : l \in admises} |->
                        IF s \in DOMAIN ancres THEN ancres[s] ELSE [visiteur |-> Aucun, identite |-> Aucun]]
        /\ enfants' = Insertion(enfants, admises, ancres')
        /\ acquittes' = acquittes \cup admises
    BY DEF EcrireRejeu
  <1>2. admises \subseteq ls
    OBVIOUS
  <1> HIDE DEF admises
  <1>3. DOMAIN ancres' = DOMAIN ancres \cup {l.session : l \in admises}
    BY <1>1
  <1>4. DOMAIN ancres' \subseteq Sessions
    BY <1>2, <1>3 DEF Donnees
  <1>5. \A s \in DOMAIN ancres' : ancres'[s] \in [visiteur : Visiteurs \cup {Aucun}, identite : Identites \cup {Aucun}]
    BY <1>1, <1>3 DEF Donnees
  <1>6. DOMAIN enfants' = DOMAIN enfants \cup {k \in admises : k.genre # "session"}
    BY <1>1 DEF Insertion
  <1>7. DOMAIN enfants' \subseteq Lignes
    BY <1>2, <1>6 DEF Donnees
  <1>8. ASSUME NEW l \in DOMAIN enfants'
        PROVE  /\ enfants'[l] \in Sessions \cup {Aucun}
               /\ l.genre # "journal" /\ enfants'[l] # Aucun => enfants'[l] \in DOMAIN ancres'
    <2>1. CASE l \in DOMAIN enfants
      <3>1. enfants'[l] = enfants[l]
        BY <1>1, <2>1 DEF Insertion
      <3> QED
        BY <1>3, <2>1, <3>1 DEF Donnees
    <2>2. CASE l \notin DOMAIN enfants
      <3>1. l \in admises /\ enfants'[l] = SessionEcrite(l, ancres')
        BY <1>1, <1>6, <2>2 DEF Insertion
      <3>2. l.session \in DOMAIN ancres'
        BY <1>3, <3>1
      <3> QED
        BY <1>4, <3>1, <3>2 DEF SessionEcrite
    <2> QED
      BY <2>1, <2>2
  <1> QED
    BY <1>1, <1>2, <1>3, <1>4, <1>5, <1>7, <1>8

LEMMA EcrireDirectIInv ==
  ASSUME IInv, NEW p \in Procs, EcrireDirect(p)
  PROVE  IInv'
  <1> DEFINE ls == tx[p].gardees
  <1>1. tx[p] \in Ecritures /\ EnCours(p) /\ Rendre(p) /\ tx[p].voie \in {"depot", "direct"}
    BY Voies DEF IInv, Formes, EcrireDirect, Filtree, EnCours
  <1>2. ls \in SUBSET Lignes /\ tx[p].lignes \in SUBSET Lignes
    BY <1>1 DEF Ecritures
  <1>3. UNCHANGED <<barrieres, file, depots, effaces>> /\ file' \in [DOMAIN file' -> Lots]
    BY DEF EcrireDirect, IInv, Formes
  <1>4. CASE tx[p].signal = "rejeu"
    <2>1. \A l \in ls : l.session \in Sessions
      BY <1>1, <1>4 DEF IInv, Rejeux
    <2>2. EcrireRejeu(ls)
      BY <1>4 DEF EcrireDirect
    <2>3. Donnees'
      BY <1>2, <1>3, <2>1, <2>2, EcrireRejeuDonnees DEF IInv, Donnees
    <2> QED
      BY <1>1, <1>3, <2>3, Finit DEF IInv
  <1>5. CASE tx[p].signal # "rejeu"
    <2>1. EcrireTables(ls) /\ acquittes' = acquittes \cup tx[p].lignes
      BY <1>5 DEF EcrireDirect
    <2>2. Donnees'
      BY <1>2, <1>3, <2>1, EcrireTablesDonnees DEF IInv, Donnees
    <2> QED
      BY <1>1, <1>3, <2>2, Finit DEF IInv
  <1> QED
    BY <1>4, <1>5

LEMMA DrainerIInv ==
  ASSUME IInv, NEW p \in Procs, Drainer(p)
  PROVE  IInv'
  <1> DEFINE ls == tx[p].gardees
  <1>1. tx[p] \in Drains /\ EnCours(p) /\ Rendre(p)
    BY Voies DEF IInv, Formes, Drainer, Filtree, EnCours
  <1>2. ls \in SUBSET Lignes
    BY <1>1 DEF Drains
  <1>3. /\ UNCHANGED <<barrieres, depots, effaces, acquittes>> /\ EcrireTables(ls)
        /\ file' = [n \in DOMAIN file \ {tx[p].num} |-> file[n]]
    BY DEF Drainer
  <1>4. file' \in [DOMAIN file' -> Lots]
    BY <1>3 DEF IInv, Formes
  <1>5. Donnees'
    BY <1>2, <1>3, EcrireTablesDonnees DEF IInv, Donnees
  <1> QED
    BY <1>1, <1>4, <1>5, Finit DEF IInv

\* The filtered queue is a queue.
LEMMA FileFiltreeTypee ==
  ASSUME IInv, NEW cibles, NEW s
  PROVE  LET f == FileFiltree(cibles, s)
         IN /\ DOMAIN f \subseteq DOMAIN file /\ f \in [DOMAIN f -> Lots]
            /\ \A n \in DOMAIN f : f[n].lignes \in (SUBSET Lignes) \ {{}} /\ f[n].tentatives \in 0..MaxTentatives
  <1> DEFINE f == FileFiltree(cibles, s)
             Garde(ls) == {l \in ls : l.session \notin cibles /\ ~PorteCle(l, s)}
  <1>1. f = [n \in {k \in DOMAIN file : Garde(file[k].lignes) # {}} |->
               [file[n] EXCEPT !.lignes = Garde(file[n].lignes)]]
    BY DEF FileFiltree
  <1>2. \A ls : Garde(ls) \subseteq ls
    OBVIOUS
  <1> HIDE DEF f, Garde
  <1>3. ASSUME NEW n \in DOMAIN f
        PROVE  /\ n \in DOMAIN file /\ f[n] \in Lots
               /\ f[n].lignes \in (SUBSET Lignes) \ {{}} /\ f[n].tentatives \in 0..MaxTentatives
    <2>1. n \in DOMAIN file /\ Garde(file[n].lignes) # {} /\ f[n] = [file[n] EXCEPT !.lignes = Garde(file[n].lignes)]
      BY <1>1
    <2>2. file[n] \in Lots /\ file[n].lignes \in SUBSET Lignes /\ file[n].tentatives \in 0..MaxTentatives
      BY <2>1 DEF IInv, Formes, Donnees
    <2>3. Garde(file[n].lignes) \in (SUBSET Lignes) \ {{}}
      BY <1>2, <2>1, <2>2
    <2> QED
      BY <2>1, <2>2, <2>3 DEF Lots
  <1>4. f \in [DOMAIN f -> Lots]
    BY <1>1, <1>3
  <1> QED
    BY <1>3, <1>4 DEF f

\* Erasing the anchors of the subject orphans no row: the sessions it found are still exactly
\* those of the subject, and their rows go with them.
LEMMA EffacerIInv ==
  ASSUME IInv, NEW p \in Procs, Effacer(p)
  PROVE  IInv'
  <1> DEFINE s == tx[p].sujet
             toutes == tx[p].stockees \cup tx[p].enFile
             cibles == IF s[1] = "user" THEN toutes ELSE tx[p].stockees
  <1>1. /\ tx[p] \in Effacements /\ EnCours(p) /\ Rendre(p)
        /\ tx[p].voie = "effacement" /\ tx[p].etape = "releve"
    BY Voies DEF IInv, Formes, Effacer, EnCours
  <1>2. s \in Sujets /\ toutes \subseteq Sessions /\ tx[p].stockees \subseteq cibles
    BY <1>1 DEF Effacements
  <1>3. tx[p].stockees = {a \in DOMAIN ancres : PorteCle(ancres[a], s)}
    BY <1>1 DEF IInv, Promis
  <1>4. /\ barrieres' = barrieres \cup IF Mode = "enforce" THEN {s} \cup ({"session"} \X toutes) ELSE {}
        /\ effaces' = effaces \cup IF Mode = "enforce" THEN {s} ELSE {}
        /\ file' = FileFiltree(cibles, s)
        /\ enfants' = [l \in DOMAIN enfants \ AEffacer(cibles, s) |-> enfants[l]]
        /\ ancres' = [a \in {k \in DOMAIN ancres : ~PorteCle(ancres[k], s)} |-> ancres[a]]
        /\ UNCHANGED <<depots, acquittes>>
    BY DEF Effacer
  <1> HIDE DEF s, toutes, cibles
  <1>5. /\ DOMAIN file' \subseteq DOMAIN file /\ file' \in [DOMAIN file' -> Lots]
        /\ \A n \in DOMAIN file' : file'[n].lignes \in (SUBSET Lignes) \ {{}} /\ file'[n].tentatives \in 0..MaxTentatives
    BY <1>4, FileFiltreeTypee
  <1>6. barrieres' \subseteq Sujets \cup ({"session"} \X Sessions) /\ effaces' \subseteq Sujets
    BY <1>2, <1>4 DEF IInv, Donnees
  <1>7. /\ DOMAIN ancres' \subseteq Sessions
        /\ \A a \in DOMAIN ancres' : ancres'[a] \in [visiteur : Visiteurs \cup {Aucun}, identite : Identites \cup {Aucun}]
    BY <1>4 DEF IInv, Donnees
  <1>8. ASSUME NEW l \in DOMAIN enfants'
        PROVE  /\ l \in Lignes /\ enfants'[l] \in Sessions \cup {Aucun}
               /\ l.genre # "journal" /\ enfants'[l] # Aucun => enfants'[l] \in DOMAIN ancres'
    <2>1. l \in DOMAIN enfants /\ enfants'[l] = enfants[l] /\ enfants[l] \notin cibles
      BY <1>4 DEF AEffacer
    <2>2. enfants[l] \notin tx[p].stockees
      BY <1>2, <2>1
    <2>3. l.genre # "journal" /\ enfants[l] # Aucun => enfants[l] \in DOMAIN ancres
      BY <2>1 DEF IInv, Donnees
    <2>4. l \in Lignes /\ enfants[l] \in Sessions \cup {Aucun}
      BY <2>1 DEF IInv, Donnees
    <2> QED
      BY <1>3, <1>4, <2>1, <2>2, <2>3, <2>4
  <1>9. depots' \in 0..MaxDepots /\ DOMAIN file' \subseteq 1..depots' /\ acquittes' \subseteq Lignes
    BY <1>4, <1>5 DEF IInv, Donnees
  <1>10. Donnees'
    BY <1>5, <1>6, <1>7, <1>8, <1>9 DEF Donnees
  <1> QED
    BY <1>1, <1>5, <1>10, Finit DEF IInv

LEMMA NextIInv == IInv /\ [Next]_vars => IInv'
  <1> SUFFICES ASSUME IInv, [Next]_vars PROVE IInv'
    OBVIOUS
  <1>1. CASE UNCHANGED vars
    <2>1. Donnees' /\ Formes' /\ Verrou'
      BY <1>1 DEF IInv, Donnees, Formes, Verrou, EnCours, vars
    <2>2. ASSUME NEW q \in Procs
          PROVE  (EnCours(q)' => Promis(q)') /\ Rejeux(q)'
      BY <1>1 DEF IInv, EnCours, Promis, Rejeux, vars
    <2> QED
      BY <2>1, <2>2 DEF IInv
  <1>2. ASSUME NEW p \in Procs, Transaction(p)
        PROVE  IInv'
    BY <1>2, RecevoirIInv, LireCandidatIInv, DemanderIInv, VerrouillerIInv, RenoncerIInv, FiltrerIInv,
       ReprendreIInv, DeposerIInv, EcrireDirectIInv, DrainerIInv, EchouerIInv, ReleverIInv, EffacerIInv,
       CouperIInv DEF Transaction
  <1> QED
    BY <1>1, <1>2 DEF Next

-----------------------------------------------------------------------------
(* The theorems *)

\* Committed data keeps its types, every stored row but a log refers to a stored session whatever
\* was erased, and a process past `attend` is the one holder of the lock.
THEOREM TypeCorrect == Spec => []TypeOK
  <1>1. Init => IInv
    BY InitIInv
  <1>2. IInv /\ [Next]_vars => IInv'
    BY NextIInv
  <1>3. IInv => TypeOK
    BY IInvType
  <1> QED
    BY <1>1, <1>2, <1>3, PTL DEF Spec

\* What a commit may add to the tables.
Nouveautes ==
  /\ \A s \in DOMAIN ancres' \ DOMAIN ancres : <<"session", s>> \notin barrieres
  /\ \A l \in DOMAIN enfants' \ DOMAIN enfants :
       ~SousCle(l, barrieres) /\ <<"session", enfants'[l]>> \notin barrieres

LEMMA EcrireTablesAdmises ==
  ASSUME SansReprise, Donnees, NEW ls \in SUBSET Lignes, \A l \in ls : Admise(l, barrieres), EcrireTables(ls)
  PROVE  Nouveautes
  <1>1. ancres' = Fusion(ancres, ls) /\ enfants' = Insertion(enfants, ls, ancres')
    BY DEF EcrireTables
  <1>2. ASSUME NEW s \in DOMAIN ancres' \ DOMAIN ancres
        PROVE  <<"session", s>> \notin barrieres
    <2>1. DOMAIN ancres' = DOMAIN ancres \cup {l.session : l \in {k \in ls : k.genre = "session"}}
      BY <1>1, FusionDomaine
    <2>2. PICK l \in ls : l.session = s
      BY <2>1
    <2> QED
      BY <2>2 DEF Admise
  <1>3. Aucun \notin DOMAIN ancres'
    BY EcrireTablesDonnees
  <1>4. ASSUME NEW l \in DOMAIN enfants' \ DOMAIN enfants
        PROVE  ~SousCle(l, barrieres) /\ <<"session", enfants'[l]>> \notin barrieres
    <2>1. l \in ls /\ enfants'[l] = SessionEcrite(l, ancres')
      BY <1>1 DEF Insertion
    <2>2. enfants'[l] = l.session
      BY <1>3, <2>1 DEF SessionEcrite, SansReprise
    <2> QED
      BY <2>1, <2>2 DEF Admise
  <1> QED
    BY <1>2, <1>4 DEF Nouveautes

LEMMA EcrireRejeuAdmis ==
  ASSUME SansReprise, Donnees, NEW ls \in SUBSET Lignes, \A l \in ls : l.session \in Sessions,
         \A l \in ls : Admise(l, barrieres), EcrireRejeu(ls)
  PROVE  Nouveautes
  <1> DEFINE inconnues == {l.session : l \in ls} \ DOMAIN ancres
             admises == IF Mode = "enforce" THEN {l \in ls : l.session \notin inconnues} ELSE ls
  <1>1. DOMAIN ancres' = DOMAIN ancres \cup {l.session : l \in admises} /\ enfants' = Insertion(enfants, admises, ancres')
    BY DEF EcrireRejeu
  <1>2. admises \subseteq ls
    OBVIOUS
  <1> HIDE DEF admises
  <1>3. \A s \in DOMAIN ancres' \ DOMAIN ancres : <<"session", s>> \notin barrieres
    BY <1>1, <1>2 DEF Admise
  <1>4. Aucun \notin DOMAIN ancres'
    BY EcrireRejeuDonnees
  <1>5. ASSUME NEW l \in DOMAIN enfants' \ DOMAIN enfants
        PROVE  ~SousCle(l, barrieres) /\ <<"session", enfants'[l]>> \notin barrieres
    <2>1. l \in admises /\ enfants'[l] = SessionEcrite(l, ancres')
      BY <1>1 DEF Insertion
    <2>2. enfants'[l] = l.session
      BY <1>2, <1>4, <2>1 DEF SessionEcrite, SansReprise
    <2> QED
      BY <1>2, <2>1, <2>2 DEF Admise
  <1> QED
    BY <1>3, <1>5 DEF Nouveautes

LEMMA NextNouveautes == SansReprise /\ IInv /\ [Next]_vars => [Nouveautes]_vars
  <1> SUFFICES ASSUME SansReprise, IInv, NEW p \in Procs, Transaction(p)
      PROVE  Nouveautes
    BY DEF Next
  <1>1. CASE EcrireDirect(p)
    <2> DEFINE ls == tx[p].gardees
    <2>1. tx[p] \in Ecritures /\ EnCours(p) /\ tx[p].voie = "direct" /\ tx[p].etape = "filtre"
      BY <1>1, Voies DEF IInv, Formes, EcrireDirect, Filtree, EnCours
    <2>2. ls \in SUBSET Lignes /\ \A l \in ls : Admise(l, barrieres)
      BY <2>1 DEF IInv, Promis, Ecritures
    <2>3. CASE tx[p].signal = "rejeu"
      <3>1. \A l \in ls : l.session \in Sessions
        BY <2>1, <2>3 DEF IInv, Rejeux
      <3>2. EcrireRejeu(ls)
        BY <1>1, <2>3 DEF EcrireDirect
      <3> QED
        BY <2>2, <3>1, <3>2, EcrireRejeuAdmis DEF IInv
    <2>4. CASE tx[p].signal # "rejeu"
      <3>1. EcrireTables(ls)
        BY <1>1, <2>4 DEF EcrireDirect
      <3> QED
        BY <2>2, <3>1, EcrireTablesAdmises DEF IInv
    <2> QED
      BY <2>3, <2>4
  <1>2. CASE Drainer(p)
    <2>1. tx[p] \in Drains /\ EnCours(p) /\ tx[p].voie = "drain" /\ tx[p].etape = "filtre"
      BY <1>2, Voies DEF IInv, Formes, Drainer, Filtree, EnCours
    <2>2. tx[p].gardees \in SUBSET Lignes /\ \A l \in tx[p].gardees : Admise(l, barrieres)
      BY <2>1 DEF IInv, Promis, Drains
    <2> QED
      BY <1>2, <2>2, EcrireTablesAdmises DEF IInv, Drainer
  <1>3. CASE Effacer(p)
    <2>1. DOMAIN ancres' \subseteq DOMAIN ancres /\ DOMAIN enfants' \subseteq DOMAIN enfants
      BY <1>3 DEF Effacer
    <2> QED
      BY <2>1 DEF Nouveautes
  <1>4. CASE UNCHANGED <<ancres, enfants>>
    BY <1>4 DEF Nouveautes
  <1> QED
    BY <1>1, <1>2, <1>3, <1>4 DEF Transaction, Recevoir, LireCandidat, Demander, Verrouiller, Renoncer,
       Filtrer, Reprendre, Deposer, Echouer, Relever, Couper, base

\* Nothing the barriers forbid enters a table, whatever transaction began before the erasure, when
\* no row claims another session.
THEOREM NothingComesBack ==
  ASSUME SansReprise
  PROVE  Spec => RienNeRevient
  <1>1. Init => IInv
    BY InitIInv
  <1>2. IInv /\ [Next]_vars => IInv'
    BY NextIInv
  <1>3. IInv /\ [Next]_vars => [Nouveautes]_vars
    BY NextNouveautes
  <1> QED
    BY <1>1, <1>2, <1>3, PTL DEF Spec, RienNeRevient, Nouveautes

-----------------------------------------------------------------------------
(* Read under the lock, and told apart by subject *)

EnFile(s) == {l.session : l \in {k \in LignesEnFile : k.genre = "session" /\ PorteCle(k, s)}}

\* What a transaction has read is still what it would read.
Lectures(p) ==
  /\ tx[p].voie \in {"depot", "direct"} /\ tx[p].etape = "filtre" => tx[p].gardees = Filtre(tx[p].lignes, barrieres)
  /\ tx[p].voie = "drain" /\ tx[p].etape = "filtre" => tx[p].gardees = Filtre(file[tx[p].num].lignes, barrieres)
  /\ tx[p].voie = "effacement" /\ tx[p].etape = "releve" => tx[p].enFile = EnFile(tx[p].sujet)

\* What a collector holds was sent by a client.
Envoye(p) ==
  tx[p].voie \in {"depot", "direct"} => \E x \in Signaux : tx[p].lignes = x.lignes /\ tx[p].signal = x.signal

Lues == (\A p \in Procs : EnCours(p) => Lectures(p)) /\ \A p \in Procs : Envoye(p)

LEMMA LuesPas ==
  ASSUME IInv, IInv', Lues, NEW p \in Procs, Transaction(p)
  PROVE  Lues'
  <1>0. /\ tx \in [Procs -> Transactions] /\ tx' \in [Procs -> Transactions]
        /\ Repos \in Transactions /\ Repos.voie = "repos"
    BY DEF IInv, Formes, Transactions, Repos
  <1>1. \A q \in Procs : EnCours(q)' <=> verrou' = q
    BY DEF IInv, Verrou
  \* The others see no commit, and have not moved.
  <1>2. ASSUME NEW t, tx' = [tx EXCEPT ![p] = t], UNCHANGED base \/ verrou' = Aucun,
               EnCours(p)' => Lectures(p)', Envoye(p)'
        PROVE  Lues'
    <2>1. \A q \in Procs \ {p} : tx'[q] = tx[q]
      BY <1>0, <1>2
    <2>2. ASSUME NEW q \in Procs, EnCours(q)'
          PROVE  Lectures(q)'
      <3>1. CASE verrou' = Aucun
        BY <1>1, <2>2, <3>1
      <3>2. CASE UNCHANGED base
        BY <1>2, <2>1, <2>2, <3>2 DEF Lues, Lectures, EnCours, base, EnFile, LignesEnFile
      <3> QED BY <1>2, <3>1, <3>2
    <2>3. ASSUME NEW q \in Procs PROVE Envoye(q)'
      BY <1>2, <2>1 DEF Lues, Envoye
    <2> QED BY <2>2, <2>3 DEF Lues
  <1>3. ASSUME Rendre(p) PROVE Lues'
    <2>1. tx'[p] = Repos
      BY <1>0, <1>3 DEF Rendre
    <2>2. Envoye(p)'
      BY <1>0, <2>1 DEF Envoye
    <2>3. verrou' = Aucun /\ ~EnCours(p)'
      BY <1>3, <2>1 DEF Rendre, EnCours
    <2> QED BY <1>2, <1>3, <2>2, <2>3 DEF Rendre
  <1>4. CASE Recevoir(p)
    <2>1. PICK x \in Signaux, v \in {"depot", "direct"} :
            tx' = [tx EXCEPT ![p] = Ecrit(v, "attend", x.signal, x.lignes)]
      BY <1>4 DEF Recevoir
    <2>2. tx'[p].etape = "attend" /\ tx'[p].lignes = x.lignes /\ tx'[p].signal = x.signal
      BY <1>0, <2>1 DEF Ecrit
    <2> QED BY <1>2, <1>4, <2>1, <2>2 DEF Recevoir, EnCours, Envoye
  <1>5. CASE LireCandidat(p)
    <2>1. PICK n \in DOMAIN file : tx' = [tx EXCEPT ![p] = Draine("attend", n, {})]
      BY <1>5 DEF LireCandidat
    <2>2. tx'[p].etape = "attend" /\ tx'[p].voie = "drain"
      BY <1>0, <2>1 DEF Draine
    <2> QED BY <1>2, <1>5, <2>1, <2>2 DEF LireCandidat, EnCours, Envoye
  <1>6. CASE Demander(p)
    <2>1. PICK s \in Sujets : tx' = [tx EXCEPT ![p] = Efface("attend", s, {}, {})]
      BY <1>6 DEF Demander
    <2>2. tx'[p].etape = "attend" /\ tx'[p].voie = "effacement"
      BY <1>0, <2>1 DEF Efface
    <2> QED BY <1>2, <1>6, <2>1, <2>2 DEF Demander, EnCours, Envoye
  <1>7. CASE Verrouiller(p)
    <2> DEFINE t == [tx[p] EXCEPT !.etape = "tient"]
    <2>1. /\ t.etape = "tient" /\ t.voie = tx[p].voie
          /\ t.voie \in {"depot", "direct"} => t.signal = tx[p].signal /\ t.lignes = tx[p].lignes
      BY <1>0, <1>7, ChangeEtape DEF Verrouiller, Attend, Etapes
    <2>2. tx' = [tx EXCEPT ![p] = t] /\ tx'[p] = t /\ UNCHANGED base
      BY <1>0, <1>7 DEF Verrouiller
    <2> HIDE DEF t
    <2>3. Lectures(p)'
      BY <2>1, <2>2 DEF Lectures
    <2>4. Envoye(p)'
      BY <2>1, <2>2 DEF Envoye, Lues
    <2> QED BY <1>2, <2>2, <2>3, <2>4
  <1>8. CASE Renoncer(p)
    <2>1. tx' = [tx EXCEPT ![p] = Repos] /\ tx'[p] = Repos /\ UNCHANGED base
      BY <1>0, <1>8 DEF Renoncer
    <2> QED BY <1>0, <1>2, <2>1 DEF EnCours, Envoye
  <1>9. CASE Filtrer(p)
    <2> DEFINE t == [tx[p] EXCEPT !.etape = "filtre", !.gardees = Filtre(tx[p].lignes, barrieres)]
    <2>1. tx[p] \in Ecritures
      BY <1>0, <1>9, Voies DEF Filtrer, Tient
    <2>2. /\ t.etape = "filtre" /\ t.voie = tx[p].voie /\ t.voie \in {"depot", "direct"}
          /\ t.signal = tx[p].signal /\ t.lignes = tx[p].lignes /\ t.gardees = Filtre(tx[p].lignes, barrieres)
      BY <2>1 DEF Ecritures
    <2>3. tx' = [tx EXCEPT ![p] = t] /\ tx'[p] = t /\ UNCHANGED base
      BY <1>0, <1>9 DEF Filtrer
    <2> HIDE DEF t
    <2>4. Lectures(p)'
      <3>1. tx'[p].gardees = Filtre(tx'[p].lignes, barrieres')
        BY <2>2, <2>3 DEF base
      <3> QED BY <2>2, <2>3, <3>1 DEF Lectures
    <2>5. Envoye(p)'
      BY <2>2, <2>3 DEF Envoye, Lues
    <2> QED BY <1>2, <2>3, <2>4, <2>5
  <1>10. CASE Reprendre(p)
    <2> DEFINE n == tx[p].num
               t == Draine("filtre", n, Filtre(file[n].lignes, barrieres))
    <2>1. CASE tx' = [tx EXCEPT ![p] = t]
      <3>1. tx'[p] = t /\ UNCHANGED base
        BY <1>0, <1>10, <2>1 DEF Reprendre
      <3>2. /\ tx'[p].voie = "drain" /\ tx'[p].num = n /\ tx'[p].gardees = Filtre(file[n].lignes, barrieres)
            /\ file' = file /\ barrieres' = barrieres
        BY <3>1 DEF Draine, base
      <3>3. tx'[p].gardees = Filtre(file'[tx'[p].num].lignes, barrieres')
        BY <3>2
      <3>4. Lectures(p)' /\ Envoye(p)'
        BY <3>2, <3>3 DEF Lectures, Envoye
      <3> QED BY <1>2, <2>1, <3>1, <3>4
    <2>2. CASE Rendre(p)
      BY <1>3, <2>2
    <2> QED BY <1>10, <2>1, <2>2 DEF Reprendre
  <1>11. CASE Relever(p)
    <2>1. PICK t : t = Efface("releve", tx[p].sujet, {a \in DOMAIN ancres : PorteCle(ancres[a], tx[p].sujet)},
                              EnFile(tx[p].sujet))
      OBVIOUS
    <2>2. tx' = [tx EXCEPT ![p] = t] /\ tx'[p] = t /\ UNCHANGED base
      BY <1>0, <1>11, <2>1 DEF Relever, EnFile, LignesEnFile
    <2>3. t.voie = "effacement" /\ t.etape = "releve" /\ t.sujet = tx[p].sujet /\ t.enFile = EnFile(tx[p].sujet)
      BY <2>1 DEF Efface
    <2>4. Lectures(p)' /\ Envoye(p)'
      <3> DEFINE s == tx[p].sujet
      <3>1. EnFile(s)' = EnFile(s)
        <4>1. tx'[p].sujet = tx[p].sujet /\ file' = file
          BY <2>2, <2>3 DEF base
        <4> QED BY <4>1 DEF EnFile, LignesEnFile
      <3>2. tx'[p].enFile = EnFile(s)'
        BY <2>2, <2>3, <3>1
      <3> QED BY <2>2, <2>3, <3>2 DEF Lectures, Envoye
    <2> QED BY <1>2, <2>2, <2>4
  <1> QED
    BY <1>3, <1>4, <1>5, <1>6, <1>7, <1>8, <1>9, <1>10, <1>11 DEF Transaction, Deposer, EcrireDirect, Drainer,
       Echouer, Effacer, Couper

-----------------------------------------------------------------------------
(* Where keys come from: nothing is tied to a subject but by a row that names its session *)

Liee(a, s) == \E k \in Lignes : k.session = a /\ PorteCle(k, s)

\* A row is stored under the session it names.
Ecrites == \A l \in DOMAIN enfants : enfants[l] = l.session
\* The keys of a stored session are those of rows of it.
Origines == \A a \in DOMAIN ancres :
  /\ ancres[a].visiteur # Aucun => \E k \in Lignes : k.session = a /\ k.visiteur = ancres[a].visiteur
  /\ ancres[a].identite # Aucun => \E k \in Lignes : k.session = a /\ k.identite = ancres[a].identite
\* A barred session is one of a subject somebody asked to erase.
Barrees == \A a \in Sessions : <<"session", a>> \in barrieres => \E s \in Sujets : Liee(a, s)
\* The erased stay barred.
Durables == effaces \subseteq barrieres /\ (effaces # {} => Mode = "enforce")
Provenance == Ecrites /\ Origines /\ Barrees /\ Durables

\* A subject is a visitor or an identity, never the absent one.
LEMMA SujetTypee ==
  ASSUME NEW s \in Sujets
  PROVE  /\ s = <<s[1], s[2]>> /\ s[2] # Aucun
         /\ s[1] \in {"visitor", "user"}
         /\ \A r : PorteCle(r, s) <=> IF s[1] = "visitor" THEN r.visiteur = s[2] ELSE r.identite = s[2]
  <1>1. \/ s[1] = "visitor" /\ s[2] \in Visiteurs /\ s = <<s[1], s[2]>>
        \/ s[1] = "user" /\ s[2] \in Identites /\ s = <<s[1], s[2]>>
    OBVIOUS
  <1>2. ASSUME NEW r
        PROVE  PorteCle(r, s) <=> IF s[1] = "visitor" THEN r.visiteur = s[2] ELSE r.identite = s[2]
    <2>1. CASE s[1] = "visitor"
      BY <2>1 DEF PorteCle
    <2>2. CASE s[1] = "user"
      BY <2>2 DEF PorteCle
    <2> QED BY <1>1, <2>1, <2>2
  <1> QED BY <1>1, <1>2

LEMMA AncreLiee ==
  ASSUME Origines, NEW s \in Sujets, NEW a \in DOMAIN ancres, PorteCle(ancres[a], s)
  PROVE  Liee(a, s)
  <1>1. CASE s[1] = "visitor"
    BY <1>1, SujetTypee DEF Origines, Liee
  <1>2. CASE s[1] = "user"
    BY <1>2, SujetTypee DEF Origines, Liee
  <1> QED BY <1>1, <1>2, SujetTypee

\* What Fusion makes of one session: its anchor, or the known keys of both.
LEMMA FusionValeurs ==
  ASSUME NEW anc, NEW ls \in SUBSET Lignes, NEW a \in DOMAIN Fusion(anc, ls)
  PROVE  LET f == Fusion(anc, ls)[a]
         IN \/ LignesDeSession(ls, a) = {} /\ a \in DOMAIN anc /\ f = anc[a]
            \/ \E k \in LignesDeSession(ls, a) :
                 IF a \in DOMAIN anc
                 THEN /\ f.visiteur = Coalesce(anc[a].visiteur, k.visiteur)
                      /\ f.identite = Coalesce(anc[a].identite, k.identite)
                 ELSE f.visiteur = k.visiteur /\ f.identite = k.identite
  <1> DEFINE neuves == {l \in ls : l.genre = "session"}
             k == CHOOSE j \in neuves : j.session = a
  <1>1. CASE \E l \in neuves : l.session = a
    <2>1. k \in neuves /\ k.session = a
      BY <1>1
    <2>2. k \in LignesDeSession(ls, a)
      BY <2>1 DEF LignesDeSession
    <2>3. Fusion(anc, ls)[a] = IF a \in DOMAIN anc
                               THEN [visiteur |-> Coalesce(anc[a].visiteur, k.visiteur),
                                     identite |-> Coalesce(anc[a].identite, k.identite)]
                               ELSE Ancre(k)
      BY <1>1 DEF Fusion
    <2> HIDE DEF k
    <2> QED BY <2>2, <2>3 DEF Ancre
  <1>2. CASE ~\E l \in neuves : l.session = a
    BY <1>2 DEF Fusion, LignesDeSession
  <1> QED BY <1>1, <1>2

LEMMA TablesProvenance ==
  ASSUME SansReprise, Donnees, Ecrites, Origines, NEW ls \in SUBSET Lignes, EcrireTables(ls)
  PROVE  Ecrites' /\ Origines'
  <1>1. ancres' = Fusion(ancres, ls) /\ enfants' = Insertion(enfants, ls, ancres')
    BY DEF EcrireTables
  <1>2. Aucun \notin DOMAIN ancres'
    BY EcrireTablesDonnees
  <1>3. ASSUME NEW l \in DOMAIN enfants' PROVE enfants'[l] = l.session
    BY <1>1, <1>2, <1>3 DEF Ecrites, Insertion, SessionEcrite, SansReprise
  <1> DEFINE Connue(a) ==
        /\ ancres'[a].visiteur # Aucun => \E k \in Lignes : k.session = a /\ k.visiteur = ancres'[a].visiteur
        /\ ancres'[a].identite # Aucun => \E k \in Lignes : k.session = a /\ k.identite = ancres'[a].identite
  <1>4. ASSUME NEW a \in DOMAIN ancres' PROVE Connue(a)
    <2>1. CASE a \in DOMAIN ancres /\ ancres'[a] = ancres[a]
      BY <2>1 DEF Origines
    <2>2. ASSUME NEW k \in LignesDeSession(ls, a), a \in DOMAIN ancres,
                 ancres'[a].visiteur = Coalesce(ancres[a].visiteur, k.visiteur),
                 ancres'[a].identite = Coalesce(ancres[a].identite, k.identite)
          PROVE  Connue(a)
      <3>1. k \in Lignes /\ k.session = a
        BY <2>2 DEF LignesDeSession
      <3>2. ancres'[a].visiteur \in {ancres[a].visiteur, k.visiteur} /\ ancres'[a].identite \in {ancres[a].identite, k.identite}
        BY <2>2 DEF Coalesce
      <3> QED BY <2>2, <3>1, <3>2 DEF Origines
    <2>3. ASSUME NEW k \in LignesDeSession(ls, a), ancres'[a].visiteur = k.visiteur, ancres'[a].identite = k.identite
          PROVE  Connue(a)
      BY <2>3 DEF LignesDeSession
    <2> QED BY <1>1, <2>1, <2>2, <2>3, FusionValeurs
  <1> QED BY <1>3, <1>4 DEF Ecrites, Origines

LEMMA RejeuProvenance ==
  ASSUME SansReprise, Donnees, Ecrites, Origines, NEW ls \in SUBSET Lignes, \A l \in ls : l.session \in Sessions,
         EcrireRejeu(ls)
  PROVE  Ecrites' /\ Origines'
  <1> DEFINE inconnues == {l.session : l \in ls} \ DOMAIN ancres
             admises == IF Mode = "enforce" THEN {l \in ls : l.session \notin inconnues} ELSE ls
  <1>1. /\ ancres' = [s \in DOMAIN ancres \cup {l.session : l \in admises} |->
                        IF s \in DOMAIN ancres THEN ancres[s] ELSE [visiteur |-> Aucun, identite |-> Aucun]]
        /\ enfants' = Insertion(enfants, admises, ancres')
    BY DEF EcrireRejeu
  <1>2. Aucun \notin DOMAIN ancres'
    BY EcrireRejeuDonnees
  <1>0. admises \subseteq ls
    OBVIOUS
  <1> HIDE DEF admises
  <1>3. ASSUME NEW l \in DOMAIN enfants' PROVE enfants'[l] = l.session
    BY <1>0, <1>1, <1>2, <1>3 DEF Ecrites, Insertion, SessionEcrite, SansReprise
  <1>4. ASSUME NEW a \in DOMAIN ancres'
        PROVE  ancres'[a] = [visiteur |-> Aucun, identite |-> Aucun] \/ (a \in DOMAIN ancres /\ ancres'[a] = ancres[a])
    BY <1>1
  <1> QED BY <1>3, <1>4 DEF Ecrites, Origines

\* The sessions an erasure targets or bars are tied to its subject.
LEMMA CiblesLiees ==
  ASSUME IInv, Lues, Origines, NEW p \in Procs, Effacer(p)
  PROVE  /\ tx[p].sujet \in Sujets /\ tx[p].stockees \cup tx[p].enFile \subseteq Sessions
         /\ tx[p].stockees = {a \in DOMAIN ancres : PorteCle(ancres[a], tx[p].sujet)}
         /\ tx[p].enFile = EnFile(tx[p].sujet)
         /\ \A a \in tx[p].stockees \cup tx[p].enFile : Liee(a, tx[p].sujet)
  <1>1. tx[p] \in Effacements /\ EnCours(p) /\ tx[p].voie = "effacement" /\ tx[p].etape = "releve"
    BY Voies DEF IInv, Formes, Effacer, EnCours
  <1>2. tx[p].sujet \in Sujets /\ tx[p].stockees \cup tx[p].enFile \subseteq Sessions
    BY <1>1 DEF Effacements
  <1>3. tx[p].stockees = {a \in DOMAIN ancres : PorteCle(ancres[a], tx[p].sujet)}
    BY <1>1 DEF IInv, Promis
  <1>4. tx[p].enFile = EnFile(tx[p].sujet)
    BY <1>1 DEF Lues, Lectures
  <1>5. ASSUME NEW a \in EnFile(tx[p].sujet) PROVE Liee(a, tx[p].sujet)
    <2>1. LignesEnFile \subseteq Lignes
      BY DEF LignesEnFile, IInv, Donnees
    <2> QED BY <2>1 DEF EnFile, Liee
  <1>6. ASSUME NEW a \in tx[p].stockees PROVE Liee(a, tx[p].sujet)
    BY <1>2, <1>3, AncreLiee
  <1> QED BY <1>2, <1>3, <1>4, <1>5, <1>6

LEMMA ProvenancePas ==
  ASSUME SansReprise, IInv, Lues, Provenance, NEW p \in Procs, Transaction(p)
  PROVE  Provenance'
  <1>1. CASE EcrireDirect(p)
    <2>1. tx[p] \in Ecritures
      BY <1>1, Voies DEF IInv, Formes, EcrireDirect, Filtree
    <2>2. tx[p].gardees \in SUBSET Lignes
      BY <2>1 DEF Ecritures
    <2>3. Ecrites' /\ Origines'
      <3>1. CASE tx[p].signal = "rejeu"
        <4>1. \A l \in tx[p].gardees : l.session \in Sessions
          BY <1>1, <3>1 DEF IInv, Rejeux, EcrireDirect, Filtree
        <4>2. EcrireRejeu(tx[p].gardees)
          BY <1>1, <3>1 DEF EcrireDirect
        <4> QED BY <2>2, <4>1, <4>2, RejeuProvenance DEF IInv, Provenance
      <3>2. CASE tx[p].signal # "rejeu"
        <4>1. EcrireTables(tx[p].gardees)
          BY <1>1, <3>2 DEF EcrireDirect
        <4> QED BY <2>2, <4>1, TablesProvenance DEF IInv, Provenance
      <3> QED BY <3>1, <3>2
    <2> QED BY <1>1, <2>3 DEF EcrireDirect, Provenance, Barrees, Durables
  <1>2. CASE Drainer(p)
    <2>1. tx[p] \in Drains
      BY <1>2, Voies DEF IInv, Formes, Drainer, Filtree
    <2>2. tx[p].gardees \in SUBSET Lignes
      BY <2>1 DEF Drains
    <2>3. Ecrites' /\ Origines'
      BY <1>2, <2>2, TablesProvenance DEF IInv, Provenance, Drainer
    <2> QED BY <1>2, <2>3 DEF Drainer, Provenance, Barrees, Durables
  <1>3. CASE Effacer(p)
    <2> DEFINE s == tx[p].sujet
               toutes == tx[p].stockees \cup tx[p].enFile
    <2>1. s \in Sujets /\ toutes \subseteq Sessions /\ \A a \in toutes : Liee(a, s)
      BY <1>3, CiblesLiees DEF Provenance
    <2>2. /\ barrieres' = barrieres \cup IF Mode = "enforce" THEN {s} \cup ({"session"} \X toutes) ELSE {}
          /\ effaces' = effaces \cup IF Mode = "enforce" THEN {s} ELSE {}
      BY <1>3 DEF Effacer
    <2> HIDE DEF s, toutes
    <2>3. Barrees'
      <3> SUFFICES ASSUME NEW a \in Sessions, <<"session", a>> \in barrieres'
          PROVE  \E u \in Sujets : Liee(a, u)
        BY DEF Barrees
      <3>1. <<"session", a>> \in barrieres \/ <<"session", a>> = s \/ a \in toutes
        BY <2>2
      <3>2. <<"session", a>> # s
        BY <2>1, SujetTypee
      <3> QED BY <2>1, <3>1, <3>2 DEF Provenance, Barrees
    <2>4. Durables'
      BY <2>2 DEF Provenance, Durables
    <2>5. Ecrites' /\ Origines'
      <3>1. /\ DOMAIN enfants' \subseteq DOMAIN enfants /\ \A l \in DOMAIN enfants' : enfants'[l] = enfants[l]
            /\ DOMAIN ancres' \subseteq DOMAIN ancres /\ \A a \in DOMAIN ancres' : ancres'[a] = ancres[a]
        BY <1>3 DEF Effacer
      <3> QED BY <3>1 DEF Provenance, Ecrites, Origines
    <2> QED BY <2>3, <2>4, <2>5 DEF Provenance
  <1>4. CASE UNCHANGED <<ancres, enfants, barrieres, effaces>>
    BY <1>4 DEF Provenance, Ecrites, Origines, Barrees, Durables
  <1> QED
    BY <1>1, <1>2, <1>3, <1>4 DEF Transaction, Recevoir, LireCandidat, Demander, Verrouiller, Renoncer,
       Filtrer, Reprendre, Deposer, Echouer, Relever, Couper, base

-----------------------------------------------------------------------------
(* The others keep their rows *)

\* No request concerns the row.
Indifferente(l) == l \in Lignes /\ \A s \in Sujets : l \notin Concernees(s)
Conservee(l) == l \in DOMAIN enfants \cup LignesEnFile \/ (l.genre = "session" /\ l.session \in DOMAIN ancres)

LEMMA IndifferenteSansLien ==
  ASSUME NEW l, Indifferente(l), NEW s \in Sujets
  PROVE  ~PorteCle(l, s) /\ (l.session \in Sessions => ~Liee(l.session, s))
  BY DEF Indifferente, Concernees, Liee

\* The filter keeps them: a barred session is one of a subject.
LEMMA FiltreIndifferentes ==
  ASSUME IInv, Barrees, NEW ls \in SUBSET Lignes, NEW l \in ls, Indifferente(l)
  PROVE  l \in Filtre(ls, barrieres)
  <1>1. ASSUME NEW k \in Lignes, SousCle(k, barrieres)
        PROVE  \E s \in Sujets : PorteCle(k, s)
    <2>1. CASE <<"visitor", k.visiteur>> \in barrieres
      <3>1. <<"visitor", k.visiteur>> \in Sujets
        BY <2>1 DEF IInv, Donnees
      <3> QED BY <3>1, SujetTypee
    <2>2. CASE <<"user", k.identite>> \in barrieres
      <3>1. <<"user", k.identite>> \in Sujets
        BY <2>2 DEF IInv, Donnees
      <3> QED BY <3>1, SujetTypee
    <2> QED BY <1>1, <2>1, <2>2 DEF SousCle
  <1>2. ~SousCle(l, barrieres)
    BY <1>1, IndifferenteSansLien DEF Indifferente
  <1>3. ASSUME l.session \in SessionsRefusees(ls, barrieres)
        PROVE  FALSE
    <2>1. l.session \in Sessions
      BY <1>3 DEF SessionsRefusees
    <2>2. CASE <<"session", l.session>> \in barrieres
      BY <2>1, <2>2, IndifferenteSansLien DEF Barrees
    <2>3. CASE \E k \in ls : k.session = l.session /\ SousCle(k, barrieres)
      <3>1. PICK k \in ls, s \in Sujets : k.session = l.session /\ PorteCle(k, s)
        BY <1>1, <2>3
      <3>2. Liee(l.session, s)
        BY <3>1 DEF Liee
      <3> QED BY <2>1, <3>2, IndifferenteSansLien
    <2> QED BY <1>3, <2>2, <2>3 DEF SessionsRefusees
  <1> QED BY <1>2, <1>3 DEF Filtre

\* A write loses nothing of what is stored, and stores all it is given.
LEMMA TablesConservent ==
  ASSUME NEW ls \in SUBSET Lignes, EcrireTables(ls)
  PROVE  /\ DOMAIN enfants \subseteq DOMAIN enfants' /\ DOMAIN ancres \subseteq DOMAIN ancres'
         /\ \A l \in ls : l \in DOMAIN enfants' \/ (l.genre = "session" /\ l.session \in DOMAIN ancres')
  <1>1. ancres' = Fusion(ancres, ls) /\ enfants' = Insertion(enfants, ls, ancres')
    BY DEF EcrireTables
  <1>2. DOMAIN ancres' = DOMAIN ancres \cup {l.session : l \in {k \in ls : k.genre = "session"}}
    BY <1>1, FusionDomaine
  <1>3. DOMAIN enfants' = DOMAIN enfants \cup {k \in ls : k.genre # "session"}
    BY <1>1 DEF Insertion
  <1> QED BY <1>2, <1>3

LEMMA RejeuConserve ==
  ASSUME NEW ls \in SUBSET Lignes, EcrireRejeu(ls)
  PROVE  /\ DOMAIN enfants \subseteq DOMAIN enfants' /\ DOMAIN ancres \subseteq DOMAIN ancres'
         /\ \A l \in acquittes' \ acquittes : l \in DOMAIN enfants' \/ (l.genre = "session" /\ l.session \in DOMAIN ancres')
  <1> DEFINE inconnues == {l.session : l \in ls} \ DOMAIN ancres
             admises == IF Mode = "enforce" THEN {l \in ls : l.session \notin inconnues} ELSE ls
  <1>1. /\ DOMAIN ancres' = DOMAIN ancres \cup {l.session : l \in admises}
        /\ enfants' = Insertion(enfants, admises, ancres') /\ acquittes' = acquittes \cup admises
    BY DEF EcrireRejeu
  <1> HIDE DEF admises
  <1>2. DOMAIN enfants' = DOMAIN enfants \cup {k \in admises : k.genre # "session"}
    BY <1>1 DEF Insertion
  <1> QED BY <1>1, <1>2

\* What stays in the queue after an erasure: the rows that are neither of its sessions nor keyed.
LEMMA FileFiltreeLignes ==
  ASSUME IInv, NEW cibles, NEW s
  PROVE  LET f == FileFiltree(cibles, s)
             Garde(ls) == {l \in ls : l.session \notin cibles /\ ~PorteCle(l, s)}
         IN /\ \A n \in DOMAIN f : n \in DOMAIN file /\ f[n].lignes = Garde(file[n].lignes)
            /\ \A n \in DOMAIN file : \A l \in Garde(file[n].lignes) : n \in DOMAIN f /\ l \in f[n].lignes
  <1> DEFINE f == FileFiltree(cibles, s)
             Garde(ls) == {l \in ls : l.session \notin cibles /\ ~PorteCle(l, s)}
  <1>1. f = [n \in {k \in DOMAIN file : Garde(file[k].lignes) # {}} |->
               [file[n] EXCEPT !.lignes = Garde(file[n].lignes)]]
    BY DEF FileFiltree
  <1>2. file \in [DOMAIN file -> Lots]
    BY DEF IInv, Formes
  <1> HIDE DEF f, Garde
  <1>3. ASSUME NEW n \in DOMAIN f PROVE n \in DOMAIN file /\ f[n].lignes = Garde(file[n].lignes)
    BY <1>1, <1>2 DEF Lots
  <1>4. ASSUME NEW n \in DOMAIN file, NEW l \in Garde(file[n].lignes)
        PROVE  n \in DOMAIN f /\ l \in f[n].lignes
    BY <1>1, <1>3
  <1> QED BY <1>3, <1>4 DEF f, Garde

LEMMA AutresPas ==
  ASSUME SansReprise, IInv, Lues, Provenance, AutresIntacts, NEW p \in Procs, Transaction(p)
  PROVE  AutresIntacts'
  <1> SUFFICES ASSUME NEW l \in acquittes', Indifferente(l)
      PROVE  Conservee(l)'
    <2> SUFFICES ASSUME NEW l \in acquittes', \A s \in Sujets : l \notin Concernees(s)
        PROVE  Conservee(l)'
      BY DEF AutresIntacts, Conservee
    <2>1. l \in Lignes
      BY NextIInv DEF Next, IInv, Donnees
    <2> QED BY <2>1 DEF Indifferente
  <1>0. l \in acquittes => Conservee(l)
    BY DEF AutresIntacts, Conservee, Indifferente
  <1>1. CASE Deposer(p)
    <2>1. tx[p] \in Ecritures /\ EnCours(p) /\ tx[p].voie = "depot" /\ tx[p].etape = "filtre"
      BY <1>1, Voies DEF IInv, Formes, Deposer, Filtree, EnCours
    <2>2. tx[p].gardees = Filtre(tx[p].lignes, barrieres) /\ tx[p].lignes \in SUBSET Lignes
      BY <2>1 DEF Lues, Lectures, Ecritures
    <2>3. ancres' = ancres /\ enfants' = enfants /\ acquittes' = acquittes \cup tx[p].lignes
      BY <1>1 DEF Deposer
    <2>4. LignesEnFile \subseteq LignesEnFile' /\ tx[p].gardees \subseteq LignesEnFile'
      <3>1. CASE tx[p].gardees = {} /\ file' = file
        BY <3>1 DEF LignesEnFile
      <3>2. CASE file' = [n \in DOMAIN file \cup {depots + 1} |->
                      IF n \in DOMAIN file THEN file[n] ELSE [lignes |-> tx[p].gardees, tentatives |-> 0]]
        <4>1. depots + 1 \notin DOMAIN file
          BY DEF IInv, Donnees
        <4>2. /\ depots + 1 \in DOMAIN file' /\ file'[depots + 1].lignes = tx[p].gardees
              /\ \A n \in DOMAIN file : n \in DOMAIN file' /\ file'[n] = file[n]
          BY <3>2, <4>1
        <4> QED BY <4>2 DEF LignesEnFile
      <3> QED BY <1>1, <3>1, <3>2 DEF Deposer
    <2>5. l \in tx[p].lignes => l \in tx[p].gardees
      BY <2>2, FiltreIndifferentes DEF Provenance
    <2> QED BY <1>0, <2>3, <2>4, <2>5 DEF Conservee
  <1>2. CASE EcrireDirect(p)
    <2>1. tx[p] \in Ecritures /\ EnCours(p) /\ tx[p].voie = "direct" /\ tx[p].etape = "filtre"
      BY <1>2, Voies DEF IInv, Formes, EcrireDirect, Filtree, EnCours
    <2>2. /\ tx[p].gardees = Filtre(tx[p].lignes, barrieres)
          /\ tx[p].lignes \in SUBSET Lignes /\ tx[p].gardees \in SUBSET Lignes
      BY <2>1 DEF Lues, Lectures, Ecritures
    <2>3. LignesEnFile' = LignesEnFile
      BY <1>2 DEF EcrireDirect, LignesEnFile
    <2>4. CASE tx[p].signal = "rejeu"
      <3>1. EcrireRejeu(tx[p].gardees)
        BY <1>2, <2>4 DEF EcrireDirect
      <3> QED BY <1>0, <2>2, <2>3, <3>1, RejeuConserve DEF Conservee
    <2>5. CASE tx[p].signal # "rejeu"
      <3>1. EcrireTables(tx[p].gardees) /\ acquittes' = acquittes \cup tx[p].lignes
        BY <1>2, <2>5 DEF EcrireDirect
      <3>2. l \in tx[p].lignes => l \in tx[p].gardees
        BY <2>2, FiltreIndifferentes DEF Provenance
      <3> QED BY <1>0, <2>2, <2>3, <3>1, <3>2, TablesConservent DEF Conservee
    <2> QED BY <2>4, <2>5
  <1>3. CASE Drainer(p)
    <2>1. tx[p] \in Drains /\ EnCours(p) /\ tx[p].voie = "drain" /\ tx[p].etape = "filtre"
      BY <1>3, Voies DEF IInv, Formes, Drainer, Filtree, EnCours
    <2> DEFINE n == tx[p].num
    <2>2. /\ tx[p].gardees = Filtre(file[n].lignes, barrieres) /\ n \in DOMAIN file
          /\ file[n].lignes \in SUBSET Lignes /\ tx[p].gardees \in SUBSET Lignes
      BY <2>1 DEF Lues, Lectures, Drains, IInv, Promis, Donnees
    <2>3. EcrireTables(tx[p].gardees) /\ acquittes' = acquittes /\ file' = [k \in DOMAIN file \ {n} |-> file[k]]
      BY <1>3 DEF Drainer
    <2>4. l \in file[n].lignes => l \in tx[p].gardees
      BY <2>2, FiltreIndifferentes DEF Provenance
    <2>5. l \in LignesEnFile => l \in LignesEnFile' \/ l \in file[n].lignes
      BY <2>3 DEF LignesEnFile
    <2> QED BY <1>0, <2>2, <2>3, <2>4, <2>5, TablesConservent DEF Conservee
  <1>4. CASE Echouer(p)
    <2>1. tx[p] \in Drains /\ EnCours(p) /\ tx[p].voie = "drain" /\ tx[p].etape = "filtre"
      BY <1>4, Voies DEF IInv, Formes, Echouer, Filtree, EnCours
    <2>2. file \in [DOMAIN file -> Lots] /\ tx[p].num \in DOMAIN file
      BY <2>1 DEF IInv, Formes, Promis
    <2>3. DOMAIN file' = DOMAIN file /\ \A n \in DOMAIN file : file'[n].lignes = file[n].lignes
      BY <1>4, <2>2 DEF Echouer, Lots
    <2>4. LignesEnFile' = LignesEnFile
      BY <2>3 DEF LignesEnFile
    <2> QED BY <1>0, <1>4, <2>4 DEF Echouer, Conservee
  <1>5. CASE Effacer(p)
    <2> DEFINE s == tx[p].sujet
               toutes == tx[p].stockees \cup tx[p].enFile
               cibles == IF s[1] = "user" THEN toutes ELSE tx[p].stockees
    <2>1. /\ s \in Sujets /\ toutes \subseteq Sessions /\ \A a \in toutes : Liee(a, s)
          /\ tx[p].stockees = {a \in DOMAIN ancres : PorteCle(ancres[a], s)}
      BY <1>5, CiblesLiees DEF Provenance
    <2>2. /\ file' = FileFiltree(cibles, s) /\ acquittes' = acquittes
          /\ enfants' = [k \in DOMAIN enfants \ AEffacer(cibles, s) |-> enfants[k]]
          /\ ancres' = [a \in {k \in DOMAIN ancres : ~PorteCle(ancres[k], s)} |-> ancres[a]]
      BY <1>5 DEF Effacer
    <2>3. cibles \subseteq toutes
      OBVIOUS
    <2>4. ~PorteCle(l, s) /\ l.session \notin cibles
      BY <2>1, <2>3, IndifferenteSansLien
    <2> HIDE DEF s, toutes, cibles
    <2>5. l \in LignesEnFile => l \in LignesEnFile'
      BY <2>2, <2>4, FileFiltreeLignes DEF LignesEnFile
    <2>6. l \in DOMAIN enfants => l \in DOMAIN enfants'
      <3>1. l \in DOMAIN enfants => enfants[l] = l.session
        BY DEF Provenance, Ecrites
      <3> QED BY <2>2, <2>4, <3>1 DEF AEffacer
    <2>7. l.session \in DOMAIN ancres => l.session \in DOMAIN ancres'
      <3>1. l.session \in DOMAIN ancres => l.session \in Sessions
        BY DEF IInv, Donnees
      <3>2. l.session \in DOMAIN ancres => ~PorteCle(ancres[l.session], s)
        BY <2>1, <3>1, AncreLiee, IndifferenteSansLien DEF Provenance
      <3> QED BY <2>2, <3>2
    <2> QED BY <1>0, <2>2, <2>5, <2>6, <2>7 DEF Conservee
  <1>6. CASE UNCHANGED <<ancres, enfants, file, acquittes>>
    BY <1>0, <1>6 DEF Conservee, LignesEnFile
  <1> QED
    BY <1>1, <1>2, <1>3, <1>4, <1>5, <1>6 DEF Transaction, Recevoir, LireCandidat, Demander, Verrouiller,
       Renoncer, Filtrer, Reprendre, Relever, Couper, base

LEMMA Repetition ==
  ASSUME Lues, Provenance, UNCHANGED vars
  PROVE  Lues' /\ Provenance'
  <1>1. ASSUME NEW p \in Procs PROVE (EnCours(p)' => Lectures(p)') /\ Envoye(p)'
    BY DEF Lues, EnCours, Lectures, Envoye, EnFile, LignesEnFile, vars
  <1>2. Provenance'
    BY DEF Provenance, Ecrites, Origines, Barrees, Durables, vars
  <1> QED BY <1>1, <1>2 DEF Lues

\* Of a mixed batch the others keep their rows: what the server answered for and no request concerns
\* is stored, or waits in the queue, when no row claims another session.
THEOREM OthersKept ==
  ASSUME SansReprise
  PROVE  Spec => []AutresIntacts
  <1> DEFINE Inv == IInv /\ Lues /\ Provenance /\ AutresIntacts
  <1>1. Init => Inv
    <2> SUFFICES ASSUME Init PROVE Lues /\ Provenance /\ AutresIntacts
      BY InitIInv
    <2>1. \A p \in Procs : tx[p] = Repos /\ Repos.voie = "repos"
      BY DEF Init, Repos
    <2>2. Lues
      BY <2>1 DEF Lues, EnCours, Envoye
    <2>3. Provenance /\ AutresIntacts
      BY DEF Init, Provenance, Ecrites, Origines, Barrees, Durables, AutresIntacts
    <2> QED BY <2>2, <2>3
  <1>2. Inv /\ [Next]_vars => Inv'
    <2> SUFFICES ASSUME Inv, [Next]_vars PROVE Inv'
      OBVIOUS
    <2>1. IInv'
      BY NextIInv
    <2>2. CASE UNCHANGED vars
      <3>1. Lues' /\ Provenance'
        BY <2>2, Repetition
      <3>2. AutresIntacts'
        BY <2>2 DEF AutresIntacts, LignesEnFile, vars
      <3> QED BY <2>1, <3>1, <3>2
    <2>3. ASSUME NEW p \in Procs, Transaction(p) PROVE Inv'
      BY <2>1, <2>3, LuesPas, ProvenancePas, AutresPas
    <2> QED BY <2>2, <2>3 DEF Next
  <1>3. Inv => AutresIntacts
    OBVIOUS
  <1> QED BY <1>1, <1>2, <1>3, PTL DEF Spec

-----------------------------------------------------------------------------
(* Nothing of the subject is left *)

\* Every stored row with a key is an error without session, or is under an anchor that has the key.
Rattachees == \A l \in DOMAIN enfants :
  SansCle(l) \/ Isolee(l) \/ (l.session \in DOMAIN ancres /\ Porte(ancres[l.session], l))
\* Every queued row with a key has the line of its session beside it, or its session is barred: an
\* erasure took the line and left the row, which the drain will refuse.
EnAttente == \A n \in DOMAIN file : \A l \in file[n].lignes :
  \/ l.genre = "session" \/ SansCle(l) \/ Isolee(l)
  \/ <<"session", l.session>> \in barrieres
  \/ Menee(l, file[n].lignes)
Protegees == Mode = "enforce" => Rattachees /\ EnAttente

\* What may be written: no row with a key without the line of its session.
Complete(ls) == \A l \in ls : l.genre = "session" \/ SansCle(l) \/ Isolee(l) \/ Menee(l, ls)

\* The filter takes a session as a whole: rows that stay keep the line of their session.
LEMMA FiltreMene ==
  ASSUME NEW ls \in SUBSET Lignes, NEW b, NEW l \in Filtre(ls, b), Menee(l, ls)
  PROVE  Menee(l, Filtre(ls, b))
  <1>1. l.session \in Sessions
    BY LigneTypee DEF Menee, LignesDeSession
  <1>2. l.session \notin SessionsRefusees(ls, b)
    BY DEF Filtre
  <1>3. ASSUME NEW k \in ls, k.session = l.session PROVE k \in Filtre(ls, b)
    BY <1>1, <1>2, <1>3 DEF Filtre, SessionsRefusees
  <1>4. LignesDeSession(Filtre(ls, b), l.session) = LignesDeSession(ls, l.session)
    BY <1>3 DEF LignesDeSession, Filtre
  <1> QED BY <1>4 DEF Menee

\* A transaction that has filtered holds a complete batch.
LEMMA GardeesCompletes ==
  ASSUME Accompagnees, IInv, Lues, EnAttente, NEW p \in Procs, EnCours(p), tx[p].etape = "filtre",
         tx[p].voie \in {"depot", "direct", "drain"}
  PROVE  Complete(tx[p].gardees)
  <1>1. CASE tx[p].voie \in {"depot", "direct"}
    <2>1. PICK x \in Signaux : tx[p].lignes = x.lignes
      BY <1>1 DEF Lues, Envoye
    <2>2. x.lignes \in SUBSET Lignes
      BY DEF Lignes
    <2>3. tx[p].gardees = Filtre(x.lignes, barrieres)
      BY <1>1, <2>1 DEF Lues, Lectures
    <2>4. \A l \in Filtre(x.lignes, barrieres) : l \in x.lignes
      BY DEF Filtre
    <2>5. ASSUME NEW l \in Filtre(x.lignes, barrieres)
          PROVE  l.genre = "session" \/ SansCle(l) \/ Isolee(l) \/ Menee(l, Filtre(x.lignes, barrieres))
      <3>1. l.genre = "session" \/ SansCle(l) \/ Isolee(l) \/ Menee(l, x.lignes)
        BY <2>4 DEF Accompagnees
      <3> QED BY <2>2, <3>1, FiltreMene
    <2> QED BY <2>3, <2>5 DEF Complete
  <1>2. CASE tx[p].voie = "drain"
    <2> DEFINE ls == file[tx[p].num].lignes
    <2>1. tx[p].num \in DOMAIN file /\ ls \in SUBSET Lignes
      BY <1>2 DEF IInv, Promis, Donnees
    <2>2. tx[p].gardees = Filtre(ls, barrieres) /\ \A l \in tx[p].gardees : l \in ls /\ <<"session", l.session>> \notin barrieres
      BY <1>2, <2>1 DEF Lues, Lectures, IInv, Promis, Admise, Filtre
    <2>3. ASSUME NEW l \in Filtre(ls, barrieres)
          PROVE  l.genre = "session" \/ SansCle(l) \/ Isolee(l) \/ Menee(l, Filtre(ls, barrieres))
      <3>1. l.genre = "session" \/ SansCle(l) \/ Isolee(l) \/ Menee(l, ls)
        BY <2>1, <2>2 DEF EnAttente
      <3> QED BY <2>1, <3>1, FiltreMene
    <2> QED BY <2>2, <2>3 DEF Complete
  <1> QED BY <1>1, <1>2

\* Known keys stay, and the line of a session brings those of its rows.
LEMMA TablesRattachees ==
  ASSUME SansReprise, UnSujet, Donnees, Origines, Rattachees, NEW ls \in SUBSET Lignes, EcrireTables(ls), Complete(ls)
  PROVE  Rattachees'
  <1>1. ancres' = Fusion(ancres, ls) /\ enfants' = Insertion(enfants, ls, ancres')
    BY DEF EcrireTables
  <1>2. DOMAIN ancres' = DOMAIN ancres \cup {l.session : l \in {k \in ls : k.genre = "session"}}
    BY <1>1, FusionDomaine
  <1> SUFFICES ASSUME NEW l \in DOMAIN enfants', ~SansCle(l), ~Isolee(l)
      PROVE  l.session \in DOMAIN ancres' /\ Porte(ancres'[l.session], l)
    BY DEF Rattachees
  <1> DEFINE a == l.session
  <1>3. \/ a \in DOMAIN ancres /\ Porte(ancres[a], l)
        \/ Menee(l, ls)
    BY <1>1 DEF Insertion, Complete, Rattachees
  <1>4. a \in DOMAIN ancres'
    BY <1>2, <1>3 DEF Menee, LignesDeSession
  <1>5. CASE a \in DOMAIN ancres /\ Porte(ancres[a], l)
    BY <1>1, <1>4, <1>5, FusionValeurs DEF Porte, Coalesce
  <1>6. CASE Menee(l, ls)
    <2>1. PICK k \in LignesDeSession(ls, a) :
                 IF a \in DOMAIN ancres
                 THEN /\ ancres'[a].visiteur = Coalesce(ancres[a].visiteur, k.visiteur)
                      /\ ancres'[a].identite = Coalesce(ancres[a].identite, k.identite)
                 ELSE ancres'[a].visiteur = k.visiteur /\ ancres'[a].identite = k.identite
      BY <1>1, <1>4, <1>6, FusionValeurs DEF Menee
    <2>2. k \in Lignes /\ k.session = a /\ a \in Sessions /\ Porte(k, l)
      BY <1>6, LigneTypee DEF Menee, LignesDeSession
    <2>3. a \in DOMAIN ancres =>
            /\ ancres[a].visiteur # Aucun /\ k.visiteur # Aucun => ancres[a].visiteur = k.visiteur
            /\ ancres[a].identite # Aucun /\ k.identite # Aucun => ancres[a].identite = k.identite
      <3>1. a # Aucun
        BY <2>2
      <3>2. ASSUME NEW j \in Lignes, j.session = a
            PROVE  /\ j.visiteur # Aucun /\ k.visiteur # Aucun => j.visiteur = k.visiteur
                   /\ j.identite # Aucun /\ k.identite # Aucun => j.identite = k.identite
        BY <2>2, <3>1, <3>2 DEF UnSujet
      <3> QED BY <3>2 DEF Origines
    <2> QED BY <1>4, <2>1, <2>2, <2>3 DEF Porte, Coalesce
  <1> QED BY <1>3, <1>5, <1>6

\* A replay has no key.
LEMMA RejeuRattachees ==
  ASSUME SansReprise, Donnees, Rattachees, NEW ls \in SUBSET Lignes, \A l \in ls : SansCle(l), EcrireRejeu(ls)
  PROVE  Rattachees'
  <1> DEFINE inconnues == {l.session : l \in ls} \ DOMAIN ancres
             admises == IF Mode = "enforce" THEN {l \in ls : l.session \notin inconnues} ELSE ls
  <1>1. /\ ancres' = [s \in DOMAIN ancres \cup {l.session : l \in admises} |->
                        IF s \in DOMAIN ancres THEN ancres[s] ELSE [visiteur |-> Aucun, identite |-> Aucun]]
        /\ enfants' = Insertion(enfants, admises, ancres')
    BY DEF EcrireRejeu
  <1>2. admises \subseteq ls
    OBVIOUS
  <1> HIDE DEF admises
  <1>3. \A l \in DOMAIN enfants' : l \in DOMAIN enfants \/ SansCle(l)
    BY <1>1, <1>2 DEF Insertion
  <1>4. \A a \in DOMAIN ancres : a \in DOMAIN ancres' /\ ancres'[a] = ancres[a]
    BY <1>1
  <1> QED BY <1>3, <1>4 DEF Rattachees

\* What a write may put in the tables: keys that were there, or those of the rows written.
LEMMA TablesCles ==
  ASSUME NEW ls \in SUBSET Lignes, EcrireTables(ls), NEW s \in Sujets, \A l \in ls : ~PorteCle(l, s),
         \A a \in DOMAIN ancres : ~PorteCle(ancres[a], s), \A l \in DOMAIN enfants : ~PorteCle(l, s)
  PROVE  (\A a \in DOMAIN ancres' : ~PorteCle(ancres'[a], s)) /\ \A l \in DOMAIN enfants' : ~PorteCle(l, s)
  <1>1. ancres' = Fusion(ancres, ls) /\ enfants' = Insertion(enfants, ls, ancres')
    BY DEF EcrireTables
  <1>2. \A l \in DOMAIN enfants' : ~PorteCle(l, s)
    BY <1>1 DEF Insertion
  <1>3. ASSUME NEW a \in DOMAIN ancres' PROVE ~PorteCle(ancres'[a], s)
    <2>1. CASE a \in DOMAIN ancres /\ ancres'[a] = ancres[a]
      BY <2>1
    <2>2. ASSUME NEW k \in LignesDeSession(ls, a), a \in DOMAIN ancres,
                 ancres'[a].visiteur = Coalesce(ancres[a].visiteur, k.visiteur),
                 ancres'[a].identite = Coalesce(ancres[a].identite, k.identite)
          PROVE  ~PorteCle(ancres'[a], s)
      BY <2>2, SujetTypee DEF LignesDeSession, Coalesce
    <2>3. ASSUME NEW k \in LignesDeSession(ls, a), ancres'[a].visiteur = k.visiteur, ancres'[a].identite = k.identite
          PROVE  ~PorteCle(ancres'[a], s)
      BY <2>3, SujetTypee DEF LignesDeSession
    <2> QED BY <1>1, <2>1, <2>2, <2>3, FusionValeurs
  <1> QED BY <1>2, <1>3

LEMMA RejeuCles ==
  ASSUME NEW ls \in SUBSET Lignes, EcrireRejeu(ls), NEW s \in Sujets, \A l \in ls : ~PorteCle(l, s),
         \A a \in DOMAIN ancres : ~PorteCle(ancres[a], s), \A l \in DOMAIN enfants : ~PorteCle(l, s)
  PROVE  (\A a \in DOMAIN ancres' : ~PorteCle(ancres'[a], s)) /\ \A l \in DOMAIN enfants' : ~PorteCle(l, s)
  <1> DEFINE inconnues == {l.session : l \in ls} \ DOMAIN ancres
             admises == IF Mode = "enforce" THEN {l \in ls : l.session \notin inconnues} ELSE ls
             neuve == [visiteur |-> Aucun, identite |-> Aucun]
  <1>1. /\ ancres' = [a \in DOMAIN ancres \cup {l.session : l \in admises} |->
                        IF a \in DOMAIN ancres THEN ancres[a] ELSE neuve]
        /\ enfants' = Insertion(enfants, admises, ancres')
    BY DEF EcrireRejeu
  <1>2. admises \subseteq ls /\ ~PorteCle(neuve, s)
    BY SujetTypee
  <1> HIDE DEF admises, neuve
  <1> QED BY <1>1, <1>2 DEF Insertion

LEMMA ProtegeesPas ==
  ASSUME SansReprise, Accompagnees, UnSujet, IInv, Lues, Provenance, Protegees, NEW p \in Procs, Transaction(p)
  PROVE  Protegees'
  <1> SUFFICES ASSUME Mode = "enforce", Rattachees, EnAttente
      PROVE  Rattachees' /\ EnAttente'
    BY DEF Protegees
  <1>1. CASE Deposer(p)
    <2>1. tx[p] \in Ecritures /\ EnCours(p) /\ tx[p].voie = "depot" /\ tx[p].etape = "filtre"
      BY <1>1, Voies DEF IInv, Formes, Deposer, Filtree, EnCours
    <2>2. Complete(tx[p].gardees)
      BY <2>1, GardeesCompletes
    <2>3. ancres' = ancres /\ enfants' = enfants /\ barrieres' = barrieres
      BY <1>1 DEF Deposer
    <2>4. \A n \in DOMAIN file' : (n \in DOMAIN file /\ file'[n] = file[n]) \/ file'[n].lignes = tx[p].gardees
      <3>1. CASE file' = file
        BY <3>1
      <3>2. CASE file' = [n \in DOMAIN file \cup {depots + 1} |->
                      IF n \in DOMAIN file THEN file[n] ELSE [lignes |-> tx[p].gardees, tentatives |-> 0]]
        BY <3>2
      <3> QED BY <1>1, <3>1, <3>2 DEF Deposer
    <2>5. Rattachees'
      BY <2>3 DEF Rattachees
    <2>6. ASSUME NEW n \in DOMAIN file', NEW l \in file'[n].lignes
          PROVE  \/ l.genre = "session" \/ SansCle(l) \/ Isolee(l)
                 \/ <<"session", l.session>> \in barrieres'
                 \/ Menee(l, file'[n].lignes)
      BY <2>2, <2>3, <2>4 DEF EnAttente, Complete
    <2> QED BY <2>5, <2>6 DEF EnAttente
  <1>2. CASE EcrireDirect(p)
    <2>1. tx[p] \in Ecritures /\ EnCours(p) /\ tx[p].voie = "direct" /\ tx[p].etape = "filtre"
      BY <1>2, Voies DEF IInv, Formes, EcrireDirect, Filtree, EnCours
    <2>2. tx[p].gardees \in SUBSET Lignes
      BY <2>1 DEF Ecritures
    <2>3. EnAttente'
      BY <1>2 DEF EnAttente, EcrireDirect
    <2>4. CASE tx[p].signal = "rejeu"
      <3>1. PICK x \in Signaux : tx[p].lignes = x.lignes /\ x.signal = "rejeu"
        BY <2>1, <2>4 DEF Lues, Envoye
      <3>2. \A l \in tx[p].gardees : SansCle(l)
        BY <2>1, <3>1 DEF Lues, Lectures, Filtre, SansCle
      <3>3. EcrireRejeu(tx[p].gardees)
        BY <1>2, <2>4 DEF EcrireDirect
      <3>4. Rattachees'
        BY <2>2, <3>2, <3>3, RejeuRattachees DEF IInv
      <3> QED BY <2>3, <3>4
    <2>5. CASE tx[p].signal # "rejeu"
      <3>1. EcrireTables(tx[p].gardees)
        BY <1>2, <2>5 DEF EcrireDirect
      <3>2. Rattachees'
        BY <2>1, <2>2, <3>1, GardeesCompletes, TablesRattachees DEF IInv, Provenance
      <3> QED BY <2>3, <3>2
    <2> QED BY <2>4, <2>5
  <1>3. CASE Drainer(p)
    <2>1. tx[p] \in Drains /\ EnCours(p) /\ tx[p].voie = "drain" /\ tx[p].etape = "filtre"
      BY <1>3, Voies DEF IInv, Formes, Drainer, Filtree, EnCours
    <2>2. tx[p].gardees \in SUBSET Lignes
      BY <2>1 DEF Drains
    <2>3. EcrireTables(tx[p].gardees) /\ barrieres' = barrieres /\ file' = [k \in DOMAIN file \ {tx[p].num} |-> file[k]]
      BY <1>3 DEF Drainer
    <2>4. Rattachees'
      BY <2>1, <2>2, <2>3, GardeesCompletes, TablesRattachees DEF IInv, Provenance
    <2>5. \A n \in DOMAIN file' : n \in DOMAIN file /\ file'[n] = file[n]
      BY <2>3
    <2>6. EnAttente'
      BY <2>3, <2>5 DEF EnAttente
    <2> QED BY <2>4, <2>6
  <1>4. CASE Echouer(p)
    <2>1. tx[p] \in Drains /\ EnCours(p) /\ tx[p].voie = "drain" /\ tx[p].etape = "filtre"
      BY <1>4, Voies DEF IInv, Formes, Echouer, Filtree, EnCours
    <2>2. file \in [DOMAIN file -> Lots] /\ tx[p].num \in DOMAIN file
      BY <2>1 DEF IInv, Formes, Promis
    <2>3. DOMAIN file' = DOMAIN file /\ \A n \in DOMAIN file : file'[n].lignes = file[n].lignes
      BY <1>4, <2>2 DEF Echouer, Lots
    <2>4. UNCHANGED <<barrieres, ancres, enfants>>
      BY <1>4 DEF Echouer
    <2> QED BY <2>3, <2>4 DEF Rattachees, EnAttente
  <1>5. CASE Effacer(p)
    <2> DEFINE s == tx[p].sujet
               toutes == tx[p].stockees \cup tx[p].enFile
               cibles == IF s[1] = "user" THEN toutes ELSE tx[p].stockees
               Garde(ls) == {l \in ls : l.session \notin cibles /\ ~PorteCle(l, s)}
    <2>1. /\ s \in Sujets /\ toutes \subseteq Sessions /\ EnFile(s) \subseteq toutes
          /\ tx[p].stockees = {a \in DOMAIN ancres : PorteCle(ancres[a], s)}
      BY <1>5, CiblesLiees DEF Provenance
    <2>2. /\ file' = FileFiltree(cibles, s)
          /\ enfants' = [k \in DOMAIN enfants \ AEffacer(cibles, s) |-> enfants[k]]
          /\ ancres' = [a \in {k \in DOMAIN ancres : ~PorteCle(ancres[k], s)} |-> ancres[a]]
          /\ barrieres' = barrieres \cup {s} \cup ({"session"} \X toutes)
      BY <1>5 DEF Effacer
    <2>3. tx[p].stockees \subseteq cibles
      OBVIOUS
    <2>4. \A n \in DOMAIN file' : n \in DOMAIN file /\ file'[n].lignes = Garde(file[n].lignes)
      BY <2>2, FileFiltreeLignes
    <2> HIDE DEF s, toutes, cibles, Garde
    <2>5. Rattachees'
      <3> SUFFICES ASSUME NEW l \in DOMAIN enfants', ~SansCle(l), ~Isolee(l)
          PROVE  l.session \in DOMAIN ancres' /\ Porte(ancres'[l.session], l)
        BY DEF Rattachees
      <3>1. l \in DOMAIN enfants /\ enfants[l] = l.session /\ enfants[l] \notin cibles
        BY <2>2 DEF AEffacer, Provenance, Ecrites
      <3>2. l.session \in DOMAIN ancres /\ Porte(ancres[l.session], l)
        BY <3>1 DEF Rattachees
      <3> QED BY <2>1, <2>2, <2>3, <3>1, <3>2
    <2>6. ASSUME NEW n \in DOMAIN file', NEW l \in file'[n].lignes
          PROVE  \/ l.genre = "session" \/ SansCle(l) \/ Isolee(l)
                 \/ <<"session", l.session>> \in barrieres'
                 \/ Menee(l, file'[n].lignes)
      <3>1. n \in DOMAIN file /\ file'[n].lignes = Garde(file[n].lignes)
        BY <2>4
      <3>2. l \in file[n].lignes /\ l.session \notin cibles
        BY <3>1 DEF Garde
      <3>3. CASE Menee(l, file[n].lignes)
        <4>1. CASE \E k \in LignesDeSession(file[n].lignes, l.session) : PorteCle(k, s)
          <5>1. l.session \in EnFile(s)
            BY <3>1, <4>1 DEF EnFile, LignesEnFile, LignesDeSession
          <5> QED BY <2>1, <2>2, <5>1
        <4>2. CASE \A k \in LignesDeSession(file[n].lignes, l.session) : ~PorteCle(k, s)
          <5>1. LignesDeSession(Garde(file[n].lignes), l.session) = LignesDeSession(file[n].lignes, l.session)
            BY <3>2, <4>2 DEF LignesDeSession, Garde
          <5> QED BY <3>1, <3>3, <5>1 DEF Menee
        <4> QED BY <4>1, <4>2
      <3> QED BY <2>2, <3>1, <3>2, <3>3 DEF EnAttente
    <2> QED BY <2>5, <2>6 DEF EnAttente
  <1>6. CASE UNCHANGED <<ancres, enfants, file, barrieres>>
    BY <1>6 DEF Rattachees, EnAttente
  <1> QED
    BY <1>1, <1>2, <1>3, <1>4, <1>5, <1>6 DEF Transaction, Recevoir, LireCandidat, Demander, Verrouiller,
       Renoncer, Filtrer, Reprendre, Relever, Couper, base

\* Where a subject is left.
Absent(s) == (\A a \in DOMAIN ancres : ~PorteCle(ancres[a], s)) /\ \A l \in DOMAIN enfants \cup LignesEnFile : ~PorteCle(l, s)

\* A row with the key of a subject under a barrier is under it.
LEMMA SujetBarre ==
  ASSUME NEW b, NEW s \in Sujets, s \in b, NEW l, ~SousCle(l, b)
  PROVE  ~PorteCle(l, s)
  <1>1. CASE s[1] = "visitor"
    BY <1>1, SujetTypee DEF SousCle
  <1>2. CASE s[1] = "user"
    BY <1>2, SujetTypee DEF SousCle
  <1> QED BY <1>1, <1>2, SujetTypee

\* An erasure leaves nothing of its subject.
LEMMA EffacerVide ==
  ASSUME IInv, Lues, Provenance, Rattachees, NEW p \in Procs, Effacer(p), NEW s, s = tx[p].sujet
  PROVE  Absent(s)'
  <1> DEFINE toutes == tx[p].stockees \cup tx[p].enFile
             cibles == IF s[1] = "user" THEN toutes ELSE tx[p].stockees
             Garde(ls) == {l \in ls : l.session \notin cibles /\ ~PorteCle(l, s)}
  <1>1. /\ s \in Sujets /\ toutes \subseteq Sessions
        /\ tx[p].stockees = {a \in DOMAIN ancres : PorteCle(ancres[a], s)}
    BY CiblesLiees DEF Provenance
  <1>2. /\ file' = FileFiltree(cibles, s)
        /\ enfants' = [k \in DOMAIN enfants \ AEffacer(cibles, s) |-> enfants[k]]
        /\ ancres' = [a \in {k \in DOMAIN ancres : ~PorteCle(ancres[k], s)} |-> ancres[a]]
    BY DEF Effacer
  <1>3. tx[p].stockees \subseteq cibles
    OBVIOUS
  <1>4. \A n \in DOMAIN file' : file'[n].lignes = Garde(file[n].lignes)
    BY <1>2, FileFiltreeLignes
  <1>5. \A n \in DOMAIN file' : \A l \in file'[n].lignes : ~PorteCle(l, s)
    BY <1>4
  <1>6. \A a \in DOMAIN ancres' : ~PorteCle(ancres'[a], s)
    BY <1>2
  <1> HIDE DEF toutes, cibles, Garde
  <1>7. ASSUME NEW l \in DOMAIN enfants', PorteCle(l, s)
        PROVE  FALSE
    <2>1. /\ l \in DOMAIN enfants /\ enfants[l] = l.session /\ enfants[l] \notin cibles
          /\ ~(s[1] = "user" /\ l.genre = "erreur" /\ enfants[l] = Aucun)
      BY <1>2, <1>7 DEF AEffacer, Provenance, Ecrites
    <2>2. ~SansCle(l)
      BY <1>1, <1>7, SujetTypee DEF SansCle
    <2>3. ~Isolee(l)
      BY <1>1, <1>7, <2>1, SujetTypee DEF Isolee
    <2>4. l.session \in DOMAIN ancres /\ Porte(ancres[l.session], l)
      BY <2>1, <2>2, <2>3 DEF Rattachees
    <2>5. PorteCle(ancres[l.session], s)
      BY <1>1, <1>7, <2>4, SujetTypee DEF Porte
    <2> QED BY <1>1, <1>3, <2>1, <2>4, <2>5
  <1> QED BY <1>5, <1>6, <1>7 DEF Absent, LignesEnFile

LEMMA SujetPas ==
  ASSUME IInv, Lues, Provenance, Protegees, RienDuSujet, NEW p \in Procs, Transaction(p)
  PROVE  RienDuSujet'
  <1> SUFFICES ASSUME NEW s \in effaces'
      PROVE  Absent(s)'
    BY DEF RienDuSujet, Absent
  <1>1. CASE s \in effaces
    <2>1. s \in Sujets /\ s \in barrieres /\ Absent(s)
      BY <1>1 DEF RienDuSujet, Absent, IInv, Donnees, Provenance, Durables
    <2>2. CASE Deposer(p)
      <3>1. tx[p] \in Ecritures /\ EnCours(p) /\ tx[p].voie = "depot" /\ tx[p].etape = "filtre"
        BY <2>2, Voies DEF IInv, Formes, Deposer, Filtree, EnCours
      <3>2. \A l \in tx[p].gardees : ~PorteCle(l, s)
        BY <2>1, <3>1, SujetBarre DEF IInv, Promis, Admise
      <3>3. ancres' = ancres /\ enfants' = enfants
        BY <2>2 DEF Deposer
      <3>4. LignesEnFile' \subseteq LignesEnFile \cup tx[p].gardees
        BY <2>2 DEF Deposer, LignesEnFile
      <3> QED BY <2>1, <3>2, <3>3, <3>4 DEF Absent
    <2>3. CASE EcrireDirect(p)
      <3>1. tx[p] \in Ecritures /\ EnCours(p) /\ tx[p].voie = "direct" /\ tx[p].etape = "filtre"
        BY <2>3, Voies DEF IInv, Formes, EcrireDirect, Filtree, EnCours
      <3>2. tx[p].gardees \in SUBSET Lignes /\ \A l \in tx[p].gardees : ~PorteCle(l, s)
        BY <2>1, <3>1, SujetBarre DEF IInv, Promis, Admise, Ecritures
      <3>3. LignesEnFile' = LignesEnFile /\ (EcrireTables(tx[p].gardees) \/ EcrireRejeu(tx[p].gardees))
        BY <2>3 DEF EcrireDirect, LignesEnFile
      <3> QED BY <2>1, <3>2, <3>3, TablesCles, RejeuCles DEF Absent
    <2>4. CASE Drainer(p)
      <3>1. tx[p] \in Drains /\ EnCours(p) /\ tx[p].voie = "drain" /\ tx[p].etape = "filtre"
        BY <2>4, Voies DEF IInv, Formes, Drainer, Filtree, EnCours
      <3>2. tx[p].gardees \in SUBSET Lignes /\ \A l \in tx[p].gardees : ~PorteCle(l, s)
        BY <2>1, <3>1, SujetBarre DEF IInv, Promis, Admise, Drains
      <3>3. LignesEnFile' \subseteq LignesEnFile /\ EcrireTables(tx[p].gardees)
        <4>1. \A n \in DOMAIN file' : n \in DOMAIN file /\ file'[n] = file[n]
          BY <2>4 DEF Drainer
        <4>2. LignesEnFile' \subseteq LignesEnFile
          BY <4>1 DEF LignesEnFile
        <4> QED BY <2>4, <4>2 DEF Drainer
      <3> QED BY <2>1, <3>2, <3>3, TablesCles DEF Absent
    <2>5. CASE Echouer(p)
      <3>1. tx[p] \in Drains /\ EnCours(p) /\ tx[p].voie = "drain" /\ tx[p].etape = "filtre"
        BY <2>5, Voies DEF IInv, Formes, Echouer, Filtree, EnCours
      <3>2. file \in [DOMAIN file -> Lots] /\ tx[p].num \in DOMAIN file
        BY <3>1 DEF IInv, Formes, Promis
      <3>3. DOMAIN file' = DOMAIN file /\ \A n \in DOMAIN file : file'[n].lignes = file[n].lignes
        BY <2>5, <3>2 DEF Echouer, Lots
      <3>4. LignesEnFile' = LignesEnFile /\ ancres' = ancres /\ enfants' = enfants
        BY <2>5, <3>3 DEF LignesEnFile, Echouer
      <3> QED BY <2>1, <3>4 DEF Absent
    <2>6. CASE Effacer(p)
      <3> DEFINE toutes == tx[p].stockees \cup tx[p].enFile
                 cibles == IF tx[p].sujet[1] = "user" THEN toutes ELSE tx[p].stockees
      <3>1. file' = FileFiltree(cibles, tx[p].sujet)
        BY <2>6 DEF Effacer
      <3> HIDE DEF cibles
      <3>2. \A n \in DOMAIN file' : n \in DOMAIN file /\ file'[n].lignes \subseteq file[n].lignes
        BY <3>1, FileFiltreeLignes
      <3>3. LignesEnFile' \subseteq LignesEnFile
        BY <3>2 DEF LignesEnFile
      <3>4. /\ DOMAIN enfants' \subseteq DOMAIN enfants
            /\ DOMAIN ancres' \subseteq DOMAIN ancres /\ \A a \in DOMAIN ancres' : ancres'[a] = ancres[a]
        BY <2>6 DEF Effacer
      <3> QED BY <2>1, <3>3, <3>4 DEF Absent
    <2>7. CASE UNCHANGED <<ancres, enfants, file>>
      BY <2>1, <2>7 DEF Absent, LignesEnFile
    <2> QED
      BY <2>2, <2>3, <2>4, <2>5, <2>6, <2>7 DEF Transaction, Recevoir, LireCandidat, Demander, Verrouiller,
         Renoncer, Filtrer, Reprendre, Relever, Couper, base
  <1>2. CASE s \notin effaces
    <2>1. effaces' # effaces
      BY <1>2
    <2>2. Effacer(p)
      BY <2>1 DEF Transaction, Recevoir, LireCandidat, Demander, Verrouiller, Renoncer, Filtrer, Reprendre,
         Deposer, EcrireDirect, Drainer, Echouer, Relever, Couper, base
    <2>3. Mode = "enforce" /\ s = tx[p].sujet
      BY <1>2, <2>2 DEF Effacer
    <2> QED BY <2>2, <2>3, EffacerVide DEF Protegees
  <1> QED BY <1>1, <1>2

\* What an enforced erasure has removed is nowhere again, neither in a table nor in the queue, whatever
\* was under way: when no row claims another session, keyed rows come with the line of their
\* session, and a session is of one person.
THEOREM ErasedForGood ==
  ASSUME SansReprise, Accompagnees, UnSujet
  PROVE  Spec => []RienDuSujet
  <1> DEFINE Inv == IInv /\ Lues /\ Provenance /\ Protegees /\ RienDuSujet
  <1>1. Init => Inv
    <2> SUFFICES ASSUME Init PROVE Lues /\ Provenance /\ Protegees /\ RienDuSujet
      BY InitIInv
    <2>1. \A p \in Procs : tx[p] = Repos /\ Repos.voie = "repos"
      BY DEF Init, Repos
    <2>2. Lues
      BY <2>1 DEF Lues, EnCours, Envoye
    <2>3. Provenance /\ Protegees /\ RienDuSujet
      BY DEF Init, Provenance, Ecrites, Origines, Barrees, Durables, Protegees, Rattachees, EnAttente, RienDuSujet
    <2> QED BY <2>2, <2>3
  <1>2. Inv /\ [Next]_vars => Inv'
    <2> SUFFICES ASSUME Inv, [Next]_vars PROVE Inv'
      OBVIOUS
    <2>1. IInv'
      BY NextIInv
    <2>2. CASE UNCHANGED vars
      <3>1. Lues' /\ Provenance'
        BY <2>2, Repetition
      <3>2. Protegees' /\ RienDuSujet'
        BY <2>2 DEF Protegees, Rattachees, EnAttente, RienDuSujet, LignesEnFile, vars
      <3> QED BY <2>1, <3>1, <3>2
    <2>3. ASSUME NEW p \in Procs, Transaction(p) PROVE Inv'
      BY <2>1, <2>3, LuesPas, ProvenancePas, ProtegeesPas, SujetPas
    <2> QED BY <2>2, <2>3 DEF Next
  <1>3. Inv => RienDuSujet
    OBVIOUS
  <1> QED BY <1>1, <1>2, <1>3, PTL DEF Spec
=============================================================================
