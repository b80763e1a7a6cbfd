------------------------------- MODULE MobileSdk -------------------------------
(***************************************************************************)
(* The mobile SDK (rum-mobile): a bounded queue of events, the consent gate *)
(* that may revoke them, the flush that leases, posts and acknowledges      *)
(* them, and the coroutines that read and write the device's storage.       *)
(*                                                                          *)
(* JavaScript runs one piece of code at a time: an action is the code       *)
(* between two awaits.  Three kinds of coroutine wait on the storage, and   *)
(* any number of them may be waiting at once: bootstrapIdentite, the end of *)
(* consent(false), and sauvegarderSiDurable.  An operation on the storage   *)
(* takes effect when its coroutine resumes; each key is written whole here  *)
(* (MobileStore has the two slots of the adapters that cannot).             *)
(*                                                                          *)
(* An event is collected once.  Events are numbered as they are collected,  *)
(* so a smaller number is an older event.  Size in bytes is left out: the   *)
(* queue is bounded in number only.                                         *)
(***************************************************************************)
EXTENDS Naturals, Sequences, FiniteSets, Functions

CONSTANT Montages  \* how the application may configure the SDK, and the bounds of each instance

\* An instance:
\*   n            events collected are 1..n
\*   racines      those that are root actions; the others may be their effects
\*   perissables  those whose TTL may elapse
\*   maxFile      offline.maxEvents
\*   maxAttente   PENDING_MAX_EVENTS, the bound while consent is pending
\*   maxLot       BATCH_MAX_EVENTS
\*   persistant   offline.persistent
\*   depart       state of the gate at the first launch
\*   maxTaches    bound on the coroutines begun in one life of the process
\*   maxVies      bound on the lives of the process
\*   lectureFragile, ecritureFragile  the storage may fail a read; a write or an erasure
ASSUME MobileAssumption ==
  \A c \in Montages :
    /\ c.n \in Nat /\ c.racines \subseteq 1..c.n /\ c.perissables \subseteq 1..c.n
    /\ c.maxFile \in Nat \ {0} /\ c.maxAttente \in Nat \ {0} /\ c.maxLot \in Nat \ {0}
    /\ c.persistant \in BOOLEAN /\ c.lectureFragile \in BOOLEAN /\ c.ecritureFragile \in BOOLEAN
    /\ c.depart \in {"pending", "granted"}
    /\ c.maxTaches \in Nat \ {0} /\ c.maxVies \in Nat \ {0}

VARIABLES
  montage,   \* the configuration, chosen once
  etat,      \* ConsentGate.etat
  epoque,    \* ConsentGate.epoque
  file,      \* EventQueue.entrees: [id, lien, prise]
  refusees,  \* racinesRefusees
  fenetre,   \* the root the causal window attributes to, and its epoch
  flush,     \* the flush in progress
  recul,     \* prochainEssaiA has not come
  visiteur,  \* ctx.visitorId: 0, or 1 + the revocations before it was drawn
  taches,    \* the coroutines of this life
  pret,      \* the coroutine a new flush waits for
  ident,     \* identity record on the device
  disque,    \* queue record on the device
  perimes,   \* events older than the TTL
  \* History variables.
  suivant,     \* next event to collect
  revocations, \* times consent(false) revoked
  gen,         \* gen[e]: revocations before e was collected
  recus,       \* events the server received
  perdus,      \* events counted as dropped
  oublies,     \* events in memory when the process was killed
  restait,     \* events on the device when the process was killed
  contretemps, \* events evicted while an older one that could go was kept
  vies         \* lives of the process

N       == montage.n
Evts    == 1..N
Racines == montage.racines
MaxFile == montage.maxFile
MaxLot  == montage.maxLot

gate     == <<etat, epoque>>
memoire  == <<file, refusees, perdus, contretemps>>
stockage == <<ident, disque>>
histoire == <<montage, suivant, revocations, gen, oublies, restait, vies>>
vars == <<montage, etat, epoque, file, refusees, fenetre, flush, recul, visiteur, taches, pret,
          ident, disque, perimes, suivant, revocations, gen, recus, perdus, oublies,
          restait, contretemps, vies>>

Aucune   == [r |-> 0, epoque |-> 0]
Repos    == [etape |-> "repos", lot |-> <<>>, epoque |-> 0, plafond |-> MaxLot, attend |-> 0]
Finie    == [pas |-> "finie", epoque |-> 0, v |-> 0, evts |-> <<>>]
PasDIdent == [epoque |-> 0, v |-> 0]
PasDeFile == [epoque |-> 0, evts |-> <<>>]

Tache(pas, e) == [Finie EXCEPT !.pas = pas, !.epoque = e]

\* init(): a gate at epoch 1, an empty queue, and bootstrapIdentite begun.
Lancer ==
  /\ epoque' = 1 /\ file' = <<>> /\ refusees' = {} /\ fenetre' = Aucune
  /\ flush' = Repos /\ recul' = FALSE /\ visiteur' = 0
  /\ taches' = <<Tache("bootId", 0)>> /\ pret' = 1

Init ==
  /\ montage \in Montages
  /\ etat = montage.depart /\ epoque = 1 /\ file = <<>> /\ refusees = {} /\ fenetre = Aucune
  /\ flush = Repos /\ recul = FALSE /\ visiteur = 0
  /\ taches = <<Tache("bootId", 0)>> /\ pret = 1
  /\ ident = PasDIdent /\ disque = PasDeFile /\ perimes = {}
  /\ suivant = 1 /\ revocations = 0 /\ gen = [e \in Evts |-> 0]
  /\ recus = {} /\ perdus = {} /\ oublies = {} /\ restait = {} /\ contretemps = {} /\ vies = 1

(***************************************************************************)
(* EventQueue.  Operators on m, what a call may change in memory.           *)
(***************************************************************************)

M == [file |-> file, refusees |-> refusees, perdus |-> perdus, contretemps |-> contretemps]
Memoire(m) ==
  /\ file' = m.file /\ refusees' = m.refusees
  /\ perdus' = m.perdus /\ contretemps' = m.contretemps

Entree(id, lien) == [id |-> id, lien |-> lien, prise |-> FALSE]
Ids(f) == {f[i].id : i \in DOMAIN f}

\* The entries of f at the positions J, in their order; those that are not at I.
Extrait(f, J) == [k \in 1..Cardinality(J) |-> f[CHOOSE i \in J : Cardinality({j \in J : j <= i}) = k]]
Sans(f, I) == Extrait(f, DOMAIN f \ I)

\* Mutant: racinesDisparues leaves the effects of the root linked to it.
Retirer_SansLien(m, I) ==
  LET S == {m.file[i].id : i \in I}
  IN  [m EXCEPT !.file = Sans(m.file, I),
                !.refusees = @ \cup (S \cap Racines),
                !.perdus = @ \cup S]

\* Entries I leave against their will: counted as dropped, and the effects of
\* the roots among them lose their link (onPerte, racinesDisparues).
Retirer(m, I) ==
  LET S == {m.file[i].id : i \in I}
      reste == Sans(m.file, I)
  IN  [m EXCEPT !.file = [k \in DOMAIN reste |->
                            [reste[k] EXCEPT !.lien = IF @ \in S THEN 0 ELSE @]],
                !.refusees = @ \cup (S \cap Racines),
                !.perdus = @ \cup S]

\* expire: an entry too old goes, leased or not.
Expirer(m) == Retirer(m, {i \in DOMAIN m.file : m.file[i].id \in perimes})

Libres(f) == {i \in DOMAIN f : ~f[i].prise}

\* evince: above the bound the first entries that are not leased go.
Evincer(m, cap) ==
  LET trop == Len(m.file) - cap
      I == {i \in Libres(m.file) : Cardinality({j \in Libres(m.file) : j < i}) < trop}
      tort == {m.file[i].id : i \in {i \in I : \E k \in Libres(m.file) \ I :
                                                 m.file[k].id < m.file[i].id}}
  IN  [Retirer(m, I) EXCEPT !.contretemps = @ \cup tort]

Pousser(m, e, cap) ==
  LET x == Expirer(m) IN Evincer([x EXCEPT !.file = Append(@, e)], cap)

\* restore: one push after another, at the bound of the configuration.
Restaurer(m, evts) ==
  LET suite[k \in 0..Len(evts)] == IF k = 0 THEN m ELSE Pousser(suite[k - 1], evts[k], MaxFile)
  IN  suite[Len(evts)]

\* Mutant: a leased entry leaves the queue, as the sender of rum-core does.
Prendre_Retire(f, I, b) ==
  IF b THEN Sans(f, I) ELSE [i \in DOMAIN f |-> IF i \in I THEN [f[i] EXCEPT !.prise = b] ELSE f[i]]

\* lease: the first entries that are not leased, at most n, are marked.
Lot(f, n) == {i \in Libres(f) : Cardinality({j \in Libres(f) : j < i}) < n}
Prendre(f, I, b) == [i \in DOMAIN f |-> IF i \in I THEN [f[i] EXCEPT !.prise = b] ELSE f[i]]

DuLot(f, lot) == {i \in DOMAIN f : f[i].id \in Range(lot)}
Ack(m, lot) == [m EXCEPT !.file = Sans(@, DuLot(@, lot))]

\* Mutant: a batch sent again stays leased.
Nack_Garde(m, lot) == m

Nack(m, lot) == [m EXCEPT !.file = Prendre(@, DuLot(@, lot), FALSE)]

\* abandonne: the batch is given up, and counted.
Abandonner(m, lot) ==
  LET S == Range(lot)
      x == Retirer(m, DuLot(m.file, lot))
  IN  [x EXCEPT !.perdus = @ \cup S, !.refusees = @ \cup (S \cap Racines)]

(***************************************************************************)
(* Collecting.                                                              *)
(***************************************************************************)

\* FenetreCausale.courante: the root a signal emitted now is attributed to.
Courante == IF fenetre.epoque = epoque THEN fenetre.r ELSE 0

Plafond == IF etat = "granted" \/ montage.maxAttente > MaxFile THEN MaxFile ELSE montage.maxAttente

\* enqueue of the next event; admis says what beforeSend decides.  A root
\* opens the causal window, refused or not; any other event carries the root of
\* the window, unless that root is known to be refused.
Collecter(admis) ==
  LET e == suivant
      racine == e \in Racines
      lien == IF racine \/ Courante \in refusees THEN 0 ELSE Courante
      entre == etat # "denied" /\ admis
      pousse == Pousser(M, Entree(e, lien), Plafond)
      refuse == [M EXCEPT !.perdus = @ \cup {e},
                          !.refusees = IF racine THEN @ \cup {e} ELSE @]
  IN  /\ e <= N
      /\ suivant' = e + 1
      /\ gen' = [gen EXCEPT ![e] = revocations]
      /\ Memoire(IF entre THEN [pousse EXCEPT !.refusees = IF racine THEN @ \ {e} ELSE @]
                 ELSE refuse)
      /\ fenetre' = IF ~racine THEN fenetre
                    ELSE IF entre THEN [r |-> e, epoque |-> epoque] ELSE Aucune
      /\ UNCHANGED <<montage, gate, flush, recul, visiteur, taches, pret, stockage, perimes,
                     revocations, recus, oublies, restait, vies>>

\* A navigation, an idle time: the window closes.
FermerFenetre ==
  /\ fenetre # Aucune
  /\ fenetre' = Aucune
  /\ UNCHANGED <<gate, memoire, flush, recul, visiteur, taches, pret, stockage, perimes,
                 recus, histoire>>

\* An event becomes older than the TTL, in the queue or not.  The TTL may be as
\* short as the window, and the root of the window too old while it is open.
Vieillir(e) ==
  /\ e \in montage.perissables \ perimes /\ e < suivant
  /\ \A k \in montage.perissables : k < e => k \in perimes
  /\ perimes' = perimes \cup {e}
  /\ UNCHANGED <<gate, memoire, fenetre, flush, recul, visiteur, taches, pret, stockage,
                 recus, histoire>>

(***************************************************************************)
(* Consent.                                                                 *)
(***************************************************************************)

\* Mutant: the coroutine is never begun, the flush waits for it all the same.
Debuter_Oublie(t) == Len(taches) < montage.maxTaches /\ UNCHANGED taches

Debuter(t) == Len(taches) < montage.maxTaches /\ taches' = Append(taches, t)

\* void flush(): begins one, which waits for the coroutine p, unless one runs.
Appeler(p) ==
  flush' = IF flush.etape = "repos" THEN [Repos EXCEPT !.etape = "attend", !.attend = p]
           ELSE flush

\* consent(true)
Consentir ==
  /\ etat' = "granted"
  /\ Debuter(Tache("bootId", 0))
  /\ pret' = Len(taches) + 1
  /\ Appeler(pret')
  /\ UNCHANGED <<epoque, memoire, fenetre, recul, visiteur, stockage, perimes, recus, histoire>>

\* Mutant: the purge spares the batch in flight, as evince does.
Purger_SaufPrises(m) ==
  [m EXCEPT !.file = Sans(@, Libres(@)), !.refusees = {},
            !.perdus = @ \cup {m.file[i].id : i \in Libres(m.file)}]

\* purge, and racinesRefusees.clear(): nothing is left to be linked.
Purger(m) == [m EXCEPT !.file = <<>>, !.refusees = {}, !.perdus = @ \cup Ids(m.file)]

\* consent(false).  When it revokes, the epoch grows and the queue, then the
\* identity, leave the device; refused again, it only purges the memory.
Refuser ==
  LET revoque == etat # "denied"
  IN  /\ etat' = "denied"
      /\ Memoire(Purger(M))
      /\ fenetre' = Aucune /\ recul' = FALSE /\ visiteur' = 0
      /\ IF revoque
         THEN /\ epoque' = epoque + 1 /\ revocations' = revocations + 1
              /\ Debuter(Tache("refusFile", epoque'))
              /\ pret' = Len(taches')
         ELSE UNCHANGED <<epoque, revocations, taches, pret>>
      /\ UNCHANGED <<montage, flush, stockage, perimes, suivant, gen, recus, oublies, restait, vies>>

(***************************************************************************)
(* Flush.                                                                   *)
(***************************************************************************)

\* The timer, flushNow, a return to the foreground.
DemarrerFlush ==
  /\ flush.etape = "repos"
  /\ Appeler(pret)
  /\ UNCHANGED <<gate, memoire, fenetre, recul, visiteur, taches, pret, stockage, perimes,
                 recus, histoire>>

\* The loop of flushInterne from memory m: a batch leaves, or the flush ends.
Boucler(m, plafond) ==
  LET x == Expirer(m)
      I == Lot(x.file, plafond)
      lot == [k \in 1..Cardinality(I) |-> Extrait(x.file, I)[k].id]
  IN  IF m.file = <<>> THEN Memoire(m) /\ flush' = Repos
      ELSE IF I = {} THEN Memoire(x) /\ flush' = Repos
      ELSE /\ Memoire([x EXCEPT !.file = Prendre(@, I, TRUE)])
           /\ flush' = [etape |-> "vol", lot |-> lot, epoque |-> epoque,
                        plafond |-> plafond, attend |-> 0]

\* The coroutine it waited for has ended.
EntrerFlush ==
  /\ flush.etape = "attend" /\ taches[flush.attend].pas = "finie"
  /\ IF etat = "granted" /\ ~recul THEN Boucler(M, MaxLot)
     ELSE flush' = Repos /\ UNCHANGED memoire
  /\ UNCHANGED <<gate, fenetre, recul, visiteur, taches, pret, stockage, perimes, recus, histoire>>

\* The answer comes after a revocation: nothing of that batch may come back.
Tardive == epoque # flush.epoque \/ etat # "granted"

Finir(m) == Memoire(m) /\ flush' = Repos

Decision(r) ==
  LET lot == flush.lot
  IN  CASE r = "2xx" -> Boucler(Ack(M, lot), MaxLot) /\ recul' = FALSE
        [] r = "tropGros" /\ Len(lot) > 1 ->
             Boucler(Nack(M, lot), Len(lot) \div 2) /\ UNCHANGED recul
        [] r = "tropGros" /\ Len(lot) = 1 ->
             Boucler(Abandonner(M, lot), MaxLot) /\ UNCHANGED recul
        [] r = "definitif" -> Finir(Abandonner(M, lot)) /\ recul' = TRUE
        [] r = "rejouable" ->
             LET m == Nack(M, lot)
             IN  /\ recul' = TRUE /\ Memoire(m)
                 /\ flush' = IF montage.persistant
                             THEN [Repos EXCEPT !.etape = "sauve", !.epoque = epoque, !.lot = m.file]
                             ELSE Repos

Reponses == {"2xx", "tropGros", "definitif", "rejouable"}

\* The POST ends.  A timeout or a lost answer may hide a batch received.
Repondre(r) ==
  /\ flush.etape = "vol"
  /\ recus' \in {recus \cup (IF r \in {"2xx", "rejouable"} THEN Range(flush.lot) ELSE {}),
                 IF r = "2xx" THEN recus \cup Range(flush.lot) ELSE recus}
  /\ IF Tardive THEN Finir(M) /\ UNCHANGED recul ELSE Decision(r)
  /\ UNCHANGED <<gate, fenetre, visiteur, taches, pret, stockage, perimes, histoire>>

\* What a key holds after a write of new over old: ecrire and effacer never
\* throw, a failure leaves the old value.
Ecriture(old, new) == IF montage.ecritureFragile THEN {old, new} ELSE {new}

\* enregistrerFile: an empty queue erases the record.
Ecrire(e, evts) ==
  disque' \in Ecriture(disque, IF evts = <<>> THEN PasDeFile ELSE [epoque |-> e, evts |-> evts])

\* The save that follows a batch to be sent again.
FinirSauvegarde ==
  /\ flush.etape = "sauve"
  /\ Ecrire(flush.epoque, flush.lot)
  /\ flush' = Repos
  /\ UNCHANGED <<gate, memoire, fenetre, recul, visiteur, taches, pret, ident, perimes,
                 recus, histoire>>

Patienter ==
  /\ recul
  /\ recul' = FALSE
  /\ UNCHANGED <<gate, memoire, fenetre, flush, visiteur, taches, pret, stockage, perimes,
                 recus, histoire>>

(***************************************************************************)
(* Coroutines on the storage.                                               *)
(***************************************************************************)

Passer(k, t) == taches' = [taches EXCEPT ![k] = t]

\* bootstrapIdentite, once it has a visitor: the queue record next.
Ensuite(e) == IF montage.persistant THEN Tache("bootFile", e) ELSE Finie

\* chargerIdentite answers: lu is the record, or nothing.
BootId(k, lu) ==
  /\ taches[k].pas = "bootId"
  /\ epoque' = IF lu.epoque > epoque THEN lu.epoque ELSE epoque
  /\ CASE etat # "granted" -> visiteur' = 0 /\ Passer(k, Finie)
       [] etat = "granted" /\ lu.v # 0 -> visiteur' = lu.v /\ Passer(k, Ensuite(epoque'))
       [] etat = "granted" /\ lu.v = 0 ->
            /\ UNCHANGED visiteur
            /\ Passer(k, [Tache("bootEcrit", epoque') EXCEPT !.v = revocations + 1])
  /\ UNCHANGED <<etat, memoire, fenetre, flush, recul, pret, stockage, perimes, recus, histoire>>

\* The new identity is written, or could not be.
BootEcrit(k) ==
  /\ taches[k].pas = "bootEcrit"
  /\ ident' \in Ecriture(ident, [epoque |-> taches[k].epoque, v |-> taches[k].v])
  /\ visiteur' = taches[k].v
  /\ Passer(k, Ensuite(epoque))
  /\ UNCHANGED <<gate, memoire, fenetre, flush, recul, pret, disque, perimes, recus, histoire>>

\* chargerFile answers: a record of another epoch is erased, else its events
\* that are not too old are restored.
BootFile(k) ==
  LET e == taches[k].epoque
      evts == Sans(disque.evts, {i \in DOMAIN disque.evts : disque.evts[i].id \in perimes})
  IN  /\ taches[k].pas = "bootFile"
      /\ IF disque # PasDeFile /\ disque.epoque # e
         THEN Passer(k, Tache("bootEfface", 0)) /\ UNCHANGED memoire
         ELSE /\ Memoire(Restaurer(M, [i \in DOMAIN evts |-> Entree(evts[i].id, evts[i].lien)]))
              /\ Passer(k, Finie)
      /\ UNCHANGED <<gate, fenetre, flush, recul, visiteur, pret, stockage, perimes, recus, histoire>>

\* The steps that only write: the stale record, what follows a refusal, a save.
Effacer(k) ==
  /\ taches[k].pas \in {"bootEfface", "refusFile"}
  /\ disque' \in Ecriture(disque, PasDeFile)
  /\ Passer(k, IF taches[k].pas = "bootEfface" THEN Finie
               ELSE Tache("refusIdent", taches[k].epoque))
  /\ UNCHANGED <<gate, memoire, fenetre, flush, recul, visiteur, pret, ident, perimes, recus, histoire>>

EcrireRefus(k) ==
  /\ taches[k].pas = "refusIdent"
  /\ ident' \in Ecriture(ident, [epoque |-> taches[k].epoque, v |-> 0])
  /\ Passer(k, Finie)
  /\ UNCHANGED <<gate, memoire, fenetre, flush, recul, visiteur, pret, disque, perimes, recus, histoire>>

Sauver(k) ==
  /\ taches[k].pas = "sauve"
  /\ Ecrire(taches[k].epoque, taches[k].evts)
  /\ Passer(k, Finie)
  /\ UNCHANGED <<gate, memoire, fenetre, flush, recul, visiteur, pret, ident, perimes, recus, histoire>>

\* The application leaves the foreground: a save begins with what the queue
\* holds at that time.  The flush that follows it is one of the timer's.
ArrierePlan ==
  /\ montage.persistant /\ etat = "granted"
  /\ Debuter([Tache("sauve", epoque) EXCEPT !.evts = file])
  /\ UNCHANGED <<gate, memoire, fenetre, flush, recul, visiteur, pret, stockage, perimes, recus, histoire>>

\* The system kills the application; it is launched again, and declares the
\* last answer it recorded (initialConsent).
Tuer ==
  /\ vies < montage.maxVies
  /\ vies' = vies + 1
  /\ oublies' = oublies \cup Ids(file)
  /\ restait' = restait \cup Ids(disque.evts)
  /\ Lancer
  /\ UNCHANGED <<montage, etat, stockage, perimes, suivant, revocations, gen, recus, perdus, contretemps>>

Coroutine(k) ==
  \/ \E lu \in {ident} \cup (IF montage.lectureFragile THEN {PasDIdent} ELSE {}) : BootId(k, lu)
  \/ BootEcrit(k)
  \/ BootFile(k)
  \/ Effacer(k)
  \/ EcrireRefus(k)
  \/ Sauver(k)

Next ==
  \/ \E admis \in BOOLEAN : Collecter(admis)
  \/ FermerFenetre
  \/ \E e \in Evts : Vieillir(e)
  \/ Consentir \/ Refuser \/ ArrierePlan
  \/ DemarrerFlush \/ EntrerFlush \/ FinirSauvegarde \/ Patienter
  \/ \E r \in Reponses : Repondre(r)
  \/ \E k \in DOMAIN taches : Coroutine(k)
  \/ Tuer

Spec == Init /\ [][Next]_vars

(***************************************************************************)
(* Properties.                                                              *)
(***************************************************************************)

Entrees == [id : Evts, lien : Racines \cup {0}, prise : BOOLEAN]
Pas == {"bootId", "bootEcrit", "bootFile", "bootEfface", "refusFile", "refusIdent", "sauve", "finie"}

\* Type invariant; what is leased or refused has been collected.
TypeOK ==
  /\ etat \in {"pending", "granted", "denied"} /\ epoque \in Nat \ {0}
  /\ file \in Seq(Entrees) /\ Ids(file) \subseteq 1..(suivant - 1)
  /\ refusees \subseteq Racines
  /\ fenetre.r \in Racines \cup {0}
  /\ flush.etape \in {"repos", "attend", "vol", "sauve"}
  /\ flush.plafond \in 1..MaxLot
  /\ recul \in BOOLEAN /\ visiteur \in Nat
  /\ \A k \in DOMAIN taches : taches[k].pas \in Pas
  /\ pret \in DOMAIN taches
  /\ perimes \subseteq montage.perissables
  /\ \A S \in {recus, perdus, oublies, restait, contretemps} : S \subseteq 1..(suivant - 1)

\* queue.ts: "une revocation vide la file entiere; tout ce qui s'y trouve
\* appartient donc, par construction, a l'epoque courante".  With the queue in
\* memory, no event collected before a revocation is in the queue after it,
\* whatever was in flight at that time.  TLC refutes it with a durable queue read
\* back meanwhile (README, counterexamples without a run).
EpoqueCourante ==
  ~montage.persistant => \A i \in DOMAIN file : gen[file[i].id] = revocations

\* index.ts: "PAS de visiteur" without consent; README: in state denied the
\* device is erased.  Once it is refused no installation identifier is in use.
\* TLC refutes it when a refusal falls between the reading of the identifier and
\* its use (README, counterexamples without a run).
RefusSansVisiteur == etat = "denied" => visiteur = 0

\* "Acquittement avant retrait": an event accepted into the queue is there, or
\* the server has it, or it is counted as dropped; the death of the process is
\* the only exception.
RienDeTu ==
  \A e \in 1..(suivant - 1) : e \in Ids(file) \cup recus \cup perdus \cup oublies

\* bootstrapIdentite "reprend ce qui restait du lancement precedent": an event
\* that was on the device when the process died stays there or is in the queue,
\* until the server has it, it is counted as dropped, or it is revoked.
\* TLC refutes it when the application leaves the foreground before the boot has
\* read the device (README, counterexamples without a run).
RepriseComplete ==
  \A e \in restait :
    \/ e \in Ids(file) \cup Ids(disque.evts) \cup recus \cup perdus
    \/ gen[e] # revocations

\* An entry is leased exactly while the batch it is in waits for its answer:
\* "un lot parti et jamais acquitte revient donc dans la file".  An entry that
\* stayed leased would never be sent again, nor evicted.
BailDuLot ==
  \A i \in DOMAIN file :
    file[i].prise => flush.etape = "vol" /\ file[i].id \in Range(flush.lot)

\* "Au depassement, les plus anciens tombent": no event is evicted while an
\* older one that could be is kept.  TLC refutes it with a durable queue, whose
\* restored events enter behind newer ones (README, counterexamples without a run).
EvictionDuPlusAncien == contretemps = {}

\* index.ts: "UN ENFANT NE SURVIT PAS A SA RACINE".  An event in the queue is only
\* linked to a root that is in the queue, or that the server has received.  One
\* event for each root that got too old escapes it: the link is checked before
\* the push, which may find the root too old and drop it, and lets the event in
\* with its link; the events that follow lose theirs.
LienVivant ==
  \A i \in DOMAIN file :
    LET r == file[i].lien
    IN  r # 0 /\ r \notin Ids(file) \cup recus =>
          /\ r \in perimes
          /\ \A j \in DOMAIN file : file[j].lien = r => file[j].id = file[i].id
===============================================================================
