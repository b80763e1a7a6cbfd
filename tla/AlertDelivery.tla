----------------------------- MODULE AlertDelivery -----------------------------
(***************************************************************************)
(* The delivery of alerts (dispatch-alerts.mjs): several deliverers, the    *)
(* notifier's replicas and the scheduler during a switch-over, share the    *)
(* queued lines of alert_delivery.  Each reserves one line with "for update *)
(* skip locked", posts it and marks it in one transaction.                  *)
(*                                                                          *)
(* The transaction is open during the POST, so a deliverer may die, or lose *)
(* its database connection while the POST goes on, with the line unlocked   *)
(* behind its back.  Time appears only as "the backoff has elapsed".        *)
(***************************************************************************)
EXTENDS Naturals, FiniteSets

CONSTANTS
  N,             \* lines are 1..N, in the order of their id
  Livreurs,      \* deliverers
  Personne,      \* not a deliverer: the line is not locked
  AvecEmail,     \* deliverers that hold the e-mail configuration
  Canal,         \* Canal[d]: "webhook", "email", or "autre" for a target refused
  Escalade,      \* lines that are escalations
  MAX_ATTEMPTS,  \* DISPATCH_MAX_ATTEMPTS
  MaxPannes      \* bound on crashes and cut connections, for model checking

Livraisons == 1..N

ASSUME DeliveryAssumption ==
  /\ N \in Nat
  /\ Personne \notin Livreurs
  /\ IsFiniteSet(Livreurs) /\ AvecEmail \subseteq Livreurs
  /\ Canal \in [Livraisons -> {"webhook", "email", "autre"}]
  /\ Escalade \subseteq Livraisons
  /\ MAX_ATTEMPTS \in Nat \ {0}
  /\ MaxPannes \in Nat

VARIABLES
  status,    \* status[d]: alert_delivery.status, "absent" before the insert
  attempts,  \* attempts[d]: alert_delivery.attempts
  echu,      \* echu[d]: the backoff of a failed line has elapsed
  acquitte,  \* lines whose alert_event is acknowledged
  verrou,    \* verrou[d]: the deliverer whose transaction locks the line
  etape,     \* etape[w]: where the deliverer is in dispatchOnce
  pris,      \* pris[w]: what its select returned
  issue,     \* issue[w]: the outcome of its POST
  \* The receivers, outside of the program.
  remis,     \* remis[d]: webhook calls received, or e-mails sent by Resend
  cles,      \* idempotency keys that Resend has seen
  \* History variables.
  envois,       \* envois[d]: POSTs begun
  interrompus,  \* interrompus[d]: POSTs whose outcome was never written
  tardifs,      \* tardifs[d]: POSTs begun after the acknowledgement
  coupures,     \* coupures[d]: reservations lost to a cut connection
  pannes        \* crashes and cuts so far

lignes    == <<status, attempts, echu>>
livreur   == <<etape, pris, issue>>
histoire  == <<envois, interrompus, tardifs, coupures>>
vars == <<status, attempts, echu, acquitte, verrou, etape, pris, issue,
          remis, cles, envois, interrompus, tardifs, coupures, pannes>>

Etapes == {"repos", "reserve", "poste", "repondu"}
Soldes == {"delivered", "dead", "skipped"}
Issues == {"livre", "rejouable", "terminal"}
Rien   == [d |-> 0, attempts |-> 0, acquitte |-> FALSE]

Init ==
  /\ status = [d \in Livraisons |-> "absent"]
  /\ attempts = [d \in Livraisons |-> 0]
  /\ echu = [d \in Livraisons |-> FALSE]
  /\ acquitte = {}
  /\ verrou = [d \in Livraisons |-> Personne]
  /\ etape = [w \in Livreurs |-> "repos"]
  /\ pris = [w \in Livreurs |-> Rien]
  /\ issue = [w \in Livreurs |-> "rejouable"]
  /\ remis = [d \in Livraisons |-> 0] /\ cles = {}
  /\ envois = [d \in Livraisons |-> 0]
  /\ interrompus = [d \in Livraisons |-> 0]
  /\ tardifs = [d \in Livraisons |-> 0]
  /\ coupures = [d \in Livraisons |-> 0]
  /\ pannes = 0

(***************************************************************************)
(* Around the deliverers.                                                   *)
(***************************************************************************)

\* check_alerts or route_alert inserts the line.
Mettre(d) ==
  /\ status[d] = "absent"
  /\ status' = [status EXCEPT ![d] = "queued"]
  /\ UNCHANGED <<attempts, echu, acquitte, verrou, livreur, remis, cles, histoire, pannes>>

\* Somebody acknowledges the alert in the console, at any time.
Acquitter(d) ==
  /\ d \in Escalade \ acquitte
  /\ status[d] # "absent"
  /\ acquitte' = acquitte \cup {d}
  /\ UNCHANGED <<lignes, verrou, livreur, remis, cles, histoire, pannes>>

\* 30 s x 2^attempts have passed since the last attempt.
Echoir(d) ==
  /\ status[d] = "failed" /\ ~echu[d]
  /\ echu' = [echu EXCEPT ![d] = TRUE]
  /\ UNCHANGED <<status, attempts, acquitte, verrou, livreur, remis, cles, histoire, pannes>>

(***************************************************************************)
(* One turn of the loop of dispatchOnce.                                    *)
(***************************************************************************)

\* The where clause of selectionSql.
Eligible(d) ==
  \/ status[d] = "queued"
  \/ status[d] = "failed" /\ attempts[d] < MAX_ATTEMPTS /\ echu[d]

\* Mutant: a plain select, that does not see the locks.
Selection_SansVerrou(d) ==
  /\ Eligible(d)
  /\ \A c \in Livraisons : Eligible(c) => d <= c

\* order by id limit 1 for update skip locked
Selection(d) ==
  /\ Eligible(d) /\ verrou[d] = Personne
  /\ \A c \in Livraisons : Eligible(c) /\ verrou[c] = Personne => d <= c

Reserver(w, d) ==
  /\ etape[w] = "repos"
  /\ Selection(d)
  /\ verrou' = [verrou EXCEPT ![d] = w]
  /\ etape' = [etape EXCEPT ![w] = "reserve"]
  /\ pris' = [pris EXCEPT ![w] =
                [d |-> d, attempts |-> attempts[d], acquitte |-> d \in acquitte]]
  /\ UNCHANGED <<lignes, acquitte, issue, remis, cles, histoire, pannes>>

\* Mutant: an escalation goes out whatever has been acknowledged.
Impossible_Sourd(w) ==
  LET d == pris[w].d
  IN  \/ Canal[d] = "email" /\ w \notin AvecEmail
      \/ Canal[d] = "autre"

\* livrer gives the line up: escalation of an acknowledged alert, no e-mail
\* configuration here, target refused.
Impossible(w) ==
  LET d == pris[w].d
  IN  \/ d \in Escalade /\ pris[w].acquitte
      \/ Canal[d] = "email" /\ w \notin AvecEmail
      \/ Canal[d] = "autre"

Liberer(w, d) == verrou' = [verrou EXCEPT ![d] = IF @ = w THEN Personne ELSE @]

\* The pass is over; what it had read is dropped.
Repos(w) ==
  /\ etape' = [etape EXCEPT ![w] = "repos"]
  /\ pris' = [pris EXCEPT ![w] = Rien]
  /\ issue' = [issue EXCEPT ![w] = "rejouable"]

\* The transaction is alive: it still locks the line.
TxVivante(w) == verrou[pris[w].d] = w

\* The line may be given up: the above, or an address the output policy
\* (safe-fetch) refuses once resolved, before anything is sent.
Renonce(w) == Impossible(w) \/ Canal[pris[w].d] = "webhook"

\* solderSkipped, then commit.
Solder(w) ==
  LET d == pris[w].d
  IN  /\ etape[w] = "reserve" /\ Renonce(w) /\ TxVivante(w)
      /\ status' = [status EXCEPT ![d] = "skipped"]
      /\ Liberer(w, d) /\ Repos(w)
      /\ UNCHANGED <<attempts, echu, acquitte, remis, cles, histoire, pannes>>

Poster(w) ==
  LET d == pris[w].d
  IN  /\ etape[w] = "reserve" /\ ~Impossible(w)
      /\ etape' = [etape EXCEPT ![w] = "poste"]
      /\ envois' = [envois EXCEPT ![d] = @ + 1]
      /\ tardifs' = [tardifs EXCEPT ![d] = IF d \in acquitte THEN @ + 1 ELSE @]
      /\ UNCHANGED <<lignes, acquitte, verrou, pris, issue, remis, cles, interrompus, coupures, pannes>>

\* Mutant: a key of its own for each attempt.
Cle_ParEssai(r) == <<r.d, r.attempts>>

\* mip-delivery-<id>: the key of an e-mail is that of its line, whatever the attempt.
Cle(r) == r.d

\* The receivers.  A webhook counts each call; Resend sends one e-mail for one
\* idempotency key, and answers the same to its replays.
Recu(w) ==
  LET d   == pris[w].d
      cle == Cle(pris[w])
  IN  IF Canal[d] = "email"
      THEN /\ remis' = [remis EXCEPT ![d] = IF cle \in cles THEN @ ELSE @ + 1]
           /\ cles' = cles \cup {cle}
      ELSE /\ remis' = [remis EXCEPT ![d] = @ + 1]
           /\ UNCHANGED cles

\* The POST ends: a 2xx, an answer that may be tried again, a timeout with the
\* call received or not, or a final refusal by Resend.
Repondre(w, r) ==
  LET d == pris[w].d
  IN  /\ etape[w] = "poste"
      /\ r = "terminal" => Canal[d] = "email"
      /\ etape' = [etape EXCEPT ![w] = "repondu"]
      /\ issue' = [issue EXCEPT ![w] = r]
      /\ \/ r \in {"livre", "rejouable"} /\ Recu(w)
         \/ r \in {"rejouable", "terminal"} /\ UNCHANGED <<remis, cles>>
      /\ UNCHANGED <<lignes, acquitte, verrou, pris, histoire, pannes>>

\* Mutant: attempts counted from one too many.
decideStatus_Tard(r, n) ==
  CASE r = "livre"     -> "delivered"
    [] r = "terminal"  -> "dead"
    [] r = "rejouable" -> IF n >= MAX_ATTEMPTS THEN "dead" ELSE "failed"

\* decideStatus, with the terminal case of livrerMail.
decideStatus(r, n) ==
  CASE r = "livre"     -> "delivered"
    [] r = "terminal"  -> "dead"
    [] r = "rejouable" -> IF n + 1 >= MAX_ATTEMPTS THEN "dead" ELSE "failed"

\* Mutant: a replay that does not count as an attempt.
marquer_SansCompte(w, d) ==
  /\ status' = [status EXCEPT ![d] = decideStatus(issue[w], pris[w].attempts)]
  /\ attempts' = [attempts EXCEPT ![d] = IF status[d] = "failed" THEN @ ELSE @ + 1]
  /\ echu' = [echu EXCEPT ![d] = FALSE]

marquer(w, d) ==
  /\ status' = [status EXCEPT ![d] = decideStatus(issue[w], pris[w].attempts)]
  /\ attempts' = [attempts EXCEPT ![d] = @ + 1]
  /\ echu' = [echu EXCEPT ![d] = FALSE]

\* marquer, then commit.  A commit whose answer is lost ends the pass in error
\* with the same effect on the line.
Marquer(w) ==
  LET d == pris[w].d
  IN  /\ etape[w] = "repondu" /\ TxVivante(w)
      /\ marquer(w, d)
      /\ Liberer(w, d) /\ Repos(w)
      /\ UNCHANGED <<acquitte, remis, cles, histoire, pannes>>

(***************************************************************************)
(* Failures.                                                                *)
(***************************************************************************)

\* A POST begun by w is left without a written outcome.
Perdre(w) ==
  interrompus' = [interrompus EXCEPT ![pris[w].d] =
                    IF etape[w] \in {"poste", "repondu"} THEN @ + 1 ELSE @]

\* The database cuts the connection, and with it the transaction and the lock;
\* the deliverer will only notice when it next writes.
Couper(w) ==
  LET d == pris[w].d
  IN  /\ etape[w] # "repos" /\ TxVivante(w) /\ pannes < MaxPannes
      /\ verrou' = [verrou EXCEPT ![d] = Personne]
      /\ coupures' = [coupures EXCEPT ![d] = @ + 1]
      /\ pannes' = pannes + 1
      /\ UNCHANGED <<lignes, acquitte, livreur, remis, cles, envois, interrompus, tardifs>>

\* It notices: the write fails, rollback, the pass ends in error.
EchouerEcriture(w) ==
  /\ \/ etape[w] = "repondu"
     \/ etape[w] = "reserve" /\ Renonce(w)
  /\ ~TxVivante(w)
  /\ Repos(w)
  /\ Perdre(w)
  /\ UNCHANGED <<lignes, acquitte, verrou, remis, cles, envois, tardifs, coupures, pannes>>

\* The deliverer dies, or its pass throws before the commit: rollback.  A POST
\* in flight may still reach its receiver.
Tomber(w) ==
  LET d == pris[w].d
  IN  /\ etape[w] # "repos" /\ pannes < MaxPannes
      /\ Liberer(w, d) /\ Repos(w) /\ Perdre(w)
      /\ \/ etape[w] = "poste" /\ Recu(w)
         \/ UNCHANGED <<remis, cles>>
      /\ pannes' = pannes + 1
      /\ UNCHANGED <<lignes, acquitte, envois, tardifs, coupures>>

Avancer(w) ==
  \/ \E d \in Livraisons : Reserver(w, d)
  \/ Solder(w)
  \/ Poster(w)
  \/ \E r \in Issues : Repondre(w, r)
  \/ Marquer(w)
  \/ EchouerEcriture(w)

Next ==
  \/ \E d \in Livraisons : Mettre(d) \/ Acquitter(d) \/ Echoir(d)
  \/ \E w \in Livreurs : Avancer(w) \/ Couper(w) \/ Tomber(w)

\* Every deliverer passes again and again (livreur.mjs), a POST is bounded by a
\* timeout, and time flows.  Nobody has to acknowledge or to insert.
Fairness ==
  /\ \A w \in Livreurs : WF_vars(Avancer(w))
  /\ \A d \in Livraisons : WF_vars(Echoir(d))

Spec == Init /\ [][Next]_vars /\ Fairness

(***************************************************************************)
(* Properties.                                                              *)
(***************************************************************************)

EnCours(d) == {w \in Livreurs : etape[w] \in {"poste", "repondu"} /\ pris[w].d = d}
EnVol(d)   == {w \in Livreurs : etape[w] = "poste" /\ pris[w].d = d}

\* Type invariant; a deliverer holds one lock at most, that of its own line.
TypeOK ==
  /\ status \in [Livraisons -> {"absent", "queued", "failed"} \cup Soldes]
  /\ attempts \in [Livraisons -> 0..MAX_ATTEMPTS]
  /\ echu \in [Livraisons -> BOOLEAN]
  /\ acquitte \subseteq Escalade
  /\ verrou \in [Livraisons -> Livreurs \cup {Personne}]
  /\ \A d \in Livraisons : verrou[d] # Personne =>
       etape[verrou[d]] # "repos" /\ pris[verrou[d]].d = d
  /\ etape \in [Livreurs -> Etapes]
  /\ pris \in [Livreurs -> [d : 0..N, attempts : 0..MAX_ATTEMPTS, acquitte : BOOLEAN]]
  /\ issue \in [Livreurs -> Issues]
  /\ remis \in [Livraisons -> Nat] /\ cles \subseteq Livraisons
  /\ envois \in [Livraisons -> Nat]
  /\ interrompus \in [Livraisons -> Nat]
  /\ tardifs \in [Livraisons -> Nat]
  /\ coupures \in [Livraisons -> Nat]
  /\ pannes \in 0..MaxPannes

\* Two deliverers never post the same line at the same time, unless one of them
\* has lost its transaction ("deux repliques se partagent les lignes sans jamais
\* en livrer une deux fois", livreur.mjs).
UnSeulEnVol == \A d \in Livraisons : Cardinality(EnVol(d)) <= 1 + coupures[d]

\* Every POST is an attempt the line counts, one in progress, or one whose pass
\* was interrupted: "une passe interrompue ne rejoue que la livraison en cours".
\* With no interruption a line is posted MAX_ATTEMPTS times at most.
CompteExact ==
  \A d \in Livraisons :
    envois[d] = attempts[d] + interrompus[d] + Cardinality(EnCours(d))

\* "delivered" is never written of a line nobody received; and the e-mail of a line is
\* sent once at most, whatever is lost, interrupted and replayed ("pour ne pas envoyer
\* deux fois", resend.mjs): the key of its idempotency is the same at every attempt.
LivreEstRecu ==
  \A d \in Livraisons :
    /\ status[d] = "delivered" => remis[d] >= 1
    /\ Canal[d] = "email" => remis[d] <= 1

\* The acknowledgement stops an escalation, the one already queued included:
\* after it, only a reservation made before it may still go out.
AcquittementArrete == \A d \in Escalade : tardifs[d] <= 1 + coupures[d]

\* Deliverers, crashes and cuts together keep the promise of the outbox.
Promesse == INSTANCE DeliveryPromise WITH status <- status, attempts <- attempts
PromesseTenue == Promesse!Spec
===============================================================================
