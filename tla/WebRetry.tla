------------------------------- MODULE WebRetry -------------------------------
(***************************************************************************)
(* The sending path of the web SDK (rum-sdk: otel.ts, retry.ts, consent):  *)
(* a page puts its spans in a buffer, exports them in batches and keeps    *)
(* what fails in a file of localStorage, which the tabs of the origin      *)
(* share and the next page load sends again.                               *)
(*                                                                         *)
(* An action is a root span and an effect that names it.  The server would *)
(* keep an effect whose root never comes as an orphan: an effect is        *)
(* unlinked before it is sent or kept once its root is given up for now.   *)
(*                                                                         *)
(* A tab runs one callback at a time, and nothing keeps two tabs apart: a   *)
(* callback reads the storage in one step and writes it in later ones, and *)
(* the other tabs run in between.  A value that cannot be read is taken    *)
(* for a missing one; a write that the storage refuses is not reported.    *)
(* The deadline of the file is not counted: a load finds it due or not.    *)
(***************************************************************************)
EXTENDS Naturals, Sequences, FiniteSets, Functions

CONSTANTS Onglets,      \* tabs of one origin
          Actions,      \* actions: each has a root
          AvecEffet,    \* those that have an effect
          MaxRetry,     \* RETRY_MAX_SPANS
          MaxBatch,     \* MAX_BATCH
          MaxTentatives,\* RETRY_MAX_TENTATIVES
          MaxPages,     \* bound on page loads
          MaxEchecs,    \* bound on failures, of exports and of the storage
          MaxRefus      \* bound on withdrawals

ASSUME ActionsAssumption == AvecEffet \subseteq Actions
ASSUME BornesAssumption ==
  /\ MaxRetry \in Nat \ {0} /\ MaxBatch \in Nat \ {0}
  /\ MaxTentatives \in Nat /\ MaxPages \in Nat /\ MaxEchecs \in Nat /\ MaxRefus \in Nat

VARIABLES
  fichier,      \* mip_rum_retry: the spans kept and the attempts counted
  tombes,       \* mip_rum_retry_revoked_actions
  page,         \* page[o]: "absente", "visible" or "masquee"
  acces,        \* acces[o]: the page may touch the terminal (consent)
  abandonnees,  \* abandonnees[o]: roots given up for now (revokedRootsMemory)
  tampon,       \* tampon[o]: spans ended and not in a batch
  attente,      \* attente[o]: batches waiting for those before them
  vols,         \* vols[o]: batches sent and not answered
  ouvertes,     \* ouvertes[o]: actions whose effects may still name them
  etape,        \* etape[o]: what the callback under way has still to do to the storage
  emis,         \* spans produced so far
  serveur,      \* spans received
  lies,         \* actions whose effect was received with its link
  pages, echecs, refus, \* counters of the bounds
  \* History variables.
  presses,      \* actions with a span sent without waiting, by a hidden page
  refuses,      \* spans the user refused
  doubles       \* actions with a span that was at once in the file and in a tab's batches

terminal == <<fichier, tombes>>
sdk      == <<page, acces, abandonnees, tampon, attente, vols, ouvertes, etape>>
monde    == <<emis, serveur, lies>>
bornes   == <<pages, echecs, refus>>
traces   == <<presses, refuses, doubles>>
webVars  == <<terminal, sdk, monde, bornes, traces>>

Spans == (Actions \X {"racine"}) \cup (AvecEffet \X {"effet"})
FichierVide == [spans |-> <<>>, tentatives |-> 0]

\* No callback under way, or one that read the file to send it again ("rejoue"), has a
\* file to write ("ecrit"), or the roots given up ("marque").
Libre == [pas |-> "libre", fichier |-> FichierVide]
Reste(pas, f) == [pas |-> pas, fichier |-> f]

RacinesDe(lot) == {x.id[1] : x \in {y \in Range(lot) : y.id[2] = "racine"}}
IdsDe(lot) == {x.id : x \in Range(lot)}
ActionsDe(ids) == {s[1] : s \in ids}
Delier(lot, actions) ==
  [i \in DOMAIN lot |-> IF lot[i].id[2] = "effet" /\ lot[i].id[1] \in actions
                        THEN [lot[i] EXCEPT !.lie = FALSE] ELSE lot[i]]

\* What the batches of a tab hold.
Charge(o) ==
  IdsDe(tampon[o]) \cup (UNION {IdsDe(e.lot) : e \in Range(attente[o])}) \cup (UNION {IdsDe(v.lot) : v \in vols[o]})

\* What a tab holds, the file it has read or is to write included.
Tenus(o) == Charge(o) \cup IdsDe(etape[o].fichier.spans)

WebInit ==
  /\ fichier = FichierVide /\ tombes = {}
  /\ page = [o \in Onglets |-> "absente"]
  /\ acces = [o \in Onglets |-> TRUE]
  /\ abandonnees = [o \in Onglets |-> {}]
  /\ tampon = [o \in Onglets |-> <<>>]
  /\ attente = [o \in Onglets |-> <<>>]
  /\ vols = [o \in Onglets |-> {}]
  /\ ouvertes = [o \in Onglets |-> {}]
  /\ etape = [o \in Onglets |-> Libre]
  /\ emis = {} /\ serveur = {} /\ lies = {}
  /\ pages = 0 /\ echecs = 0 /\ refus = 0
  /\ presses = {} /\ refuses = {} /\ doubles = {}

(***************************************************************************)
(* The page.                                                               *)
(***************************************************************************)

\* The storage fails, which is not reported.
Panne == echecs < MaxEchecs /\ echecs' = echecs + 1

\* replayRetryQueue: the file is read; one that is empty or not due is left alone.
replayRetryQueue(o) ==
  \/ fichier.spans # <<>> /\ etape' = [etape EXCEPT ![o] = Reste("rejoue", fichier)]
  \/ UNCHANGED etape

\* The file, perhaps not the one read any more, is cleared, counter included; the spans
\* read go through the buffer again.
Rejouer(o) ==
  /\ etape[o].pas = "rejoue"
  /\ \/ fichier' = FichierVide /\ UNCHANGED echecs
     \/ Panne /\ UNCHANGED fichier
  /\ tampon' = [tampon EXCEPT ![o] = @ \o etape[o].fichier.spans]
  /\ etape' = [etape EXCEPT ![o] = Libre]
  /\ doubles' = doubles \cup ActionsDe(IdsDe(etape[o].fichier.spans) \cap IdsDe(fichier'.spans))
  /\ UNCHANGED <<tombes, page, acces, abandonnees, attente, vols, ouvertes, monde, pages, refus, presses, refuses>>

\* init of a page that needs no consent, or already has it.
Charger(o) ==
  /\ page[o] = "absente"
  /\ pages < MaxPages
  /\ pages' = pages + 1
  /\ page' = [page EXCEPT ![o] = "visible"]
  /\ acces' = [acces EXCEPT ![o] = TRUE]
  /\ replayRetryQueue(o)
  /\ UNCHANGED <<terminal, abandonnees, tampon, attente, vols, ouvertes, monde, echecs, refus, traces>>

\* The root of an action comes first; an effect names an action of its page.
Emettre(o, a) ==
  /\ page[o] # "absente" /\ acces[o]
  /\ \E s \in {<<a, "racine">>, <<a, "effet">>} \cap Spans :
       /\ s \notin emis
       /\ s[2] = "effet" => a \in ouvertes[o]
       /\ emis' = emis \cup {s}
       /\ tampon' = [tampon EXCEPT ![o] = Append(@, [id |-> s, lie |-> TRUE])]
  /\ ouvertes' = [ouvertes EXCEPT ![o] = @ \cup {a}]
  /\ UNCHANGED <<terminal, page, acces, abandonnees, attente, vols, etape, serveur, lies, bornes, traces>>

\* RetryExporter.export: the roots given up are read, those of the batch given back, the
\* effects of the others unlinked, the batch sent, and what is still given up written.
Exporter(o, lot, direct) ==
  \E lues \in {tombes, {}} :
    LET revoquees == (abandonnees[o] \cup lues) \ RacinesDe(lot)
    IN /\ IF lues = tombes THEN UNCHANGED echecs ELSE Panne
       /\ abandonnees' = [abandonnees EXCEPT ![o] = revoquees]
       /\ vols' = [vols EXCEPT ![o] = @ \cup {[lot |-> Delier(lot, revoquees), direct |-> direct]}]
       /\ etape' = [etape EXCEPT ![o] = Reste("marque", FichierVide)]
       /\ presses' = IF direct THEN presses \cup ActionsDe(IdsDe(lot)) ELSE presses

\* saveRevokedRoots: the roots given up by the page replace those of the storage.
Marquer(o) ==
  /\ etape[o].pas = "marque"
  /\ \/ tombes' = abandonnees[o] /\ UNCHANGED echecs
     \/ Panne /\ UNCHANGED tombes
  /\ etape' = [etape EXCEPT ![o] = Libre]
  /\ UNCHANGED <<fichier, page, acces, abandonnees, tampon, attente, vols, ouvertes, monde, pages, refus, traces>>

\* flushBatch of a visible page: a batch waits for those before it, and for those
\* sent without waiting.  What exceeds a batch is for the next one.
Vider(o) ==
  LET n == IF Len(tampon[o]) > MaxBatch THEN MaxBatch ELSE Len(tampon[o])
  IN /\ page[o] = "visible"
     /\ tampon[o] # <<>>
     /\ attente' = [attente EXCEPT ![o] = Append(@, [lot |-> SubSeq(tampon[o], 1, n),
                                                     apres |-> {v.lot : v \in {w \in vols[o] : w.direct}}])]
     /\ tampon' = [tampon EXCEPT ![o] = SubSeq(@, n + 1, Len(@))]
     /\ UNCHANGED <<terminal, page, acces, abandonnees, vols, ouvertes, etape, monde, bornes, traces>>

Envoyer(o) ==
  /\ attente[o] # <<>>
  /\ \A v \in vols[o] : v.direct /\ v.lot \notin Head(attente[o]).apres
  /\ attente' = [attente EXCEPT ![o] = Tail(@)]
  /\ Exporter(o, Head(attente[o]).lot, FALSE)
  /\ UNCHANGED <<terminal, page, acces, tampon, ouvertes, monde, pages, refus, refuses, doubles>>

\* The page is hidden, or emits while it is: the buffer leaves at once.
Masquer(o) ==
  /\ page[o] # "absente"
  /\ page' = [page EXCEPT ![o] = "masquee"]
  /\ IF tampon[o] = <<>>
     THEN page[o] = "visible" /\ UNCHANGED <<abandonnees, vols, etape, presses, echecs>>
     ELSE Exporter(o, tampon[o], TRUE)
  /\ tampon' = [tampon EXCEPT ![o] = <<>>]
  /\ UNCHANGED <<terminal, acces, attente, ouvertes, monde, pages, refus, refuses, doubles>>

Afficher(o) ==
  /\ page[o] = "masquee"
  /\ page' = [page EXCEPT ![o] = "visible"]
  /\ UNCHANGED <<terminal, acces, abandonnees, tampon, attente, vols, ouvertes, etape, monde, bornes, traces>>

(***************************************************************************)
(* The answers.                                                            *)
(***************************************************************************)

Recevoir(lots) ==
  /\ serveur' = serveur \cup UNION {IdsDe(l) : l \in lots}
  /\ lies' = lies \cup UNION {{x.id[1] : x \in {y \in Range(l) : y.id[2] = "effet" /\ y.lie}} : l \in lots}

Repondue(o, v) == v \in vols[o] /\ vols' = [vols EXCEPT ![o] = @ \ {v}]

Accepter(o, v) ==
  /\ Repondue(o, v)
  /\ Recevoir({v.lot})
  /\ UNCHANGED <<terminal, page, acces, abandonnees, tampon, attente, ouvertes, etape, emis, bornes, traces>>

\* The page gives actions up, and has f to write.
Revoquer(o, actions, f) ==
  /\ abandonnees' = [abandonnees EXCEPT ![o] = actions]
  /\ etape' = [etape EXCEPT ![o] = f]

\* An answer that says never again.
Refuser4xx(o, v) ==
  /\ Repondue(o, v)
  /\ echecs < MaxEchecs /\ echecs' = echecs + 1
  /\ Revoquer(o, abandonnees[o] \cup RacinesDe(v.lot), Reste("marque", FichierVide))
  /\ UNCHANGED <<terminal, page, acces, tampon, attente, ouvertes, monde, pages, refus, traces>>

\* Mutant: nothing is taken out of a full file.
appendRetry_SansBorne(liste, lot, revoquees) ==
  [spans |-> liste \o Delier(lot, revoquees \ RacinesDe(lot)), revoquees |-> revoquees \ RacinesDe(lot)]

\* The file and the roots given up: the oldest spans leave a full file, and the
\* effects of the roots that left with them are unlinked.
appendRetry(liste, lot, revoquees) ==
  LET restees == revoquees \ RacinesDe(lot)
      tout    == liste \o Delier(lot, restees)
      garde   == IF Len(tout) > MaxRetry THEN SubSeq(tout, Len(tout) - MaxRetry + 1, Len(tout)) ELSE tout
      evincees == RacinesDe(tout) \ RacinesDe(garde)
  IN [spans |-> Delier(garde, evincees), revoquees |-> restees \cup evincees]

\* Mutant: the roots kept in the file are not given up.
Garder_SansRevoquer(o, v, lu) ==
  LET suite == appendRetry(lu.spans, v.lot, abandonnees[o])
  IN Revoquer(o, suite.revoquees, Reste("ecrit", [spans |-> suite.spans, tentatives |-> lu.tentatives + 1]))

\* The batch is to join the file lu it has read; until its roots are sent again, the
\* batches that follow leave without them.
Garder(o, v, lu) ==
  LET suite == appendRetry(lu.spans, v.lot, abandonnees[o])
  IN Revoquer(o, suite.revoquees \cup RacinesDe(v.lot),
              Reste("ecrit", [spans |-> suite.spans, tentatives |-> lu.tentatives + 1]))

\* An answer that says later, or none: the server may have received the batch all the same.
\* The file is read; after too many attempts, which it counts, all is to be thrown away.
Echouer(o, v) ==
  /\ Repondue(o, v)
  /\ echecs < MaxEchecs /\ echecs' = echecs + 1
  /\ \/ Recevoir({v.lot})
     \/ UNCHANGED <<serveur, lies>>
  /\ \E lu \in {FichierVide} \cup (IF acces[o] THEN {fichier} ELSE {}) :
       IF lu.tentatives + 1 > MaxTentatives
       THEN Revoquer(o, abandonnees[o] \cup RacinesDe(v.lot), Reste("ecrit", FichierVide))
       ELSE Garder(o, v, lu)
  /\ UNCHANGED <<terminal, page, acces, tampon, attente, ouvertes, emis, pages, refus, traces>>

\* The file is written over whatever it has become, unless the user refuses.
EcrireFichier(o) ==
  /\ etape[o].pas = "ecrit"
  /\ \/ fichier' = (IF acces[o] THEN etape[o].fichier ELSE fichier) /\ UNCHANGED echecs
     \/ Panne /\ UNCHANGED fichier
  /\ etape' = [etape EXCEPT ![o] = Reste("marque", FichierVide)]
  /\ doubles' = doubles \cup ActionsDe(IdsDe(fichier'.spans) \cap UNION {Charge(p) : p \in Onglets})
  /\ UNCHANGED <<tombes, page, acces, abandonnees, tampon, attente, vols, ouvertes, monde, pages, refus, presses, refuses>>

(***************************************************************************)
(* Consent and death.                                                      *)
(***************************************************************************)

\* Mutant: the requests under way are not aborted.
discardPendingSpans_SansAnnuler(o) ==
  /\ tampon' = [tampon EXCEPT ![o] = <<>>]
  /\ attente' = [attente EXCEPT ![o] = <<>>]
  /\ UNCHANGED <<vols, serveur, lies>>

\* The batches are dropped and the requests aborted: some had arrived.
discardPendingSpans(o) ==
  /\ tampon' = [tampon EXCEPT ![o] = <<>>]
  /\ attente' = [attente EXCEPT ![o] = <<>>]
  /\ vols' = [vols EXCEPT ![o] = {}]
  /\ \E arrives \in SUBSET vols[o] : Recevoir({v.lot : v \in arrives})

\* consent(false): the file is dropped, which the storage is taken to accept, and the batches.
Retracter(o) ==
  /\ page[o] # "absente" /\ acces[o]
  /\ refus < MaxRefus /\ refus' = refus + 1
  /\ acces' = [acces EXCEPT ![o] = FALSE]
  /\ fichier' = FichierVide
  /\ Revoquer(o, {}, Reste("marque", FichierVide))
  /\ discardPendingSpans(o)
  /\ ouvertes' = [ouvertes EXCEPT ![o] = {}]
  /\ refuses' = refuses \cup ((IdsDe(fichier.spans) \cup Tenus(o)) \ UNION {Tenus(p) : p \in Onglets \ {o}})
  /\ UNCHANGED <<tombes, page, emis, pages, echecs, presses, doubles>>

\* consent(true): the file, which another tab may have filled, is sent again.
Accorder(o) ==
  /\ page[o] # "absente" /\ ~acces[o]
  /\ acces' = [acces EXCEPT ![o] = TRUE]
  /\ replayRetryQueue(o)
  /\ UNCHANGED <<terminal, page, abandonnees, tampon, attente, vols, ouvertes, monde, bornes, traces>>

\* The page goes, in the middle of a callback perhaps, with what it held; its requests may
\* arrive.
Quitter(o) ==
  /\ page[o] # "absente"
  /\ page' = [page EXCEPT ![o] = "absente"]
  /\ abandonnees' = [abandonnees EXCEPT ![o] = {}]
  /\ ouvertes' = [ouvertes EXCEPT ![o] = {}]
  /\ tampon' = [tampon EXCEPT ![o] = <<>>]
  /\ attente' = [attente EXCEPT ![o] = <<>>]
  /\ vols' = [vols EXCEPT ![o] = {}]
  /\ etape' = [etape EXCEPT ![o] = Libre]
  /\ \E arrives \in SUBSET vols[o] : Recevoir({v.lot : v \in arrives})
  /\ UNCHANGED <<terminal, acces, emis, bornes, traces>>

\* The callbacks of a tab, one at a time.
Commencer(o) ==
  /\ etape[o] = Libre
  /\ \/ Charger(o)
     \/ \E a \in Actions : Emettre(o, a)
     \/ Vider(o)
     \/ Envoyer(o)
     \/ Masquer(o)
     \/ Afficher(o)
     \/ \E v \in vols[o] : Accepter(o, v) \/ Refuser4xx(o, v) \/ Echouer(o, v)
     \/ Retracter(o)
     \/ Accorder(o)

WebNext ==
  \E o \in Onglets : Commencer(o) \/ Rejouer(o) \/ EcrireFichier(o) \/ Marquer(o) \/ Quitter(o)

WebSpec == WebInit /\ [][WebNext]_webVars

(***************************************************************************)
(* Properties.                                                             *)
(***************************************************************************)

Element == [id : Spans, lie : BOOLEAN]

\* Type invariant: the file, and the one a tab is to write, keep to the bound and to
\* the last attempt, whatever two tabs write over each other; a page that is gone or
\* has no consent holds nothing, not even a file it has read.
WebTypeOK ==
  /\ \A f \in {fichier} \cup {etape[o].fichier : o \in Onglets} :
       /\ Range(f.spans) \subseteq Element
       /\ Len(f.spans) <= MaxRetry /\ f.tentatives \in 0..MaxTentatives
  /\ tombes \subseteq Actions
  /\ \A o \in Onglets :
       /\ page[o] \in {"absente", "visible", "masquee"}
       /\ etape[o].pas \in {"libre", "rejoue", "ecrit", "marque"}
       /\ abandonnees[o] \cup ouvertes[o] \subseteq Actions
       /\ Range(tampon[o]) \subseteq Element
       /\ page[o] = "absente" \/ ~acces[o] => Tenus(o) = {}
  /\ serveur \subseteq emis /\ emis \subseteq Spans

\* "pour qu'un enfant ne dépasse jamais sa racine": an effect received with its
\* link has its root on the server already, through failures, evictions, a file
\* thrown away or written over, another tab or another page load.  One exception
\* is made by the code: a hidden page sends without waiting.  The other is not: the
\* file kept spans that a tab had taken from it (README, counterexamples without a
\* run).
EnfantApresRacine ==
  \A a \in lies : <<a, "racine">> \in serveur \/ a \in presses \/ a \in doubles

\* "un refus explicite les rend irrécupérables": what the page and the file held
\* when consent was withdrawn never comes back to the file or to a batch, a
\* consent given again included.  What another tab holds, the file it has just read
\* included, is that tab's.
RefusTient ==
  refuses \cap (IdsDe(fichier.spans) \cup UNION {Tenus(o) : o \in Onglets}) = {}
===============================================================================
