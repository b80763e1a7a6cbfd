--------------------------- MODULE ServiceLifecycle ---------------------------
(***************************************************************************)
(* The life of a service process (service-kit: lifecycle.mjs, loop.mjs,    *)
(* http.mjs, pg.mjs): a boot opens a pool, starts loops and an HTTP        *)
(* server; a signal or an uncaught error asks for the stop, at any moment, *)
(* the boot included.  The stop drains the sources of work, all at once    *)
(* and for a bounded time, then closes what the work was using, then       *)
(* exits; a timer of its own ends the process if that hangs.               *)
(*                                                                         *)
(* Two callbacks of one process never run at once: an action is a callback *)
(* up to its next await.                                                   *)
(***************************************************************************)
EXTENDS Integers

CONSTANTS Boucles,    \* loops of the service
          Immediates, \* those whose first turn starts with them
          Clients,    \* HTTP connections
          Http        \* the drain hook of the server

ASSUME ImmediatesAssumption == Immediates \subseteq Boucles
ASSUME HttpAssumption == Http \notin Boucles

Vivant == -1

VARIABLES
  etat,         \* of the lifecycle
  drainLance,   \* the hooks registered so far are launched
  delaiAtteint, \* the drain deadline has passed: the signal is aborted
  crochets,     \* hooks waiting for the drain
  enVol,        \* drains launched and not finished
  forcee,       \* the forced exit timer is armed
  codeSortie,   \* exit code, if the stop ends by itself
  sigints,      \* Ctrl-C received
  sortie,       \* exit code of the process, Vivant before
  demarrees, micro, minuterie, tours, arretees, \* sets of loops: started; first
                \* turn queued; timer armed; turn under way; stopped
  serveur,      \* listening, and closing
  fermerDemande,\* close was called before the port was open
  actives, inactives, \* connections: with a request; kept alive
  requetes,     \* requests whose handler is running
  pool          \* "fin": end was called; "fini": it is over

cycle   == <<etat, drainLance, delaiAtteint, crochets, enVol, forcee, codeSortie, sigints, sortie>>
boucles == <<demarrees, micro, minuterie, tours, arretees>>
http    == <<serveur, fermerDemande, actives, inactives, requetes>>
vars    == <<cycle, boucles, http, pool>>

Init ==
  /\ etat = "running" /\ sortie = Vivant /\ codeSortie = 0 /\ sigints = 0
  /\ drainLance = FALSE /\ delaiAtteint = FALSE /\ forcee = FALSE
  /\ crochets = {} /\ enVol = {}
  /\ demarrees = {} /\ micro = {} /\ minuterie = {} /\ tours = {} /\ arretees = {}
  /\ serveur = "absent" /\ fermerDemande = FALSE
  /\ actives = {} /\ inactives = {} /\ requetes = {}
  /\ pool = "absent"

Draining == etat # "running"

(***************************************************************************)
(* The boot: the pool, then the loops and the server, with an await        *)
(* anywhere between them.                                                  *)
(***************************************************************************)

\* onClose: a pool opened once the closing has begun is ended at once.
CreerPool ==
  /\ pool = "absent"
  /\ pool' = IF etat \in {"running", "draining"} THEN "ouvert" ELSE "fin"
  /\ UNCHANGED <<cycle, boucles, http>>

\* A hook registered once the drain is launched is launched at once.
onDrain(h) ==
  IF drainLance
  THEN enVol' = enVol \cup {h} /\ UNCHANGED crochets
  ELSE crochets' = crochets \cup {h} /\ UNCHANGED enVol

\* startLoop: a loop started while the service stops never runs.
startLoop(b) ==
  /\ pool # "absent"
  /\ b \notin demarrees
  /\ demarrees' = demarrees \cup {b}
  /\ IF Draining
     THEN arretees' = arretees \cup {b} /\ UNCHANGED <<micro, minuterie>>
     ELSE IF b \in Immediates
     THEN micro' = micro \cup {b} /\ UNCHANGED <<minuterie, arretees>>
     ELSE minuterie' = minuterie \cup {b} /\ UNCHANGED <<micro, arretees>>
  /\ onDrain(b)
  /\ UNCHANGED <<etat, drainLance, delaiAtteint, forcee, codeSortie, sigints, sortie, tours, http, pool>>

\* startService: the port opens later; a drain already launched asks for the
\* closing, which waits for it.
startService ==
  /\ pool # "absent"
  /\ serveur = "absent"
  /\ serveur' = "ouverture"
  /\ onDrain(Http)
  /\ fermerDemande' = (Http \in enVol')
  /\ UNCHANGED <<etat, drainLance, delaiAtteint, forcee, codeSortie, sigints, sortie, boucles,
                 actives, inactives, requetes, pool>>

\* listening: open, or refused.
Ecouter ==
  /\ serveur = "ouverture"
  /\ serveur' \in {IF fermerDemande THEN "fermeture" ELSE "ouvert", "ferme"}
  /\ UNCHANGED <<cycle, boucles, fermerDemande, actives, inactives, requetes, pool>>

(***************************************************************************)
(* The stop.                                                               *)
(***************************************************************************)

\* shutdown: only the first call does anything but raise the exit code.
shutdown(code) ==
  /\ codeSortie' = IF code > codeSortie THEN code ELSE codeSortie
  /\ IF Draining THEN UNCHANGED <<etat, forcee>> ELSE etat' = "draining" /\ forcee' = TRUE
  /\ UNCHANGED <<drainLance, delaiAtteint, crochets, enVol>>

\* SIGTERM, or SIGINT: the second one ends the process.
Signal ==
  \/ shutdown(0) /\ UNCHANGED <<sigints, sortie>>
  \/ /\ sigints < 2
     /\ sigints' = sigints + 1
     /\ IF sigints = 1
        THEN sortie' = 130 /\ UNCHANGED <<etat, drainLance, delaiAtteint, crochets, enVol, forcee, codeSortie>>
        ELSE shutdown(0) /\ UNCHANGED sortie

\* unhandledRejection and uncaughtException.
Garde == shutdown(1) /\ UNCHANGED <<sigints, sortie>>

Arret ==
  /\ Signal \/ Garde
  /\ UNCHANGED <<boucles, http, pool>>

\* After the withdrawal delay, all hooks at once: the loops are stopped, the
\* server is closed, its idle connections with it, and the others too if the
\* deadline has passed.
Drainer ==
  /\ etat = "draining"
  /\ ~drainLance
  /\ drainLance' = TRUE
  /\ enVol' = enVol \cup crochets
  /\ crochets' = {}
  /\ arretees' = arretees \cup (crochets \cap Boucles)
  /\ minuterie' = minuterie \ crochets
  /\ IF Http \in crochets /\ serveur = "ouvert"
     THEN serveur' = "fermeture" /\ inactives' = {} /\ actives' = IF delaiAtteint THEN {} ELSE actives
     ELSE UNCHANGED <<serveur, actives, inactives>>
  /\ fermerDemande' = (fermerDemande \/ Http \in crochets)
  /\ UNCHANGED <<etat, delaiAtteint, forcee, codeSortie, sigints, sortie, demarrees, micro, tours, requetes, pool>>

\* The drain deadline: the server cuts its connections.
DelaiDrain ==
  /\ etat = "draining"
  /\ ~delaiAtteint
  /\ delaiAtteint' = TRUE
  /\ IF serveur = "fermeture" THEN actives' = {} /\ inactives' = {} ELSE UNCHANGED <<actives, inactives>>
  /\ UNCHANGED <<etat, drainLance, crochets, enVol, forcee, codeSortie, sigints, sortie, boucles,
                 serveur, fermerDemande, requetes, pool>>

\* Mutant: stop does not wait for the turn under way.
BoucleDrainee_SansAttendre(b) ==
  /\ b \in enVol
  /\ enVol' = enVol \ {b}

\* A drain ends: the loop has no turn under way, the server has no connection.
BoucleDrainee(b) ==
  /\ b \in enVol \ tours
  /\ enVol' = enVol \ {b}

DrainFini ==
  /\ \/ \E b \in Boucles : BoucleDrainee(b)
     \/ serveur = "ferme" /\ Http \in enVol /\ enVol' = enVol \ {Http}
  /\ UNCHANGED <<etat, drainLance, delaiAtteint, crochets, forcee, codeSortie, sigints, sortie, boucles, http, pool>>

\* Mutant: the forced exit is disarmed before the resources are closed.
Fermer_SansFilet ==
  /\ etat = "draining" /\ drainLance
  /\ enVol = {} \/ delaiAtteint
  /\ etat' = "closing"
  /\ pool' = IF pool = "ouvert" THEN "fin" ELSE pool
  /\ forcee' = FALSE
  /\ UNCHANGED <<drainLance, delaiAtteint, crochets, enVol, codeSortie, sigints, sortie, boucles, http>>

\* Nothing in flight, or no time left: the pool is ended.
Fermer ==
  /\ etat = "draining" /\ drainLance
  /\ enVol = {} \/ delaiAtteint
  /\ etat' = "closing"
  /\ pool' = IF pool = "ouvert" THEN "fin" ELSE pool
  /\ UNCHANGED <<drainLance, delaiAtteint, crochets, enVol, forcee, codeSortie, sigints, sortie, boucles, http>>

\* end resolves once every client is given back, and may never do so.
PoolFini ==
  /\ pool = "fin"
  /\ tours = {} /\ requetes = {}
  /\ pool' = "fini"
  /\ UNCHANGED <<cycle, boucles, http>>

\* The end of the closing: fermer has returned, with or without an error.
Sortir ==
  /\ etat = "closing"
  /\ \/ pool \in {"absent", "fini"} /\ sortie' = codeSortie
     \/ pool = "fin" /\ sortie' = 1
  /\ codeSortie' = sortie'
  /\ etat' = "stopped"
  /\ forcee' = FALSE
  /\ UNCHANGED <<drainLance, delaiAtteint, crochets, enVol, sigints, boucles, http, pool>>

\* Later than the drain deadline, which is shorter.
SortieForcee ==
  /\ forcee
  /\ delaiAtteint \/ etat # "draining"
  /\ sortie' = 1
  /\ UNCHANGED <<etat, drainLance, delaiAtteint, crochets, enVol, forcee, codeSortie, sigints, boucles, http, pool>>

(***************************************************************************)
(* The work.                                                               *)
(***************************************************************************)

\* tour: nothing if one is under way or the loop is stopped.
tour(b) ==
  IF b \in tours \/ b \in arretees
  THEN UNCHANGED <<tours, minuterie>>
  ELSE tours' = tours \cup {b} /\ minuterie' = minuterie \ {b}

\* The first turn of an immediate loop, the timer, or runNow.
Tour(b) ==
  /\ \/ b \in micro /\ micro' = micro \ {b} /\ tour(b)
     \/ b \in minuterie /\ tours' = tours \cup {b} /\ minuterie' = minuterie \ {b} /\ UNCHANGED micro
     \/ b \in demarrees \ micro /\ tour(b) /\ UNCHANGED micro
  /\ UNCHANGED <<cycle, demarrees, arretees, http, pool>>

\* A turn ends, well or not, and arms the next one unless the loop is stopped;
\* a delay that cannot be computed is an unhandled rejection.
TourFini(b) ==
  /\ b \in tours
  /\ tours' = tours \ {b}
  /\ \/ /\ minuterie' = IF b \in arretees THEN minuterie ELSE minuterie \cup {b}
        /\ UNCHANGED cycle
     \/ b \notin arretees /\ UNCHANGED minuterie /\ Garde
  /\ UNCHANGED <<demarrees, micro, arretees, http, pool>>

\* A request, on a new connection or on one kept alive that the sweep has not
\* closed yet.
Requete(c) ==
  /\ c \notin requetes
  /\ \/ serveur = "ouvert" /\ c \notin actives
     \/ serveur = "fermeture" /\ c \in inactives
  /\ actives' = actives \cup {c}
  /\ inactives' = inactives \ {c}
  /\ requetes' = requetes \cup {c}
  /\ UNCHANGED <<cycle, boucles, serveur, fermerDemande, pool>>

\* The handler ends.  The connection, if it is still there, is kept alive, or
\* closed when the answer says so.
Reponse(c) ==
  /\ c \in requetes
  /\ requetes' = requetes \ {c}
  /\ actives' = actives \ {c}
  /\ inactives' \in {inactives} \cup (IF c \in actives THEN {inactives \cup {c}} ELSE {})
  /\ UNCHANGED <<cycle, boucles, serveur, fermerDemande, pool>>

\* The client leaves, or the sweep closes an idle connection: a handler that is
\* running goes on.
Partir(c) ==
  /\ c \in actives \cup inactives
  /\ actives' = actives \ {c}
  /\ inactives' = inactives \ {c}
  /\ UNCHANGED <<cycle, boucles, serveur, fermerDemande, requetes, pool>>

\* The last connection is gone.
ServeurFerme ==
  /\ serveur = "fermeture"
  /\ actives = {} /\ inactives = {}
  /\ serveur' = "ferme"
  /\ UNCHANGED <<cycle, boucles, fermerDemande, actives, inactives, requetes, pool>>

Demarrage == CreerPool \/ (\E b \in Boucles : startLoop(b)) \/ startService \/ Ecouter
Fin       == Arret \/ Drainer \/ DelaiDrain \/ DrainFini \/ Fermer \/ PoolFini \/ Sortir \/ SortieForcee
Travail   == \/ \E b \in Boucles : Tour(b) \/ TourFini(b)
             \/ \E c \in Clients : Requete(c) \/ Reponse(c) \/ Partir(c)
             \/ ServeurFerme

\* The process, and what is left of it.
Next ==
  \/ sortie = Vivant /\ (Demarrage \/ Fin \/ Travail)
  \/ sortie # Vivant /\ UNCHANGED vars

\* Callbacks that are due run, and timers fire; turns, requests and the end of
\* the pool may last for ever.
Spec ==
  /\ Init /\ [][Next]_vars
  /\ WF_vars(sortie = Vivant /\ (Drainer \/ DelaiDrain))
  /\ WF_vars(sortie = Vivant /\ Fermer)
  /\ WF_vars(sortie = Vivant /\ SortieForcee)

(***************************************************************************)
(* Properties.                                                             *)
(***************************************************************************)

\* Type invariant.  A loop of a running service has exactly one next step: its
\* first turn queued, its timer armed, or its turn under way; a failed turn
\* does not end it, and a turn asked for by hand does not double it.
TypeOK ==
  /\ etat \in {"running", "draining", "closing", "stopped"}
  /\ sortie \in {Vivant, 0, 1, 130} /\ codeSortie \in {0, 1} /\ sigints \in 0..2
  /\ {drainLance, delaiAtteint, forcee, fermerDemande} \subseteq BOOLEAN
  /\ crochets \cup enVol \subseteq Boucles \cup {Http}
  /\ demarrees \subseteq Boucles
  /\ micro \cup minuterie \cup tours \cup arretees \subseteq demarrees
  /\ serveur \in {"absent", "ouverture", "ouvert", "fermeture", "ferme"}
  /\ actives \cup inactives \cup requetes \subseteq Clients
  /\ pool \in {"absent", "ouvert", "fin", "fini"}
  /\ micro \cap (minuterie \cup tours) = {}
  /\ minuterie \cap tours = {}
  /\ etat = "running" => demarrees \subseteq micro \cup minuterie \cup tours

\* "APRÈS le drainage, jamais avant": once the pool is ended nothing can start
\* any more, whenever the loop or the server was started; and unless the drain
\* ran out of time, no turn is under way and no client is waiting for an answer.
FermetureApresTravail ==
  pool \in {"fin", "fini"} =>
    /\ demarrees \subseteq arretees
    /\ minuterie = {}
    /\ serveur # "ouvert"
    /\ delaiAtteint \/ (tours = {} /\ actives = {})

\* A process asked to stop exits, whatever hangs, and one that a guard stopped
\* exits with a failure.
Sortie ==
  \A n \in {0, 1} : (etat # "running" /\ codeSortie >= n) ~> (sortie >= n)
===============================================================================
