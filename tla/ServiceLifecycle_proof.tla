------------------------ MODULE ServiceLifecycle_proof ------------------------
(***************************************************************************)
(* TypeOK and FermetureApresTravail, for any number of loops and clients.  *)
(*                                                                         *)
(* FermetureApresTravail says nothing of how the work is emptied, so it is *)
(* not inductive.  IInv says who will drain what: a loop or a server waits *)
(* among the hooks until the drain is launched; from then on a loop is     *)
(* stopped and its turn is in flight, and a server that can still hold a   *)
(* connection is in flight too.                                            *)
(***************************************************************************)
EXTENDS ServiceLifecycle, TLAPS

\* What each state of the lifecycle has behind it.
Ordre ==
  /\ drainLance => Draining
  /\ etat \in {"closing", "stopped"} => drainLance
  /\ pool \in {"fin", "fini"} => etat \in {"closing", "stopped"}
  /\ arretees # {} => Draining

\* Hooks are those of what was started; before the drain, all of it.
Inscrits ==
  /\ crochets \cup enVol \subseteq demarrees \cup {Http}
  /\ ~drainLance => /\ demarrees \subseteq crochets
                    /\ serveur # "absent" => Http \in crochets
                    /\ enVol = {}

\* After it, loops are stopped, and a turn under way is waited for.
BouclesArretees ==
  drainLance =>
    /\ demarrees \subseteq arretees
    /\ minuterie = {}
    /\ tours \subseteq enVol

\* A server that closes, or that will, is waited for; only one that is open or
\* closing has connections.
ServeurAttendu ==
  /\ drainLance => serveur # "ouvert" /\ (serveur = "ouverture" => fermerDemande)
  /\ serveur = "fermeture" \/ (serveur = "ouverture" /\ fermerDemande) =>
       drainLance /\ Http \in enVol
  /\ serveur \notin {"ouvert", "fermeture"} => actives = {} /\ inactives = {}

\* Closing in time, there is nothing left.
PlusRien ==
  etat \in {"closing", "stopped"} /\ ~delaiAtteint =>
    tours = {} /\ actives = {} /\ inactives = {}

IInv == TypeOK /\ Ordre /\ Inscrits /\ BouclesArretees /\ ServeurAttendu /\ PlusRien

\* A pool opened while the process closes is ended at once.
LEMMA CreerPoolIInv ==
  ASSUME IInv, CreerPool
  PROVE  IInv'
  BY DEF IInv, TypeOK, Ordre, Inscrits, BouclesArretees, ServeurAttendu, PlusRien,
         CreerPool, Draining, cycle, boucles, http

\* A loop has its hook, or its drain, from the moment it starts.
LEMMA StartLoopIInv ==
  ASSUME IInv, NEW b \in Boucles, startLoop(b)
  PROVE  IInv'
  <1> USE DEF IInv, startLoop, onDrain
  <1>1. TypeOK' /\ Ordre' /\ Inscrits' /\ ServeurAttendu' /\ PlusRien'
    BY DEF TypeOK, Ordre, Inscrits, ServeurAttendu, PlusRien, http, Draining
  <1>2. BouclesArretees'
    BY DEF BouclesArretees, Ordre, http, Draining
  <1> QED
    BY <1>1, <1>2

\* So has the server, before its port is open.
LEMMA StartServiceIInv ==
  ASSUME IInv, startService
  PROVE  IInv'
  <1> USE DEF IInv, startService, onDrain
  <1>1. TypeOK' /\ Inscrits' /\ BouclesArretees' /\ PlusRien'
    BY DEF TypeOK, Inscrits, BouclesArretees, PlusRien, boucles
  <1>2. Ordre'
    BY DEF Ordre, boucles, Draining
  <1>3. ServeurAttendu'
    BY DEF ServeurAttendu, Ordre, Inscrits, boucles, Draining
  <1> QED
    BY <1>1, <1>2, <1>3

\* A port that opens late is closed at once if the drain asked for it.
LEMMA EcouterIInv ==
  ASSUME IInv, Ecouter
  PROVE  IInv'
  BY DEF IInv, TypeOK, Ordre, Inscrits, BouclesArretees, ServeurAttendu, PlusRien,
         Ecouter, Draining, cycle, boucles

\* The stop may be asked for again and again, and by an error.
LEMMA ArretIInv ==
  ASSUME IInv, Arret
  PROVE  IInv'
  <1> USE DEF IInv, Arret, Signal, Garde, shutdown
  <1>1. Ordre' /\ Inscrits' /\ BouclesArretees' /\ ServeurAttendu' /\ PlusRien'
    BY DEF Ordre, Inscrits, BouclesArretees, ServeurAttendu, PlusRien, boucles, http, Draining
  <1>2. TypeOK'
    <2>1. CASE Garde
      BY <2>1 DEF TypeOK, Draining, Vivant, cycle, boucles, http
    <2>2. CASE Signal
      <3>1. sortie' \in {Vivant, 0, 1, 130} /\ sigints' \in 0..2
        BY <2>2 DEF TypeOK, Vivant
      <3>2. /\ etat' \in {"running", "draining", "closing", "stopped"} /\ codeSortie' \in {0, 1}
            /\ etat' = "running" => etat = "running"
            /\ forcee' \in BOOLEAN
        BY <2>2 DEF TypeOK, Draining
      <3>3. UNCHANGED <<drainLance, delaiAtteint, crochets, enVol, boucles, http, pool>>
        BY <2>2
      <3> QED
        BY <3>1, <3>2, <3>3 DEF TypeOK, boucles, http
    <2> QED
      BY <2>1, <2>2
  <1> QED
    BY <1>1, <1>2

\* The drain: every loop is stopped, every hook is in flight.
LEMMA DrainerIInv ==
  ASSUME IInv, Drainer
  PROVE  IInv'
  <1> USE DEF IInv, Drainer
  <1>1. Inscrits' /\ PlusRien'
    BY DEF Inscrits, PlusRien
  <1>2. TypeOK'
    <2>1. enVol' \cup crochets' \subseteq Boucles \cup {Http} /\ arretees' \subseteq demarrees'
      BY HttpAssumption DEF TypeOK, Inscrits
    <2>2. actives' \cup inactives' \subseteq Clients /\ serveur' \in {"fermeture", serveur}
      BY DEF TypeOK
    <2>3. etat' # "running" /\ fermerDemande' \in BOOLEAN
      BY DEF TypeOK
    <2> QED
      BY <2>1, <2>2, <2>3 DEF TypeOK
  <1>3. Ordre'
    BY DEF Ordre, Draining
  <1>4. BouclesArretees'
    BY DEF BouclesArretees, Ordre, Inscrits, TypeOK, Draining
  <1>5. ServeurAttendu'
    BY DEF ServeurAttendu, Ordre, Inscrits, Draining
  <1> QED
    BY <1>1, <1>2, <1>3, <1>4, <1>5

\* Out of time: the connections are cut.
LEMMA DelaiDrainIInv ==
  ASSUME IInv, DelaiDrain
  PROVE  IInv'
  BY DEF IInv, TypeOK, Ordre, Inscrits, BouclesArretees, ServeurAttendu, PlusRien,
         DelaiDrain, Draining, boucles

\* A drain ends when what it waits for has ended.
LEMMA DrainFiniIInv ==
  ASSUME IInv, DrainFini
  PROVE  IInv'
  <1> USE DEF IInv, DrainFini, BoucleDrainee
  <1>1. TypeOK' /\ Inscrits' /\ PlusRien'
    BY DEF TypeOK, Inscrits, PlusRien, boucles, http
  <1>2. Ordre'
    BY DEF Ordre, boucles, http, Draining
  <1>3. BouclesArretees'
    BY HttpAssumption DEF BouclesArretees, TypeOK, boucles, http
  <1>4. ServeurAttendu'
    BY HttpAssumption DEF ServeurAttendu, TypeOK, boucles, http
  <1> QED
    BY <1>1, <1>2, <1>3, <1>4

\* In time, nothing is in flight, hence no turn and no connection.
LEMMA FermerIInv ==
  ASSUME IInv, Fermer
  PROVE  IInv'
  <1> USE DEF IInv, Fermer
  <1>1. TypeOK' /\ Inscrits' /\ BouclesArretees' /\ ServeurAttendu'
    BY DEF TypeOK, Inscrits, BouclesArretees, ServeurAttendu, boucles, http
  <1>2. Ordre'
    BY DEF Ordre, boucles, http, Draining
  <1>3. PlusRien'
    BY DEF PlusRien, Ordre, Inscrits, BouclesArretees, ServeurAttendu, TypeOK, boucles, http, Draining
  <1> QED
    BY <1>1, <1>2, <1>3

\* The pool is over.
LEMMA PoolFiniIInv ==
  ASSUME IInv, PoolFini
  PROVE  IInv'
  BY DEF IInv, TypeOK, Ordre, Inscrits, BouclesArretees, ServeurAttendu, PlusRien,
         PoolFini, Draining, cycle, boucles, http

\* The process exits by itself.
LEMMA SortirIInv ==
  ASSUME IInv, Sortir
  PROVE  IInv'
  <1> USE DEF IInv, Sortir
  <1>1. Inscrits' /\ BouclesArretees' /\ ServeurAttendu' /\ PlusRien'
    BY DEF Inscrits, BouclesArretees, ServeurAttendu, PlusRien, boucles, http
  <1>2. TypeOK'
    BY DEF TypeOK, boucles, http
  <1>3. Ordre'
    BY DEF Ordre, boucles, http, Draining
  <1> QED
    BY <1>1, <1>2, <1>3

\* It is made to.
LEMMA SortieForceeIInv ==
  ASSUME IInv, SortieForcee
  PROVE  IInv'
  BY DEF IInv, TypeOK, Ordre, Inscrits, BouclesArretees, ServeurAttendu, PlusRien,
         SortieForcee, Draining, boucles, http

\* No turn starts once the loops are stopped.
LEMMA TourIInv ==
  ASSUME IInv, NEW b \in Boucles, Tour(b)
  PROVE  IInv'
  <1> USE DEF IInv, Tour, tour
  <1>1. Inscrits' /\ ServeurAttendu'
    BY DEF Inscrits, ServeurAttendu, cycle, http
  <1>2. TypeOK'
    BY DEF TypeOK, Ordre, cycle, http, Draining
  <1>3. Ordre'
    BY DEF Ordre, cycle, http, Draining
  <1>4. BouclesArretees'
    BY DEF BouclesArretees, TypeOK, cycle, http
  <1>5. PlusRien'
    BY DEF PlusRien, Ordre, Inscrits, BouclesArretees, ServeurAttendu, TypeOK, cycle, http, Draining
  <1> QED
    BY <1>1, <1>2, <1>3, <1>4, <1>5

\* The end of a turn arms nothing once the loop is stopped.
LEMMA TourFiniIInv ==
  ASSUME IInv, NEW b \in Boucles, TourFini(b)
  PROVE  IInv'
  <1> USE DEF IInv, TourFini, Garde, shutdown
  <1>1. Ordre' /\ Inscrits' /\ ServeurAttendu' /\ PlusRien'
    BY DEF Ordre, Inscrits, ServeurAttendu, PlusRien, cycle, http, Draining
  <1>2. TypeOK'
    <2>1. CASE b \in arretees
      BY <2>1 DEF TypeOK, Ordre, Draining, cycle, http
    <2>2. CASE b \notin arretees /\ UNCHANGED cycle
      BY <2>2 DEF TypeOK, Draining, cycle, http
    <2>3. CASE b \notin arretees /\ UNCHANGED minuterie /\ Garde
      <3>1. /\ etat' \in {"draining", "closing", "stopped"} /\ codeSortie' \in {0, 1}
            /\ forcee' \in BOOLEAN
        BY <2>3 DEF TypeOK, Draining
      <3> QED
        BY <2>3, <3>1 DEF TypeOK, http
    <2> QED
      BY <2>1, <2>2, <2>3
  <1>3. BouclesArretees'
    BY DEF BouclesArretees, TypeOK, cycle, http, Draining
  <1> QED
    BY <1>1, <1>2, <1>3

\* No request comes in once the server is closed.
LEMMA RequeteIInv ==
  ASSUME IInv, NEW c \in Clients, Requete(c)
  PROVE  IInv'
  <1> USE DEF IInv, Requete
  <1>1. TypeOK' /\ Inscrits' /\ BouclesArretees' /\ ServeurAttendu'
    BY DEF TypeOK, Inscrits, BouclesArretees, ServeurAttendu, cycle, boucles
  <1>2. Ordre'
    BY DEF Ordre, cycle, boucles, Draining
  <1>3. PlusRien'
    BY DEF PlusRien, ServeurAttendu, Ordre, cycle, boucles, Draining
  <1> QED
    BY <1>1, <1>2, <1>3

\* Only a connection that is there is kept alive.
LEMMA ReponseIInv ==
  ASSUME IInv, NEW c \in Clients, Reponse(c)
  PROVE  IInv'
  BY DEF IInv, TypeOK, Ordre, Inscrits, BouclesArretees, ServeurAttendu, PlusRien,
         Reponse, Draining, cycle, boucles

\* A client leaves.
LEMMA PartirIInv ==
  ASSUME IInv, NEW c \in Clients, Partir(c)
  PROVE  IInv'
  BY DEF IInv, TypeOK, Ordre, Inscrits, BouclesArretees, ServeurAttendu, PlusRien,
         Partir, Draining, cycle, boucles

\* The last connection is gone.
LEMMA ServeurFermeIInv ==
  ASSUME IInv, ServeurFerme
  PROVE  IInv'
  BY DEF IInv, TypeOK, Ordre, Inscrits, BouclesArretees, ServeurAttendu, PlusRien,
         ServeurFerme, Draining, cycle, boucles

\* The process starts with nothing.
LEMMA InitIInv == Init => IInv
  <1> SUFFICES ASSUME Init PROVE IInv
    OBVIOUS
  <1>1. TypeOK
    <2>1. etat \in {"running", "draining", "closing", "stopped"}
      BY DEF Init
    <2>2. sortie \in {Vivant, 0, 1, 130} /\ codeSortie \in {0, 1} /\ sigints \in 0..2
      BY DEF Init
    <2>3. {drainLance, delaiAtteint, forcee, fermerDemande} \subseteq BOOLEAN
      BY DEF Init
    <2> QED
      BY <2>1, <2>2, <2>3 DEF Init, TypeOK
  <1>2. Ordre /\ Inscrits /\ BouclesArretees /\ ServeurAttendu /\ PlusRien
    BY DEF Init, Ordre, Inscrits, BouclesArretees, ServeurAttendu, PlusRien, Draining
  <1> QED
    BY <1>1, <1>2 DEF IInv

\* Every step of the process.
LEMMA NextIInv == IInv /\ [Next]_vars => IInv'
  <1> SUFFICES ASSUME IInv, [Next]_vars PROVE IInv'
    OBVIOUS
  <1>1. CASE Demarrage
    BY <1>1, CreerPoolIInv, StartLoopIInv, StartServiceIInv, EcouterIInv DEF Demarrage
  <1>2. CASE Fin
    BY <1>2, ArretIInv, DrainerIInv, DelaiDrainIInv, DrainFiniIInv, FermerIInv, PoolFiniIInv,
       SortirIInv, SortieForceeIInv DEF Fin
  <1>3. CASE Travail
    BY <1>3, TourIInv, TourFiniIInv, RequeteIInv, ReponseIInv, PartirIInv, ServeurFermeIInv DEF Travail
  <1>4. CASE UNCHANGED vars
    BY <1>4 DEF IInv, TypeOK, Ordre, Inscrits, BouclesArretees, ServeurAttendu, PlusRien,
                Draining, vars, cycle, boucles, http
  <1> QED
    BY <1>1, <1>2, <1>3, <1>4 DEF Next

\* Hence in every state.
LEMMA Invariant == Spec => []IInv
  BY InitIInv, NextIInv, PTL DEF Spec

\* A loop of a running service has exactly one next step, whatever turns fail or are
\* asked for by hand, and however many loops there are.
THEOREM TypeCorrect == Spec => []TypeOK
  <1>1. IInv => TypeOK
    BY DEF IInv
  <1> QED
    BY <1>1, Invariant, PTL

\* "APRÈS le drainage, jamais avant": nothing starts once the pool is ended, and,
\* unless the drain ran out of time, no turn is under way and no client is waiting.
THEOREM ClosedAfterWork == Spec => []FermetureApresTravail
  <1>1. IInv => FermetureApresTravail
    <2> SUFFICES ASSUME IInv, pool \in {"fin", "fini"} PROVE FermetureApresTravail
      BY DEF FermetureApresTravail
    <2>1. drainLance /\ etat \in {"closing", "stopped"}
      BY DEF IInv, Ordre
    <2>2. demarrees \subseteq arretees /\ minuterie = {}
      BY <2>1 DEF IInv, BouclesArretees
    <2>3. serveur # "ouvert"
      BY <2>1 DEF IInv, ServeurAttendu
    <2>4. delaiAtteint \/ (tours = {} /\ actives = {})
      BY <2>1 DEF IInv, PlusRien
    <2> QED
      BY <2>2, <2>3, <2>4 DEF FermetureApresTravail
  <1> QED
    BY <1>1, Invariant, PTL
===============================================================================
