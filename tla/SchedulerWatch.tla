---------------------------- MODULE SchedulerWatch ----------------------------
(***************************************************************************)
(* The watch the notifiers keep over the scheduler (veille-ordonnanceur.   *)
(* mjs), composed with the lease row it reads (SchedulerLease).            *)
(*                                                                         *)
(* A pass reads the row, the open episode and its alert in one statement,  *)
(* decides, and then acts in one to three other statements, outside any    *)
(* transaction: between two of them the tick may come back, another        *)
(* notifier may open, alert or close the episode, or the pass may fail.    *)
(*                                                                         *)
(* The unit of the clock is that of the cadence, minutes; a pass is over   *)
(* in 8 seconds (four statements, 2 s each), and a notifier leaves one     *)
(* minute between two passes.  So the clock stands still during a pass,    *)
(* and ticks once between two passes of one notifier.                      *)
(***************************************************************************)
EXTENDS SchedulerLease, Sequences, FiniteSets

CONSTANTS Tick,        \* the job watched
          Veilleurs,   \* the notifiers
          CadenceMin,  \* published cadence of the tick
          MARGE_SILENCE_MIN,
          Deborde,     \* whether a tick may outlast its lease
          MaxPannes,   \* bound on the passes that fail
          MaxFenetres  \* bound on the episodes of a run

ASSUME TickAssumption == Tick \in Jobs
ASSUME CadenceAssumption == CadenceMin \in Nat \ {0} /\ MARGE_SILENCE_MIN \in Nat
ASSUME DebordeAssumption == Deborde \in BOOLEAN
ASSUME BornesAssumption == MaxPannes \in Nat /\ MaxFenetres \in Nat

VARIABLES
  fenetres,  \* rows of collecte_fenetre, stage "ordonnanceur", in order of id
  pas,       \* pas[v]: the statement v's pass is about to run
  vu,        \* vu[v]: what the pass keeps of what it read
  pret,      \* pret[v]: the minute since v's last pass has elapsed
  emises,    \* history: rows of alert_event of the watch
  pannes     \* history: passes that failed

bail   == <<holder, expires_at, etat, battement, echeance,
            rendu, dernierSucces, derniereDette, abouti>>
veille == <<fenetres, pas, vu, pret, emises, pannes>>
varsVeille == <<now, bail, veille>>

Pas == {"repos", "ouvrir", "reprendre", "alerter", "fermer"}
Aucune == [tick |-> 0, fenetre |-> 0]

InitVeille ==
  /\ Init
  /\ fenetres = <<>>
  /\ pas = [v \in Veilleurs |-> "repos"]
  /\ vu = [v \in Veilleurs |-> Aucune]
  /\ pret = [v \in Veilleurs |-> TRUE]
  /\ emises = 0
  /\ pannes = 0

\* Two missed ticks and a margin.
seuilSilenceMin(c) == 2 * c + MARGE_SILENCE_MIN

Seuil == seuilSilenceMin(CadenceMin)

\* Open episodes, and those already alerted.
Ouvertes == {i \in DOMAIN fenetres : fenetres[i].fin = 0}
Alertees == {i \in DOMAIN fenetres : fenetres[i].alerte}

\* Mutant: an episode left without its alert is not taken up again.
decisionVeille_SansReprise(t, tick) ==
  IF tick = 0 \/ tick > t THEN "rien"
  ELSE IF t - tick <= Seuil THEN IF Ouvertes = {} THEN "rien" ELSE "fermer"
  ELSE IF Ouvertes = {} THEN "ouvrir" ELSE "rien"

\* decisionVeille, on the date of the tick's row (0 when there is none).
decisionVeille(t, tick) ==
  IF tick = 0 \/ tick > t THEN "rien"
  ELSE IF t - tick <= Seuil THEN IF Ouvertes = {} THEN "rien" ELSE "fermer"
  ELSE IF Ouvertes = {} THEN "ouvrir"
  ELSE IF Ouvertes \subseteq Alertees THEN "rien" ELSE "alerter"

(***************************************************************************)
(* veiller, one action per statement.                                      *)
(***************************************************************************)

Aller(v, p) == pas' = [pas EXCEPT ![v] = p]

\* SQL_ETAT_VEILLE and the decision.  A decision "rien" ends the pass.
Lire(v) ==
  LET tick == expires_at[Tick]
      d    == decisionVeille(now, tick)
  IN /\ pas[v] = "repos"
     /\ pret[v]
     /\ pret' = [pret EXCEPT ![v] = FALSE]
     /\ Aller(v, IF d = "rien" THEN "repos" ELSE d)
     /\ \E f \in IF Ouvertes = {} THEN {0} ELSE Ouvertes :
          vu' = [vu EXCEPT ![v] = IF d = "rien" THEN Aucune
                                  ELSE [tick |-> tick, fenetre |-> f]]
     /\ UNCHANGED <<fenetres, emises, pannes>>

Insertion(v) ==
  /\ Len(fenetres) < MaxFenetres
  /\ fenetres' = Append(fenetres, [debut |-> vu[v].tick, fin |-> 0, alerte |-> FALSE])
  /\ vu' = [vu EXCEPT ![v].fenetre = Len(fenetres) + 1]

\* Mutant: a pass that inserted nothing alerts for the episode it has not read.
Ouvrir_SansRelire(v) ==
  /\ pas[v] = "ouvrir"
  /\ IF Ouvertes = {} THEN Insertion(v) ELSE UNCHANGED <<fenetres, vu>>
  /\ Aller(v, "alerter")
  /\ UNCHANGED <<pret, emises, pannes>>

\* SQL_OUVRIR: inserts unless an episode is open, in which case the pass will
\* look for it.
Ouvrir(v) ==
  /\ pas[v] = "ouvrir"
  /\ \/ /\ Ouvertes = {}
        /\ Insertion(v)
        /\ Aller(v, "alerter")
     \/ /\ Ouvertes # {}
        /\ Aller(v, "reprendre")
        /\ UNCHANGED <<fenetres, vu>>
  /\ UNCHANGED <<pret, emises, pannes>>

\* SQL_OUVERTE: the episode opened by another; none if it is closed already
\* (which takes a third notifier).
Reprendre(v) ==
  /\ pas[v] = "reprendre"
  /\ \/ /\ Ouvertes = {}
        /\ Aller(v, "repos")
        /\ vu' = [vu EXCEPT ![v] = Aucune]
     \/ \E f \in Ouvertes :
          /\ Aller(v, "alerter")
          /\ vu' = [vu EXCEPT ![v].fenetre = f]
  /\ UNCHANGED <<fenetres, pret, emises, pannes>>

\* Mutant: the alert the episode already bears is not looked at.
sonde_alerter_Encore(f) ==
  /\ fenetres' = [fenetres EXCEPT ![f].alerte = TRUE]
  /\ emises' = emises + 1

\* sonde_alerter, under the lock of the episode's row: one alert, once.
sonde_alerter(f) ==
  IF fenetres[f].alerte
  THEN UNCHANGED <<fenetres, emises>>
  ELSE /\ fenetres' = [fenetres EXCEPT ![f].alerte = TRUE]
       /\ emises' = emises + 1

Alerter(v) ==
  /\ pas[v] = "alerter"
  /\ sonde_alerter(vu[v].fenetre)
  /\ Aller(v, "repos")
  /\ vu' = [vu EXCEPT ![v] = Aucune]
  /\ UNCHANGED <<pret, pannes>>

\* Mutant: the end is dated of the pass, not of the tick that came back.
Clore_Maintenant(i, t) == IF fenetres[i].fin = 0 THEN [fenetres EXCEPT ![i].fin = now] ELSE fenetres

\* SQL_FERMER: dated of the tick that came back, at least just after the start.
Clore(i, t) ==
  IF fenetres[i].fin = 0
  THEN [fenetres EXCEPT ![i].fin = IF t > fenetres[i].debut THEN t ELSE fenetres[i].debut + 1]
  ELSE fenetres

Fermer(v) ==
  /\ pas[v] = "fermer"
  /\ fenetres' = Clore(vu[v].fenetre, vu[v].tick)
  /\ Aller(v, "repos")
  /\ vu' = [vu EXCEPT ![v] = Aucune]
  /\ UNCHANGED <<pret, emises, pannes>>

\* Any statement may fail or time out: the pass ends there, with a warning.
Rater(v) ==
  /\ pannes < MaxPannes
  /\ pannes' = pannes + 1
  /\ \/ pas[v] # "repos" /\ UNCHANGED pret
     \/ pas[v] = "repos" /\ pret[v] /\ pret' = [pret EXCEPT ![v] = FALSE]
  /\ Aller(v, "repos")
  /\ vu' = [vu EXCEPT ![v] = Aucune]
  /\ UNCHANGED <<fenetres, emises>>

\* A minute passes, when no pass is in progress; at the bound of the clock it
\* is not counted any more.  Unless Deborde, a tick that runs is over, or dead,
\* before its lease runs out.
Minute ==
  /\ \A v \in Veilleurs : pas[v] = "repos"
  /\ Deborde \/ \A p \in Procs : SousBail(p, Tick) => now + 1 < echeance[p][Tick]
  /\ \/ Horloge
     \/ now = MaxNow /\ UNCHANGED <<now, bail>>
  /\ pret' = [v \in Veilleurs |-> TRUE]
  /\ UNCHANGED <<fenetres, pas, vu, emises, pannes>>

\* The scheduler: any step of the lease but the clock's.
Ordonnanceur ==
  /\ \/ \E p \in Procs, j \in Jobs : Cadence(p, j)
     \/ \E p \in Procs : Mourir(p) \/ Redemarrer(p)
  /\ UNCHANGED veille

Passer(v) == Lire(v) \/ Ouvrir(v) \/ Reprendre(v) \/ Alerter(v) \/ Fermer(v)

NextVeille ==
  \/ Ordonnanceur
  \/ Minute
  \/ \E v \in Veilleurs : (Passer(v) \/ Rater(v)) /\ UNCHANGED <<now, bail>>

\* The loop of a notifier passes again and again, and time passes.
Fairness ==
  /\ WF_varsVeille(Minute)
  /\ \A v \in Veilleurs : WF_varsVeille(Passer(v) /\ UNCHANGED <<now, bail>>)

SpecVeille == InitVeille /\ [][NextVeille]_varsVeille /\ Fairness

(***************************************************************************)
(* Properties.                                                             *)
(***************************************************************************)

\* Type invariant: a pass under way knows the row, and the episode when its
\* next statement names one.
TypeVeille ==
  /\ TypeOK
  /\ fenetres \in Seq([debut : Nat, fin : Nat, alerte : BOOLEAN])
  /\ pas \in [Veilleurs -> Pas]
  /\ vu \in [Veilleurs -> [tick : Nat, fenetre : Nat]]
  /\ \A v \in Veilleurs :
       pas[v] \in {"alerter", "fermer"} => vu[v].fenetre \in DOMAIN fenetres
  /\ pret \in [Veilleurs -> BOOLEAN]
  /\ emises \in Nat
  /\ pannes \in 0..MaxPannes

\* Episodes follow one another: each but the last is closed, and none starts
\* before the one before it has ended.  A pass that decided on what it read
\* before the tick came back never writes an episode over one already told.
FenetresDisjointes ==
  \A i \in DOMAIN fenetres :
    i < Len(fenetres) => /\ fenetres[i].fin # 0
                         /\ fenetres[i].fin <= fenetres[i + 1].debut

\* "Un episode = une fenetre = une alerte": whatever the notifiers that see a
\* silence at once and the passes that stop half way, each alert is about a
\* silence that did take place and was not told before.
Promesse == INSTANCE WatchPromise WITH
  dernier <- dernierSucces[Tick],
  dites   <- {fenetres[i].debut : i \in Alertees}
UneAlerteParSilence == Promesse!Spec

\* The row of the tick says the scheduler is silent; that it is back.
Muet   == expires_at[Tick] > 0 /\ expires_at[Tick] + Seuil < now
Revenu == expires_at[Tick] \in 1..now /\ now <= expires_at[Tick] + Seuil

\* The episodes follow the scheduler in the end: a silence that lasts ends up under
\* an open episode that was alerted, even if the pass that opened it did not live
\* to alert, and a scheduler that is back ends up with none open.  (The episode may
\* be older than the silence: a tick that came back while no notifier passed is
\* not seen.)
VeilleSuit ==
  /\ <>[]Muet => <>[](Ouvertes \cap Alertees # {})
  /\ <>[]Revenu => <>[](Ouvertes = {})
===============================================================================
