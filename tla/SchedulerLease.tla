---------------------------- MODULE SchedulerLease ----------------------------
(***************************************************************************)
(* The lease that keeps two schedulers from running the same cadence at    *)
(* the same time: one row per job of scheduler_lease (bail.mjs), taken and *)
(* given back around a job by executerSousBail (ordonnanceur.mjs).         *)
(*                                                                         *)
(* The row is also the heartbeat of the cadence.  A held row carries a     *)
(* deadline; a row given back carries the time of the last successful run, *)
(* or what it carried before the run that failed.  Only the date of the    *)
(* row tells one from the other.                                           *)
(*                                                                         *)
(* Time is now() of the database, the only clock the statements use.  A    *)
(* process is a scheduler replica or a manual run (run-once.mjs); it may   *)
(* be killed at any point and come back under the same holder name, as a   *)
(* replica restarted inside one deployment does (titulaireBail).           *)
(***************************************************************************)
EXTENDS Naturals

CONSTANTS Procs,     \* holders: replicas and manual runs
          Jobs,      \* cadences: tick, horaire, quotidien
          Personne,  \* holder of the row that does not exist
          DUREES,    \* lease duration of each job
          MaxNow     \* bound on the clock, for model checking

ASSUME PersonneAssumption == Personne \notin Procs
ASSUME DureesAssumption == DUREES \in [Jobs -> Nat \ {0}]
ASSUME MaxNowAssumption == MaxNow \in Nat

VARIABLES
  now,            \* the database clock
  holder,         \* holder[j]: scheduler_lease.holder, Personne when no row
  expires_at,     \* expires_at[j]: scheduler_lease.expires_at, 0 when no row
  etat,           \* etat[p][j]: where process p is in executerSousBail for j
  battement,      \* battement[p][j]: battementPrecedent of the run, 0 for null
  \* History variables: no statement reads them.
  echeance,       \* echeance[p][j]: the deadline p was granted
  rendu,          \* rendu[j]: the row was last written by a give-back
  dernierSucces,  \* dernierSucces[j]: last success written as a heartbeat
  derniereDette,  \* derniereDette[j]: last deadline overwritten, never given back
  abouti          \* abouti[j]: last time a run succeeded within its deadline

base   == <<holder, expires_at>>
runs   == <<etat, battement, echeance>>
traces == <<rendu, dernierSucces, derniereDette, abouti>>
vars   == <<now, holder, expires_at, etat, battement, echeance,
            rendu, dernierSucces, derniereDette, abouti>>

Etats  == {"repos", "travail", "abouti", "echoue", "mort"}
Actifs == {"travail", "abouti", "echoue"}

PlusTard(a, b) == IF a >= b THEN a ELSE b
PlusTot(a, b)  == IF a <= b THEN a ELSE b

Init ==
  /\ now = 1
  /\ holder = [j \in Jobs |-> Personne]
  /\ expires_at = [j \in Jobs |-> 0]
  /\ etat = [p \in Procs |-> [j \in Jobs |-> "repos"]]
  /\ battement = [p \in Procs |-> [j \in Jobs |-> 0]]
  /\ echeance = [p \in Procs |-> [j \in Jobs |-> 0]]
  /\ rendu = [j \in Jobs |-> TRUE]
  /\ dernierSucces = [j \in Jobs |-> 0]
  /\ derniereDette = [j \in Jobs |-> 0]
  /\ abouti = [j \in Jobs |-> 0]

(***************************************************************************)
(* The statements of bail.mjs.                                             *)
(***************************************************************************)

\* The upsert takes the row when there is none or its date has passed.
Prenable(j) == holder[j] = Personne \/ expires_at[j] < now

Prise(p, j) ==
  /\ Prenable(j)
  /\ holder' = [holder EXCEPT ![j] = p]
  /\ expires_at' = [expires_at EXCEPT ![j] = now + DUREES[j]]
  /\ rendu' = [rendu EXCEPT ![j] = FALSE]
  /\ derniereDette' = [derniereDette EXCEPT ![j] = IF rendu[j] THEN @ ELSE expires_at[j]]
  /\ UNCHANGED <<dernierSucces, abouti>>

\* Mutants: the give-back forgets the clause on holder; on job.
rendreBail_SansPorteur(p, j) ==
  /\ expires_at' = [expires_at EXCEPT ![j] = now]
  /\ rendu' = [rendu EXCEPT ![j] = TRUE]
  /\ dernierSucces' = [dernierSucces EXCEPT ![j] = now]
  /\ UNCHANGED <<holder, derniereDette, abouti>>

\* rendreBail: the row expires now, which says "success"; only if it is p's row.
rendreBail(p, j) ==
  IF holder[j] = p
  THEN /\ expires_at' = [expires_at EXCEPT ![j] = now]
       /\ rendu' = [rendu EXCEPT ![j] = TRUE]
       /\ dernierSucces' = [dernierSucces EXCEPT ![j] = now]
       /\ UNCHANGED <<holder, derniereDette, abouti>>
  ELSE UNCHANGED <<base, traces>>

\* What abandonnerBail leaves in p's row: no row when d = 0, else a date.
Remettre(p, j, d) ==
  IF holder[j] = p
  THEN /\ holder' = [holder EXCEPT ![j] = IF d = 0 THEN Personne ELSE p]
       /\ expires_at' = [expires_at EXCEPT ![j] = d]
       /\ rendu' = [rendu EXCEPT ![j] = TRUE]
       /\ UNCHANGED <<dernierSucces, derniereDette, abouti>>
  ELSE UNCHANGED <<base, traces>>

\* Mutants: a failure is stamped like a success; the row is always deleted.
abandonnerBail_Maintenant(p, j, b) == Remettre(p, j, now)
abandonnerBail_Supprime(p, j, b) == Remettre(p, j, 0)

\* abandonnerBail: the heartbeat found when the lease was taken comes back; a
\* row that did not exist is deleted; only if it is p's row.
abandonnerBail(p, j, b) == Remettre(p, j, PlusTot(b, now))

(***************************************************************************)
(* executerSousBail, step by step.  A pass that finds the lease held does  *)
(* nothing ("bail_ailleurs") and is a stutter here.                        *)
(***************************************************************************)

Passe(p, j, e) == etat' = [etat EXCEPT ![p][j] = e]

\* The lease is granted and the answer reaches the process: the job starts.
Prendre(p, j) ==
  /\ etat[p][j] = "repos"
  /\ Prise(p, j)
  /\ Passe(p, j, "travail")
  /\ battement' = [battement EXCEPT ![p][j] = expires_at[j]]
  /\ echeance' = [echeance EXCEPT ![p][j] = now + DUREES[j]]
  /\ UNCHANGED now

\* The lease is granted and the connection drops before the answer: the pass
\* ends in error, nobody runs, the row stays held until its deadline.
PrendrePerdu(p, j) ==
  /\ etat[p][j] = "repos"
  /\ Prise(p, j)
  /\ UNCHANGED <<now, runs>>

\* executer() returns with ok.
Aboutir(p, j) ==
  /\ etat[p][j] = "travail"
  /\ Passe(p, j, "abouti")
  /\ abouti' = [abouti EXCEPT ![j] = IF now <= echeance[p][j] THEN now ELSE @]
  /\ UNCHANGED <<now, base, battement, echeance, rendu, dernierSucces, derniereDette>>

\* executer() returns with a failed step, or throws: both abandon the lease.
Echouer(p, j) ==
  /\ etat[p][j] = "travail"
  /\ Passe(p, j, "echoue")
  /\ UNCHANGED <<now, base, battement, echeance, traces>>

Rendre(p, j) ==
  /\ etat[p][j] = "abouti"
  /\ rendreBail(p, j)
  /\ Passe(p, j, "repos")
  /\ UNCHANGED <<now, battement, echeance>>

Abandonner(p, j) ==
  /\ etat[p][j] = "echoue"
  /\ abandonnerBail(p, j, battement[p][j])
  /\ Passe(p, j, "repos")
  /\ UNCHANGED <<now, battement, echeance>>

\* The give-back fails: a warning, and the lease will expire by itself.
NonRendu(p, j) ==
  /\ etat[p][j] \in {"abouti", "echoue"}
  /\ Passe(p, j, "repos")
  /\ UNCHANGED <<now, base, battement, echeance, traces>>

\* The process is killed: its three loops stop where they are.
Mourir(p) ==
  /\ \E j \in Jobs : etat[p][j] # "mort"
  /\ etat' = [etat EXCEPT ![p] = [j \in Jobs |-> "mort"]]
  /\ UNCHANGED <<now, base, battement, echeance, traces>>

Redemarrer(p) ==
  /\ \E j \in Jobs : etat[p][j] = "mort"
  /\ etat' = [etat EXCEPT ![p] = [j \in Jobs |-> "repos"]]
  /\ UNCHANGED <<now, base, battement, echeance, traces>>

Horloge ==
  /\ now < MaxNow
  /\ now' = now + 1
  /\ UNCHANGED <<base, runs, traces>>

Cadence(p, j) ==
  \/ Prendre(p, j)
  \/ PrendrePerdu(p, j)
  \/ Aboutir(p, j)
  \/ Echouer(p, j)
  \/ Rendre(p, j)
  \/ Abandonner(p, j)
  \/ NonRendu(p, j)

Next ==
  \/ \E p \in Procs, j \in Jobs : Cadence(p, j)
  \/ \E p \in Procs : Mourir(p) \/ Redemarrer(p)
  \/ Horloge

Spec == Init /\ [][Next]_vars

(***************************************************************************)
(* Properties.                                                             *)
(***************************************************************************)

\* Type invariant: a row belongs to a process, and has a date if it exists.
TypeOK ==
  /\ now \in Nat
  /\ holder \in [Jobs -> Procs \cup {Personne}]
  /\ expires_at \in [Jobs -> Nat]
  /\ \A j \in Jobs : holder[j] = Personne <=> expires_at[j] = 0
  /\ etat \in [Procs -> [Jobs -> Etats]]
  /\ battement \in [Procs -> [Jobs -> Nat]]
  /\ echeance \in [Procs -> [Jobs -> Nat]]
  /\ rendu \in [Jobs -> BOOLEAN]
  /\ dernierSucces \in [Jobs -> Nat]
  /\ derniereDette \in [Jobs -> Nat]
  /\ abouti \in [Jobs -> Nat]

\* p is inside executerSousBail for j and its deadline has not passed.
SousBail(p, j) == etat[p][j] \in Actifs /\ now <= echeance[p][j]

\* What a reader of the row takes for the heartbeat (verdictCadence): the date
\* of the row once it is not in the future.
Battement(j) == expires_at[j]

\* Two processes are never both inside a run of the same job within their
\* deadlines: a run that overstays its lease, a lost answer, a late give-back
\* or a restart never opens the door to a second run that is in time
\* (bail.mjs: "on ne doit surtout pas liberer LE SIEN").
Exclusion ==
  \A p, q \in Procs, j \in Jobs : SousBail(p, j) /\ SousBail(q, j) => p = q

\* The heartbeat of a row given back is exactly the later of the last success
\* recorded and the last deadline that ran out without being given back: a
\* failed run never moves it, in any order of takes and give-backs, and what
\* the comment LIMITE CONNUE concedes is the only lie it can tell.
BattementExact ==
  \A j \in Jobs :
    rendu[j] => Battement(j) = PlusTard(dernierSucces[j], derniereDette[j])

\* A success obtained within its deadline is never forgotten: whoever takes,
\* fails, abandons or loses the lease afterwards, the row never says that the
\* cadence has been silent since before that success.
SuccesJamaisOublie == \A j \in Jobs : Battement(j) >= abouti[j]
===============================================================================
