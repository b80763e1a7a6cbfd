----------------------------- MODULE WatchPromise -----------------------------
(***************************************************************************)
(* What the watch of the scheduler promises to whoever receives alerts     *)
(* (veille-ordonnanceur.mjs, "UN EPISODE = UNE FENETRE = UNE ALERTE").  A  *)
(* silence is named by the last heartbeat before it.                       *)
(***************************************************************************)
EXTENDS Naturals

CONSTANT Seuil   \* how long a silence must last before it is told

VARIABLES
  now,      \* the database clock
  dernier,  \* time of the last successful tick
  dites,    \* the silences told so far
  emises    \* how many alerts were sent in all

vars == <<now, dernier, dites, emises>>

Init ==
  /\ now \in Nat
  /\ dernier \in Nat
  /\ dites = {}
  /\ emises = 0

\* The silence that began at s lasted longer than Seuil: no tick succeeded
\* meanwhile.
Vrai(s) == s + Seuil < now /\ (dernier <= s \/ s + Seuil < dernier)

\* One alert for a silence never told, that did take place.
Dire(s) ==
  /\ s \notin dites
  /\ Vrai(s)
  /\ dites' = dites \cup {s}
  /\ emises' = emises + 1
  /\ UNCHANGED <<now, dernier>>

\* Time passes and ticks succeed.
Monde ==
  /\ now' \in {now, now + 1}
  /\ dernier' \in {dernier, now}
  /\ UNCHANGED <<dites, emises>>

Next == Monde \/ \E s \in 0..now : Dire(s)

Spec == Init /\ [][Next]_vars
===============================================================================
