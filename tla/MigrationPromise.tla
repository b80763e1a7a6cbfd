--------------------------- MODULE MigrationPromise ---------------------------
(***************************************************************************)
(* What the migrator promises to whoever reads the registry                *)
(* schema_migration, with no word of locks, indexes or connections: files   *)
(* are executed in their order, each once and with its line; a line written *)
(* without executing its file tells of a file the schema already has; a     *)
(* migrator ends, and one that ends well leaves nothing to apply.           *)
(* Migrator implements it.                                                  *)
(***************************************************************************)
EXTENDS Naturals

CONSTANTS Migrateurs, \* processes that may migrate
          N,          \* files: schema.sql, then the migrations in numeric order
          Baseline    \* last file an adopted base has already

VARIABLES registre,   \* files schema_migration says applied
          passages,   \* times a file was executed
          issue       \* issue[m]: "hors", "enCours", "fini" or "echec"
vars == <<registre, passages, issue>>

\* The files whose effects the base has.
schema == {f \in 1..N : passages[f] > 0}

Init ==
  /\ registre = {}
  /\ \E k \in {0, Baseline} : passages = [f \in 1..N |-> IF f <= k THEN 1 ELSE 0]
  /\ issue = [m \in Migrateurs |-> "hors"]

Lancer(m) ==
  /\ issue[m] # "enCours"
  /\ issue' = [issue EXCEPT ![m] = "enCours"]
  /\ UNCHANGED <<registre, passages>>

Etalonner(m) ==
  /\ issue[m] = "enCours"
  /\ 1..Baseline \subseteq schema
  /\ registre' = registre \cup 1..Baseline
  /\ UNCHANGED <<passages, issue>>

Appliquer(m) ==
  /\ issue[m] = "enCours"
  /\ \E f \in (1..N) \ (registre \cup schema) :
       /\ 1..(f - 1) \subseteq registre
       /\ registre' = registre \cup {f}
       /\ passages' = [passages EXCEPT ![f] = 1]
  /\ UNCHANGED issue

\* "le schema ne peut plus etre en retard sur le code".
Finir(m) ==
  /\ issue[m] = "enCours"
  /\ registre = 1..N
  /\ issue' = [issue EXCEPT ![m] = "fini"]
  /\ UNCHANGED <<registre, passages>>

Echouer(m) ==
  /\ issue[m] = "enCours"
  /\ issue' = [issue EXCEPT ![m] = "echec"]
  /\ UNCHANGED <<registre, passages>>

Next == \E m \in Migrateurs :
  Lancer(m) \/ Etalonner(m) \/ Appliquer(m) \/ Finir(m) \/ Echouer(m)

Surete == Init /\ [][Next]_vars
Vivacite == \A m \in Migrateurs : issue[m] = "enCours" ~> issue[m] # "enCours"
===============================================================================
