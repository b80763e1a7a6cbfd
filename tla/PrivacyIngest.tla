---------------------------- MODULE PrivacyIngest ----------------------------
(***************************************************************************)
(* Ingestion and erasure of one application's telemetry                    *)
(* (packages/backend/lib/privacy-barriere.mjs, ingest-differe.mjs,         *)
(* pg-ingest.mjs, apps/console/lib/queries-dsar.ts and the SQL functions   *)
(* of migration-v81).                                                      *)
(*                                                                         *)
(* Collectors write batches at once or leave them in the landing queue,    *)
(* a drain moves them to the tables, and the console erases a visitor or   *)
(* an identity.  Every transaction takes the lock of the application       *)
(* before it reads anything; what it reads under the lock and what it      *)
(* commits are two steps here, so that the lock has work to do.            *)
(*                                                                         *)
(* A row is told apart by its kind, the session it names or claims, and    *)
(* the visitor and identity it carries.  One row sent twice is one row:    *)
(* the tables have natural keys (`on conflict do nothing`).                *)
(***************************************************************************)
EXTENDS Naturals, FiniteSets

CONSTANTS
  Procs,          \* collectors, drains and consoles: each process may do any of it
  Sessions, Visiteurs, Identites,
  Signaux,        \* what clients send: [signal, lignes]
  Sujets,         \* what operators ask to erase: <<genre, cle>>
  Mode,           \* app_registry.privacy_barrier_mode: "off" or "enforce"
  MaxDepots,      \* bound: batches ever left in the queue
  MaxTentatives,  \* MAX_TENTATIVES
  Aucun           \* null

Lignes == UNION {x.lignes : x \in Signaux}
Genres == {"session", "page", "evenement", "erreur", "journal", "rejeu"}

ASSUME SignauxAssumption ==
  \A x \in Signaux :
    /\ x.signal \in {"traces", "logs", "rejeu"}
    /\ x.signal = "rejeu" => \A l \in x.lignes : l.session # Aucun /\ l.visiteur = Aucun /\ l.identite = Aucun
    /\ \A l \in x.lignes :
         /\ l.genre \in Genres /\ (l.genre = "session" => l.session # Aucun)
         /\ l.session \in Sessions \cup {Aucun} /\ l.claim \in Sessions \cup {Aucun}
         /\ l.visiteur \in Visiteurs \cup {Aucun} /\ l.identite \in Identites \cup {Aucun}
ASSUME SujetsAssumption == Sujets \subseteq ({"visitor"} \X Visiteurs) \cup ({"user"} \X Identites)
ASSUME BornesAssumption ==
  /\ Aucun \notin Procs \cup Sessions \cup Visiteurs \cup Identites
  /\ Mode \in {"off", "enforce"} /\ MaxDepots \in Nat /\ MaxTentatives \in Nat \ {0}

\* Hypotheses of some theorems, not guaranteed by the code; the rows of one run meet them.
\* No row claims a session: it names its own or none.
SansReprise == \A l \in Lignes : l.claim = Aucun
Porte(r, l) == l.visiteur \in {Aucun, r.visiteur} /\ l.identite \in {Aucun, r.identite}
SansCle(l) == l.visiteur = Aucun /\ l.identite = Aucun
Isolee(l) == l.genre = "erreur" /\ l.session = Aucun /\ l.visiteur = Aucun
LignesDeSession(ls, s) == {k \in ls : k.genre = "session" /\ k.session = s}
Menee(l, ls) == LET ks == LignesDeSession(ls, l.session) IN ks # {} /\ \A k \in ks : Porte(k, l)
\* A row with a key comes with the line of its session, which carries it too (flattenOtlp), but for
\* an error without session.
Accompagnees == \A x \in Signaux : \A l \in x.lignes : l.genre # "session" /\ ~SansCle(l) => Isolee(l) \/ Menee(l, x.lignes)
\* A session is of one visitor and of one identity: nobody logs out and in as another within it.
UnSujet ==
  \A l, k \in Lignes : l.session = k.session /\ l.session # Aucun =>
    /\ l.visiteur = k.visiteur \/ Aucun \in {l.visiteur, k.visiteur}
    /\ l.identite = k.identite \/ Aucun \in {l.identite, k.identite}

VARIABLES
  verrou,      \* the advisory lock of the application: its holder
  barrieres,   \* privacy_erasure_barrier
  ancres,      \* rum_session, by session
  enfants,     \* every other table: the session each row was written under
  file,        \* ingest_raw, by id
  depots,      \* the last id of ingest_raw
  tx,          \* what each process is doing
  \* history
  effaces,     \* subjects erased under enforced barriers
  acquittes    \* rows the server has answered for

vars == <<verrou, barrieres, ancres, enfants, file, depots, tx, effaces, acquittes>>
base == <<barrieres, ancres, enfants, file, depots, effaces, acquittes>>

Repos == [voie |-> "repos"]
Ecrit(v, e, s, ls) == [voie |-> v, etape |-> e, signal |-> s, lignes |-> ls, gardees |-> {}]
Draine(e, n, ls) == [voie |-> "drain", etape |-> e, num |-> n, gardees |-> ls]
Efface(e, s, st, fi) == [voie |-> "effacement", etape |-> e, sujet |-> s, stockees |-> st, enFile |-> fi]

Init ==
  /\ verrou = Aucun /\ barrieres = {}
  /\ ancres = << >> /\ enfants = << >> /\ file = << >> /\ depots = 0
  /\ tx = [p \in Procs |-> Repos]
  /\ effaces = {} /\ acquittes = {}

-----------------------------------------------------------------------------
(* Barriers and batches *)

\* filtrerLot, first lines of both passes: the row itself carries an erased key.
SousCle(l, b) == <<"visitor", l.visiteur>> \in b \/ <<"user", l.identite>> \in b

SessionsRefusees(ls, b) ==
  {s \in Sessions : <<"session", s>> \in b \/ \E l \in ls : l.session = s /\ SousCle(l, b)}

\* filtrerLot: sessions of the batch that belong to an erased subject, then every row of them.
Filtre(ls, b) == {l \in ls : ~SousCle(l, b) /\ l.session \notin SessionsRefusees(ls, b)}

PorteCle(r, sujet) == CASE sujet[1] = "visitor" -> r.visiteur = sujet[2]
                       [] sujet[1] = "user" -> r.identite = sujet[2]

\* clauseConflitSession: the first known value stays.
Coalesce(a, b) == IF a # Aucun THEN a ELSE b
Ancre(l) == [visiteur |-> l.visiteur, identite |-> l.identite]
Fusion(anc, ls) ==
  LET neuves == {l \in ls : l.genre = "session"}
  IN [s \in DOMAIN anc \cup {l.session : l \in neuves} |->
        IF \E l \in neuves : l.session = s
        THEN LET l == CHOOSE k \in neuves : k.session = s
             IN IF s \in DOMAIN anc
                THEN [visiteur |-> Coalesce(anc[s].visiteur, l.visiteur),
                      identite |-> Coalesce(anc[s].identite, l.identite)]
                ELSE Ancre(l)
        ELSE anc[s]]

\* rattacherSessions: a claimed session is taken when it is stored.
SessionEcrite(l, anc) == IF l.claim \in DOMAIN anc THEN l.claim ELSE l.session

\* The batch inserts: a row already there stays as it was written.
Insertion(enf, ls, anc) ==
  [l \in DOMAIN enf \cup {k \in ls : k.genre # "session"} |->
     IF l \in DOMAIN enf THEN enf[l] ELSE SessionEcrite(l, anc)]

\* The foreign keys to rum_session; rum_log and rum_span have none.
ClesTenues(ls, anc) ==
  \A l \in ls : l.genre \notin {"session", "journal"} /\ l.session # Aucun => l.session \in DOMAIN anc

-----------------------------------------------------------------------------
(* Entering a transaction: no lock is held yet *)

\* receiver.mjs: traces are written at once or left in the queue, logs and replays written at once.
Recevoir(p) ==
  /\ tx[p] = Repos
  /\ \E x \in Signaux, v \in {"depot", "direct"} :
       /\ v = "depot" => x.signal = "traces"
       /\ tx' = [tx EXCEPT ![p] = Ecrit(v, "attend", x.signal, x.lignes)]
  /\ UNCHANGED <<verrou, base>>

\* lireCandidat: a due batch, read outside any transaction.  The one with the least id among
\* those that are due and not already skipped: any of them.
LireCandidat(p) ==
  /\ tx[p] = Repos
  /\ \E n \in DOMAIN file :
       /\ file[n].tentatives < MaxTentatives
       /\ tx' = [tx EXCEPT ![p] = Draine("attend", n, {})]
  /\ UNCHANGED <<verrou, base>>

\* dsarErase and dsarIdentityErase; exigerRecevable wants a stored session of the visitor.
Demander(p) ==
  /\ tx[p] = Repos
  /\ \E s \in Sujets :
       /\ s[1] = "visitor" => \E a \in DOMAIN ancres : PorteCle(ancres[a], s)
       /\ tx' = [tx EXCEPT ![p] = Efface("attend", s, {}, {})]
  /\ UNCHANGED <<verrou, base>>

Attend(p) == tx[p] # Repos /\ tx[p].etape = "attend"

\* Mutant: a shared lock, as several readers would take.
Verrouiller_Partage(p) ==
  /\ Attend(p)
  /\ verrou' = p
  /\ tx' = [tx EXCEPT ![p].etape = "tient"]
  /\ UNCHANGED base

\* verrouillerApps.
Verrouiller(p) ==
  /\ Attend(p) /\ verrou = Aucun
  /\ verrou' = p
  /\ tx' = [tx EXCEPT ![p].etape = "tient"]
  /\ UNCHANGED base

\* ErreurVerrouIngestion, ErreurEcheance before the lock: nothing was written.
Renoncer(p) ==
  /\ Attend(p)
  /\ tx' = [tx EXCEPT ![p] = Repos]
  /\ UNCHANGED <<verrou, base>>

-----------------------------------------------------------------------------
(* Under the lock *)

Tient(p, voies) == tx[p] # Repos /\ tx[p].voie \in voies /\ tx[p].etape = "tient"
Rendre(p) == /\ verrou' = Aucun
             /\ tx' = [tx EXCEPT ![p] = Repos]

\* filtrerParBarrieres, sessionSousBarriere: the barriers committed so far.
Filtrer(p) ==
  /\ Tient(p, {"depot", "direct"})
  /\ tx' = [tx EXCEPT ![p].etape = "filtre", ![p].gardees = Filtre(tx[p].lignes, barrieres)]
  /\ UNCHANGED <<verrou, base>>

\* Mutant: the batch is not read again under the lock but for its presence.
Reprendre_SansPlafond(p) ==
  /\ Tient(p, {"drain"})
  /\ LET n == tx[p].num IN
     IF n \in DOMAIN file
     THEN /\ tx' = [tx EXCEPT ![p] = Draine("filtre", n, Filtre(file[n].lignes, barrieres))]
          /\ UNCHANGED verrou
     ELSE Rendre(p)
  /\ UNCHANGED base

\* traiterCandidat: the candidate may have gone, or been given up, since it was read.
Reprendre(p) ==
  /\ Tient(p, {"drain"})
  /\ LET n == tx[p].num IN
     IF n \in DOMAIN file /\ file[n].tentatives < MaxTentatives
     THEN /\ tx' = [tx EXCEPT ![p] = Draine("filtre", n, Filtre(file[n].lignes, barrieres))]
          /\ UNCHANGED verrou
     ELSE Rendre(p)
  /\ UNCHANGED base

Filtree(p, voies) == tx[p] # Repos /\ tx[p].voie \in voies /\ tx[p].etape = "filtre"

\* deposerLot: a batch refused as a whole is not left in the queue.
Deposer(p) ==
  /\ Filtree(p, {"depot"})
  /\ LET ls == tx[p].gardees IN
     \/ /\ ls = {}
        /\ UNCHANGED <<file, depots>>
     \/ /\ ls # {} /\ depots < MaxDepots
        /\ depots' = depots + 1
        /\ file' = [n \in DOMAIN file \cup {depots + 1} |->
                      IF n \in DOMAIN file THEN file[n] ELSE [lignes |-> ls, tentatives |-> 0]]
  /\ acquittes' = acquittes \cup tx[p].lignes
  /\ Rendre(p)
  /\ UNCHANGED <<barrieres, ancres, enfants, effaces>>

\* writeRowsWithClient, writeLogsWithClient: sessions first, then what refers to them.
EcrireTables(ls) ==
  /\ ancres' = Fusion(ancres, ls)
  /\ ClesTenues(ls, ancres')
  /\ enfants' = Insertion(enfants, ls, ancres')

\* writeReplayChunkWithClient: a session the tables do not know is created, unless barriers are enforced.
EcrireRejeu(ls) ==
  LET inconnues == {l.session : l \in ls} \ DOMAIN ancres
      admises == IF Mode = "enforce" THEN {l \in ls : l.session \notin inconnues} ELSE ls
  IN /\ ancres' = [s \in DOMAIN ancres \cup {l.session : l \in admises} |->
                     IF s \in DOMAIN ancres THEN ancres[s] ELSE [visiteur |-> Aucun, identite |-> Aucun]]
     /\ enfants' = Insertion(enfants, admises, ancres')
     /\ acquittes' = acquittes \cup admises

EcrireDirect(p) ==
  /\ Filtree(p, {"direct"})
  /\ IF tx[p].signal = "rejeu" THEN EcrireRejeu(tx[p].gardees)
     ELSE EcrireTables(tx[p].gardees) /\ acquittes' = acquittes \cup tx[p].lignes
  /\ Rendre(p)
  /\ UNCHANGED <<barrieres, file, depots, effaces>>

\* traiterCandidat: the rows and the removal of their batch are one commit.
Drainer(p) ==
  /\ Filtree(p, {"drain"})
  /\ EcrireTables(tx[p].gardees)
  /\ file' = [n \in DOMAIN file \ {tx[p].num} |-> file[n]]
  /\ Rendre(p)
  /\ UNCHANGED <<barrieres, depots, effaces, acquittes>>

\* The writes fail, a foreign key or anything else: back to the savepoint, one attempt more.
Echouer(p) ==
  /\ Filtree(p, {"drain"})
  /\ file' = [file EXCEPT ![tx[p].num].tentatives = @ + 1]
  /\ Rendre(p)
  /\ UNCHANGED <<barrieres, ancres, enfants, depots, effaces, acquittes>>

\* Sessions of the subject, stored and in the queue (privacy_sessions_en_file).
Relever(p) ==
  /\ Tient(p, {"effacement"})
  /\ LET s == tx[p].sujet IN
     tx' = [tx EXCEPT ![p] = Efface("releve", s, {a \in DOMAIN ancres : PorteCle(ancres[a], s)},
              {l.session : l \in {k \in UNION {file[n].lignes : n \in DOMAIN file} :
                                    k.genre = "session" /\ PorteCle(k, s)}})]
  /\ UNCHANGED <<verrou, base>>

\* Mutant: before v81, a batch that named a session of the subject went as a whole.
FileFiltree_LotEntier(cibles, s) ==
  [n \in {k \in DOMAIN file : \A l \in file[k].lignes : l.session \notin cibles /\ ~PorteCle(l, s)} |-> file[n]]

\* privacy_filtrer_file: rows of these sessions or with this key leave; a batch left empty goes.
FileFiltree(cibles, s) ==
  LET Garde(ls) == {l \in ls : l.session \notin cibles /\ ~PorteCle(l, s)}
  IN [n \in {k \in DOMAIN file : Garde(file[k].lignes) # {}} |-> [file[n] EXCEPT !.lignes = Garde(@)]]

\* Mutant: only sessions lead to the rows, as before v69.
AEffacer_ParSession(cibles, s) == {l \in DOMAIN enfants : enfants[l] \in cibles}

\* The rows an erasure deletes from the other tables: those of its sessions, and for an identity
\* the errors without session that carry it.
AEffacer(cibles, s) ==
  {l \in DOMAIN enfants : \/ enfants[l] \in cibles
                          \/ s[1] = "user" /\ l.genre = "erreur" /\ enfants[l] = Aucun /\ PorteCle(l, s)}

\* Barriers, queue, tables, commit.  Only an identity takes the sessions of the queue as targets.
Effacer(p) ==
  /\ tx[p] # Repos /\ tx[p].voie = "effacement" /\ tx[p].etape = "releve"
  /\ LET s == tx[p].sujet
         toutes == tx[p].stockees \cup tx[p].enFile
         cibles == IF s[1] = "user" THEN toutes ELSE tx[p].stockees
     IN /\ barrieres' = barrieres \cup IF Mode = "enforce" THEN {s} \cup ({"session"} \X toutes) ELSE {}
        /\ effaces' = effaces \cup IF Mode = "enforce" THEN {s} ELSE {}
        /\ file' = FileFiltree(cibles, s)
        /\ enfants' = [l \in DOMAIN enfants \ AEffacer(cibles, s) |-> enfants[l]]
        /\ ancres' = [a \in {k \in DOMAIN ancres : ~PorteCle(ancres[k], s)} |-> ancres[a]]
  /\ Rendre(p)
  /\ UNCHANGED <<depots, acquittes>>

\* A process dies, its connection is cut, its deadline passes, a direct write fails: all is undone.
Couper(p) ==
  /\ tx[p] # Repos /\ tx[p].etape # "attend"
  /\ Rendre(p)
  /\ UNCHANGED base

Transaction(p) ==
  \/ Recevoir(p) \/ LireCandidat(p) \/ Demander(p) \/ Verrouiller(p) \/ Renoncer(p)
  \/ Filtrer(p) \/ Reprendre(p) \/ Deposer(p) \/ EcrireDirect(p) \/ Drainer(p) \/ Echouer(p)
  \/ Relever(p) \/ Effacer(p) \/ Couper(p)

Next == \E p \in Procs : Transaction(p)
Spec == Init /\ [][Next]_vars

-----------------------------------------------------------------------------
(* Properties *)

LignesEnFile == UNION {file[n].lignes : n \in DOMAIN file}

\* Every table holds rows clients sent, every stored row refers to a stored session, and a process
\* beyond `attend` is the holder of the lock.
TypeOK ==
  /\ verrou \in Procs \cup {Aucun}
  /\ barrieres \subseteq Sujets \cup ({"session"} \X Sessions)
  /\ DOMAIN ancres \subseteq Sessions
  /\ \A s \in DOMAIN ancres : ancres[s] \in [visiteur : Visiteurs \cup {Aucun}, identite : Identites \cup {Aucun}]
  /\ DOMAIN enfants \subseteq Lignes
  /\ \A l \in DOMAIN enfants : enfants[l] \in Sessions \cup {Aucun}
  /\ \A l \in DOMAIN enfants : l.genre # "journal" /\ enfants[l] # Aucun => enfants[l] \in DOMAIN ancres
  /\ depots \in 0..MaxDepots /\ DOMAIN file \subseteq 1..depots
  /\ \A n \in DOMAIN file : file[n].lignes \in (SUBSET Lignes) \ {{}} /\ file[n].tentatives \in 0..MaxTentatives
  /\ \A p \in Procs : (tx[p] # Repos /\ tx[p].etape # "attend") <=> verrou = p
  /\ effaces \subseteq Sujets /\ acquittes \subseteq Lignes

\* Nothing that the barriers forbid enters a table: not a session, not a row under a barred session,
\* whatever transaction began before the erasure (« tout writer refuse les données rattachables à un
\* sujet effacé », migration-v81).
RienNeRevient ==
  [][/\ \A s \in DOMAIN ancres' \ DOMAIN ancres : <<"session", s>> \notin barrieres
     /\ \A l \in DOMAIN enfants' \ DOMAIN enfants :
          ~SousCle(l, barrieres) /\ <<"session", enfants'[l]>> \notin barrieres]_vars

\* What an enforced erasure has removed is nowhere again: no row with the key of the subject is in
\* a table or in the queue, where an older drain would write it.
RienDuSujet ==
  \A s \in effaces :
    /\ \A a \in DOMAIN ancres : ~PorteCle(ancres[a], s)
    /\ \A l \in DOMAIN enfants \cup LignesEnFile : ~PorteCle(l, s)

\* Those an erasure concerns: rows with the key, and rows of a session some row ties to it.
Concernees(s) ==
  LET clees == {l \in Lignes : PorteCle(l, s)}
  IN clees \cup {l \in Lignes : l.session # Aucun /\ \E k \in clees : k.session = l.session}

\* Of a mixed batch the others keep their rows: whatever the server answered for and no request
\* concerns is stored, or waits in the queue.
AutresIntacts ==
  \A l \in acquittes \ UNION {Concernees(s) : s \in Sujets} :
    \/ l \in DOMAIN enfants \cup LignesEnFile
    \/ l.genre = "session" /\ l.session \in DOMAIN ancres

\* A queued batch can still be written: once filtered by the barriers, none of its rows refers to a
\* session that neither the tables nor the batch hold (« Un lot portant deux personnes perd celle
\* qui a demandé l'effacement et conserve l'autre », migration-v81).  TLC refutes it for a batch of
\* two people when the barriers are not enforced (README, counterexamples without a run).
FileEcrivable ==
  \A n \in DOMAIN file :
    LET ls == Filtre(file[n].lignes, barrieres) IN ClesTenues(ls, Fusion(ancres, ls))

\* A session an erasure has found is gone from the tables when no transaction is writing it again:
\* no row of it remains right after the commit.  TLC refutes it for a log queued under a session
\* whose line is not stored (README, counterexamples without a run).
Complet(p) ==
  LET toutes == tx[p].stockees \cup tx[p].enFile
  IN /\ toutes \cap DOMAIN ancres' = {}
     /\ \A l \in DOMAIN enfants' : enfants'[l] \notin toutes
EffacementComplet == [][\A p \in Procs : Effacer(p) => Complet(p)]_vars
=============================================================================
