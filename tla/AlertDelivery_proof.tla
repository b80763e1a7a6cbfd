------------------------- MODULE AlertDelivery_proof -------------------------
(***************************************************************************)
(* What AlertDelivery promises, for any lines, deliverers, crashes and cut *)
(* connections.                                                            *)
(*                                                                         *)
(* Everything rests on IInv, which says what the row lock protects: while  *)
(* the transaction of a deliverer lives, its line is still to be delivered *)
(* and its count is the one that was read (Tenue).  The other invariants   *)
(* are inductive under it, each with a clause of its own: a deliverer is   *)
(* orphaned by a cut only (Orphelins), a POST after the acknowledgement    *)
(* uses up a reservation made before it (Retardataires), and an outcome    *)
(* "livre" was seen by the receiver (Temoins).                             *)
(***************************************************************************)
EXTENDS AlertDelivery, FiniteSetTheorems, TLAPS

Occupes(d) == {w \in Livreurs : etape[w] # "repos" /\ pris[w].d = d}

\* A line nobody has tried has no attempt, a line to be tried again has one left.
Lignes == \A d \in Livraisons :
  /\ status[d] \in {"absent", "queued"} => attempts[d] = 0
  /\ status[d] = "failed" => attempts[d] < MAX_ATTEMPTS

\* A deliverer at work has a line; while its transaction lives, what it read of it
\* is what the line says.
Tenue == \A w \in Livreurs : etape[w] # "repos" =>
  /\ pris[w].d \in Livraisons
  /\ TxVivante(w) => /\ status[pris[w].d] \in {"queued", "failed"}
                     /\ pris[w].attempts = attempts[pris[w].d]

IInv == TypeOK /\ Lignes /\ Tenue

-----------------------------------------------------------------------------
(* Effects *)

LEMMA ReposEffet ==
  ASSUME TypeOK, NEW w \in Livreurs, Repos(w)
  PROVE  /\ etape' \in [Livreurs -> Etapes] /\ pris' \in [Livreurs -> [d : 0..N, attempts : 0..MAX_ATTEMPTS, acquitte : BOOLEAN]]
         /\ issue' \in [Livreurs -> Issues]
         /\ etape'[w] = "repos"
         /\ \A v \in Livreurs : v # w => etape'[v] = etape[v] /\ pris'[v] = pris[v] /\ issue'[v] = issue[v]
  <1>1. Rien \in [d : 0..N, attempts : 0..MAX_ATTEMPTS, acquitte : BOOLEAN]
    BY DeliveryAssumption DEF Rien
  <1> QED BY <1>1 DEF TypeOK, Repos, Etapes, Issues

LEMMA LibererEffet ==
  ASSUME TypeOK, NEW w \in Livreurs, NEW d \in Livraisons, Liberer(w, d)
  PROVE  /\ verrou' \in [Livraisons -> Livreurs \cup {Personne}]
         /\ verrou'[d] # w
         /\ \A c \in Livraisons : verrou'[c] = verrou[c] \/ (c = d /\ verrou[c] = w /\ verrou'[c] = Personne)
  BY DeliveryAssumption DEF TypeOK, Liberer

\* The lines are those the deliverer has read, when it still holds its transaction.
LEMMA LigneTenue ==
  ASSUME IInv, NEW w \in Livreurs, etape[w] # "repos", TxVivante(w)
  PROVE  /\ pris[w].d \in Livraisons
         /\ status[pris[w].d] \in {"queued", "failed"}
         /\ attempts[pris[w].d] < MAX_ATTEMPTS
         /\ pris[w].attempts = attempts[pris[w].d]
  BY DeliveryAssumption DEF IInv, Lignes, Tenue

LEMMA DepartIInv == Init => IInv
  <1> SUFFICES ASSUME Init PROVE IInv
    OBVIOUS
  <1>1. Rien \in [d : 0..N, attempts : 0..MAX_ATTEMPTS, acquitte : BOOLEAN]
    BY DeliveryAssumption DEF Rien
  <1>2. TypeOK
    BY <1>1, DeliveryAssumption DEF Init, TypeOK, Etapes, Issues
  <1> QED BY <1>2, DeliveryAssumption DEF Init, IInv, Lignes, Tenue
-----------------------------------------------------------------------------
(* IInv is inductive. *)

LEMMA MettreIInv ==
  ASSUME IInv, NEW d \in Livraisons, Mettre(d)
  PROVE  IInv'
  <1> USE DEF Mettre, IInv, livreur, histoire
  <1>1. TypeOK'
    BY DEF TypeOK
  <1>2. Lignes'
    BY DEF Lignes, TypeOK
  <1>3. Tenue'
    BY DEF Tenue, TypeOK, TxVivante
  <1> QED BY <1>1, <1>2, <1>3

LEMMA AcquitterIInv ==
  ASSUME IInv, NEW d \in Livraisons, Acquitter(d)
  PROVE  IInv'
  BY DEF Acquitter, IInv, TypeOK, Lignes, Tenue, TxVivante, lignes, livreur, histoire

LEMMA EchoirIInv ==
  ASSUME IInv, NEW d \in Livraisons, Echoir(d)
  PROVE  IInv'
  BY DEF Echoir, IInv, TypeOK, Lignes, Tenue, TxVivante, livreur, histoire

\* The line reserved is free and eligible: it may still be tried.
LEMMA ReserverIInv ==
  ASSUME IInv, NEW w \in Livreurs, NEW d \in Livraisons, Reserver(w, d)
  PROVE  IInv'
  <1> USE DEF Reserver, lignes, histoire
  <1> DEFINE p == [d |-> d, attempts |-> attempts[d], acquitte |-> d \in acquitte]
  <1>1. p \in [d : 0..N, attempts : 0..MAX_ATTEMPTS, acquitte : BOOLEAN]
    BY DeliveryAssumption DEF IInv, TypeOK, Livraisons
  <1>2. pris' \in [Livreurs -> [d : 0..N, attempts : 0..MAX_ATTEMPTS, acquitte : BOOLEAN]] /\ pris'[w] = p
        /\ \A v \in Livreurs : v # w => pris'[v] = pris[v]
    BY <1>1 DEF IInv, TypeOK
  <1>3. etape' \in [Livreurs -> Etapes] /\ etape'[w] = "reserve" /\ \A v \in Livreurs : v # w => etape'[v] = etape[v]
    BY DEF IInv, TypeOK, Etapes
  <1>4. verrou' \in [Livraisons -> Livreurs \cup {Personne}] /\ verrou'[d] = w
        /\ \A c \in Livraisons : c # d => verrou'[c] = verrou[c]
    BY DEF IInv, TypeOK
  <1>5. p.d = d /\ p.attempts = attempts[d]
    OBVIOUS
  <1> HIDE DEF p
  <1>6. verrou[d] = Personne /\ status[d] \in {"queued", "failed"} /\ etape[w] = "repos"
    BY DEF Selection, Eligible
  <1>7. \A c \in Livraisons : verrou'[c] # Personne => etape'[verrou'[c]] # "repos" /\ pris'[verrou'[c]].d = c
    BY <1>2, <1>3, <1>4, <1>5, <1>6 DEF IInv, TypeOK
  <1>8. TypeOK'
    BY <1>2, <1>3, <1>4, <1>7 DEF IInv, TypeOK
  <1>9. Tenue'
    BY <1>2, <1>3, <1>4, <1>5, <1>6, DeliveryAssumption DEF IInv, TypeOK, Tenue, TxVivante
  <1> QED BY <1>8, <1>9 DEF IInv, Lignes

\* A deliverer that ends its pass without touching its line.
LEMMA FinIInv ==
  ASSUME IInv, NEW w \in Livreurs, etape[w] # "repos", Repos(w), UNCHANGED <<lignes, acquitte>>,
         verrou' \in [Livraisons -> Livreurs \cup {Personne}],
         \A c \in Livraisons : verrou'[c] # w /\ (verrou'[c] = verrou[c] \/ verrou'[c] = Personne),
         remis' \in [Livraisons -> Nat], cles' \subseteq Livraisons, interrompus' \in [Livraisons -> Nat], pannes' \in 0..MaxPannes,
         UNCHANGED <<envois, tardifs, coupures>>
  PROVE  IInv'
  <1> USE DEF lignes
  <1>1. \A c \in Livraisons : verrou'[c] # Personne => etape'[verrou'[c]] # "repos" /\ pris'[verrou'[c]].d = c
    BY ReposEffet DEF IInv, TypeOK
  <1>2. TypeOK'
    BY <1>1, ReposEffet DEF IInv, TypeOK
  <1>3. Tenue'
    BY ReposEffet, DeliveryAssumption DEF IInv, Tenue, TxVivante
  <1> QED BY <1>2, <1>3 DEF IInv, Lignes

\* A pass that settles its line in one way or another.
LEMMA EcritureIInv ==
  ASSUME IInv, NEW w \in Livreurs, etape[w] # "repos", TxVivante(w), Repos(w), Liberer(w, pris[w].d),
         NEW s \in {"failed"} \cup Soldes, NEW n \in 0..MAX_ATTEMPTS, s = "failed" => n < MAX_ATTEMPTS,
         status' = [status EXCEPT ![pris[w].d] = s], attempts' = [attempts EXCEPT ![pris[w].d] = n],
         echu' \in [Livraisons -> BOOLEAN],
         UNCHANGED <<acquitte, remis, cles, histoire, pannes>>
  PROVE  IInv'
  <1> DEFINE d == pris[w].d
  <1> USE DEF histoire
  <1>1. d \in Livraisons
    BY LigneTenue
  <1>2. \A c \in Livraisons : verrou'[c] # w /\ (verrou'[c] = verrou[c] \/ (c = d /\ verrou'[c] = Personne))
    <2>1. \A c \in Livraisons : verrou[c] = w => c = d
      BY DeliveryAssumption DEF IInv, TypeOK
    <2>2. /\ verrou'[d] # w
          /\ \A c \in Livraisons : verrou'[c] = verrou[c] \/ (c = d /\ verrou[c] = w /\ verrou'[c] = Personne)
      BY <1>1, LibererEffet DEF IInv
    <2> QED BY <2>1, <2>2
  <1>3. \A c \in Livraisons : verrou'[c] # Personne => etape'[verrou'[c]] # "repos" /\ pris'[verrou'[c]].d = c
    BY <1>2, ReposEffet DEF IInv, TypeOK
  <1>4. /\ status' \in [Livraisons -> {"absent", "queued", "failed"} \cup Soldes]
        /\ attempts' \in [Livraisons -> 0..MAX_ATTEMPTS]
    BY <1>1 DEF IInv, TypeOK
  <1>5. TypeOK'
    BY <1>1, <1>3, <1>4, ReposEffet, LibererEffet DEF IInv, TypeOK
  <1>6. Lignes'
    BY <1>1 DEF IInv, TypeOK, Lignes, Soldes
  <1>7. ASSUME NEW v \in Livreurs, etape'[v] # "repos"
        PROVE  /\ pris'[v].d \in Livraisons
               /\ TxVivante(v)' => /\ status'[pris'[v].d] \in {"queued", "failed"}
                                   /\ pris'[v].attempts = attempts'[pris'[v].d]
    <2>1. v # w /\ etape[v] # "repos" /\ pris'[v] = pris[v] /\ pris[v].d \in Livraisons
      BY <1>7, ReposEffet DEF IInv, Tenue
    <2>2. TxVivante(v)' => TxVivante(v) /\ pris[v].d # d
      BY <1>1, <1>2, <2>1, DeliveryAssumption DEF TxVivante
    <2> QED BY <1>1, <2>1, <2>2 DEF IInv, TypeOK, Tenue
  <1>8. Tenue'
    BY <1>7 DEF Tenue
  <1> QED BY <1>5, <1>6, <1>8 DEF IInv

LEMMA SolderIInv ==
  ASSUME IInv, NEW w \in Livreurs, Solder(w)
  PROVE  IInv'
  <1> DEFINE d == pris[w].d
  <1>1. etape[w] # "repos" /\ TxVivante(w) /\ d \in Livraisons
    BY LigneTenue DEF Solder
  <1>2. attempts[d] \in 0..MAX_ATTEMPTS /\ attempts' = [attempts EXCEPT ![d] = attempts[d]]
    BY <1>1 DEF IInv, TypeOK, Solder
  <1>3. "skipped" \in {"failed"} \cup Soldes
    BY DEF Soldes
  <1> QED BY <1>1, <1>2, <1>3, EcritureIInv DEF Solder, IInv, TypeOK

LEMMA PosterIInv ==
  ASSUME IInv, NEW w \in Livreurs, Poster(w)
  PROVE  IInv'
  <1>1. pris[w].d \in Livraisons
    BY DEF Poster, IInv, Tenue
  <1>2. etape' \in [Livreurs -> Etapes] /\ etape'[w] = "poste" /\ \A v \in Livreurs : v # w => etape'[v] = etape[v]
    BY DEF IInv, TypeOK, Poster, Etapes
  <1>3. envois' \in [Livraisons -> Nat] /\ tardifs' \in [Livraisons -> Nat]
    BY <1>1 DEF IInv, TypeOK, Poster
  <1> QED BY <1>1, <1>2, <1>3 DEF Poster, IInv, TypeOK, Lignes, Tenue, TxVivante, lignes

\* The e-mail of a line was sent once its key was seen.
Timbres == \A d \in Livraisons : Canal[d] = "email" => remis[d] = IF d \in cles THEN 1 ELSE 0

LEMMA RecuEffet ==
  ASSUME TypeOK, NEW w \in Livreurs, pris[w].d \in Livraisons, Recu(w)
  PROVE  /\ remis' \in [Livraisons -> Nat] /\ cles' \subseteq Livraisons
         /\ \A c \in Livraisons : remis'[c] >= remis[c]
         /\ Timbres => (Timbres' /\ remis'[pris[w].d] >= 1)
  <1>1. remis \in [Livraisons -> Nat] /\ cles \subseteq Livraisons
    BY DEF TypeOK
  <1>2. CASE Canal[pris[w].d] = "email"
    <2>1. /\ remis' = [remis EXCEPT ![pris[w].d] = IF pris[w].d \in cles THEN @ ELSE @ + 1]
          /\ cles' = cles \cup {pris[w].d}
      BY <1>2 DEF Recu, Cle
    <2> QED BY <1>1, <1>2, <2>1 DEF Timbres
  <1>3. CASE Canal[pris[w].d] # "email"
    <2>1. remis' = [remis EXCEPT ![pris[w].d] = @ + 1] /\ cles' = cles
      BY <1>3 DEF Recu
    <2> QED BY <1>1, <1>3, <2>1 DEF Timbres
  <1> QED BY <1>2, <1>3

LEMMA RepondreIInv ==
  ASSUME IInv, NEW w \in Livreurs, NEW r \in Issues, Repondre(w, r)
  PROVE  IInv'
  <1>1. pris[w].d \in Livraisons
    BY DEF Repondre, IInv, Tenue
  <1>2. etape' \in [Livreurs -> Etapes] /\ etape'[w] = "repondu" /\ \A v \in Livreurs : v # w => etape'[v] = etape[v]
    BY DEF IInv, TypeOK, Repondre, Etapes
  <1>3. remis' \in [Livraisons -> Nat] /\ cles' \subseteq Livraisons /\ issue' \in [Livreurs -> Issues]
    BY <1>1, RecuEffet DEF IInv, TypeOK, Repondre
  <1> QED BY <1>1, <1>2, <1>3 DEF Repondre, IInv, TypeOK, Lignes, Tenue, TxVivante, lignes, histoire

\* What decideStatus says: a line that may be tried again has an attempt left.
LEMMA DecideStatusForme ==
  ASSUME NEW r \in Issues, NEW n \in Nat
  PROVE  /\ decideStatus(r, n) \in {"delivered", "dead", "failed"}
         /\ decideStatus(r, n) = "failed" => n + 1 < MAX_ATTEMPTS
         /\ decideStatus(r, n) = "delivered" => r = "livre"
  <1> USE DeliveryAssumption DEF decideStatus, Issues
  <1>1. CASE r = "livre"
    BY <1>1
  <1>2. CASE r = "terminal"
    BY <1>2
  <1>3. CASE r = "rejouable"
    BY <1>3
  <1> QED BY <1>1, <1>2, <1>3

LEMMA MarquerIInv ==
  ASSUME IInv, NEW w \in Livreurs, Marquer(w)
  PROVE  IInv'
  <1> DEFINE d == pris[w].d
             s == decideStatus(issue[w], pris[w].attempts)
  <1>1. /\ etape[w] # "repos" /\ TxVivante(w) /\ d \in Livraisons
        /\ attempts[d] \in Nat /\ attempts[d] < MAX_ATTEMPTS /\ pris[w].attempts = attempts[d]
    BY LigneTenue DEF Marquer, IInv, TypeOK
  <1>2. status' = [status EXCEPT ![d] = s] /\ attempts' = [attempts EXCEPT ![d] = attempts[d] + 1]
        /\ echu' \in [Livraisons -> BOOLEAN]
    BY <1>1 DEF Marquer, marquer, IInv, TypeOK
  <1>3. s \in {"failed"} \cup Soldes /\ (s = "failed" => attempts[d] + 1 < MAX_ATTEMPTS)
    BY <1>1, DecideStatusForme DEF IInv, TypeOK, Soldes
  <1>4. attempts[d] + 1 \in 0..MAX_ATTEMPTS
    BY <1>1, DeliveryAssumption
  <1> HIDE DEF s
  <1> QED BY <1>1, <1>2, <1>3, <1>4, EcritureIInv DEF Marquer

LEMMA CouperIInv ==
  ASSUME IInv, NEW w \in Livreurs, Couper(w)
  PROVE  IInv'
  <1>1. pris[w].d \in Livraisons
    BY DEF Couper, IInv, Tenue
  <1>2. verrou' \in [Livraisons -> Livreurs \cup {Personne}]
        /\ \A c \in Livraisons : verrou'[c] = verrou[c] \/ verrou'[c] = Personne
    BY <1>1 DEF Couper, IInv, TypeOK
  <1>3. coupures' \in [Livraisons -> Nat] /\ pannes' \in 0..MaxPannes
    BY <1>1, DeliveryAssumption DEF Couper, IInv, TypeOK
  <1>4. TypeOK'
    BY <1>2, <1>3 DEF Couper, IInv, TypeOK, lignes, livreur
  <1>5. Tenue'
    BY <1>2, DeliveryAssumption DEF Couper, IInv, Tenue, TxVivante, lignes, livreur
  <1> QED BY <1>4, <1>5 DEF Couper, IInv, Lignes, lignes

LEMMA PerdreEffet ==
  ASSUME TypeOK, NEW w \in Livreurs, pris[w].d \in Livraisons, Perdre(w)
  PROVE  /\ interrompus' \in [Livraisons -> Nat]
         /\ \A c \in Livraisons : interrompus'[c] =
              IF c = pris[w].d /\ etape[w] \in {"poste", "repondu"} THEN interrompus[c] + 1 ELSE interrompus[c]
  BY DEF TypeOK, Perdre

LEMMA EchouerEcritureIInv ==
  ASSUME IInv, NEW w \in Livreurs, EchouerEcriture(w)
  PROVE  IInv'
  <1>1. pris[w].d \in Livraisons /\ etape[w] # "repos"
    BY DEF EchouerEcriture, IInv, Tenue
  <1>2. \A c \in Livraisons : verrou[c] # w
    BY DeliveryAssumption DEF EchouerEcriture, TxVivante, IInv, TypeOK
  <1> QED BY <1>1, <1>2, PerdreEffet, FinIInv DEF EchouerEcriture, IInv, TypeOK

LEMMA TomberIInv ==
  ASSUME IInv, NEW w \in Livreurs, Tomber(w)
  PROVE  IInv'
  <1>1. pris[w].d \in Livraisons /\ etape[w] # "repos"
    BY DEF Tomber, IInv, Tenue
  <1>2. verrou' \in [Livraisons -> Livreurs \cup {Personne}]
        /\ \A c \in Livraisons : verrou'[c] # w /\ (verrou'[c] = verrou[c] \/ verrou'[c] = Personne)
    BY <1>1, LibererEffet, DeliveryAssumption DEF Tomber, IInv, TypeOK
  <1>3. remis' \in [Livraisons -> Nat] /\ cles' \subseteq Livraisons /\ pannes' \in 0..MaxPannes
    BY <1>1, RecuEffet, DeliveryAssumption DEF Tomber, IInv, TypeOK
  <1> QED BY <1>1, <1>2, <1>3, PerdreEffet, FinIInv DEF Tomber, IInv

LEMMA PasIInv == IInv /\ [Next]_vars => IInv'
  <1> SUFFICES ASSUME IInv, [Next]_vars PROVE IInv'
    OBVIOUS
  <1>1. CASE UNCHANGED vars
    BY <1>1 DEF vars, IInv, TypeOK, Lignes, Tenue, TxVivante
  <1>2. ASSUME NEW d \in Livraisons, Mettre(d) \/ Acquitter(d) \/ Echoir(d)
        PROVE  IInv'
    BY <1>2, MettreIInv, AcquitterIInv, EchoirIInv
  <1>3. ASSUME NEW w \in Livreurs, Avancer(w)
        PROVE  IInv'
    BY <1>3, ReserverIInv, SolderIInv, PosterIInv, RepondreIInv, MarquerIInv, EchouerEcritureIInv DEF Avancer
  <1>4. ASSUME NEW w \in Livreurs, Couper(w) \/ Tomber(w)
        PROVE  IInv'
    BY <1>4, CouperIInv, TomberIInv
  <1> QED BY <1>1, <1>2, <1>3, <1>4 DEF Next

\* Types; a deliverer holds one lock at most, that of its own line; and while its
\* transaction lives, the line it will write has not been settled by another.
THEOREM LockProtects == Spec => []IInv
  <1> QED BY DepartIInv, PasIInv, PTL DEF Spec
-----------------------------------------------------------------------------
(* Counting deliverers *)

LEMMA Compte ==
  ASSUME NEW S \in SUBSET Livreurs
  PROVE  /\ IsFiniteSet(S) /\ Cardinality(S) \in Nat
         /\ \A T \in SUBSET S : IsFiniteSet(T) /\ Cardinality(T) \in Nat /\ Cardinality(T) <= Cardinality(S)
         /\ \A w : Cardinality(S \cup {w}) = IF w \in S THEN Cardinality(S) ELSE Cardinality(S) + 1
         /\ \A w : Cardinality(S \ {w}) = IF w \in S THEN Cardinality(S) - 1 ELSE Cardinality(S)
  <1>1. IsFiniteSet(S) /\ Cardinality(S) \in Nat
    BY DeliveryAssumption, FS_Subset, FS_CardinalityType
  <1>2. \A T \in SUBSET S : IsFiniteSet(T) /\ Cardinality(T) \in Nat /\ Cardinality(T) <= Cardinality(S)
    BY <1>1, FS_Subset, FS_CardinalityType
  <1> QED BY <1>1, <1>2, FS_AddElement, FS_RemoveElement

-----------------------------------------------------------------------------
(* Every POST is accounted for. *)

LEMMA CompteDepart == Init => CompteExact
  <1> SUFFICES ASSUME Init, NEW d \in Livraisons
               PROVE  envois[d] = attempts[d] + interrompus[d] + Cardinality(EnCours(d))
    BY DEF CompteExact
  <1>1. EnCours(d) = {}
    BY DEF Init, EnCours
  <1> QED BY <1>1, FS_EmptySet DEF Init

LEMMA ComptePas ==
  ASSUME IInv, CompteExact, [Next]_vars
  PROVE  CompteExact'
  <1> SUFFICES ASSUME NEW d \in Livraisons
               PROVE  envois'[d] = attempts'[d] + interrompus'[d] + Cardinality(EnCours(d)')
    BY DEF CompteExact
  <1>0. /\ EnCours(d) \in SUBSET Livreurs /\ Cardinality(EnCours(d)) \in Nat
        /\ envois[d] \in Nat /\ attempts[d] \in Nat /\ interrompus[d] \in Nat
        /\ envois[d] = attempts[d] + interrompus[d] + Cardinality(EnCours(d))
    BY Compte DEF EnCours, IInv, TypeOK, CompteExact
  <1>1. ASSUME EnCours(d)' = EnCours(d), envois'[d] = envois[d], attempts'[d] = attempts[d],
               interrompus'[d] = interrompus[d]
        PROVE  envois'[d] = attempts'[d] + interrompus'[d] + Cardinality(EnCours(d)')
    BY <1>0, <1>1
  <1>2. ASSUME NEW w \in Livreurs, etape[w] \notin {"poste", "repondu"}, Repos(w),
               UNCHANGED <<envois, attempts, interrompus>>
        PROVE  envois'[d] = attempts'[d] + interrompus'[d] + Cardinality(EnCours(d)')
    <2>1. EnCours(d)' = EnCours(d)
      BY <1>2, ReposEffet DEF EnCours, IInv
    <2> QED BY <1>1, <1>2, <2>1
  <1>3. ASSUME NEW w \in Livreurs, Repos(w), pris[w].d \in Livraisons, envois' = envois, attempts' = attempts, Perdre(w)
        PROVE  envois'[d] = attempts'[d] + interrompus'[d] + Cardinality(EnCours(d)')
    <2>1. CASE w \in EnCours(d)
      <3>1. EnCours(d)' = EnCours(d) \ {w}
        BY <1>3, <2>1, ReposEffet DEF EnCours, IInv
      <3>2. Cardinality(EnCours(d)') = Cardinality(EnCours(d)) - 1
        BY <1>0, <2>1, <3>1, Compte
      <3>3. interrompus'[d] = interrompus[d] + 1
        BY <1>3, <2>1, PerdreEffet DEF EnCours, IInv
      <3> QED BY <1>0, <1>3, <3>2, <3>3
    <2>2. CASE w \notin EnCours(d)
      <3>1. EnCours(d)' = EnCours(d)
        BY <1>3, <2>2, ReposEffet DEF EnCours, IInv
      <3>2. interrompus'[d] = interrompus[d]
        BY <1>3, <2>2, PerdreEffet DEF EnCours, IInv
      <3> QED BY <1>1, <1>3, <3>1, <3>2
    <2> QED BY <2>1, <2>2
  <1>4. CASE UNCHANGED vars
    BY <1>1, <1>4 DEF vars, EnCours
  <1>5. ASSUME NEW c \in Livraisons, Mettre(c) \/ Acquitter(c) \/ Echoir(c)
        PROVE  envois'[d] = attempts'[d] + interrompus'[d] + Cardinality(EnCours(d)')
    BY <1>1, <1>5 DEF Mettre, Acquitter, Echoir, EnCours, lignes, livreur, histoire
  <1>6. ASSUME NEW w \in Livreurs, NEW c \in Livraisons, Reserver(w, c)
        PROVE  envois'[d] = attempts'[d] + interrompus'[d] + Cardinality(EnCours(d)')
    <2>1. EnCours(d)' = EnCours(d)
      BY <1>6 DEF Reserver, EnCours, IInv, TypeOK
    <2> QED BY <1>1, <1>6, <2>1 DEF Reserver, lignes, histoire
  <1>7. ASSUME NEW w \in Livreurs, Solder(w)
        PROVE  envois'[d] = attempts'[d] + interrompus'[d] + Cardinality(EnCours(d)')
    BY <1>2, <1>7 DEF Solder, histoire
  <1>8. ASSUME NEW w \in Livreurs, Poster(w)
        PROVE  envois'[d] = attempts'[d] + interrompus'[d] + Cardinality(EnCours(d)')
    <2>1. CASE pris[w].d = d
      <3>1. EnCours(d)' = EnCours(d) \cup {w} /\ w \notin EnCours(d)
        BY <1>8, <2>1 DEF Poster, EnCours, IInv, TypeOK
      <3>2. Cardinality(EnCours(d)') = Cardinality(EnCours(d)) + 1
        BY <1>0, <3>1, Compte
      <3>3. envois'[d] = envois[d] + 1 /\ attempts'[d] = attempts[d] /\ interrompus'[d] = interrompus[d]
        BY <1>8, <2>1 DEF Poster, IInv, TypeOK, lignes
      <3> QED BY <1>0, <3>2, <3>3
    <2>2. CASE pris[w].d # d
      <3>1. EnCours(d)' = EnCours(d)
        BY <1>8, <2>2 DEF Poster, EnCours, IInv, TypeOK
      <3> QED BY <1>1, <1>8, <2>2, <3>1 DEF Poster, IInv, TypeOK, lignes
    <2> QED BY <2>1, <2>2
  <1>9. ASSUME NEW w \in Livreurs, NEW r \in Issues, Repondre(w, r)
        PROVE  envois'[d] = attempts'[d] + interrompus'[d] + Cardinality(EnCours(d)')
    <2>1. EnCours(d)' = EnCours(d)
      BY <1>9 DEF Repondre, EnCours, IInv, TypeOK
    <2> QED BY <1>1, <1>9, <2>1 DEF Repondre, lignes, histoire
  <1>10. ASSUME NEW w \in Livreurs, Marquer(w)
         PROVE  envois'[d] = attempts'[d] + interrompus'[d] + Cardinality(EnCours(d)')
    <2>1. CASE pris[w].d = d
      <3>1. EnCours(d)' = EnCours(d) \ {w} /\ w \in EnCours(d)
        BY <1>10, <2>1, ReposEffet DEF Marquer, EnCours, IInv
      <3>2. Cardinality(EnCours(d)') = Cardinality(EnCours(d)) - 1
        BY <1>0, <3>1, Compte
      <3>3. attempts'[d] = attempts[d] + 1 /\ envois'[d] = envois[d] /\ interrompus'[d] = interrompus[d]
        BY <1>10, <2>1 DEF Marquer, marquer, IInv, TypeOK, histoire
      <3> QED BY <1>0, <3>2, <3>3
    <2>2. CASE pris[w].d # d
      <3>1. EnCours(d)' = EnCours(d)
        BY <1>10, <2>2, ReposEffet DEF Marquer, EnCours, IInv
      <3> QED BY <1>1, <1>10, <2>2, <3>1 DEF Marquer, marquer, IInv, TypeOK, histoire
    <2> QED BY <2>1, <2>2
  <1>11. ASSUME NEW w \in Livreurs, Couper(w)
         PROVE  envois'[d] = attempts'[d] + interrompus'[d] + Cardinality(EnCours(d)')
    BY <1>1, <1>11 DEF Couper, EnCours, lignes, livreur
  <1>12. ASSUME NEW w \in Livreurs, EchouerEcriture(w) \/ Tomber(w)
         PROVE  envois'[d] = attempts'[d] + interrompus'[d] + Cardinality(EnCours(d)')
    <2>1. pris[w].d \in Livraisons
      BY <1>12 DEF EchouerEcriture, Tomber, IInv, Tenue
    <2> QED BY <1>3, <1>12, <2>1 DEF EchouerEcriture, Tomber, lignes
  <1> QED BY <1>4, <1>5, <1>6, <1>7, <1>8, <1>9, <1>10, <1>11, <1>12 DEF Next, Avancer

\* A line is posted as often as its attempts count, but for the POST under way and
\* those whose pass was interrupted (marquer and the rollback of dispatchOnce).
THEOREM AttemptsExact == Spec => []CompteExact
  <1>1. IInv /\ CompteExact /\ [Next]_vars => CompteExact'
    BY ComptePas
  <1> QED BY CompteDepart, <1>1, LockProtects, PTL DEF Spec
-----------------------------------------------------------------------------
(* At most one POST per line, but for those a cut has orphaned. *)

Orphelins(d) == {w \in Occupes(d) : verrou[d] # w}
Orphelinage  == \A d \in Livraisons : Cardinality(Orphelins(d)) <= coupures[d]

LEMMA OrphelinsDepart == Init => Orphelinage
  <1> SUFFICES ASSUME Init, NEW d \in Livraisons
               PROVE  Cardinality(Orphelins(d)) <= coupures[d]
    BY DEF Orphelinage
  <1>1. Orphelins(d) = {}
    BY DEF Init, Orphelins, Occupes
  <1> QED BY <1>1, FS_EmptySet DEF Init

LEMMA OrphelinsPas ==
  ASSUME IInv, Orphelinage, [Next]_vars
  PROVE  Orphelinage'
  <1> SUFFICES ASSUME NEW d \in Livraisons
               PROVE  Cardinality(Orphelins(d)') <= coupures'[d]
    BY DEF Orphelinage
  <1>0. /\ Orphelins(d) \in SUBSET Livreurs /\ Cardinality(Orphelins(d)) \in Nat
        /\ coupures[d] \in Nat /\ Cardinality(Orphelins(d)) <= coupures[d]
    BY Compte DEF Orphelins, Occupes, IInv, TypeOK, Orphelinage
  <1>1. ASSUME Orphelins(d)' \subseteq Orphelins(d), coupures'[d] = coupures[d]
        PROVE  Cardinality(Orphelins(d)') <= coupures'[d]
    BY <1>0, <1>1, Compte
  \* A deliverer that goes leaves the locks of the others alone.
  <1>2. ASSUME NEW w \in Livreurs, Repos(w), coupures' = coupures,
               \A c \in Livraisons : verrou'[c] = verrou[c] \/ verrou[c] = w
        PROVE  Cardinality(Orphelins(d)') <= coupures'[d]
    <2>1. Orphelins(d)' \subseteq Orphelins(d)
      BY <1>2, ReposEffet DEF Orphelins, Occupes, IInv
    <2> QED BY <1>1, <1>2, <2>1
  <1>3. CASE UNCHANGED vars
    BY <1>1, <1>3 DEF vars, Orphelins, Occupes
  <1>4. ASSUME NEW c \in Livraisons, Mettre(c) \/ Acquitter(c) \/ Echoir(c)
        PROVE  Cardinality(Orphelins(d)') <= coupures'[d]
    BY <1>1, <1>4 DEF Mettre, Acquitter, Echoir, Orphelins, Occupes, livreur, histoire
  <1>5. ASSUME NEW w \in Livreurs, NEW c \in Livraisons, Reserver(w, c)
        PROVE  Cardinality(Orphelins(d)') <= coupures'[d]
    <2> DEFINE p == [d |-> c, attempts |-> attempts[c], acquitte |-> c \in acquitte]
    <2>1. /\ verrou[c] = Personne /\ verrou'[c] = w
          /\ \A x \in Livraisons : x # c => verrou'[x] = verrou[x]
          /\ \A v \in Livreurs : v # w => etape'[v] = etape[v] /\ pris'[v] = pris[v]
          /\ pris'[w] = p
      BY <1>5 DEF Reserver, Selection, IInv, TypeOK
    <2>2. pris'[w].d = c
      BY <2>1
    <2> HIDE DEF p
    <2>3. Orphelins(d)' \subseteq Orphelins(d)
      BY <2>1, <2>2, DeliveryAssumption DEF Orphelins, Occupes
    <2> QED BY <1>1, <1>5, <2>3 DEF Reserver, histoire
  <1>6. ASSUME NEW w \in Livreurs, Solder(w) \/ Marquer(w)
        PROVE  Cardinality(Orphelins(d)') <= coupures'[d]
    <2>1. pris[w].d \in Livraisons
      BY <1>6 DEF Solder, Marquer, IInv, Tenue
    <2>2. \A c \in Livraisons : verrou'[c] = verrou[c] \/ verrou[c] = w
      BY <1>6, <2>1, LibererEffet DEF Solder, Marquer, IInv
    <2> QED BY <1>2, <1>6, <2>2 DEF Solder, Marquer, histoire
  <1>7. ASSUME NEW w \in Livreurs, Poster(w)
        PROVE  Cardinality(Orphelins(d)') <= coupures'[d]
    BY <1>1, <1>7 DEF Poster, Orphelins, Occupes, IInv, TypeOK
  <1>8. ASSUME NEW w \in Livreurs, NEW r \in Issues, Repondre(w, r)
        PROVE  Cardinality(Orphelins(d)') <= coupures'[d]
    BY <1>1, <1>8 DEF Repondre, Orphelins, Occupes, IInv, TypeOK, histoire
  <1>9. ASSUME NEW w \in Livreurs, Couper(w)
        PROVE  Cardinality(Orphelins(d)') <= coupures'[d]
    <2>1. CASE pris[w].d = d
      <3>1. Orphelins(d)' \subseteq Orphelins(d) \cup {w}
        BY <1>9, <2>1, DeliveryAssumption DEF Couper, Orphelins, Occupes, TxVivante, IInv, TypeOK, livreur
      <3>2. coupures'[d] = coupures[d] + 1
        BY <1>9, <2>1 DEF Couper, IInv, TypeOK
      <3>3. /\ Orphelins(d) \cup {w} \in SUBSET Livreurs
            /\ Cardinality(Orphelins(d) \cup {w}) <= Cardinality(Orphelins(d)) + 1
            /\ Cardinality(Orphelins(d) \cup {w}) \in Nat
        BY <1>0, Compte
      <3>4. Cardinality(Orphelins(d)') \in Nat /\ Cardinality(Orphelins(d)') <= Cardinality(Orphelins(d) \cup {w})
        BY <3>1, <3>3, Compte
      <3> QED BY <1>0, <3>2, <3>3, <3>4
    <2>2. CASE pris[w].d # d
      <3>1. Orphelins(d)' = Orphelins(d) /\ coupures'[d] = coupures[d]
        BY <1>9, <2>2 DEF Couper, Orphelins, Occupes, IInv, TypeOK, livreur
      <3> QED BY <1>1, <3>1
    <2> QED BY <2>1, <2>2
  <1>10. ASSUME NEW w \in Livreurs, EchouerEcriture(w)
         PROVE  Cardinality(Orphelins(d)') <= coupures'[d]
    BY <1>2, <1>10 DEF EchouerEcriture
  <1>11. ASSUME NEW w \in Livreurs, Tomber(w)
         PROVE  Cardinality(Orphelins(d)') <= coupures'[d]
    <2>1. pris[w].d \in Livraisons
      BY <1>11 DEF Tomber, IInv, Tenue
    <2>2. \A c \in Livraisons : verrou'[c] = verrou[c] \/ verrou[c] = w
      BY <1>11, <2>1, LibererEffet DEF Tomber, IInv
    <2> QED BY <1>2, <1>11, <2>2 DEF Tomber
  <1> QED BY <1>3, <1>4, <1>5, <1>6, <1>7, <1>8, <1>9, <1>10, <1>11 DEF Next, Avancer

\* The deliverers of a line are its orphans and the one that holds it.
LEMMA OccupesBornes ==
  ASSUME IInv, Orphelinage, NEW d \in Livraisons, NEW S \in SUBSET Occupes(d)
  PROVE  Cardinality(S) \in Nat /\ Cardinality(S) <= 1 + coupures[d]
  <1>1. /\ Orphelins(d) \in SUBSET Livreurs /\ Cardinality(Orphelins(d)) \in Nat
        /\ coupures[d] \in Nat /\ Cardinality(Orphelins(d)) <= coupures[d] /\ S \in SUBSET Livreurs
    BY Compte DEF Orphelins, Occupes, IInv, TypeOK, Orphelinage
  <1>2. S \subseteq Orphelins(d) \cup (Livreurs \cap {verrou[d]})
    BY DEF Orphelins, Occupes
  <1>3. CASE verrou[d] \in Livreurs
    <2>1. S \in SUBSET (Orphelins(d) \cup {verrou[d]}) /\ Orphelins(d) \cup {verrou[d]} \in SUBSET Livreurs
      BY <1>1, <1>2, <1>3
    <2>2. Cardinality(Orphelins(d) \cup {verrou[d]}) <= Cardinality(Orphelins(d)) + 1
          /\ Cardinality(Orphelins(d) \cup {verrou[d]}) \in Nat
      BY <1>1, Compte
    <2>3. Cardinality(S) \in Nat /\ Cardinality(S) <= Cardinality(Orphelins(d) \cup {verrou[d]})
      BY <2>1, Compte
    <2> QED BY <1>1, <2>2, <2>3
  <1>4. CASE verrou[d] \notin Livreurs
    <2>1. S \in SUBSET Orphelins(d)
      BY <1>2, <1>4
    <2>2. Cardinality(S) \in Nat /\ Cardinality(S) <= Cardinality(Orphelins(d))
      BY <1>1, <2>1, Compte
    <2> QED BY <1>1, <2>2
  <1> QED BY <1>3, <1>4

LEMMA OrphelinageToujours == Spec => []Orphelinage
  <1>1. IInv /\ Orphelinage /\ [Next]_vars => Orphelinage'
    BY OrphelinsPas
  <1> QED BY OrphelinsDepart, <1>1, LockProtects, PTL DEF Spec

\* Two deliverers post one line together only if a cut connection has released it
\* behind the back of one of them ("for update skip locked" of selectionSql).
THEOREM OnePostAtATime == Spec => []UnSeulEnVol
  <1>1. IInv /\ Orphelinage => UnSeulEnVol
    <2> SUFFICES ASSUME IInv, Orphelinage, NEW d \in Livraisons
                 PROVE  Cardinality(EnVol(d)) <= 1 + coupures[d]
      BY DEF UnSeulEnVol
    <2>1. EnVol(d) \in SUBSET Occupes(d)
      BY DEF EnVol, Occupes
    <2> QED BY <2>1, OccupesBornes
  <1> QED BY <1>1, LockProtects, OrphelinageToujours, PTL

-----------------------------------------------------------------------------
(* The acknowledgement *)

\* Who reserved the line before the acknowledgement, and has not posted yet.
EnRetard(d) == {w \in Occupes(d) : etape[w] = "reserve" /\ ~pris[w].acquitte}

Retardataires == \A d \in Escalade :
  /\ d \notin acquitte => tardifs[d] = 0
  /\ d \in acquitte => tardifs[d] + Cardinality(EnRetard(d)) <= 1 + coupures[d]

LEMMA RetardatairesPas ==
  ASSUME IInv, Orphelinage, Retardataires, [Next]_vars
  PROVE  Retardataires'
  <1> SUFFICES ASSUME NEW d \in Escalade
               PROVE  /\ d \notin acquitte' => tardifs'[d] = 0
                      /\ d \in acquitte' => tardifs'[d] + Cardinality(EnRetard(d)') <= 1 + coupures'[d]
    BY DEF Retardataires
  <1> DEFINE But == /\ d \notin acquitte' => tardifs'[d] = 0
                    /\ d \in acquitte' => tardifs'[d] + Cardinality(EnRetard(d)') <= 1 + coupures'[d]
  <1>0. /\ d \in Livraisons /\ EnRetard(d) \in SUBSET Livreurs /\ Cardinality(EnRetard(d)) \in Nat
        /\ EnRetard(d) \in SUBSET Occupes(d) /\ tardifs[d] \in Nat /\ coupures[d] \in Nat
        /\ d \notin acquitte => tardifs[d] = 0
        /\ d \in acquitte => tardifs[d] + Cardinality(EnRetard(d)) <= 1 + coupures[d]
    BY DeliveryAssumption, Compte DEF EnRetard, Occupes, IInv, TypeOK, Retardataires
  \* No new latecomer, no late POST.
  <1>1. ASSUME acquitte' = acquitte, tardifs'[d] = tardifs[d], coupures'[d] \in Nat, coupures'[d] >= coupures[d],
               d \in acquitte => EnRetard(d)' \subseteq EnRetard(d)
        PROVE  But
    <2>1. d \in acquitte => Cardinality(EnRetard(d)') \in Nat /\ Cardinality(EnRetard(d)') <= Cardinality(EnRetard(d))
      BY <1>0, <1>1, Compte
    <2> QED BY <1>0, <1>1, <2>1
  <1>2. ASSUME NEW w \in Livreurs, Repos(w), acquitte' = acquitte, tardifs' = tardifs, coupures' = coupures
        PROVE  But
    <2>1. EnRetard(d)' \subseteq EnRetard(d)
      BY <1>2, ReposEffet DEF EnRetard, Occupes, IInv
    <2> QED BY <1>0, <1>1, <1>2, <2>1
  <1>3. CASE UNCHANGED vars
    BY <1>0, <1>1, <1>3 DEF vars, EnRetard, Occupes
  <1>4. ASSUME NEW c \in Livraisons, Mettre(c) \/ Echoir(c)
        PROVE  But
    BY <1>0, <1>1, <1>4 DEF Mettre, Echoir, EnRetard, Occupes, livreur, histoire
  <1>5. ASSUME NEW c \in Livraisons, Acquitter(c)
        PROVE  But
    <2>1. EnRetard(d)' = EnRetard(d) /\ tardifs' = tardifs /\ coupures' = coupures /\ acquitte' = acquitte \cup {c}
      BY <1>5 DEF Acquitter, EnRetard, Occupes, livreur, histoire
    <2>2. CASE c = d
      <3>1. tardifs[d] = 0
        BY <1>0, <1>5, <2>2 DEF Acquitter
      <3>2. Cardinality(EnRetard(d)) <= 1 + coupures[d]
        BY <1>0, OccupesBornes
      <3> QED BY <1>0, <2>1, <2>2, <3>1, <3>2
    <2>3. CASE c # d
      BY <1>0, <2>1, <2>3
    <2> QED BY <2>2, <2>3
  <1>6. ASSUME NEW w \in Livreurs, NEW c \in Livraisons, Reserver(w, c)
        PROVE  But
    <2> DEFINE p == [d |-> c, attempts |-> attempts[c], acquitte |-> c \in acquitte]
    <2>1. /\ \A v \in Livreurs : v # w => etape'[v] = etape[v] /\ pris'[v] = pris[v]
          /\ pris'[w] = p
      BY <1>6 DEF Reserver, IInv, TypeOK
    <2>2. pris'[w].d = c /\ pris'[w].acquitte = (c \in acquitte)
      BY <2>1
    <2> HIDE DEF p
    <2>3. d \in acquitte => EnRetard(d)' \subseteq EnRetard(d)
      BY <2>1, <2>2 DEF EnRetard, Occupes
    <2> QED BY <1>0, <1>1, <1>6, <2>3 DEF Reserver, histoire
  <1>7. ASSUME NEW w \in Livreurs, Solder(w) \/ Marquer(w)
        PROVE  But
    BY <1>2, <1>7 DEF Solder, Marquer, histoire
  \* An escalation acknowledged is posted by a latecomer only.
  <1>8. ASSUME NEW w \in Livreurs, Poster(w)
        PROVE  But
    <2>0. /\ etape[w] = "reserve" /\ etape'[w] = "poste" /\ \A v \in Livreurs : v # w => etape'[v] = etape[v]
          /\ pris' = pris /\ acquitte' = acquitte /\ coupures' = coupures
      BY <1>8 DEF Poster, IInv, TypeOK
    <2>1. CASE pris[w].d = d /\ d \in acquitte
      <3>1. w \in EnRetard(d)
        BY <1>8, <2>0, <2>1 DEF Poster, Impossible, EnRetard, Occupes
      <3>2. EnRetard(d)' = EnRetard(d) \ {w}
        BY <2>0 DEF EnRetard, Occupes
      <3>3. Cardinality(EnRetard(d)') = Cardinality(EnRetard(d)) - 1
        BY <1>0, <3>1, <3>2, Compte
      <3>4. tardifs'[d] = tardifs[d] + 1
        BY <1>0, <1>8, <2>1 DEF Poster, IInv, TypeOK
      <3> QED BY <1>0, <2>0, <2>1, <3>3, <3>4
    <2>2. CASE ~(pris[w].d = d /\ d \in acquitte)
      <3>1. tardifs'[d] = tardifs[d]
        BY <1>0, <1>8, <2>2 DEF Poster, IInv, TypeOK
      <3>2. EnRetard(d)' \subseteq EnRetard(d)
        BY <2>0 DEF EnRetard, Occupes
      <3> QED BY <1>0, <1>1, <2>0, <3>1, <3>2
    <2> QED BY <2>1, <2>2
  <1>9. ASSUME NEW w \in Livreurs, NEW r \in Issues, Repondre(w, r)
        PROVE  But
    <2>1. EnRetard(d)' \subseteq EnRetard(d)
      BY <1>9 DEF Repondre, EnRetard, Occupes, IInv, TypeOK
    <2> QED BY <1>0, <1>1, <1>9, <2>1 DEF Repondre, histoire
  <1>10. ASSUME NEW w \in Livreurs, Couper(w)
         PROVE  But
    <2>1. EnRetard(d)' = EnRetard(d) /\ acquitte' = acquitte /\ tardifs' = tardifs
      BY <1>10 DEF Couper, EnRetard, Occupes, livreur, lignes
    <2>2. coupures'[d] \in Nat /\ coupures'[d] >= coupures[d]
      BY <1>0, <1>10 DEF Couper, IInv, TypeOK
    <2> QED BY <1>1, <2>1, <2>2
  <1>11. ASSUME NEW w \in Livreurs, EchouerEcriture(w) \/ Tomber(w)
         PROVE  But
    BY <1>2, <1>11 DEF EchouerEcriture, Tomber
  <1> QED BY <1>3, <1>4, <1>5, <1>6, <1>7, <1>8, <1>9, <1>10, <1>11 DEF Next, Avancer

\* After its acknowledgement an escalation goes out once at most: the reservation
\* that had read it as not acknowledged (livrer), and one more per cut connection.
THEOREM AcknowledgementStops == Spec => []AcquittementArrete
  <1>1. Init => Retardataires
    BY DeliveryAssumption DEF Init, Retardataires
  <1>2. IInv /\ Orphelinage /\ Retardataires /\ [Next]_vars => Retardataires'
    BY RetardatairesPas
  <1>3. IInv /\ Retardataires => AcquittementArrete
    <2> SUFFICES ASSUME IInv, Retardataires, NEW d \in Escalade
                 PROVE  tardifs[d] <= 1 + coupures[d]
      BY DEF AcquittementArrete
    <2>1. Cardinality(EnRetard(d)) \in Nat
      BY Compte DEF EnRetard, Occupes
    <2> QED BY <2>1, DeliveryAssumption DEF IInv, TypeOK, Retardataires
  <1> QED BY <1>1, <1>2, <1>3, LockProtects, OrphelinageToujours, PTL DEF Spec
-----------------------------------------------------------------------------
(* What "delivered" proves *)

Temoins ==
  /\ \A w \in Livreurs : etape[w] = "repondu" /\ issue[w] = "livre" => remis[pris[w].d] >= 1
  /\ \A d \in Livraisons : status[d] = "delivered" => remis[d] >= 1
  /\ Timbres

LEMMA TemoinsPas ==
  ASSUME IInv, Temoins, [Next]_vars
  PROVE  Temoins'
  <1>0. \A d \in Livraisons : remis[d] \in Nat
    BY DEF IInv, TypeOK
  \* Receivers never take back, and a line becomes "delivered" by an outcome only.
  <1>1. ASSUME Timbres', \A d \in Livraisons : remis'[d] \in Nat /\ remis'[d] >= remis[d],
               \A d \in Livraisons : status'[d] = "delivered" => status[d] = "delivered" \/ remis[d] >= 1,
               \A v \in Livreurs : etape'[v] = "repondu" /\ issue'[v] = "livre" =>
                 /\ pris'[v].d \in Livraisons
                 /\ \/ etape[v] = "repondu" /\ issue[v] = "livre" /\ pris'[v] = pris[v]
                    \/ remis'[pris'[v].d] >= 1
        PROVE  Temoins'
    <2>1. \A v \in Livreurs : etape'[v] = "repondu" /\ issue'[v] = "livre" => remis'[pris'[v].d] >= 1
      BY <1>0, <1>1 DEF Temoins
    <2>2. \A d \in Livraisons : status'[d] = "delivered" => remis'[d] >= 1
      BY <1>0, <1>1 DEF Temoins
    <2> QED BY <1>1, <2>1, <2>2 DEF Temoins
  <1>2. \A v \in Livreurs : etape[v] = "repondu" => pris[v].d \in Livraisons
    BY DEF IInv, Tenue
  <1>3. remis' = remis /\ cles' = cles => Timbres'
    BY DEF Temoins, Timbres
  <1>4. CASE UNCHANGED vars
    BY <1>4 DEF vars, Temoins, Timbres
  <1>5. ASSUME NEW c \in Livraisons, Mettre(c) \/ Acquitter(c) \/ Echoir(c)
        PROVE  Temoins'
    <2>1. /\ remis' = remis /\ cles' = cles /\ etape' = etape /\ issue' = issue /\ pris' = pris
          /\ \A d \in Livraisons : status'[d] = "delivered" => status[d] = "delivered"
      BY <1>5 DEF Mettre, Acquitter, Echoir, IInv, TypeOK, livreur, lignes
    <2> QED BY <1>0, <1>1, <1>2, <1>3, <2>1
  <1>6. ASSUME NEW w \in Livreurs, NEW c \in Livraisons, Reserver(w, c)
        PROVE  Temoins'
    <2>1. /\ etape'[w] = "reserve" /\ issue' = issue /\ remis' = remis /\ cles' = cles /\ status' = status
          /\ \A v \in Livreurs : v # w => etape'[v] = etape[v] /\ pris'[v] = pris[v]
      BY <1>6 DEF Reserver, IInv, TypeOK, lignes
    <2> QED BY <1>0, <1>1, <1>2, <1>3, <2>1
  <1>7. ASSUME NEW w \in Livreurs, Repos(w), Timbres',
               \A d \in Livraisons : remis'[d] \in Nat /\ remis'[d] >= remis[d],
               \A d \in Livraisons : status'[d] = "delivered" => status[d] = "delivered" \/ remis[d] >= 1
        PROVE  Temoins'
    <2>1. \A v \in Livreurs : etape'[v] = "repondu" /\ issue'[v] = "livre" =>
            pris'[v].d \in Livraisons /\ etape[v] = "repondu" /\ issue[v] = "livre" /\ pris'[v] = pris[v]
      BY <1>2, <1>7, ReposEffet DEF IInv
    <2> QED BY <1>1, <1>7, <2>1
  <1>8. ASSUME NEW w \in Livreurs, Solder(w) \/ Marquer(w)
        PROVE  Temoins'
    <2>1. Repos(w) /\ remis' = remis /\ cles' = cles /\ pris[w].d \in Livraisons
      BY <1>8 DEF Solder, Marquer, IInv, Tenue
    <2>2. ASSUME NEW d \in Livraisons, status'[d] = "delivered", status[d] # "delivered"
          PROVE  remis[d] >= 1
      <3>1. CASE Solder(w)
        BY <2>1, <2>2, <3>1 DEF Solder, IInv, TypeOK
      <3>2. CASE Marquer(w)
        <4>1. d = pris[w].d /\ decideStatus(issue[w], pris[w].attempts) = "delivered"
          BY <2>1, <2>2, <3>2 DEF Marquer, marquer, IInv, TypeOK
        <4>2. issue[w] = "livre"
          BY <4>1, DecideStatusForme, DeliveryAssumption DEF IInv, TypeOK
        <4> QED BY <3>2, <4>1, <4>2 DEF Marquer, Temoins
      <3> QED BY <1>8, <3>1, <3>2
    <2> QED BY <1>0, <1>3, <1>7, <2>1, <2>2
  <1>9. ASSUME NEW w \in Livreurs, Poster(w)
        PROVE  Temoins'
    <2>1. /\ etape'[w] = "poste" /\ issue' = issue /\ remis' = remis /\ cles' = cles /\ status' = status /\ pris' = pris
          /\ \A v \in Livreurs : v # w => etape'[v] = etape[v]
      BY <1>9 DEF Poster, IInv, TypeOK, lignes
    <2> QED BY <1>0, <1>1, <1>2, <1>3, <2>1
  <1>10. ASSUME NEW w \in Livreurs, NEW r \in Issues, Repondre(w, r)
         PROVE  Temoins'
    <2>1. /\ pris[w].d \in Livraisons /\ issue'[w] = r /\ status' = status /\ pris' = pris
          /\ \A v \in Livreurs : v # w => etape'[v] = etape[v] /\ issue'[v] = issue[v]
      BY <1>10 DEF Repondre, IInv, TypeOK, Tenue, lignes
    <2>2. Timbres' /\ \A d \in Livraisons : remis'[d] \in Nat /\ remis'[d] >= remis[d]
      BY <1>0, <1>3, <1>10, <2>1, RecuEffet DEF Repondre, IInv, Temoins
    <2>3. r = "livre" => Recu(w)
      BY <1>10 DEF Repondre
    <2>4. r = "livre" => remis'[pris[w].d] >= 1
      BY <2>1, <2>3, RecuEffet DEF IInv, Temoins
    <2> QED BY <1>1, <1>2, <2>1, <2>2, <2>4
  <1>11. ASSUME NEW w \in Livreurs, Couper(w)
         PROVE  Temoins'
    BY <1>11 DEF Couper, Temoins, Timbres, lignes, livreur
  <1>12. ASSUME NEW w \in Livreurs, EchouerEcriture(w)
         PROVE  Temoins'
    BY <1>0, <1>3, <1>7, <1>12 DEF EchouerEcriture, lignes
  <1>13. ASSUME NEW w \in Livreurs, Tomber(w)
         PROVE  Temoins'
    <2>1. pris[w].d \in Livraisons /\ Repos(w) /\ status' = status
      BY <1>13 DEF Tomber, IInv, Tenue, lignes
    <2>2. Timbres' /\ \A d \in Livraisons : remis'[d] \in Nat /\ remis'[d] >= remis[d]
      BY <1>0, <1>3, <1>13, <2>1, RecuEffet DEF Tomber, IInv, Temoins
    <2> QED BY <1>7, <2>1, <2>2
  <1> QED BY <1>4, <1>5, <1>6, <1>8, <1>9, <1>10, <1>11, <1>12, <1>13 DEF Next, Avancer

\* A line marked "delivered" was received: the outcome written is that of a POST its
\* receiver answered.  An e-mail is sent once at most, whatever was replayed.
THEOREM DeliveredWasReceived == Spec => []LivreEstRecu
  <1>1. Init => Temoins
    BY DEF Init, Temoins, Timbres
  <1>2. IInv /\ Temoins /\ [Next]_vars => Temoins'
    BY TemoinsPas
  <1>3. IInv /\ Temoins => LivreEstRecu
    BY DEF IInv, TypeOK, Temoins, Timbres, LivreEstRecu
  <1> QED BY <1>1, <1>2, <1>3, LockProtects, PTL DEF Spec

-----------------------------------------------------------------------------
(* The promise *)

LEMMA PromesseDepart == Init => Promesse!Init
  BY DEF Init, Promesse!Init

LEMMA PromessePas ==
  ASSUME IInv, [Next]_vars
  PROVE  [Promesse!Next]_(Promesse!vars)
  <1> SUFFICES ASSUME ~UNCHANGED <<status, attempts>>
               PROVE  Promesse!Next
    BY DEF Promesse!vars
  <1>1. CASE UNCHANGED vars
    BY <1>1 DEF vars
  <1>2. ASSUME NEW d \in Livraisons, Mettre(d) \/ Acquitter(d) \/ Echoir(d)
        PROVE  Promesse!Next
    <2>1. Promesse!Mettre(d)
      BY <1>2 DEF Mettre, Acquitter, Echoir, Promesse!Mettre, lignes
    <2> QED BY <2>1 DEF Promesse!Next
  <1>3. ASSUME NEW w \in Livreurs, Solder(w)
        PROVE  Promesse!Next
    <2>1. pris[w].d \in Livraisons /\ status[pris[w].d] \in {"queued", "failed"}
      BY <1>3, LigneTenue DEF Solder
    <2>2. Promesse!Renoncer(pris[w].d)
      BY <1>3, <2>1 DEF Solder, Promesse!Renoncer
    <2> QED BY <2>1, <2>2 DEF Promesse!Next
  <1>4. ASSUME NEW w \in Livreurs, Marquer(w)
        PROVE  Promesse!Next
    <2> DEFINE d == pris[w].d
               s == decideStatus(issue[w], pris[w].attempts)
    <2>1. /\ d \in Livraisons /\ status[d] \in {"queued", "failed"} /\ attempts[d] \in Nat
          /\ attempts[d] < MAX_ATTEMPTS /\ pris[w].attempts = attempts[d]
      BY <1>4, LigneTenue DEF Marquer, IInv, TypeOK
    <2>2. s \in {"delivered", "dead", "failed"} /\ (s = "failed" => attempts[d] + 1 < MAX_ATTEMPTS)
      BY <2>1, DecideStatusForme DEF IInv, TypeOK
    <2>3. status' = [status EXCEPT ![d] = s] /\ attempts' = [attempts EXCEPT ![d] = @ + 1]
      BY <1>4 DEF Marquer, marquer
    <2> HIDE DEF s
    <2>4. Promesse!Tenter(d)
      BY <2>1, <2>2, <2>3 DEF Promesse!Tenter
    <2> QED BY <2>1, <2>4 DEF Promesse!Next
  <1>5. ASSUME NEW w \in Livreurs,
               \/ \E d \in Livraisons : Reserver(w, d)
               \/ Poster(w) \/ \E r \in Issues : Repondre(w, r)
               \/ EchouerEcriture(w) \/ Couper(w) \/ Tomber(w)
        PROVE  UNCHANGED <<status, attempts>>
    BY <1>5 DEF Reserver, Poster, Repondre, EchouerEcriture, Couper, Tomber, lignes
  <1> QED BY <1>1, <1>2, <1>3, <1>4, <1>5 DEF Next, Avancer

\* The promise of the outbox to whoever reads alert_delivery: a line moves by whole
\* attempts, each counted once, as long as it has one left, and a line that is
\* settled stays settled.
THEOREM OutboxPromise == Spec => Promesse!Surete
  <1>1. IInv /\ [Next]_vars => [Promesse!Next]_(Promesse!vars)
    BY PromessePas
  <1> QED BY PromesseDepart, <1>1, LockProtects, PTL DEF Spec, Promesse!Surete
=============================================================================
