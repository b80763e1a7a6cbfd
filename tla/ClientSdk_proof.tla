---------------------------- MODULE ClientSdk_proof ----------------------------
(***************************************************************************)
(* What the two client SDKs promise of the spans and events they keep, for  *)
(* any bounds and any number of events, lives, tabs and failures.           *)
(*                                                                          *)
(* MobileSdk, the queue.  IInv adds to the promises what makes them         *)
(* inductive: no epoch is ahead of the gate's (Horloge), except on a device *)
(* that is still to be read (Rattrapage); the leased entries are those of   *)
(* the batch that flies in the current epoch (Bail); the root of the causal *)
(* window is known (Attaches).  Every step on the queue is one of a few     *)
(* shapes (Suit, Rejoint, Garde), and the lemmas on the queue's operators   *)
(* say which.                                                               *)
(*                                                                          *)
(* MobileStore, the record.  DerniereEcriture says nothing of a write in    *)
(* progress: StoreIInv adds that the manifest read by a writer that is      *)
(* alone is still the one on the device (Copie), hence the slot it writes   *)
(* is not the active one, that the active slot holds the last record        *)
(* (Actif), and that no manifest knows a record given up (Sommes).          *)
(*                                                                          *)
(* WebRetry, the file of the web SDK.  EnfantApresRacine is about what has  *)
(* arrived: WebIInv adds the order of what is still to leave, batch by      *)
(* batch and in each (EnOrdre), the order of every file read or to be       *)
(* written (EnChaine), and which spans may be in two places (Lieux).        *)
(***************************************************************************)
EXTENDS MobileSdk, MobileStore, WebRetry,
        FiniteSetTheorems, FunctionTheorems, SequenceTheorems, WellFoundedInduction, TLAPS

(***************************************************************************)
(* MobileSdk: the queue, the consent and the flush.                         *)
(***************************************************************************)

-----------------------------------------------------------------------------
(* Positions of a sequence *)

\* Whatever 0 has, and k + 1 has with k, all up to n have.
LEMMA Recurrence ==
  ASSUME NEW n \in Nat, NEW S, 0 \in S, \A k \in 0..n : k \in S /\ k < n => k + 1 \in S
  PROVE  0..n \subseteq S
  <1> DEFINE T == {k \in 0..n : k \notin S}
  <1> SUFFICES ASSUME T # {} PROVE FALSE
    OBVIOUS
  <1>1. T \subseteq Nat
    OBVIOUS
  <1>2. PICK x \in T : \A y \in T : ~(<<y, x>> \in OpToRel(<, Nat))
    BY <1>1, NatLessThanWellFounded, WFMin
  <1>3. \A y \in T : ~(y < x)
    BY <1>1, <1>2 DEF OpToRel
  <1>4. x # 0 /\ x - 1 \in 0..n /\ x - 1 < x
    OBVIOUS
  <1>5. x - 1 \in S
    BY <1>3, <1>4
  <1> QED BY <1>4, <1>5

LEMMA Parties ==
  ASSUME NEW n \in Nat, NEW J \in SUBSET (1..n)
  PROVE  IsFiniteSet(J) /\ Cardinality(J) \in Nat /\ Cardinality(J) <= n
  <1>1. IsFiniteSet(1..n) /\ Cardinality(1..n) = n
    BY FS_Interval
  <1> QED BY <1>1, FS_Subset, FS_CardinalityType

Rang(J, i) == Cardinality({j \in J : j <= i})

LEMMA Rangs ==
  ASSUME NEW n \in Nat, NEW J \in SUBSET (1..n)
  PROVE  /\ \A i \in J : Rang(J, i) \in 1..Cardinality(J)
         /\ \A i, k \in J : i < k => Rang(J, i) < Rang(J, k)
         /\ \A k \in 1..Cardinality(J) : \E i \in J : Rang(J, i) = k
  <1>1. IsFiniteSet(J) /\ Cardinality(J) \in Nat
    BY Parties
  <1>2. ASSUME NEW i \in J
        PROVE  Rang(J, i) \in 1..Cardinality(J)
    <2> DEFINE A == {j \in J : j <= i}
    <2>1. A \in SUBSET J /\ i \in A
      OBVIOUS
    <2> HIDE DEF A
    <2>2. IsFiniteSet(A) /\ Cardinality(A) \in Nat /\ Cardinality(A) <= Cardinality(J) /\ Cardinality(A) # 0
      BY <1>1, <2>1, FS_Subset, FS_CardinalityType, FS_EmptySet
    <2> QED BY <1>1, <2>2 DEF A, Rang
  <1>3. ASSUME NEW i \in J, NEW k \in J, i < k
        PROVE  Rang(J, i) < Rang(J, k)
    <2> DEFINE A == {j \in J : j <= i}
               B == {j \in J : j <= k}
    <2>0. \A j \in J : j \in Nat
      OBVIOUS
    <2>1. A \in SUBSET B /\ B \in SUBSET J /\ k \in B /\ k \notin A
      <3>1. \A j \in J : j <= i => j <= k
        BY <1>3, <2>0
      <3>2. ~(k <= i) /\ k <= k
        BY <1>3, <2>0
      <3> QED BY <3>1, <3>2
    <2> HIDE DEF A, B
    <2>2. IsFiniteSet(B) /\ Cardinality(B) \in Nat
      BY <1>1, <2>1, FS_Subset, FS_CardinalityType
    <2>3. IsFiniteSet(A) /\ Cardinality(A) \in Nat /\ Cardinality(A) <= Cardinality(B) /\ Cardinality(A) # Cardinality(B)
      BY <2>1, <2>2, FS_Subset, FS_CardinalityType
    <2>4. Cardinality(A) < Cardinality(B)
      BY <2>2, <2>3
    <2> QED BY <2>4 DEF A, B, Rang
  <1>4. \A k \in 1..Cardinality(J) : \E i \in J : Rang(J, i) = k
    <2> DEFINE g == [i \in J |-> Rang(J, i)]
               T == 1..Cardinality(J)
    <2>1. g \in Injection(J, T)
      <3>1. \A i, k \in J : Rang(J, i) = Rang(J, k) => i = k
        <4> SUFFICES ASSUME NEW i \in J, NEW k \in J, i # k PROVE Rang(J, i) # Rang(J, k)
          OBVIOUS
        <4>1. i < k \/ k < i
          OBVIOUS
        <4>2. Rang(J, i) \in Nat /\ Rang(J, k) \in Nat
          BY <1>2
        <4> QED BY <1>3, <4>1, <4>2
      <3> QED BY <1>2, <3>1 DEF Injection, IsInjective
    <2>2. IsFiniteSet(T) /\ Cardinality(T) = Cardinality(J)
      BY <1>1, FS_Interval
    <2> HIDE DEF T
    <2>3. g \in Surjection(J, T)
      BY <2>1, <2>2, FS_Injection
    <2> QED BY <2>3 DEF Surjection, T
  <1> QED BY <1>2, <1>3, <1>4

\* What is kept of a sequence: its entries at the positions J, each of them once.
\* g[k] is the position in f of the k-th entry of the extract.
Enumere(g, f, J) ==
  /\ \A k \in 1..Cardinality(J) : Extrait(f, J)[k] = f[g[k]]
  /\ \A k, l \in 1..Cardinality(J) : k # l => g[k] # g[l]
  /\ \A i \in J : \E k \in 1..Cardinality(J) : g[k] = i

LEMMA Extraits ==
  ASSUME NEW S, NEW f \in Seq(S), NEW J \in SUBSET (DOMAIN f)
  PROVE  /\ Extrait(f, J) \in Seq(S) /\ Len(Extrait(f, J)) = Cardinality(J) /\ Cardinality(J) \in Nat
         /\ DOMAIN Extrait(f, J) = 1..Cardinality(J)
         /\ \E g \in [1..Cardinality(J) -> J] : Enumere(g, f, J)
  <1> DEFINE c == Cardinality(J)
             g == [k \in 1..c |-> CHOOSE i \in J : Rang(J, i) = k]
             x == Extrait(f, J)
  <1>1. DOMAIN f = 1..Len(f) /\ Len(f) \in Nat /\ \A i \in DOMAIN f : f[i] \in S
    BY LenProperties, ElementOfSeq
  <1>2. /\ c \in Nat /\ \A i \in J : i \in Nat /\ Rang(J, i) \in 1..c
        /\ \A i, k \in J : i < k => Rang(J, i) < Rang(J, k)
        /\ \A k \in 1..c : \E i \in J : Rang(J, i) = k
    <2> DEFINE n == Len(f)
    <2>1. J \in SUBSET (1..n) /\ n \in Nat
      BY <1>1
    <2> HIDE DEF n
    <2>2. c \in Nat
      BY <2>1, Parties
    <2>3. \A i \in J : i \in Nat
      BY <2>1
    <2> QED BY <2>1, <2>2, <2>3, Rangs
  <1> HIDE DEF c
  <1>3. \A k \in 1..c : g[k] \in J /\ Rang(J, g[k]) = k
    BY <1>2
  <1>4. x = [k \in 1..c |-> f[g[k]]]
    BY DEF c, Extrait, Rang
  <1>5. g \in [1..c -> J]
    BY <1>3
  <1> HIDE DEF g
  <1>6. x \in [1..c -> S]
    BY <1>1, <1>3, <1>4
  <1>7. x \in Seq(S) /\ Len(x) = c /\ DOMAIN x = 1..c
    BY <1>2, <1>6, SeqDef, LenProperties
  <1>8. \A k, l \in 1..c : k # l => g[k] # g[l]
    BY <1>3
  <1>9. \A i \in J : \E k \in 1..c : g[k] = i
    <2> SUFFICES ASSUME NEW i \in J PROVE \E k \in 1..c : g[k] = i
      OBVIOUS
    <2>1. Rang(J, i) \in 1..c
      BY <1>2
    <2>2. g[Rang(J, i)] \in J /\ Rang(J, g[Rang(J, i)]) = Rang(J, i)
      BY <1>3, <2>1
    <2>3. ~(g[Rang(J, i)] < i) /\ ~(i < g[Rang(J, i)])
      BY <1>2, <2>2
    <2>4. i \in Nat /\ g[Rang(J, i)] \in Nat
      BY <1>2, <2>2
    <2>5. g[Rang(J, i)] = i
      BY <2>3, <2>4
    <2> QED BY <2>1, <2>5
  <1>10. \A k \in 1..c : x[k] = f[g[k]]
    BY <1>4
  <1>11. Enumere(g, f, J)
    BY <1>8, <1>9, <1>10 DEF c, x, Enumere
  <1> HIDE DEF x
  <1> QED
    <2> USE DEF c, x
    <2> QED BY <1>2, <1>5, <1>7, <1>11

-----------------------------------------------------------------------------
(* The queue *)

LEMMA Constantes ==
  ASSUME montage \in Montages
  PROVE  /\ N \in Nat /\ Evts = 1..N /\ Racines \subseteq Evts /\ montage.perissables \subseteq Evts
         /\ MaxFile \in Nat \ {0} /\ montage.maxAttente \in Nat \ {0} /\ MaxLot \in Nat \ {0}
         /\ montage.persistant \in BOOLEAN /\ montage.lectureFragile \in BOOLEAN /\ montage.ecritureFragile \in BOOLEAN
         /\ montage.depart \in {"pending", "granted"}
  BY MobileAssumption DEF N, Evts, Racines, MaxFile, MaxLot

Queues    == Seq(Entrees)
Prises(f) == {i \in DOMAIN f : f[i].prise}
Loues(f)  == {f[i].id : i \in Prises(f)}
Liens(f)  == {f[i].lien : i \in DOMAIN f} \ {0}
Paires(f) == {<<f[i].id, f[i].lien>> : i \in {i \in DOMAIN f : f[i].lien # 0}}

\* The events of f are linked to roots of f or of R, or else each is the only one linked to a root
\* of P.
Tenue(f, R, P) ==
  \A p \in Paires(f) :
    \/ p[2] \in Ids(f) \cup R
    \/ p[2] \in P /\ \A q \in Paires(f) : q[2] = p[2] => q[1] = p[1]

Memoires == [file : Queues, refusees : SUBSET Racines, perdus : SUBSET Evts, contretemps : SUBSET Evts]

\* From the memory m to x, entries have left against their will, or none.
Suit(m, x) ==
  /\ x \in Memoires
  /\ Ids(x.file) \subseteq Ids(m.file) /\ Ids(m.file) \subseteq Ids(x.file) \cup x.perdus
  /\ m.perdus \subseteq x.perdus /\ x.perdus \subseteq m.perdus \cup Ids(m.file)
  /\ x.contretemps \subseteq m.contretemps \cup Ids(m.file)
  /\ m.refusees \subseteq x.refusees /\ Ids(m.file) \cap Racines \subseteq Ids(x.file) \cup x.refusees
  /\ Loues(x.file) \subseteq Loues(m.file) /\ Cardinality(Prises(x.file)) <= Cardinality(Prises(m.file))
  /\ Liens(x.file) \subseteq Liens(m.file) /\ Paires(x.file) \subseteq Paires(m.file) /\ Liens(x.file) \cap Ids(m.file) \subseteq Ids(x.file)

LEMMA Queue ==
  ASSUME NEW f \in Queues
  PROVE  /\ DOMAIN f = 1..Len(f) /\ Len(f) \in Nat
         /\ \A i \in DOMAIN f : f[i] \in Entrees /\ f[i].id \in Evts /\ f[i].lien \in Racines \cup {0} /\ f[i].prise \in BOOLEAN
         /\ Ids(f) \subseteq Evts /\ Liens(f) \subseteq Racines /\ Loues(f) \subseteq Ids(f)
         /\ IsFiniteSet(Prises(f)) /\ Cardinality(Prises(f)) \in Nat
         /\ f = <<>> => Ids(f) = {}
  <1>1. DOMAIN f = 1..Len(f) /\ Len(f) \in Nat /\ \A i \in DOMAIN f : f[i] \in Entrees
    BY LenProperties, ElementOfSeq DEF Queues
  <1>2. \A i \in DOMAIN f : f[i].id \in Evts /\ f[i].lien \in Racines \cup {0} /\ f[i].prise \in BOOLEAN
    BY <1>1 DEF Entrees
  <1>3. Ids(f) \subseteq Evts /\ Liens(f) \subseteq Racines
    BY <1>2 DEF Ids, Liens
  <1>4. Loues(f) \subseteq Ids(f)
    BY DEF Loues, Prises, Ids
  <1>5. Prises(f) \in SUBSET (1..Len(f))
    BY <1>1 DEF Prises
  <1>6. IsFiniteSet(Prises(f)) /\ Cardinality(Prises(f)) \in Nat
    BY <1>1, <1>5, Parties
  <1>7. f = <<>> => DOMAIN f = {}
    BY EmptySeq
  <1> QED BY <1>1, <1>2, <1>3, <1>4, <1>6, <1>7 DEF Ids

\* The queue without the entries at I.
LEMMA SansFaits ==
  ASSUME NEW f \in Queues, NEW I
  PROVE  /\ Sans(f, I) \in Queues
         /\ \A k \in DOMAIN Sans(f, I) : \E i \in DOMAIN f \ I : Sans(f, I)[k] = f[i]
         /\ \A i \in DOMAIN f \ I : \E k \in DOMAIN Sans(f, I) : Sans(f, I)[k] = f[i]
         /\ Ids(Sans(f, I)) = {f[i].id : i \in DOMAIN f \ I}
         /\ Loues(Sans(f, I)) \subseteq Loues(f)
         /\ Cardinality(Prises(Sans(f, I))) <= Cardinality(Prises(f))
  <1> DEFINE J == DOMAIN f \ I
             c == Cardinality(J)
             x == Extrait(f, J)
  <1>0. x = Sans(f, I)
    BY DEF Sans
  <1>1. J \in SUBSET (DOMAIN f)
    OBVIOUS
  <1> HIDE DEF J
  <1>2. /\ x \in Queues /\ DOMAIN x = 1..c
        /\ \E g \in [1..c -> J] : Enumere(g, f, J)
    <2>1. f \in Seq(Entrees)
      BY DEF Queues
    <2>2. /\ Extrait(f, J) \in Seq(Entrees) /\ DOMAIN Extrait(f, J) = 1..Cardinality(J)
          /\ \E g \in [1..Cardinality(J) -> J] : Enumere(g, f, J)
      BY <1>1, <2>1, Extraits
    <2> QED BY <2>2, Zenon DEF Queues
  <1> HIDE DEF x, c
  <1>3. PICK g \in [1..c -> J] :
          /\ \A k \in 1..c : x[k] = f[g[k]]
          /\ \A k, l \in 1..c : k # l => g[k] # g[l]
          /\ \A i \in J : \E k \in 1..c : g[k] = i
    <2>1. PICK g \in [1..c -> J] : Enumere(g, f, J)
      BY <1>2
    <2> QED BY <2>1 DEF Enumere, x, c
  <1>4. \A k \in DOMAIN x : g[k] \in J /\ x[k] = f[g[k]]
    BY <1>2, <1>3
  <1>5. \A i \in J : \E k \in DOMAIN x : x[k] = f[i]
    BY <1>2, <1>3
  <1>6. Ids(x) = {f[i].id : i \in J}
    BY <1>4, <1>5 DEF Ids
  <1>7. Loues(x) \subseteq Loues(f)
    BY <1>1, <1>4 DEF Loues, Prises
  <1>8. Cardinality(Prises(x)) <= Cardinality(Prises(f))
    <2> DEFINE h == [k \in Prises(x) |-> g[k]]
               P == Prises(x)
               Q == Prises(f)
    <2>1. \A k \in P : g[k] \in Q
      BY <1>1, <1>4 DEF Prises
    <2>2. \A k, l \in P : g[k] = g[l] => k = l
      BY <1>2, <1>3 DEF Prises
    <2>3. IsFiniteSet(Q)
      BY Queue
    <2>4. h \in Injection(P, Q)
      <3> HIDE DEF P, Q
      <3>1. \A a, b \in P : h[a] = h[b] => a = b
        BY <2>2 DEF P
      <3> QED BY <2>1, <3>1 DEF Injection, IsInjective, P
    <2> HIDE DEF P, Q, h
    <2>5. Cardinality(P) <= Cardinality(Q)
      BY <2>3, <2>4, FS_Injection
    <2> QED BY <2>5 DEF P, Q
  <1> QED BY <1>0, <1>2, <1>4, <1>5, <1>6, <1>7, <1>8 DEF J

LEMMA SuitReflexif ==
  ASSUME NEW m \in Memoires
  PROVE  Suit(m, m)
  <1>1. Cardinality(Prises(m.file)) <= Cardinality(Prises(m.file))
    <2>1. Cardinality(Prises(m.file)) \in Nat
      BY Queue DEF Memoires
    <2> QED BY <2>1
  <1> QED BY <1>1 DEF Suit

LEMMA SuitTransitif ==
  ASSUME NEW m \in Memoires, NEW x, NEW y, Suit(m, x), Suit(x, y)
  PROVE  Suit(m, y)
  <1>1. Cardinality(Prises(y.file)) <= Cardinality(Prises(m.file))
    <2>1. Cardinality(Prises(m.file)) \in Nat /\ Cardinality(Prises(x.file)) \in Nat /\ Cardinality(Prises(y.file)) \in Nat
      <3>1. m.file \in Queues /\ x.file \in Queues /\ y.file \in Queues
        BY DEF Suit, Memoires
      <3> QED BY <3>1, Queue
    <2>2. Cardinality(Prises(y.file)) <= Cardinality(Prises(x.file)) /\ Cardinality(Prises(x.file)) <= Cardinality(Prises(m.file))
      BY DEF Suit
    <2> QED BY <2>1, <2>2
  <1>2. Liens(y.file) \subseteq Liens(m.file) /\ Paires(y.file) \subseteq Paires(m.file) /\ Liens(y.file) \cap Ids(m.file) \subseteq Ids(y.file)
    BY DEF Suit
  <1>3. m.refusees \subseteq y.refusees /\ Ids(m.file) \cap Racines \subseteq Ids(y.file) \cup y.refusees
    BY DEF Suit
  <1>4. /\ Ids(y.file) \subseteq Ids(m.file) /\ Ids(m.file) \subseteq Ids(y.file) \cup y.perdus
        /\ m.perdus \subseteq y.perdus /\ y.perdus \subseteq m.perdus \cup Ids(m.file)
        /\ y.contretemps \subseteq m.contretemps \cup Ids(m.file) /\ Loues(y.file) \subseteq Loues(m.file)
    BY DEF Suit
  <1>5. y \in Memoires
    BY DEF Suit
  <1> QED BY <1>1, <1>2, <1>3, <1>4, <1>5 DEF Suit

\* Entries leave against their will.
LEMMA RetirerSuit ==
  ASSUME NEW m \in Memoires, NEW I \in SUBSET (DOMAIN m.file)
  PROVE  Suit(m, Retirer(m, I)) /\ Ids(m.file) \ {m.file[i].id : i \in I} \subseteq Ids(Retirer(m, I).file)
         /\ Ids(Retirer(m, I).file) = {m.file[i].id : i \in DOMAIN m.file \ I}
  <1> DEFINE S == {m.file[i].id : i \in I}
             reste == Sans(m.file, I)
             f == [k \in DOMAIN reste |-> [reste[k] EXCEPT !.lien = IF @ \in S THEN 0 ELSE @]]
             x == Retirer(m, I)
  <1>0. m.file \in Queues /\ m.refusees \in SUBSET Racines /\ m.perdus \in SUBSET Evts /\ m.contretemps \in SUBSET Evts
    BY DEF Memoires
  <1>1. /\ reste \in Queues
        /\ \A k \in DOMAIN reste : \E i \in DOMAIN m.file \ I : reste[k] = m.file[i]
        /\ Ids(reste) = {m.file[i].id : i \in DOMAIN m.file \ I}
        /\ Loues(reste) \subseteq Loues(m.file)
        /\ Cardinality(Prises(reste)) <= Cardinality(Prises(m.file))
    BY <1>0, SansFaits
  <1>2. x = [m EXCEPT !.file = f, !.refusees = @ \cup (S \cap Racines), !.perdus = @ \cup S]
    BY DEF Retirer
  <1>3. S \subseteq Ids(m.file) /\ S \subseteq Evts
    BY <1>0, Queue DEF Ids
  <1> HIDE DEF reste
  <1>4. DOMAIN reste = 1..Len(reste) /\ Len(reste) \in Nat /\ \A k \in DOMAIN reste : reste[k] \in Entrees
    BY <1>1, Queue
  <1> HIDE DEF S
  <1>5. \A k \in DOMAIN reste : f[k] \in Entrees /\ f[k].id = reste[k].id /\ f[k].prise = reste[k].prise
                                /\ f[k].lien = IF reste[k].lien \in S THEN 0 ELSE reste[k].lien
    BY <1>4 DEF Entrees
  <1>6. DOMAIN f = DOMAIN reste
    OBVIOUS
  <1>7. f \in Queues
    <2>1. f \in [1..Len(reste) -> Entrees]
      BY <1>4, <1>5
    <2> QED BY <1>4, <2>1, SeqDef DEF Queues
  <1> HIDE DEF f
  <1>8. Ids(f) = Ids(reste) /\ Loues(f) = Loues(reste) /\ Prises(f) = Prises(reste)
    <2>1. Ids(f) = Ids(reste)
      BY <1>5, <1>6 DEF Ids
    <2>2. Prises(f) = Prises(reste)
      BY <1>5, <1>6 DEF Prises
    <2>3. Loues(f) = Loues(reste)
      BY <1>5, <2>2 DEF Loues, Prises
    <2> QED BY <2>1, <2>2, <2>3
  <1>9. Liens(f) \subseteq Liens(m.file) \ S
    <2> SUFFICES ASSUME NEW k \in DOMAIN f, f[k].lien # 0
                 PROVE  f[k].lien \in Liens(m.file) \ S
      BY DEF Liens
    <2>1. PICK i \in DOMAIN m.file \ I : reste[k] = m.file[i]
      BY <1>1, <1>6
    <2>2. f[k].lien = m.file[i].lien /\ f[k].lien \notin S
      BY <1>5, <1>6, <2>1
    <2> QED BY <2>1, <2>2 DEF Liens
  <1>14. Paires(f) \subseteq Paires(m.file)
    <2> SUFFICES ASSUME NEW k \in DOMAIN f, f[k].lien # 0
                 PROVE  <<f[k].id, f[k].lien>> \in Paires(m.file)
      BY DEF Paires
    <2>1. PICK i \in DOMAIN m.file \ I : reste[k] = m.file[i]
      BY <1>1, <1>6
    <2>2. f[k].lien = m.file[i].lien /\ f[k].id = m.file[i].id
      BY <1>5, <1>6, <2>1
    <2> QED BY <2>1, <2>2 DEF Paires
  <1>10. Ids(m.file) \ S \subseteq Ids(reste)
    BY <1>1 DEF Ids, S
  <1>11. /\ x \in Memoires /\ x.file = f /\ x.refusees = m.refusees \cup (S \cap Racines)
         /\ x.perdus = m.perdus \cup S /\ x.contretemps = m.contretemps
    BY <1>0, <1>2, <1>3, <1>7 DEF Memoires
  <1> HIDE DEF x
  <1>12. Suit(m, x)
    <2>1. /\ Ids(x.file) \subseteq Ids(m.file) /\ Ids(m.file) \subseteq Ids(x.file) \cup x.perdus
      <3>1. Ids(reste) \subseteq Ids(m.file)
        BY <1>1 DEF Ids
      <3> QED BY <3>1, <1>8, <1>10, <1>11
    <2>2. /\ m.perdus \subseteq x.perdus /\ x.perdus \subseteq m.perdus \cup Ids(m.file)
          /\ x.contretemps \subseteq m.contretemps \cup Ids(m.file)
      BY <1>3, <1>11
    <2>3. m.refusees \subseteq x.refusees /\ Ids(m.file) \cap Racines \subseteq Ids(x.file) \cup x.refusees
      BY <1>8, <1>10, <1>11
    <2>4. Loues(x.file) \subseteq Loues(m.file) /\ Cardinality(Prises(x.file)) <= Cardinality(Prises(m.file))
      BY <1>1, <1>8, <1>11
    <2>5. Liens(x.file) \subseteq Liens(m.file) /\ Paires(x.file) \subseteq Paires(m.file) /\ Liens(x.file) \cap Ids(m.file) \subseteq Ids(x.file)
      BY <1>8, <1>9, <1>10, <1>11, <1>14
    <2> QED BY <1>11, <2>1, <2>2, <2>3, <2>4, <2>5 DEF Suit
  <1> QED BY <1>1, <1>8, <1>10, <1>11, <1>12 DEF x, S

\* What is too old leaves.
LEMMA ExpirerSuit ==
  ASSUME NEW m \in Memoires
  PROVE  Suit(m, Expirer(m)) /\ Ids(m.file) \ perimes \subseteq Ids(Expirer(m).file)
  <1> DEFINE I == {i \in DOMAIN m.file : m.file[i].id \in perimes}
  <1>1. I \in SUBSET (DOMAIN m.file) /\ Expirer(m) = Retirer(m, I) /\ {m.file[i].id : i \in I} \subseteq perimes
    BY DEF Expirer
  <1> HIDE DEF I
  <1>2. Suit(m, Retirer(m, I)) /\ Ids(m.file) \ {m.file[i].id : i \in I} \subseteq Ids(Retirer(m, I).file)
    BY <1>1, RetirerSuit
  <1> QED BY <1>1, <1>2

\* The oldest leave a queue above its bound; the last entry stays if a place is free.
LEMMA EvincerSuit ==
  ASSUME NEW m \in Memoires, NEW cap \in Nat
  PROVE  /\ Suit(m, Evincer(m, cap))
         /\ \A n \in DOMAIN m.file :
              n = Len(m.file) /\ ~m.file[n].prise /\ Cardinality(Prises(m.file)) < cap
              => m.file[n].id \in Ids(Evincer(m, cap).file)
  <1> DEFINE f == m.file
             trop == Len(f) - cap
             I == {i \in Libres(f) : Cardinality({j \in Libres(f) : j < i}) < trop}
             tort == {f[i].id : i \in {i \in I : \E k \in Libres(f) \ I : f[k].id < f[i].id}}
             r == Retirer(m, I)
             x == Evincer(m, cap)
  <1>1. f \in Queues
    BY DEF Memoires
  <1>2. DOMAIN f = 1..Len(f) /\ Len(f) \in Nat /\ Ids(f) \subseteq Evts
    BY <1>1, Queue
  <1>3. I \in SUBSET (DOMAIN m.file)
    BY DEF Libres
  <1>4. tort \subseteq Ids(f)
    BY <1>3 DEF Ids
  <1>5. x = [r EXCEPT !.contretemps = @ \cup tort]
    BY DEF Evincer
  <1> HIDE DEF tort, I
  <1>6. Suit(m, r) /\ Ids(r.file) = {m.file[i].id : i \in DOMAIN m.file \ I}
    BY <1>3, RetirerSuit
  <1> HIDE DEF r, x
  <1>7. r \in Memoires
    BY <1>6 DEF Suit
  <1>8. /\ x.file = r.file /\ x.refusees = r.refusees /\ x.perdus = r.perdus
        /\ x.contretemps = r.contretemps \cup tort /\ x \in Memoires
    BY <1>2, <1>4, <1>5, <1>7 DEF Memoires
  <1>9. Suit(m, x)
    BY <1>4, <1>6, <1>8 DEF Suit
  <1>10. ASSUME NEW n \in DOMAIN f, n = Len(f), ~f[n].prise, Cardinality(Prises(f)) < cap
         PROVE  f[n].id \in Ids(x.file)
    <2> DEFINE L == Libres(f)
               P == Prises(f)
               A == {j \in L : j < n}
               D == 1..Len(f)
    <2>1. L = D \ P /\ P \in SUBSET D /\ n \in L
      <3>1. \A i \in DOMAIN f : f[i].prise \in BOOLEAN
        BY <1>1, Queue
      <3> QED BY <1>2, <1>10, <3>1 DEF Libres, Prises
    <2>2. A = L \ {n}
      BY <1>2, <1>10, <2>1
    <2>3. IsFiniteSet(D) /\ Cardinality(D) = Len(f) /\ Len(f) \in Nat
      BY <1>2, FS_Interval
    <2> HIDE DEF L, P, A, D
    <2>4. IsFiniteSet(L) /\ Cardinality(L) = Cardinality(D) - Cardinality(P)
      <3>1. D \cap P = P
        BY <2>1
      <3> QED BY <2>1, <2>3, <3>1, FS_Difference
    <2>5. Cardinality(A) = Cardinality(L) - 1
      BY <2>1, <2>2, <2>4, FS_RemoveElement
    <2>6. Cardinality(P) \in Nat
      BY <1>1, Queue DEF P
    <2>7. ~(Cardinality(A) < Len(f) - cap)
      BY <1>10, <2>3, <2>4, <2>5, <2>6 DEF P
    <2>8. n \notin I
      BY <2>7 DEF I, A, L
    <2> QED BY <1>6, <1>8, <2>8
  <1> QED BY <1>9, <1>10 DEF x

LEMMA Ajout ==
  ASSUME NEW f \in Queues, NEW e \in Entrees, ~e.prise
  PROVE  LET b == Append(f, e)
         IN  /\ b \in Queues /\ Len(b) \in DOMAIN b /\ b[Len(b)] = e
             /\ Ids(b) = Ids(f) \cup {e.id} /\ Loues(b) = Loues(f) /\ Prises(b) = Prises(f)
             /\ Liens(b) = Liens(f) \cup ({e.lien} \ {0})
             /\ \A q \in Paires(b) : q \in Paires(f) \/ (q = <<e.id, e.lien>> /\ e.lien # 0)
  <1> DEFINE b == Append(f, e)
             n == Len(f) + 1
  <1>1. b \in Queues /\ Len(b) = n /\ b[n] = e /\ \A i \in 1..Len(f) : b[i] = f[i]
    BY AppendProperties DEF Queues
  <1>2. DOMAIN f = 1..Len(f) /\ Len(f) \in Nat /\ DOMAIN b = 1..n
    <2>1. DOMAIN f = 1..Len(f) /\ Len(f) \in Nat
      BY Queue
    <2> HIDE DEF b
    <2>2. DOMAIN b = 1..Len(b)
      BY <1>1, Queue
    <2> QED BY <1>1, <2>1, <2>2
  <1> HIDE DEF b
  <1>3. DOMAIN b = DOMAIN f \cup {n} /\ n \notin DOMAIN f /\ \A i \in DOMAIN f : b[i] = f[i]
    BY <1>1, <1>2
  <1> HIDE DEF n
  <1>4. Ids(b) = Ids(f) \cup {e.id}
    BY <1>1, <1>3 DEF Ids
  <1>5. Prises(b) = Prises(f)
    BY <1>1, <1>3 DEF Prises
  <1>6. Loues(b) = Loues(f)
    BY <1>3, <1>5 DEF Loues, Prises
  <1>7. Liens(b) = Liens(f) \cup ({e.lien} \ {0})
    BY <1>1, <1>3 DEF Liens
  <1>9. \A q \in Paires(b) : q \in Paires(f) \/ (q = <<e.id, e.lien>> /\ e.lien # 0)
    BY <1>1, <1>3 DEF Paires
  <1>8. Len(b) \in DOMAIN b /\ b[Len(b)] = e
    BY <1>1, <1>3
  <1> QED BY <1>1, <1>4, <1>5, <1>6, <1>7, <1>8, <1>9 DEF b

LEMMA PairesFaits ==
  ASSUME NEW f \in Queues
  PROVE  \A p \in Paires(f) : p[2] \in Liens(f)
  BY DEF Paires, Liens

\* Entries have left, the effects of the roots among them unlinked: the rest is linked as before.
LEMMA TenueSuit ==
  ASSUME NEW m \in Memoires, NEW x, Suit(m, x), NEW R, Tenue(m.file, R, perimes \cap m.refusees)
  PROVE  Tenue(x.file, R, perimes \cap x.refusees)
  <1>1. /\ Paires(x.file) \subseteq Paires(m.file) /\ Liens(x.file) \cap Ids(m.file) \subseteq Ids(x.file)
        /\ m.refusees \subseteq x.refusees /\ x.file \in Queues
    BY DEF Suit, Memoires
  <1>2. \A p \in Paires(x.file) : p[2] \in Liens(x.file)
    BY <1>1, PairesFaits
  <1> QED BY <1>1, <1>2 DEF Tenue

\* A push: what is too old leaves, the entry enters, the oldest leave.  If its root is among what
\* leaves, the entry keeps its link, and is the only one.  Its own push does not evict it if a
\* place is free.
LEMMA PousserFaits ==
  ASSUME NEW m \in Memoires, NEW e \in Entrees, ~e.prise, NEW cap \in Nat
  PROVE  LET x == Pousser(m, e, cap)
             Dedans == Ids(m.file) \cup {e.id}
         IN  /\ x \in Memoires
             /\ Ids(x.file) \subseteq Dedans /\ Dedans \subseteq Ids(x.file) \cup x.perdus
             /\ m.perdus \subseteq x.perdus /\ x.perdus \subseteq m.perdus \cup Dedans
             /\ x.contretemps \subseteq m.contretemps \cup Dedans
             /\ m.refusees \subseteq x.refusees /\ Dedans \cap Racines \subseteq Ids(x.file) \cup x.refusees
             /\ Loues(x.file) \subseteq Loues(m.file)
             /\ Cardinality(Prises(x.file)) <= Cardinality(Prises(m.file))
             /\ Cardinality(Prises(m.file)) < cap => e.id \in Ids(x.file)
             /\ \A R : Tenue(m.file, R, perimes \cap m.refusees) /\ e.lien \in {0} \cup ((Ids(m.file) \cup R) \ m.refusees)
                      => Tenue(x.file, R, perimes \cap x.refusees)
  <1> DEFINE y == Expirer(m)
             z == [y EXCEPT !.file = Append(@, e)]
             x == Evincer(z, cap)
             Dedans == Ids(m.file) \cup {e.id}
  <1>1. Suit(m, y) /\ y \in Memoires /\ Ids(m.file) \ perimes \subseteq Ids(y.file)
    <2>1. Suit(m, y) /\ Ids(m.file) \ perimes \subseteq Ids(y.file)
      BY ExpirerSuit
    <2> QED BY <2>1 DEF Suit
  <1>2. Pousser(m, e, cap) = x
    BY DEF Pousser
  <1> HIDE DEF y
  <1>3. y.file \in Queues /\ m.file \in Queues
    BY <1>1 DEF Memoires
  <1>4. /\ Append(y.file, e) \in Queues
        /\ Len(Append(y.file, e)) \in DOMAIN Append(y.file, e) /\ Append(y.file, e)[Len(Append(y.file, e))] = e
        /\ Ids(Append(y.file, e)) = Ids(y.file) \cup {e.id} /\ Loues(Append(y.file, e)) = Loues(y.file)
        /\ Prises(Append(y.file, e)) = Prises(y.file)
        /\ Liens(Append(y.file, e)) = Liens(y.file) \cup ({e.lien} \ {0})
        /\ \A q \in Paires(Append(y.file, e)) : q \in Paires(y.file) \/ (q = <<e.id, e.lien>> /\ e.lien # 0)
    BY <1>3, Ajout
  <1>5. /\ z \in Memoires /\ z.file = Append(y.file, e) /\ z.refusees = y.refusees /\ z.perdus = y.perdus
        /\ z.contretemps = y.contretemps
    BY <1>1, <1>4 DEF Memoires
  <1> HIDE DEF z
  <1>6. Suit(z, x) /\ (Cardinality(Prises(z.file)) < cap => e.id \in Ids(x.file))
    BY <1>4, <1>5, EvincerSuit
  <1> HIDE DEF x
  <1>7. e.id \in Evts
    BY DEF Entrees
  <1>8. /\ x \in Memoires
        /\ Ids(x.file) \subseteq Dedans /\ Dedans \subseteq Ids(x.file) \cup x.perdus
        /\ m.perdus \subseteq x.perdus /\ x.perdus \subseteq m.perdus \cup Dedans
        /\ x.contretemps \subseteq m.contretemps \cup Dedans
    BY <1>1, <1>4, <1>5, <1>6 DEF Suit
  <1>9. m.refusees \subseteq x.refusees /\ Dedans \cap Racines \subseteq Ids(x.file) \cup x.refusees
    BY <1>1, <1>4, <1>5, <1>6 DEF Suit
  <1>10. Loues(x.file) \subseteq Loues(m.file)
    BY <1>1, <1>4, <1>5, <1>6 DEF Suit
  <1>11. /\ Cardinality(Prises(x.file)) <= Cardinality(Prises(m.file))
         /\ Cardinality(Prises(m.file)) < cap => e.id \in Ids(x.file)
    <2>1. Cardinality(Prises(x.file)) <= Cardinality(Prises(y.file)) /\ Cardinality(Prises(y.file)) <= Cardinality(Prises(m.file))
      BY <1>1, <1>4, <1>5, <1>6 DEF Suit
    <2>2. Cardinality(Prises(x.file)) \in Nat /\ Cardinality(Prises(y.file)) \in Nat /\ Cardinality(Prises(m.file)) \in Nat
      <3>1. x.file \in Queues
        BY <1>8 DEF Memoires
      <3> QED BY <1>3, <3>1, Queue
    <2>3. Cardinality(Prises(m.file)) < cap => Cardinality(Prises(z.file)) < cap
      BY <1>4, <1>5, <2>1, <2>2
    <2> QED BY <1>6, <2>1, <2>2, <2>3
  <1>12. ASSUME NEW R, Tenue(m.file, R, perimes \cap m.refusees),
                e.lien \in {0} \cup ((Ids(m.file) \cup R) \ m.refusees)
         PROVE  Tenue(x.file, R, perimes \cap x.refusees)
    <2> DEFINE l == e.lien
    <2>1. Tenue(y.file, R, perimes \cap y.refusees)
      BY <1>1, <1>12, TenueSuit
    <2>2. /\ Ids(z.file) = Ids(y.file) \cup {e.id} /\ z.refusees = y.refusees
          /\ \A q \in Paires(z.file) : q \in Paires(y.file) \/ (q[1] = e.id /\ q[2] = l /\ l # 0)
      BY <1>4, <1>5
    <2>3. \A p \in Paires(y.file) : p[2] \in Liens(y.file)
      BY <1>3, PairesFaits
    <2>4. /\ Liens(y.file) \cap Ids(m.file) \subseteq Ids(y.file) /\ Ids(m.file) \ perimes \subseteq Ids(y.file)
          /\ Ids(m.file) \cap Racines \subseteq Ids(y.file) \cup y.refusees
      BY <1>1 DEF Suit
    <2>5. l \in Racines \cup {0}
      BY DEF Entrees
    <2> HIDE DEF l
    <2>6. CASE l = 0 \/ l \in Ids(y.file) \cup R
      <3>1. Tenue(z.file, R, perimes \cap z.refusees)
        BY <2>1, <2>2, <2>6 DEF Tenue
      <3> QED BY <1>5, <1>6, <3>1, TenueSuit
    <2>7. CASE l # 0 /\ l \notin Ids(y.file) \cup R
      <3>1. l \in Ids(m.file) /\ l \in perimes \cap y.refusees
        BY <1>12, <2>4, <2>5, <2>7 DEF l
      <3>2. \A p \in Paires(y.file) : p[2] # l
        BY <2>3, <2>4, <2>7, <3>1
      <3>3. Tenue(z.file, R, perimes \cap z.refusees)
        BY <2>1, <2>2, <3>1, <3>2 DEF Tenue
      <3> QED BY <1>5, <1>6, <3>3, TenueSuit
    <2> QED BY <2>6, <2>7
  <1> QED BY <1>2, <1>8, <1>9, <1>10, <1>11, <1>12

\* The events of E, brought back to the queue.
Rejoint(m, x, E) ==
  /\ x \in Memoires
  /\ Ids(x.file) \subseteq Ids(m.file) \cup E /\ Ids(m.file) \subseteq Ids(x.file) \cup x.perdus
  /\ m.perdus \subseteq x.perdus /\ x.perdus \subseteq m.perdus \cup Ids(m.file) \cup E
  /\ x.contretemps \subseteq m.contretemps \cup Ids(m.file) \cup E
  /\ Loues(x.file) \subseteq Loues(m.file) /\ Cardinality(Prises(x.file)) <= Cardinality(Prises(m.file))

LEMMA RestaurerFaits ==
  ASSUME montage \in Montages, NEW m \in Memoires, NEW evts \in Queues, \A i \in DOMAIN evts : ~evts[i].prise
  PROVE  Rejoint(m, Restaurer(m, evts), Ids(evts))
  <1> DEFINE n == Len(evts)
             F(h, k) == IF k = 0 THEN m ELSE Pousser(h[k - 1], evts[k], MaxFile)
             Suite(h, j) == h = [k \in 0..j |-> F(h, k)]
  <1>1. n \in Nat /\ DOMAIN evts = 1..n /\ \A i \in 1..n : evts[i] \in Entrees /\ ~evts[i].prise /\ evts[i].id \in Ids(evts)
    BY Queue DEF Ids
  <1>2. MaxFile \in Nat
    BY Constantes
  <1>3. \E h : Suite(h, n)
    <2> DEFINE S == {j \in 0..n : \E h : Suite(h, j)}
    <2>1. 0 \in S
      <3> DEFINE g == [k \in 0..0 |-> m]
      <3>1. Suite(g, 0)
        OBVIOUS
      <3> HIDE DEF g, Suite
      <3>2. 0 \in 0..n
        BY <1>1
      <3> QED BY <3>1, <3>2
    <2>2. ASSUME NEW j \in 0..n, j \in S, j < n
          PROVE  j + 1 \in S
      <3>1. PICK h : Suite(h, j)
        BY <2>2
      <3> DEFINE g == [k \in 0..(j + 1) |-> IF k = j + 1 THEN F(h, k) ELSE h[k]]
      <3>2. \A k \in 0..j : g[k] = h[k] /\ h[k] = F(h, k)
        BY <3>1
      <3>3. \A k \in 0..(j + 1) : g[k] = F(g, k)
        <4> SUFFICES ASSUME NEW k \in 0..(j + 1) PROVE g[k] = F(g, k)
          OBVIOUS
        <4>1. g[k] = F(h, k)
          <5>1. CASE k = j + 1
            BY <5>1
          <5>2. CASE k # j + 1
            <6>1. k \in 0..j
              BY <5>2
            <6> HIDE DEF F, g
            <6> QED BY <3>2, <6>1
          <5> QED BY <5>1, <5>2
        <4>2. CASE k = 0
          BY <4>1, <4>2
        <4>3. CASE k # 0
          <5>1. k - 1 \in 0..j
            BY <4>3
          <5>2. g[k - 1] = h[k - 1]
            BY <3>2, <5>1
          <5> QED BY <4>1, <4>3, <5>2
        <4> QED BY <4>2, <4>3
      <3>4. Suite(g, j + 1)
        <4> DEFINE T == 0..(j + 1)
        <4>1. g = [k \in T |-> g[k]]
          OBVIOUS
        <4>2. \A k \in T : g[k] = F(g, k)
          BY <3>3
        <4> HIDE DEF g, F, T
        <4>3. g = [k \in T |-> F(g, k)]
          BY <4>1, <4>2
        <4> QED BY <4>3 DEF T
      <3>5. j + 1 \in 0..n
        BY <2>2
      <3> QED BY <3>4, <3>5
    <2> HIDE DEF S
    <2>3. 0..n \subseteq S
      BY <1>1, <2>1, <2>2, Recurrence
    <2> QED BY <1>1, <2>3 DEF S
  <1> DEFINE s == CHOOSE h : Suite(h, n)
  <1>4. Suite(s, n)
    BY <1>3
  <1>5. Restaurer(m, evts) = s[n]
    BY DEF Restaurer
  <1> HIDE DEF s
  <1>6. \A k \in 0..n : s[k] = F(s, k)
    BY <1>4
  <1> DEFINE E == Ids(evts)
             S == {k \in 0..n : Rejoint(m, s[k], E)}
  <1>7. 0 \in S
    <2>1. s[0] = m
      BY <1>1, <1>6
    <2>2. Rejoint(m, m, E)
      BY SuitReflexif DEF Suit, Rejoint
    <2> QED BY <1>1, <2>1, <2>2
  <1>8. ASSUME NEW k \in 0..n, k \in S, k < n
        PROVE  k + 1 \in S
    <2> DEFINE x == s[k]
               e == evts[k + 1]
               y == Pousser(x, e, MaxFile)
    <2>1. s[k + 1] = y
      <3>1. k + 1 \in 0..n /\ k + 1 # 0 /\ k + 1 - 1 = k
        BY <1>8
      <3> QED BY <1>6, <3>1
    <2>2. e \in Entrees /\ ~e.prise /\ e.id \in E
      BY <1>1, <1>8
    <2>3. Rejoint(m, x, E)
      BY <1>8
    <2>4. x \in Memoires
      BY <2>3 DEF Rejoint
    <2> HIDE DEF x, e, E
    <2>5. /\ y \in Memoires
          /\ Ids(y.file) \subseteq Ids(x.file) \cup {e.id} /\ Ids(x.file) \subseteq Ids(y.file) \cup y.perdus
          /\ x.perdus \subseteq y.perdus /\ y.perdus \subseteq x.perdus \cup Ids(x.file) \cup {e.id}
          /\ y.contretemps \subseteq x.contretemps \cup Ids(x.file) \cup {e.id}
          /\ Loues(y.file) \subseteq Loues(x.file)
          /\ Cardinality(Prises(y.file)) <= Cardinality(Prises(x.file))
      BY <1>2, <2>2, <2>4, PousserFaits
    <2> HIDE DEF y
    <2>6. Rejoint(m, y, E)
      <3>1. Cardinality(Prises(y.file)) <= Cardinality(Prises(m.file))
        <4>1. Cardinality(Prises(m.file)) \in Nat /\ Cardinality(Prises(x.file)) \in Nat /\ Cardinality(Prises(y.file)) \in Nat
          <5>1. m.file \in Queues /\ x.file \in Queues /\ y.file \in Queues
            BY <2>4, <2>5 DEF Memoires
          <5> QED BY <5>1, Queue
        <4> QED BY <2>3, <2>5, <4>1 DEF Rejoint
      <3> QED BY <2>2, <2>3, <2>5, <3>1 DEF Rejoint
    <2>7. k + 1 \in 0..n
      BY <1>8
    <2> QED BY <2>1, <2>6, <2>7
  <1> HIDE DEF S
  <1>9. 0..n \subseteq S
    BY <1>1, <1>7, <1>8, Recurrence
  <1>10. n \in S
    BY <1>1, <1>9
  <1> QED BY <1>5, <1>10 DEF S

\* Leases taken, or given back, at the positions I.
LEMMA PrendreFaits ==
  ASSUME NEW f \in Queues, NEW I \in SUBSET (DOMAIN f), NEW b \in BOOLEAN
  PROVE  LET g == Prendre(f, I, b)
         IN  /\ g \in Queues /\ DOMAIN g = DOMAIN f /\ Ids(g) = Ids(f) /\ Liens(g) = Liens(f) /\ Paires(g) = Paires(f)
             /\ Prises(g) = IF b THEN Prises(f) \cup I ELSE Prises(f) \ I
             /\ \A i \in DOMAIN f : g[i].id = f[i].id
  <1> DEFINE g == Prendre(f, I, b)
  <1>1. DOMAIN f = 1..Len(f) /\ Len(f) \in Nat /\ \A i \in DOMAIN f : f[i] \in Entrees
    BY Queue
  <1>2. g = [i \in DOMAIN f |-> IF i \in I THEN [f[i] EXCEPT !.prise = b] ELSE f[i]]
    BY DEF Prendre
  <1> HIDE DEF g
  <1>3. DOMAIN g = DOMAIN f
    BY <1>2
  <1>4. \A i \in DOMAIN f : g[i] \in Entrees /\ g[i].id = f[i].id /\ g[i].lien = f[i].lien
                            /\ g[i].prise = IF i \in I THEN b ELSE f[i].prise
    BY <1>1, <1>2 DEF Entrees
  <1>5. g \in Queues
    <2>1. g \in [1..Len(f) -> Entrees]
      BY <1>1, <1>2, <1>4
    <2> QED BY <1>1, <2>1, SeqDef DEF Queues
  <1>6. Ids(g) = Ids(f)
    BY <1>3, <1>4 DEF Ids
  <1>7. Liens(g) = Liens(f) /\ Paires(g) = Paires(f)
    BY <1>3, <1>4 DEF Liens, Paires
  <1>8. Prises(g) = IF b THEN Prises(f) \cup I ELSE Prises(f) \ I
    BY <1>3, <1>4 DEF Prises
  <1> QED BY <1>3, <1>4, <1>5, <1>6, <1>7, <1>8 DEF g

\* A batch has at most n entries.
LEMMA LotFaits ==
  ASSUME NEW f \in Queues, NEW n \in Nat
  PROVE  /\ Lot(f, n) \in SUBSET (DOMAIN f) /\ IsFiniteSet(Lot(f, n))
         /\ Cardinality(Lot(f, n)) \in Nat /\ Cardinality(Lot(f, n)) <= n
         /\ Cardinality(Lot(f, n)) = 0 <=> Lot(f, n) = {}
  <1> DEFINE L == Libres(f)
             I == Lot(f, n)
             D == 1..Len(f)
  <1>1. DOMAIN f = D /\ Len(f) \in Nat
    BY Queue
  <1>2. L \in SUBSET D /\ I = {i \in L : Cardinality({j \in L : j < i}) < n}
    BY <1>1 DEF Libres, Lot
  <1>3. \A i \in D : i \in Nat
    BY <1>1
  <1> HIDE DEF I, L
  <1>4. IsFiniteSet(I) /\ Cardinality(I) \in Nat /\ (Cardinality(I) = 0 <=> I = {})
    BY <1>1, <1>2, Parties, FS_EmptySet
  <1>5. Cardinality(I) <= n
    <2>1. CASE Cardinality(I) = 0
      BY <2>1
    <2>2. CASE Cardinality(I) # 0
      <3>1. PICK i \in I : Rang(I, i) = Cardinality(I)
        <4>1. \A k \in 1..Cardinality(I) : \E i \in I : Rang(I, i) = k
          <5>1. I \in SUBSET (1..Len(f))
            BY <1>2
          <5> QED BY <1>1, <5>1, Rangs
        <4>2. Cardinality(I) \in 1..Cardinality(I)
          BY <1>4, <2>2
        <4> QED BY <4>1, <4>2
      <3> DEFINE A == {j \in L : j < i}
                 B == {j \in I : j <= i}
      <3>2. A \in SUBSET D /\ B \subseteq A \cup {i} /\ i \notin A /\ Cardinality(A) < n
        <4>1. \A j \in I : j <= i => j < i \/ j = i
          BY <1>2, <1>3
        <4>2. ~(i < i)
          BY <1>2, <1>3
        <4> QED BY <1>2, <4>1, <4>2
      <3>3. Cardinality(B) = Cardinality(I)
        BY <3>1 DEF Rang
      <3> HIDE DEF A, B
      <3>4. IsFiniteSet(A) /\ Cardinality(A) \in Nat
        BY <1>1, <3>2, Parties
      <3>5. IsFiniteSet(A \cup {i}) /\ Cardinality(A \cup {i}) = Cardinality(A) + 1
        BY <3>2, <3>4, FS_AddElement
      <3>6. Cardinality(B) <= Cardinality(A \cup {i})
        BY <3>2, <3>5, FS_Subset
      <3> QED BY <1>4, <3>2, <3>3, <3>4, <3>5, <3>6
    <2> QED BY <2>1, <2>2
  <1> QED BY <1>1, <1>2, <1>4, <1>5 DEF I, L

\* What is kept from the memory m to x when entries are only removed against their will, leases aside.
Garde(m, x) ==
  /\ x \in Memoires
  /\ Ids(x.file) \subseteq Ids(m.file) /\ Ids(m.file) \subseteq Ids(x.file) \cup x.perdus
  /\ m.perdus \subseteq x.perdus /\ x.perdus \subseteq m.perdus \cup Ids(m.file)
  /\ x.contretemps \subseteq m.contretemps \cup Ids(m.file)
  /\ m.refusees \subseteq x.refusees /\ Ids(m.file) \cap Racines \subseteq Ids(x.file) \cup x.refusees
  /\ Liens(x.file) \subseteq Liens(m.file) /\ Paires(x.file) \subseteq Paires(m.file) /\ Liens(x.file) \cap Ids(m.file) \subseteq Ids(x.file)

\* The batch is acknowledged.
LEMMA AckFaits ==
  ASSUME NEW m \in Memoires, NEW lot
  PROVE  LET x == Ack(m, lot)
         IN  /\ x \in Memoires /\ Ids(x.file) = Ids(m.file) \ Range(lot) /\ Liens(x.file) \subseteq Liens(m.file) /\ Paires(x.file) \subseteq Paires(m.file)
             /\ Loues(x.file) \subseteq Loues(m.file) \ Range(lot)
             /\ x.refusees = m.refusees /\ x.perdus = m.perdus /\ x.contretemps = m.contretemps
  <1> DEFINE f == m.file
             I == DuLot(f, lot)
             g == Sans(f, I)
             x == Ack(m, lot)
  <1>1. f \in Queues
    BY DEF Memoires
  <1>2. x = [m EXCEPT !.file = g]
    BY DEF Ack
  <1>3. /\ g \in Queues
        /\ \A k \in DOMAIN g : \E i \in DOMAIN f \ I : g[k] = f[i]
        /\ Ids(g) = {f[i].id : i \in DOMAIN f \ I}
        /\ Loues(g) \subseteq Loues(f)
    BY <1>1, SansFaits
  <1>4. \A i \in DOMAIN f : i \in I <=> f[i].id \in Range(lot)
    BY DEF DuLot
  <1> HIDE DEF g, I
  <1>5. x \in Memoires /\ x.file = g /\ x.refusees = m.refusees /\ x.perdus = m.perdus /\ x.contretemps = m.contretemps
    BY <1>2, <1>3 DEF Memoires
  <1> HIDE DEF x
  <1>6. Ids(g) = Ids(f) \ Range(lot)
    BY <1>3, <1>4 DEF Ids
  <1>7. Liens(g) \subseteq Liens(f) /\ Paires(g) \subseteq Paires(f)
    BY <1>3 DEF Liens, Paires
  <1>8. Loues(g) \subseteq Ids(g)
    BY <1>3, Queue
  <1> QED BY <1>3, <1>5, <1>6, <1>7, <1>8 DEF x

\* The batch is to be sent again.
LEMMA NackFaits ==
  ASSUME NEW m \in Memoires, NEW lot
  PROVE  LET x == Nack(m, lot)
         IN  /\ x \in Memoires /\ Ids(x.file) = Ids(m.file) /\ Liens(x.file) = Liens(m.file) /\ Paires(x.file) = Paires(m.file)
             /\ Loues(x.file) \subseteq Loues(m.file) \ Range(lot)
             /\ x.refusees = m.refusees /\ x.perdus = m.perdus /\ x.contretemps = m.contretemps
  <1> DEFINE f == m.file
             I == DuLot(f, lot)
             g == Prendre(f, I, FALSE)
             x == Nack(m, lot)
  <1>1. f \in Queues
    BY DEF Memoires
  <1>2. x = [m EXCEPT !.file = g]
    BY DEF Nack
  <1>3. I \in SUBSET (DOMAIN f) /\ \A i \in DOMAIN f : i \in I <=> f[i].id \in Range(lot)
    BY DEF DuLot
  <1> HIDE DEF I
  <1>4. /\ g \in Queues /\ DOMAIN g = DOMAIN f /\ Ids(g) = Ids(f) /\ Liens(g) = Liens(f) /\ Paires(g) = Paires(f)
        /\ Prises(g) = Prises(f) \ I
        /\ \A i \in DOMAIN f : g[i].id = f[i].id
    BY <1>1, <1>3, PrendreFaits
  <1> HIDE DEF g
  <1>5. x \in Memoires /\ x.file = g /\ x.refusees = m.refusees /\ x.perdus = m.perdus /\ x.contretemps = m.contretemps
    BY <1>2, <1>4 DEF Memoires
  <1> HIDE DEF x
  <1>6. Loues(g) \subseteq Loues(f) \ Range(lot)
    <2>1. \A i \in Prises(g) : i \in Prises(f) /\ i \in DOMAIN f /\ g[i].id = f[i].id /\ f[i].id \notin Range(lot)
      BY <1>3, <1>4 DEF Prises
    <2> HIDE DEF f
    <2> QED BY <2>1 DEF Loues
  <1> QED BY <1>4, <1>5, <1>6 DEF x

\* The batch is given up.
LEMMA AbandonnerFaits ==
  ASSUME NEW m \in Memoires, NEW lot, Range(lot) \subseteq Evts
  PROVE  LET x == Abandonner(m, lot)
         IN  /\ x \in Memoires /\ Ids(x.file) = Ids(m.file) \ Range(lot)
             /\ Loues(x.file) \subseteq Loues(m.file) \ Range(lot)
             /\ x.perdus = m.perdus \cup Range(lot) /\ x.contretemps \subseteq m.contretemps \cup Ids(m.file)
             /\ m.refusees \subseteq x.refusees /\ Ids(m.file) \cap Racines \subseteq Ids(x.file) \cup x.refusees
             /\ Liens(x.file) \subseteq Liens(m.file) /\ Paires(x.file) \subseteq Paires(m.file) /\ Liens(x.file) \cap Ids(m.file) \subseteq Ids(x.file)
  <1> DEFINE f == m.file
             I == DuLot(f, lot)
             S == Range(lot)
             y == Retirer(m, I)
             x == Abandonner(m, lot)
  <1>1. f \in Queues
    BY DEF Memoires
  <1>2. x = [y EXCEPT !.perdus = @ \cup S, !.refusees = @ \cup (S \cap Racines)]
    BY DEF Abandonner
  <1>3. I \in SUBSET (DOMAIN m.file) /\ \A i \in DOMAIN f : i \in I <=> f[i].id \in S
    BY DEF DuLot
  <1> HIDE DEF I
  <1>4. Suit(m, y) /\ Ids(y.file) = {f[i].id : i \in DOMAIN f \ I}
    BY <1>3, RetirerSuit
  <1>5. y.perdus \subseteq m.perdus \cup S
    <2>1. y.perdus = m.perdus \cup {m.file[i].id : i \in I}
      BY DEF Retirer, Memoires
    <2> QED BY <1>3, <2>1
  <1> HIDE DEF y
  <1>6. y \in Memoires
    BY <1>4 DEF Suit
  <1> HIDE DEF S
  <1>7. /\ x \in Memoires /\ x.file = y.file /\ x.perdus = y.perdus \cup S /\ x.contretemps = y.contretemps
        /\ x.refusees = y.refusees \cup (S \cap Racines)
    BY <1>2, <1>6 DEF Memoires, S
  <1> HIDE DEF x
  <1>8. Ids(y.file) = Ids(f) \ S
    BY <1>3, <1>4 DEF Ids
  <1>9. Loues(y.file) \subseteq Loues(f) \ S
    <2>1. Loues(y.file) \subseteq Ids(y.file)
      BY <1>6, Queue DEF Memoires
    <2> QED BY <1>4, <1>8, <2>1 DEF Suit
  <1>10. x.perdus = m.perdus \cup S
    BY <1>4, <1>5, <1>7 DEF Suit
  <1>11. /\ x.contretemps \subseteq m.contretemps \cup Ids(f)
         /\ m.refusees \subseteq x.refusees /\ Ids(f) \cap Racines \subseteq Ids(x.file) \cup x.refusees
         /\ Liens(x.file) \subseteq Liens(f) /\ Paires(x.file) \subseteq Paires(f) /\ Liens(x.file) \cap Ids(f) \subseteq Ids(x.file)
    BY <1>4, <1>7 DEF Suit
  <1> QED BY <1>7, <1>8, <1>9, <1>10, <1>11 DEF x, S

\* One turn of the loop of the flush: it ends, or a batch of the queue is leased and leaves.
LEMMA BouclerFaits ==
  ASSUME montage \in Montages, NEW m \in Memoires, NEW p \in 1..MaxLot, Boucler(m, p)
  PROVE  \E x :
           /\ Garde(m, x) /\ Memoire(x)
           /\ \/ /\ flush' = Repos /\ Loues(x.file) \subseteq Loues(m.file)
                 /\ Cardinality(Prises(x.file)) <= Cardinality(Prises(m.file))
              \/ \E lot \in Seq(Ids(m.file)) :
                   /\ Len(lot) \in 1..MaxLot
                   /\ flush' = [etape |-> "vol", lot |-> lot, epoque |-> epoque, plafond |-> p, attend |-> 0]
                   /\ Loues(x.file) \subseteq Loues(m.file) \cup Range(lot)
                   /\ Cardinality(Prises(x.file)) <= Cardinality(Prises(m.file)) + MaxLot
  <1> DEFINE x == Expirer(m)
             I == Lot(x.file, p)
             c == Cardinality(I)
             s == Extrait(x.file, I)
             lot == [k \in 1..c |-> s[k].id]
             f == Prendre(x.file, I, TRUE)
             y == [x EXCEPT !.file = Prendre(@, I, TRUE)]
  <1>0. MaxLot \in Nat /\ p \in Nat /\ p <= MaxLot
    BY Constantes
  <1>1. Suit(m, x)
    BY ExpirerSuit
  <1>2. \/ Memoire(m) /\ flush' = Repos
        \/ Memoire(x) /\ flush' = Repos
        \/ /\ I # {} /\ Memoire(y)
           /\ flush' = [etape |-> "vol", lot |-> lot, epoque |-> epoque, plafond |-> p, attend |-> 0]
    <2>1. \/ m.file = <<>> /\ Memoire(m) /\ flush' = Repos
          \/ I = {} /\ Memoire(x) /\ flush' = Repos
          \/ /\ I # {} /\ Memoire(y)
             /\ flush' = [etape |-> "vol", lot |-> lot, epoque |-> epoque, plafond |-> p, attend |-> 0]
      BY Zenon DEF Boucler
    <2> QED BY <2>1
  <1> HIDE DEF x
  <1>3. x \in Memoires /\ x.file \in Queues
    BY <1>1 DEF Suit, Memoires
  <1>4. CASE Memoire(m) /\ flush' = Repos
    <2>1. Suit(m, m)
      BY SuitReflexif
    <2> QED BY <1>4, <2>1 DEF Suit, Garde
  <1>5. CASE Memoire(x) /\ flush' = Repos
    BY <1>1, <1>5 DEF Suit, Garde
  <1>6. CASE I # {} /\ Memoire(y)
             /\ flush' = [etape |-> "vol", lot |-> lot, epoque |-> epoque, plafond |-> p, attend |-> 0]
    <2>1. I \in SUBSET (DOMAIN x.file) /\ IsFiniteSet(I) /\ c \in Nat /\ c <= p /\ c # 0
      BY <1>0, <1>3, <1>6, LotFaits
    <2> HIDE DEF I
    <2>2. /\ f \in Queues /\ Ids(f) = Ids(x.file) /\ Liens(f) = Liens(x.file) /\ Paires(f) = Paires(x.file)
          /\ Prises(f) = Prises(x.file) \cup I
          /\ \A i \in DOMAIN x.file : f[i].id = x.file[i].id
      BY <1>3, <2>1, PrendreFaits
    <2>3. y = [x EXCEPT !.file = f]
      OBVIOUS
    <2> HIDE DEF f, y
    <2>4. /\ y \in Memoires /\ y.file = f /\ y.refusees = x.refusees /\ y.perdus = x.perdus
          /\ y.contretemps = x.contretemps
      BY <1>3, <2>2, <2>3 DEF Memoires
    <2>5. Garde(m, y)
      BY <1>1, <2>2, <2>4 DEF Suit, Garde
    <2>6. \E g \in [1..c -> I] : Enumere(g, x.file, I)
      <3>1. x.file \in Seq(Entrees)
        BY <1>3 DEF Queues
      <3> HIDE DEF s, lot
      <3> QED BY <2>1, <3>1, Extraits
    <2>7. PICK g \in [1..c -> I] :
            /\ \A k \in 1..c : s[k] = (x.file)[g[k]]
            /\ \A i \in I : \E k \in 1..c : g[k] = i
      <3>1. PICK g \in [1..c -> I] : Enumere(g, x.file, I)
        BY <2>6
      <3> QED BY <3>1 DEF Enumere
    <2> HIDE DEF s, c
    <2>8. \A k \in 1..c : lot[k] \in Ids(m.file) /\ lot[k] = x.file[g[k]].id
      <3> SUFFICES ASSUME NEW k \in 1..c
                   PROVE  lot[k] \in Ids(m.file) /\ lot[k] = x.file[g[k]].id
        OBVIOUS
      <3>1. g[k] \in DOMAIN x.file /\ lot[k] = x.file[g[k]].id
        BY <2>1, <2>7
      <3>2. lot[k] \in Ids(x.file)
        BY <3>1 DEF Ids
      <3> QED BY <1>1, <3>1, <3>2 DEF Suit
    <2>9. lot \in Seq(Ids(m.file)) /\ Len(lot) = c /\ DOMAIN lot = 1..c
      <3>1. lot \in [1..c -> Ids(m.file)]
        BY <2>8
      <3> QED BY <2>1, <3>1, SeqDef, LenProperties
    <2> HIDE DEF lot
    <2>10. \A i \in I : x.file[i].id \in Range(lot)
      <3> SUFFICES ASSUME NEW i \in I PROVE x.file[i].id \in Range(lot)
        OBVIOUS
      <3>1. PICK k \in 1..c : g[k] = i
        BY <2>7
      <3>2. lot[k] = x.file[i].id /\ k \in DOMAIN lot
        BY <2>8, <2>9, <3>1
      <3> QED BY <3>2 DEF Range
    <2>11. Loues(f) \subseteq Loues(m.file) \cup Range(lot)
      <3>1. Loues(x.file) \subseteq Loues(m.file)
        BY <1>1 DEF Suit
      <3>2. \A i \in Prises(f) : f[i].id \in Loues(x.file) \cup Range(lot)
        <4> SUFFICES ASSUME NEW i \in Prises(f)
                     PROVE  f[i].id \in Loues(x.file) \cup Range(lot)
          OBVIOUS
        <4>1. CASE i \in I
          BY <2>1, <2>2, <2>10, <4>1
        <4>2. CASE i \in Prises(x.file)
          BY <2>2, <4>2 DEF Loues, Prises
        <4> QED BY <2>2, <4>1, <4>2
      <3> QED BY <3>1, <3>2 DEF Loues
    <2>12. Cardinality(Prises(f)) <= Cardinality(Prises(m.file)) + MaxLot
      <3> DEFINE P == Prises(x.file)
                 Q == Prises(f)
      <3>1. /\ IsFiniteSet(P) /\ Cardinality(P) \in Nat
            /\ Cardinality(P) <= Cardinality(Prises(m.file)) /\ Cardinality(Prises(m.file)) \in Nat
        <4>1. IsFiniteSet(P) /\ Cardinality(P) \in Nat
          BY <1>3, Queue
        <4>2. Cardinality(Prises(m.file)) \in Nat
          BY Queue DEF Memoires
        <4> QED BY <1>1, <4>1, <4>2 DEF Suit
      <3>2. Q = P \cup I
        BY <2>2
      <3> HIDE DEF P, Q
      <3>3. Cardinality(Q) = Cardinality(P) + Cardinality(I) - Cardinality(P \cap I) /\ Cardinality(P \cap I) \in Nat
        <4>1. IsFiniteSet(P \cap I)
          BY <3>1, FS_Intersection
        <4> QED BY <2>1, <3>1, <3>2, <4>1, FS_Union, FS_CardinalityType
      <3> QED BY <1>0, <2>1, <3>1, <3>3 DEF Q, c
    <2>13. Len(lot) \in 1..MaxLot
      BY <1>0, <2>1, <2>9
    <2>14. flush' = [etape |-> "vol", lot |-> lot, epoque |-> epoque, plafond |-> p, attend |-> 0]
      BY <1>6
    <2> QED BY <1>6, <2>4, <2>5, <2>9, <2>11, <2>12, <2>13, <2>14
  <1> QED BY <1>2, <1>4, <1>5, <1>6

-----------------------------------------------------------------------------
(* The invariant *)

Vus == 1..(suivant - 1)
Coroutines == [pas : Pas, epoque : Nat, v : Nat, evts : Queues]

\* The types, and that what memory and device hold has been collected.
Cadre ==
  /\ montage \in Montages /\ suivant \in 1..(N + 1) /\ gen \in [Evts -> Nat] /\ revocations \in Nat
  /\ vies \in Nat \ {0} /\ etat \in {"pending", "granted", "denied"} /\ epoque \in Nat \ {0}
  /\ recul \in BOOLEAN /\ visiteur \in Nat /\ fenetre.r \in Racines \cup {0}
  /\ perimes \subseteq montage.perissables /\ perimes \subseteq Vus
  /\ recus \subseteq Vus /\ oublies \subseteq Vus /\ restait \subseteq Vus

EnTete == M \in Memoires /\ Ids(file) \subseteq Vus /\ perdus \subseteq Vus /\ contretemps \subseteq Vus

\* The flush in progress.
EnVol ==
  /\ flush.etape \in {"repos", "attend", "vol", "sauve"} /\ flush.plafond \in 1..MaxLot /\ flush.epoque \in Nat
  /\ flush.etape = "vol" => flush.lot \in Seq(Vus) /\ Len(flush.lot) \in 1..MaxLot
  /\ flush.etape = "sauve" => flush.lot \in Queues /\ Ids(flush.lot) \subseteq Vus
  /\ flush.etape = "attend" => flush.attend \in DOMAIN taches

\* The coroutines and the device.
Appareil ==
  /\ taches \in Seq(Coroutines) /\ pret \in DOMAIN taches
  /\ \A k \in DOMAIN taches : Ids(taches[k].evts) \subseteq Vus
  /\ ident \in [epoque : Nat, v : Nat] /\ disque \in [epoque : Nat, evts : Queues]
  /\ Ids(disque.evts) \subseteq Vus

\* A queue in memory is never read back.
SansReprise == ~montage.persistant => \A k \in DOMAIN taches : taches[k].pas # "bootFile"

\* Epochs only grow: none is ahead of the gate's, and a batch of this epoch flies under a consent.
Horloge ==
  /\ \A k \in DOMAIN taches : taches[k].epoque <= epoque
  /\ flush.etape = "vol" => flush.epoque <= epoque
  /\ flush.etape = "vol" /\ flush.epoque = epoque => etat = "granted"

\* The first life of the process, or a storage that does not fail.
Prudent == vies = 1 \/ (~montage.lectureFragile /\ ~montage.ecritureFragile)

\* What the flush waits for: the device is still to be read, or a refusal to be written.
Ouvert == {"bootId", "refusFile", "refusIdent"}

\* The device is only ahead of the gate until the flush may start.
Rattrapage ==
  Prudent =>
    \/ ident.epoque <= epoque
    \/ /\ vies # 1 /\ flush.etape # "vol" /\ taches[pret].pas \in Ouvert
       /\ flush.etape = "attend" => taches[flush.attend].pas \in Ouvert

\* The leased entries are those of the batch in flight, which flies in the epoch of the gate.
Bail ==
  Prudent =>
    /\ Loues(file) # {} => flush.etape = "vol" /\ flush.epoque = epoque
    /\ flush.etape = "vol" => Loues(file) \subseteq Range(flush.lot)
    /\ Cardinality(Prises(file)) <= MaxLot

\* The root of the window is known by the queue, the server or the refused roots; so is every link,
\* but for one event for each root that got too old, which is then a refused root.
Attaches ==
  ~montage.persistant /\ Prudent /\ MaxLot < MaxFile =>
    /\ Tenue(file, recus, perimes \cap refusees)
    /\ fenetre.r # 0 => fenetre.r \in Ids(file) \cup recus \cup refusees

Contenu == RienDeTu /\ EpoqueCourante

IInv ==
  /\ Cadre /\ EnTete /\ EnVol /\ Appareil /\ Contenu
  /\ SansReprise /\ Horloge /\ Rattrapage /\ Bail /\ Attaches

-----------------------------------------------------------------------------
(* What leaves a part of it true *)

LEMMA Montage ==
  ASSUME UNCHANGED montage
  PROVE  /\ N' = N /\ Evts' = Evts /\ Racines' = Racines /\ MaxFile' = MaxFile /\ MaxLot' = MaxLot
         /\ Entrees' = Entrees /\ Queues' = Queues /\ Memoires' = Memoires /\ Coroutines' = Coroutines
  <1>1. N' = N /\ Racines' = Racines /\ MaxFile' = MaxFile /\ MaxLot' = MaxLot
    BY DEF N, Racines, MaxFile, MaxLot
  <1>2. Evts' = Evts
    BY <1>1 DEF Evts
  <1>3. Entrees' = Entrees
    BY <1>1, <1>2 DEF Entrees
  <1>4. Queues' = Queues
    BY <1>3 DEF Queues
  <1>5. Memoires' = Memoires
    BY <1>1, <1>2, <1>4 DEF Memoires
  <1>6. Coroutines' = Coroutines
    BY <1>4 DEF Coroutines
  <1> QED BY <1>1, <1>2, <1>3, <1>4, <1>5, <1>6

LEMMA Depot ==
  ASSUME UNCHANGED montage, NEW x \in Memoires, Memoire(x)
  PROVE  M' = x /\ M' \in Memoires' /\ file' = x.file /\ refusees' = x.refusees /\ perdus' = x.perdus
         /\ contretemps' = x.contretemps
  <1>1. Memoires' = Memoires
    BY Montage
  <1>2. file' = x.file /\ refusees' = x.refusees /\ perdus' = x.perdus /\ contretemps' = x.contretemps
    BY DEF Memoire
  <1>3. M' = x
    BY <1>2 DEF M, Memoires
  <1> QED BY <1>1, <1>2, <1>3

\* Nothing but the flush, the coroutines and the clock has moved.
LEMMA EnTeteReste ==
  ASSUME EnTete, UNCHANGED <<montage, suivant, memoire>>
  PROVE  EnTete'
  <1>1. Memoires' = Memoires
    BY Montage
  <1>2. UNCHANGED <<suivant, file, refusees, perdus, contretemps>>
    BY DEF memoire
  <1>3. M' = M /\ Vus' = Vus
    BY <1>2 DEF M, Vus
  <1> QED BY <1>1, <1>2, <1>3 DEF EnTete, Ids

LEMMA ContenuReste ==
  ASSUME Contenu, UNCHANGED <<montage, suivant, memoire, recus, oublies, gen, revocations>>
  PROVE  Contenu'
  <1>1. UNCHANGED <<file, perdus>>
    BY DEF memoire
  <1> QED BY <1>1 DEF Contenu, RienDeTu, EpoqueCourante, Ids

LEMMA EnVolReste ==
  ASSUME EnVol, UNCHANGED <<montage, suivant, flush>>, DOMAIN taches \subseteq DOMAIN taches'
  PROVE  EnVol'
  <1>1. Vus' = Vus /\ MaxLot' = MaxLot /\ Queues' = Queues
    BY Montage DEF Vus
  <1> QED BY <1>1 DEF EnVol, Ids

LEMMA AppareilReste ==
  ASSUME Appareil, UNCHANGED <<montage, suivant, taches, pret, stockage>>
  PROVE  Appareil'
  <1>1. Vus' = Vus /\ Queues' = Queues /\ Coroutines' = Coroutines
    BY Montage DEF Vus
  <1>2. UNCHANGED <<ident, disque>>
    BY DEF stockage
  <1> QED BY <1>1, <1>2 DEF Appareil, Ids

LEMMA BailReste ==
  ASSUME Bail, Prudent' => Prudent, UNCHANGED <<montage, file, epoque>>,
         flush.etape = "vol" => UNCHANGED flush, flush.etape # "vol" => flush'.etape # "vol"
  PROVE  Bail'
  <1>1. MaxLot' = MaxLot
    BY Montage
  <1> QED BY <1>1 DEF Bail, Loues, Prises

LEMMA AttachesReste ==
  ASSUME Attaches, Prudent' => Prudent, UNCHANGED <<montage, file, refusees, recus, fenetre, perimes>>
  PROVE  Attaches'
  <1>1. MaxLot' = MaxLot /\ MaxFile' = MaxFile
    BY Montage
  <1> QED BY <1>1 DEF Attaches, Tenue, Paires, Ids

LEMMA PrudentReste ==
  ASSUME UNCHANGED <<montage, vies>>
  PROVE  Prudent' <=> Prudent
  BY DEF Prudent

LEMMA TacheEn ==
  ASSUME NEW p, NEW e
  PROVE  Tache(p, e) = [pas |-> p, epoque |-> e, v |-> 0, evts |-> <<>>]
  <1> DEFINE champs == {"pas", "epoque", "v", "evts"}
             t == Tache(p, e)
             r == [pas |-> p, epoque |-> e, v |-> 0, evts |-> <<>>]
  <1>1. t = [x \in champs |-> t[x]]
    BY DEF Tache, Finie
  <1>2. r = [x \in champs |-> r[x]]
    OBVIOUS
  <1>3. t.pas = p
    BY DEF Tache, Finie
  <1>4. t.epoque = e
    BY DEF Tache, Finie
  <1>5. t.v = 0
    BY DEF Tache, Finie
  <1>6. t.evts = <<>>
    BY DEF Tache, Finie
  <1> HIDE DEF t
  <1>7. \A x \in champs : r[x] = t[x]
    BY <1>3, <1>4, <1>5, <1>6
  <1> HIDE DEF r, champs
  <1> QED BY <1>1, <1>2, <1>7 DEF t, r

LEMMA Taches ==
  ASSUME NEW p \in Pas, NEW e \in Nat
  PROVE  /\ Tache(p, e) \in Coroutines /\ Tache(p, e).pas = p /\ Tache(p, e).epoque = e
         /\ Tache(p, e).evts = <<>> /\ Ids(Tache(p, e).evts) = {}
         /\ \A v \in Nat : /\ [Tache(p, e) EXCEPT !.v = v] \in Coroutines
                           /\ [Tache(p, e) EXCEPT !.v = v].pas = p /\ [Tache(p, e) EXCEPT !.v = v].epoque = e
                           /\ [Tache(p, e) EXCEPT !.v = v].evts = <<>>
         /\ \A f \in Queues : /\ [Tache(p, e) EXCEPT !.evts = f] \in Coroutines
                              /\ [Tache(p, e) EXCEPT !.evts = f].pas = p /\ [Tache(p, e) EXCEPT !.evts = f].epoque = e
                              /\ [Tache(p, e) EXCEPT !.evts = f].evts = f
  <1>1. <<>> \in Queues
    BY EmptySeq DEF Queues
  <1>2. Tache(p, e) = [pas |-> p, epoque |-> e, v |-> 0, evts |-> <<>>]
    BY TacheEn
  <1>3. Ids(<<>>) = {}
    BY <1>1, Queue
  <1>4. /\ Tache(p, e) \in Coroutines /\ Tache(p, e).pas = p /\ Tache(p, e).epoque = e
        /\ Tache(p, e).evts = <<>>
    BY <1>1, <1>2 DEF Coroutines
  <1>5. ASSUME NEW v \in Nat
        PROVE  /\ [Tache(p, e) EXCEPT !.v = v] \in Coroutines
               /\ [Tache(p, e) EXCEPT !.v = v].pas = p /\ [Tache(p, e) EXCEPT !.v = v].epoque = e
               /\ [Tache(p, e) EXCEPT !.v = v].evts = <<>>
    BY <1>1, <1>2 DEF Coroutines
  <1>6. ASSUME NEW f \in Queues
        PROVE  /\ [Tache(p, e) EXCEPT !.evts = f] \in Coroutines
               /\ [Tache(p, e) EXCEPT !.evts = f].pas = p /\ [Tache(p, e) EXCEPT !.evts = f].epoque = e
               /\ [Tache(p, e) EXCEPT !.evts = f].evts = f
    BY <1>2 DEF Coroutines
  <1> QED BY <1>3, <1>4, <1>5, <1>6

LEMMA FinieFaits == Finie \in Coroutines /\ Finie.pas = "finie" /\ Finie.epoque = 0 /\ Ids(Finie.evts) = {}
  <1>1. <<>> \in Queues
    BY EmptySeq DEF Queues
  <1>2. Ids(<<>>) = {}
    BY <1>1, Queue
  <1> QED BY <1>1, <1>2 DEF Finie, Coroutines, Pas

\* A coroutine begins.
LEMMA Debut ==
  ASSUME Appareil, UNCHANGED <<montage, suivant, stockage>>, NEW t \in Coroutines, Ids(t.evts) \subseteq Vus, Debuter(t),
         pret' \in {pret, Len(taches) + 1}
  PROVE  /\ Appareil' /\ DOMAIN taches' = DOMAIN taches \cup {Len(taches) + 1} /\ Len(taches) + 1 \notin DOMAIN taches
         /\ taches'[Len(taches) + 1] = t /\ \A k \in DOMAIN taches : taches'[k] = taches[k]
         /\ Len(taches') = Len(taches) + 1
  <1> DEFINE n == Len(taches) + 1
  <1>0. taches \in Seq(Coroutines) /\ pret \in DOMAIN taches
    BY DEF Appareil
  <1>1. taches' = Append(taches, t)
    BY DEF Debuter
  <1>2. DOMAIN taches = 1..Len(taches) /\ Len(taches) \in Nat
    BY <1>0, LenProperties
  <1>3. /\ taches' \in Seq(Coroutines) /\ Len(taches') = n /\ taches'[n] = t
        /\ \A i \in 1..Len(taches) : taches'[i] = taches[i]
    BY <1>0, <1>1, AppendProperties
  <1>4. DOMAIN taches' = 1..n
    BY <1>3, LenProperties
  <1>5. DOMAIN taches' = DOMAIN taches \cup {n} /\ n \notin DOMAIN taches
    BY <1>2, <1>4
  <1>6. Vus' = Vus /\ Queues' = Queues /\ Coroutines' = Coroutines /\ UNCHANGED <<ident, disque>>
    BY Montage DEF Vus, stockage
  <1>7. \A k \in DOMAIN taches' : Ids(taches'[k].evts) \subseteq Vus
    <2> SUFFICES ASSUME NEW k \in DOMAIN taches' PROVE Ids(taches'[k].evts) \subseteq Vus
      OBVIOUS
    <2>1. CASE k = n
      BY <1>3, <2>1
    <2>2. CASE k # n
      <3>1. k \in DOMAIN taches
        BY <1>5, <2>2
      <3>2. taches'[k] = taches[k]
        BY <1>2, <1>3, <3>1
      <3> QED BY <3>1, <3>2 DEF Appareil
    <2> QED BY <2>1, <2>2
  <1>8. pret' \in DOMAIN taches'
    BY <1>0, <1>5
  <1>9. Appareil'
    BY <1>3, <1>6, <1>7, <1>8 DEF Appareil, Ids
  <1> QED BY <1>2, <1>3, <1>5, <1>9

\* A coroutine takes a step.
LEMMA Passage ==
  ASSUME Appareil, UNCHANGED <<montage, suivant, pret>>, NEW k \in DOMAIN taches,
         NEW t \in Coroutines, Ids(t.evts) = {}, Passer(k, t),
         ident' \in [epoque : Nat, v : Nat], disque' \in [epoque : Nat, evts : Queues], Ids(disque'.evts) \subseteq Vus
  PROVE  /\ Appareil' /\ DOMAIN taches' = DOMAIN taches
         /\ taches'[k] = t /\ \A l \in DOMAIN taches : l # k => taches'[l] = taches[l]
  <1>0. taches \in Seq(Coroutines) /\ pret \in DOMAIN taches
    BY DEF Appareil
  <1>1. taches' = [taches EXCEPT ![k] = t]
    BY DEF Passer
  <1>2. taches' \in Seq(Coroutines)
    BY <1>0, <1>1, ExceptSeq
  <1>3. DOMAIN taches' = DOMAIN taches /\ taches'[k] = t /\ \A l \in DOMAIN taches : l # k => taches'[l] = taches[l]
    BY <1>1
  <1>4. Vus' = Vus /\ Queues' = Queues /\ Coroutines' = Coroutines
    BY Montage DEF Vus
  <1>5. \A l \in DOMAIN taches' : Ids(taches'[l].evts) \subseteq Vus
    BY <1>3 DEF Appareil
  <1>6. Appareil'
    BY <1>0, <1>2, <1>3, <1>4, <1>5 DEF Appareil, Ids
  <1> QED BY <1>3, <1>6

LEMMA FermerFenetrePas == ASSUME IInv, FermerFenetre PROVE IInv'
  <1>1. /\ fenetre' = Aucune /\ UNCHANGED <<etat, epoque, memoire, flush, recul, visiteur, taches, pret, stockage, perimes, recus>>
        /\ UNCHANGED <<montage, suivant, revocations, gen, oublies, restait, vies>>
    BY DEF FermerFenetre, gate, histoire
  <1>2. UNCHANGED <<file, refusees, ident>> /\ Racines' = Racines /\ N' = N /\ Evts' = Evts /\ Vus' = Vus
    BY <1>1, Montage DEF memoire, stockage, Vus
  <1>3. Cadre'
    BY <1>1, <1>2 DEF IInv, Cadre, Aucune
  <1>4. EnTete' /\ Contenu' /\ EnVol' /\ Appareil'
    BY <1>1, EnTeteReste, ContenuReste, EnVolReste, AppareilReste DEF IInv
  <1>5. SansReprise' /\ Horloge' /\ Rattrapage'
    BY <1>1, <1>2 DEF IInv, SansReprise, Horloge, Rattrapage, Prudent
  <1>6. Bail'
    BY <1>1, <1>2, PrudentReste, BailReste DEF IInv
  <1>7. Attaches'
    <2>2. fenetre'.r = 0 /\ MaxLot' = MaxLot /\ MaxFile' = MaxFile
      BY <1>1, Montage DEF Aucune
    <2> QED BY <1>1, <1>2, <2>2, PrudentReste DEF IInv, Attaches, Tenue, Paires, Ids
  <1> QED BY <1>3, <1>4, <1>5, <1>6, <1>7 DEF IInv

LEMMA VieillirPas == ASSUME IInv, NEW e \in Evts, Vieillir(e) PROVE IInv'
  <1>1. /\ perimes' = perimes \cup {e} /\ e \in montage.perissables /\ e < suivant
        /\ UNCHANGED <<etat, epoque, memoire, fenetre, flush, recul, visiteur, taches, pret, stockage, recus>>
        /\ UNCHANGED <<montage, suivant, revocations, gen, oublies, restait, vies>>
    BY DEF Vieillir, gate, histoire
  <1>2. UNCHANGED <<file, refusees, ident>> /\ Racines' = Racines /\ N' = N /\ Evts' = Evts /\ Vus' = Vus
    BY <1>1, Montage DEF memoire, stockage, Vus
  <1>3. Cadre'
    <2>1. e \in Vus
      <3>1. N \in Nat /\ Evts = 1..N /\ suivant \in Nat
        BY Constantes DEF IInv, Cadre
      <3> QED BY <1>1, <3>1 DEF Vus
    <2> QED BY <1>1, <1>2, <2>1 DEF IInv, Cadre
  <1>4. EnTete' /\ Contenu' /\ EnVol' /\ Appareil'
    BY <1>1, EnTeteReste, ContenuReste, EnVolReste, AppareilReste DEF IInv
  <1>5. SansReprise' /\ Horloge' /\ Rattrapage'
    BY <1>1, <1>2 DEF IInv, SansReprise, Horloge, Rattrapage, Prudent
  <1>6. Bail'
    BY <1>1, <1>2, PrudentReste, BailReste DEF IInv
  <1>7. Attaches'
    <2>1. MaxLot' = MaxLot /\ MaxFile' = MaxFile
      BY <1>1, Montage
    <2> QED BY <1>1, <1>2, <2>1, PrudentReste DEF IInv, Attaches, Tenue, Paires, Ids
  <1> QED BY <1>3, <1>4, <1>5, <1>6, <1>7 DEF IInv

LEMMA PatienterPas == ASSUME IInv, Patienter PROVE IInv'
  <1>1. /\ recul' = FALSE
        /\ UNCHANGED <<etat, epoque, memoire, fenetre, flush, visiteur, taches, pret, stockage, perimes, recus>>
        /\ UNCHANGED <<montage, suivant, revocations, gen, oublies, restait, vies>>
    BY DEF Patienter, gate, histoire
  <1>2. UNCHANGED <<file, refusees, ident>> /\ Racines' = Racines /\ N' = N /\ Evts' = Evts /\ Vus' = Vus
    BY <1>1, Montage DEF memoire, stockage, Vus
  <1>3. Cadre'
    BY <1>1, <1>2 DEF IInv, Cadre
  <1>4. EnTete' /\ Contenu' /\ EnVol' /\ Appareil'
    BY <1>1, EnTeteReste, ContenuReste, EnVolReste, AppareilReste DEF IInv
  <1>5. SansReprise' /\ Horloge' /\ Rattrapage'
    BY <1>1, <1>2 DEF IInv, SansReprise, Horloge, Rattrapage, Prudent
  <1>6. Bail' /\ Attaches'
    BY <1>1, <1>2, PrudentReste, BailReste, AttachesReste DEF IInv
  <1> QED BY <1>3, <1>4, <1>5, <1>6 DEF IInv

\* A flush that begins waits for the coroutine p.
LEMMA Appel ==
  ASSUME EnVol, UNCHANGED <<montage, suivant>>, montage \in Montages, NEW p, p \in DOMAIN taches',
         DOMAIN taches \subseteq DOMAIN taches', Appeler(p)
  PROVE  /\ EnVol'
         /\ flush.etape = "vol" => UNCHANGED flush
         /\ flush.etape # "vol" => flush'.etape # "vol"
         /\ flush'.etape = "attend" => (flush.etape = "attend" /\ flush'.attend = flush.attend) \/ flush'.attend = p
  <1>1. CASE flush.etape = "repos"
    <2>1. flush' = [etape |-> "attend", lot |-> <<>>, epoque |-> 0, plafond |-> MaxLot, attend |-> p]
      BY <1>1 DEF Appeler, Repos
    <2>2. MaxLot \in 1..MaxLot /\ MaxLot' = MaxLot
      BY Constantes, Montage
    <2> QED BY <1>1, <2>1, <2>2 DEF EnVol
  <1>2. CASE flush.etape # "repos"
    <2>1. flush' = flush
      BY <1>2 DEF Appeler
    <2> QED BY <2>1, EnVolReste
  <1> QED BY <1>1, <1>2

LEMMA DemarrerFlushPas == ASSUME IInv, DemarrerFlush PROVE IInv'
  <1>1. /\ Appeler(pret)
        /\ UNCHANGED <<etat, epoque, memoire, fenetre, recul, visiteur, taches, pret, stockage, perimes, recus>>
        /\ UNCHANGED <<montage, suivant, revocations, gen, oublies, restait, vies>>
    BY DEF DemarrerFlush, gate, histoire
  <1>2. UNCHANGED <<file, refusees, ident>> /\ Racines' = Racines /\ N' = N /\ Evts' = Evts /\ Vus' = Vus
    BY <1>1, Montage DEF memoire, stockage, Vus
  <1>3. Cadre'
    BY <1>1, <1>2 DEF IInv, Cadre
  <1>4. EnTete' /\ Contenu' /\ Appareil'
    BY <1>1, EnTeteReste, ContenuReste, AppareilReste DEF IInv
  <1>5. /\ EnVol'
        /\ flush.etape = "vol" => UNCHANGED flush
        /\ flush.etape # "vol" => flush'.etape # "vol"
        /\ flush'.etape = "attend" => (flush.etape = "attend" /\ flush'.attend = flush.attend) \/ flush'.attend = pret
    <2>1. pret \in DOMAIN taches' /\ montage \in Montages /\ EnVol
      BY <1>1 DEF IInv, Cadre, Appareil
    <2> QED BY <1>1, <2>1, Appel
  <1>6. SansReprise' /\ Horloge' /\ Rattrapage'
    BY <1>1, <1>2, <1>5 DEF IInv, SansReprise, Horloge, Rattrapage, Prudent
  <1>7. Bail' /\ Attaches'
    BY <1>1, <1>2, <1>5, PrudentReste, BailReste, AttachesReste DEF IInv
  <1> QED BY <1>3, <1>4, <1>5, <1>6, <1>7 DEF IInv

\* What the device holds after a write of what has been collected.
LEMMA Ecrit ==
  ASSUME Appareil, NEW e \in Nat, NEW f \in Queues, Ids(f) \subseteq Vus, Ecrire(e, f)
  PROVE  disque' \in [epoque : Nat, evts : Queues] /\ Ids(disque'.evts) \subseteq Vus
  <1>1. <<>> \in Queues /\ Ids(<<>>) = {}
    BY EmptySeq, Queue DEF Queues
  <1>2. disque' \in {disque, PasDeFile, [epoque |-> e, evts |-> f]}
    BY DEF Ecrire, Ecriture
  <1> QED BY <1>1, <1>2 DEF Appareil, PasDeFile

LEMMA FinirSauvegardePas == ASSUME IInv, FinirSauvegarde PROVE IInv'
  <1>1. /\ flush.etape = "sauve" /\ Ecrire(flush.epoque, flush.lot) /\ flush' = Repos
        /\ UNCHANGED <<etat, epoque, memoire, fenetre, recul, visiteur, taches, pret, ident, perimes, recus>>
        /\ UNCHANGED <<montage, suivant, revocations, gen, oublies, restait, vies>>
    BY DEF FinirSauvegarde, gate, histoire
  <1>2. /\ UNCHANGED <<file, refusees>> /\ Racines' = Racines /\ N' = N /\ Evts' = Evts /\ Vus' = Vus
        /\ Queues' = Queues /\ Coroutines' = Coroutines /\ MaxLot' = MaxLot
    BY <1>1, Montage DEF memoire, Vus
  <1>3. Cadre'
    BY <1>1, <1>2 DEF IInv, Cadre
  <1>4. EnTete' /\ Contenu'
    BY <1>1, EnTeteReste, ContenuReste DEF IInv
  <1>5. Appareil'
    <2>1. disque' \in [epoque : Nat, evts : Queues] /\ Ids(disque'.evts) \subseteq Vus
      BY <1>1, Ecrit DEF IInv, EnVol
    <2> QED BY <1>1, <1>2, <2>1 DEF IInv, Appareil, Ids
  <1>6. flush' = [etape |-> "repos", lot |-> <<>>, epoque |-> 0, plafond |-> MaxLot, attend |-> 0]
    BY <1>1 DEF Repos
  <1>7. EnVol'
    <2>1. MaxLot \in 1..MaxLot
      BY Constantes DEF IInv, Cadre
    <2> QED BY <1>2, <1>6, <2>1 DEF EnVol
  <1>8. SansReprise' /\ Horloge' /\ Rattrapage'
    BY <1>1, <1>2, <1>6 DEF IInv, SansReprise, Horloge, Rattrapage, Prudent
  <1>9. Bail' /\ Attaches'
    BY <1>1, <1>2, <1>6, PrudentReste, BailReste, AttachesReste DEF IInv
  <1> QED BY <1>3, <1>4, <1>5, <1>7, <1>8, <1>9 DEF IInv

LEMMA ConsentirPas == ASSUME IInv, Consentir PROVE IInv'
  <1> DEFINE t == Tache("bootId", 0)
             n == Len(taches) + 1
  <1>1. /\ etat' = "granted" /\ Debuter(t) /\ pret' = n /\ Appeler(pret')
        /\ UNCHANGED <<epoque, memoire, fenetre, recul, visiteur, stockage, perimes, recus>>
        /\ UNCHANGED <<montage, suivant, revocations, gen, oublies, restait, vies>>
    BY DEF Consentir, histoire
  <1>2. UNCHANGED <<file, refusees, ident>> /\ Racines' = Racines /\ N' = N /\ Evts' = Evts /\ Vus' = Vus
    BY <1>1, Montage DEF memoire, stockage, Vus
  <1>3. t \in Coroutines /\ t.pas = "bootId" /\ t.epoque = 0 /\ Ids(t.evts) = {}
    BY Taches DEF Pas
  <1> HIDE DEF t
  <1>4. /\ Appareil' /\ DOMAIN taches' = DOMAIN taches \cup {n} /\ n \notin DOMAIN taches
        /\ taches'[n] = t /\ \A k \in DOMAIN taches : taches'[k] = taches[k]
    <2>1. Appareil /\ Ids(t.evts) \subseteq Vus /\ pret' \in {pret, Len(taches) + 1}
      BY <1>1, <1>3 DEF IInv
    <2> QED BY <1>1, <1>3, <2>1, Debut
  <1> HIDE DEF n
  <1>5. Cadre'
    BY <1>1, <1>2 DEF IInv, Cadre
  <1>6. EnTete' /\ Contenu'
    BY <1>1, EnTeteReste, ContenuReste DEF IInv
  <1>7. /\ EnVol'
        /\ flush.etape = "vol" => UNCHANGED flush
        /\ flush.etape # "vol" => flush'.etape # "vol"
        /\ flush'.etape = "attend" => (flush.etape = "attend" /\ flush'.attend = flush.attend) \/ flush'.attend = n
    <2>1. n \in DOMAIN taches' /\ montage \in Montages /\ EnVol /\ DOMAIN taches \subseteq DOMAIN taches'
      BY <1>4 DEF IInv, Cadre
    <2>2. Appeler(n)
      BY <1>1
    <2> QED BY <1>1, <2>1, <2>2, Appel
  <1>8. SansReprise'
    BY <1>1, <1>3, <1>4 DEF IInv, SansReprise
  <1>9. Horloge'
    <2>1. 0 <= epoque
      BY DEF IInv, Cadre
    <2> QED BY <1>1, <1>3, <1>4, <1>7, <2>1 DEF IInv, Horloge
  <1>10. Rattrapage'
    <2>1. flush.etape = "attend" => flush.attend \in DOMAIN taches
      BY DEF IInv, EnVol
    <2> QED BY <1>1, <1>2, <1>3, <1>4, <1>7, <2>1 DEF IInv, Rattrapage, Prudent, Ouvert
  <1>11. Bail' /\ Attaches'
    BY <1>1, <1>2, <1>7, PrudentReste, BailReste, AttachesReste DEF IInv
  <1> QED BY <1>4, <1>5, <1>6, <1>7, <1>8, <1>9, <1>10, <1>11 DEF IInv

LEMMA ArrierePlanPas == ASSUME IInv, ArrierePlan PROVE IInv'
  <1> DEFINE t == [Tache("sauve", epoque) EXCEPT !.evts = file]
             n == Len(taches) + 1
  <1>1. /\ Debuter(t)
        /\ UNCHANGED <<etat, epoque, memoire, fenetre, flush, recul, visiteur, pret, stockage, perimes, recus>>
        /\ UNCHANGED <<montage, suivant, revocations, gen, oublies, restait, vies>>
    BY DEF ArrierePlan, gate, histoire
  <1>2. UNCHANGED <<file, refusees, ident>> /\ Racines' = Racines /\ N' = N /\ Evts' = Evts /\ Vus' = Vus
    BY <1>1, Montage DEF memoire, stockage, Vus
  <1>3. t \in Coroutines /\ t.pas = "sauve" /\ t.epoque = epoque /\ Ids(t.evts) \subseteq Vus
    <2>1. file \in Queues /\ Ids(file) \subseteq Vus /\ epoque \in Nat
      BY DEF IInv, EnTete, M, Memoires, Cadre
    <2> QED BY <2>1, Taches DEF Pas
  <1> HIDE DEF t
  <1>4. /\ Appareil' /\ DOMAIN taches' = DOMAIN taches \cup {n} /\ n \notin DOMAIN taches
        /\ taches'[n] = t /\ \A k \in DOMAIN taches : taches'[k] = taches[k]
    <2>1. Appareil /\ pret' \in {pret, Len(taches) + 1}
      BY <1>1 DEF IInv
    <2> QED BY <1>1, <1>3, <2>1, Debut
  <1> HIDE DEF n
  <1>5. Cadre'
    BY <1>1, <1>2 DEF IInv, Cadre
  <1>6. EnTete' /\ Contenu' /\ EnVol'
    BY <1>1, <1>4, EnTeteReste, ContenuReste, EnVolReste DEF IInv
  <1>7. SansReprise'
    BY <1>1, <1>3, <1>4 DEF IInv, SansReprise
  <1>8. Horloge'
    <2>1. epoque <= epoque
      BY DEF IInv, Cadre
    <2> QED BY <1>1, <1>3, <1>4, <2>1 DEF IInv, Horloge
  <1>9. Rattrapage'
    <2>1. pret \in DOMAIN taches /\ (flush.etape = "attend" => flush.attend \in DOMAIN taches)
      BY DEF IInv, EnVol, Appareil
    <2> QED BY <1>1, <1>2, <1>4, <2>1 DEF IInv, Rattrapage, Prudent
  <1>10. Bail' /\ Attaches'
    BY <1>1, <1>2, PrudentReste, BailReste, AttachesReste DEF IInv
  <1> QED BY <1>4, <1>5, <1>6, <1>7, <1>8, <1>9, <1>10 DEF IInv

LEMMA RefuserPas == ASSUME IInv, Refuser PROVE IInv'
  <1> DEFINE t == Tache("refusFile", epoque + 1)
             n == Len(taches) + 1
             x == Purger(M)
  <1>1. /\ etat' = "denied" /\ Memoire(x) /\ fenetre' = Aucune /\ recul' = FALSE /\ visiteur' = 0
        /\ UNCHANGED <<montage, flush, stockage, perimes, suivant, gen, recus, oublies, restait, vies>>
    BY DEF Refuser
  <1>2. \/ /\ etat # "denied" /\ epoque' = epoque + 1 /\ revocations' = revocations + 1
           /\ Debuter(t) /\ pret' = Len(taches')
        \/ etat = "denied" /\ UNCHANGED <<epoque, revocations, taches, pret>>
    BY DEF Refuser
  <1>3. UNCHANGED <<ident>> /\ Racines' = Racines /\ N' = N /\ Evts' = Evts /\ Vus' = Vus /\ MaxLot' = MaxLot
    BY <1>1, Montage DEF stockage, Vus
  <1>4. M \in Memoires /\ M.file = file /\ M.perdus = perdus /\ M.contretemps = contretemps /\ epoque \in Nat \ {0}
        /\ Appareil /\ Ids(file) \subseteq Evts /\ Ids(file) \subseteq Vus
    <2>1. M \in Memoires /\ M.file = file /\ M.perdus = perdus /\ M.contretemps = contretemps
      BY DEF IInv, EnTete, M
    <2>2. file \in Queues
      BY <2>1 DEF Memoires
    <2> QED BY <2>1, <2>2, Queue DEF IInv, EnTete, Cadre
  <1>5. /\ x \in Memoires /\ x.file = <<>> /\ x.refusees = {} /\ x.perdus = perdus \cup Ids(file)
        /\ x.contretemps = contretemps
    <2>1. <<>> \in Queues
      BY EmptySeq DEF Queues
    <2> QED BY <1>4, <2>1 DEF Purger, Memoires
  <1> HIDE DEF x
  <1>6. /\ M' \in Memoires' /\ file' = <<>> /\ refusees' = {} /\ perdus' = perdus \cup Ids(file)
        /\ contretemps' = contretemps
    BY <1>1, <1>5, Depot
  <1>7. Ids(<<>>) = {} /\ Prises(<<>>) = {} /\ Paires(<<>>) = {} /\ Loues(<<>>) = {} /\ Cardinality(Prises(<<>>)) = 0
    BY EmptySeq, FS_EmptySet DEF Ids, Prises, Paires, Loues
  <1>8. EnTete'
    BY <1>3, <1>4, <1>6, <1>7 DEF IInv, EnTete
  <1>9. Contenu'
    <2>1. RienDeTu'
      BY <1>1, <1>6, <1>7 DEF IInv, Contenu, RienDeTu
    <2>2. EpoqueCourante'
      BY <1>6, EmptySeq DEF EpoqueCourante
    <2> QED BY <2>1, <2>2 DEF Contenu
  <1>10. Cadre'
    <2>1. epoque' \in Nat \ {0} /\ revocations' \in Nat
      BY <1>2 DEF IInv, Cadre
    <2> QED BY <1>1, <1>3, <2>1 DEF IInv, Cadre, Aucune
  <1>11. Bail'
    <2>1. 0 <= MaxLot
      BY Constantes DEF IInv, Cadre
    <2> QED BY <1>3, <1>6, <1>7, <2>1 DEF Bail
  <1>12. Attaches'
    <2>1. fenetre'.r = 0
      BY <1>1 DEF Aucune
    <2> QED BY <1>1, <1>6, <1>7, <2>1 DEF Attaches, Tenue
  <1>13. CASE etat = "denied" /\ UNCHANGED <<epoque, revocations, taches, pret>>
    <2>1. EnVol' /\ Appareil'
      BY <1>1, <1>13, EnVolReste, AppareilReste DEF IInv
    <2>2. SansReprise' /\ Horloge' /\ Rattrapage'
      BY <1>1, <1>3, <1>13 DEF IInv, SansReprise, Horloge, Rattrapage, Prudent
    <2> QED BY <1>8, <1>9, <1>10, <1>11, <1>12, <2>1, <2>2 DEF IInv
  <1>14. CASE /\ etat # "denied" /\ epoque' = epoque + 1 /\ revocations' = revocations + 1
              /\ Debuter(t) /\ pret' = Len(taches')
    <2>1. t \in Coroutines /\ t.pas = "refusFile" /\ t.epoque = epoque + 1 /\ Ids(t.evts) = {}
      <3>1. epoque + 1 \in Nat /\ "refusFile" \in Pas
        BY <1>4 DEF Pas
      <3> QED BY <3>1, Taches
    <2> HIDE DEF t
    <2>2. /\ Appareil' /\ DOMAIN taches' = DOMAIN taches \cup {n} /\ n \notin DOMAIN taches
          /\ taches'[n] = t /\ \A k \in DOMAIN taches : taches'[k] = taches[k]
          /\ pret' = n
      <3>1. pret' = n
        <4>1. taches' = Append(taches, t) /\ taches \in Seq(Coroutines)
          BY <1>4, <1>14 DEF Debuter, Appareil
        <4> QED BY <1>14, <2>1, <4>1, AppendProperties
      <3>2. pret' \in {pret, n} /\ Ids(t.evts) \subseteq Vus /\ Debuter(t)
        BY <1>14, <2>1, <3>1
      <3> QED BY <1>1, <1>4, <2>1, <3>1, <3>2, Debut
    <2> HIDE DEF n
    <2>3. EnVol'
      BY <1>1, <2>2, EnVolReste DEF IInv
    <2>4. SansReprise'
      BY <1>1, <2>1, <2>2 DEF IInv, SansReprise
    <2>5. Horloge'
      <3>1. \A k \in DOMAIN taches : taches[k].epoque \in Nat
        <4>1. taches \in Seq(Coroutines)
          BY <1>4 DEF Appareil
        <4>2. \A k \in DOMAIN taches : taches[k] \in Coroutines
          BY <4>1, ElementOfSeq, LenProperties
        <4> QED BY <4>2 DEF Coroutines
      <3>2. flush.epoque \in Nat
        BY DEF IInv, EnVol
      <3>3. \A k \in DOMAIN taches' : taches'[k].epoque <= epoque + 1
        <4> SUFFICES ASSUME NEW k \in DOMAIN taches' PROVE taches'[k].epoque <= epoque + 1
          OBVIOUS
        <4>1. CASE k = n
          BY <1>4, <2>1, <2>2, <4>1
        <4>2. CASE k # n
          <5>1. k \in DOMAIN taches /\ taches'[k] = taches[k] /\ taches[k].epoque <= epoque
            BY <2>2, <4>2 DEF IInv, Horloge
          <5> QED BY <1>4, <3>1, <5>1
        <4> QED BY <4>1, <4>2
      <3>4. flush.etape = "vol" => flush.epoque <= epoque + 1 /\ flush.epoque # epoque + 1
        BY <1>4, <3>2 DEF IInv, Horloge
      <3> QED BY <1>1, <1>14, <3>3, <3>4 DEF Horloge
    <2>6. Rattrapage'
      <3>1. ident.epoque \in Nat /\ (flush.etape = "attend" => flush.attend \in DOMAIN taches)
        BY DEF IInv, EnVol, Appareil
      <3>2. ident.epoque <= epoque => ident.epoque <= epoque + 1
        BY <1>4, <3>1
      <3>3. taches'[pret'].pas \in Ouvert
        <4>1. pret' = n /\ taches'[n] = t /\ t.pas \in Ouvert
          BY <2>1, <2>2 DEF Ouvert
        <4> QED BY <4>1, Zenon
      <3>4. flush.etape = "attend" => taches'[flush.attend] = taches[flush.attend]
        BY <2>2, <3>1
      <3>5. UNCHANGED <<vies, flush, montage, ident>> /\ epoque' = epoque + 1
        BY <1>1, <1>3, <1>14
      <3>6. Rattrapage
        BY DEF IInv
      <3> QED BY <3>2, <3>3, <3>4, <3>5, <3>6 DEF Rattrapage, Prudent
    <2> QED BY <1>8, <1>9, <1>10, <1>11, <1>12, <2>2, <2>3, <2>4, <2>5, <2>6 DEF IInv
  <1> QED BY <1>2, <1>13, <1>14

LEMMA Fil ==
  ASSUME Appareil, NEW k \in DOMAIN taches
  PROVE  /\ taches[k].epoque \in Nat /\ taches[k].v \in Nat /\ taches[k].evts \in Queues /\ taches[k].pas \in Pas
         /\ Ids(taches[k].evts) \subseteq Vus
  <1>1. taches \in Seq(Coroutines)
    BY DEF Appareil
  <1>2. taches[k] \in Coroutines
    BY <1>1, ElementOfSeq, LenProperties
  <1> QED BY <1>2 DEF Coroutines, Appareil

LEMMA Suites ==
  ASSUME NEW e \in Nat
  PROVE  /\ Ensuite(e) \in Coroutines /\ Ensuite(e).epoque \in {0, e} /\ Ids(Ensuite(e).evts) = {}
         /\ Ensuite(e).pas = "bootFile" => montage.persistant
  <1>1. CASE montage.persistant
    BY <1>1, Taches DEF Ensuite, Pas
  <1>2. CASE ~montage.persistant
    BY <1>2, FinieFaits DEF Ensuite
  <1> QED BY <1>1, <1>2

LEMMA BootIdPas ==
  ASSUME IInv, NEW k \in DOMAIN taches, NEW lu, BootId(k, lu),
         lu \in {ident} \cup (IF montage.lectureFragile THEN {PasDIdent} ELSE {})
  PROVE  IInv'
  <1>1. /\ epoque' = IF lu.epoque > epoque THEN lu.epoque ELSE epoque
        /\ UNCHANGED <<etat, memoire, fenetre, flush, recul, pret, stockage, perimes, recus>>
        /\ UNCHANGED <<montage, suivant, revocations, gen, oublies, restait, vies>>
    BY DEF BootId, histoire
  <1>2. \/ visiteur' = 0 /\ Passer(k, Finie)
        \/ visiteur' = lu.v /\ Passer(k, Ensuite(epoque'))
        \/ visiteur' = visiteur /\ Passer(k, [Tache("bootEcrit", epoque') EXCEPT !.v = revocations + 1])
    <2>1. etat = "granted" \/ etat # "granted"
      OBVIOUS
    <2>2. lu.v = 0 \/ lu.v # 0
      OBVIOUS
    <2> QED BY <2>1, <2>2 DEF BootId
  <1>3. UNCHANGED <<file, refusees, ident, disque>> /\ Racines' = Racines /\ N' = N /\ Evts' = Evts /\ Vus' = Vus
    BY <1>1, Montage DEF memoire, stockage, Vus
  <1>4. ident \in [epoque : Nat, v : Nat] /\ epoque \in Nat \ {0} /\ revocations \in Nat /\ visiteur \in Nat
        /\ Appareil /\ disque \in [epoque : Nat, evts : Queues] /\ Ids(disque.evts) \subseteq Vus
    BY DEF IInv, Appareil, Cadre
  <1>5. lu.epoque \in Nat /\ lu.v \in Nat /\ (lu = ident \/ (montage.lectureFragile /\ lu.epoque = 0))
    BY <1>4 DEF PasDIdent
  <1>6. epoque' \in Nat \ {0} /\ epoque <= epoque' /\ lu.epoque <= epoque' /\ (lu.epoque <= epoque => epoque' = epoque)
    BY <1>1, <1>4, <1>5
  <1>7. PICK t \in Coroutines : /\ Passer(k, t) /\ t.epoque \in {0, epoque'} /\ Ids(t.evts) = {}
                                /\ t.pas = "bootFile" => montage.persistant
    <2>1. CASE Passer(k, Finie)
      <3>1. Finie.pas # "bootFile"
        BY FinieFaits
      <3> QED BY <2>1, <3>1, FinieFaits
    <2>2. CASE Passer(k, Ensuite(epoque'))
      <3>1. epoque' \in Nat
        BY <1>6
      <3> DEFINE s == Ensuite(epoque')
      <3>2. /\ s \in Coroutines /\ s.epoque \in {0, epoque'} /\ Ids(s.evts) = {}
            /\ s.pas = "bootFile" => montage.persistant
        BY <3>1, Suites
      <3> QED BY <2>2, <3>2
    <2>3. CASE Passer(k, [Tache("bootEcrit", epoque') EXCEPT !.v = revocations + 1])
      <3> DEFINE s == [Tache("bootEcrit", epoque') EXCEPT !.v = revocations + 1]
      <3>1. epoque' \in Nat /\ "bootEcrit" \in Pas /\ revocations + 1 \in Nat
        BY <1>4, <1>6 DEF Pas
      <3>2. s \in Coroutines /\ s.pas = "bootEcrit" /\ s.epoque = epoque' /\ s.evts = <<>>
        BY <3>1, Taches
      <3>3. Ids(<<>>) = {}
        BY EmptySeq, Queue DEF Queues
      <3> HIDE DEF s
      <3> QED BY <2>3, <3>2, <3>3 DEF s
    <2> QED BY <1>2, <2>1, <2>2, <2>3
  <1>8. /\ Appareil' /\ DOMAIN taches' = DOMAIN taches
        /\ taches'[k] = t /\ \A l \in DOMAIN taches : l # k => taches'[l] = taches[l]
    BY <1>1, <1>3, <1>4, <1>7, Passage
  <1>9. Cadre'
    <2>1. visiteur' \in Nat
      BY <1>2, <1>4, <1>5
    <2> QED BY <1>1, <1>3, <1>6, <2>1 DEF IInv, Cadre
  <1>10. EnTete' /\ Contenu' /\ EnVol'
    BY <1>1, <1>8, EnTeteReste, ContenuReste, EnVolReste DEF IInv
  <1>11. SansReprise'
    BY <1>1, <1>7, <1>8 DEF IInv, SansReprise
  <1>12. Horloge'
    <2>1. \A l \in DOMAIN taches' : taches'[l].epoque <= epoque'
      <3> SUFFICES ASSUME NEW l \in DOMAIN taches' PROVE taches'[l].epoque <= epoque'
        OBVIOUS
      <3>1. CASE l = k
        BY <1>6, <1>7, <1>8, <3>1
      <3>2. CASE l # k
        <4>1. taches'[l] = taches[l] /\ taches[l].epoque \in Nat /\ taches[l].epoque <= epoque
          BY <1>4, <1>8, <3>2, Fil DEF IInv, Horloge
        <4> QED BY <1>4, <1>6, <4>1
      <3> QED BY <3>1, <3>2
    <2>2. flush.epoque \in Nat
      BY DEF IInv, EnVol
    <2>3. flush.etape = "vol" => flush.epoque <= epoque' /\ (flush.epoque = epoque' => flush.epoque = epoque)
      BY <1>4, <1>6, <2>2 DEF IInv, Horloge
    <2> QED BY <1>1, <2>1, <2>3 DEF IInv, Horloge
  <1>13. Prudent /\ flush.etape = "vol" => epoque' = epoque
    <2> SUFFICES ASSUME Prudent, flush.etape = "vol" PROVE epoque' = epoque
      OBVIOUS
    <2>1. ident.epoque <= epoque
      BY DEF IInv, Rattrapage
    <2>2. lu.epoque <= epoque
      BY <1>4, <1>5, <2>1
    <2> QED BY <1>6, <2>2
  <1>14. Rattrapage'
    <2> SUFFICES ASSUME Prudent PROVE ident.epoque <= epoque'
      BY <1>1, <1>3 DEF Rattrapage, Prudent
    <2>1. CASE ident.epoque <= epoque
      BY <1>4, <1>6, <2>1
    <2>2. CASE ~(ident.epoque <= epoque)
      <3>1. ~montage.lectureFragile
        BY <2>2 DEF IInv, Rattrapage, Prudent
      <3> QED BY <1>5, <1>6, <3>1
    <2> QED BY <2>1, <2>2
  <1>15. Bail'
    <2>1. MaxLot' = MaxLot /\ (Prudent' => Prudent)
      BY <1>1, Montage DEF Prudent
    <2> QED BY <1>1, <1>3, <1>13, <2>1 DEF IInv, Bail, Loues, Prises
  <1>16. Attaches'
    BY <1>1, <1>3, PrudentReste, AttachesReste DEF IInv
  <1> QED BY <1>8, <1>9, <1>10, <1>11, <1>12, <1>14, <1>15, <1>16 DEF IInv

LEMMA BootEcritPas == ASSUME IInv, NEW k \in DOMAIN taches, BootEcrit(k) PROVE IInv'
  <1> DEFINE t == Ensuite(epoque)
             nouveau == [epoque |-> taches[k].epoque, v |-> taches[k].v]
  <1>1. /\ taches[k].pas = "bootEcrit" /\ ident' \in {ident, nouveau} /\ visiteur' = taches[k].v /\ Passer(k, t)
        /\ UNCHANGED <<etat, epoque, memoire, fenetre, flush, recul, pret, disque, perimes, recus>>
        /\ UNCHANGED <<montage, suivant, revocations, gen, oublies, restait, vies>>
    BY DEF BootEcrit, histoire, gate, Ecriture
  <1>2. UNCHANGED <<file, refusees>> /\ Racines' = Racines /\ N' = N /\ Evts' = Evts /\ Vus' = Vus
    BY <1>1, Montage DEF memoire, Vus
  <1>3. epoque \in Nat /\ Appareil /\ disque \in [epoque : Nat, evts : Queues] /\ Ids(disque.evts) \subseteq Vus
        /\ ident \in [epoque : Nat, v : Nat] /\ taches[k].epoque \in Nat /\ taches[k].v \in Nat
    BY Fil DEF IInv, Appareil, Cadre
  <1>4. /\ t \in Coroutines /\ t.epoque \in {0, epoque} /\ Ids(t.evts) = {}
        /\ t.pas = "bootFile" => montage.persistant
    BY <1>3, Suites
  <1> HIDE DEF t
  <1>5. ident' \in [epoque : Nat, v : Nat] /\ (ident' = ident \/ ident'.epoque <= epoque)
    BY <1>1, <1>3 DEF IInv, Horloge
  <1>6. /\ Appareil' /\ DOMAIN taches' = DOMAIN taches
        /\ taches'[k] = t /\ \A l \in DOMAIN taches : l # k => taches'[l] = taches[l]
    <2>1. disque' \in [epoque : Nat, evts : Queues] /\ Ids(disque'.evts) \subseteq Vus
      BY <1>1, <1>3
    <2> QED BY <1>1, <1>3, <1>4, <1>5, <2>1, Passage
  <1>7. Cadre'
    BY <1>1, <1>2, <1>3 DEF IInv, Cadre
  <1>8. EnTete' /\ Contenu' /\ EnVol'
    BY <1>1, <1>6, EnTeteReste, ContenuReste, EnVolReste DEF IInv
  <1>9. SansReprise'
    BY <1>1, <1>4, <1>6 DEF IInv, SansReprise
  <1>10. Horloge'
    <2>1. 0 <= epoque /\ epoque <= epoque
      BY <1>3
    <2> QED BY <1>1, <1>4, <1>6, <2>1 DEF IInv, Horloge
  <1>11. Rattrapage'
    <2>1. taches[k].pas \notin Ouvert /\ pret \in DOMAIN taches /\ (flush.etape = "attend" => flush.attend \in DOMAIN taches)
      BY <1>1 DEF Ouvert, IInv, EnVol, Appareil
    <2>2. UNCHANGED <<vies, montage, flush, pret, epoque>>
      BY <1>1
    <2> QED BY <1>5, <1>6, <2>1, <2>2 DEF IInv, Rattrapage, Prudent
  <1>12. Bail' /\ Attaches'
    BY <1>1, <1>2, PrudentReste, BailReste, AttachesReste DEF IInv
  <1> QED BY <1>6, <1>7, <1>8, <1>9, <1>10, <1>11, <1>12 DEF IInv

LEMMA EffacerPas == ASSUME IInv, NEW k \in DOMAIN taches, Effacer(k) PROVE IInv'
  <1> DEFINE s == Tache("refusIdent", taches[k].epoque)
  <1>1. /\ taches[k].pas \in {"bootEfface", "refusFile"} /\ disque' \in {disque, PasDeFile}
        /\ \/ taches[k].pas = "bootEfface" /\ Passer(k, Finie)
           \/ taches[k].pas = "refusFile" /\ Passer(k, s)
        /\ UNCHANGED <<etat, epoque, memoire, fenetre, flush, recul, visiteur, pret, ident, perimes, recus>>
        /\ UNCHANGED <<montage, suivant, revocations, gen, oublies, restait, vies>>
    BY DEF Effacer, histoire, gate, Ecriture
  <1>2. UNCHANGED <<file, refusees>> /\ Racines' = Racines /\ N' = N /\ Evts' = Evts /\ Vus' = Vus
    BY <1>1, Montage DEF memoire, Vus
  <1>3. epoque \in Nat /\ Appareil /\ disque \in [epoque : Nat, evts : Queues] /\ Ids(disque.evts) \subseteq Vus
        /\ ident \in [epoque : Nat, v : Nat] /\ taches[k].epoque \in Nat /\ taches[k].epoque <= epoque
    BY Fil DEF IInv, Appareil, Cadre, Horloge
  <1>4. PICK t \in Coroutines : /\ Passer(k, t) /\ t.epoque <= epoque /\ Ids(t.evts) = {}
                                /\ t.pas # "bootFile"
                                /\ taches[k].pas \in Ouvert => t.pas \in Ouvert
    <2>1. CASE taches[k].pas = "bootEfface" /\ Passer(k, Finie)
      <3>1. Finie.pas # "bootFile" /\ Finie.epoque <= epoque
        BY <1>3, FinieFaits
      <3> QED BY <2>1, <3>1, FinieFaits DEF Ouvert
    <2>2. CASE taches[k].pas = "refusFile" /\ Passer(k, s)
      <3>1. s \in Coroutines /\ s.pas = "refusIdent" /\ s.epoque = taches[k].epoque /\ Ids(s.evts) = {}
        <4> DEFINE e == taches[k].epoque
                   r == Tache("refusIdent", e)
        <4>1. "refusIdent" \in Pas /\ e \in Nat
          BY <1>3 DEF Pas
        <4> HIDE DEF e
        <4>2. r \in Coroutines /\ r.pas = "refusIdent" /\ r.epoque = e /\ Ids(r.evts) = {}
          BY <4>1, Taches
        <4> QED BY <4>2 DEF e
      <3> HIDE DEF s
      <3>2. s.pas \in Ouvert /\ s.pas # "bootFile" /\ s.epoque <= epoque
        BY <1>3, <3>1 DEF Ouvert
      <3> QED BY <2>2, <3>1, <3>2
    <2> QED BY <1>1, <2>1, <2>2
  <1>5. disque' \in [epoque : Nat, evts : Queues] /\ Ids(disque'.evts) \subseteq Vus
    <2>1. <<>> \in Queues /\ Ids(<<>>) = {}
      BY EmptySeq, Queue DEF Queues
    <2> QED BY <1>1, <1>3, <2>1 DEF PasDeFile
  <1>6. /\ Appareil' /\ DOMAIN taches' = DOMAIN taches
        /\ taches'[k] = t /\ \A l \in DOMAIN taches : l # k => taches'[l] = taches[l]
    <2>1. ident' \in [epoque : Nat, v : Nat]
      BY <1>1, <1>3
    <2> QED BY <1>1, <1>3, <1>4, <1>5, <2>1, Passage
  <1>7. Cadre'
    BY <1>1, <1>2, <1>3 DEF IInv, Cadre
  <1>8. EnTete' /\ Contenu' /\ EnVol'
    BY <1>1, <1>6, EnTeteReste, ContenuReste, EnVolReste DEF IInv
  <1>9. SansReprise'
    BY <1>1, <1>4, <1>6 DEF IInv, SansReprise
  <1>10. Horloge'
    BY <1>1, <1>4, <1>6 DEF IInv, Horloge
  <1>11. Rattrapage'
    <2>1. pret \in DOMAIN taches /\ (flush.etape = "attend" => flush.attend \in DOMAIN taches)
      BY DEF IInv, EnVol, Appareil
    <2>2. UNCHANGED <<vies, montage, flush, pret, epoque, ident>>
      BY <1>1
    <2>3. \A l \in DOMAIN taches : taches[l].pas \in Ouvert => taches'[l].pas \in Ouvert
      BY <1>4, <1>6
    <2> QED BY <2>1, <2>2, <2>3 DEF IInv, Rattrapage, Prudent
  <1>12. Bail' /\ Attaches'
    BY <1>1, <1>2, PrudentReste, BailReste, AttachesReste DEF IInv
  <1> QED BY <1>6, <1>7, <1>8, <1>9, <1>10, <1>11, <1>12 DEF IInv

LEMMA EcrireRefusPas == ASSUME IInv, NEW k \in DOMAIN taches, EcrireRefus(k) PROVE IInv'
  <1> DEFINE nouveau == [epoque |-> taches[k].epoque, v |-> 0]
  <1>1. /\ ident' \in {ident, nouveau} /\ Passer(k, Finie)
        /\ ~montage.ecritureFragile => ident' = nouveau
        /\ UNCHANGED <<etat, epoque, memoire, fenetre, flush, recul, visiteur, pret, disque, perimes, recus>>
        /\ UNCHANGED <<montage, suivant, revocations, gen, oublies, restait, vies>>
    BY DEF EcrireRefus, histoire, gate, Ecriture
  <1>2. UNCHANGED <<file, refusees>> /\ Racines' = Racines /\ N' = N /\ Evts' = Evts /\ Vus' = Vus
    BY <1>1, Montage DEF memoire, Vus
  <1>3. epoque \in Nat /\ Appareil /\ disque \in [epoque : Nat, evts : Queues] /\ Ids(disque.evts) \subseteq Vus
        /\ ident \in [epoque : Nat, v : Nat] /\ taches[k].epoque \in Nat /\ taches[k].epoque <= epoque
    BY Fil DEF IInv, Appareil, Cadre, Horloge
  <1>4. ident' \in [epoque : Nat, v : Nat] /\ (ident' = ident \/ ident'.epoque <= epoque)
        /\ (~montage.ecritureFragile => ident'.epoque <= epoque)
    BY <1>1, <1>3
  <1>5. /\ Appareil' /\ DOMAIN taches' = DOMAIN taches
        /\ taches'[k] = Finie /\ \A l \in DOMAIN taches : l # k => taches'[l] = taches[l]
    <2>1. disque' \in [epoque : Nat, evts : Queues] /\ Ids(disque'.evts) \subseteq Vus
      BY <1>1, <1>3
    <2> QED BY <1>1, <1>3, <1>4, <2>1, FinieFaits, Passage
  <1>6. Cadre'
    BY <1>1, <1>2, <1>3 DEF IInv, Cadre
  <1>7. EnTete' /\ Contenu' /\ EnVol'
    BY <1>1, <1>5, EnTeteReste, ContenuReste, EnVolReste DEF IInv
  <1>8. SansReprise'
    BY <1>1, <1>5, FinieFaits DEF IInv, SansReprise
  <1>9. Horloge'
    <2>1. 0 <= epoque
      BY <1>3
    <2> QED BY <1>1, <1>5, <2>1, FinieFaits DEF IInv, Horloge
  <1>10. Rattrapage'
    <2> SUFFICES ASSUME Prudent PROVE ident'.epoque <= epoque'
      BY <1>1 DEF Rattrapage, Prudent
    <2>1. CASE ~montage.ecritureFragile
      BY <1>1, <1>4, <2>1
    <2>2. CASE vies = 1
      BY <1>1, <1>4, <2>2 DEF IInv, Rattrapage
    <2> QED BY <2>1, <2>2 DEF Prudent
  <1>11. Bail' /\ Attaches'
    BY <1>1, <1>2, PrudentReste, BailReste, AttachesReste DEF IInv
  <1> QED BY <1>5, <1>6, <1>7, <1>8, <1>9, <1>10, <1>11 DEF IInv

LEMMA SauverPas == ASSUME IInv, NEW k \in DOMAIN taches, Sauver(k) PROVE IInv'
  <1>1. /\ taches[k].pas = "sauve" /\ Ecrire(taches[k].epoque, taches[k].evts) /\ Passer(k, Finie)
        /\ UNCHANGED <<etat, epoque, memoire, fenetre, flush, recul, visiteur, pret, ident, perimes, recus>>
        /\ UNCHANGED <<montage, suivant, revocations, gen, oublies, restait, vies>>
    BY DEF Sauver, histoire, gate
  <1>2. UNCHANGED <<file, refusees>> /\ Racines' = Racines /\ N' = N /\ Evts' = Evts /\ Vus' = Vus
    BY <1>1, Montage DEF memoire, Vus
  <1>3. epoque \in Nat /\ Appareil /\ ident \in [epoque : Nat, v : Nat]
    BY DEF IInv, Appareil, Cadre
  <1>4. disque' \in [epoque : Nat, evts : Queues] /\ Ids(disque'.evts) \subseteq Vus
    BY <1>1, <1>3, Fil, Ecrit
  <1>5. /\ Appareil' /\ DOMAIN taches' = DOMAIN taches
        /\ taches'[k] = Finie /\ \A l \in DOMAIN taches : l # k => taches'[l] = taches[l]
    <2>1. ident' \in [epoque : Nat, v : Nat]
      BY <1>1, <1>3
    <2> QED BY <1>1, <1>3, <1>4, <2>1, FinieFaits, Passage
  <1>6. Cadre'
    BY <1>1, <1>2, <1>3 DEF IInv, Cadre
  <1>7. EnTete' /\ Contenu' /\ EnVol'
    BY <1>1, <1>5, EnTeteReste, ContenuReste, EnVolReste DEF IInv
  <1>8. SansReprise'
    BY <1>1, <1>5, FinieFaits DEF IInv, SansReprise
  <1>9. Horloge'
    <2>1. 0 <= epoque
      BY <1>3
    <2> QED BY <1>1, <1>5, <2>1, FinieFaits DEF IInv, Horloge
  <1>10. Rattrapage'
    <2>1. taches[k].pas \notin Ouvert /\ pret \in DOMAIN taches /\ (flush.etape = "attend" => flush.attend \in DOMAIN taches)
      BY <1>1 DEF Ouvert, IInv, EnVol, Appareil
    <2>2. UNCHANGED <<vies, montage, flush, pret, epoque, ident>>
      BY <1>1
    <2> QED BY <1>5, <2>1, <2>2 DEF IInv, Rattrapage, Prudent
  <1>11. Bail' /\ Attaches'
    BY <1>1, <1>2, PrudentReste, BailReste, AttachesReste DEF IInv
  <1> QED BY <1>5, <1>6, <1>7, <1>8, <1>9, <1>10, <1>11 DEF IInv

LEMMA BootFilePas == ASSUME IInv, NEW k \in DOMAIN taches, BootFile(k) PROVE IInv'
  <1> DEFINE J == {i \in DOMAIN disque.evts : disque.evts[i].id \in perimes}
             evts == Sans(disque.evts, J)
             relus == [i \in DOMAIN evts |-> Entree(evts[i].id, evts[i].lien)]
             x == Restaurer(M, relus)
             s == Tache("bootEfface", 0)
  <1>1. /\ taches[k].pas = "bootFile"
        /\ \/ Passer(k, s) /\ UNCHANGED memoire
           \/ Memoire(x) /\ Passer(k, Finie)
        /\ UNCHANGED <<etat, epoque, fenetre, flush, recul, visiteur, pret, stockage, perimes, recus>>
        /\ UNCHANGED <<montage, suivant, revocations, gen, oublies, restait, vies>>
    BY DEF BootFile, histoire, gate
  <1>2. /\ UNCHANGED <<ident, disque>> /\ Racines' = Racines /\ N' = N /\ Evts' = Evts /\ Vus' = Vus
        /\ MaxLot' = MaxLot /\ MaxFile' = MaxFile
    BY <1>1, Montage DEF stockage, Vus
  <1>3. /\ epoque \in Nat /\ Appareil /\ disque.evts \in Queues /\ Ids(disque.evts) \subseteq Vus
        /\ disque \in [epoque : Nat, evts : Queues] /\ ident \in [epoque : Nat, v : Nat]
        /\ montage \in Montages /\ montage.persistant \in BOOLEAN /\ Vus \subseteq Evts
    <2>1. Vus \subseteq Evts /\ montage.persistant \in BOOLEAN
      BY Constantes DEF IInv, Cadre, Vus
    <2> QED BY <2>1 DEF IInv, Appareil, Cadre
  <1>4. M \in Memoires /\ M.file = file /\ M.perdus = perdus /\ M.contretemps = contretemps
        /\ file \in Queues /\ Ids(file) \subseteq Vus /\ perdus \subseteq Vus /\ contretemps \subseteq Vus
    <2>1. M \in Memoires /\ M.file = file /\ M.perdus = perdus /\ M.contretemps = contretemps
      BY DEF IInv, EnTete, M
    <2> QED BY <2>1 DEF Memoires, IInv, EnTete
  <1>5. montage.persistant
    BY <1>1, <1>3 DEF IInv, SansReprise
  <1>6. PICK t \in Coroutines : Passer(k, t) /\ t.epoque = 0 /\ Ids(t.evts) = {}
    <2>1. s \in Coroutines /\ s.epoque = 0 /\ Ids(s.evts) = {}
      BY Taches DEF Pas
    <2> HIDE DEF s
    <2> QED BY <1>1, <2>1, FinieFaits
  <1>7. /\ Appareil' /\ DOMAIN taches' = DOMAIN taches
        /\ taches'[k] = t /\ \A l \in DOMAIN taches : l # k => taches'[l] = taches[l]
    <2>1. ident' \in [epoque : Nat, v : Nat] /\ disque' \in [epoque : Nat, evts : Queues] /\ Ids(disque'.evts) \subseteq Vus
      BY <1>2, <1>3
    <2> QED BY <1>1, <1>3, <1>6, <2>1, Passage
  <1>8. Cadre'
    BY <1>1, <1>2 DEF IInv, Cadre
  <1>9. EnVol'
    BY <1>1, <1>7, EnVolReste DEF IInv
  <1>10. SansReprise'
    BY <1>1, <1>5 DEF SansReprise
  <1>11. Horloge'
    <2>1. 0 <= epoque
      BY <1>3
    <2> QED BY <1>1, <1>6, <1>7, <2>1 DEF IInv, Horloge
  <1>12. Rattrapage'
    <2>1. taches[k].pas \notin Ouvert /\ pret \in DOMAIN taches /\ (flush.etape = "attend" => flush.attend \in DOMAIN taches)
      BY <1>1 DEF Ouvert, IInv, EnVol, Appareil
    <2>2. UNCHANGED <<vies, montage, flush, pret, epoque, ident>>
      BY <1>1, <1>2
    <2> QED BY <1>7, <2>1, <2>2 DEF IInv, Rattrapage, Prudent
  <1>13. CASE UNCHANGED memoire
    <2>1. UNCHANGED <<file, refusees>>
      BY <1>13 DEF memoire
    <2>2. EnTete' /\ Contenu' /\ Bail' /\ Attaches'
      BY <1>1, <1>13, <2>1, EnTeteReste, ContenuReste, PrudentReste, BailReste, AttachesReste DEF IInv
    <2> QED BY <1>7, <1>8, <1>9, <1>10, <1>11, <1>12, <2>2 DEF IInv
  <1>14. CASE Memoire(x)
    <2>1. evts \in Queues /\ Ids(evts) \subseteq Vus
      <3>1. evts \in Queues /\ Ids(evts) = {disque.evts[i].id : i \in DOMAIN disque.evts \ J}
        BY <1>3, SansFaits
      <3> QED BY <1>3, <3>1 DEF Ids
    <2> HIDE DEF evts
    <2>2. relus \in Queues /\ Ids(relus) \subseteq Vus /\ \A i \in DOMAIN relus : ~relus[i].prise
      <3>1. DOMAIN evts = 1..Len(evts) /\ Len(evts) \in Nat /\ \A i \in DOMAIN evts : evts[i] \in Entrees
        BY <2>1, Queue
      <3>2. \A i \in DOMAIN evts : relus[i] \in Entrees /\ relus[i].id = evts[i].id /\ ~relus[i].prise
        BY <3>1 DEF Entree, Entrees
      <3>3. DOMAIN relus = DOMAIN evts
        OBVIOUS
      <3>4. relus \in Queues
        <4>1. relus \in [1..Len(evts) -> Entrees]
          BY <3>1, <3>2
        <4> QED BY <3>1, <4>1, SeqDef DEF Queues
      <3> HIDE DEF relus
      <3>5. Ids(relus) \subseteq Ids(evts)
        BY <3>2, <3>3 DEF Ids
      <3> QED BY <2>1, <3>2, <3>3, <3>4, <3>5
    <2> HIDE DEF relus
    <2>3. Rejoint(M, x, Ids(relus))
      BY <1>3, <1>4, <2>2, RestaurerFaits
    <2> HIDE DEF x
    <2>4. x \in Memoires
      BY <2>3 DEF Rejoint
    <2>5. M' \in Memoires' /\ file' = x.file /\ refusees' = x.refusees /\ perdus' = x.perdus /\ contretemps' = x.contretemps
      BY <1>1, <1>14, <2>4, Depot
    <2>6. EnTete'
      <3>1. Ids(x.file) \subseteq Vus /\ x.perdus \subseteq Vus /\ x.contretemps \subseteq Vus
        BY <1>4, <2>2, <2>3 DEF Rejoint
      <3> QED BY <1>2, <2>5, <3>1 DEF EnTete
    <2>7. Contenu'
      <3>1. Ids(file) \subseteq Ids(x.file) \cup x.perdus /\ perdus \subseteq x.perdus
        BY <1>4, <2>3 DEF Rejoint
      <3>2. RienDeTu'
        BY <1>1, <2>5, <3>1 DEF IInv, Contenu, RienDeTu
      <3>3. EpoqueCourante'
        BY <1>1, <1>5 DEF EpoqueCourante
      <3> QED BY <3>2, <3>3 DEF Contenu
    <2>8. Bail'
      <3>1. Loues(x.file) \subseteq Loues(file) /\ Cardinality(Prises(x.file)) <= Cardinality(Prises(file))
        BY <1>4, <2>3 DEF Rejoint
      <3>2. Cardinality(Prises(file)) \in Nat /\ Cardinality(Prises(x.file)) \in Nat /\ MaxLot \in Nat
        BY <1>3, <1>4, <2>4, Queue, Constantes DEF Memoires
      <3>3. Cardinality(Prises(file)) <= MaxLot => Cardinality(Prises(x.file)) <= MaxLot
        BY <3>1, <3>2
      <3>4. (Prudent' => Prudent) /\ UNCHANGED <<flush, epoque>>
        BY <1>1 DEF Prudent
      <3> QED BY <1>2, <2>5, <3>1, <3>3, <3>4 DEF IInv, Bail
    <2>9. Attaches'
      BY <1>1, <1>5 DEF IInv, Attaches
    <2> QED BY <1>7, <1>8, <1>9, <1>10, <1>11, <1>12, <2>6, <2>7, <2>8, <2>9 DEF IInv
  <1> QED BY <1>1, <1>13, <1>14

LEMMA CollecterPas == ASSUME IInv, NEW admis \in BOOLEAN, Collecter(admis) PROVE IInv'
  <1> DEFINE e == suivant
             racine == e \in Racines
             lien == IF racine \/ Courante \in refusees THEN 0 ELSE Courante
             entree == Entree(e, lien)
             entre == etat # "denied" /\ admis
             p == Pousser(M, entree, Plafond)
             x == [p EXCEPT !.refusees = IF racine THEN @ \ {e} ELSE @]
             y == [M EXCEPT !.perdus = @ \cup {e}, !.refusees = IF racine THEN @ \cup {e} ELSE @]
  <1>1. /\ e <= N /\ suivant' = e + 1 /\ gen' = [gen EXCEPT ![e] = revocations]
        /\ Memoire(IF entre THEN x ELSE y)
        /\ fenetre' = IF ~racine THEN fenetre ELSE IF entre THEN [r |-> e, epoque |-> epoque] ELSE Aucune
        /\ UNCHANGED <<montage, etat, epoque, flush, recul, visiteur, taches, pret, stockage, perimes,
                       revocations, recus, oublies, restait, vies>>
    BY DEF Collecter, gate
  <1>2. /\ UNCHANGED <<ident, disque>> /\ Racines' = Racines /\ N' = N /\ Evts' = Evts
        /\ MaxLot' = MaxLot /\ MaxFile' = MaxFile /\ Queues' = Queues /\ Coroutines' = Coroutines
    BY <1>1, Montage DEF stockage
  <1>3. /\ montage \in Montages /\ suivant \in Nat \ {0} /\ N \in Nat /\ Evts = 1..N /\ Racines \subseteq Evts
        /\ MaxFile \in Nat \ {0} /\ MaxLot \in Nat \ {0} /\ montage.maxAttente \in Nat \ {0}
        /\ etat \in {"pending", "granted", "denied"} /\ fenetre.r \in Racines \cup {0}
        /\ e \in Evts /\ recus \subseteq Evts
    <2>1. montage \in Montages
      BY DEF IInv, Cadre
    <2>2. /\ N \in Nat /\ Evts = 1..N /\ Racines \subseteq Evts
          /\ MaxFile \in Nat \ {0} /\ MaxLot \in Nat \ {0} /\ montage.maxAttente \in Nat \ {0}
      BY <2>1, Constantes
    <2>3. suivant \in 1..(N + 1) /\ etat \in {"pending", "granted", "denied"} /\ fenetre.r \in Racines \cup {0}
          /\ recus \subseteq Vus
      BY DEF IInv, Cadre
    <2>4. e \in Evts /\ Vus \subseteq Evts
      BY <1>1, <2>2, <2>3 DEF Vus
    <2> QED BY <2>1, <2>2, <2>3, <2>4
  <1>4. Vus' = Vus \cup {e} /\ e \notin Vus
    <2>1. Vus = 1..(e - 1) /\ Vus' = 1..((e + 1) - 1)
      BY <1>1 DEF Vus
    <2>2. 1..((e + 1) - 1) = (1..(e - 1)) \cup {e}
      BY <1>3
    <2> QED BY <1>3, <2>1, <2>2
  <1>5. /\ M \in Memoires /\ M.file = file /\ M.perdus = perdus /\ M.contretemps = contretemps /\ M.refusees = refusees
        /\ file \in Queues /\ Ids(file) \subseteq Vus /\ perdus \subseteq Vus /\ contretemps \subseteq Vus
        /\ refusees \subseteq Racines /\ perdus \subseteq Evts /\ contretemps \subseteq Evts
    <2>1. M \in Memoires /\ M.file = file /\ M.perdus = perdus /\ M.contretemps = contretemps /\ M.refusees = refusees
      BY DEF IInv, EnTete, M
    <2> QED BY <2>1 DEF Memoires, IInv, EnTete
  <1>6. lien \in Racines \cup {0} /\ (lien # 0 => lien = fenetre.r /\ lien \notin refusees)
    BY <1>3 DEF Courante
  <1>7. entree \in Entrees /\ ~entree.prise /\ entree.id = e /\ entree.lien = lien
    BY <1>3, <1>6 DEF Entree, Entrees
  <1>8. Plafond \in Nat \ {0} /\ (etat = "granted" => Plafond = MaxFile)
    BY <1>3 DEF Plafond
  <1> HIDE DEF entree
  <1>9. /\ p \in Memoires
        /\ Ids(p.file) \subseteq Ids(file) \cup {e} /\ Ids(file) \cup {e} \subseteq Ids(p.file) \cup p.perdus
        /\ perdus \subseteq p.perdus /\ p.perdus \subseteq perdus \cup Ids(file) \cup {e}
        /\ p.contretemps \subseteq contretemps \cup Ids(file) \cup {e}
        /\ refusees \subseteq p.refusees /\ (Ids(file) \cup {e}) \cap Racines \subseteq Ids(p.file) \cup p.refusees
        /\ Loues(p.file) \subseteq Loues(file)
        /\ Cardinality(Prises(p.file)) <= Cardinality(Prises(file))
        /\ Cardinality(Prises(file)) < Plafond => e \in Ids(p.file)
        /\ Tenue(file, recus, perimes \cap refusees) /\ lien \in {0} \cup ((Ids(file) \cup recus) \ refusees)
           => Tenue(p.file, recus, perimes \cap p.refusees)
    <2>0. Plafond \in Nat
      BY <1>8
    <2> HIDE DEF lien
    <2>1. /\ p \in Memoires
          /\ Ids(p.file) \subseteq Ids(M.file) \cup {entree.id} /\ Ids(M.file) \cup {entree.id} \subseteq Ids(p.file) \cup p.perdus
          /\ M.perdus \subseteq p.perdus /\ p.perdus \subseteq M.perdus \cup Ids(M.file) \cup {entree.id}
          /\ p.contretemps \subseteq M.contretemps \cup Ids(M.file) \cup {entree.id}
          /\ M.refusees \subseteq p.refusees /\ (Ids(M.file) \cup {entree.id}) \cap Racines \subseteq Ids(p.file) \cup p.refusees
          /\ Loues(p.file) \subseteq Loues(M.file)
          /\ Cardinality(Prises(p.file)) <= Cardinality(Prises(M.file))
          /\ Cardinality(Prises(M.file)) < Plafond => entree.id \in Ids(p.file)
          /\ Tenue(M.file, recus, perimes \cap M.refusees) /\ entree.lien \in {0} \cup ((Ids(M.file) \cup recus) \ M.refusees)
             => Tenue(p.file, recus, perimes \cap p.refusees)
      <3> DEFINE Dedans == Ids(M.file) \cup {entree.id}
      <3>1. /\ p \in Memoires
            /\ Ids(p.file) \subseteq Dedans /\ Dedans \subseteq Ids(p.file) \cup p.perdus
            /\ M.perdus \subseteq p.perdus /\ p.perdus \subseteq M.perdus \cup Dedans
            /\ p.contretemps \subseteq M.contretemps \cup Dedans
            /\ M.refusees \subseteq p.refusees /\ Dedans \cap Racines \subseteq Ids(p.file) \cup p.refusees
            /\ Loues(p.file) \subseteq Loues(M.file)
            /\ Cardinality(Prises(p.file)) <= Cardinality(Prises(M.file))
            /\ Cardinality(Prises(M.file)) < Plafond => entree.id \in Ids(p.file)
            /\ \A S : Tenue(M.file, S, perimes \cap M.refusees) /\ entree.lien \in {0} \cup ((Ids(M.file) \cup S) \ M.refusees)
                     => Tenue(p.file, S, perimes \cap p.refusees)
        BY <1>5, <1>7, <2>0, PousserFaits
      <3> HIDE DEF p
      <3> QED BY <3>1
    <2> HIDE DEF p
    <2> QED BY <1>5, <1>7, <2>1
  <1> HIDE DEF p
  <1>10. /\ x \in Memoires /\ x.file = p.file /\ x.perdus = p.perdus /\ x.contretemps = p.contretemps
         /\ x.refusees = IF racine THEN p.refusees \ {e} ELSE p.refusees
    BY <1>9 DEF Memoires
  <1>11. /\ y \in Memoires /\ y.file = file /\ y.perdus = perdus \cup {e} /\ y.contretemps = contretemps
         /\ y.refusees = IF racine THEN refusees \cup {e} ELSE refusees
    BY <1>3, <1>5 DEF Memoires
  <1> HIDE DEF x, y
  <1>12. Cadre'
    <2>1. suivant' \in 1..(N + 1)
      BY <1>1, <1>3
    <2>2. gen' \in [Evts -> Nat]
      BY <1>1 DEF IInv, Cadre
    <2>3. fenetre'.r \in Racines \cup {0}
      BY <1>1, <1>3 DEF Aucune
    <2>4. perimes \subseteq Vus' /\ recus \subseteq Vus' /\ oublies \subseteq Vus' /\ restait \subseteq Vus'
      BY <1>4 DEF IInv, Cadre
    <2> QED BY <1>1, <1>2, <2>1, <2>2, <2>3, <2>4 DEF IInv, Cadre
  <1>13. Appareil'
    <2>1. \A k \in DOMAIN taches : Ids(taches[k].evts) \subseteq Vus'
      BY <1>4 DEF IInv, Appareil
    <2>2. Ids(disque.evts) \subseteq Vus'
      BY <1>4 DEF IInv, Appareil
    <2>3. UNCHANGED <<taches, pret>>
      BY <1>1
    <2> QED BY <1>2, <2>1, <2>2, <2>3 DEF IInv, Appareil, Ids
  <1>14. EnVol'
    <2>1. flush.etape = "vol" => flush.lot \in Seq(Vus')
      <3> SUFFICES ASSUME flush.etape = "vol" PROVE flush.lot \in Seq(Vus')
        OBVIOUS
      <3>1. flush.lot \in Seq(Vus)
        BY DEF IInv, EnVol
      <3>2. flush.lot \in [1..Len(flush.lot) -> Vus] /\ Len(flush.lot) \in Nat
        BY <3>1, LenProperties
      <3>3. flush.lot \in [1..Len(flush.lot) -> Vus']
        BY <1>4, <3>2
      <3> QED BY <3>2, <3>3, SeqDef
    <2>2. UNCHANGED <<flush, taches>>
      BY <1>1
    <2> QED BY <1>2, <1>4, <2>1, <2>2 DEF IInv, EnVol, Ids
  <1>15. SansReprise' /\ Horloge' /\ Rattrapage'
    BY <1>1, <1>2 DEF IInv, SansReprise, Horloge, Rattrapage, Prudent
  <1>16. (Prudent' <=> Prudent) /\ UNCHANGED <<flush, epoque, perimes, recus, montage>>
    BY <1>1 DEF Prudent
  <1>17. gen'[e] = revocations' /\ \A i \in Vus : gen'[i] = gen[i]
    <2>1. gen \in [Evts -> Nat]
      BY DEF IInv, Cadre
    <2>2. e \in Evts /\ e \notin Vus /\ Vus \subseteq Evts
      BY <1>3, <1>4 DEF Vus
    <2> QED BY <1>1, <2>1, <2>2
  <1>18. ASSUME NEW f \in Queues, file' = f, Ids(f) \subseteq Ids(file) \cup {e} PROVE EpoqueCourante'
    <2>1. \A i \in Ids(f) : i = e \/ i \in Ids(file)
      BY <1>18
    <2>2. ~montage.persistant => \A i \in Ids(file) : gen[i] = revocations
      BY DEF IInv, Contenu, EpoqueCourante, Ids
    <2>3. ~montage.persistant => \A i \in Ids(f) : gen'[i] = revocations'
      BY <1>1, <1>5, <1>17, <2>1, <2>2
    <2> QED BY <1>16, <1>18, <2>3 DEF EpoqueCourante, Ids
  <1>19. e \notin perimes
    BY <1>4 DEF IInv, Cadre, Vus
  <1>20. CASE entre
    <2>1. Memoire(x)
      BY <1>1, <1>20
    <2>2. M' \in Memoires' /\ file' = p.file /\ refusees' = x.refusees /\ perdus' = p.perdus /\ contretemps' = p.contretemps
      BY <1>1, <1>10, <2>1, Depot
    <2>3. EnTete'
      <3>1. Ids(p.file) \subseteq Vus' /\ p.perdus \subseteq Vus' /\ p.contretemps \subseteq Vus'
        BY <1>4, <1>5, <1>9
      <3> QED BY <2>2, <3>1 DEF EnTete
    <2>4. Contenu'
      <3>1. RienDeTu'
        <4>1. \A i \in Vus' : i = e \/ i \in Vus
          BY <1>4
        <4>2. \A i \in Vus : i \in Ids(file) \cup recus \cup perdus \cup oublies
          BY DEF IInv, Contenu, RienDeTu, Vus
        <4>3. \A i \in Vus' : i \in Ids(p.file) \cup recus \cup p.perdus \cup oublies
          BY <1>9, <4>1, <4>2
        <4>4. UNCHANGED <<recus, oublies>>
          BY <1>1
        <4> QED BY <2>2, <4>3, <4>4 DEF RienDeTu, Vus
      <3>2. EpoqueCourante'
        BY <1>9, <1>18, <2>2 DEF Memoires
      <3> QED BY <3>1, <3>2 DEF Contenu
    <2>5. Cardinality(Prises(file)) \in Nat /\ Cardinality(Prises(p.file)) \in Nat
      BY <1>5, <1>9, Queue DEF Memoires
    <2>6. Bail'
      <3>1. Cardinality(Prises(file)) <= MaxLot => Cardinality(Prises(p.file)) <= MaxLot
        BY <1>3, <1>9, <2>5
      <3>2. Loues(p.file) \subseteq Loues(file)
        BY <1>9
      <3> QED BY <1>2, <1>16, <2>2, <3>1, <3>2 DEF IInv, Bail
    <2>7. ASSUME ~montage.persistant, Prudent, MaxLot < MaxFile
          PROVE  /\ Tenue(p.file, recus, perimes \cap x.refusees)
                 /\ fenetre'.r # 0 => fenetre'.r \in Ids(p.file) \cup recus \cup x.refusees
      <3>1. Tenue(file, recus, perimes \cap refusees) /\ (fenetre.r # 0 => fenetre.r \in Ids(file) \cup recus \cup refusees)
        BY <2>7 DEF IInv, Attaches
      <3>3. lien \in {0} \cup ((Ids(file) \cup recus) \ refusees)
        BY <1>6, <3>1
      <3> HIDE DEF lien
      <3>4. Tenue(p.file, recus, perimes \cap x.refusees)
        <4>1. Tenue(p.file, recus, perimes \cap p.refusees)
          BY <1>9, <3>1, <3>3
        <4>2. perimes \cap x.refusees = perimes \cap p.refusees
          BY <1>10, <1>19
        <4> QED BY <4>1, <4>2
      <3>5. e \in Ids(p.file)
        <4>1. Cardinality(Prises(file)) < Plafond
          <5>1. CASE etat = "granted"
            <6>1. Cardinality(Prises(file)) <= MaxLot
              BY <2>7 DEF IInv, Bail
            <6> QED BY <1>3, <1>8, <2>5, <2>7, <5>1, <6>1
          <5>2. CASE etat # "granted"
            <6>1. Loues(file) = {}
              BY <2>7, <5>2 DEF IInv, Bail, Horloge
            <6>2. Prises(file) = {}
              BY <6>1 DEF Loues
            <6> QED BY <1>8, <6>2, FS_EmptySet
          <5> QED BY <5>1, <5>2
        <4> QED BY <1>9, <4>1
      <3>6. CASE racine
        <4>1. fenetre'.r = e
          BY <1>1, <1>20, <3>6
        <4> QED BY <3>4, <3>5, <4>1
      <3>7. CASE ~racine
        <4>1. fenetre' = fenetre /\ x.refusees = p.refusees
          BY <1>1, <1>10, <3>7
        <4>2. fenetre.r # 0 => fenetre.r \in Racines
          BY <1>3
        <4> QED BY <1>9, <3>1, <3>4, <4>1, <4>2
      <3> QED BY <3>6, <3>7
    <2>8. Attaches'
      BY <1>2, <1>16, <2>2, <2>7 DEF Attaches
    <2> QED BY <1>12, <1>13, <1>14, <1>15, <2>3, <2>4, <2>6, <2>8 DEF IInv
  <1>21. CASE ~entre
    <2>1. Memoire(y)
      BY <1>1, <1>21
    <2>2. M' \in Memoires' /\ file' = file /\ refusees' = y.refusees /\ perdus' = perdus \cup {e} /\ contretemps' = contretemps
      BY <1>1, <1>11, <2>1, Depot
    <2>3. EnTete'
      <3>1. Ids(file) \subseteq Vus' /\ perdus \cup {e} \subseteq Vus' /\ contretemps \subseteq Vus'
        BY <1>4, <1>5
      <3> QED BY <2>2, <3>1 DEF EnTete
    <2>4. Contenu'
      <3>1. RienDeTu'
        <4>1. \A i \in Vus' : i = e \/ i \in Vus
          BY <1>4
        <4>2. \A i \in Vus : i \in Ids(file) \cup recus \cup perdus \cup oublies
          BY DEF IInv, Contenu, RienDeTu, Vus
        <4>3. \A i \in Vus' : i \in Ids(file) \cup recus \cup (perdus \cup {e}) \cup oublies
          BY <4>1, <4>2
        <4>4. UNCHANGED <<recus, oublies>>
          BY <1>1
        <4> QED BY <2>2, <4>3, <4>4 DEF RienDeTu, Vus
      <3>2. EpoqueCourante'
        BY <1>5, <1>18, <2>2
      <3> QED BY <3>1, <3>2 DEF Contenu
    <2>5. Bail'
      BY <1>2, <1>16, <2>2 DEF IInv, Bail
    <2>6. Attaches'
      <3>1. refusees \subseteq y.refusees
        BY <1>11
      <3>2. fenetre'.r = fenetre.r \/ fenetre'.r = 0
        BY <1>1, <1>21 DEF Aucune
      <3>3. ~montage.persistant /\ Prudent /\ MaxLot < MaxFile =>
              /\ Tenue(file, recus, perimes \cap y.refusees)
              /\ fenetre'.r # 0 => fenetre'.r \in Ids(file) \cup recus \cup y.refusees
        BY <3>1, <3>2 DEF IInv, Attaches, Tenue
      <3> QED BY <1>2, <1>16, <2>2, <3>3 DEF Attaches, Tenue, Paires, Ids
    <2> QED BY <1>12, <1>13, <1>14, <1>15, <2>3, <2>4, <2>5, <2>6 DEF IInv
  <1> QED BY <1>20, <1>21

\* The queue after an answer, or a turn of the flush: m is what the answer made of it, x what is
\* left once the next batch, if there is one, is leased.
LEMMA Retour ==
  ASSUME IInv, NEW m \in Memoires, NEW x, Garde(m, x), Memoire(x), EnVol',
         recus \subseteq recus', recus' \subseteq Vus,
         UNCHANGED <<montage, suivant, epoque, etat, ident, taches, fenetre, perimes, revocations, gen, oublies, vies>>,
         Ids(m.file) \subseteq Ids(file), Ids(file) \subseteq Ids(m.file) \cup m.perdus \cup recus',
         perdus \subseteq m.perdus, m.perdus \subseteq Vus, m.contretemps \subseteq Vus, refusees \subseteq m.refusees,
         Ids(file) \cap Racines \subseteq Ids(m.file) \cup m.refusees \cup recus',
         Liens(m.file) \subseteq Liens(file) /\ Paires(m.file) \subseteq Paires(file), Liens(m.file) \cap Ids(file) \subseteq Ids(m.file) \cup recus',
         Prudent => ident.epoque <= epoque, Prudent => Loues(m.file) = {},
         \/ /\ flush'.etape # "vol" /\ Loues(x.file) \subseteq Loues(m.file)
            /\ Cardinality(Prises(x.file)) <= Cardinality(Prises(m.file))
         \/ /\ flush'.etape = "vol" /\ flush'.epoque = epoque /\ etat = "granted"
            /\ Loues(x.file) \subseteq Loues(m.file) \cup Range(flush'.lot)
            /\ Cardinality(Prises(x.file)) <= Cardinality(Prises(m.file)) + MaxLot
  PROVE  EnTete' /\ Contenu' /\ Horloge' /\ Rattrapage' /\ Bail' /\ Attaches'
  <1>1. /\ Racines' = Racines /\ N' = N /\ Evts' = Evts /\ Vus' = Vus
        /\ MaxLot' = MaxLot /\ MaxFile' = MaxFile /\ Queues' = Queues
    BY Montage DEF Vus
  <1>2. x \in Memoires
    BY DEF Garde
  <1>3. M' \in Memoires' /\ file' = x.file /\ refusees' = x.refusees /\ perdus' = x.perdus /\ contretemps' = x.contretemps
    BY <1>2, Depot
  <1>4. Ids(file) \subseteq Vus
    BY DEF IInv, EnTete
  <1>5. /\ Ids(x.file) \subseteq Ids(m.file) /\ Ids(m.file) \subseteq Ids(x.file) \cup x.perdus
        /\ m.perdus \subseteq x.perdus /\ x.perdus \subseteq m.perdus \cup Ids(m.file)
        /\ x.contretemps \subseteq m.contretemps \cup Ids(m.file)
    BY DEF Garde
  <1>6. EnTete'
    <2>1. Ids(x.file) \subseteq Vus /\ x.perdus \subseteq Vus /\ x.contretemps \subseteq Vus
      BY <1>4, <1>5
    <2> QED BY <1>1, <1>3, <2>1 DEF EnTete
  <1>7. Contenu'
    <2>1. RienDeTu'
      <3>1. \A e \in Vus : e \in Ids(file) \cup recus \cup perdus \cup oublies
        BY DEF IInv, Contenu, RienDeTu, Vus
      <3>2. \A e \in Vus : e \in Ids(x.file) \cup recus' \cup x.perdus \cup oublies
        BY <1>5, <3>1
      <3> QED BY <1>1, <1>3, <3>2 DEF RienDeTu, Vus
    <2>2. EpoqueCourante'
      <3>1. ~montage.persistant => \A i \in Ids(file) : gen[i] = revocations
        BY DEF IInv, Contenu, EpoqueCourante, Ids
      <3>2. ~montage.persistant => \A i \in Ids(x.file) : gen[i] = revocations
        BY <1>5, <3>1
      <3> QED BY <1>3, <3>2 DEF EpoqueCourante, Ids
    <2> QED BY <2>1, <2>2 DEF Contenu
  <1>8. Horloge'
    <2>1. epoque <= epoque
      BY DEF IInv, Cadre
    <2> QED BY <2>1 DEF IInv, Horloge
  <1>9. Prudent' <=> Prudent
    BY PrudentReste
  <1>10. Rattrapage'
    BY <1>9 DEF Rattrapage
  <1>11. Bail'
    <2> SUFFICES ASSUME Prudent
                 PROVE  /\ Loues(x.file) # {} => flush'.etape = "vol" /\ flush'.epoque = epoque
                        /\ flush'.etape = "vol" => Loues(x.file) \subseteq Range(flush'.lot)
                        /\ Cardinality(Prises(x.file)) <= MaxLot
      BY <1>1, <1>3, <1>9 DEF Bail
    <2>1. Loues(m.file) = {}
      OBVIOUS
    <2>2. Prises(m.file) = {}
      BY <2>1 DEF Loues
    <2>3. Cardinality(Prises(m.file)) = 0
      BY <2>2, FS_EmptySet
    <2>4. MaxLot \in Nat /\ Cardinality(Prises(x.file)) \in Nat
      BY <1>2, Constantes, Queue DEF IInv, Cadre, Memoires
    <2> QED BY <2>1, <2>3, <2>4
  <1>12. Attaches'
    <2> SUFFICES ASSUME ~montage.persistant, Prudent, MaxLot < MaxFile
                 PROVE  /\ Tenue(x.file, recus', perimes \cap x.refusees)
                        /\ fenetre.r # 0 => fenetre.r \in Ids(x.file) \cup recus' \cup x.refusees
      BY <1>1, <1>3, <1>9 DEF IInv, Attaches, Tenue, Paires, Ids
    <2>1. Tenue(file, recus, perimes \cap refusees) /\ (fenetre.r # 0 => fenetre.r \in Ids(file) \cup recus \cup refusees)
      BY DEF IInv, Attaches
    <2>2. /\ m.refusees \subseteq x.refusees /\ Ids(m.file) \cap Racines \subseteq Ids(x.file) \cup x.refusees
          /\ Liens(x.file) \subseteq Liens(m.file) /\ Paires(x.file) \subseteq Paires(m.file) /\ Liens(x.file) \cap Ids(m.file) \subseteq Ids(x.file)
      BY DEF Garde
    <2>3. Tenue(x.file, recus', perimes \cap x.refusees)
      <3>1. \A p \in Paires(x.file) : p[2] \in Liens(x.file)
        BY <1>2, PairesFaits DEF Memoires
      <3>2. Paires(x.file) \subseteq Paires(file) /\ Liens(x.file) \subseteq Liens(m.file) /\ perimes \cap refusees \subseteq perimes \cap x.refusees
        BY <2>2
      <3>3. \A p \in Paires(x.file) : p[2] \in Ids(file) \cup recus => p[2] \in Ids(x.file) \cup recus'
        BY <2>2, <3>1
      <3> QED BY <2>1, <3>2, <3>3 DEF Tenue
    <2>4. fenetre.r # 0 => fenetre.r \in Racines
      BY DEF IInv, Cadre
    <2>5. fenetre.r # 0 => fenetre.r \in Ids(x.file) \cup recus' \cup x.refusees
      BY <2>1, <2>2, <2>4
    <2> QED BY <2>3, <2>5
  <1> QED BY <1>6, <1>7, <1>8, <1>10, <1>11, <1>12

LEMMA GardeReflexif == ASSUME NEW m \in Memoires PROVE Garde(m, m)
  BY SuitReflexif DEF Suit, Garde

LEMMA ReposFaits ==
  ASSUME montage \in Montages, UNCHANGED montage, flush' = Repos
  PROVE  EnVol' /\ flush'.etape = "repos"
  <1>1. flush' = [etape |-> "repos", lot |-> <<>>, epoque |-> 0, plafond |-> MaxLot, attend |-> 0]
    BY DEF Repos
  <1>2. MaxLot \in 1..MaxLot /\ MaxLot' = MaxLot
    BY Constantes, Montage
  <1> QED BY <1>1, <1>2 DEF EnVol

LEMMA EnVolSuivant ==
  ASSUME montage \in Montages, UNCHANGED <<montage, suivant>>, NEW S \in SUBSET Vus, NEW lot \in Seq(S), Len(lot) \in 1..MaxLot,
         NEW p \in 1..MaxLot, epoque \in Nat,
         flush' = [etape |-> "vol", lot |-> lot, epoque |-> epoque, plafond |-> p, attend |-> 0]
  PROVE  EnVol' /\ flush'.etape = "vol" /\ flush'.lot = lot /\ flush'.epoque = epoque
  <1>1. MaxLot' = MaxLot /\ Vus' = Vus
    BY Montage DEF Vus
  <1>2. lot \in Seq(Vus)
    <2>1. lot \in [1..Len(lot) -> S] /\ Len(lot) \in Nat
      BY LenProperties
    <2>2. lot \in [1..Len(lot) -> Vus]
      BY <2>1
    <2> QED BY <2>1, <2>2, SeqDef
  <1> QED BY <1>1, <1>2 DEF EnVol

\* A turn of the flush, from the memory m.
LEMMA Tour ==
  ASSUME IInv, NEW m \in Memoires, NEW p \in 1..MaxLot, Boucler(m, p), etat = "granted",
         recus \subseteq recus', recus' \subseteq Vus,
         UNCHANGED <<montage, suivant, epoque, etat, ident, taches, fenetre, perimes, revocations, gen, oublies, vies>>,
         Ids(m.file) \subseteq Ids(file), Ids(file) \subseteq Ids(m.file) \cup m.perdus \cup recus',
         perdus \subseteq m.perdus, m.perdus \subseteq Vus, m.contretemps \subseteq Vus, refusees \subseteq m.refusees,
         Ids(file) \cap Racines \subseteq Ids(m.file) \cup m.refusees \cup recus',
         Liens(m.file) \subseteq Liens(file) /\ Paires(m.file) \subseteq Paires(file), Liens(m.file) \cap Ids(file) \subseteq Ids(m.file) \cup recus',
         Prudent => ident.epoque <= epoque, Prudent => Loues(m.file) = {}
  PROVE  EnTete' /\ Contenu' /\ EnVol' /\ Horloge' /\ Rattrapage' /\ Bail' /\ Attaches'
  <1>1. montage \in Montages /\ epoque \in Nat /\ Ids(m.file) \in SUBSET Vus
    BY DEF IInv, Cadre, EnTete
  <1>2. PICK x :
           /\ Garde(m, x) /\ Memoire(x)
           /\ \/ /\ flush' = Repos /\ Loues(x.file) \subseteq Loues(m.file)
                 /\ Cardinality(Prises(x.file)) <= Cardinality(Prises(m.file))
              \/ \E lot \in Seq(Ids(m.file)) :
                   /\ Len(lot) \in 1..MaxLot
                   /\ flush' = [etape |-> "vol", lot |-> lot, epoque |-> epoque, plafond |-> p, attend |-> 0]
                   /\ Loues(x.file) \subseteq Loues(m.file) \cup Range(lot)
                   /\ Cardinality(Prises(x.file)) <= Cardinality(Prises(m.file)) + MaxLot
    BY <1>1, BouclerFaits
  <1>3. /\ EnVol'
        /\ \/ /\ flush'.etape # "vol" /\ Loues(x.file) \subseteq Loues(m.file)
              /\ Cardinality(Prises(x.file)) <= Cardinality(Prises(m.file))
           \/ /\ flush'.etape = "vol" /\ flush'.epoque = epoque /\ etat = "granted"
              /\ Loues(x.file) \subseteq Loues(m.file) \cup Range(flush'.lot)
              /\ Cardinality(Prises(x.file)) <= Cardinality(Prises(m.file)) + MaxLot
    <2>1. CASE /\ flush' = Repos /\ Loues(x.file) \subseteq Loues(m.file)
               /\ Cardinality(Prises(x.file)) <= Cardinality(Prises(m.file))
      BY <1>1, <2>1, ReposFaits
    <2>2. CASE \E lot \in Seq(Ids(m.file)) :
                   /\ Len(lot) \in 1..MaxLot
                   /\ flush' = [etape |-> "vol", lot |-> lot, epoque |-> epoque, plafond |-> p, attend |-> 0]
                   /\ Loues(x.file) \subseteq Loues(m.file) \cup Range(lot)
                   /\ Cardinality(Prises(x.file)) <= Cardinality(Prises(m.file)) + MaxLot
      <3>1. PICK lot \in Seq(Ids(m.file)) :
                   /\ Len(lot) \in 1..MaxLot
                   /\ flush' = [etape |-> "vol", lot |-> lot, epoque |-> epoque, plafond |-> p, attend |-> 0]
                   /\ Loues(x.file) \subseteq Loues(m.file) \cup Range(lot)
                   /\ Cardinality(Prises(x.file)) <= Cardinality(Prises(m.file)) + MaxLot
        BY <2>2
      <3>2. EnVol' /\ flush'.etape = "vol" /\ flush'.lot = lot /\ flush'.epoque = epoque
        BY <1>1, <3>1, EnVolSuivant
      <3> QED BY <3>1, <3>2
    <2> QED BY <1>2, <2>1, <2>2
  <1>4. Garde(m, x) /\ Memoire(x)
    BY <1>2
  <1> QED BY <1>3, <1>4, Retour

\* Nothing of the memory has left, and the flush ends.
LEMMA Fin ==
  ASSUME IInv, NEW m \in Memoires, Memoire(m), EnVol', flush'.etape # "vol",
         recus \subseteq recus', recus' \subseteq Vus,
         UNCHANGED <<montage, suivant, epoque, etat, ident, taches, fenetre, perimes, revocations, gen, oublies, vies>>,
         Ids(m.file) \subseteq Ids(file), Ids(file) \subseteq Ids(m.file) \cup m.perdus \cup recus',
         perdus \subseteq m.perdus, m.perdus \subseteq Vus, m.contretemps \subseteq Vus, refusees \subseteq m.refusees,
         Ids(file) \cap Racines \subseteq Ids(m.file) \cup m.refusees \cup recus',
         Liens(m.file) \subseteq Liens(file) /\ Paires(m.file) \subseteq Paires(file), Liens(m.file) \cap Ids(file) \subseteq Ids(m.file) \cup recus',
         Prudent => ident.epoque <= epoque, Prudent => Loues(m.file) = {}
  PROVE  EnTete' /\ Contenu' /\ Horloge' /\ Rattrapage' /\ Bail' /\ Attaches'
  <1>1. Garde(m, m)
    BY GardeReflexif
  <1>2. Cardinality(Prises(m.file)) <= Cardinality(Prises(m.file))
    <2>1. Cardinality(Prises(m.file)) \in Nat
      BY Queue DEF Memoires
    <2> QED BY <2>1
  <1> QED BY <1>1, <1>2, Retour

LEMMA EntrerFlushPas == ASSUME IInv, EntrerFlush PROVE IInv'
  <1>1. /\ flush.etape = "attend" /\ taches[flush.attend].pas = "finie"
        /\ \/ etat = "granted" /\ Boucler(M, MaxLot)
           \/ flush' = Repos /\ UNCHANGED memoire
        /\ UNCHANGED <<etat, epoque, fenetre, recul, visiteur, taches, pret, stockage, perimes, recus>>
        /\ UNCHANGED <<montage, suivant, revocations, gen, oublies, restait, vies>>
    BY DEF EntrerFlush, gate, histoire
  <1>2. UNCHANGED <<ident>> /\ Racines' = Racines /\ N' = N /\ Evts' = Evts /\ Vus' = Vus
    BY <1>1, Montage DEF stockage, Vus
  <1>3. /\ M \in Memoires /\ M.file = file /\ M.perdus = perdus /\ M.contretemps = contretemps /\ M.refusees = refusees
        /\ perdus \subseteq Vus /\ contretemps \subseteq Vus /\ recus \subseteq Vus /\ montage \in Montages
    BY DEF IInv, EnTete, M, Cadre
  <1>4. Cadre'
    BY <1>1, <1>2 DEF IInv, Cadre
  <1>5. Appareil' /\ SansReprise'
    BY <1>1, AppareilReste DEF IInv, SansReprise
  <1>6. Prudent => ident.epoque <= epoque
    BY <1>1 DEF IInv, Rattrapage, Ouvert
  <1>7. Prudent => Loues(file) = {}
    BY <1>1 DEF IInv, Bail
  <1>8. CASE etat = "granted" /\ Boucler(M, MaxLot)
    <2> DEFINE m == M
    <2>1. MaxLot \in 1..MaxLot
      BY <1>3, Constantes
    <2>2. /\ m \in Memoires /\ Boucler(m, MaxLot) /\ etat = "granted"
          /\ recus \subseteq recus' /\ recus' \subseteq Vus
          /\ Ids(m.file) \subseteq Ids(file) /\ Ids(file) \subseteq Ids(m.file) \cup m.perdus \cup recus'
          /\ perdus \subseteq m.perdus /\ m.perdus \subseteq Vus /\ m.contretemps \subseteq Vus /\ refusees \subseteq m.refusees
          /\ Ids(file) \cap Racines \subseteq Ids(m.file) \cup m.refusees \cup recus'
          /\ Liens(m.file) \subseteq Liens(file) /\ Paires(m.file) \subseteq Paires(file) /\ Liens(m.file) \cap Ids(file) \subseteq Ids(m.file) \cup recus'
          /\ Prudent => Loues(m.file) = {}
      BY <1>1, <1>3, <1>7, <1>8
    <2> HIDE DEF m
    <2>3. EnTete' /\ Contenu' /\ EnVol' /\ Horloge' /\ Rattrapage' /\ Bail' /\ Attaches'
      BY <1>1, <1>2, <1>6, <2>1, <2>2, Tour
    <2> QED BY <1>4, <1>5, <2>3 DEF IInv
  <1>9. CASE flush' = Repos /\ UNCHANGED memoire
    <2>1. EnVol' /\ flush'.etape = "repos"
      BY <1>1, <1>3, <1>9, ReposFaits
    <2>2. UNCHANGED <<file, refusees>>
      BY <1>9 DEF memoire
    <2>3. EnTete' /\ Contenu'
      BY <1>1, <1>9, EnTeteReste, ContenuReste DEF IInv
    <2>4. Horloge' /\ Rattrapage'
      BY <1>1, <1>2, <2>1 DEF IInv, Horloge, Rattrapage, Prudent
    <2>5. Bail' /\ Attaches'
      BY <1>1, <2>1, <2>2, PrudentReste, BailReste, AttachesReste DEF IInv
    <2> QED BY <1>4, <1>5, <2>1, <2>3, <2>4, <2>5 DEF IInv
  <1> QED BY <1>1, <1>8, <1>9

LEMMA RepondrePas == ASSUME IInv, NEW r \in Reponses, Repondre(r) PROVE IInv'
  <1> DEFINE lot == flush.lot
             S == Range(lot)
  <1>1. /\ flush.etape = "vol"
        /\ recus' \in {recus \cup (IF r \in {"2xx", "rejouable"} THEN S ELSE {}), IF r = "2xx" THEN recus \cup S ELSE recus}
        /\ \/ Tardive /\ Finir(M) /\ UNCHANGED recul
           \/ ~Tardive /\ Decision(r)
        /\ UNCHANGED <<etat, epoque, fenetre, visiteur, taches, pret, stockage, perimes>>
        /\ UNCHANGED <<montage, suivant, revocations, gen, oublies, restait, vies>>
    BY DEF Repondre, gate, histoire
  <1>2. /\ UNCHANGED <<ident>> /\ Racines' = Racines /\ N' = N /\ Evts' = Evts /\ Vus' = Vus
        /\ Queues' = Queues /\ MaxLot' = MaxLot
    BY <1>1, Montage DEF stockage, Vus
  <1>3. /\ M \in Memoires /\ M.file = file /\ M.perdus = perdus /\ M.contretemps = contretemps /\ M.refusees = refusees
        /\ Ids(file) \subseteq Vus /\ perdus \subseteq Vus /\ contretemps \subseteq Vus /\ recus \subseteq Vus
        /\ montage \in Montages /\ epoque \in Nat
    BY DEF IInv, EnTete, M, Cadre
  <1>4. lot \in Seq(Vus) /\ Len(lot) \in 1..MaxLot /\ S \subseteq Vus /\ MaxLot \in Nat /\ Vus \subseteq Evts
    <2>1. lot \in Seq(Vus) /\ Len(lot) \in 1..MaxLot
      BY <1>1 DEF IInv, EnVol
    <2>2. S \subseteq Vus
      BY <2>1, ElementOfSeq, LenProperties DEF Range
    <2>3. MaxLot \in Nat /\ Vus \subseteq Evts
      BY <1>3, Constantes DEF IInv, Cadre, Vus
    <2> QED BY <2>1, <2>2, <2>3
  <1> HIDE DEF lot, S
  <1>5. recus \subseteq recus' /\ recus' \subseteq Vus /\ (r = "2xx" => recus' = recus \cup S)
    BY <1>1, <1>3, <1>4
  <1>6. Prudent => ident.epoque <= epoque
    BY <1>1 DEF IInv, Rattrapage
  <1>7. Prudent => Loues(file) \subseteq S
    BY <1>1 DEF IInv, Bail, S, lot
  <1>8. Appareil' /\ SansReprise'
    BY <1>1, AppareilReste DEF IInv, SansReprise
  <1>9. ASSUME recul' \in BOOLEAN, EnTete', Contenu', EnVol', Horloge', Rattrapage', Bail', Attaches'
        PROVE  IInv'
    <2>1. Cadre'
      BY <1>1, <1>2, <1>5, <1>9 DEF IInv, Cadre
    <2> QED BY <1>8, <1>9, <2>1 DEF IInv
  <1>10. CASE Tardive /\ Finir(M) /\ UNCHANGED recul
    <2> DEFINE m == M
    <2>1. Prudent => Loues(file) = {}
      BY <1>1, <1>10 DEF Tardive, IInv, Bail, Horloge
    <2>2. Memoire(m) /\ flush' = Repos /\ recul' \in BOOLEAN
      BY <1>10 DEF Finir, IInv, Cadre
    <2>3. EnVol' /\ flush'.etape # "vol"
      BY <1>1, <1>3, <2>2, ReposFaits
    <2>4. /\ m \in Memoires
          /\ Ids(m.file) \subseteq Ids(file) /\ Ids(file) \subseteq Ids(m.file) \cup m.perdus \cup recus'
          /\ perdus \subseteq m.perdus /\ m.perdus \subseteq Vus /\ m.contretemps \subseteq Vus /\ refusees \subseteq m.refusees
          /\ Ids(file) \cap Racines \subseteq Ids(m.file) \cup m.refusees \cup recus'
          /\ Liens(m.file) \subseteq Liens(file) /\ Paires(m.file) \subseteq Paires(file) /\ Liens(m.file) \cap Ids(file) \subseteq Ids(m.file) \cup recus'
          /\ Prudent => Loues(m.file) = {}
      BY <1>3, <2>1
    <2> HIDE DEF m
    <2>5. EnTete' /\ Contenu' /\ Horloge' /\ Rattrapage' /\ Bail' /\ Attaches'
      BY <1>1, <1>2, <1>5, <1>6, <2>2, <2>3, <2>4, Fin
    <2> QED BY <1>9, <2>2, <2>3, <2>5
  <1>11. CASE ~Tardive /\ Decision(r)
    <2>0. etat = "granted"
      BY <1>11 DEF Tardive
    <2>1. /\ Ack(M, lot) \in Memoires /\ Ids(Ack(M, lot).file) = Ids(file) \ S /\ Liens(Ack(M, lot).file) \subseteq Liens(file) /\ Paires(Ack(M, lot).file) \subseteq Paires(file)
          /\ Loues(Ack(M, lot).file) \subseteq Loues(file) \ S
          /\ Ack(M, lot).refusees = refusees /\ Ack(M, lot).perdus = perdus /\ Ack(M, lot).contretemps = contretemps
      BY <1>3, AckFaits DEF S
    <2>2. /\ Nack(M, lot) \in Memoires /\ Ids(Nack(M, lot).file) = Ids(file) /\ Liens(Nack(M, lot).file) = Liens(file) /\ Paires(Nack(M, lot).file) = Paires(file)
          /\ Loues(Nack(M, lot).file) \subseteq Loues(file) \ S
          /\ Nack(M, lot).refusees = refusees /\ Nack(M, lot).perdus = perdus /\ Nack(M, lot).contretemps = contretemps
      BY <1>3, NackFaits DEF S
    <2>3. /\ Abandonner(M, lot) \in Memoires /\ Ids(Abandonner(M, lot).file) = Ids(file) \ S
          /\ Loues(Abandonner(M, lot).file) \subseteq Loues(file) \ S
          /\ Abandonner(M, lot).perdus = perdus \cup S /\ Abandonner(M, lot).contretemps \subseteq contretemps \cup Ids(file)
          /\ refusees \subseteq Abandonner(M, lot).refusees
          /\ Ids(file) \cap Racines \subseteq Ids(Abandonner(M, lot).file) \cup Abandonner(M, lot).refusees
          /\ Liens(Abandonner(M, lot).file) \subseteq Liens(file) /\ Paires(Abandonner(M, lot).file) \subseteq Paires(file)
          /\ Liens(Abandonner(M, lot).file) \cap Ids(file) \subseteq Ids(Abandonner(M, lot).file)
      <3>1. Range(lot) \subseteq Evts
        BY <1>4 DEF S
      <3> QED BY <1>3, <3>1, AbandonnerFaits DEF S
    <2> DEFINE Issue(m) ==
          /\ m \in Memoires
          /\ Ids(m.file) \subseteq Ids(file) /\ Ids(file) \subseteq Ids(m.file) \cup m.perdus \cup recus'
          /\ perdus \subseteq m.perdus /\ m.perdus \subseteq Vus /\ m.contretemps \subseteq Vus /\ refusees \subseteq m.refusees
          /\ Ids(file) \cap Racines \subseteq Ids(m.file) \cup m.refusees \cup recus'
          /\ Liens(m.file) \subseteq Liens(file) /\ Paires(m.file) \subseteq Paires(file) /\ Liens(m.file) \cap Ids(file) \subseteq Ids(m.file) \cup recus'
          /\ Prudent => Loues(m.file) = {}
    <2>4. r = "2xx" => Issue(Ack(M, lot))
      BY <1>3, <1>5, <1>7, <2>1
    <2>5. Issue(Nack(M, lot))
      BY <1>3, <1>5, <1>7, <2>2
    <2>6. Issue(Abandonner(M, lot))
      BY <1>3, <1>4, <1>5, <1>7, <2>3
    <2>7. ASSUME NEW m, Issue(m), NEW p \in 1..MaxLot, Boucler(m, p), recul' \in BOOLEAN
          PROVE  IInv'
      <3>1. /\ m \in Memoires
            /\ Ids(m.file) \subseteq Ids(file) /\ Ids(file) \subseteq Ids(m.file) \cup m.perdus \cup recus'
            /\ perdus \subseteq m.perdus /\ m.perdus \subseteq Vus /\ m.contretemps \subseteq Vus /\ refusees \subseteq m.refusees
            /\ Ids(file) \cap Racines \subseteq Ids(m.file) \cup m.refusees \cup recus'
            /\ Liens(m.file) \subseteq Liens(file) /\ Paires(m.file) \subseteq Paires(file) /\ Liens(m.file) \cap Ids(file) \subseteq Ids(m.file) \cup recus'
            /\ Prudent => Loues(m.file) = {}
        BY <2>7
      <3>2. Boucler(m, p)
        BY <2>7
      <3>3. EnTete' /\ Contenu' /\ EnVol' /\ Horloge' /\ Rattrapage' /\ Bail' /\ Attaches'
        BY <1>1, <1>2, <1>5, <1>6, <2>0, <3>1, <3>2, Tour
      <3> QED BY <1>9, <2>7, <3>3
    <2>8. ASSUME NEW m, Issue(m), Memoire(m), EnVol', flush'.etape # "vol", recul' \in BOOLEAN
          PROVE  IInv'
      <3>1. /\ m \in Memoires
            /\ Ids(m.file) \subseteq Ids(file) /\ Ids(file) \subseteq Ids(m.file) \cup m.perdus \cup recus'
            /\ perdus \subseteq m.perdus /\ m.perdus \subseteq Vus /\ m.contretemps \subseteq Vus /\ refusees \subseteq m.refusees
            /\ Ids(file) \cap Racines \subseteq Ids(m.file) \cup m.refusees \cup recus'
            /\ Liens(m.file) \subseteq Liens(file) /\ Paires(m.file) \subseteq Paires(file) /\ Liens(m.file) \cap Ids(file) \subseteq Ids(m.file) \cup recus'
            /\ Prudent => Loues(m.file) = {}
        BY <2>8
      <3>2. Memoire(m) /\ EnVol' /\ flush'.etape # "vol"
        BY <2>8
      <3>3. EnTete' /\ Contenu' /\ Horloge' /\ Rattrapage' /\ Bail' /\ Attaches'
        BY <1>1, <1>2, <1>5, <1>6, <3>1, <3>2, Fin
      <3> QED BY <1>9, <2>8, <3>3
    <2> HIDE DEF Issue
    <2>9. MaxLot \in 1..MaxLot /\ recul \in BOOLEAN
      BY <1>4 DEF IInv, Cadre
    <2>10. CASE r = "2xx"
      <3>1. Boucler(Ack(M, lot), MaxLot) /\ recul' = FALSE
        BY <1>11, <2>10 DEF Decision, lot
      <3> QED BY <2>4, <2>7, <2>9, <2>10, <3>1
    <2>11. CASE r = "tropGros" /\ Len(lot) > 1
      <3> DEFINE n == Len(lot)
      <3>1. n \in 1..MaxLot /\ n > 1
        BY <1>4, <2>11
      <3> HIDE DEF n
      <3>2. n # 1 /\ n \div 2 \in 1..MaxLot
        BY <1>4, <3>1
      <3>3. Len(flush.lot) # 1 /\ Len(flush.lot) > 1 /\ Len(lot) \div 2 \in 1..MaxLot
        BY <2>11, <3>2 DEF n, lot
      <3>4. Boucler(Nack(M, lot), Len(lot) \div 2) /\ recul' = recul
        BY <1>11, <2>11, <3>3 DEF Decision, lot
      <3> QED BY <2>5, <2>7, <2>9, <3>3, <3>4
    <2>12. CASE r = "tropGros" /\ Len(lot) = 1
      <3>1. Boucler(Abandonner(M, lot), MaxLot) /\ recul' = recul
        BY <1>11, <2>12 DEF Decision, lot
      <3> QED BY <2>6, <2>7, <2>9, <3>1
    <2>13. CASE r = "definitif"
      <3>1. Memoire(Abandonner(M, lot)) /\ flush' = Repos /\ recul' = TRUE
        BY <1>11, <2>13 DEF Decision, lot, Finir
      <3>2. EnVol' /\ flush'.etape # "vol"
        BY <1>1, <1>3, <3>1, ReposFaits
      <3> QED BY <2>6, <2>8, <3>1, <3>2
    <2>14. CASE r = "rejouable"
      <3> DEFINE m == Nack(M, lot)
      <3>1. recul' = TRUE /\ Memoire(m)
            /\ (\/ flush' = [Repos EXCEPT !.etape = "sauve", !.epoque = epoque, !.lot = m.file]
                \/ flush' = Repos)
        BY <1>11, <2>14 DEF Decision, lot
      <3>2. m.file \in Queues /\ Ids(m.file) \subseteq Vus
        BY <1>3, <2>2 DEF Memoires
      <3> HIDE DEF m
      <3>3. EnVol' /\ flush'.etape # "vol"
        <4>1. CASE flush' = Repos
          BY <1>1, <1>3, <4>1, ReposFaits
        <4>2. CASE flush' = [Repos EXCEPT !.etape = "sauve", !.epoque = epoque, !.lot = m.file]
          <5>1. flush'.etape = "sauve"
            BY <4>2 DEF Repos
          <5>2. flush'.epoque = epoque
            BY <4>2 DEF Repos
          <5>3. flush'.lot = m.file
            BY <4>2 DEF Repos
          <5>4. flush'.plafond = MaxLot
            BY <4>2 DEF Repos
          <5> QED BY <1>2, <1>3, <2>9, <3>2, <5>1, <5>2, <5>3, <5>4 DEF EnVol
        <4> QED BY <3>1, <4>1, <4>2
      <3> QED BY <2>5, <2>8, <3>1, <3>3 DEF m
    <2>15. Len(lot) > 1 \/ Len(lot) = 1
      <3> DEFINE n == Len(lot)
      <3>1. n \in 1..MaxLot
        BY <1>4
      <3> HIDE DEF n
      <3>2. n > 1 \/ n = 1
        BY <1>4, <3>1
      <3> QED BY <3>2 DEF n
    <2> QED BY <2>10, <2>11, <2>12, <2>13, <2>14, <2>15 DEF Reponses
  <1> QED BY <1>1, <1>10, <1>11

LEMMA Vide == <<>> \in Queues /\ Ids(<<>>) = {} /\ Prises(<<>>) = {} /\ Paires(<<>>) = {} /\ Loues(<<>>) = {}
              /\ Cardinality(Prises(<<>>)) = 0
  BY EmptySeq, FS_EmptySet DEF Queues, Ids, Prises, Paires, Loues

LEMMA Premiere ==
  ASSUME NEW t \in Coroutines
  PROVE  <<t>> \in Seq(Coroutines) /\ DOMAIN <<t>> = {1} /\ <<t>>[1] = t
  OBVIOUS

LEMMA TuerPas == ASSUME IInv, Tuer PROVE IInv'
  <1> DEFINE t == Tache("bootId", 0)
  <1>1. /\ vies < montage.maxVies /\ vies' = vies + 1
        /\ oublies' = oublies \cup Ids(file) /\ restait' = restait \cup Ids(disque.evts)
        /\ epoque' = 1 /\ file' = <<>> /\ refusees' = {} /\ fenetre' = Aucune
        /\ flush' = Repos /\ recul' = FALSE /\ visiteur' = 0 /\ taches' = <<t>> /\ pret' = 1
        /\ UNCHANGED <<montage, etat, stockage, perimes, suivant, revocations, gen, recus, perdus, contretemps>>
    BY DEF Tuer, Lancer
  <1>2. /\ UNCHANGED <<ident, disque>> /\ Racines' = Racines /\ N' = N /\ Evts' = Evts /\ Vus' = Vus
        /\ MaxLot' = MaxLot /\ MaxFile' = MaxFile /\ Queues' = Queues /\ Coroutines' = Coroutines /\ Memoires' = Memoires
    BY <1>1, Montage DEF stockage, Vus
  <1>3. /\ M \in Memoires /\ M.perdus = perdus /\ M.contretemps = contretemps
        /\ Ids(file) \subseteq Vus /\ perdus \subseteq Vus /\ contretemps \subseteq Vus
        /\ Ids(disque.evts) \subseteq Vus /\ montage \in Montages /\ MaxLot \in Nat /\ vies \in Nat \ {0}
    <2>1. montage \in Montages
      BY DEF IInv, Cadre
    <2> QED BY <2>1, Constantes DEF IInv, EnTete, M, Cadre, Appareil
  <1>4. t \in Coroutines /\ t.pas = "bootId" /\ t.epoque = 0 /\ Ids(t.evts) = {}
    BY Taches DEF Pas
  <1> HIDE DEF t
  <1>5. taches' \in Seq(Coroutines) /\ DOMAIN taches' = {1} /\ taches'[1] = t
    BY <1>1, <1>4, Premiere
  <1>6. Cadre'
    <2>1. fenetre'.r = 0
      BY <1>1 DEF Aucune
    <2>2. oublies' \subseteq Vus /\ restait' \subseteq Vus
      BY <1>1, <1>3 DEF IInv, Cadre
    <2>3. vies' \in Nat \ {0}
      BY <1>1, <1>3
    <2>4. recul' \in BOOLEAN
      BY <1>1
    <2>5. epoque' = 1 /\ visiteur' = 0
      BY <1>1
    <2>6. UNCHANGED <<montage, etat, perimes, suivant, revocations, gen, recus>>
      BY <1>1
    <2>7. fenetre'.r \in Racines' \cup {0}
      BY <2>1
    <2> QED BY <1>2, <2>2, <2>3, <2>4, <2>5, <2>6, <2>7 DEF IInv, Cadre
  <1>7. EnTete'
    <2>1. M' = [file |-> <<>>, refusees |-> {}, perdus |-> perdus, contretemps |-> contretemps]
      BY <1>1 DEF M
    <2>2. M' \in Memoires'
      BY <1>2, <1>3, <2>1, Vide DEF Memoires
    <2> QED BY <1>1, <1>2, <1>3, <2>2, Vide DEF EnTete
  <1>8. EnVol' /\ flush'.etape = "repos"
    BY <1>1, <1>3, ReposFaits
  <1>9. Appareil'
    <2>1. pret' \in DOMAIN taches'
      BY <1>1, <1>5
    <2>2. \A k \in DOMAIN taches' : Ids(taches'[k].evts) \subseteq Vus
      BY <1>4, <1>5
    <2> QED BY <1>2, <1>5, <2>1, <2>2 DEF IInv, Appareil, Ids
  <1>10. Contenu'
    <2>1. RienDeTu'
      BY <1>1 DEF IInv, Contenu, RienDeTu
    <2>2. EpoqueCourante'
      BY <1>1, EmptySeq DEF EpoqueCourante
    <2> QED BY <2>1, <2>2 DEF Contenu
  <1>11. SansReprise' /\ Horloge' /\ Rattrapage'
    <2>1. SansReprise'
      BY <1>4, <1>5 DEF SansReprise
    <2>2. Horloge'
      BY <1>1, <1>4, <1>5, <1>8 DEF Horloge
    <2>3. Rattrapage'
      <3>1. vies' # 1
        BY <1>1, <1>3
      <3>2. taches'[pret'].pas \in Ouvert
        BY <1>1, <1>4, <1>5 DEF Ouvert
      <3> QED BY <1>8, <3>1, <3>2 DEF Rattrapage
    <2> QED BY <2>1, <2>2, <2>3
  <1>12. Bail'
    BY <1>1, <1>2, <1>3, <1>8, Vide DEF Bail
  <1>13. Attaches'
    <2>1. fenetre'.r = 0
      BY <1>1 DEF Aucune
    <2> QED BY <1>1, <2>1, Vide DEF Attaches, Tenue
  <1> QED BY <1>6, <1>7, <1>8, <1>9, <1>10, <1>11, <1>12, <1>13 DEF IInv

LEMMA Depart == Init => IInv
  <1> SUFFICES ASSUME Init PROVE IInv
    OBVIOUS
  <1> DEFINE t == Tache("bootId", 0)
  <1>1. /\ montage \in Montages /\ etat = montage.depart /\ epoque = 1 /\ file = <<>> /\ refusees = {} /\ fenetre = Aucune
        /\ flush = Repos /\ recul = FALSE /\ visiteur = 0 /\ taches = <<t>> /\ pret = 1
        /\ ident = PasDIdent /\ disque = PasDeFile /\ perimes = {}
        /\ suivant = 1 /\ revocations = 0 /\ gen = [e \in Evts |-> 0]
        /\ recus = {} /\ perdus = {} /\ oublies = {} /\ restait = {} /\ contretemps = {} /\ vies = 1
    BY DEF Init
  <1>2. N \in Nat /\ MaxLot \in Nat \ {0} /\ montage.depart \in {"pending", "granted"}
    BY <1>1, Constantes
  <1>3. t \in Coroutines /\ t.pas = "bootId" /\ t.epoque = 0 /\ Ids(t.evts) = {}
    <2>1. "bootId" \in Pas /\ 0 \in Nat
      BY DEF Pas
    <2> QED BY <2>1, Taches
  <1> HIDE DEF t
  <1>4. taches \in Seq(Coroutines) /\ DOMAIN taches = {1} /\ taches[1] = t
    BY <1>1, <1>3, Premiere
  <1>5. fenetre.r = 0 /\ ident.epoque = 0 /\ ident.v = 0 /\ disque.epoque = 0 /\ disque.evts = <<>>
        /\ ident \in [epoque : Nat, v : Nat]
    BY <1>1 DEF Aucune, PasDIdent, PasDeFile
  <1>6. flush.etape = "repos" /\ flush.plafond = MaxLot /\ flush.epoque = 0
    BY <1>1 DEF Repos
  <1>7. Vus = {}
    BY <1>1 DEF Vus
  <1>8. Cadre
    <2>1. suivant \in 1..(N + 1)
      BY <1>1, <1>2
    <2>2. gen \in [Evts -> Nat]
      BY <1>1
    <2>3. /\ revocations \in Nat /\ vies \in Nat \ {0} /\ etat \in {"pending", "granted", "denied"} /\ epoque \in Nat \ {0}
          /\ recul \in BOOLEAN /\ visiteur \in Nat /\ fenetre.r \in Racines \cup {0}
      <3>1. revocations = 0 /\ vies = 1 /\ epoque = 1 /\ visiteur = 0
        BY <1>1
      <3>2. etat \in {"pending", "granted", "denied"}
        <4>1. etat = montage.depart
          BY <1>1
        <4> QED BY <1>2, <4>1
      <3>3. recul \in BOOLEAN
        BY <1>1
      <3> QED BY <1>5, <3>1, <3>2, <3>3
    <2>4. /\ perimes \subseteq montage.perissables /\ perimes \subseteq Vus
          /\ recus \subseteq Vus /\ oublies \subseteq Vus /\ restait \subseteq Vus
      BY <1>1
    <2>5. montage \in Montages
      BY <1>1
    <2> QED BY <2>1, <2>2, <2>3, <2>4, <2>5 DEF Cadre
  <1>9. EnTete
    <2>1. M = [file |-> <<>>, refusees |-> {}, perdus |-> {}, contretemps |-> {}]
      BY <1>1 DEF M
    <2> QED BY <1>1, <1>7, <2>1, Vide DEF EnTete, Memoires
  <1>10. EnVol
    <2>1. MaxLot \in 1..MaxLot
      BY <1>2
    <2> QED BY <1>6, <2>1 DEF EnVol
  <1>11. Appareil
    <2>1. disque \in [epoque : Nat, evts : Queues] /\ Ids(disque.evts) \subseteq Vus
      BY <1>1, <1>5, Vide DEF PasDeFile
    <2>2. pret \in DOMAIN taches /\ \A k \in DOMAIN taches : Ids(taches[k].evts) \subseteq Vus
      BY <1>1, <1>3, <1>4
    <2> QED BY <1>4, <1>5, <2>1, <2>2 DEF Appareil
  <1>12. Contenu
    <2>1. RienDeTu
      BY <1>7 DEF RienDeTu, Vus
    <2>2. EpoqueCourante
      BY <1>1, EmptySeq DEF EpoqueCourante
    <2> QED BY <2>1, <2>2 DEF Contenu
  <1>13. SansReprise /\ Horloge /\ Rattrapage
    BY <1>1, <1>3, <1>4, <1>5, <1>6 DEF SansReprise, Horloge, Rattrapage
  <1>14. Bail
    BY <1>1, <1>2, <1>6, Vide DEF Bail
  <1>15. Attaches
    BY <1>1, <1>5, Vide DEF Attaches, Tenue
  <1> QED BY <1>8, <1>9, <1>10, <1>11, <1>12, <1>13, <1>14, <1>15 DEF IInv

LEMMA Immobile == ASSUME IInv, UNCHANGED vars PROVE IInv'
  <1>1. UNCHANGED <<montage, etat, epoque, file, refusees, fenetre, flush, recul, visiteur, taches, pret,
                    ident, disque, perimes, suivant, revocations, gen, recus, perdus, oublies,
                    restait, contretemps, vies>>
    BY DEF vars
  <1>2. UNCHANGED memoire /\ UNCHANGED stockage
    BY <1>1 DEF memoire, stockage
  <1>3. Racines' = Racines /\ N' = N /\ Evts' = Evts /\ Vus' = Vus
    BY <1>1, Montage DEF Vus
  <1>4. Cadre'
    BY <1>1, <1>3 DEF IInv, Cadre
  <1>5. EnTete' /\ Contenu' /\ EnVol' /\ Appareil'
    BY <1>1, <1>2, EnTeteReste, ContenuReste, EnVolReste, AppareilReste DEF IInv
  <1>6. SansReprise' /\ Horloge' /\ Rattrapage'
    BY <1>1 DEF IInv, SansReprise, Horloge, Rattrapage, Prudent
  <1>7. Bail' /\ Attaches'
    BY <1>1, PrudentReste, BailReste, AttachesReste DEF IInv
  <1> QED BY <1>4, <1>5, <1>6, <1>7 DEF IInv

LEMMA Etape == IInv /\ [Next]_vars => IInv'
  <1> SUFFICES ASSUME IInv, [Next]_vars PROVE IInv'
    OBVIOUS
  <1>1. CASE UNCHANGED vars
    BY <1>1, Immobile
  <1>2. ASSUME NEW admis \in BOOLEAN, Collecter(admis) PROVE IInv'
    BY <1>2, CollecterPas
  <1>3. CASE FermerFenetre
    BY <1>3, FermerFenetrePas
  <1>4. ASSUME NEW e \in Evts, Vieillir(e) PROVE IInv'
    BY <1>4, VieillirPas
  <1>5. CASE Consentir
    BY <1>5, ConsentirPas
  <1>6. CASE Refuser
    BY <1>6, RefuserPas
  <1>7. CASE ArrierePlan
    BY <1>7, ArrierePlanPas
  <1>8. CASE DemarrerFlush
    BY <1>8, DemarrerFlushPas
  <1>9. CASE EntrerFlush
    BY <1>9, EntrerFlushPas
  <1>10. CASE FinirSauvegarde
    BY <1>10, FinirSauvegardePas
  <1>11. CASE Patienter
    BY <1>11, PatienterPas
  <1>12. ASSUME NEW r \in Reponses, Repondre(r) PROVE IInv'
    BY <1>12, RepondrePas
  <1>13. ASSUME NEW k \in DOMAIN taches, Coroutine(k) PROVE IInv'
    <2>1. ASSUME NEW lu \in {ident} \cup (IF montage.lectureFragile THEN {PasDIdent} ELSE {}), BootId(k, lu)
          PROVE  IInv'
      BY <2>1, BootIdPas
    <2>2. CASE BootEcrit(k)
      BY <2>2, BootEcritPas
    <2>3. CASE BootFile(k)
      BY <2>3, BootFilePas
    <2>4. CASE Effacer(k)
      BY <2>4, EffacerPas
    <2>5. CASE EcrireRefus(k)
      BY <2>5, EcrireRefusPas
    <2>6. CASE Sauver(k)
      BY <2>6, SauverPas
    <2> QED BY <1>13, <2>1, <2>2, <2>3, <2>4, <2>5, <2>6 DEF Coroutine
  <1>14. CASE Tuer
    BY <1>14, TuerPas
  <1> QED BY <1>1, <1>2, <1>3, <1>4, <1>5, <1>6, <1>7, <1>8, <1>9, <1>10, <1>11, <1>12, <1>13, <1>14 DEF Next

LEMMA Invariant == Spec => []IInv
  <1>1. Init => IInv
    BY Depart
  <1>2. IInv /\ [Next]_vars => IInv'
    BY Etape
  <1> QED BY <1>1, <1>2, PTL DEF Spec

-----------------------------------------------------------------------------
(* What follows from it *)

\* The SDK's types hold (index.ts, queue.ts, persist.ts), and all that is held, leased, refused or
\* counted has been collected.
THEOREM TypeCorrect == Spec => []TypeOK
  <1>1. IInv => TypeOK
    <2> SUFFICES ASSUME IInv PROVE TypeOK
      OBVIOUS
    <2>1. file \in Seq(Entrees) /\ refusees \subseteq Racines /\ Ids(file) \subseteq 1..(suivant - 1)
          /\ perdus \subseteq 1..(suivant - 1) /\ contretemps \subseteq 1..(suivant - 1)
      BY DEF IInv, EnTete, M, Memoires, Queues, Vus
    <2>2. /\ etat \in {"pending", "granted", "denied"} /\ epoque \in Nat \ {0} /\ fenetre.r \in Racines \cup {0}
          /\ recul \in BOOLEAN /\ visiteur \in Nat /\ perimes \subseteq montage.perissables
          /\ recus \subseteq 1..(suivant - 1) /\ oublies \subseteq 1..(suivant - 1) /\ restait \subseteq 1..(suivant - 1)
      BY DEF IInv, Cadre, Vus
    <2>3. flush.etape \in {"repos", "attend", "vol", "sauve"} /\ flush.plafond \in 1..MaxLot
      BY DEF IInv, EnVol
    <2>4. pret \in DOMAIN taches /\ \A k \in DOMAIN taches : taches[k].pas \in Pas
      BY Fil DEF IInv, Appareil
    <2>5. \A S \in {recus, perdus, oublies, restait, contretemps} : S \subseteq 1..(suivant - 1)
      BY <2>1, <2>2
    <2> QED BY <2>1, <2>2, <2>3, <2>4, <2>5 DEF TypeOK
  <1> QED BY <1>1, Invariant, PTL

\* queue.ts, "appartient donc, par construction, a l'epoque courante": with the queue in memory,
\* nothing collected before a revocation is in the queue after it.
THEOREM CurrentEpoch == Spec => []EpoqueCourante
  <1>1. IInv => EpoqueCourante
    BY DEF IInv, Contenu
  <1> QED BY <1>1, Invariant, PTL

\* queue.ts, "Acquittement avant retrait": an event collected is in the queue, or the server
\* has it, or it is counted as dropped, or the process died with it.
THEOREM NothingSilent == Spec => []RienDeTu
  <1>1. IInv => RienDeTu
    BY DEF IInv, Contenu
  <1> QED BY <1>1, Invariant, PTL

\* flushInterne, "un lot parti et jamais acquitte revient donc dans la file": in the first life
\* of the process, or on a storage that does not fail, an entry is leased only while the batch
\* it is in waits for its answer.
THEOREM LeaseOfBatch == Spec => [](Prudent => BailDuLot)
  <1>1. IInv => (Prudent => BailDuLot)
    <2> SUFFICES ASSUME IInv, Prudent, NEW i \in DOMAIN file, file[i].prise
                 PROVE  flush.etape = "vol" /\ file[i].id \in Range(flush.lot)
      BY DEF BailDuLot
    <2>1. file[i].id \in Loues(file)
      BY DEF Loues, Prises
    <2> QED BY <2>1 DEF IInv, Bail
  <1> QED BY <1>1, Invariant, PTL

\* index.ts, "UN ENFANT NE SURVIT PAS A SA RACINE": with the queue in memory and a bound above the
\* size of a batch, an event of the queue is only linked to a root that is in the queue, or that
\* the server has received; one event escapes it for each root that got too old.
THEOREM LiveLinks == Spec => []((~montage.persistant /\ Prudent /\ MaxLot < MaxFile) => LienVivant)
  <1>1. IInv => ((~montage.persistant /\ Prudent /\ MaxLot < MaxFile) => LienVivant)
    <2> SUFFICES ASSUME IInv, ~montage.persistant, Prudent, MaxLot < MaxFile, NEW i \in DOMAIN file,
                        file[i].lien # 0, file[i].lien \notin Ids(file) \cup recus
                 PROVE  /\ file[i].lien \in perimes
                        /\ \A j \in DOMAIN file : file[j].lien = file[i].lien => file[j].id = file[i].id
      BY DEF LienVivant
    <2>1. \A j \in DOMAIN file : file[j].lien # 0 => <<file[j].id, file[j].lien>> \in Paires(file)
      BY DEF Paires
    <2>2. Tenue(file, recus, perimes \cap refusees)
      BY DEF IInv, Attaches
    <2> QED BY <2>1, <2>2 DEF Tenue
  <1> QED BY <1>1, Invariant, PTL

(***************************************************************************)
(* MobileStore: the record written in two slots.                            *)
(***************************************************************************)

\* A coroutine that is alone: its copy of the manifest is current, or it could not read one.
Copie ==
  \A w \in Ecrivains :
    /\ ecrivain[w].pas = "repos" => ~ecrivain[w].seul
    /\ ecrivain[w].seul =>
         /\ \A v \in Ecrivains \ {w} : ecrivain[v].pas = "repos"
         /\ ecrivain[w].pas \in {"emplacement", "manifeste"} => ecrivain[w].aveugle \/ ecrivain[w].lu = manifeste
         /\ ecrivain[w].pas = "manifeste" => emplacements[Cible(w)] = ecrivain[w].n
         /\ ecrivain[w].pas \in {"efface0", "efface1"} => incertain \/ ~manifeste.lisible

\* The active slot holds the last record, whole.
Actif ==
  ~incertain =>
    IF manifeste.lisible
    THEN /\ dernier # Absent
         /\ manifeste.sommes[manifeste.actif] = dernier
         /\ emplacements[manifeste.actif] = dernier
    ELSE dernier = Absent

\* A manifest knows no record but those whose write ended.
Connus(m) == \A s \in Slots : m.sommes[s] \in finis \cup {Absent}
Sommes == Connus(manifeste) /\ \A w \in Ecrivains : Connus(ecrivain[w].lu)

StoreIInv == StoreTypeOK /\ Copie /\ Actif /\ Sommes

USE StoreAssumption

Etats == [pas : StorePas, n : Records \cup {Absent}, lu : Manifestes, aveugle : BOOLEAN, seul : BOOLEAN]

\* Nothing on the device and nothing begun.
LEMMA StoreDepart ==
  /\ SansManifeste \in Manifestes /\ ~SansManifeste.lisible /\ Connus(SansManifeste)
  /\ StoreRepos \in Etats /\ StoreRepos.pas = "repos" /\ ~StoreRepos.seul /\ StoreRepos.lu = SansManifeste
  <1>1. SansManifeste \in Manifestes /\ ~SansManifeste.lisible
    BY DEF SansManifeste, Manifestes, Slots
  <1>2. Connus(SansManifeste)
    BY DEF Connus, SansManifeste
  <1> QED
    BY <1>1, <1>2 DEF StoreRepos, Etats, StorePas

LEMMA StoreTypes ==
  ASSUME StoreTypeOK
  PROVE  /\ ecrivain \in [Ecrivains -> Etats] /\ manifeste \in Manifestes
         /\ emplacements \in [Slots -> Records \cup {Absent, Tronque}] /\ incertain \in BOOLEAN
         /\ ecrits \in 0..MaxEcritures /\ finis \subseteq Records /\ dernier \in Records \cup {Absent}
         /\ \A w \in Ecrivains : ecrivain[w].pas \in {"emplacement", "manifeste"} => ecrivain[w].n \in Records
  BY DEF StoreTypeOK, Etats

LEMMA StoreInitIInv == StoreInit => StoreIInv
  <1> SUFFICES ASSUME StoreInit PROVE StoreIInv
    OBVIOUS
  <1>1. StoreTypeOK
    <2>1. ecrivain \in [Ecrivains -> Etats] /\ \A w \in Ecrivains : ecrivain[w].pas = "repos"
      BY StoreDepart DEF StoreInit
    <2>2. emplacements \in [Slots -> Records \cup {Absent, Tronque}]
      BY DEF StoreInit
    <2>3. manifeste \in Manifestes
      BY StoreDepart DEF StoreInit
    <2>4. MaxEcritures \in Nat
      BY StoreAssumption DEF StoreAssumption
    <2>5. ecrits \in 0..MaxEcritures /\ dernier \in Records \cup {Absent} /\ finis \subseteq Records
      BY <2>4 DEF StoreInit
    <2>6. incertain \in BOOLEAN
      BY Zenon DEF StoreInit
    <2> QED
      BY <2>1, <2>2, <2>3, <2>5, <2>6 DEF StoreTypeOK, Etats
  <1>2. Copie /\ Actif /\ Sommes
    BY StoreDepart DEF StoreInit, Copie, Actif, Sommes
  <1> QED
    BY <1>1, <1>2 DEF StoreIInv

\* A coroutine begins, alone or not.
LEMMA EntamerFaits ==
  ASSUME StoreIInv, NEW w \in Ecrivains, ecrivain[w].pas = "repos", NEW e \in Etats, Entamer(w, e)
  PROVE  /\ ecrivain' \in [Ecrivains -> Etats]
         /\ ecrivain'[w].pas = e.pas /\ ecrivain'[w].n = e.n /\ ecrivain'[w].lu = e.lu /\ ecrivain'[w].aveugle = e.aveugle
         /\ ecrivain'[w].seul => \A v \in Ecrivains \ {w} : ecrivain'[v].pas = "repos"
         /\ \A v \in Ecrivains \ {w} :
              /\ ~ecrivain'[v].seul /\ ecrivain'[v].pas = ecrivain[v].pas /\ ecrivain'[v].n = ecrivain[v].n
              /\ ecrivain'[v].lu = ecrivain[v].lu
  <1> DEFINE seul == \A v \in Ecrivains : ecrivain[v].pas = "repos"
  <1>1. ecrivain \in [Ecrivains -> Etats] /\ seul \in BOOLEAN
    BY StoreTypes DEF StoreIInv
  <1>2. ecrivain' = [v \in Ecrivains |-> IF v = w THEN [e EXCEPT !.seul = seul] ELSE [ecrivain[v] EXCEPT !.seul = FALSE]]
    BY DEF Entamer
  <1>3. ecrivain'[w].seul = seul
    BY <1>2 DEF Etats
  <1>4. seul => \A v \in Ecrivains : ecrivain[v].pas = "repos"
    OBVIOUS
  <1> HIDE DEF seul
  <1>5. [e EXCEPT !.seul = seul] \in Etats /\ \A v \in Ecrivains : [ecrivain[v] EXCEPT !.seul = FALSE] \in Etats
    BY <1>1 DEF Etats
  <1>6. ecrivain' \in [Ecrivains -> Etats]
    BY <1>2, <1>5
  <1>7. /\ ecrivain'[w].pas = e.pas /\ ecrivain'[w].n = e.n /\ ecrivain'[w].lu = e.lu /\ ecrivain'[w].aveugle = e.aveugle
        /\ \A v \in Ecrivains \ {w} :
             /\ ~ecrivain'[v].seul /\ ecrivain'[v].pas = ecrivain[v].pas /\ ecrivain'[v].n = ecrivain[v].n
             /\ ecrivain'[v].lu = ecrivain[v].lu
    BY <1>1, <1>2 DEF Etats
  <1> QED BY <1>3, <1>4, <1>6, <1>7

LEMMA LireIInv ==
  ASSUME StoreIInv, NEW w \in Ecrivains, Lire(w)
  PROVE  StoreIInv'
  <1> DEFINE e(echec) == [StoreRepos EXCEPT !.pas = "emplacement", !.n = ecrits + 1, !.aveugle = echec,
                                            !.lu = IF echec THEN SansManifeste ELSE manifeste]
  <1>1. PICK echec \in BOOLEAN : Entamer(w, e(echec))
    BY DEF Lire
  <1>2. /\ ecrivain[w].pas = "repos" /\ ecrits' = ecrits + 1 /\ ecrits' \in 0..MaxEcritures /\ ecrits + 1 \in Records
        /\ UNCHANGED <<manifeste, emplacements, finis, dernier, incertain>>
    BY StoreTypes DEF StoreIInv, Lire, Records
  <1>3. /\ e(echec) \in Etats /\ e(echec).pas = "emplacement" /\ e(echec).n = ecrits + 1
        /\ e(echec).aveugle = echec /\ e(echec).lu = IF echec THEN SansManifeste ELSE manifeste
    BY <1>2, StoreDepart, StoreTypes DEF StoreIInv, StoreRepos, Etats, StorePas
  <1> HIDE DEF e
  <1>4. /\ ecrivain' \in [Ecrivains -> Etats]
        /\ ecrivain'[w].pas = "emplacement" /\ ecrivain'[w].n = ecrits + 1 /\ ecrivain'[w].aveugle = echec
        /\ ecrivain'[w].lu = IF echec THEN SansManifeste ELSE manifeste
        /\ ecrivain'[w].seul => \A v \in Ecrivains \ {w} : ecrivain'[v].pas = "repos"
        /\ \A v \in Ecrivains \ {w} :
             /\ ~ecrivain'[v].seul /\ ecrivain'[v].pas = ecrivain[v].pas /\ ecrivain'[v].n = ecrivain[v].n
             /\ ecrivain'[v].lu = ecrivain[v].lu
    BY <1>1, <1>2, <1>3, EntamerFaits
  <1>5. StoreTypeOK'
    BY <1>2, <1>4 DEF StoreIInv, StoreTypeOK, Etats
  <1>6. Copie'
    BY <1>2, <1>4 DEF Copie
  <1>7. Actif' /\ Sommes'
    BY <1>2, <1>4, StoreDepart DEF StoreIInv, Actif, Sommes, Connus
  <1> QED
    BY <1>5, <1>6, <1>7 DEF StoreIInv

\* The slot to be written is never the active one, if the manifest read is the
\* one on the device.
LEMMA CibleLibre ==
  ASSUME StoreTypeOK, NEW w \in Ecrivains
  PROVE  Cible(w) \in Slots /\ (ecrivain[w].lu = manifeste /\ manifeste.lisible => Cible(w) # manifeste.actif)
  BY DEF StoreTypeOK, Manifestes, Cible, Slots

\* What is written to its slot leaves the active one as it is, or leaves the reading uncertain.
LEMMA SurLibre ==
  ASSUME StoreIInv, NEW w \in Ecrivains, ecrivain[w].pas = "emplacement", NEW x,
         emplacements' = [emplacements EXCEPT ![Cible(w)] = x],
         incertain' = (incertain \/ Hasard(w)), UNCHANGED <<manifeste, dernier>>
  PROVE  Actif'
  <1>1. Cible(w) \in Slots /\ (ecrivain[w].lu = manifeste /\ manifeste.lisible => Cible(w) # manifeste.actif)
    BY CibleLibre DEF StoreIInv
  <1>2. Actif /\ Copie
    BY DEF StoreIInv
  <1>3. manifeste.actif \in Slots /\ emplacements \in [Slots -> Records \cup {Absent, Tronque}]
    BY DEF StoreIInv, StoreTypeOK, Manifestes
  <1>4. ecrivain[w].aveugle \in BOOLEAN /\ ecrivain[w].seul \in BOOLEAN /\ incertain \in BOOLEAN
    BY DEF StoreIInv, StoreTypeOK
  <1>5. ASSUME ~incertain', manifeste.lisible
        PROVE  ~incertain /\ emplacements'[manifeste.actif] = emplacements[manifeste.actif]
    <2>1. ~incertain /\ ~ecrivain[w].aveugle /\ ecrivain[w].seul
      BY <1>4, <1>5 DEF Hasard
    <2>2. ecrivain[w].lu = manifeste
      BY <1>2, <2>1 DEF Copie
    <2>3. Cible(w) # manifeste.actif
      BY <1>1, <1>5, <2>2
    <2> QED BY <1>3, <2>1, <2>3
  <1>6. manifeste' = manifeste /\ dernier' = dernier
    OBVIOUS
  <1>7. ~incertain' => ~incertain
    BY <1>4 DEF Hasard
  <1> QED BY <1>2, <1>5, <1>6, <1>7 DEF Actif

LEMMA EmplacementIInv ==
  ASSUME StoreIInv, NEW w \in Ecrivains, EcrireEmplacement(w)
  PROVE  StoreIInv'
  <1>1. /\ ecrivain[w].pas = "emplacement" /\ ecrivain[w].n \in Records
        /\ ecrivain' = [ecrivain EXCEPT ![w].pas = "manifeste"]
        /\ emplacements' = [emplacements EXCEPT ![Cible(w)] = ecrivain[w].n]
        /\ incertain' = (incertain \/ Hasard(w)) /\ UNCHANGED <<manifeste, ecrits, finis, dernier>>
    BY DEF StoreIInv, StoreTypeOK, EcrireEmplacement
  <1>2. Cible(w) \in Slots /\ (ecrivain[w].lu = manifeste /\ manifeste.lisible => Cible(w) # manifeste.actif)
    BY CibleLibre DEF StoreIInv
  <1>3. StoreTypeOK'
    BY <1>1, <1>2 DEF StoreIInv, StoreTypeOK, StorePas, Hasard
  <1>4. /\ ecrivain'[w].pas = "manifeste" /\ ecrivain'[w].n = ecrivain[w].n /\ ecrivain'[w].lu = ecrivain[w].lu
        /\ ecrivain'[w].seul = ecrivain[w].seul /\ ecrivain'[w].aveugle = ecrivain[w].aveugle
        /\ \A v \in Ecrivains \ {w} : ecrivain'[v] = ecrivain[v]
    BY <1>1 DEF StoreIInv, StoreTypeOK
  <1>5. Cible(w)' = Cible(w)
    BY <1>4 DEF Cible
  <1>6. emplacements'[Cible(w)] = ecrivain[w].n
    BY <1>1, <1>2 DEF StoreIInv, StoreTypeOK
  <1>7. ASSUME NEW v \in Ecrivains \ {w}
        PROVE  ~ecrivain[v].seul /\ (ecrivain'[v].pas = "repos" => ~ecrivain'[v].seul)
    BY <1>1, <1>4 DEF StoreIInv, Copie
  <1>8. Copie'
    BY <1>1, <1>4, <1>5, <1>6, <1>7 DEF StoreIInv, Copie
  <1>9. Actif'
    BY <1>1, SurLibre DEF StoreIInv
  <1>10. Sommes'
    BY <1>1, <1>4 DEF StoreIInv, Sommes, Connus
  <1> QED
    BY <1>3, <1>8, <1>9, <1>10 DEF StoreIInv

\* w comes to rest; the others go on as they were.
LEMMA ReposSuivant ==
  ASSUME StoreIInv, NEW w \in Ecrivains, ecrivain' = [ecrivain EXCEPT ![w] = StoreRepos]
  PROVE  /\ ecrivain' \in [Ecrivains -> Etats] /\ ecrivain'[w] = StoreRepos
         /\ \A v \in Ecrivains \ {w} : ecrivain'[v] = ecrivain[v]
  BY StoreTypes, StoreDepart DEF StoreIInv

LEMMA ManifesteIInv ==
  ASSUME StoreIInv, NEW w \in Ecrivains, EcrireManifeste(w)
  PROVE  StoreIInv'
  <1>1. /\ ecrivain[w].pas = "manifeste" /\ ecrivain[w].n \in Records /\ ecrivain[w].lu \in Manifestes
        /\ manifeste' = [lisible |-> TRUE, actif |-> Cible(w),
                         sommes |-> [ecrivain[w].lu.sommes EXCEPT ![Cible(w)] = ecrivain[w].n]]
        /\ dernier' = ecrivain[w].n /\ finis' = finis \cup {ecrivain[w].n} /\ incertain' = ~ecrivain[w].seul
        /\ ecrivain' = [ecrivain EXCEPT ![w] = StoreRepos]
        /\ UNCHANGED <<emplacements, ecrits>>
    BY DEF StoreIInv, StoreTypeOK, EcrireManifeste
  <1>2. Cible(w) \in Slots
    BY CibleLibre DEF StoreIInv
  <1>3. manifeste' \in Manifestes
    BY <1>1, <1>2 DEF Manifestes
  <1>4. /\ ecrivain' \in [Ecrivains -> Etats] /\ ecrivain'[w] = StoreRepos
        /\ \A v \in Ecrivains \ {w} : ecrivain'[v] = ecrivain[v]
    BY <1>1, ReposSuivant
  <1>5. StoreTypeOK'
    BY <1>1, <1>3, <1>4, StoreDepart DEF StoreIInv, StoreTypeOK, Etats
  <1>6. ASSUME NEW v \in Ecrivains \ {w}
        PROVE  ~ecrivain[v].seul
    BY <1>1 DEF StoreIInv, Copie
  <1>7. Copie'
    BY <1>4, <1>6, StoreDepart DEF Copie
  <1>8. Actif'
    <2>1. manifeste'.lisible /\ manifeste'.actif = Cible(w) /\ manifeste'.sommes[Cible(w)] = ecrivain[w].n
      BY <1>1, <1>2 DEF Manifestes
    <2>2. ecrivain[w].seul => emplacements[Cible(w)] = ecrivain[w].n
      BY <1>1 DEF StoreIInv, Copie
    <2>3. ecrivain[w].n # Absent
      BY <1>1 DEF Records, Absent
    <2> QED BY <1>1, <2>1, <2>2, <2>3 DEF Actif
  <1>9. Sommes'
    <2>1. Connus(ecrivain[w].lu) /\ \A v \in Ecrivains : Connus(ecrivain[v].lu)
      BY DEF StoreIInv, Sommes
    <2>2. Connus(manifeste)'
      BY <1>1, <1>2, <2>1 DEF Connus, Manifestes
    <2>3. ASSUME NEW v \in Ecrivains PROVE Connus(ecrivain[v].lu)'
      BY <1>1, <1>4, <2>1, StoreDepart DEF Connus, SansManifeste
    <2> QED BY <2>2, <2>3 DEF Sommes
  <1> QED
    BY <1>5, <1>7, <1>8, <1>9 DEF StoreIInv

LEMMA RenoncerIInv ==
  ASSUME StoreIInv, NEW w \in Ecrivains, Renoncer(w)
  PROVE  StoreIInv'
  <1>1. /\ ecrivain' = [ecrivain EXCEPT ![w] = StoreRepos]
        /\ UNCHANGED <<manifeste, emplacements, ecrits, finis, dernier, incertain>>
    BY DEF Renoncer
  <1>2. /\ ecrivain' \in [Ecrivains -> Etats] /\ ecrivain'[w] = StoreRepos
        /\ \A v \in Ecrivains \ {w} : ecrivain'[v] = ecrivain[v]
    BY <1>1, ReposSuivant
  <1>3. StoreTypeOK'
    BY <1>1, <1>2, StoreDepart DEF StoreIInv, StoreTypeOK, Etats
  <1>4. Copie'
    BY <1>1, <1>2, StoreDepart DEF StoreIInv, Copie, Cible
  <1>5. Actif' /\ Sommes'
    BY <1>1, <1>2, StoreDepart DEF StoreIInv, Actif, Sommes, Connus, SansManifeste
  <1> QED
    BY <1>3, <1>4, <1>5 DEF StoreIInv

LEMMA EffacerManifesteIInv ==
  ASSUME StoreIInv, NEW w \in Ecrivains, EffacerManifeste(w)
  PROVE  StoreIInv'
  <1> DEFINE e == [StoreRepos EXCEPT !.pas = "efface0"]
  <1>1. /\ ecrivain[w].pas = "repos" /\ Entamer(w, e) /\ UNCHANGED <<emplacements, ecrits, finis>>
        /\ \/ manifeste' = SansManifeste /\ dernier' = Absent /\ incertain' = FALSE
           \/ incertain' = TRUE /\ UNCHANGED <<manifeste, dernier>>
    BY DEF EffacerManifeste
  <1>2. e \in Etats /\ e.pas = "efface0" /\ e.lu = SansManifeste /\ e.n = Absent
    BY StoreDepart DEF StoreRepos, Etats, StorePas
  <1> HIDE DEF e
  <1>3. /\ ecrivain' \in [Ecrivains -> Etats]
        /\ ecrivain'[w].pas = "efface0" /\ ecrivain'[w].lu = SansManifeste
        /\ ecrivain'[w].seul => \A v \in Ecrivains \ {w} : ecrivain'[v].pas = "repos"
        /\ \A v \in Ecrivains \ {w} :
             /\ ~ecrivain'[v].seul /\ ecrivain'[v].pas = ecrivain[v].pas /\ ecrivain'[v].n = ecrivain[v].n
             /\ ecrivain'[v].lu = ecrivain[v].lu
    BY <1>1, <1>2, EntamerFaits
  <1>4. StoreTypeOK'
    <2>1. incertain' \in BOOLEAN /\ manifeste' \in Manifestes /\ dernier' \in Records \cup {Absent}
      BY <1>1, StoreTypes, StoreDepart DEF StoreIInv
    <2> QED BY <1>1, <1>3, <2>1 DEF StoreIInv, StoreTypeOK, Etats
  <1>5. Copie'
    BY <1>1, <1>3, StoreDepart DEF Copie
  <1>6. Actif'
    BY <1>1, StoreDepart DEF Actif
  <1>7. Sommes'
    BY <1>1, <1>3, StoreDepart DEF StoreIInv, Sommes, Connus, SansManifeste
  <1> QED
    BY <1>4, <1>5, <1>6, <1>7 DEF StoreIInv

LEMMA EffacerEmplacementIInv ==
  ASSUME StoreIInv, NEW w \in Ecrivains, NEW s \in Slots, EffacerEmplacement(w, s)
  PROVE  StoreIInv'
  <1>1. /\ ecrivain[w].pas \in {"efface0", "efface1"}
        /\ emplacements' \in {emplacements, [emplacements EXCEPT ![s] = Absent]}
        /\ incertain' = (incertain \/ ~ecrivain[w].seul) /\ UNCHANGED <<manifeste, ecrits, finis, dernier>>
        /\ ecrivain' = [ecrivain EXCEPT ![w] = IF s = 0 THEN [@ EXCEPT !.pas = "efface1"] ELSE StoreRepos]
    BY DEF EffacerEmplacement
  <1>2. /\ ecrivain' \in [Ecrivains -> Etats] /\ \A v \in Ecrivains \ {w} : ecrivain'[v] = ecrivain[v]
        /\ \/ ecrivain'[w] = StoreRepos
           \/ ecrivain'[w].pas = "efface1" /\ ecrivain'[w].seul = ecrivain[w].seul /\ ecrivain'[w].lu = ecrivain[w].lu
    <2>1. ecrivain[w] \in Etats /\ [ecrivain[w] EXCEPT !.pas = "efface1"] \in Etats
      BY StoreTypes DEF StoreIInv, Etats, StorePas
    <2> QED BY <1>1, <2>1, StoreTypes, StoreDepart DEF StoreIInv, Etats
  <1>3. ecrivain[w].seul => incertain \/ ~manifeste.lisible
    BY <1>1 DEF StoreIInv, Copie
  <1>4. StoreTypeOK'
    <2>1. \A v \in Ecrivains : ecrivain'[v].pas \in {"emplacement", "manifeste"} => ecrivain'[v].n \in Records
      BY <1>2, StoreDepart DEF StoreIInv, StoreTypeOK
    <2>2. emplacements' \in [Slots -> Records \cup {Absent, Tronque}]
      BY <1>1 DEF StoreIInv, StoreTypeOK
    <2>3. incertain' \in BOOLEAN
      BY <1>1, StoreTypes DEF StoreIInv, Etats
    <2> QED BY <1>1, <1>2, <2>1, <2>2, <2>3 DEF StoreIInv, StoreTypeOK, Etats
  <1>5. ASSUME NEW v \in Ecrivains \ {w}
        PROVE  ~ecrivain[v].seul
    BY <1>1 DEF StoreIInv, Copie
  <1>6. Copie'
    BY <1>1, <1>2, <1>3, <1>5, StoreDepart DEF StoreIInv, Copie
  <1>7. Actif'
    BY <1>1, <1>3 DEF StoreIInv, Actif
  <1>8. Sommes'
    BY <1>1, <1>2, StoreDepart DEF StoreIInv, Sommes, Connus, SansManifeste
  <1> QED
    BY <1>4, <1>6, <1>7, <1>8 DEF StoreIInv

LEMMA TuerIInv ==
  ASSUME StoreIInv, TuerEnEcriture
  PROVE  StoreIInv'
  <1>1. /\ ecrivain' = [w \in Ecrivains |-> StoreRepos] /\ \A w \in Ecrivains : ecrivain'[w] = StoreRepos
        /\ UNCHANGED <<ecrits, finis, dernier>>
    BY DEF TuerEnEcriture
  <1>2. Copie'
    BY <1>1, StoreDepart DEF Copie
  <1>3. ASSUME manifeste' \in Manifestes, emplacements' \in [Slots -> Records \cup {Absent, Tronque}], incertain' \in BOOLEAN
        PROVE  StoreTypeOK'
    BY <1>1, <1>3, StoreDepart DEF StoreIInv, StoreTypeOK, Etats
  <1>4. ASSUME manifeste' = manifeste \/ manifeste' = SansManifeste
        PROVE  Sommes'
    BY <1>1, <1>4, StoreDepart DEF StoreIInv, Sommes, Connus, SansManifeste
  <1>5. CASE UNCHANGED <<manifeste, emplacements, incertain>>
    <2>1. StoreTypeOK'
      BY <1>3, <1>5 DEF StoreIInv, StoreTypeOK
    <2>2. Actif'
      BY <1>1, <1>5 DEF StoreIInv, Actif
    <2> QED
      BY <1>2, <1>4, <1>5, <2>1, <2>2 DEF StoreIInv
  <1>6. ASSUME NEW w \in Ecrivains, ecrivain[w].pas = "emplacement",
               emplacements' = [emplacements EXCEPT ![Cible(w)] = Tronque],
               incertain' = (incertain \/ Hasard(w)), UNCHANGED manifeste
        PROVE  StoreIInv'
    <2>1. Cible(w) \in Slots /\ (ecrivain[w].lu = manifeste /\ manifeste.lisible => Cible(w) # manifeste.actif)
      BY CibleLibre DEF StoreIInv
    <2>2. StoreTypeOK'
      BY <1>3, <1>6, <2>1 DEF StoreIInv, StoreTypeOK, Hasard
    <2>3. Actif'
      BY <1>1, <1>6, SurLibre DEF StoreIInv
    <2> QED
      BY <1>2, <1>4, <1>6, <2>2, <2>3 DEF StoreIInv
  <1>7. CASE manifeste' = SansManifeste /\ incertain' = TRUE /\ UNCHANGED emplacements
    <2>1. StoreTypeOK'
      BY <1>3, <1>7, StoreDepart DEF StoreIInv, StoreTypeOK
    <2>2. Actif'
      BY <1>7 DEF Actif
    <2> QED
      BY <1>2, <1>4, <1>7, <2>1, <2>2 DEF StoreIInv
  <1> QED
    BY <1>5, <1>6, <1>7 DEF TuerEnEcriture

LEMMA NextIInv ==
  ASSUME StoreIInv, [StoreNext]_storeVars
  PROVE  StoreIInv'
  <1>1. ASSUME NEW w \in Ecrivains,
               \/ Lire(w) \/ EcrireEmplacement(w) \/ EcrireManifeste(w) \/ Renoncer(w)
               \/ EffacerManifeste(w) \/ \E s \in Slots : EffacerEmplacement(w, s)
        PROVE  StoreIInv'
    BY <1>1, LireIInv, EmplacementIInv, ManifesteIInv, RenoncerIInv, EffacerManifesteIInv,
       EffacerEmplacementIInv
  <1>2. CASE TuerEnEcriture
    BY <1>2, TuerIInv
  <1>3. CASE UNCHANGED storeVars
    BY <1>3 DEF storeVars, StoreIInv, StoreTypeOK, Copie, Actif, Cible, Sommes, Connus
  <1> QED
    BY <1>1, <1>2, <1>3 DEF StoreNext

LEMMA StoreInvariant == StoreSpec => []StoreIInv
  <1>1. StoreIInv /\ [StoreNext]_storeVars => StoreIInv'
    BY NextIInv
  <1> QED
    BY <1>1, StoreInitIInv, PTL DEF StoreSpec

\* ecrireEnregistrement and lireEnregistrement of persist.ts: for any number of coroutines that
\* overlap, of writes, failures and kills, a launch reads the last record whose write ended, unless
\* one of the four events DerniereEcriture names has occurred since a write ran alone to its end.
THEOREM LastWriteRead == StoreSpec => []DerniereEcriture
  <1>1. StoreIInv => DerniereEcriture
    BY DEF StoreIInv, StoreTypeOK, Actif, DerniereEcriture, Lecture, Intact, Manifestes
  <1> QED
    BY <1>1, StoreInvariant, PTL

\* lireEnregistrement of persist.ts: whatever has happened, and whatever slots cannot be read, a
\* launch reads nothing, or a whole record whose manifest was written.
THEOREM WholeRecordRead == StoreSpec => []LectureEntiere
  <1>1. StoreIInv => LectureEntiere
    <2> SUFFICES ASSUME StoreIInv, NEW K \in SUBSET Slots PROVE Lecture(K) \in finis \cup {Absent}
      BY DEF LectureEntiere
    <2>1. manifeste.actif \in Slots /\ 1 - manifeste.actif \in Slots
      BY DEF StoreIInv, StoreTypeOK, Manifestes, Slots
    <2> QED BY <2>1 DEF StoreIInv, Sommes, Connus, Lecture, Intact
  <1> QED
    BY <1>1, StoreInvariant, PTL

(***************************************************************************)
(* WebRetry: the retry file and the tabs that share it.                     *)
(***************************************************************************)

USE ActionsAssumption, BornesAssumption

Lots     == Seq(Element)
Attentes == [lot : Lots, apres : SUBSET Lots]
Envois   == [lot : Lots, direct : BOOLEAN]

\* The actions whose effect is in a batch with its link.
Lies(lot) == {x.id[1] : x \in {y \in Range(lot) : y.id[2] = "effet" /\ y.lie}}

\* No root of a batch comes after an effect linked to it, but those of X.
Ordonne(lot, X) ==
  \A i, j \in DOMAIN lot :
    i < j /\ lot[i].id[2] = "effet" /\ lot[i].lie /\ lot[j].id = <<lot[i].id[1], "racine">> => lot[i].id[1] \in X

\* A file: the root of a linked effect comes before it, or is one of X.
EnChaine(lot, X) == Ordonne(lot, X) /\ Lies(lot) \subseteq RacinesDe(lot) \cup X

Fichiers == {f \in [spans : Lots, tentatives : 0..MaxTentatives] : Len(f.spans) <= MaxRetry}
Etapes   == [pas : {"libre", "rejoue", "ecrit", "marque"}, fichier : Fichiers]

Types ==
  /\ fichier \in Fichiers
  /\ tombes \subseteq Actions
  /\ page \in [Onglets -> {"absente", "visible", "masquee"}]
  /\ acces \in [Onglets -> BOOLEAN]
  /\ abandonnees \in [Onglets -> SUBSET Actions]
  /\ tampon \in [Onglets -> Lots]
  /\ attente \in [Onglets -> Seq(Attentes)]
  /\ vols \in [Onglets -> SUBSET Envois]
  /\ ouvertes \in [Onglets -> SUBSET Actions]
  /\ etape \in [Onglets -> Etapes]
  /\ emis \subseteq Spans

-----------------------------------------------------------------------------
(* Batches *)

LEMMA Element_ ==
  ASSUME NEW x \in Element
  PROVE  /\ x.id \in Spans /\ x.lie \in BOOLEAN /\ x.id = <<x.id[1], x.id[2]>>
         /\ x.id[1] \in Actions /\ x.id[2] \in {"racine", "effet"}
  BY DEF Element, Spans

LEMMA LotIds ==
  ASSUME NEW lot \in Lots
  PROVE  /\ Range(lot) \subseteq Element /\ IdsDe(lot) \subseteq Spans
         /\ RacinesDe(lot) = {a \in Actions : <<a, "racine">> \in IdsDe(lot)}
         /\ Lies(lot) \subseteq {a \in Actions : <<a, "effet">> \in IdsDe(lot)}
  <1>1. Range(lot) \subseteq Element
    BY RangeOfSeq DEF Lots
  <1>2. IdsDe(lot) \subseteq Spans
    BY <1>1, Element_ DEF IdsDe
  <1>3. Lies(lot) \subseteq {a \in Actions : <<a, "effet">> \in IdsDe(lot)}
    <2> SUFFICES ASSUME NEW x \in Range(lot), x.id[2] = "effet"
                 PROVE  x.id[1] \in Actions /\ <<x.id[1], "effet">> \in IdsDe(lot)
      BY DEF Lies
    <2> QED BY <1>1, Element_ DEF IdsDe
  <1>4. RacinesDe(lot) \subseteq {a \in Actions : <<a, "racine">> \in IdsDe(lot)}
    <2> SUFFICES ASSUME NEW x \in Range(lot), x.id[2] = "racine"
                 PROVE  x.id[1] \in Actions /\ <<x.id[1], "racine">> \in IdsDe(lot)
      BY DEF RacinesDe
    <2> QED BY <1>1, Element_ DEF IdsDe
  <1>5. ASSUME NEW a \in Actions, <<a, "racine">> \in IdsDe(lot)
        PROVE  a \in RacinesDe(lot)
    <2>1. PICK x \in Range(lot) : x.id = <<a, "racine">>
      BY <1>5 DEF IdsDe
    <2>2. x.id[2] = "racine" /\ x.id[1] = a
      BY <2>1
    <2> QED BY <2>2 DEF RacinesDe
  <1> QED BY <1>1, <1>2, <1>3, <1>4, <1>5

LEMMA LotVide ==
  /\ <<>> \in Lots /\ Len(<<>>) = 0 /\ Range(<<>>) = {} /\ IdsDe(<<>>) = {} /\ Lies(<<>>) = {}
  /\ \A X : Ordonne(<<>>, X)
  BY EmptySeq, RangeEquality DEF Lots, Range, IdsDe, Lies, Ordonne

LEMMA VideFichier == FichierVide \in Fichiers /\ IdsDe(FichierVide.spans) = {} /\ \A X : EnChaine(FichierVide.spans, X)
  <1>1. FichierVide.spans = <<>> /\ FichierVide.tentatives = 0 /\ 0 \in 0..MaxTentatives /\ 0 <= MaxRetry
    BY DEF FichierVide
  <1> QED BY <1>1, LotVide DEF Fichiers, FichierVide, EnChaine

\* The parts of a batch, spans and order.
LEMMA Croit ==
  ASSUME NEW lot, NEW X, NEW Y, X \subseteq Y
  PROVE  (Ordonne(lot, X) => Ordonne(lot, Y)) /\ (EnChaine(lot, X) => EnChaine(lot, Y))
  BY DEF Ordonne, EnChaine

LEMMA LotPositions ==
  ASSUME NEW s \in Lots
  PROVE  /\ Len(s) \in Nat /\ DOMAIN s = 1..Len(s) /\ \A i \in 1..Len(s) : s[i] \in Element
  BY LenProperties, ElementOfSeq DEF Lots

\* A batch before another: a root of the second that the first has an effect linked to is one of X.
LEMMA LotSuite ==
  ASSUME NEW s \in Lots, NEW t \in Lots
  PROVE  /\ s \o t \in Lots /\ Len(s \o t) = Len(s) + Len(t)
         /\ IdsDe(s \o t) = IdsDe(s) \cup IdsDe(t)
         /\ Lies(s \o t) = Lies(s) \cup Lies(t)
         /\ \A X : Ordonne(s, X) /\ Ordonne(t, X) /\ Lies(s) \cap RacinesDe(t) \subseteq X => Ordonne(s \o t, X)
  <1> DEFINE u == s \o t
             m == Len(s)
             l == Len(t)
  <1>1. /\ u \in Lots /\ Len(u) = m + l
        /\ \A i \in 1..(m + l) : u[i] = IF i <= m THEN s[i] ELSE t[i - m]
    BY ConcatProperties DEF Lots
  <1>2. Range(u) = Range(s) \cup Range(t)
    BY RangeConcatenation DEF Lots
  <1>3. m \in Nat /\ l \in Nat /\ DOMAIN s = 1..m /\ DOMAIN t = 1..l /\ DOMAIN u = 1..(m + l)
    BY <1>1, LotPositions
  <1> HIDE DEF u, m, l
  <1>4. ASSUME NEW X, Ordonne(s, X), Ordonne(t, X), Lies(s) \cap RacinesDe(t) \subseteq X
        PROVE  Ordonne(u, X)
    <2> SUFFICES ASSUME NEW i \in 1..(m + l), NEW j \in 1..(m + l), i < j, u[i].id[2] = "effet", u[i].lie,
                        u[j].id = <<u[i].id[1], "racine">>
                 PROVE  u[i].id[1] \in X
      BY <1>3 DEF Ordonne
    <2>1. CASE j <= m
      <3>1. i \in DOMAIN s /\ j \in DOMAIN s /\ u[i] = s[i] /\ u[j] = s[j]
        BY <1>1, <1>3, <2>1
      <3> QED BY <3>1, <1>4 DEF Ordonne
    <2>2. CASE i > m
      <3>1. i - m \in DOMAIN t /\ j - m \in DOMAIN t /\ u[i] = t[i - m] /\ u[j] = t[j - m] /\ i - m < j - m
        BY <1>1, <1>3, <2>2
      <3> QED BY <3>1, <1>4 DEF Ordonne
    <2>3. CASE i <= m /\ j > m
      <3>1. i \in DOMAIN s /\ u[i] = s[i] /\ j - m \in DOMAIN t /\ u[j] = t[j - m]
        BY <1>1, <1>3, <2>3
      <3>2. u[i] \in Range(s) /\ u[j] \in Range(t)
        BY <3>1 DEF Range
      <3>3. u[i].id[1] \in Lies(s)
        BY <3>2 DEF Lies
      <3>4. u[i].id[1] \in RacinesDe(t)
        <4>1. u[j].id[2] = "racine" /\ u[j].id[1] = u[i].id[1]
          OBVIOUS
        <4> QED BY <3>2, <4>1 DEF RacinesDe
      <3> QED BY <3>3, <3>4, <1>4
    <2> QED BY <1>3, <2>1, <2>2, <2>3
  <1> QED BY <1>1, <1>2, <1>4 DEF IdsDe, Lies, u, m, l

LEMMA LotAjoute ==
  ASSUME NEW s \in Lots, NEW e \in Element
  PROVE  /\ Append(s, e) \in Lots
         /\ IdsDe(Append(s, e)) = IdsDe(s) \cup {e.id}
         /\ Lies(Append(s, e)) = Lies(s) \cup (IF e.id[2] = "effet" /\ e.lie THEN {e.id[1]} ELSE {})
         /\ \A X : Ordonne(s, X) /\ (e.id[2] = "racine" => e.id[1] \notin Lies(s)) => Ordonne(Append(s, e), X)
  <1> DEFINE u == Append(s, e)
             n == Len(s) + 1
  <1>1. u \in Lots
    BY AppendProperties DEF Lots
  <1>2. DOMAIN s = 1..Len(s) /\ Len(s) \in Nat /\ DOMAIN u = 1..n
    BY <1>1, AppendProperties, LenProperties DEF Lots
  <1>3. (\A i \in 1..Len(s) : u[i] = s[i]) /\ u[n] = e
    BY AppendProperties DEF Lots
  <1> HIDE DEF u
  <1>4. Range(u) = Range(s) \cup {e}
    BY <1>2, <1>3 DEF Range
  <1>5. ASSUME NEW X, Ordonne(s, X), e.id[2] = "racine" => e.id[1] \notin Lies(s)
        PROVE  Ordonne(u, X)
    <2> SUFFICES ASSUME NEW i \in 1..n, NEW j \in 1..n, i < j, u[i].id[2] = "effet", u[i].lie,
                        u[j].id = <<u[i].id[1], "racine">>
                 PROVE  u[i].id[1] \in X
      BY <1>2 DEF Ordonne
    <2>1. i \in DOMAIN s /\ u[i] = s[i]
      BY <1>2, <1>3
    <2>2. CASE j = n
      <3>1. e.id[2] = "racine" /\ e.id[1] = s[i].id[1]
        BY <1>3, <2>1, <2>2
      <3>2. s[i].id[1] \in Lies(s)
        BY <2>1 DEF Lies, Range
      <3> QED BY <3>1, <3>2, <1>5
    <2>3. CASE j # n
      <3>1. j \in DOMAIN s /\ u[j] = s[j]
        BY <1>2, <1>3, <2>3
      <3> QED BY <2>1, <3>1, <1>5 DEF Ordonne
    <2> QED BY <2>2, <2>3
  <1> QED BY <1>1, <1>4, <1>5 DEF IdsDe, Lies, u

\* Of a part of a batch.
LEMMA LotPartie ==
  ASSUME NEW s \in Lots, NEW m \in Nat, NEW l \in Nat, m <= l, l <= Len(s)
  PROVE  LET t == SubSeq(s, m + 1, l)
         IN  /\ t \in Lots /\ Len(t) = l - m /\ \A i \in 1..(l - m) : t[i] = s[m + i]
             /\ IdsDe(t) \subseteq IdsDe(s) /\ Lies(t) \subseteq Lies(s)
             /\ \A X : Ordonne(s, X) => Ordonne(t, X)
  <1> DEFINE t == SubSeq(s, m + 1, l)
  <1>1. DOMAIN s = 1..Len(s) /\ Len(s) \in Nat /\ \A i \in 1..Len(s) : s[i] \in Element
    BY LotPositions
  <1>2. /\ t \in Lots /\ Len(t) = l - m
        /\ \A i \in 1..(l - m) : t[i] = s[m + i]
    <2> DEFINE k == m + 1
    <2>1. k \in Int /\ l \in Int /\ (k <= l \/ (l - m = 0 /\ ~(k <= l))) /\ l - k + 1 = l - m
      OBVIOUS
    <2>2. \A i \in k..l : s[i] \in Element
      BY <1>1
    <2>3. \A i \in 1..(l - m) : k + i - 1 = m + i
      OBVIOUS
    <2> HIDE DEF k
    <2>4. /\ SubSeq(s, k, l) \in Seq(Element)
          /\ Len(SubSeq(s, k, l)) = IF k <= l THEN l - k + 1 ELSE 0
          /\ \A i \in 1..(l - k + 1) : SubSeq(s, k, l)[i] = s[k + i - 1]
      BY <2>1, <2>2, SubSeqProperties
    <2>5. t = SubSeq(s, k, l)
      BY DEF k
    <2> HIDE DEF t
    <2> QED BY <2>1, <2>3, <2>4, <2>5 DEF Lots
  <1>3. DOMAIN t = 1..(l - m)
    BY <1>2, LotPositions
  <1> HIDE DEF t
  <1>4. \A i \in DOMAIN t : m + i \in DOMAIN s /\ t[i] = s[m + i]
    BY <1>1, <1>2, <1>3
  <1>5. Range(t) \subseteq Range(s)
    BY <1>4 DEF Range
  <1>6. ASSUME NEW X, Ordonne(s, X) PROVE Ordonne(t, X)
    <2> SUFFICES ASSUME NEW i \in DOMAIN t, NEW j \in DOMAIN t, i < j, t[i].id[2] = "effet", t[i].lie,
                        t[j].id = <<t[i].id[1], "racine">>
                 PROVE  t[i].id[1] \in X
      BY DEF Ordonne
    <2>1. m + i < m + j
      BY <1>3
    <2> QED BY <1>4, <1>6, <2>1 DEF Ordonne
  <1> QED BY <1>2, <1>5, <1>6 DEF IdsDe, Lies, t

\* A batch cut in two: the roots of the linked effects of the first part are in it, or passed.
LEMMA LotCoupe ==
  ASSUME NEW s \in Lots, NEW n \in Nat, n <= Len(s)
  PROVE  LET p == SubSeq(s, 1, n)
             q == SubSeq(s, n + 1, Len(s))
         IN  /\ p \in Lots /\ q \in Lots
             /\ IdsDe(s) = IdsDe(p) \cup IdsDe(q) /\ Lies(s) = Lies(p) \cup Lies(q)
             /\ \A X : Ordonne(s, X) => /\ Ordonne(p, X) /\ Ordonne(q, X)
                                        /\ Lies(p) \cap RacinesDe(s) \subseteq RacinesDe(p) \cup X
  <1> DEFINE p == SubSeq(s, 1, n)
             q == SubSeq(s, n + 1, Len(s))
  <1>1. DOMAIN s = 1..Len(s) /\ Len(s) \in Nat
    BY LotPositions
  <1>2. /\ p \in Lots /\ Len(p) = n /\ \A i \in 1..n : p[i] = s[i]
        /\ IdsDe(p) \subseteq IdsDe(s) /\ Lies(p) \subseteq Lies(s) /\ \A X : Ordonne(s, X) => Ordonne(p, X)
    <2> DEFINE z == 0
               t == SubSeq(s, z + 1, n)
    <2>1. z \in Nat /\ z <= n /\ t = p /\ n - z = n /\ \A i \in 1..n : z + i = i
      OBVIOUS
    <2> HIDE DEF z
    <2>2. /\ t \in Lots /\ Len(t) = n - z /\ \A i \in 1..(n - z) : t[i] = s[z + i]
          /\ IdsDe(t) \subseteq IdsDe(s) /\ Lies(t) \subseteq Lies(s) /\ \A X : Ordonne(s, X) => Ordonne(t, X)
      BY <2>1, LotPartie
    <2> HIDE DEF t, p
    <2> QED BY <2>1, <2>2
  <1>3. /\ q \in Lots /\ Len(q) = Len(s) - n /\ \A i \in 1..(Len(s) - n) : q[i] = s[n + i]
        /\ IdsDe(q) \subseteq IdsDe(s) /\ Lies(q) \subseteq Lies(s) /\ \A X : Ordonne(s, X) => Ordonne(q, X)
    <2> DEFINE l == Len(s)
               t == SubSeq(s, n + 1, l)
    <2>1. l \in Nat /\ n <= l /\ l <= Len(s) /\ t = q /\ l = Len(s)
      BY <1>1
    <2> HIDE DEF l
    <2>2. /\ t \in Lots /\ Len(t) = l - n /\ \A i \in 1..(l - n) : t[i] = s[n + i]
          /\ IdsDe(t) \subseteq IdsDe(s) /\ Lies(t) \subseteq Lies(s) /\ \A X : Ordonne(s, X) => Ordonne(t, X)
      BY <2>1, LotPartie
    <2> HIDE DEF t, q
    <2> QED BY <2>1, <2>2
  <1>4. DOMAIN p = 1..n /\ DOMAIN q = 1..(Len(s) - n)
    BY <1>2, <1>3, LotPositions
  <1> HIDE DEF p, q
  <1>5. Range(s) \subseteq Range(p) \cup Range(q)
    <2> SUFFICES ASSUME NEW i \in 1..Len(s) PROVE s[i] \in Range(p) \cup Range(q)
      BY <1>1 DEF Range
    <2>1. CASE i <= n
      <3>1. i \in DOMAIN p /\ p[i] = s[i]
        BY <1>2, <1>4, <2>1
      <3> QED BY <3>1 DEF Range
    <2>2. CASE i > n
      <3>1. i - n \in DOMAIN q /\ q[i - n] = s[i]
        BY <1>1, <1>3, <1>4, <2>2
      <3> QED BY <3>1 DEF Range
    <2> QED BY <2>1, <2>2
  <1>6. IdsDe(s) \subseteq IdsDe(p) \cup IdsDe(q) /\ Lies(s) \subseteq Lies(p) \cup Lies(q)
    BY <1>5 DEF IdsDe, Lies
  <1>7. ASSUME NEW X, Ordonne(s, X), NEW a \in Lies(p) \cap RacinesDe(s), a \notin RacinesDe(p)
        PROVE  a \in X
    <2>1. PICK i \in DOMAIN p : p[i].id[2] = "effet" /\ p[i].lie /\ a = p[i].id[1]
      BY <1>7 DEF Lies, Range
    <2>2. PICK j \in DOMAIN s : s[j].id[2] = "racine" /\ a = s[j].id[1]
      BY <1>7 DEF RacinesDe, Range
    <2>3. i \in DOMAIN s /\ s[i] = p[i]
      BY <1>1, <1>2, <1>4
    <2>4. j > n
      <3> SUFFICES ASSUME j <= n PROVE FALSE
        BY <1>1
      <3>1. j \in DOMAIN p /\ p[j] = s[j]
        BY <1>1, <1>2, <1>4
      <3> QED BY <3>1, <2>2, <1>7 DEF RacinesDe, Range
    <2>5. i < j
      BY <1>1, <1>4, <2>4
    <2>6. s[j].id = <<a, "racine">>
      <3>1. s[j] \in Element
        BY <1>1, LotPositions
      <3> QED BY <3>1, <2>2, Element_
    <2> QED BY <1>7, <2>1, <2>3, <2>5, <2>6 DEF Ordonne
  <1> QED BY <1>2, <1>3, <1>6, <1>7 DEF p, q

LEMMA LotDelie ==
  ASSUME NEW lot \in Lots, NEW A
  PROVE  /\ Delier(lot, A) \in Lots /\ Len(Delier(lot, A)) = Len(lot)
         /\ IdsDe(Delier(lot, A)) = IdsDe(lot)
         /\ Lies(Delier(lot, A)) \subseteq Lies(lot) \ A
         /\ \A X : Ordonne(lot, X) => Ordonne(Delier(lot, A), X)
  <1> DEFINE d == Delier(lot, A)
  <1>1. DOMAIN lot = 1..Len(lot) /\ Len(lot) \in Nat /\ lot \in [1..Len(lot) -> Element]
    BY LenProperties DEF Lots
  <1>2. \A i \in 1..Len(lot) :
          d[i] = IF lot[i].id[2] = "effet" /\ lot[i].id[1] \in A THEN [lot[i] EXCEPT !.lie = FALSE] ELSE lot[i]
    BY <1>1 DEF Delier
  <1>3. d \in [1..Len(lot) -> Element]
    <2> SUFFICES ASSUME NEW i \in 1..Len(lot) PROVE d[i] \in Element
      BY <1>1 DEF Delier
    <2>1. lot[i] \in Element /\ [lot[i] EXCEPT !.lie = FALSE] \in Element
      BY <1>1 DEF Element
    <2> HIDE DEF d
    <2> QED BY <1>2, <2>1
  <1>4. d \in Lots /\ Len(d) = Len(lot)
    <2>1. d \in Lots
      BY <1>1, <1>3, SeqDef DEF Lots
    <2>2. DOMAIN d = 1..Len(lot) /\ DOMAIN d = 1..Len(d) /\ Len(d) \in Nat
      BY <1>3, <2>1, LenProperties DEF Lots
    <2> QED BY <1>1, <2>1, <2>2
  <1>5. \A i \in 1..Len(lot) : /\ d[i].id = lot[i].id
                               /\ d[i].id[2] = "effet" /\ d[i].lie => lot[i].lie /\ lot[i].id[1] \notin A
    BY <1>1, <1>2 DEF Element
  <1>6. DOMAIN d = 1..Len(lot)
    BY <1>3
  <1>7. IdsDe(d) = IdsDe(lot)
    <2>1. IdsDe(d) = {d[i].id : i \in 1..Len(lot)}
      BY <1>6 DEF IdsDe, Range
    <2>2. IdsDe(lot) = {lot[i].id : i \in 1..Len(lot)}
      BY <1>1 DEF IdsDe, Range
    <2> QED BY <2>1, <2>2, <1>5
  <1>8. Lies(d) \subseteq Lies(lot) \ A
    <2> SUFFICES ASSUME NEW i \in 1..Len(lot), d[i].id[2] = "effet", d[i].lie
                 PROVE  d[i].id[1] \in Lies(lot) \ A
      BY <1>6 DEF Lies, Range
    <2>1. lot[i] \in Range(lot) /\ lot[i].id[2] = "effet" /\ lot[i].lie /\ lot[i].id[1] \notin A
      BY <1>1, <1>5 DEF Range
    <2> QED BY <2>1, <1>5 DEF Lies
  <1>9. ASSUME NEW X, Ordonne(lot, X) PROVE Ordonne(d, X)
    <2> HIDE DEF d
    <2> QED BY <1>1, <1>5, <1>6, <1>9 DEF Ordonne
  <1> QED BY <1>4, <1>7, <1>8, <1>9

\* appendRetry keeps to the bound, adds nothing but the batch, and leaves the file in order, if the
\* roots both had are among X.
LEMMA FichierSuivant ==
  ASSUME NEW liste \in Lots, NEW lot \in Lots, NEW A \in SUBSET Actions
  PROVE  LET s == appendRetry(liste, lot, A)
         IN  /\ s.spans \in Lots /\ Len(s.spans) <= MaxRetry
             /\ IdsDe(s.spans) \subseteq IdsDe(liste) \cup IdsDe(lot)
             /\ s.revoquees \in SUBSET Actions /\ A \subseteq s.revoquees \cup RacinesDe(lot)
             /\ \A X : /\ EnChaine(liste, X) /\ Ordonne(lot, X) /\ Lies(lot) \subseteq RacinesDe(lot) \cup X
                       /\ RacinesDe(liste) \cap RacinesDe(lot) \subseteq X
                       => EnChaine(s.spans, X)
  <1> DEFINE restees == A \ RacinesDe(lot)
             ajout == Delier(lot, restees)
             tout == liste \o ajout
             garde == IF Len(tout) > MaxRetry THEN SubSeq(tout, Len(tout) - MaxRetry + 1, Len(tout)) ELSE tout
             evincees == RacinesDe(tout) \ RacinesDe(garde)
             fin == Delier(garde, evincees)
  <1>1. /\ ajout \in Lots /\ IdsDe(ajout) = IdsDe(lot) /\ Lies(ajout) \subseteq Lies(lot)
        /\ \A X : Ordonne(lot, X) => Ordonne(ajout, X)
    BY LotDelie
  <1>2. RacinesDe(ajout) = RacinesDe(lot)
    BY <1>1, LotIds
  <1>3. /\ tout \in Lots /\ IdsDe(tout) = IdsDe(liste) \cup IdsDe(lot) /\ Lies(tout) \subseteq Lies(liste) \cup Lies(lot)
        /\ Len(tout) \in Nat
        /\ \A X : Ordonne(liste, X) /\ Ordonne(ajout, X) /\ Lies(liste) \cap RacinesDe(ajout) \subseteq X => Ordonne(tout, X)
    <2> HIDE DEF ajout
    <2>1. /\ tout \in Lots /\ IdsDe(tout) = IdsDe(liste) \cup IdsDe(ajout) /\ Lies(tout) = Lies(liste) \cup Lies(ajout)
          /\ \A X : Ordonne(liste, X) /\ Ordonne(ajout, X) /\ Lies(liste) \cap RacinesDe(ajout) \subseteq X => Ordonne(tout, X)
      BY <1>1, LotSuite
    <2> QED BY <1>1, <2>1, LotPositions
  <1>4. /\ garde \in Lots /\ Len(garde) <= MaxRetry /\ IdsDe(garde) \subseteq IdsDe(tout) /\ Lies(garde) \subseteq Lies(tout)
        /\ \A X : Ordonne(tout, X) => Ordonne(garde, X)
    <2> HIDE DEF tout
    <2>1. CASE Len(tout) > MaxRetry
      <3> DEFINE l == Len(tout)
                 m == l - MaxRetry
                 t == SubSeq(tout, m + 1, l)
      <3>1. m \in Nat /\ l \in Nat /\ m <= l /\ l <= Len(tout) /\ l - m = MaxRetry /\ t = garde
        BY <1>3, <2>1
      <3> HIDE DEF l, m
      <3>2. /\ t \in Lots /\ Len(t) = l - m /\ IdsDe(t) \subseteq IdsDe(tout) /\ Lies(t) \subseteq Lies(tout)
            /\ \A X : Ordonne(tout, X) => Ordonne(t, X)
        BY <1>3, <3>1, LotPartie
      <3> HIDE DEF t, garde
      <3> QED BY <3>1, <3>2
    <2> QED BY <1>3, <2>1
  <1>5. RacinesDe(tout) = RacinesDe(liste) \cup RacinesDe(lot)
    BY <1>3, LotIds
  <1>6. /\ fin \in Lots /\ Len(fin) = Len(garde) /\ IdsDe(fin) = IdsDe(garde) /\ Lies(fin) \subseteq Lies(garde) \ evincees
        /\ \A X : Ordonne(garde, X) => Ordonne(fin, X)
    <2> HIDE DEF garde, evincees
    <2> QED BY <1>4, LotDelie
  <1>7. RacinesDe(fin) = RacinesDe(garde)
    BY <1>4, <1>6, LotIds
  <1>8. appendRetry(liste, lot, A).spans = fin /\ appendRetry(liste, lot, A).revoquees = restees \cup evincees
    BY DEF appendRetry
  <1>9. evincees \subseteq Actions
    BY <1>3, LotIds
  <1> HIDE DEF fin, garde, evincees, tout, ajout
  <1>10. evincees = RacinesDe(tout) \ RacinesDe(garde)
    BY DEF evincees
  <1>11. ASSUME NEW X, EnChaine(liste, X), Ordonne(lot, X), Lies(lot) \subseteq RacinesDe(lot) \cup X,
                RacinesDe(liste) \cap RacinesDe(lot) \subseteq X
         PROVE  EnChaine(fin, X)
    <2>1. Ordonne(liste, X) /\ Lies(liste) \subseteq RacinesDe(liste) \cup X
      BY <1>11 DEF EnChaine
    <2>2. Lies(liste) \cap RacinesDe(ajout) \subseteq X
      BY <2>1, <1>2, <1>11
    <2>3. Ordonne(fin, X)
      BY <1>1, <1>3, <1>4, <1>6, <1>11, <2>1, <2>2
    <2>4. Lies(fin) \subseteq RacinesDe(fin) \cup X
      BY <1>3, <1>4, <1>5, <1>6, <1>7, <1>10, <1>11, <2>1
    <2> QED BY <2>3, <2>4 DEF EnChaine
  <1> QED BY <1>3, <1>4, <1>6, <1>8, <1>9, <1>11

-----------------------------------------------------------------------------
(* What a tab holds: a buffer t, batches a that wait, batches V sent *)

WebContenu(t, a, V) == IdsDe(t) \cup (UNION {IdsDe(a[i].lot) : i \in DOMAIN a}) \cup (UNION {IdsDe(v.lot) : v \in V})

\* The actions whose root was received, that left without waiting, or that are in two places.
Passees == {a \in Actions : <<a, "racine">> \in serveur} \cup presses \cup doubles

\* The roots P passed, Mem given up, or on their way in V.
Devancees(V, Mem, P) == P \cup Mem \cup (UNION {RacinesDe(v.lot) : v \in V})

\* A linked effect never leaves before its root: those of a batch sent left with it or after
\* it, those of a batch that waits follow it in the queue, and those of the buffer, or to come
\* of an action O, follow what waits; nor does it come before it in a batch.
EnOrdre(t, a, V, O, Mem, P, R) ==
  /\ Ordonne(t, P) /\ \A i \in DOMAIN a : Ordonne(a[i].lot, P)
  /\ \A v \in V : /\ Ordonne(v.lot, P) /\ Lies(v.lot) \subseteq RacinesDe(v.lot) \cup P
                  /\ v.direct => \A s \in IdsDe(v.lot) : s[1] \in R
  /\ \A i \in DOMAIN a : Lies(a[i].lot) \subseteq Devancees(V, Mem, P) \cup (UNION {RacinesDe(a[j].lot) : j \in 1..i})
  /\ Lies(t) \cup O \subseteq Devancees(V, Mem, P) \cup RacinesDe(t) \cup (UNION {RacinesDe(a[j].lot) : j \in DOMAIN a})

LEMMA Reunion ==
  ASSUME NEW V, NEW w
  PROVE  /\ (UNION {IdsDe(v.lot) : v \in V \cup {w}}) = (UNION {IdsDe(v.lot) : v \in V}) \cup IdsDe(w.lot)
         /\ w \in V => IdsDe(w.lot) \subseteq (UNION {IdsDe(v.lot) : v \in V})
         /\ w \in V => (UNION {IdsDe(v.lot) : v \in V}) = (UNION {IdsDe(v.lot) : v \in V \ {w}}) \cup IdsDe(w.lot)
  <1>1. \A v \in V : IdsDe(v.lot) \in {IdsDe(u.lot) : u \in V}
    OBVIOUS
  <1>2. {IdsDe(v.lot) : v \in V \cup {w}} = {IdsDe(v.lot) : v \in V} \cup {IdsDe(w.lot)}
    OBVIOUS
  <1>3. w \in V => V = (V \ {w}) \cup {w}
    OBVIOUS
  <1>4. {IdsDe(v.lot) : v \in (V \ {w}) \cup {w}} = {IdsDe(v.lot) : v \in V \ {w}} \cup {IdsDe(w.lot)}
    OBVIOUS
  <1> QED BY <1>1, <1>2, <1>3, <1>4

LEMMA ChargeContenu ==
  \A o \in Onglets :
    /\ Charge(o) = WebContenu(tampon[o], attente[o], vols[o])
    /\ Charge(o)' = WebContenu(tampon'[o], attente'[o], vols'[o])
    /\ Tenus(o) = Charge(o) \cup IdsDe(etape[o].fichier.spans)
    /\ Tenus(o)' = Charge(o)' \cup IdsDe(etape'[o].fichier.spans)
  BY DEF Charge, Tenus, WebContenu, Range

LEMMA FileLongueur ==
  ASSUME NEW S, NEW a \in Seq(S)
  PROVE  Len(a) \in Nat /\ DOMAIN a = 1..Len(a) /\ \A i \in DOMAIN a : a[i] \in S
  BY LenProperties, ElementOfSeq

LEMMA FileFin ==
  ASSUME NEW S, NEW a \in Seq(S), NEW e \in S
  PROVE  LET b == Append(a, e)
         IN  /\ b \in Seq(S) /\ DOMAIN b = DOMAIN a \cup {Len(a) + 1} /\ Len(a) + 1 \notin DOMAIN a
             /\ b[Len(a) + 1] = e /\ \A i \in DOMAIN a : b[i] = a[i]
  <1>1. Append(a, e) \in Seq(S) /\ Len(Append(a, e)) = Len(a) + 1
    BY AppendProperties
  <1>2. /\ \A i \in 1..Len(a) : Append(a, e)[i] = a[i]
        /\ Append(a, e)[Len(a) + 1] = e
    BY AppendProperties
  <1>3. Len(a) \in Nat /\ DOMAIN a = 1..Len(a) /\ DOMAIN Append(a, e) = 1..(Len(a) + 1)
    BY <1>1, FileLongueur
  <1> QED BY <1>1, <1>2, <1>3

LEMMA FileReste ==
  ASSUME NEW S, NEW a \in Seq(S), a # <<>>
  PROVE  /\ Tail(a) \in Seq(S) /\ Head(a) = a[1] /\ Head(a) \in S /\ 1 \in DOMAIN a
         /\ \A i \in DOMAIN Tail(a) : i \in Nat \ {0} /\ i + 1 \in DOMAIN a /\ Tail(a)[i] = a[i + 1]
         /\ \A i \in DOMAIN a : i = 1 \/ (i - 1 \in DOMAIN Tail(a) /\ i - 1 + 1 = i)
  <1>1. /\ Tail(a) \in Seq(S) /\ Head(a) \in S /\ Len(Tail(a)) = Len(a) - 1
        /\ \A i \in 1..Len(Tail(a)) : Tail(a)[i] = a[i + 1]
    BY HeadTailProperties
  <1>2. Head(a) = a[1]
    OBVIOUS
  <1>3. Len(a) \in Nat /\ DOMAIN a = 1..Len(a) /\ Len(a) # 0
    BY FileLongueur, EmptySeq
  <1>4. DOMAIN Tail(a) = 1..(Len(a) - 1)
    BY <1>1, FileLongueur
  <1> QED BY <1>1, <1>2, <1>3, <1>4

LEMMA FileVide == \A S : <<>> \in Seq(S) /\ DOMAIN <<>> = {}
  BY EmptySeq

\* Nothing is held.
LEMMA ContenuVide ==
  /\ WebContenu(<<>>, <<>>, {}) = {}
  /\ \A Mem, P, R : EnOrdre(<<>>, <<>>, {}, {}, Mem, P, R)
  BY LotVide, FileVide DEF WebContenu, EnOrdre

\* The buffer grows.
LEMMA ContenuAjoute ==
  ASSUME NEW t, NEW a, NEW V, NEW u, NEW D, IdsDe(u) = IdsDe(t) \cup D
  PROVE  WebContenu(u, a, V) = WebContenu(t, a, V) \cup D
  BY DEF WebContenu

\* A batch comes to wait.
LEMMA ContenuVider ==
  ASSUME NEW r, NEW a \in Seq(Attentes), NEW V, NEW e \in Attentes
  PROVE  WebContenu(r, Append(a, e), V) = WebContenu(r, a, V) \cup IdsDe(e.lot)
  <1> DEFINE b == Append(a, e)
             n == Len(a) + 1
  <1>1. /\ DOMAIN b = DOMAIN a \cup {n} /\ n \notin DOMAIN a
        /\ b[n] = e /\ \A i \in DOMAIN a : b[i] = a[i]
    BY FileFin
  <1> HIDE DEF b, n
  <1>2. {IdsDe(b[i].lot) : i \in DOMAIN b} = {IdsDe(a[i].lot) : i \in DOMAIN a} \cup {IdsDe(e.lot)}
    BY <1>1
  <1>3. (UNION {IdsDe(b[i].lot) : i \in DOMAIN b}) = (UNION {IdsDe(a[i].lot) : i \in DOMAIN a}) \cup IdsDe(e.lot)
    BY <1>2
  <1> QED BY <1>3 DEF WebContenu, b

\* The batch that waits first is sent.
LEMMA ContenuEnvoie ==
  ASSUME NEW t, NEW a \in Seq(Attentes), a # <<>>, NEW V, NEW w, IdsDe(w.lot) = IdsDe(Head(a).lot)
  PROVE  WebContenu(t, Tail(a), V \cup {w}) = WebContenu(t, a, V)
  <1> DEFINE b == Tail(a)
  <1>1. /\ Head(a) = a[1] /\ 1 \in DOMAIN a
        /\ \A i \in DOMAIN b : i \in Nat \ {0} /\ i + 1 \in DOMAIN a /\ b[i] = a[i + 1]
        /\ \A i \in DOMAIN a : i = 1 \/ (i - 1 \in DOMAIN b /\ i - 1 + 1 = i)
    BY FileReste
  <1> HIDE DEF b
  <1>2. (UNION {IdsDe(a[i].lot) : i \in DOMAIN a}) = IdsDe(w.lot) \cup (UNION {IdsDe(b[i].lot) : i \in DOMAIN b})
    <2>1. \A i \in DOMAIN b : IdsDe(b[i].lot) \in {IdsDe(a[j].lot) : j \in DOMAIN a}
      BY <1>1
    <2>2. \A i \in DOMAIN a : a[i].lot = Head(a).lot \/ \E j \in DOMAIN b : a[i].lot = b[j].lot
      BY <1>1
    <2>3. IdsDe(w.lot) \in {IdsDe(a[j].lot) : j \in DOMAIN a}
      BY <1>1
    <2>4. \A i \in DOMAIN a : IdsDe(a[i].lot) = IdsDe(w.lot) \/ \E j \in DOMAIN b : IdsDe(a[i].lot) = IdsDe(b[j].lot)
      BY <2>2
    <2> QED BY <2>1, <2>3, <2>4
  <1> QED BY <1>2, Reunion DEF WebContenu, b

\* The buffer is sent.
LEMMA ContenuPresse ==
  ASSUME NEW t, NEW a, NEW V, NEW w, IdsDe(w.lot) = IdsDe(t)
  PROVE  WebContenu(<<>>, a, V \cup {w}) = WebContenu(t, a, V)
  BY LotVide, Reunion DEF WebContenu

\* A batch is answered.
LEMMA ContenuRend ==
  ASSUME NEW t, NEW a, NEW V, NEW w \in V
  PROVE  WebContenu(t, a, V) = WebContenu(t, a, V \ {w}) \cup IdsDe(w.lot)
  BY Reunion DEF WebContenu

-----------------------------------------------------------------------------
(* The order *)

\* Roots given up, received or sent without waiting only help.
LEMMA OrdreCroit ==
  ASSUME NEW t, NEW a, NEW V, NEW O, NEW Mem, NEW P, NEW R, EnOrdre(t, a, V, O, Mem, P, R),
         NEW MM, NEW PP, NEW RR, Mem \subseteq MM, P \subseteq PP, R \subseteq RR
  PROVE  EnOrdre(t, a, V, O, MM, PP, RR)
  <1>1. Devancees(V, Mem, P) \subseteq Devancees(V, MM, PP)
    BY DEF Devancees
  <1>2. \A v \in V : /\ Lies(v.lot) \subseteq RacinesDe(v.lot) \cup PP
                     /\ v.direct => \A s \in IdsDe(v.lot) : s[1] \in RR
    BY DEF EnOrdre
  <1>3. \A i \in DOMAIN a : Lies(a[i].lot) \subseteq Devancees(V, MM, PP) \cup (UNION {RacinesDe(a[j].lot) : j \in 1..i})
    BY <1>1 DEF EnOrdre
  <1>4. Lies(t) \cup O \subseteq Devancees(V, MM, PP) \cup RacinesDe(t) \cup (UNION {RacinesDe(a[j].lot) : j \in DOMAIN a})
    BY <1>1 DEF EnOrdre
  <1>5. /\ Ordonne(t, PP) /\ \A i \in DOMAIN a : Ordonne(a[i].lot, PP)
        /\ \A v \in V : Ordonne(v.lot, PP)
    BY Croit DEF EnOrdre
  <1> QED BY <1>2, <1>3, <1>4, <1>5 DEF EnOrdre

\* The buffer grows.
LEMMA OrdreAjoute ==
  ASSUME NEW t, NEW a, NEW V, NEW O, NEW Mem, NEW P, NEW R, EnOrdre(t, a, V, O, Mem, P, R),
         NEW u, NEW Q, Ordonne(u, P), RacinesDe(t) \subseteq RacinesDe(u), Lies(u) \cup Q \subseteq Lies(t) \cup O \cup RacinesDe(u) \cup P
  PROVE  EnOrdre(u, a, V, Q, Mem, P, R)
  <1>1. P \subseteq Devancees(V, Mem, P)
    BY DEF Devancees
  <1>2. Lies(u) \cup Q \subseteq Devancees(V, Mem, P) \cup RacinesDe(u) \cup (UNION {RacinesDe(a[j].lot) : j \in DOMAIN a})
    BY <1>1 DEF EnOrdre
  <1> QED BY <1>2 DEF EnOrdre

\* The first part of the buffer becomes the last batch that waits: the roots of its linked
\* effects are in it, wait already or are passed.
LEMMA OrdreVider ==
  ASSUME NEW t \in Lots, NEW a \in Seq(Attentes), NEW V, NEW O, NEW Mem, NEW P, NEW R, EnOrdre(t, a, V, O, Mem, P, R),
         NEW e \in Attentes, NEW r \in Lots, IdsDe(t) = IdsDe(e.lot) \cup IdsDe(r), Lies(t) = Lies(e.lot) \cup Lies(r),
         Ordonne(e.lot, P), Ordonne(r, P), Lies(e.lot) \cap RacinesDe(t) \subseteq RacinesDe(e.lot) \cup P
  PROVE  EnOrdre(r, Append(a, e), V, O, Mem, P, R)
  <1> DEFINE b == Append(a, e)
             n == Len(a) + 1
             D == Devancees(V, Mem, P)
             A == UNION {RacinesDe(a[j].lot) : j \in DOMAIN a}
             B == UNION {RacinesDe(b[j].lot) : j \in DOMAIN b}
  <1>1. /\ DOMAIN b = DOMAIN a \cup {n} /\ n \notin DOMAIN a
        /\ b[n] = e /\ \A i \in DOMAIN a : b[i] = a[i]
    BY FileFin
  <1>2. DOMAIN a = 1..Len(a) /\ Len(a) \in Nat
    BY FileLongueur
  <1>3. 1..n = DOMAIN a \cup {n} /\ \A i \in DOMAIN a : 1..i \subseteq DOMAIN a
    BY <1>2
  <1>4. RacinesDe(t) = RacinesDe(e.lot) \cup RacinesDe(r)
    <2>1. e.lot \in Lots
      BY DEF Attentes
    <2> QED BY <2>1, LotIds
  <1> HIDE DEF b, n, D
  <1>5. B = RacinesDe(e.lot) \cup A
    <2>1. {RacinesDe(b[j].lot) : j \in DOMAIN b} = {RacinesDe(a[j].lot) : j \in DOMAIN a} \cup {RacinesDe(e.lot)}
      BY <1>1
    <2> QED BY <2>1
  <1>6. P \subseteq D
    BY DEF D, Devancees
  <1>7. \A i \in DOMAIN a : Lies(a[i].lot) \subseteq D \cup (UNION {RacinesDe(a[j].lot) : j \in 1..i})
    BY DEF EnOrdre, D
  <1>8. Lies(t) \cup O \subseteq D \cup RacinesDe(t) \cup A
    BY DEF EnOrdre, D
  <1>9. \A i \in DOMAIN b : Lies(b[i].lot) \subseteq D \cup (UNION {RacinesDe(b[j].lot) : j \in 1..i})
    <2>1. ASSUME NEW i \in DOMAIN a
          PROVE  Lies(b[i].lot) \subseteq D \cup (UNION {RacinesDe(b[j].lot) : j \in 1..i})
      <3>1. \A j \in 1..i : b[j] = a[j]
        BY <1>1, <1>3
      <3>2. {RacinesDe(b[j].lot) : j \in 1..i} = {RacinesDe(a[j].lot) : j \in 1..i}
        BY <3>1
      <3> QED BY <3>2, <1>1, <1>7
    <2>2. Lies(b[n].lot) \subseteq D \cup (UNION {RacinesDe(b[j].lot) : j \in 1..n})
      <3>1. 1..n = DOMAIN b
        BY <1>1, <1>3
      <3>2. Lies(e.lot) \subseteq D \cup B
        <4> HIDE DEF A, B
        <4> QED BY <1>5, <1>6, <1>8
      <3> QED BY <3>1, <3>2, <1>1
    <2> QED BY <2>1, <2>2, <1>1
  <1>10. Lies(r) \cup O \subseteq D \cup RacinesDe(r) \cup B
    <2> HIDE DEF A, B
    <2> QED BY <1>4, <1>5, <1>8
  <1>11. \A v \in V : /\ Ordonne(v.lot, P) /\ Lies(v.lot) \subseteq RacinesDe(v.lot) \cup P
                      /\ v.direct => \A s \in IdsDe(v.lot) : s[1] \in R
    BY DEF EnOrdre
  <1>12. Ordonne(r, P) /\ \A i \in DOMAIN b : Ordonne(b[i].lot, P)
    BY <1>1 DEF EnOrdre
  <1> QED BY <1>9, <1>10, <1>11, <1>12 DEF EnOrdre, D, b


\* The batch that waits first is sent, once all those sent left without waiting: the effects
\* whose root is given up are unlinked.
LEMMA OrdreEnvoie ==
  ASSUME NEW t, NEW a \in Seq(Attentes), a # <<>>, NEW V \in SUBSET Envois, NEW O, NEW Mem, NEW P, NEW R,
         EnOrdre(t, a, V, O, Mem, P, R), R \subseteq P, \A v \in V : v.direct,
         NEW MM, Mem \subseteq MM \cup RacinesDe(Head(a).lot),
         NEW w, w.lot = Delier(Head(a).lot, MM), w.direct = FALSE
  PROVE  EnOrdre(t, Tail(a), V \cup {w}, O, MM, P, R)
  <1> DEFINE b == Tail(a)
             lot == Head(a).lot
             D == Devancees(V, Mem, P)
             DD == Devancees(V \cup {w}, MM, P)
  <1>1. /\ Head(a) = a[1] /\ 1 \in DOMAIN a /\ Head(a) \in Attentes
        /\ \A i \in DOMAIN b : i \in Nat \ {0} /\ i + 1 \in DOMAIN a /\ b[i] = a[i + 1]
        /\ \A i \in DOMAIN a : i = 1 \/ (i - 1 \in DOMAIN b /\ i - 1 + 1 = i)
    BY FileReste
  <1>2. lot \in Lots
    BY <1>1 DEF Attentes
  <1>3. DOMAIN b = 1..Len(b) /\ DOMAIN a = 1..Len(a) /\ Len(a) \in Nat /\ Len(b) \in Nat
    BY FileReste, FileLongueur
  <1> HIDE DEF b, lot, D, DD
  <1>4. \A v \in V : RacinesDe(v.lot) \subseteq P
    <2> SUFFICES ASSUME NEW v \in V, NEW x \in RacinesDe(v.lot) PROVE x \in P
      OBVIOUS
    <2>1. v.lot \in Lots
      BY DEF Envois
    <2>2. <<x, "racine">> \in IdsDe(v.lot)
      BY <2>1, LotIds
    <2>3. <<x, "racine">>[1] \in R
      BY <2>2 DEF EnOrdre
    <2> QED BY <2>3
  <1>5. D = P \cup Mem
    BY <1>4 DEF D, Devancees
  <1>6. /\ RacinesDe(w.lot) = RacinesDe(lot) /\ Lies(w.lot) \subseteq Lies(lot) \ MM
        /\ Ordonne(w.lot, P)
    <2>1. /\ Delier(lot, MM) \in Lots /\ IdsDe(Delier(lot, MM)) = IdsDe(lot)
          /\ Lies(Delier(lot, MM)) \subseteq Lies(lot) \ MM
          /\ Ordonne(lot, P) => Ordonne(Delier(lot, MM), P)
      BY <1>2, LotDelie
    <2>2. Ordonne(lot, P)
      BY <1>1 DEF EnOrdre, lot
    <2> QED BY <2>1, <2>2, <1>2, LotIds DEF lot
  <1>7. DD = P \cup MM \cup RacinesDe(lot) \cup (UNION {RacinesDe(v.lot) : v \in V})
    BY <1>6 DEF DD, Devancees
  <1>8. D \cup RacinesDe(lot) \subseteq DD
    BY <1>5, <1>7 DEF lot
  <1>9. Lies(w.lot) \subseteq RacinesDe(w.lot) \cup P
    <2>1. Lies(lot) \subseteq D \cup (UNION {RacinesDe(a[j].lot) : j \in 1..1})
      BY <1>1 DEF EnOrdre, D, lot
    <2>2. (UNION {RacinesDe(a[j].lot) : j \in 1..1}) = RacinesDe(lot)
      <3>1. 1..1 = {1}
        OBVIOUS
      <3>2. {RacinesDe(a[j].lot) : j \in {1}} = {RacinesDe(a[1].lot)}
        OBVIOUS
      <3> QED BY <3>1, <3>2, <1>1 DEF lot
    <2> QED BY <2>1, <2>2, <1>5, <1>6 DEF lot
  <1>10. \A i \in DOMAIN b : Lies(b[i].lot) \subseteq DD \cup (UNION {RacinesDe(b[j].lot) : j \in 1..i})
    <2> SUFFICES ASSUME NEW i \in DOMAIN b
                 PROVE  Lies(b[i].lot) \subseteq DD \cup (UNION {RacinesDe(b[j].lot) : j \in 1..i})
      OBVIOUS
    <2>1. Lies(a[i + 1].lot) \subseteq D \cup (UNION {RacinesDe(a[j].lot) : j \in 1..(i + 1)})
      BY <1>1 DEF EnOrdre, D
    <2>2. \A j \in 1..(i + 1) : RacinesDe(a[j].lot) \subseteq RacinesDe(lot) \cup (UNION {RacinesDe(b[k].lot) : k \in 1..i})
      <3> SUFFICES ASSUME NEW j \in 1..(i + 1), j # 1 PROVE RacinesDe(a[j].lot) \in {RacinesDe(b[k].lot) : k \in 1..i}
        BY <1>1 DEF lot
      <3>1. j - 1 \in 1..i /\ j \in DOMAIN a
        BY <1>1, <1>3
      <3>2. j - 1 \in DOMAIN b /\ b[j - 1] = a[j]
        BY <3>1, <1>1
      <3> QED BY <3>1, <3>2
    <2> QED BY <2>1, <2>2, <1>1, <1>8
  <1>11. Lies(t) \cup O \subseteq DD \cup RacinesDe(t) \cup (UNION {RacinesDe(b[j].lot) : j \in DOMAIN b})
    <2>1. Lies(t) \cup O \subseteq D \cup RacinesDe(t) \cup (UNION {RacinesDe(a[j].lot) : j \in DOMAIN a})
      BY DEF EnOrdre, D
    <2>2. \A j \in DOMAIN a : RacinesDe(a[j].lot) \subseteq RacinesDe(lot) \cup (UNION {RacinesDe(b[k].lot) : k \in DOMAIN b})
      <3> SUFFICES ASSUME NEW j \in DOMAIN a, j # 1 PROVE RacinesDe(a[j].lot) \in {RacinesDe(b[k].lot) : k \in DOMAIN b}
        BY <1>1 DEF lot
      <3>1. j - 1 \in DOMAIN b /\ b[j - 1] = a[j]
        BY <1>1
      <3> QED BY <3>1
    <2> QED BY <2>1, <2>2, <1>8
  <1>12. \A v \in V \cup {w} : /\ Ordonne(v.lot, P) /\ Lies(v.lot) \subseteq RacinesDe(v.lot) \cup P
                               /\ v.direct => \A s \in IdsDe(v.lot) : s[1] \in R
    BY <1>6, <1>9 DEF EnOrdre
  <1>13. Ordonne(t, P) /\ \A i \in DOMAIN b : Ordonne(b[i].lot, P)
    BY <1>1 DEF EnOrdre
  <1> QED BY <1>10, <1>11, <1>12, <1>13 DEF EnOrdre, DD, b

\* The buffer is sent without waiting.
LEMMA OrdrePresse ==
  ASSUME NEW t \in Lots, NEW a, NEW V, NEW O, NEW Mem, NEW P, NEW R, EnOrdre(t, a, V, O, Mem, P, R),
         NEW MM, Mem \subseteq MM \cup RacinesDe(t), NEW PP, NEW RR, P \subseteq PP, R \subseteq RR,
         \A s \in IdsDe(t) : s[1] \in PP /\ s[1] \in RR,
         NEW w, w.lot = Delier(t, MM)
  PROVE  EnOrdre(<<>>, a, V \cup {w}, O, MM, PP, RR)
  <1> DEFINE D == Devancees(V, Mem, P)
             DD == Devancees(V \cup {w}, MM, PP)
  <1>1. /\ IdsDe(w.lot) = IdsDe(t) /\ RacinesDe(w.lot) = RacinesDe(t) /\ Lies(w.lot) \subseteq Lies(t)
        /\ Ordonne(w.lot, PP)
    <2>1. /\ Delier(t, MM) \in Lots /\ IdsDe(Delier(t, MM)) = IdsDe(t)
          /\ Lies(Delier(t, MM)) \subseteq Lies(t) \ MM
          /\ Ordonne(t, PP) => Ordonne(Delier(t, MM), PP)
      BY LotDelie
    <2>2. Ordonne(t, PP)
      BY Croit DEF EnOrdre
    <2> QED BY <2>1, <2>2, LotIds
  <1>2. Lies(t) \subseteq PP /\ RacinesDe(t) \subseteq PP
    <2>1. ASSUME NEW x \in Lies(t) PROVE x \in PP
      <3>1. <<x, "effet">> \in IdsDe(t)
        BY LotIds
      <3>2. <<x, "effet">>[1] \in PP
        BY <3>1
      <3> QED BY <3>2
    <2>2. ASSUME NEW x \in RacinesDe(t) PROVE x \in PP
      <3>1. <<x, "racine">> \in IdsDe(t)
        BY LotIds
      <3>2. <<x, "racine">>[1] \in PP
        BY <3>1
      <3> QED BY <3>2
    <2> QED BY <2>1, <2>2
  <1>3. D \subseteq DD /\ PP \subseteq DD
    BY <1>1 DEF D, DD, Devancees
  <1> HIDE DEF D, DD
  <1>4. \A v \in V \cup {w} : /\ Lies(v.lot) \subseteq RacinesDe(v.lot) \cup PP
                              /\ v.direct => \A s \in IdsDe(v.lot) : s[1] \in RR
    BY <1>1, <1>2 DEF EnOrdre
  <1>5. \A i \in DOMAIN a : Lies(a[i].lot) \subseteq DD \cup (UNION {RacinesDe(a[j].lot) : j \in 1..i})
    BY <1>3 DEF EnOrdre, D
  <1>6. Lies(<<>>) \cup O \subseteq DD \cup RacinesDe(<<>>) \cup (UNION {RacinesDe(a[j].lot) : j \in DOMAIN a})
    BY <1>2, <1>3, LotVide DEF EnOrdre, D
  <1>7. /\ Ordonne(<<>>, PP) /\ \A i \in DOMAIN a : Ordonne(a[i].lot, PP)
        /\ \A v \in V \cup {w} : Ordonne(v.lot, PP)
    BY <1>1, Croit, LotVide DEF EnOrdre
  <1> QED BY <1>4, <1>5, <1>6, <1>7 DEF EnOrdre, DD

\* A batch is answered: its roots are received, or given up.
LEMMA OrdreRend ==
  ASSUME NEW t, NEW a, NEW V, NEW O, NEW Mem, NEW P, NEW R, EnOrdre(t, a, V, O, Mem, P, R), NEW w \in V,
         NEW MM, NEW PP, NEW RR, P \subseteq PP, R \subseteq RR, Mem \cup RacinesDe(w.lot) \subseteq MM \cup PP
  PROVE  EnOrdre(t, a, V \ {w}, O, MM, PP, RR)
  <1> DEFINE D == Devancees(V, Mem, P)
             DD == Devancees(V \ {w}, MM, PP)
  <1>1. D \subseteq DD
    <2>1. \A v \in V : RacinesDe(v.lot) \subseteq DD
      <3> SUFFICES ASSUME NEW v \in V, v # w PROVE RacinesDe(v.lot) \subseteq DD
        BY DEF DD, Devancees
      <3>1. RacinesDe(v.lot) \in {RacinesDe(u.lot) : u \in V \ {w}}
        OBVIOUS
      <3> QED BY <3>1 DEF DD, Devancees
    <2> QED BY <2>1 DEF D, DD, Devancees
  <1> HIDE DEF D, DD
  <1>2. \A v \in V \ {w} : /\ Lies(v.lot) \subseteq RacinesDe(v.lot) \cup PP
                           /\ v.direct => \A s \in IdsDe(v.lot) : s[1] \in RR
    BY DEF EnOrdre
  <1>3. \A i \in DOMAIN a : Lies(a[i].lot) \subseteq DD \cup (UNION {RacinesDe(a[j].lot) : j \in 1..i})
    BY <1>1 DEF EnOrdre, D
  <1>4. Lies(t) \cup O \subseteq DD \cup RacinesDe(t) \cup (UNION {RacinesDe(a[j].lot) : j \in DOMAIN a})
    BY <1>1 DEF EnOrdre, D
  <1>5. /\ Ordonne(t, PP) /\ \A i \in DOMAIN a : Ordonne(a[i].lot, PP)
        /\ \A v \in V \ {w} : Ordonne(v.lot, PP)
    BY Croit DEF EnOrdre
  <1> QED BY <1>2, <1>3, <1>4, <1>5 DEF EnOrdre, DD

-----------------------------------------------------------------------------
(* The inductive invariant *)

\* A span held by a tab or by the file was produced, and is not one the user refused.
Bilan ==
  /\ \A o \in Onglets : Tenus(o) \subseteq emis /\ refuses \cap Tenus(o) = {}
  /\ IdsDe(fichier.spans) \subseteq emis /\ refuses \cap IdsDe(fichier.spans) = {}
  /\ refuses \subseteq emis /\ serveur \subseteq emis

\* A root is produced before its effect.
Nes ==
  /\ \A a \in Actions : <<a, "effet">> \in emis => <<a, "racine">> \in emis
  /\ \A o \in Onglets : \A a \in ouvertes[o] : <<a, "racine">> \in emis

\* A span both in the file and in a batch was put back while a tab had it.
Lieux == \A o \in Onglets : ActionsDe(Charge(o) \cap IdsDe(fichier.spans)) \subseteq doubles

\* The order, on the server and in the file.
Chaine == lies \subseteq Passees /\ EnChaine(fichier.spans, Passees)

OngletVide(o) == tampon[o] = <<>> /\ attente[o] = <<>> /\ vols[o] = {} /\ etape[o].fichier.spans = <<>>

\* A tab: its spans leave in order, the file it has in hand is in order, and it holds none
\* without consent, nor before it has sent the file again.
Onglet(o) ==
  /\ EnOrdre(tampon[o], attente[o], vols[o], ouvertes[o], abandonnees[o], Passees, presses)
  /\ EnChaine(etape[o].fichier.spans, Passees)
  /\ page[o] = "absente" \/ ~acces[o] => OngletVide(o)
  /\ etape[o].pas = "rejoue" => Charge(o) = {} /\ page[o] # "absente" /\ acces[o]

WebIInv == Types /\ Bilan /\ Nes /\ Lieux /\ Chaine /\ \A o \in Onglets : Onglet(o)

\* What a step of a tab leaves to the others.
Ailleurs(o) ==
  \A p \in Onglets \ {o} :
    /\ page'[p] = page[p] /\ acces'[p] = acces[p] /\ abandonnees'[p] = abandonnees[p] /\ tampon'[p] = tampon[p]
    /\ attente'[p] = attente[p] /\ vols'[p] = vols[p] /\ ouvertes'[p] = ouvertes[p] /\ etape'[p] = etape[p]

LEMMA Voisins ==
  ASSUME NEW o \in Onglets, Ailleurs(o)
  PROVE  \A p \in Onglets \ {o} : Tenus(p)' = Tenus(p) /\ Charge(p)' = Charge(p)
  BY DEF Ailleurs, Tenus, Charge

LEMMA PasseesCroit ==
  ASSUME serveur \subseteq serveur', presses \subseteq presses', doubles \subseteq doubles'
  PROVE  Passees \subseteq Passees' /\ presses' \subseteq Passees' /\ doubles' \subseteq Passees'
  BY DEF Passees

LEMMA WebEtape ==
  ASSUME WebIInv, NEW o \in Onglets, Types', Ailleurs(o),
         serveur \subseteq serveur', presses \subseteq presses', doubles \subseteq doubles',
         Bilan', Nes', Lieux', Chaine', Onglet(o)'
  PROVE  WebIInv'
  <1>1. Passees \subseteq Passees'
    BY PasseesCroit
  <1>2. ASSUME NEW p \in Onglets \ {o} PROVE Onglet(p)'
    <2>1. /\ page'[p] = page[p] /\ acces'[p] = acces[p] /\ abandonnees'[p] = abandonnees[p] /\ tampon'[p] = tampon[p]
          /\ attente'[p] = attente[p] /\ vols'[p] = vols[p] /\ ouvertes'[p] = ouvertes[p] /\ etape'[p] = etape[p]
      BY DEF Ailleurs
    <2>2. Onglet(p)
      BY DEF WebIInv
    <2>3. EnOrdre(tampon[p], attente[p], vols[p], ouvertes[p], abandonnees[p], Passees', presses')
      BY <1>1, <2>2, OrdreCroit DEF Onglet
    <2>4. EnChaine(etape[p].fichier.spans, Passees')
      BY <1>1, <2>2, Croit DEF Onglet
    <2>5. Charge(p)' = Charge(p) /\ OngletVide(p)' = OngletVide(p)
      BY <2>1, Voisins DEF OngletVide
    <2> QED BY <2>1, <2>2, <2>3, <2>4, <2>5 DEF Onglet
  <1> QED BY <1>2 DEF WebIInv

\* A step that moves the spans of a tab and of the file, and produces D.
LEMMA Flux ==
  ASSUME Bilan, NEW o \in Onglets, Ailleurs(o), NEW D, D \cap emis = {}, emis' = emis \cup D, refuses' = refuses,
         Tenus(o)' \cup IdsDe(fichier'.spans) \subseteq Tenus(o) \cup IdsDe(fichier.spans) \cup D,
         serveur' \subseteq serveur \cup Tenus(o)
  PROVE  Bilan'
  <1>1. \A p \in Onglets \ {o} : Tenus(p)' = Tenus(p)
    BY Voisins
  <1>2. /\ Tenus(o)' \subseteq emis' /\ refuses \cap Tenus(o)' = {} /\ IdsDe(fichier'.spans) \subseteq emis'
        /\ refuses \cap IdsDe(fichier'.spans) = {} /\ serveur' \subseteq emis'
    BY DEF Bilan
  <1>3. \A p \in Onglets : Tenus(p)' \subseteq emis' /\ refuses \cap Tenus(p)' = {}
    BY <1>1, <1>2 DEF Bilan
  <1>4. refuses \subseteq emis'
    BY DEF Bilan
  <1> QED BY <1>2, <1>3, <1>4 DEF Bilan

LEMMA ActionsDeCroit ==
  ASSUME NEW S, NEW T, S \subseteq T
  PROVE  ActionsDe(S) \subseteq ActionsDe(T) /\ ActionsDe({}) = {}
  BY DEF ActionsDe

\* A step that neither produces a span nor writes the file.
LEMMA Stable ==
  ASSUME WebIInv, NEW o \in Onglets, Types', Ailleurs(o), UNCHANGED <<fichier, emis, refuses>>,
         serveur \subseteq serveur', serveur' \subseteq serveur \cup Tenus(o),
         presses \subseteq presses', doubles \subseteq doubles', lies' \subseteq Passees', ouvertes'[o] \subseteq ouvertes[o],
         Charge(o)' \subseteq Charge(o), Tenus(o)' \subseteq Tenus(o) \cup IdsDe(fichier.spans), Onglet(o)'
  PROVE  WebIInv'
  <1>1. Bilan'
    <2>1. Bilan /\ emis' = emis \cup {}
      BY DEF WebIInv
    <2> QED BY <2>1, Flux
  <1>2. Nes'
    <2>1. \A p \in Onglets : ouvertes'[p] \subseteq ouvertes[p]
      BY DEF Ailleurs
    <2> QED BY <2>1 DEF WebIInv, Nes
  <1>3. Lieux'
    <2>1. \A p \in Onglets : Charge(p)' \subseteq Charge(p)
      BY Voisins
    <2>2. \A p \in Onglets : Charge(p)' \cap IdsDe(fichier'.spans) \subseteq Charge(p) \cap IdsDe(fichier.spans)
      BY <2>1
    <2>3. \A p \in Onglets : ActionsDe(Charge(p)' \cap IdsDe(fichier'.spans)) \subseteq ActionsDe(Charge(p) \cap IdsDe(fichier.spans))
      BY <2>2, ActionsDeCroit
    <2> QED BY <2>3 DEF WebIInv, Lieux
  <1>4. Chaine'
    BY PasseesCroit, Croit DEF WebIInv, Chaine
  <1> QED BY <1>1, <1>2, <1>3, <1>4, WebEtape

LEMMA OngletTypes ==
  ASSUME WebIInv, NEW o \in Onglets
  PROVE  /\ tampon[o] \in Lots /\ attente[o] \in Seq(Attentes) /\ vols[o] \in SUBSET Envois
         /\ abandonnees[o] \in SUBSET Actions /\ ouvertes[o] \in SUBSET Actions /\ tombes \in SUBSET Actions
         /\ fichier \in Fichiers /\ fichier.spans \in Lots
         /\ etape[o] \in Etapes /\ etape[o].fichier \in Fichiers /\ etape[o].fichier.spans \in Lots
         /\ Onglet(o) /\ Charge(o) = WebContenu(tampon[o], attente[o], vols[o])
         /\ Tenus(o) = Charge(o) \cup IdsDe(etape[o].fichier.spans)
         /\ EnChaine(fichier.spans, Passees) /\ lies \subseteq Passees
  <1>1. /\ Types /\ Onglet(o) /\ lies \subseteq Passees /\ EnChaine(fichier.spans, Passees)
        /\ etape[o] \in Etapes /\ fichier \in Fichiers
    BY DEF WebIInv, Types, Chaine
  <1>2. \A f \in Fichiers : f.spans \in Lots
    BY DEF Fichiers
  <1>3. etape[o].fichier \in Fichiers
    BY <1>1 DEF Etapes
  <1> QED BY <1>1, <1>2, <1>3, ChargeContenu DEF Types

\* What a callback leaves to do.
LEMMA SuitesWeb ==
  ASSUME NEW p \in {"libre", "rejoue", "ecrit", "marque"}, NEW f \in Fichiers
  PROVE  /\ Reste(p, f) \in Etapes /\ Reste(p, f).pas = p /\ Reste(p, f).fichier = f
         /\ Libre = Reste("libre", FichierVide) /\ FichierVide \in Fichiers /\ FichierVide.spans = <<>>
         /\ IdsDe(<<>>) = {} /\ \A X : EnChaine(<<>>, X)
  BY VideFichier, LotVide DEF Reste, Etapes, Libre, FichierVide

LEMMA WebDepart == WebInit => WebIInv
  <1> SUFFICES ASSUME WebInit PROVE WebIInv
    OBVIOUS
  <1>1. /\ Libre \in Etapes /\ Libre.pas = "libre" /\ Libre.fichier.spans = <<>>
        /\ fichier \in Fichiers /\ fichier.spans = <<>>
    BY VideFichier, SuitesWeb DEF WebInit
  <1>2. Types
    BY <1>1, LotVide, FileVide DEF WebInit, Types
  <1>3. ASSUME NEW o \in Onglets
        PROVE  /\ tampon[o] = <<>> /\ attente[o] = <<>> /\ vols[o] = {} /\ ouvertes[o] = {} /\ etape[o] = Libre
               /\ Charge(o) = {} /\ Tenus(o) = {}
    <2>1. tampon[o] = <<>> /\ attente[o] = <<>> /\ vols[o] = {} /\ ouvertes[o] = {} /\ etape[o] = Libre
      BY DEF WebInit
    <2> QED BY <1>1, <2>1, ChargeContenu, ContenuVide, LotVide
  <1>4. IdsDe(fichier.spans) = {} /\ \A X : EnChaine(<<>>, X)
    BY <1>1, LotVide, VideFichier DEF FichierVide
  <1>5. Bilan /\ Nes /\ Chaine
    BY <1>1, <1>3, <1>4 DEF WebInit, Bilan, Nes, Chaine
  <1>6. Lieux
    BY <1>3, ActionsDeCroit DEF Lieux
  <1>7. ASSUME NEW o \in Onglets PROVE Onglet(o)
    <2>1. EnOrdre(<<>>, <<>>, {}, {}, abandonnees[o], Passees, presses)
      BY ContenuVide
    <2> QED BY <1>1, <1>3, <1>4, <2>1 DEF Onglet, OngletVide
  <1> QED BY <1>2, <1>5, <1>6, <1>7 DEF WebIInv

-----------------------------------------------------------------------------
(* The page *)

LEMMA ChargerEtape ==
  ASSUME WebIInv, NEW o \in Onglets, etape[o] = Libre, Charger(o) \/ Accorder(o)
  PROVE  WebIInv'
  <1>1. /\ etape' = [etape EXCEPT ![o] = Reste("rejoue", fichier)] \/ etape' = etape
        /\ UNCHANGED <<fichier, tombes, tampon, attente, vols, ouvertes, abandonnees, emis, serveur, lies, presses, refuses, doubles>>
        /\ page'[o] # "absente" /\ acces'[o] /\ (page[o] = "absente" \/ ~acces[o])
        /\ page' \in [Onglets -> {"absente", "visible", "masquee"}] /\ acces' \in [Onglets -> BOOLEAN]
        /\ \A p \in Onglets \ {o} : page'[p] = page[p] /\ acces'[p] = acces[p]
    BY DEF Charger, Accorder, replayRetryQueue, terminal, monde, traces, WebIInv, Types
  <1>2. /\ OngletVide(o) /\ EnChaine(fichier.spans, Passees) /\ fichier \in Fichiers
        /\ EnOrdre(tampon[o], attente[o], vols[o], ouvertes[o], abandonnees[o], Passees, presses)
    BY <1>1, OngletTypes DEF Onglet
  <1>3. Charge(o) = {} /\ Passees' = Passees /\ Charge(o)' = Charge(o)
    BY <1>1, <1>2, ChargeContenu, ContenuVide DEF OngletVide, Passees
  <1>4. /\ etape' \in [Onglets -> Etapes] /\ (etape'[o] = Reste("rejoue", fichier) \/ etape'[o] = Libre)
        /\ \A p \in Onglets \ {o} : etape'[p] = etape[p]
    <2>1. Reste("rejoue", fichier) \in Etapes
      BY <1>2, SuitesWeb
    <2> QED BY <1>1, <2>1 DEF WebIInv, Types
  <1>5. EnChaine(etape'[o].fichier.spans, Passees) /\ IdsDe(etape'[o].fichier.spans) \subseteq IdsDe(fichier.spans)
    BY <1>2, <1>4, SuitesWeb
  <1>6. Types'
    BY <1>1, <1>4 DEF WebIInv, Types
  <1>7. Ailleurs(o)
    BY <1>1, <1>4 DEF Ailleurs
  <1>8. Onglet(o)'
    BY <1>1, <1>2, <1>3, <1>5 DEF Onglet
  <1>9. Tenus(o)' \subseteq Tenus(o) \cup IdsDe(fichier.spans)
    BY <1>3, <1>5, ChargeContenu
  <1>10. lies' \subseteq Passees'
    BY <1>1, <1>3, OngletTypes
  <1> QED BY <1>1, <1>3, <1>6, <1>7, <1>8, <1>9, <1>10, Stable

\* The file read goes through the buffer again, once it is cleared.
LEMMA RejouerEtape ==
  ASSUME WebIInv, NEW o \in Onglets, Rejouer(o)
  PROVE  WebIInv'
  <1> DEFINE f == etape[o].fichier.spans
             u == tampon[o] \o f
  <1>1. /\ etape[o].pas = "rejoue" /\ (fichier' = FichierVide \/ fichier' = fichier)
        /\ tampon' = [tampon EXCEPT ![o] = u] /\ etape' = [etape EXCEPT ![o] = Libre]
        /\ doubles' = doubles \cup ActionsDe(IdsDe(f) \cap IdsDe(fichier'.spans))
        /\ UNCHANGED <<tombes, page, acces, abandonnees, attente, vols, ouvertes, emis, serveur, lies, presses, refuses>>
    BY DEF Rejouer, monde
  <1>2. /\ tampon[o] \in Lots /\ f \in Lots /\ fichier \in Fichiers /\ EnChaine(fichier.spans, Passees)
        /\ EnOrdre(tampon[o], attente[o], vols[o], ouvertes[o], abandonnees[o], Passees, presses)
        /\ EnChaine(f, Passees) /\ Charge(o) = {} /\ page[o] # "absente" /\ acces[o]
        /\ Charge(o) = WebContenu(tampon[o], attente[o], vols[o]) /\ Tenus(o) = Charge(o) \cup IdsDe(f)
        /\ lies \subseteq Passees
    BY <1>1, OngletTypes DEF Onglet
  <1> HIDE DEF f
  <1>3. /\ u \in Lots /\ IdsDe(u) = IdsDe(tampon[o]) \cup IdsDe(f) /\ Lies(u) = Lies(tampon[o]) \cup Lies(f)
        /\ Ordonne(tampon[o], Passees) /\ Ordonne(f, Passees) /\ Lies(tampon[o]) \cap RacinesDe(f) \subseteq Passees
           => Ordonne(u, Passees)
    BY <1>2, LotSuite
  <1> HIDE DEF u
  <1>4. Lies(tampon[o]) = {}
    <2>1. IdsDe(tampon[o]) = {}
      BY <1>2 DEF WebContenu
    <2> QED BY <1>2, <2>1, LotIds
  <1>5. Ordonne(u, Passees)
    BY <1>2, <1>3, <1>4 DEF EnOrdre, EnChaine
  <1>6. RacinesDe(u) = RacinesDe(tampon[o]) \cup RacinesDe(f)
    BY <1>2, <1>3, LotIds
  <1>7. EnOrdre(u, attente[o], vols[o], ouvertes[o], abandonnees[o], Passees, presses)
    <2>1. RacinesDe(tampon[o]) \subseteq RacinesDe(u)
      BY <1>6
    <2>2. Lies(u) \cup ouvertes[o] \subseteq Lies(tampon[o]) \cup ouvertes[o] \cup RacinesDe(u) \cup Passees
      BY <1>2, <1>3, <1>6 DEF EnChaine
    <2> QED BY <1>2, <1>5, <2>1, <2>2, OrdreAjoute
  <1>8. Passees \subseteq Passees' /\ doubles \subseteq doubles'
    BY <1>1, PasseesCroit
  <1>9. /\ tampon'[o] = u /\ tampon' \in [Onglets -> Lots] /\ etape'[o] = Libre /\ etape' \in [Onglets -> Etapes]
        /\ \A p \in Onglets \ {o} : tampon'[p] = tampon[p] /\ etape'[p] = etape[p]
    <2>1. Libre \in Etapes
      BY VideFichier, SuitesWeb
    <2> QED BY <1>1, <1>3, <2>1 DEF WebIInv, Types
  <1>10. Libre.fichier.spans = <<>> /\ Libre.pas = "libre" /\ IdsDe(<<>>) = {} /\ \A X : EnChaine(<<>>, X)
    BY VideFichier, SuitesWeb
  <1>11. Charge(o)' = IdsDe(f) /\ Tenus(o)' = Tenus(o)
    <2> DEFINE D == IdsDe(f)
    <2>1. WebContenu(u, attente[o], vols[o]) = Charge(o) \cup IdsDe(f)
      <3>1. IdsDe(u) = IdsDe(tampon[o]) \cup D
        BY <1>3
      <3> HIDE DEF D
      <3>2. WebContenu(u, attente[o], vols[o]) = WebContenu(tampon[o], attente[o], vols[o]) \cup D
        BY <3>1, ContenuAjoute
      <3>3. Charge(o) = WebContenu(tampon[o], attente[o], vols[o])
        BY <1>2
      <3> QED BY <3>2, <3>3 DEF D
    <2> QED BY <1>1, <1>2, <1>9, <1>10, <2>1, ChargeContenu
  <1>12. /\ fichier' \in Fichiers /\ IdsDe(fichier'.spans) \subseteq IdsDe(fichier.spans)
         /\ EnChaine(fichier'.spans, Passees)
    BY <1>1, <1>2, VideFichier
  <1>13. Types'
    BY <1>1, <1>9, <1>12 DEF WebIInv, Types
  <1>14. Ailleurs(o)
    BY <1>1, <1>9 DEF Ailleurs
  <1>15. Onglet(o)'
    <2>1. EnOrdre(u, attente[o], vols[o], ouvertes[o], abandonnees[o], Passees', presses')
      BY <1>1, <1>7, <1>8, OrdreCroit
    <2> QED BY <1>1, <1>2, <1>9, <1>10, <2>1 DEF Onglet
  <1>16. Bilan'
    <2>1. Bilan /\ emis' = emis \cup {}
      BY <1>1 DEF WebIInv
    <2> QED BY <1>1, <1>11, <1>12, <1>14, <2>1, Flux
  <1>17. Nes'
    BY <1>1 DEF WebIInv, Nes
  <1>18. Chaine'
    BY <1>1, <1>2, <1>8, <1>12, Croit DEF Chaine
  <1>19. Lieux'
    <2>1. ASSUME NEW p \in Onglets, p # o PROVE ActionsDe(Charge(p)' \cap IdsDe(fichier'.spans)) \subseteq doubles'
      <3>1. Charge(p)' \cap IdsDe(fichier'.spans) \subseteq Charge(p) \cap IdsDe(fichier.spans)
        BY <1>12, <1>14, <2>1, Voisins
      <3>2. ActionsDe(Charge(p)' \cap IdsDe(fichier'.spans)) \subseteq ActionsDe(Charge(p) \cap IdsDe(fichier.spans))
        BY <3>1, ActionsDeCroit
      <3>3. ActionsDe(Charge(p) \cap IdsDe(fichier.spans)) \subseteq doubles
        BY DEF WebIInv, Lieux
      <3> QED BY <1>8, <3>2, <3>3
    <2> QED BY <2>1, <1>1, <1>11 DEF Lieux
  <1> QED BY <1>1, <1>8, <1>13, <1>14, <1>15, <1>16, <1>17, <1>18, <1>19, WebEtape

LEMMA EmettreEtape ==
  ASSUME WebIInv, NEW o \in Onglets, etape[o] = Libre, NEW a \in Actions, Emettre(o, a)
  PROVE  WebIInv'
  <1>1. PICK s \in {<<a, "racine">>, <<a, "effet">>} \cap Spans :
          /\ s \notin emis
          /\ s[2] = "effet" => a \in ouvertes[o]
          /\ emis' = emis \cup {s}
          /\ tampon' = [tampon EXCEPT ![o] = Append(@, [id |-> s, lie |-> TRUE])]
    BY DEF Emettre
  <1>2. /\ page[o] # "absente" /\ acces[o]
        /\ ouvertes' = [ouvertes EXCEPT ![o] = @ \cup {a}]
        /\ UNCHANGED <<fichier, tombes, page, acces, abandonnees, attente, vols, etape, serveur, lies, presses, refuses, doubles>>
    BY DEF Emettre, terminal, traces
  <1> DEFINE e == [id |-> s, lie |-> TRUE]
             u == Append(tampon[o], e)
  <1>3. e \in Element /\ s[1] = a /\ s = <<a, s[2]>> /\ (s[2] = "racine" \/ s[2] = "effet")
    BY DEF Element
  <1>4. /\ tampon[o] \in Lots /\ Onglet(o) /\ Charge(o) = WebContenu(tampon[o], attente[o], vols[o])
        /\ Tenus(o) = Charge(o) \cup IdsDe(etape[o].fichier.spans) /\ Tenus(o) \subseteq emis
    BY OngletTypes DEF WebIInv, Bilan
  <1>5. s[2] = "racine" => a \notin Lies(tampon[o])
    <2> SUFFICES ASSUME s[2] = "racine", a \in Lies(tampon[o]) PROVE FALSE
      OBVIOUS
    <2>1. <<a, "effet">> \in IdsDe(tampon[o])
      BY <1>4, LotIds
    <2>2. <<a, "effet">> \in emis
      BY <1>4, <2>1 DEF WebContenu
    <2>3. <<a, "racine">> \in emis
      BY <2>2 DEF WebIInv, Nes
    <2> QED BY <1>1, <1>3, <2>3
  <1>6. /\ u \in Lots /\ IdsDe(u) = IdsDe(tampon[o]) \cup {s}
        /\ Lies(u) = Lies(tampon[o]) \cup (IF s[2] = "effet" THEN {a} ELSE {})
        /\ Ordonne(u, Passees)
    <2>1. e.id = s /\ e.lie = TRUE
      OBVIOUS
    <2>2. Ordonne(tampon[o], Passees)
      BY <1>4 DEF Onglet, EnOrdre
    <2> HIDE DEF e
    <2> QED BY <1>3, <1>4, <1>5, <2>1, <2>2, LotAjoute
  <1> HIDE DEF u
  <1>7. RacinesDe(tampon[o]) \subseteq RacinesDe(u) /\ (s[2] = "racine" => a \in RacinesDe(u))
    BY <1>3, <1>4, <1>6, LotIds
  <1>8. /\ tampon'[o] = u /\ ouvertes'[o] = ouvertes[o] \cup {a}
        /\ tampon' \in [Onglets -> Lots] /\ ouvertes' \in [Onglets -> SUBSET Actions]
        /\ \A p \in Onglets \ {o} : tampon'[p] = tampon[p] /\ ouvertes'[p] = ouvertes[p]
    BY <1>1, <1>2, <1>6 DEF u, WebIInv, Types
  <1>9. EnOrdre(u, attente[o], vols[o], ouvertes'[o], abandonnees[o], Passees, presses)
    <2>1. Lies(u) \cup ouvertes'[o] \subseteq Lies(tampon[o]) \cup ouvertes[o] \cup RacinesDe(u) \cup Passees
      BY <1>1, <1>3, <1>6, <1>7, <1>8
    <2> QED BY <1>4, <1>6, <1>7, <2>1, OrdreAjoute DEF Onglet
  <1>10. Charge(o)' = Charge(o) \cup {s} /\ Tenus(o)' = Tenus(o) \cup {s}
    <2> DEFINE D == {s}
    <2>1. IdsDe(u) = IdsDe(tampon[o]) \cup D
      BY <1>6
    <2> HIDE DEF D
    <2>2. WebContenu(u, attente[o], vols[o]) = WebContenu(tampon[o], attente[o], vols[o]) \cup D
      BY <2>1, ContenuAjoute
    <2>3. Charge(o)' = Charge(o) \cup D
      BY <1>2, <1>4, <1>8, <2>2, ChargeContenu
    <2> QED BY <1>2, <1>4, <2>3, ChargeContenu DEF D
  <1>11. Passees' = Passees
    BY <1>2 DEF Passees
  <1>12. Onglet(o)'
    <2>1. etape'[o].pas # "rejoue"
      BY <1>2, VideFichier, SuitesWeb
    <2> QED BY <1>2, <1>4, <1>8, <1>9, <1>11, <2>1 DEF Onglet
  <1>13. Ailleurs(o)
    BY <1>2, <1>8 DEF Ailleurs
  <1>14. Types'
    BY <1>1, <1>2, <1>8 DEF WebIInv, Types
  <1>15. Chaine'
    BY <1>2, <1>11 DEF WebIInv, Chaine
  <1>16. s \notin IdsDe(fichier.spans)
    BY <1>1 DEF WebIInv, Bilan
  <1>17. Bilan'
    <2>1. Bilan /\ {s} \cap emis = {}
      BY <1>1 DEF WebIInv
    <2>2. Tenus(o)' \cup IdsDe(fichier'.spans) \subseteq Tenus(o) \cup IdsDe(fichier.spans) \cup {s}
      BY <1>2, <1>10
    <2> QED BY <1>1, <1>2, <1>13, <2>1, <2>2, Flux
  <1>18. Nes'
    <2>1. \A b \in Actions : <<b, "effet">> \in emis' => <<b, "racine">> \in emis'
      <3>1. \A b \in Actions : <<b, "effet">> = s => b = a /\ s[2] = "effet"
        BY <1>3
      <3>2. s[2] = "effet" => <<a, "racine">> \in emis
        BY <1>1 DEF WebIInv, Nes
      <3> QED BY <1>1, <3>1, <3>2 DEF WebIInv, Nes
    <2>2. <<a, "racine">> \in emis'
      <3>1. CASE s[2] = "racine"
        BY <1>1, <1>3, <3>1
      <3>2. CASE s[2] = "effet"
        BY <1>1, <3>2 DEF WebIInv, Nes
      <3> QED BY <1>3, <3>1, <3>2
    <2>3. \A p \in Onglets : \A b \in ouvertes'[p] : <<b, "racine">> \in emis'
      BY <1>1, <1>8, <2>2 DEF WebIInv, Nes
    <2> QED BY <2>1, <2>3 DEF Nes
  <1>19. Lieux'
    <2>1. ASSUME NEW p \in Onglets PROVE Charge(p)' \cap IdsDe(fichier'.spans) \subseteq Charge(p) \cap IdsDe(fichier.spans)
      <3>1. CASE p = o
        BY <1>2, <1>10, <1>16, <3>1
      <3>2. CASE p # o
        BY <1>2, <1>13, <3>2, Voisins
      <3> QED BY <3>1, <3>2
    <2>2. \A p \in Onglets : ActionsDe(Charge(p)' \cap IdsDe(fichier'.spans)) \subseteq ActionsDe(Charge(p) \cap IdsDe(fichier.spans))
      BY <2>1, ActionsDeCroit
    <2> QED BY <1>2, <2>2 DEF WebIInv, Lieux
  <1> QED BY <1>2, <1>12, <1>13, <1>14, <1>15, <1>17, <1>18, <1>19, WebEtape

LEMMA ViderEtape ==
  ASSUME WebIInv, NEW o \in Onglets, etape[o] = Libre, Vider(o)
  PROVE  WebIInv'
  <1> DEFINE n == IF Len(tampon[o]) > MaxBatch THEN MaxBatch ELSE Len(tampon[o])
             p == SubSeq(tampon[o], 1, n)
             r == SubSeq(tampon[o], n + 1, Len(tampon[o]))
             e == [lot |-> p, apres |-> {v.lot : v \in {w \in vols[o] : w.direct}}]
  <1>1. /\ page[o] = "visible" /\ tampon[o] # <<>>
        /\ tampon' = [tampon EXCEPT ![o] = r] /\ attente' = [attente EXCEPT ![o] = Append(@, e)]
        /\ UNCHANGED <<fichier, tombes, page, acces, abandonnees, vols, ouvertes, etape, emis, serveur, lies, presses, refuses, doubles>>
    BY DEF Vider, terminal, monde, traces
  <1>2. /\ tampon[o] \in Lots /\ attente[o] \in Seq(Attentes) /\ vols[o] \in SUBSET Envois /\ Onglet(o)
        /\ Charge(o) = WebContenu(tampon[o], attente[o], vols[o]) /\ lies \subseteq Passees
        /\ EnOrdre(tampon[o], attente[o], vols[o], ouvertes[o], abandonnees[o], Passees, presses)
    BY OngletTypes DEF Onglet
  <1>3. n \in Nat /\ n <= Len(tampon[o])
    BY <1>2, LotPositions
  <1> HIDE DEF n
  <1>4. /\ p \in Lots /\ r \in Lots /\ IdsDe(tampon[o]) = IdsDe(p) \cup IdsDe(r) /\ Lies(tampon[o]) = Lies(p) \cup Lies(r)
        /\ Ordonne(p, Passees) /\ Ordonne(r, Passees) /\ Lies(p) \cap RacinesDe(tampon[o]) \subseteq RacinesDe(p) \cup Passees
    <2>1. Ordonne(tampon[o], Passees)
      BY <1>2 DEF EnOrdre
    <2> QED BY <1>2, <1>3, <2>1, LotCoupe
  <1> HIDE DEF p, r
  <1>5. e \in Attentes /\ e.lot = p
    BY <1>2, <1>4 DEF Attentes, Envois
  <1> HIDE DEF e
  <1>6. Append(attente[o], e) \in Seq(Attentes)
    BY <1>2, <1>5, FileFin
  <1>7. /\ tampon'[o] = r /\ attente'[o] = Append(attente[o], e)
        /\ tampon' \in [Onglets -> Lots] /\ attente' \in [Onglets -> Seq(Attentes)]
        /\ \A q \in Onglets \ {o} : tampon'[q] = tampon[q] /\ attente'[q] = attente[q]
    BY <1>1, <1>4, <1>6 DEF WebIInv, Types
  <1>8. WebContenu(r, Append(attente[o], e), vols[o]) = WebContenu(tampon[o], attente[o], vols[o])
    <2>1. WebContenu(r, Append(attente[o], e), vols[o]) = WebContenu(r, attente[o], vols[o]) \cup IdsDe(e.lot)
      BY <1>2, <1>5, ContenuVider
    <2>2. IdsDe(tampon[o]) = IdsDe(r) \cup IdsDe(e.lot)
      BY <1>4, <1>5
    <2> QED BY <2>1, <2>2 DEF WebContenu
  <1>9. EnOrdre(r, Append(attente[o], e), vols[o], ouvertes[o], abandonnees[o], Passees, presses)
    BY <1>2, <1>4, <1>5, OrdreVider
  <1>10. Charge(o)' = Charge(o) /\ Tenus(o)' = Tenus(o) /\ Passees' = Passees
    <2>1. Passees' = Passees
      BY <1>1 DEF Passees
    <2>2. Charge(o)' = Charge(o)
      BY <1>1, <1>2, <1>7, <1>8, ChargeContenu
    <2> QED BY <1>1, <2>1, <2>2, ChargeContenu
  <1>11. Onglet(o)'
    <2>1. page[o] # "absente" /\ acces[o]
      BY <1>1, <1>2 DEF Onglet, OngletVide
    <2> QED BY <1>1, <1>2, <1>7, <1>9, <1>10, <2>1 DEF Onglet
  <1>12. Ailleurs(o)
    BY <1>1, <1>7 DEF Ailleurs
  <1>13. Types'
    BY <1>1, <1>7 DEF WebIInv, Types
  <1>14. lies' \subseteq Passees'
    BY <1>1, <1>2, <1>10
  <1> QED BY <1>1, <1>10, <1>11, <1>12, <1>13, <1>14, Stable

\* What export does: the roots of the batch are given back, those still given up are to be marked.
LEMMA ExporterFaits ==
  ASSUME WebIInv, NEW o \in Onglets, NEW lot \in Lots, NEW direct \in BOOLEAN, Exporter(o, lot, direct)
  PROVE  /\ abandonnees[o] \subseteq abandonnees'[o] \cup RacinesDe(lot)
         /\ abandonnees' \in [Onglets -> SUBSET Actions] /\ vols' \in [Onglets -> SUBSET Envois] /\ etape' \in [Onglets -> Etapes]
         /\ vols'[o] = vols[o] \cup {[lot |-> Delier(lot, abandonnees'[o]), direct |-> direct]}
         /\ IdsDe(Delier(lot, abandonnees'[o])) = IdsDe(lot)
         /\ etape'[o].fichier.spans = <<>> /\ etape'[o].pas = "marque"
         /\ \A p \in Onglets \ {o} : abandonnees'[p] = abandonnees[p] /\ vols'[p] = vols[p] /\ etape'[p] = etape[p]
         /\ presses' = IF direct THEN presses \cup ActionsDe(IdsDe(lot)) ELSE presses
  <1>1. PICK lues \in {tombes, {}} :
          LET R == (abandonnees[o] \cup lues) \ RacinesDe(lot)
          IN  /\ abandonnees' = [abandonnees EXCEPT ![o] = R]
              /\ vols' = [vols EXCEPT ![o] = @ \cup {[lot |-> Delier(lot, R), direct |-> direct]}]
              /\ etape' = [etape EXCEPT ![o] = Reste("marque", FichierVide)]
              /\ presses' = IF direct THEN presses \cup ActionsDe(IdsDe(lot)) ELSE presses
    BY DEF Exporter
  <1> DEFINE R == (abandonnees[o] \cup lues) \ RacinesDe(lot)
             w == [lot |-> Delier(lot, R), direct |-> direct]
  <1>2. /\ abandonnees' = [abandonnees EXCEPT ![o] = R] /\ vols' = [vols EXCEPT ![o] = @ \cup {w}]
        /\ etape' = [etape EXCEPT ![o] = Reste("marque", FichierVide)]
        /\ presses' = IF direct THEN presses \cup ActionsDe(IdsDe(lot)) ELSE presses
    BY <1>1
  <1>3. R \in SUBSET Actions /\ abandonnees[o] \subseteq R \cup RacinesDe(lot)
    BY DEF WebIInv, Types
  <1>4. Delier(lot, R) \in Lots /\ IdsDe(Delier(lot, R)) = IdsDe(lot)
    BY LotDelie
  <1>5. w \in Envois
    BY <1>4 DEF Envois
  <1> HIDE DEF R
  <1>6. /\ abandonnees' \in [Onglets -> SUBSET Actions] /\ abandonnees'[o] = R
        /\ \A p \in Onglets \ {o} : abandonnees'[p] = abandonnees[p]
    BY <1>2, <1>3 DEF WebIInv, Types
  <1> HIDE DEF w
  <1>7. /\ vols' \in [Onglets -> SUBSET Envois] /\ vols'[o] = vols[o] \cup {w}
        /\ \A p \in Onglets \ {o} : vols'[p] = vols[p]
    BY <1>2, <1>5 DEF WebIInv, Types
  <1>8. /\ etape' \in [Onglets -> Etapes] /\ etape'[o].fichier.spans = <<>> /\ etape'[o].pas = "marque"
        /\ \A p \in Onglets \ {o} : etape'[p] = etape[p]
    <2>1. /\ Reste("marque", FichierVide) \in Etapes /\ Reste("marque", FichierVide).pas = "marque"
          /\ Reste("marque", FichierVide).fichier.spans = <<>>
      BY VideFichier, SuitesWeb
    <2> QED BY <1>2, <2>1 DEF WebIInv, Types
  <1> QED BY <1>2, <1>3, <1>4, <1>6, <1>7, <1>8 DEF w

LEMMA EnvoyerEtape ==
  ASSUME WebIInv, NEW o \in Onglets, etape[o] = Libre, Envoyer(o)
  PROVE  WebIInv'
  <1> DEFINE lot == Head(attente[o]).lot
             w == [lot |-> Delier(lot, abandonnees'[o]), direct |-> FALSE]
  <1>1. /\ attente[o] # <<>> /\ \A v \in vols[o] : v.direct
        /\ attente' = [attente EXCEPT ![o] = Tail(@)] /\ Exporter(o, lot, FALSE)
        /\ UNCHANGED <<fichier, tombes, page, acces, tampon, ouvertes, emis, serveur, lies, refuses, doubles>>
    BY DEF Envoyer, terminal, monde
  <1>2. /\ tampon[o] \in Lots /\ attente[o] \in Seq(Attentes) /\ vols[o] \in SUBSET Envois /\ Onglet(o)
        /\ Charge(o) = WebContenu(tampon[o], attente[o], vols[o]) /\ abandonnees[o] \in SUBSET Actions
        /\ Tenus(o) = Charge(o) \cup IdsDe(etape[o].fichier.spans) /\ lies \subseteq Passees
        /\ EnOrdre(tampon[o], attente[o], vols[o], ouvertes[o], abandonnees[o], Passees, presses)
    BY OngletTypes DEF Onglet
  <1>3. Head(attente[o]) \in Attentes /\ Tail(attente[o]) \in Seq(Attentes) /\ lot \in Lots
    <2>1. Head(attente[o]) \in Attentes /\ Tail(attente[o]) \in Seq(Attentes)
      <3>1. attente[o] # <<>> /\ attente[o] \in Seq(Attentes)
        BY <1>1, <1>2
      <3> QED BY <3>1, FileReste
    <2> QED BY <2>1 DEF Attentes
  <1>4. /\ abandonnees[o] \subseteq abandonnees'[o] \cup RacinesDe(lot)
        /\ abandonnees' \in [Onglets -> SUBSET Actions] /\ vols' \in [Onglets -> SUBSET Envois] /\ etape' \in [Onglets -> Etapes]
        /\ vols'[o] = vols[o] \cup {w} /\ IdsDe(w.lot) = IdsDe(lot)
        /\ etape'[o].fichier.spans = <<>> /\ etape'[o].pas = "marque"
        /\ \A p \in Onglets \ {o} : abandonnees'[p] = abandonnees[p] /\ vols'[p] = vols[p] /\ etape'[p] = etape[p]
        /\ presses' = presses
    <2>1. Exporter(o, lot, FALSE) /\ FALSE \in BOOLEAN
      BY <1>1
    <2>2. /\ vols'[o] = vols[o] \cup {w} /\ IdsDe(w.lot) = IdsDe(lot) /\ presses' = presses
          /\ abandonnees[o] \subseteq abandonnees'[o] \cup RacinesDe(lot)
      <3>1. vols'[o] = vols[o] \cup {[lot |-> Delier(lot, abandonnees'[o]), direct |-> FALSE]}
        BY <1>3, <2>1, ExporterFaits
      <3>2. IdsDe(Delier(lot, abandonnees'[o])) = IdsDe(lot)
        BY <1>3, <2>1, ExporterFaits
      <3>3. presses' = IF FALSE THEN presses \cup ActionsDe(IdsDe(lot)) ELSE presses
        BY <1>3, <2>1, ExporterFaits
      <3>4. abandonnees[o] \subseteq abandonnees'[o] \cup RacinesDe(lot)
        BY <1>3, <2>1, ExporterFaits
      <3> QED BY <3>1, <3>2, <3>3, <3>4
    <2>3. /\ abandonnees' \in [Onglets -> SUBSET Actions] /\ vols' \in [Onglets -> SUBSET Envois] /\ etape' \in [Onglets -> Etapes]
          /\ etape'[o].fichier.spans = <<>> /\ etape'[o].pas = "marque"
          /\ \A p \in Onglets \ {o} : abandonnees'[p] = abandonnees[p] /\ vols'[p] = vols[p] /\ etape'[p] = etape[p]
      BY <1>3, <2>1, ExporterFaits
    <2> QED BY <2>2, <2>3
  <1>5. w.lot = Delier(lot, abandonnees'[o]) /\ w.direct = FALSE
    OBVIOUS
  <1> HIDE DEF w
  <1>6. /\ attente'[o] = Tail(attente[o]) /\ attente' \in [Onglets -> Seq(Attentes)]
        /\ \A p \in Onglets \ {o} : attente'[p] = attente[p]
    BY <1>1, <1>3 DEF WebIInv, Types
  <1>7. WebContenu(tampon[o], Tail(attente[o]), vols[o] \cup {w}) = Charge(o)
    <2>1. attente[o] # <<>> /\ attente[o] \in Seq(Attentes) /\ IdsDe(w.lot) = IdsDe(Head(attente[o]).lot)
      BY <1>1, <1>2, <1>4
    <2>2. WebContenu(tampon[o], Tail(attente[o]), vols[o] \cup {w}) = WebContenu(tampon[o], attente[o], vols[o])
      BY <2>1, ContenuEnvoie
    <2> QED BY <1>2, <2>2
  <1>8. EnOrdre(tampon[o], Tail(attente[o]), vols[o] \cup {w}, ouvertes[o], abandonnees'[o], Passees, presses)
    <2>1. presses \subseteq Passees
      BY DEF Passees
    <2> QED BY <1>1, <1>2, <1>4, <1>5, <2>1, OrdreEnvoie
  <1>9. /\ Charge(o)' = Charge(o) /\ Tenus(o)' = Charge(o) /\ Passees' = Passees
    <2>1. Passees' = Passees
      BY <1>1, <1>4 DEF Passees
    <2>2. Charge(o)' = Charge(o)
      BY <1>1, <1>4, <1>6, <1>7, ChargeContenu
    <2> QED BY <1>4, <2>1, <2>2, ChargeContenu, LotVide
  <1>10. Onglet(o)'
    <2>1. page[o] # "absente" /\ acces[o]
      BY <1>1, <1>2 DEF Onglet, OngletVide
    <2>2. \A X : EnChaine(<<>>, X)
      BY VideFichier, SuitesWeb
    <2> QED BY <1>1, <1>4, <1>6, <1>8, <1>9, <2>1, <2>2 DEF Onglet
  <1>11. Ailleurs(o)
    BY <1>1, <1>4, <1>6 DEF Ailleurs
  <1>12. Types'
    BY <1>1, <1>4, <1>6 DEF WebIInv, Types
  <1>13. lies' \subseteq Passees'
    BY <1>1, <1>2, <1>9
  <1> QED BY <1>1, <1>2, <1>4, <1>9, <1>10, <1>11, <1>12, <1>13, Stable

LEMMA MasquerEtape ==
  ASSUME WebIInv, NEW o \in Onglets, etape[o] = Libre, Masquer(o)
  PROVE  WebIInv'
  <1> DEFINE w == [lot |-> Delier(tampon[o], abandonnees'[o]), direct |-> TRUE]
  <1>1. /\ page[o] # "absente" /\ page' = [page EXCEPT ![o] = "masquee"] /\ tampon' = [tampon EXCEPT ![o] = <<>>]
        /\ UNCHANGED <<fichier, tombes, acces, attente, ouvertes, emis, serveur, lies, refuses, doubles>>
    BY DEF Masquer, terminal, monde
  <1>2. /\ tampon[o] \in Lots /\ attente[o] \in Seq(Attentes) /\ vols[o] \in SUBSET Envois /\ Onglet(o)
        /\ Charge(o) = WebContenu(tampon[o], attente[o], vols[o]) /\ abandonnees[o] \in SUBSET Actions
        /\ Tenus(o) = Charge(o) \cup IdsDe(etape[o].fichier.spans) /\ lies \subseteq Passees
        /\ EnOrdre(tampon[o], attente[o], vols[o], ouvertes[o], abandonnees[o], Passees, presses)
    BY OngletTypes DEF Onglet
  <1>3. /\ page' \in [Onglets -> {"absente", "visible", "masquee"}] /\ page'[o] = "masquee"
        /\ tampon'[o] = <<>> /\ tampon' \in [Onglets -> Lots]
        /\ \A p \in Onglets \ {o} : page'[p] = page[p] /\ tampon'[p] = tampon[p]
    BY <1>1, LotVide DEF WebIInv, Types
  <1>4. Libre.fichier.spans = <<>> /\ Libre.pas = "libre" /\ \A X : EnChaine(<<>>, X)
    BY VideFichier, SuitesWeb
  <1>5. /\ abandonnees' \in [Onglets -> SUBSET Actions] /\ vols' \in [Onglets -> SUBSET Envois] /\ etape' \in [Onglets -> Etapes]
        /\ \A p \in Onglets \ {o} : abandonnees'[p] = abandonnees[p] /\ vols'[p] = vols[p] /\ etape'[p] = etape[p]
        /\ presses \subseteq presses' /\ Passees \subseteq Passees' /\ WebContenu(<<>>, attente[o], vols'[o]) = Charge(o)
        /\ etape'[o].fichier.spans = <<>> /\ etape'[o].pas # "rejoue"
        /\ EnOrdre(<<>>, attente[o], vols'[o], ouvertes[o], abandonnees'[o], Passees', presses')
        /\ ~acces[o] => OngletVide(o)'
    <2>1. CASE tampon[o] = <<>>
      <3>1. UNCHANGED <<abandonnees, vols, presses, etape>>
        BY <2>1 DEF Masquer
      <3>2. Passees' = Passees
        BY <1>1, <3>1 DEF Passees
      <3>3. ~acces[o] => OngletVide(o)'
        BY <1>1, <1>2, <1>3, <3>1 DEF Onglet, OngletVide
      <3> QED BY <1>2, <1>4, <2>1, <3>1, <3>2, <3>3 DEF WebIInv, Types
    <2>2. CASE tampon[o] # <<>>
      <3>1. Exporter(o, tampon[o], TRUE)
        BY <2>2 DEF Masquer
      <3>2. /\ abandonnees[o] \subseteq abandonnees'[o] \cup RacinesDe(tampon[o])
            /\ abandonnees' \in [Onglets -> SUBSET Actions] /\ vols' \in [Onglets -> SUBSET Envois] /\ etape' \in [Onglets -> Etapes]
            /\ vols'[o] = vols[o] \cup {w} /\ IdsDe(w.lot) = IdsDe(tampon[o])
            /\ etape'[o].fichier.spans = <<>> /\ etape'[o].pas = "marque"
            /\ \A p \in Onglets \ {o} : abandonnees'[p] = abandonnees[p] /\ vols'[p] = vols[p] /\ etape'[p] = etape[p]
            /\ presses' = presses \cup ActionsDe(IdsDe(tampon[o]))
        <4>1. tampon[o] \in Lots /\ TRUE \in BOOLEAN
          BY <1>2
        <4>2. /\ vols'[o] = vols[o] \cup {w} /\ IdsDe(w.lot) = IdsDe(tampon[o])
              /\ abandonnees[o] \subseteq abandonnees'[o] \cup RacinesDe(tampon[o])
              /\ presses' = presses \cup ActionsDe(IdsDe(tampon[o]))
          <5>1. vols'[o] = vols[o] \cup {[lot |-> Delier(tampon[o], abandonnees'[o]), direct |-> TRUE]}
            BY <3>1, <4>1, ExporterFaits
          <5>2. IdsDe(Delier(tampon[o], abandonnees'[o])) = IdsDe(tampon[o])
            BY <3>1, <4>1, ExporterFaits
          <5>3. presses' = IF TRUE THEN presses \cup ActionsDe(IdsDe(tampon[o])) ELSE presses
            BY <3>1, <4>1, ExporterFaits
          <5>4. abandonnees[o] \subseteq abandonnees'[o] \cup RacinesDe(tampon[o])
            BY <3>1, <4>1, ExporterFaits
          <5> QED BY <5>1, <5>2, <5>3, <5>4
        <4>3. /\ abandonnees' \in [Onglets -> SUBSET Actions] /\ vols' \in [Onglets -> SUBSET Envois]
              /\ etape' \in [Onglets -> Etapes] /\ etape'[o].fichier.spans = <<>> /\ etape'[o].pas = "marque"
              /\ \A p \in Onglets \ {o} : abandonnees'[p] = abandonnees[p] /\ vols'[p] = vols[p] /\ etape'[p] = etape[p]
          BY <3>1, <4>1, ExporterFaits
        <4> QED BY <4>2, <4>3
      <3>3. w.lot = Delier(tampon[o], abandonnees'[o])
        OBVIOUS
      <3> HIDE DEF w
      <3>4. Passees \subseteq Passees' /\ \A s \in IdsDe(tampon[o]) : s[1] \in Passees' /\ s[1] \in presses'
        BY <1>1, <3>2 DEF Passees, ActionsDe
      <3>5. WebContenu(<<>>, attente[o], vols[o] \cup {w}) = Charge(o)
        <4>1. IdsDe(w.lot) = IdsDe(tampon[o])
          BY <3>2
        <4>2. WebContenu(<<>>, attente[o], vols[o] \cup {w}) = WebContenu(tampon[o], attente[o], vols[o])
          BY <4>1, ContenuPresse
        <4> QED BY <1>2, <4>2
      <3>6. EnOrdre(<<>>, attente[o], vols[o] \cup {w}, ouvertes[o], abandonnees'[o], Passees', presses')
        <4>1. presses \subseteq presses'
          BY <3>2
        <4> QED BY <1>2, <3>2, <3>3, <3>4, <4>1, OrdrePresse
      <3>7. acces[o]
        BY <1>1, <1>2, <2>2 DEF Onglet, OngletVide
      <3> QED BY <3>2, <3>4, <3>5, <3>6, <3>7
    <2> QED BY <2>1, <2>2
  <1>6. Charge(o)' = Charge(o) /\ Tenus(o)' \subseteq Tenus(o)
    BY <1>1, <1>2, <1>3, <1>5, ChargeContenu, LotVide
  <1>7. Onglet(o)'
    BY <1>1, <1>3, <1>4, <1>5 DEF Onglet
  <1>8. Ailleurs(o)
    BY <1>1, <1>3, <1>5 DEF Ailleurs
  <1>9. Types'
    BY <1>1, <1>3, <1>5 DEF WebIInv, Types
  <1>10. lies' \subseteq Passees'
    BY <1>1, <1>2, <1>5
  <1> QED BY <1>1, <1>5, <1>6, <1>7, <1>8, <1>9, <1>10, Stable

LEMMA AfficherEtape ==
  ASSUME WebIInv, NEW o \in Onglets, Afficher(o)
  PROVE  WebIInv'
  <1>1. /\ page[o] = "masquee" /\ page' = [page EXCEPT ![o] = "visible"]
        /\ UNCHANGED <<fichier, tombes, acces, abandonnees, tampon, attente, vols, ouvertes, etape, emis, serveur, lies, presses, refuses, doubles>>
    BY DEF Afficher, terminal, monde, traces
  <1>2. /\ page' \in [Onglets -> {"absente", "visible", "masquee"}] /\ page'[o] = "visible"
        /\ \A p \in Onglets \ {o} : page'[p] = page[p]
    BY <1>1 DEF WebIInv, Types
  <1>3. Passees' = Passees /\ Tenus(o)' = Tenus(o) /\ Charge(o)' = Charge(o) /\ OngletVide(o)' = OngletVide(o)
    BY <1>1 DEF Passees, Tenus, Charge, OngletVide
  <1>4. Ailleurs(o)
    BY <1>1, <1>2 DEF Ailleurs
  <1>5. Onglet(o) /\ lies \subseteq Passees
    BY OngletTypes
  <1>6. Onglet(o)'
    BY <1>1, <1>2, <1>3, <1>5 DEF Onglet
  <1>7. Types'
    BY <1>1, <1>2 DEF WebIInv, Types
  <1> QED BY <1>1, <1>3, <1>4, <1>5, <1>6, <1>7, Stable

\* The roots given up are written, or cannot be.
LEMMA MarquerEtape ==
  ASSUME WebIInv, NEW o \in Onglets, Marquer(o)
  PROVE  WebIInv'
  <1>1. /\ tombes' = abandonnees[o] \/ tombes' = tombes
        /\ etape' = [etape EXCEPT ![o] = Libre]
        /\ UNCHANGED <<fichier, page, acces, abandonnees, tampon, attente, vols, ouvertes, emis, serveur, lies, presses, refuses, doubles>>
    BY DEF Marquer, monde, traces
  <1>2. Libre \in Etapes /\ Libre.fichier.spans = <<>> /\ Libre.pas = "libre" /\ \A X : EnChaine(<<>>, X)
    BY VideFichier, SuitesWeb
  <1>3. etape'[o] = Libre /\ etape' \in [Onglets -> Etapes] /\ \A p \in Onglets \ {o} : etape'[p] = etape[p]
    BY <1>1, <1>2 DEF WebIInv, Types
  <1>4. Passees' = Passees /\ Charge(o)' = Charge(o) /\ Tenus(o)' = Charge(o)
    <2>1. Passees' = Passees
      BY <1>1 DEF Passees
    <2>2. Charge(o)' = Charge(o)
      BY <1>1 DEF Charge
    <2> QED BY <1>2, <1>3, <2>1, <2>2, ChargeContenu, LotVide
  <1>5. Onglet(o) /\ lies \subseteq Passees /\ Charge(o) \subseteq Tenus(o) /\ tombes' \subseteq Actions
    BY <1>1, OngletTypes
  <1>6. Onglet(o)'
    BY <1>1, <1>2, <1>3, <1>4, <1>5 DEF Onglet, OngletVide
  <1>7. Ailleurs(o)
    BY <1>1, <1>3 DEF Ailleurs
  <1>8. Types'
    BY <1>1, <1>3, <1>5 DEF WebIInv, Types
  <1> QED BY <1>1, <1>4, <1>5, <1>6, <1>7, <1>8, Stable

-----------------------------------------------------------------------------
(* The answers *)

LEMMA Reception ==
  ASSUME NEW lot, Recevoir({lot})
  PROVE  serveur' = serveur \cup IdsDe(lot) /\ lies' = lies \cup Lies(lot)
  BY DEF Recevoir, Lies

\* What a batch sent guarantees.
LEMMA WebEnVol ==
  ASSUME WebIInv, NEW o \in Onglets, NEW v \in vols[o]
  PROVE  /\ v.lot \in Lots /\ Lies(v.lot) \subseteq RacinesDe(v.lot) \cup Passees /\ Ordonne(v.lot, Passees)
         /\ RacinesDe(v.lot) \in SUBSET Actions /\ IdsDe(v.lot) \subseteq Charge(o) /\ Charge(o) \subseteq Tenus(o)
         /\ page[o] # "absente" /\ acces[o]
  <1>1. v \in Envois /\ Onglet(o) /\ Charge(o) = WebContenu(tampon[o], attente[o], vols[o]) /\ Charge(o) \subseteq Tenus(o)
    BY OngletTypes
  <1>2. v.lot \in Lots
    BY <1>1 DEF Envois
  <1>3. Lies(v.lot) \subseteq RacinesDe(v.lot) \cup Passees /\ Ordonne(v.lot, Passees)
    BY <1>1 DEF Onglet, EnOrdre
  <1>4. RacinesDe(v.lot) \in SUBSET Actions
    BY <1>2, LotIds
  <1>5. IdsDe(v.lot) \subseteq Charge(o)
    BY <1>1, Reunion DEF WebContenu
  <1>6. page[o] # "absente" /\ acces[o]
    BY <1>1 DEF Onglet, OngletVide
  <1> QED BY <1>1, <1>2, <1>3, <1>4, <1>5, <1>6

\* A batch leaves those sent: the file the tab is to write, if any, holds what it read and the batch.
LEMMA Rendu ==
  ASSUME WebIInv, NEW o \in Onglets, NEW v \in vols[o], vols' = [vols EXCEPT ![o] = @ \ {v}],
         UNCHANGED <<fichier, tombes, page, acces, tampon, attente, ouvertes, emis, presses, refuses, doubles>>,
         NEW Mem \in SUBSET Actions, abandonnees' = [abandonnees EXCEPT ![o] = Mem],
         serveur \subseteq serveur', serveur' \subseteq serveur \cup IdsDe(v.lot), lies' \subseteq Passees',
         abandonnees[o] \cup RacinesDe(v.lot) \subseteq Mem \cup Passees',
         NEW e \in Etapes, etape' = [etape EXCEPT ![o] = e], e.pas # "rejoue",
         IdsDe(e.fichier.spans) \subseteq IdsDe(fichier.spans) \cup IdsDe(v.lot), EnChaine(e.fichier.spans, Passees)
  PROVE  WebIInv'
  <1>1. /\ tampon[o] \in Lots /\ attente[o] \in Seq(Attentes) /\ vols[o] \in SUBSET Envois /\ Onglet(o)
        /\ Charge(o) = WebContenu(tampon[o], attente[o], vols[o])
        /\ EnOrdre(tampon[o], attente[o], vols[o], ouvertes[o], abandonnees[o], Passees, presses)
    BY OngletTypes DEF Onglet
  <1>2. /\ vols' \in [Onglets -> SUBSET Envois] /\ vols'[o] = vols[o] \ {v}
        /\ abandonnees' \in [Onglets -> SUBSET Actions] /\ abandonnees'[o] = Mem
        /\ etape' \in [Onglets -> Etapes] /\ etape'[o] = e
        /\ \A p \in Onglets \ {o} : vols'[p] = vols[p] /\ abandonnees'[p] = abandonnees[p] /\ etape'[p] = etape[p]
    BY DEF WebIInv, Types
  <1>3. Charge(o) = WebContenu(tampon[o], attente[o], vols[o] \ {v}) \cup IdsDe(v.lot)
    <2>1. WebContenu(tampon[o], attente[o], vols[o]) = WebContenu(tampon[o], attente[o], vols[o] \ {v}) \cup IdsDe(v.lot)
      BY ONLY v \in vols[o], ContenuRend
    <2> QED BY <1>1, <2>1
  <1>4. Charge(o)' = WebContenu(tampon[o], attente[o], vols[o] \ {v})
    BY <1>2, ChargeContenu
  <1>5. Passees \subseteq Passees'
    BY PasseesCroit
  <1>6. EnOrdre(tampon[o], attente[o], vols[o] \ {v}, ouvertes[o], Mem, Passees', presses)
    BY <1>1, <1>5, OrdreRend
  <1>7. EnChaine(e.fichier.spans, Passees')
    BY <1>5, Croit
  <1>8. page[o] # "absente" /\ acces[o] /\ IdsDe(v.lot) \subseteq Tenus(o)
    BY WebEnVol
  <1>9. Onglet(o)'
    BY <1>2, <1>6, <1>7, <1>8 DEF Onglet
  <1>10. Ailleurs(o)
    BY <1>2 DEF Ailleurs
  <1>11. Types'
    BY <1>2 DEF WebIInv, Types
  <1>12. Charge(o)' \subseteq Charge(o) /\ Tenus(o)' \subseteq Tenus(o) \cup IdsDe(fichier.spans)
    <2>1. Charge(o)' \subseteq Charge(o) /\ Charge(o) \subseteq Tenus(o)
      BY <1>3, <1>4, WebEnVol
    <2>2. Tenus(o)' = Charge(o)' \cup IdsDe(e.fichier.spans)
      BY <1>2, ChargeContenu
    <2> QED BY <1>8, <2>1, <2>2
  <1>13. serveur' \subseteq serveur \cup Tenus(o) /\ ouvertes'[o] \subseteq ouvertes[o]
    BY <1>8
  <1> QED BY <1>9, <1>10, <1>11, <1>12, <1>13, Stable

\* A batch received brings the roots its effects are linked to, or finds them there.
LEMMA ChaineRecue ==
  ASSUME WebIInv, NEW o \in Onglets, NEW v \in vols[o], presses' = presses, doubles' = doubles,
         Recevoir({v.lot}) \/ UNCHANGED <<serveur, lies>>
  PROVE  /\ lies' \subseteq Passees' /\ Passees \subseteq Passees'
         /\ serveur \subseteq serveur' /\ serveur' \subseteq serveur \cup IdsDe(v.lot)
         /\ Recevoir({v.lot}) => RacinesDe(v.lot) \subseteq Passees'
  <1>1. lies \subseteq Passees
    BY DEF WebIInv, Chaine
  <1>2. CASE UNCHANGED <<serveur, lies>> /\ ~Recevoir({v.lot})
    BY <1>1, <1>2 DEF Passees
  <1>3. CASE Recevoir({v.lot})
    <2>1. serveur' = serveur \cup IdsDe(v.lot) /\ lies' = lies \cup Lies(v.lot)
      BY <1>3, Reception
    <2>2. Passees \subseteq Passees'
      BY <2>1 DEF Passees
    <2>3. RacinesDe(v.lot) = {a \in Actions : <<a, "racine">> \in IdsDe(v.lot)}
      BY WebEnVol, LotIds
    <2>4. RacinesDe(v.lot) \subseteq Passees'
      BY <2>1, <2>3 DEF Passees
    <2> QED BY <1>1, <2>1, <2>2, <2>4, WebEnVol
  <1> QED BY <1>2, <1>3

LEMMA AccepterEtape ==
  ASSUME WebIInv, NEW o \in Onglets, etape[o] = Libre, NEW v \in vols[o], Accepter(o, v)
  PROVE  WebIInv'
  <1>1. /\ vols' = [vols EXCEPT ![o] = @ \ {v}] /\ Recevoir({v.lot})
        /\ UNCHANGED <<fichier, tombes, page, acces, abandonnees, tampon, attente, ouvertes, etape, emis, presses, refuses, doubles>>
    BY DEF Accepter, Repondue, terminal, traces
  <1>2. /\ lies' \subseteq Passees' /\ Passees \subseteq Passees' /\ RacinesDe(v.lot) \subseteq Passees'
        /\ serveur \subseteq serveur' /\ serveur' \subseteq serveur \cup IdsDe(v.lot)
    BY <1>1, ChaineRecue
  <1>3. /\ abandonnees[o] \in SUBSET Actions /\ abandonnees' = [abandonnees EXCEPT ![o] = abandonnees[o]]
        /\ etape' = [etape EXCEPT ![o] = Libre]
    BY <1>1 DEF WebIInv, Types
  <1>4. /\ Libre \in Etapes /\ Libre.pas # "rejoue" /\ EnChaine(Libre.fichier.spans, Passees)
        /\ IdsDe(Libre.fichier.spans) = {}
    BY VideFichier, SuitesWeb
  <1>5. abandonnees[o] \cup RacinesDe(v.lot) \subseteq abandonnees[o] \cup Passees'
    BY <1>2
  <1> QED BY <1>1, <1>2, <1>3, <1>4, <1>5, Rendu

LEMMA Refuser4xxEtape ==
  ASSUME WebIInv, NEW o \in Onglets, NEW v \in vols[o], Refuser4xx(o, v)
  PROVE  WebIInv'
  <1> DEFINE Mem == abandonnees[o] \cup RacinesDe(v.lot)
             e == Reste("marque", FichierVide)
  <1>1. /\ vols' = [vols EXCEPT ![o] = @ \ {v}] /\ abandonnees' = [abandonnees EXCEPT ![o] = Mem]
        /\ etape' = [etape EXCEPT ![o] = e]
        /\ UNCHANGED <<fichier, tombes, page, acces, tampon, attente, ouvertes, emis, serveur, lies, presses, refuses, doubles>>
    BY DEF Refuser4xx, Repondue, Revoquer, terminal, monde, traces
  <1>2. abandonnees[o] \in SUBSET Actions /\ lies \subseteq Passees
    BY OngletTypes
  <1>3. Mem \in SUBSET Actions
    BY <1>2, WebEnVol
  <1>4. e \in Etapes /\ e.pas # "rejoue" /\ EnChaine(e.fichier.spans, Passees) /\ IdsDe(e.fichier.spans) = {}
    BY VideFichier, SuitesWeb
  <1>5. abandonnees[o] \cup RacinesDe(v.lot) \subseteq Mem \cup Passees'
    OBVIOUS
  <1>6. lies' \subseteq Passees'
    BY <1>1, <1>2 DEF Passees
  <1> HIDE DEF Mem, e
  <1> QED BY <1>1, <1>3, <1>4, <1>5, <1>6, Rendu

LEMMA EchouerEtape ==
  ASSUME WebIInv, NEW o \in Onglets, NEW v \in vols[o], Echouer(o, v)
  PROVE  WebIInv'
  <1>1. /\ vols' = [vols EXCEPT ![o] = @ \ {v}]
        /\ UNCHANGED <<fichier, tombes, page, acces, tampon, attente, ouvertes, emis, presses, refuses, doubles>>
    BY DEF Echouer, Repondue, terminal, traces
  <1>2. /\ lies' \subseteq Passees' /\ Passees \subseteq Passees'
        /\ serveur \subseteq serveur' /\ serveur' \subseteq serveur \cup IdsDe(v.lot)
    <2>1. Recevoir({v.lot}) \/ UNCHANGED <<serveur, lies>>
      BY DEF Echouer
    <2> QED BY <1>1, <2>1, ChaineRecue DEF traces
  <1>3. abandonnees[o] \in SUBSET Actions /\ fichier \in Fichiers /\ EnChaine(fichier.spans, Passees)
    BY OngletTypes
  <1>4. /\ v.lot \in Lots /\ Lies(v.lot) \subseteq RacinesDe(v.lot) \cup Passees /\ Ordonne(v.lot, Passees)
        /\ RacinesDe(v.lot) \in SUBSET Actions /\ IdsDe(v.lot) \subseteq Charge(o)
    BY WebEnVol
  <1>5. PICK lu \in {FichierVide, fichier} :
          IF lu.tentatives + 1 > MaxTentatives
          THEN Revoquer(o, abandonnees[o] \cup RacinesDe(v.lot), Reste("ecrit", FichierVide))
          ELSE Garder(o, v, lu)
    BY DEF Echouer
  <1>6. /\ lu \in Fichiers /\ lu.spans \in Lots /\ IdsDe(lu.spans) \subseteq IdsDe(fichier.spans)
        /\ EnChaine(lu.spans, Passees)
    <2>1. lu \in Fichiers /\ IdsDe(lu.spans) \subseteq IdsDe(fichier.spans) /\ EnChaine(lu.spans, Passees)
      BY <1>3, <1>5, VideFichier
    <2> QED BY <2>1 DEF Fichiers
  <1>7. CASE lu.tentatives + 1 > MaxTentatives
    <2> DEFINE Mem == abandonnees[o] \cup RacinesDe(v.lot)
               e == Reste("ecrit", FichierVide)
    <2>1. abandonnees' = [abandonnees EXCEPT ![o] = Mem] /\ etape' = [etape EXCEPT ![o] = e]
      BY <1>5, <1>7 DEF Revoquer
    <2>2. Mem \in SUBSET Actions /\ abandonnees[o] \cup RacinesDe(v.lot) \subseteq Mem \cup Passees'
      BY <1>3, <1>4
    <2>3. e \in Etapes /\ e.pas # "rejoue" /\ EnChaine(e.fichier.spans, Passees) /\ IdsDe(e.fichier.spans) = {}
      BY VideFichier, SuitesWeb
    <2> HIDE DEF Mem, e
    <2> QED BY <1>1, <1>2, <2>1, <2>2, <2>3, Rendu
  <1>8. CASE ~(lu.tentatives + 1 > MaxTentatives)
    <2> DEFINE suite == appendRetry(lu.spans, v.lot, abandonnees[o])
               Mem == suite.revoquees \cup RacinesDe(v.lot)
               f == [spans |-> suite.spans, tentatives |-> lu.tentatives + 1]
               e == Reste("ecrit", f)
    <2>1. abandonnees' = [abandonnees EXCEPT ![o] = Mem] /\ etape' = [etape EXCEPT ![o] = e]
      BY <1>5, <1>8 DEF Garder, Revoquer
    <2>2. RacinesDe(lu.spans) \cap RacinesDe(v.lot) \subseteq Passees
      <3> SUFFICES ASSUME NEW a \in RacinesDe(lu.spans) \cap RacinesDe(v.lot) PROVE a \in Passees
        OBVIOUS
      <3>1. <<a, "racine">> \in Charge(o) \cap IdsDe(fichier.spans)
        BY <1>4, <1>6, LotIds
      <3>2. <<a, "racine">>[1] = a
        OBVIOUS
      <3>3. a \in ActionsDe(Charge(o) \cap IdsDe(fichier.spans))
        BY <3>1, <3>2 DEF ActionsDe
      <3> QED BY <3>3 DEF WebIInv, Lieux, Passees
    <2>3. /\ suite.spans \in Lots /\ Len(suite.spans) <= MaxRetry
          /\ IdsDe(suite.spans) \subseteq IdsDe(lu.spans) \cup IdsDe(v.lot)
          /\ suite.revoquees \in SUBSET Actions /\ abandonnees[o] \subseteq suite.revoquees \cup RacinesDe(v.lot)
          /\ EnChaine(suite.spans, Passees)
      BY <1>3, <1>4, <1>6, <2>2, FichierSuivant
    <2> HIDE DEF suite
    <2>4. Mem \in SUBSET Actions /\ abandonnees[o] \cup RacinesDe(v.lot) \subseteq Mem \cup Passees'
      BY <1>4, <2>3
    <2>5. f \in Fichiers /\ f.spans = suite.spans
      <3>1. lu.tentatives + 1 \in 0..MaxTentatives
        BY <1>6, <1>8 DEF Fichiers
      <3> QED BY <2>3, <3>1 DEF Fichiers
    <2> HIDE DEF f
    <2>6. e \in Etapes /\ e.pas # "rejoue" /\ e.fichier.spans = suite.spans
      BY <2>5, SuitesWeb
    <2>7. IdsDe(e.fichier.spans) \subseteq IdsDe(fichier.spans) \cup IdsDe(v.lot) /\ EnChaine(e.fichier.spans, Passees)
      BY <1>6, <2>3, <2>6
    <2> HIDE DEF Mem, e
    <2> QED BY <1>1, <1>2, <2>1, <2>4, <2>6, <2>7, Rendu
  <1> QED BY <1>7, <1>8

\* The file is written over whatever it has become, or cannot be.
LEMMA EcrireEtape ==
  ASSUME WebIInv, NEW o \in Onglets, EcrireFichier(o)
  PROVE  WebIInv'
  <1> DEFINE f == etape[o].fichier
             T == UNION {Charge(p) : p \in Onglets}
             e == Reste("marque", FichierVide)
  <1>1. /\ (fichier' = f \/ fichier' = fichier) /\ etape' = [etape EXCEPT ![o] = e]
        /\ doubles' = doubles \cup ActionsDe(IdsDe(fichier'.spans) \cap T)
        /\ UNCHANGED <<tombes, page, acces, abandonnees, tampon, attente, vols, ouvertes, emis, serveur, lies, presses, refuses>>
    BY DEF EcrireFichier, monde
  <1>2. /\ f \in Fichiers /\ fichier \in Fichiers /\ EnChaine(f.spans, Passees) /\ EnChaine(fichier.spans, Passees)
        /\ Tenus(o) = Charge(o) \cup IdsDe(f.spans) /\ lies \subseteq Passees /\ Onglet(o)
    BY OngletTypes DEF Onglet
  <1>3. /\ e \in Etapes /\ e.pas # "rejoue" /\ e.fichier.spans = <<>> /\ IdsDe(<<>>) = {} /\ \A X : EnChaine(<<>>, X)
    BY VideFichier, SuitesWeb
  <1> HIDE DEF f, T, e
  <1>4. /\ fichier' \in Fichiers /\ EnChaine(fichier'.spans, Passees)
        /\ IdsDe(fichier'.spans) \subseteq Tenus(o) \cup IdsDe(fichier.spans)
    BY <1>1, <1>2
  <1>5. etape'[o] = e /\ etape' \in [Onglets -> Etapes] /\ \A p \in Onglets \ {o} : etape'[p] = etape[p]
    BY <1>1, <1>3 DEF WebIInv, Types
  <1>6. Passees \subseteq Passees' /\ doubles \subseteq doubles'
    BY <1>1, PasseesCroit
  <1>7. \A p \in Onglets : Charge(p)' = Charge(p)
    BY <1>1 DEF Charge
  <1>8. Tenus(o)' \subseteq Tenus(o)
    BY <1>2, <1>3, <1>5, <1>7, ChargeContenu
  <1>9. Types'
    BY <1>1, <1>4, <1>5 DEF WebIInv, Types
  <1>10. Ailleurs(o)
    BY <1>1, <1>5 DEF Ailleurs
  <1>11. Onglet(o)'
    <2>1. EnOrdre(tampon[o], attente[o], vols[o], ouvertes[o], abandonnees[o], Passees', presses)
      BY <1>2, <1>6, OrdreCroit DEF Onglet
    <2> QED BY <1>1, <1>2, <1>3, <1>5, <2>1 DEF Onglet, OngletVide
  <1>12. Bilan'
    <2>1. Bilan /\ emis' = emis \cup {}
      BY <1>1 DEF WebIInv
    <2> QED BY <1>1, <1>4, <1>8, <1>10, <2>1, Flux
  <1>13. Nes'
    BY <1>1 DEF WebIInv, Nes
  <1>14. Chaine'
    BY <1>1, <1>2, <1>4, <1>6, Croit DEF Chaine
  <1>15. Lieux'
    <2> SUFFICES ASSUME NEW p \in Onglets PROVE ActionsDe(Charge(p)' \cap IdsDe(fichier'.spans)) \subseteq doubles'
      BY DEF Lieux
    <2>1. Charge(p)' \cap IdsDe(fichier'.spans) \subseteq IdsDe(fichier'.spans) \cap T
      BY <1>7 DEF T
    <2>2. ActionsDe(Charge(p)' \cap IdsDe(fichier'.spans)) \subseteq ActionsDe(IdsDe(fichier'.spans) \cap T)
      BY <2>1, ActionsDeCroit
    <2> QED BY <1>1, <2>2
  <1> QED BY <1>1, <1>6, <1>9, <1>10, <1>11, <1>12, <1>13, <1>14, <1>15, WebEtape

-----------------------------------------------------------------------------
(* Consent and death *)

\* The requests aborted may have arrived.
LEMMA Abandon ==
  ASSUME WebIInv, NEW o \in Onglets, presses' = presses, doubles' = doubles,
         NEW arrives \in SUBSET vols[o], Recevoir({v.lot : v \in arrives})
  PROVE  lies' \subseteq Passees' /\ Passees \subseteq Passees' /\ serveur \subseteq serveur' /\ serveur' \subseteq serveur \cup Tenus(o)
  <1>1. /\ serveur' = serveur \cup (UNION {IdsDe(l) : l \in {v.lot : v \in arrives}})
        /\ lies' = lies \cup (UNION {Lies(l) : l \in {v.lot : v \in arrives}})
    BY DEF Recevoir, Lies
  <1>2. \A v \in arrives : IdsDe(v.lot) \subseteq serveur' /\ IdsDe(v.lot) \subseteq Tenus(o)
    BY <1>1, WebEnVol
  <1>3. serveur \subseteq serveur' /\ serveur' \subseteq serveur \cup Tenus(o)
    BY <1>1, <1>2
  <1>4. Passees \subseteq Passees'
    BY <1>3 DEF Passees
  <1>5. ASSUME NEW v \in arrives PROVE Lies(v.lot) \subseteq Passees'
    <2>1. RacinesDe(v.lot) = {a \in Actions : <<a, "racine">> \in IdsDe(v.lot)}
      BY WebEnVol, LotIds
    <2>2. RacinesDe(v.lot) \subseteq Passees'
      BY <1>2, <2>1 DEF Passees
    <2> QED BY <1>4, <2>2, WebEnVol
  <1>6. lies' \subseteq Passees'
    <2>1. lies \subseteq Passees
      BY DEF WebIInv, Chaine
    <2> QED BY <1>1, <1>4, <1>5, <2>1
  <1> QED BY <1>3, <1>4, <1>6

\* A tab that holds nothing any more, with at most the roots given up to mark.
LEMMA Videe ==
  ASSUME WebIInv, NEW o \in Onglets,
         tampon' = [tampon EXCEPT ![o] = <<>>], attente' = [attente EXCEPT ![o] = <<>>], vols' = [vols EXCEPT ![o] = {}],
         ouvertes' = [ouvertes EXCEPT ![o] = {}], abandonnees' = [abandonnees EXCEPT ![o] = {}],
         NEW p \in {"libre", "marque"}, etape' = [etape EXCEPT ![o] = Reste(p, FichierVide)]
  PROVE  /\ Charge(o)' = {} /\ Tenus(o)' = {} /\ Onglet(o)' /\ ouvertes'[o] = {}
         /\ tampon' \in [Onglets -> Lots] /\ attente' \in [Onglets -> Seq(Attentes)] /\ vols' \in [Onglets -> SUBSET Envois]
         /\ ouvertes' \in [Onglets -> SUBSET Actions] /\ abandonnees' \in [Onglets -> SUBSET Actions]
         /\ etape' \in [Onglets -> Etapes]
         /\ \A q \in Onglets \ {o} :
              /\ abandonnees'[q] = abandonnees[q] /\ tampon'[q] = tampon[q] /\ attente'[q] = attente[q]
              /\ vols'[q] = vols[q] /\ ouvertes'[q] = ouvertes[q] /\ etape'[q] = etape[q]
  <1> DEFINE e == Reste(p, FichierVide)
  <1>1. e \in Etapes /\ e.pas # "rejoue" /\ e.fichier.spans = <<>> /\ \A X : EnChaine(<<>>, X)
    BY VideFichier, SuitesWeb
  <1> HIDE DEF e
  <1>2. /\ tampon' \in [Onglets -> Lots] /\ attente' \in [Onglets -> Seq(Attentes)] /\ vols' \in [Onglets -> SUBSET Envois]
        /\ ouvertes' \in [Onglets -> SUBSET Actions] /\ abandonnees' \in [Onglets -> SUBSET Actions]
        /\ \A q \in Onglets \ {o} :
             /\ abandonnees'[q] = abandonnees[q] /\ tampon'[q] = tampon[q] /\ attente'[q] = attente[q]
             /\ vols'[q] = vols[q] /\ ouvertes'[q] = ouvertes[q]
    BY LotVide, FileVide DEF WebIInv, Types
  <1>3. etape' \in [Onglets -> Etapes] /\ etape'[o] = e /\ \A q \in Onglets \ {o} : etape'[q] = etape[q]
    BY <1>1 DEF WebIInv, Types, e
  <1>4. tampon'[o] = <<>> /\ attente'[o] = <<>> /\ vols'[o] = {} /\ ouvertes'[o] = {}
    BY DEF WebIInv, Types
  <1>5. Charge(o)' = {}
    BY <1>4, ChargeContenu, ContenuVide
  <1>6. Tenus(o)' = {}
    BY <1>1, <1>3, <1>5, ChargeContenu, LotVide
  <1>7. EnOrdre(<<>>, <<>>, {}, {}, abandonnees'[o], Passees', presses')
    BY ContenuVide
  <1>8. Onglet(o)'
    BY <1>1, <1>3, <1>4, <1>7 DEF Onglet, OngletVide
  <1> QED BY <1>2, <1>3, <1>4, <1>5, <1>6, <1>8

LEMMA QuitterEtape ==
  ASSUME WebIInv, NEW o \in Onglets, Quitter(o)
  PROVE  WebIInv'
  <1>1. /\ tampon' = [tampon EXCEPT ![o] = <<>>] /\ attente' = [attente EXCEPT ![o] = <<>>] /\ vols' = [vols EXCEPT ![o] = {}]
        /\ ouvertes' = [ouvertes EXCEPT ![o] = {}] /\ abandonnees' = [abandonnees EXCEPT ![o] = {}]
        /\ page' = [page EXCEPT ![o] = "absente"] /\ etape' = [etape EXCEPT ![o] = Reste("libre", FichierVide)]
        /\ \E arrives \in SUBSET vols[o] : Recevoir({v.lot : v \in arrives})
        /\ UNCHANGED <<fichier, tombes, acces, emis, presses, refuses, doubles>>
    BY DEF Quitter, terminal, traces, Libre, Reste
  <1>2. /\ page' \in [Onglets -> {"absente", "visible", "masquee"}]
        /\ \A p \in Onglets \ {o} : page'[p] = page[p]
    BY <1>1 DEF WebIInv, Types
  <1>3. lies' \subseteq Passees' /\ serveur \subseteq serveur' /\ serveur' \subseteq serveur \cup Tenus(o)
    BY <1>1, Abandon
  <1>4. /\ Charge(o)' = {} /\ Tenus(o)' = {} /\ Onglet(o)' /\ ouvertes'[o] = {}
        /\ tampon' \in [Onglets -> Lots] /\ attente' \in [Onglets -> Seq(Attentes)] /\ vols' \in [Onglets -> SUBSET Envois]
        /\ ouvertes' \in [Onglets -> SUBSET Actions] /\ abandonnees' \in [Onglets -> SUBSET Actions]
        /\ etape' \in [Onglets -> Etapes]
        /\ \A q \in Onglets \ {o} :
             /\ abandonnees'[q] = abandonnees[q] /\ tampon'[q] = tampon[q] /\ attente'[q] = attente[q]
             /\ vols'[q] = vols[q] /\ ouvertes'[q] = ouvertes[q] /\ etape'[q] = etape[q]
    BY <1>1, Videe
  <1>5. Ailleurs(o)
    BY <1>1, <1>2, <1>4 DEF Ailleurs
  <1>6. Types'
    BY <1>1, <1>2, <1>4 DEF WebIInv, Types
  <1> QED BY <1>1, <1>3, <1>4, <1>5, <1>6, Stable

LEMMA RetracterEtape ==
  ASSUME WebIInv, NEW o \in Onglets, Retracter(o)
  PROVE  WebIInv'
  <1>1. /\ tampon' = [tampon EXCEPT ![o] = <<>>] /\ attente' = [attente EXCEPT ![o] = <<>>] /\ vols' = [vols EXCEPT ![o] = {}]
        /\ ouvertes' = [ouvertes EXCEPT ![o] = {}] /\ abandonnees' = [abandonnees EXCEPT ![o] = {}]
        /\ acces' = [acces EXCEPT ![o] = FALSE] /\ fichier' = FichierVide
        /\ etape' = [etape EXCEPT ![o] = Reste("marque", FichierVide)]
        /\ \E arrives \in SUBSET vols[o] : Recevoir({v.lot : v \in arrives})
        /\ refuses' = refuses \cup ((IdsDe(fichier.spans) \cup Tenus(o)) \ (UNION {Tenus(p) : p \in Onglets \ {o}}))
        /\ UNCHANGED <<tombes, page, emis, presses, doubles>>
    BY DEF Retracter, Revoquer, discardPendingSpans
  <1>2. /\ acces' \in [Onglets -> BOOLEAN]
        /\ \A p \in Onglets \ {o} : acces'[p] = acces[p]
    BY <1>1 DEF WebIInv, Types
  <1>3. lies' \subseteq Passees' /\ serveur \subseteq serveur' /\ serveur' \subseteq serveur \cup Tenus(o)
    BY <1>1, Abandon
  <1>4. /\ Charge(o)' = {} /\ Tenus(o)' = {} /\ Onglet(o)' /\ ouvertes'[o] = {}
        /\ tampon' \in [Onglets -> Lots] /\ attente' \in [Onglets -> Seq(Attentes)] /\ vols' \in [Onglets -> SUBSET Envois]
        /\ ouvertes' \in [Onglets -> SUBSET Actions] /\ abandonnees' \in [Onglets -> SUBSET Actions]
        /\ etape' \in [Onglets -> Etapes]
        /\ \A q \in Onglets \ {o} :
             /\ abandonnees'[q] = abandonnees[q] /\ tampon'[q] = tampon[q] /\ attente'[q] = attente[q]
             /\ vols'[q] = vols[q] /\ ouvertes'[q] = ouvertes[q] /\ etape'[q] = etape[q]
    BY <1>1, Videe
  <1>5. Ailleurs(o)
    BY <1>1, <1>2, <1>4 DEF Ailleurs
  <1>6. fichier' \in Fichiers /\ IdsDe(fichier'.spans) = {} /\ \A X : EnChaine(fichier'.spans, X)
    BY <1>1, VideFichier
  <1>7. Types'
    BY <1>1, <1>2, <1>4, <1>6 DEF WebIInv, Types
  <1>8. Chaine'
    BY <1>3, <1>6 DEF Chaine
  <1>9. Bilan'
    <2>1. \A p \in Onglets \ {o} : Tenus(p)' = Tenus(p) /\ refuses' \cap Tenus(p) = {}
      <3>1. \A p \in Onglets \ {o} : Tenus(p)' = Tenus(p) /\ refuses \cap Tenus(p) = {}
        BY <1>5, Voisins DEF WebIInv, Bilan
      <3> QED BY <1>1, <3>1
    <2>2. serveur' \subseteq emis' /\ refuses' \subseteq emis'
      BY <1>1, <1>3 DEF WebIInv, Bilan
    <2>3. \A p \in Onglets : Tenus(p)' \subseteq emis' /\ refuses' \cap Tenus(p)' = {}
      BY <1>1, <1>4, <2>1 DEF WebIInv, Bilan
    <2> QED BY <1>6, <2>2, <2>3 DEF Bilan
  <1>10. Nes'
    BY <1>1, <1>4 DEF WebIInv, Nes
  <1>11. Lieux'
    BY <1>6, ActionsDeCroit DEF Lieux
  <1> QED BY <1>1, <1>3, <1>4, <1>5, <1>7, <1>8, <1>9, <1>10, <1>11, WebEtape

-----------------------------------------------------------------------------
(* The theorems *)

LEMMA DebuterEtape ==
  ASSUME WebIInv, NEW o \in Onglets, Commencer(o)
  PROVE  WebIInv'
  <1>1. etape[o] = Libre
    BY DEF Commencer
  <1>2. CASE Charger(o) \/ Accorder(o)
    BY <1>1, <1>2, ChargerEtape
  <1>3. CASE \E a \in Actions : Emettre(o, a)
    BY <1>1, <1>3, EmettreEtape
  <1>4. CASE Vider(o) \/ Envoyer(o) \/ Masquer(o) \/ Afficher(o)
    BY <1>1, <1>4, ViderEtape, EnvoyerEtape, MasquerEtape, AfficherEtape
  <1>5. CASE \E v \in vols[o] : Accepter(o, v) \/ Refuser4xx(o, v) \/ Echouer(o, v)
    BY <1>1, <1>5, AccepterEtape, Refuser4xxEtape, EchouerEtape
  <1>6. CASE Retracter(o)
    BY <1>6, RetracterEtape
  <1> QED BY <1>2, <1>3, <1>4, <1>5, <1>6 DEF Commencer

LEMMA WebPas == WebIInv /\ [WebNext]_webVars => WebIInv'
  <1> SUFFICES ASSUME WebIInv, [WebNext]_webVars PROVE WebIInv'
    OBVIOUS
  <1>1. CASE UNCHANGED webVars
    <2>1. UNCHANGED <<fichier, tombes, page, acces, abandonnees, tampon, attente, vols, ouvertes, etape,
                      emis, serveur, lies, presses, refuses, doubles>>
      BY <1>1 DEF webVars, terminal, sdk, monde, traces
    <2>2. /\ Passees' = Passees
          /\ \A o \in Onglets : Tenus(o)' = Tenus(o) /\ Charge(o)' = Charge(o) /\ OngletVide(o)' = OngletVide(o)
      BY <2>1 DEF Passees, Tenus, Charge, OngletVide
    <2>3. Types' /\ Bilan' /\ Nes' /\ Lieux' /\ Chaine'
      BY <2>1, <2>2 DEF WebIInv, Types, Bilan, Nes, Lieux, Chaine
    <2>4. \A o \in Onglets : Onglet(o)'
      BY <2>1, <2>2 DEF WebIInv, Onglet
    <2> QED BY <2>3, <2>4 DEF WebIInv
  <1>2. CASE WebNext
    <2>1. PICK o \in Onglets : Commencer(o) \/ Rejouer(o) \/ EcrireFichier(o) \/ Marquer(o) \/ Quitter(o)
      BY <1>2 DEF WebNext
    <2> QED
      BY <2>1, DebuterEtape, RejouerEtape, EcrireEtape, MarquerEtape, QuitterEtape
  <1> QED BY <1>1, <1>2

LEMMA WebInvariant == WebSpec => []WebIInv
  <1> QED BY WebDepart, WebPas, PTL DEF WebSpec

\* retry.ts: whatever two tabs write over each other, the file, and the one a tab is to write, keep
\* to the bound and their counter to the last attempt; a page without consent holds nothing.
THEOREM WebTypeCorrect == WebSpec => []WebTypeOK
  <1>1. WebIInv => WebTypeOK
    <2> SUFFICES ASSUME WebIInv PROVE WebTypeOK
      OBVIOUS
    <2>1. ASSUME NEW f \in Fichiers
          PROVE  /\ Range(f.spans) \subseteq Element /\ Len(f.spans) <= MaxRetry /\ f.tentatives \in 0..MaxTentatives
      BY LotIds DEF Fichiers
    <2>2. \A f \in {fichier} \cup {etape[o].fichier : o \in Onglets} : f \in Fichiers
      BY OngletTypes DEF WebIInv, Types
    <2>3. serveur \subseteq emis /\ emis \subseteq Spans /\ tombes \subseteq Actions
      BY DEF WebIInv, Types, Bilan
    <2>4. ASSUME NEW o \in Onglets
          PROVE  /\ page[o] \in {"absente", "visible", "masquee"}
                 /\ etape[o].pas \in {"libre", "rejoue", "ecrit", "marque"}
                 /\ abandonnees[o] \cup ouvertes[o] \subseteq Actions
                 /\ Range(tampon[o]) \subseteq Element
                 /\ page[o] = "absente" \/ ~acces[o] => Tenus(o) = {}
      <3>1. /\ page[o] \in {"absente", "visible", "masquee"} /\ etape[o] \in Etapes
            /\ abandonnees[o] \cup ouvertes[o] \subseteq Actions /\ Range(tampon[o]) \subseteq Element
        BY LotIds DEF WebIInv, Types
      <3>2. page[o] = "absente" \/ ~acces[o] => OngletVide(o)
        BY DEF WebIInv, Onglet
      <3>3. OngletVide(o) => Tenus(o) = {}
        BY ChargeContenu, ContenuVide, LotVide DEF OngletVide
      <3> QED BY <3>1, <3>2, <3>3 DEF Etapes
    <2> QED BY <2>1, <2>2, <2>3, <2>4 DEF WebTypeOK
  <1> QED BY <1>1, WebInvariant, PTL

\* otel.ts, "pour qu'un enfant ne dépasse jamais sa racine": an effect the server has with its
\* link follows its root, through failures, evictions, page loads and tabs that read and write the
\* file together, unless a hidden page sent them without waiting, or one was put back in the file
\* while a tab had it.
THEOREM RootsFirst == WebSpec => []EnfantApresRacine
  <1>1. WebIInv => EnfantApresRacine
    BY DEF WebIInv, Chaine, Passees, EnfantApresRacine
  <1> QED BY <1>1, WebInvariant, PTL

\* What the page and the file held when consent was withdrawn (consent(false) of index.ts,
\* discardPendingSpans of otel.ts) never comes back to the file or to a batch, in any tab or
\* page load, whatever answers are still on their way; what another tab has read is that tab's.
THEOREM RefusalHolds == WebSpec => []RefusTient
  <1>1. WebIInv => RefusTient
    BY DEF WebIInv, Bilan, RefusTient
  <1> QED BY <1>1, WebInvariant, PTL
================================================================================
