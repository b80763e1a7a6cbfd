------------------------- MODULE SchedulerWatch_proof -------------------------
(***************************************************************************)
(* Proofs about the lease of the scheduler and the watch that reads it,    *)
(* for every set of processes and jobs, every duration and every bound:    *)
(* first the lease, in the vocabulary of SchedulerLease, and then the      *)
(* passes of the notifiers, any of which may fail between two statements.  *)
(***************************************************************************)
EXTENDS SchedulerWatch, SequenceTheorems, TLAPS

\* The later of the two dates a row given back may carry.
Reference(j) == PlusTard(dernierSucces[j], derniereDette[j])

\* A run whose holder is still on the row: the row carries the deadline it was
\* granted, and the run remembers what the row carried before.
BailDuPorteur ==
  \A p \in Procs, j \in Jobs :
    etat[p][j] \in Actifs /\ holder[j] = p =>
      /\ ~rendu[j]
      /\ expires_at[j] = echeance[p][j]
      /\ battement[p][j] = Reference(j)
      /\ etat[p][j] # "abouti" => battement[p][j] >= abouti[j]

\* A run within its deadline still has its row: nobody can have taken it.
EnTempsPorteur ==
  \A p \in Procs, j \in Jobs : SousBail(p, j) => holder[j] = p

\* Nothing recorded lies in the future, and a deadline is later than whatever
\* was recorded before it.
Dates ==
  \A j \in Jobs :
    /\ dernierSucces[j] <= now
    /\ derniereDette[j] <= now
    /\ abouti[j] <= now
    /\ ~rendu[j] => expires_at[j] > Reference(j)

IInv ==
  /\ TypeOK
  /\ now >= 1
  /\ BailDuPorteur
  /\ EnTempsPorteur
  /\ Dates
  /\ BattementExact
  /\ SuccesJamaisOublie

USE PersonneAssumption, DureesAssumption, MaxNowAssumption

LEMMA InitIInv == Init => IInv
  BY DEF Init, IInv, TypeOK, BailDuPorteur, EnTempsPorteur, SousBail, Dates,
         BattementExact, SuccesJamaisOublie, Battement, Reference, PlusTard,
         Etats, Actifs

LEMMA IInvExclusion == IInv => Exclusion
  BY DEF IInv, EnTempsPorteur, Exclusion

\* What an action leaves alone when it touches neither the row nor the clock.
LEMMA PriseRow ==
  ASSUME IInv, NEW p \in Procs, NEW j \in Jobs, Prise(p, j), UNCHANGED now
  PROVE  /\ holder' \in [Jobs -> Procs \cup {Personne}]
         /\ expires_at' \in [Jobs -> Nat]
         /\ rendu' \in [Jobs -> BOOLEAN]
         /\ dernierSucces' \in [Jobs -> Nat]
         /\ derniereDette' \in [Jobs -> Nat]
         /\ abouti' \in [Jobs -> Nat]
         /\ \A k \in Jobs : holder'[k] = Personne <=> expires_at'[k] = 0
         /\ holder'[j] = p /\ ~rendu'[j] /\ expires_at'[j] = now + DUREES[j]
         /\ Reference(j)' = expires_at[j]
         /\ expires_at[j] < now
         /\ \A k \in Jobs \ {j} :
               /\ holder'[k] = holder[k] /\ expires_at'[k] = expires_at[k]
               /\ rendu'[k] = rendu[k] /\ Reference(k)' = Reference(k)
         /\ \A q \in Procs : ~SousBail(q, j)
  <1> USE DEF IInv, TypeOK
  <1>1. expires_at[j] < now
    BY DEF Prise, Prenable
  <1>2. \A q \in Procs : ~SousBail(q, j)
    BY <1>1 DEF Prise, Prenable, EnTempsPorteur, BailDuPorteur, SousBail
  <1>3. DUREES[j] \in Nat \ {0}
    OBVIOUS
  <1>4. /\ holder' \in [Jobs -> Procs \cup {Personne}]
        /\ expires_at' \in [Jobs -> Nat]
        /\ rendu' \in [Jobs -> BOOLEAN]
        /\ dernierSucces' \in [Jobs -> Nat]
        /\ derniereDette' \in [Jobs -> Nat]
        /\ abouti' \in [Jobs -> Nat]
    BY <1>3 DEF Prise
  <1>5. holder'[j] = p /\ ~rendu'[j] /\ expires_at'[j] = now + DUREES[j]
    BY DEF Prise
  <1>6. \A k \in Jobs \ {j} :
          /\ holder'[k] = holder[k] /\ expires_at'[k] = expires_at[k]
          /\ rendu'[k] = rendu[k] /\ Reference(k)' = Reference(k)
    BY DEF Prise, Reference, PlusTard
  <1>7. \A k \in Jobs : holder'[k] = Personne <=> expires_at'[k] = 0
    BY <1>3, <1>5, <1>6
  <1>8. Reference(j)' = expires_at[j]
    <2>1. CASE rendu[j]
      BY <2>1 DEF Prise, Reference, BattementExact, Battement
    <2>2. CASE ~rendu[j]
      BY <2>2 DEF Prise, Reference, PlusTard, Dates
    <2> QED
      BY <2>1, <2>2
  <1> QED
    BY <1>1, <1>2, <1>4, <1>5, <1>6, <1>7, <1>8

LEMMA PrendreIInv ==
  ASSUME IInv, NEW p \in Procs, NEW j \in Jobs, Prendre(p, j)
  PROVE  IInv'
  <1> USE DEF IInv
  <1>0. Prise(p, j) /\ now' = now /\ DUREES[j] \in Nat \ {0}
    BY DEF Prendre
  <1>1. TypeOK'
    BY <1>0, PriseRow DEF Prendre, Passe, TypeOK, Etats
  <1>2. BailDuPorteur'
    <2> SUFFICES ASSUME NEW q \in Procs, NEW k \in Jobs,
                        etat'[q][k] \in Actifs, holder'[k] = q
                 PROVE  /\ ~rendu'[k]
                        /\ expires_at'[k] = echeance'[q][k]
                        /\ battement'[q][k] = Reference(k)'
                        /\ etat'[q][k] # "abouti" => battement'[q][k] >= abouti'[k]
      BY DEF BailDuPorteur
    <2>1. CASE k = j
      <3>1. /\ holder'[j] = p /\ ~rendu'[j] /\ expires_at'[j] = now + DUREES[j]
            /\ Reference(j)' = expires_at[j]
        BY <1>0, PriseRow
      <3>2. /\ etat'[p][j] = "travail" /\ battement'[p][j] = expires_at[j]
            /\ echeance'[p][j] = now + DUREES[j] /\ abouti'[j] = abouti[j]
        BY DEF Prendre, Prise, Passe, TypeOK
      <3>3. expires_at[j] >= abouti[j]
        BY DEF SuccesJamaisOublie, Battement
      <3> QED
        BY <2>1, <3>1, <3>2, <3>3
    <2>2. CASE k # j
      <3>1. /\ holder'[k] = holder[k] /\ expires_at'[k] = expires_at[k]
            /\ rendu'[k] = rendu[k] /\ Reference(k)' = Reference(k)
        BY <2>2, <1>0, PriseRow
      <3>2. /\ etat'[q][k] = etat[q][k] /\ battement'[q][k] = battement[q][k]
            /\ echeance'[q][k] = echeance[q][k] /\ abouti'[k] = abouti[k]
        BY <2>2 DEF Prendre, Prise, Passe, TypeOK
      <3> QED
        BY <3>1, <3>2 DEF BailDuPorteur
    <2> QED
      BY <2>1, <2>2
  <1>3. EnTempsPorteur'
    <2> SUFFICES ASSUME NEW q \in Procs, NEW k \in Jobs, SousBail(q, k)'
                 PROVE  holder'[k] = q
      BY DEF EnTempsPorteur
    <2>1. CASE q = p /\ k = j
      BY <2>1, <1>0, PriseRow
    <2>2. CASE ~(q = p /\ k = j)
      <3>1. SousBail(q, k)
        BY <2>2, <1>0 DEF SousBail, Prendre, Passe, TypeOK
      <3>2. k # j
        BY <3>1, <1>0, PriseRow
      <3> QED
        BY <3>1, <3>2, <1>0, PriseRow DEF EnTempsPorteur
    <2> QED
      BY <2>1, <2>2
  <1>4. Dates'
    <2> SUFFICES ASSUME NEW k \in Jobs
                 PROVE  /\ dernierSucces'[k] <= now
                        /\ derniereDette'[k] <= now
                        /\ abouti'[k] <= now
                        /\ ~rendu'[k] => expires_at'[k] > Reference(k)'
      BY <1>0 DEF Dates
    <2>1. expires_at[j] < now
      BY <1>0, PriseRow
    <2>2. /\ dernierSucces'[k] <= now
          /\ derniereDette'[k] <= now
          /\ abouti'[k] <= now
      BY <2>1, <1>0 DEF Dates, Prise, TypeOK
    <2>3. ~rendu'[k] => expires_at'[k] > Reference(k)'
      <3>1. CASE k = j
        <4>1. Reference(j)' = expires_at[j] /\ expires_at'[j] = now + DUREES[j]
          BY <1>0, PriseRow
        <4> QED
          BY <3>1, <4>1, <2>1, <1>0 DEF TypeOK
      <3>2. CASE k # j
        <4>1. /\ expires_at'[k] = expires_at[k] /\ rendu'[k] = rendu[k]
              /\ Reference(k)' = Reference(k)
          BY <3>2, <1>0, PriseRow
        <4> QED
          BY <4>1 DEF Dates
      <3> QED
        BY <3>1, <3>2
    <2> QED
      BY <2>2, <2>3
  <1>5. BattementExact'
    BY <1>0, PriseRow DEF BattementExact, Battement, Reference
  <1>6. SuccesJamaisOublie'
    BY <1>0, PriseRow DEF SuccesJamaisOublie, Battement, Prise, Dates, TypeOK
  <1> QED
    BY <1>0, <1>1, <1>2, <1>3, <1>4, <1>5, <1>6

LEMMA PrendrePerduIInv ==
  ASSUME IInv, NEW p \in Procs, NEW j \in Jobs, PrendrePerdu(p, j)
  PROVE  IInv'
  <1> USE DEF IInv
  <1>0. /\ Prise(p, j) /\ now' = now /\ DUREES[j] \in Nat \ {0}
        /\ etat' = etat /\ battement' = battement /\ echeance' = echeance
    BY DEF PrendrePerdu, runs
  <1>a. /\ holder'[j] = p /\ ~rendu'[j] /\ expires_at'[j] = now + DUREES[j]
        /\ Reference(j)' = expires_at[j] /\ expires_at[j] < now
        /\ \A q \in Procs : ~SousBail(q, j)
    BY <1>0, PriseRow
  <1>b. \A k \in Jobs \ {j} :
          /\ holder'[k] = holder[k] /\ expires_at'[k] = expires_at[k]
          /\ rendu'[k] = rendu[k] /\ Reference(k)' = Reference(k)
    BY <1>0, PriseRow
  <1>c. etat[p][j] \notin Actifs
    BY DEF PrendrePerdu, Actifs
  <1>d. abouti' = abouti /\ dernierSucces' = dernierSucces
    BY <1>0 DEF Prise
  <1>1. TypeOK'
    BY <1>0, PriseRow DEF TypeOK
  <1>2. BailDuPorteur'
    BY <1>0, <1>a, <1>b, <1>c, <1>d DEF BailDuPorteur
  <1>3. EnTempsPorteur'
    BY <1>0, <1>a, <1>b DEF EnTempsPorteur, SousBail
  <1>4. Dates'
    <2>1. \A k \in Jobs : derniereDette'[k] <= now
      BY <1>0, <1>a DEF Dates, Prise, TypeOK
    <2>2. \A k \in Jobs : ~rendu'[k] => expires_at'[k] > Reference(k)'
      BY <1>0, <1>a, <1>b DEF Dates, TypeOK
    <2> QED
      BY <1>0, <1>d, <2>1, <2>2 DEF Dates
  <1>5. BattementExact'
    BY <1>a, <1>b DEF BattementExact, Battement, Reference
  <1>6. SuccesJamaisOublie'
    BY <1>0, <1>a, <1>b, <1>d DEF SuccesJamaisOublie, Battement, Dates, TypeOK
  <1> QED
    BY <1>0, <1>1, <1>2, <1>3, <1>4, <1>5, <1>6

\* Steps that only move runs towards rest, failure or death.
LEMMA EtatSeulIInv ==
  ASSUME IInv,
         UNCHANGED <<now, base, battement, echeance, traces>>,
         etat' \in [Procs -> [Jobs -> Etats]],
         \A q \in Procs, k \in Jobs :
           etat'[q][k] \in Actifs =>
             \/ etat'[q][k] = etat[q][k]
             \/ etat'[q][k] = "echoue" /\ etat[q][k] = "travail"
  PROVE  IInv'
  <1> USE DEF IInv, base, traces
  <1>1. TypeOK' /\ Dates' /\ BattementExact' /\ SuccesJamaisOublie'
    BY DEF TypeOK, Dates, BattementExact, SuccesJamaisOublie, Battement,
           Reference, PlusTard
  <1>2. BailDuPorteur'
    BY DEF BailDuPorteur, Reference, PlusTard, Actifs
  <1>3. EnTempsPorteur'
    BY DEF EnTempsPorteur, SousBail, Actifs
  <1> QED
    BY <1>1, <1>2, <1>3

LEMMA AboutirIInv ==
  ASSUME IInv, NEW p \in Procs, NEW j \in Jobs, Aboutir(p, j)
  PROVE  IInv'
  <1> USE DEF IInv
  <1>0. /\ UNCHANGED <<now, holder, expires_at, battement, echeance,
                       rendu, dernierSucces, derniereDette>>
        /\ etat[p][j] = "travail"
        /\ etat' = [etat EXCEPT ![p][j] = "abouti"]
        /\ abouti' = [abouti EXCEPT ![j] = IF now <= echeance[p][j] THEN now ELSE @]
    BY DEF Aboutir, base, Passe
  <1>a. \A k \in Jobs : Reference(k)' = Reference(k)
    BY <1>0 DEF Reference, PlusTard
  <1>b. /\ \A k \in Jobs : abouti'[k] \in {abouti[k], now}
        /\ \A k \in Jobs : abouti'[k] # abouti[k] => k = j /\ SousBail(p, j)
    BY <1>0 DEF SousBail, Actifs, TypeOK
  <1>1. TypeOK'
    BY <1>0 DEF TypeOK, Etats
  <1>2. BailDuPorteur'
    <2> SUFFICES ASSUME NEW q \in Procs, NEW k \in Jobs,
                        etat'[q][k] \in Actifs, holder'[k] = q
                 PROVE  /\ ~rendu'[k]
                        /\ expires_at'[k] = echeance'[q][k]
                        /\ battement'[q][k] = Reference(k)'
                        /\ etat'[q][k] # "abouti" => battement'[q][k] >= abouti'[k]
      BY DEF BailDuPorteur
    <2>1. etat[q][k] \in Actifs
      BY <1>0 DEF TypeOK, Actifs
    <2>2. ~rendu'[k] /\ expires_at'[k] = echeance'[q][k] /\ battement'[q][k] = Reference(k)'
      BY <2>1, <1>0, <1>a DEF BailDuPorteur
    <2>3. etat'[q][k] # "abouti" => battement'[q][k] >= abouti'[k]
      <3>1. CASE q = p /\ k = j
        BY <3>1, <1>0 DEF TypeOK
      <3>2. CASE ~(q = p /\ k = j)
        <4>1. etat'[q][k] = etat[q][k]
          BY <3>2, <1>0 DEF TypeOK
        <4>2. abouti'[k] = abouti[k]
          BY <3>2, <1>0, <1>b DEF EnTempsPorteur
        <4> QED
          BY <4>1, <4>2, <2>1, <1>0 DEF BailDuPorteur
      <3> QED
        BY <3>1, <3>2
    <2> QED
      BY <2>2, <2>3
  <1>3. EnTempsPorteur'
    BY <1>0 DEF EnTempsPorteur, SousBail, Actifs, TypeOK
  <1>4. Dates'
    BY <1>0, <1>a, <1>b DEF Dates, TypeOK
  <1>5. BattementExact'
    BY <1>0, <1>a DEF BattementExact, Battement, Reference
  <1>6. SuccesJamaisOublie'
    <2> SUFFICES ASSUME NEW k \in Jobs PROVE expires_at'[k] >= abouti'[k]
      BY DEF SuccesJamaisOublie, Battement
    <2>1. CASE abouti'[k] = abouti[k]
      BY <2>1, <1>0 DEF SuccesJamaisOublie, Battement
    <2>2. CASE abouti'[k] # abouti[k]
      <3>1. k = j /\ SousBail(p, j) /\ abouti'[k] = now
        BY <2>2, <1>b
      <3>2. expires_at[j] = echeance[p][j]
        BY <3>1 DEF EnTempsPorteur, BailDuPorteur, SousBail
      <3> QED
        BY <3>1, <3>2, <1>0 DEF SousBail, TypeOK
    <2> QED
      BY <2>1, <2>2
  <1> QED
    BY <1>0, <1>1, <1>2, <1>3, <1>4, <1>5, <1>6

LEMMA RendreIInv ==
  ASSUME IInv, NEW p \in Procs, NEW j \in Jobs, Rendre(p, j)
  PROVE  IInv'
  <1> USE DEF IInv
  <1>0. /\ UNCHANGED <<now, battement, echeance>>
        /\ etat[p][j] = "abouti"
        /\ etat' = [etat EXCEPT ![p][j] = "repos"]
        /\ etat' \in [Procs -> [Jobs -> Etats]]
        /\ \A q \in Procs, k \in Jobs :
             etat'[q][k] \in Actifs => etat'[q][k] = etat[q][k] /\ ~(q = p /\ k = j)
    BY DEF Rendre, Passe, TypeOK, Etats, Actifs
  <1>1. CASE holder[j] # p
    <2>1. UNCHANGED <<base, traces>>
      BY <1>1 DEF Rendre, rendreBail
    <2> QED
      BY <2>1, <1>0, EtatSeulIInv
  <1>2. CASE holder[j] = p
    <2>0. /\ UNCHANGED <<holder, derniereDette, abouti>>
          /\ expires_at' = [expires_at EXCEPT ![j] = now]
          /\ rendu' = [rendu EXCEPT ![j] = TRUE]
          /\ dernierSucces' = [dernierSucces EXCEPT ![j] = now]
      BY <1>2 DEF Rendre, rendreBail
    <2>a. \A k \in Jobs \ {j} :
             /\ expires_at'[k] = expires_at[k] /\ rendu'[k] = rendu[k]
             /\ Reference(k)' = Reference(k)
      BY <2>0 DEF Reference, PlusTard, TypeOK
    <2>b. expires_at'[j] = now /\ rendu'[j] /\ Reference(j)' = now
      BY <2>0 DEF Reference, PlusTard, TypeOK, Dates
    <2>1. TypeOK'
      BY <1>0, <2>0, <1>2 DEF TypeOK
    <2>2. BailDuPorteur'
      <3> SUFFICES ASSUME NEW q \in Procs, NEW k \in Jobs,
                          etat'[q][k] \in Actifs, holder'[k] = q
                   PROVE  /\ ~rendu'[k]
                          /\ expires_at'[k] = echeance'[q][k]
                          /\ battement'[q][k] = Reference(k)'
                          /\ etat'[q][k] # "abouti" => battement'[q][k] >= abouti'[k]
        BY DEF BailDuPorteur
      <3>1. k # j /\ etat'[q][k] = etat[q][k]
        BY <1>0, <2>0, <1>2
      <3> QED
        BY <3>1, <1>0, <2>0, <2>a DEF BailDuPorteur
    <2>3. EnTempsPorteur'
      BY <1>0, <2>0 DEF EnTempsPorteur, SousBail
    <2>4. Dates'
      BY <1>0, <2>0, <2>a, <2>b DEF Dates, TypeOK
    <2>5. BattementExact'
      BY <2>a, <2>b DEF BattementExact, Battement, Reference
    <2>6. SuccesJamaisOublie'
      BY <1>0, <2>0, <2>a, <2>b DEF SuccesJamaisOublie, Battement, Dates, TypeOK
    <2> QED
      BY <1>0, <2>1, <2>2, <2>3, <2>4, <2>5, <2>6
  <1> QED
    BY <1>1, <1>2

LEMMA AbandonnerIInv ==
  ASSUME IInv, NEW p \in Procs, NEW j \in Jobs, Abandonner(p, j)
  PROVE  IInv'
  <1> USE DEF IInv
  <1>0. /\ UNCHANGED <<now, battement, echeance>>
        /\ etat[p][j] = "echoue"
        /\ etat' = [etat EXCEPT ![p][j] = "repos"]
        /\ etat' \in [Procs -> [Jobs -> Etats]]
        /\ \A q \in Procs, k \in Jobs :
             etat'[q][k] \in Actifs => etat'[q][k] = etat[q][k] /\ ~(q = p /\ k = j)
    BY DEF Abandonner, Passe, TypeOK, Etats, Actifs
  <1>1. CASE holder[j] # p
    <2>1. UNCHANGED <<base, traces>>
      BY <1>1 DEF Abandonner, abandonnerBail, Remettre
    <2> QED
      BY <2>1, <1>0, EtatSeulIInv
  <1>2. CASE holder[j] = p
    <2> DEFINE b == battement[p][j]
    <2>1. b = Reference(j) /\ b >= abouti[j] /\ b \in Nat
      BY <1>0, <1>2 DEF BailDuPorteur, Actifs, TypeOK
    <2>2. PlusTot(b, now) = b
      BY <2>1 DEF PlusTot, Reference, PlusTard, Dates, TypeOK
    <2>0. /\ UNCHANGED <<dernierSucces, derniereDette, abouti>>
          /\ holder' = [holder EXCEPT ![j] = IF b = 0 THEN Personne ELSE p]
          /\ expires_at' = [expires_at EXCEPT ![j] = b]
          /\ rendu' = [rendu EXCEPT ![j] = TRUE]
      BY <1>2, <2>2 DEF Abandonner, abandonnerBail, Remettre
    <2> HIDE DEF b
    <2>a. \A k \in Jobs : Reference(k)' = Reference(k)
      BY <2>0 DEF Reference, PlusTard
    <2>b. /\ expires_at'[j] = b /\ rendu'[j]
          /\ \A k \in Jobs \ {j} :
               expires_at'[k] = expires_at[k] /\ rendu'[k] = rendu[k] /\ holder'[k] = holder[k]
      BY <2>0 DEF TypeOK
    <2>3. TypeOK'
      <3>1. \A k \in Jobs : holder'[k] = Personne <=> expires_at'[k] = 0
        BY <2>0 DEF TypeOK
      <3> QED
        BY <3>1, <1>0, <2>0, <2>1 DEF TypeOK
    <2>4. BailDuPorteur'
      <3> SUFFICES ASSUME NEW q \in Procs, NEW k \in Jobs,
                          etat'[q][k] \in Actifs, holder'[k] = q
                   PROVE  /\ ~rendu'[k]
                          /\ expires_at'[k] = echeance'[q][k]
                          /\ battement'[q][k] = Reference(k)'
                          /\ etat'[q][k] # "abouti" => battement'[q][k] >= abouti'[k]
        BY DEF BailDuPorteur
      <3>1. k # j /\ etat'[q][k] = etat[q][k]
        BY <1>0, <2>0, <1>2 DEF TypeOK
      <3> QED
        BY <3>1, <1>0, <2>0, <2>a, <2>b DEF BailDuPorteur
    <2>5. EnTempsPorteur'
      <3> SUFFICES ASSUME NEW q \in Procs, NEW k \in Jobs, SousBail(q, k)'
                   PROVE  holder'[k] = q
        BY DEF EnTempsPorteur
      <3>1. SousBail(q, k) /\ ~(q = p /\ k = j)
        BY <1>0 DEF SousBail
      <3>2. holder[k] = q
        BY <3>1 DEF EnTempsPorteur
      <3>3. k # j
        BY <3>1, <3>2, <1>2
      <3> QED
        BY <3>2, <3>3, <2>b
    <2>6. Dates'
      BY <1>0, <2>0, <2>a, <2>b DEF Dates, TypeOK
    <2>7. BattementExact'
      BY <2>1, <2>a, <2>b DEF BattementExact, Battement, Reference
    <2>8. SuccesJamaisOublie'
      BY <2>0, <2>1, <2>b DEF SuccesJamaisOublie, Battement
    <2> QED
      BY <1>0, <2>3, <2>4, <2>5, <2>6, <2>7, <2>8
  <1> QED
    BY <1>1, <1>2

LEMMA HorlogeIInv == IInv /\ Horloge => IInv'
  <1> SUFFICES ASSUME IInv, Horloge PROVE IInv'
    OBVIOUS
  <1> USE DEF IInv, Horloge, base, runs, traces
  <1>1. TypeOK' /\ Dates' /\ BattementExact' /\ SuccesJamaisOublie' /\ (now >= 1)'
    BY DEF TypeOK, Dates, BattementExact, SuccesJamaisOublie, Battement,
           Reference, PlusTard
  <1>2. BailDuPorteur'
    BY DEF BailDuPorteur, Reference, PlusTard
  <1>3. EnTempsPorteur'
    BY DEF EnTempsPorteur, SousBail, TypeOK
  <1> QED
    BY <1>1, <1>2, <1>3

LEMMA NextIInv == IInv /\ [Next]_(vars) => IInv'
  <1> SUFFICES ASSUME IInv, [Next]_(vars) PROVE IInv'
    OBVIOUS
  <1>1. ASSUME NEW p \in Procs, NEW j \in Jobs, Cadence(p, j) PROVE IInv'
    <2>1. CASE Prendre(p, j) \/ PrendrePerdu(p, j)
      BY <2>1, PrendreIInv, PrendrePerduIInv
    <2>2. CASE Aboutir(p, j)
      BY <2>2, AboutirIInv
    <2>3. CASE Echouer(p, j) \/ NonRendu(p, j)
      <3>0. etat \in [Procs -> [Jobs -> Etats]]
        BY DEF IInv, TypeOK
      <3>1. /\ UNCHANGED <<now, base, battement, echeance, traces>>
            /\ etat' \in [Procs -> [Jobs -> Etats]]
            /\ \A q \in Procs, k \in Jobs :
                 etat'[q][k] \in Actifs =>
                   \/ etat'[q][k] = etat[q][k]
                   \/ etat'[q][k] = "echoue" /\ etat[q][k] = "travail"
        BY <2>3, <3>0 DEF Echouer, NonRendu, Passe, Etats, Actifs
      <3> QED
        BY <3>1, EtatSeulIInv
    <2>4. CASE Rendre(p, j) \/ Abandonner(p, j)
      BY <2>4, RendreIInv, AbandonnerIInv
    <2> QED
      BY <1>1, <2>1, <2>2, <2>3, <2>4 DEF Cadence
  <1>2. ASSUME NEW p \in Procs, Mourir(p) \/ Redemarrer(p) PROVE IInv'
    <2>0. etat \in [Procs -> [Jobs -> Etats]]
      BY DEF IInv, TypeOK
    <2>1. /\ UNCHANGED <<now, base, battement, echeance, traces>>
          /\ etat' \in [Procs -> [Jobs -> Etats]]
          /\ \A q \in Procs, k \in Jobs :
               etat'[q][k] \in Actifs =>
                 \/ etat'[q][k] = etat[q][k]
                 \/ etat'[q][k] = "echoue" /\ etat[q][k] = "travail"
      BY <1>2, <2>0 DEF Mourir, Redemarrer, Etats, Actifs
    <2> QED
      BY <2>1, EtatSeulIInv
  <1>3. CASE Horloge
    BY <1>3, HorlogeIInv
  <1>4. CASE UNCHANGED vars
    BY <1>4, EtatSeulIInv DEF vars, base, traces, IInv, TypeOK
  <1> QED
    BY <1>1, <1>2, <1>3, <1>4 DEF Next

\* The inductive invariant of the lease (bail.mjs) holds in every reachable state.
THEOREM SpecIInv == Spec => []IInv
  <1> QED
    BY InitIInv, NextIInv, PTL DEF Spec

\* Rows, runs and histories keep their types, and a row exists exactly when it
\* has a date (the create table and the delete of bail.mjs).
THEOREM LeaseTypeCorrect == Spec => []TypeOK
  <1>1. IInv => TypeOK
    BY DEF IInv
  <1> QED
    BY <1>1, SpecIInv, PTL

\* Two processes are never both inside a run of the same job within their
\* deadlines, whatever expires, fails, is lost or restarts.
THEOREM LeaseExclusion == Spec => []Exclusion
  <1> QED
    BY SpecIInv, IInvExclusion, PTL

\* The heartbeat a give-back leaves is the later of the last success recorded
\* and the last deadline that ran out without being given back.
THEOREM HeartbeatExact == Spec => []BattementExact
  <1>1. IInv => BattementExact
    BY DEF IInv
  <1> QED
    BY <1>1, SpecIInv, PTL

\* A success obtained within its deadline is never older than what the row says.
THEOREM SuccessKept == Spec => []SuccesJamaisOublie
  <1>1. IInv => SuccesJamaisOublie
    BY DEF IInv
  <1> QED
    BY <1>1, SpecIInv, PTL

-----------------------------------------------------------------------------
(* The watch.  What the passes read of the row of the tick may be older than *)
(* the row, but the row never goes back (Repere): a tick that runs is over,  *)
(* or dead, before its lease runs out, and a tick that fails gives back the  *)
(* heartbeat it found.  So an episode, told or closed, stays behind.         *)

\* At most two notifiers at once: nothing in the code forbids a third one, and
\* with three the watch does not keep its promise.
Deux == \A u, v, w \in Veilleurs : u = v \/ v = w \/ u = w

\* A tick under way has time left on its lease.
ALHeure == \A p \in Procs : etat[p][Tick] \in Actifs => now < echeance[p][Tick]

\* What the row says of the past: its date, or what its date was when it was
\* taken, should it be held.
Repere == IF expires_at[Tick] > now THEN Reference(Tick) ELSE expires_at[Tick]

BInv == IInv /\ ALHeure

\* A silence that began at s has lasted, or lasted, more than the threshold.
Silence(s) == s + Seuil < now /\ (dernierSucces[Tick] <= s \/ s + Seuil < dernierSucces[Tick])

\* Every episode is that of a silence, closed by a heartbeat the row has not forgotten.
Episodes ==
  \A i \in DOMAIN fenetres :
    /\ Silence(fenetres[i].debut)
    /\ fenetres[i].fin # 0 => fenetres[i].debut < fenetres[i].fin /\ fenetres[i].fin <= Repere

\* They follow one another.
Suite == \A i, j \in DOMAIN fenetres : i < j => fenetres[i].fin # 0 /\ fenetres[i].fin <= fenetres[j].debut

\* What a pass keeps of what it read.
Passages ==
  \A v \in Veilleurs :
    /\ pas[v] # "repos" => ~pret[v]
    /\ pas[v] = "ouvrir" => Silence(vu[v].tick) /\ vu[v].tick <= Repere
    /\ pas[v] = "fermer" => vu[v].tick <= Repere /\ now <= vu[v].tick + Seuil

\* A pass about to open found every episode closed, earlier than the silence it read;
\* or the other notifier has opened one since, and has had its pass of the minute.
Ouvreurs ==
  \A v \in Veilleurs : pas[v] = "ouvrir" =>
    \/ \A i \in DOMAIN fenetres : fenetres[i].fin # 0 /\ fenetres[i].fin <= vu[v].tick
    \/ /\ Ouvertes # {}
       /\ \A w \in Veilleurs \ {v} : ~pret[w] /\ pas[w] # "fermer"

WInv == BInv /\ TypeVeille /\ Episodes /\ Suite /\ Passages /\ Ouvreurs

USE TickAssumption, CadenceAssumption, DebordeAssumption, BornesAssumption

LEMMA SeuilType == Seuil \in Nat
  BY DEF Seuil, seuilSilenceMin

LEMMA RepereType ==
  ASSUME BInv
  PROVE  /\ now \in Nat /\ expires_at[Tick] \in Nat /\ dernierSucces[Tick] \in Nat
         /\ Repere \in Nat /\ Repere <= now /\ dernierSucces[Tick] <= Repere
  BY DEF BInv, IInv, TypeOK, Repere, Reference, PlusTard, Dates, BattementExact, Battement

\* Who is in a tick holds its row, and its lease runs.
LEMMA Porteur ==
  ASSUME BInv, NEW p \in Procs, etat[p][Tick] \in Actifs
  PROVE  /\ holder[Tick] = p /\ expires_at[Tick] = echeance[p][Tick] /\ now < expires_at[Tick]
         /\ battement[p][Tick] = Reference(Tick) /\ Repere = Reference(Tick)
  <1>1. now < echeance[p][Tick] /\ now \in Nat /\ echeance[p][Tick] \in Nat
    BY DEF BInv, ALHeure, IInv, TypeOK
  <1>2. holder[Tick] = p
    BY <1>1 DEF BInv, IInv, EnTempsPorteur, SousBail
  <1>3. expires_at[Tick] = echeance[p][Tick] /\ battement[p][Tick] = Reference(Tick)
    BY <1>2 DEF BInv, IInv, BailDuPorteur
  <1> QED BY <1>1, <1>2, <1>3 DEF Repere

\* The row of the tick never goes back.
Avance == /\ now' = now
          /\ dernierSucces'[Tick] \in {dernierSucces[Tick], now}
          /\ Repere' >= Repere

\* Steps that leave the row of the tick alone.
LEMMA AilleursAvance ==
  ASSUME BInv, now' = now, expires_at'[Tick] = expires_at[Tick],
         dernierSucces'[Tick] = dernierSucces[Tick], Reference(Tick)' = Reference(Tick)
  PROVE  Avance
  BY RepereType DEF Avance, Repere

LEMMA PriseAvance ==
  ASSUME BInv, NEW p \in Procs, NEW j \in Jobs, Prise(p, j), now' = now
  PROVE  Avance
  <1>1. dernierSucces' = dernierSucces
    BY DEF Prise
  <1>2. CASE j = Tick
    <2>1. Reference(Tick)' = expires_at[Tick] /\ expires_at[Tick] < now /\ expires_at'[Tick] = now + DUREES[Tick]
      BY <1>2, PriseRow DEF BInv
    <2>2. DUREES[Tick] \in Nat \ {0}
      BY MaxNowAssumption
    <2>3. Repere' = Repere
      BY <2>1, <2>2, RepereType DEF Repere
    <2> QED BY <1>1, <2>3, RepereType DEF Avance
  <1>3. CASE j # Tick
    BY <1>1, <1>3, PriseRow, AilleursAvance DEF BInv
  <1> QED BY <1>2, <1>3

LEMMA RendreAvance ==
  ASSUME BInv, NEW p \in Procs, NEW j \in Jobs, Rendre(p, j)
  PROVE  Avance
  <1>1. now' = now /\ etat[p][j] = "abouti"
    BY DEF Rendre
  <1>2. CASE j = Tick
    <2>1. holder[Tick] = p /\ Repere = Reference(Tick)
      BY <1>1, <1>2, Porteur DEF Actifs
    <2>2. /\ expires_at' = [expires_at EXCEPT ![Tick] = now]
          /\ dernierSucces' = [dernierSucces EXCEPT ![Tick] = now]
      BY <1>2, <2>1 DEF Rendre, rendreBail
    <2>3. expires_at'[Tick] = now /\ dernierSucces'[Tick] = now
      BY <2>2 DEF BInv, IInv, TypeOK
    <2> QED BY <1>1, <2>3, RepereType DEF Avance, Repere
  <1>3. CASE j # Tick
    <2>1. /\ expires_at'[Tick] = expires_at[Tick]
          /\ dernierSucces'[Tick] = dernierSucces[Tick] /\ derniereDette' = derniereDette
      BY <1>3 DEF Rendre, rendreBail, base, traces, BInv, IInv, TypeOK
    <2> QED BY <1>1, <2>1, AilleursAvance DEF Reference, PlusTard
  <1> QED BY <1>2, <1>3

LEMMA AbandonnerAvance ==
  ASSUME BInv, NEW p \in Procs, NEW j \in Jobs, Abandonner(p, j)
  PROVE  Avance
  <1>1. now' = now /\ etat[p][j] = "echoue" /\ dernierSucces' = dernierSucces /\ derniereDette' = derniereDette
    BY DEF Abandonner, abandonnerBail, Remettre, base, traces
  <1>2. Reference(Tick)' = Reference(Tick)
    BY <1>1 DEF Reference, PlusTard
  <1>3. CASE j = Tick
    <2>1. holder[Tick] = p /\ Repere = Reference(Tick) /\ battement[p][Tick] = Repere
      BY <1>1, <1>3, Porteur DEF Actifs
    <2>2. PlusTot(battement[p][Tick], now) = Repere
      BY <2>1, RepereType DEF PlusTot
    <2>3. expires_at' = [expires_at EXCEPT ![Tick] = Repere]
      BY <1>3, <2>1, <2>2 DEF Abandonner, abandonnerBail, Remettre
    <2>4. expires_at'[Tick] = Repere
      BY <2>3 DEF BInv, IInv, TypeOK
    <2>5. Repere' = Repere
      BY <1>1, <2>4, RepereType DEF Repere
    <2> QED BY <1>1, <2>5, RepereType DEF Avance
  <1>4. CASE j # Tick
    <2>1. expires_at'[Tick] = expires_at[Tick]
      BY <1>4 DEF Abandonner, abandonnerBail, Remettre, base, traces, BInv, IInv, TypeOK
    <2> QED BY <1>1, <1>2, <2>1, AilleursAvance
  <1> QED BY <1>3, <1>4

\* A step of the scheduler.
LEMMA OrdonnanceurAvance ==
  ASSUME BInv, Ordonnanceur
  PROVE  BInv' /\ Avance
  <1>1. IInv'
    <2>1. Next
      BY DEF Ordonnanceur, Next
    <2> QED BY <2>1, NextIInv DEF BInv
  <1>2. ASSUME NEW p \in Procs, NEW j \in Jobs, Cadence(p, j)
        PROVE  Avance /\ ALHeure'
    <2>0. /\ etat \in [Procs -> [Jobs -> Etats]] /\ echeance \in [Procs -> [Jobs -> Nat]] /\ now \in Nat
          /\ DUREES[j] \in Nat \ {0}
      BY MaxNowAssumption DEF BInv, IInv, TypeOK
    <2>1. CASE Prendre(p, j)
      <3>1. Avance
        BY <2>1, PriseAvance DEF Prendre
      <3>2. /\ now' = now /\ etat' = [etat EXCEPT ![p][j] = "travail"]
            /\ echeance' = [echeance EXCEPT ![p][j] = now + DUREES[j]]
        BY <2>1 DEF Prendre, Passe
      <3>3. ALHeure'
        BY <2>0, <3>2 DEF BInv, ALHeure
      <3> QED BY <3>1, <3>3
    <2>2. CASE PrendrePerdu(p, j)
      <3>1. Avance
        BY <2>2, PriseAvance DEF PrendrePerdu
      <3>2. ALHeure'
        BY <2>2 DEF BInv, ALHeure, PrendrePerdu, runs
      <3> QED BY <3>1, <3>2
    <2>3. CASE Aboutir(p, j) \/ Echouer(p, j) \/ NonRendu(p, j)
      <3>1. /\ UNCHANGED <<now, expires_at, echeance, dernierSucces, derniereDette>>
            /\ etat[p][j] \in Actifs
            /\ \E e \in {"abouti", "echoue", "repos"} : etat' = [etat EXCEPT ![p][j] = e]
        BY <2>3 DEF Aboutir, Echouer, NonRendu, base, traces, Passe, Actifs
      <3>2. ALHeure'
        BY <2>0, <3>1 DEF BInv, ALHeure
      <3> QED BY <3>1, <3>2, AilleursAvance DEF Reference, PlusTard
    <2>4. CASE Rendre(p, j) \/ Abandonner(p, j)
      <3>1. now' = now /\ echeance' = echeance /\ etat' = [etat EXCEPT ![p][j] = "repos"]
        BY <2>4 DEF Rendre, Abandonner, Passe
      <3>2. ALHeure'
        BY <2>0, <3>1 DEF BInv, ALHeure, Actifs
      <3> QED BY <2>4, <3>2, RendreAvance, AbandonnerAvance
    <2> QED BY <1>2, <2>1, <2>2, <2>3, <2>4 DEF Cadence
  <1>3. ASSUME NEW p \in Procs, Mourir(p) \/ Redemarrer(p)
        PROVE  Avance /\ ALHeure'
    <2>0. etat \in [Procs -> [Jobs -> Etats]]
      BY DEF BInv, IInv, TypeOK
    <2>1. /\ UNCHANGED <<now, expires_at, echeance, dernierSucces, derniereDette>>
          /\ \E e \in {"mort", "repos"} : etat' = [etat EXCEPT ![p] = [j \in Jobs |-> e]]
      BY <1>3 DEF Mourir, Redemarrer, base, traces
    <2>2. ALHeure'
      BY <2>0, <2>1 DEF BInv, ALHeure, Actifs
    <2> QED BY <2>1, <2>2, AilleursAvance DEF Reference, PlusTard
  <1> QED BY <1>1, <1>2, <1>3 DEF Ordonnanceur, BInv

\* A minute, when a tick does not outlast its lease.
LEMMA MinuteAvance ==
  ASSUME BInv, Minute
  PROVE  /\ IInv' /\ now' \in {now, now + 1} /\ dernierSucces' = dernierSucces
         /\ ~Deborde => ALHeure' /\ Repere' >= Repere
  <1>1. \/ now' = now + 1 /\ UNCHANGED bail
        \/ UNCHANGED <<now, bail>>
    BY DEF Minute, Horloge, base, runs, traces, bail
  <1>2. IInv'
    <2>1. Horloge \/ UNCHANGED vars
      BY DEF Minute, bail, vars
    <2> QED BY <2>1, NextIInv DEF BInv, Next
  <1>3. ASSUME ~Deborde PROVE ALHeure' /\ Repere' >= Repere
    <2>1. /\ expires_at' = expires_at /\ etat' = etat /\ echeance' = echeance
          /\ Reference(Tick)' = Reference(Tick)
      BY <1>1 DEF bail, Reference, PlusTard
    <2>2. ALHeure'
      <3> SUFFICES ASSUME NEW p \in Procs, etat[p][Tick] \in Actifs PROVE now + 1 < echeance[p][Tick] /\ now < echeance[p][Tick]
        BY <1>1, <2>1 DEF ALHeure
      <3>1. now < echeance[p][Tick] /\ now \in Nat /\ echeance[p][Tick] \in Nat
        BY DEF BInv, ALHeure, IInv, TypeOK
      <3>2. SousBail(p, Tick)
        BY <3>1 DEF SousBail
      <3> QED BY <1>3, <3>1, <3>2 DEF Minute
    <2>3. Repere' >= Repere
      BY <1>1, <2>1, RepereType DEF Repere
    <2> QED BY <2>2, <2>3
  <1> QED BY <1>1, <1>2, <1>3 DEF bail

-----------------------------------------------------------------------------
(* The episodes *)

Fenetre == [debut : Nat, fin : Nat, alerte : BOOLEAN]

LEMMA FenetresTypees ==
  ASSUME TypeVeille
  PROVE  /\ fenetres \in Seq(Fenetre) /\ Len(fenetres) \in Nat /\ DOMAIN fenetres = 1..Len(fenetres)
         /\ \A i \in DOMAIN fenetres : fenetres[i] \in Fenetre
  <1>1. fenetres \in Seq(Fenetre)
    BY DEF TypeVeille, Fenetre
  <1> QED BY <1>1, LenProperties

LEMMA InsertionEffet ==
  ASSUME TypeVeille, NEW v \in Veilleurs, Insertion(v)
  PROVE  /\ fenetres' \in Seq(Fenetre) /\ DOMAIN fenetres' = 1..(Len(fenetres) + 1)
         /\ \A i \in DOMAIN fenetres : fenetres'[i] = fenetres[i]
         /\ fenetres'[Len(fenetres) + 1] = [debut |-> vu[v].tick, fin |-> 0, alerte |-> FALSE]
  <1>1. [debut |-> vu[v].tick, fin |-> 0, alerte |-> FALSE] \in Fenetre
    BY DEF TypeVeille, Fenetre
  <1>2. fenetres' = Append(fenetres, [debut |-> vu[v].tick, fin |-> 0, alerte |-> FALSE])
    BY DEF Insertion
  <1>3. Len(fenetres') = Len(fenetres) + 1 /\ fenetres' \in Seq(Fenetre)
    BY <1>1, <1>2, FenetresTypees, AppendProperties
  <1>4. DOMAIN fenetres' = 1..(Len(fenetres) + 1)
    BY <1>3, LenProperties
  <1> QED
    BY <1>1, <1>2, <1>3, <1>4, FenetresTypees, AppendProperties

LEMMA RetoucheEffet ==
  ASSUME TypeVeille, NEW f \in DOMAIN fenetres, NEW e \in Fenetre, fenetres' = [fenetres EXCEPT ![f] = e]
  PROVE  /\ fenetres' \in Seq(Fenetre) /\ DOMAIN fenetres' = DOMAIN fenetres
         /\ fenetres'[f] = e /\ \A i \in DOMAIN fenetres : i # f => fenetres'[i] = fenetres[i]
  <1>1. fenetres \in Seq(Fenetre) /\ f \in 1..Len(fenetres)
    BY FenetresTypees
  <1>2. fenetres' \in Seq(Fenetre)
    BY <1>1, ExceptSeq
  <1> QED BY <1>2

\* An alert changes neither the dates of an episode nor the others.
LEMMA AlerteEffet ==
  ASSUME TypeVeille, NEW f \in DOMAIN fenetres, sonde_alerter(f)
  PROVE  /\ fenetres' \in Seq(Fenetre) /\ DOMAIN fenetres' = DOMAIN fenetres
         /\ \A i \in DOMAIN fenetres : fenetres'[i].debut = fenetres[i].debut /\ fenetres'[i].fin = fenetres[i].fin
         /\ \A i \in DOMAIN fenetres : i # f => fenetres'[i] = fenetres[i]
         /\ fenetres'[f].alerte
  <1> DEFINE e == [fenetres[f] EXCEPT !.alerte = TRUE]
  <1>1. fenetres[f] \in Fenetre
    BY FenetresTypees
  <1>2. e \in Fenetre /\ e.debut = fenetres[f].debut /\ e.fin = fenetres[f].fin /\ e.alerte
    BY <1>1 DEF Fenetre
  <1>3. CASE fenetres[f].alerte
    BY <1>3, FenetresTypees DEF sonde_alerter
  <1>4. CASE ~fenetres[f].alerte
    <2>1. fenetres' = [fenetres EXCEPT ![f] = e]
      BY <1>4 DEF sonde_alerter
    <2> HIDE DEF e
    <2> QED BY <1>2, <2>1, RetoucheEffet
  <1> QED BY <1>3, <1>4

\* A closing touches its episode only if it is open.
LEMMA CloreEffet ==
  ASSUME TypeVeille, NEW f \in DOMAIN fenetres, NEW t \in Nat, fenetres' = Clore(f, t)
  PROVE  /\ fenetres' \in Seq(Fenetre) /\ DOMAIN fenetres' = DOMAIN fenetres
         /\ \A i \in DOMAIN fenetres : fenetres'[i].debut = fenetres[i].debut /\ fenetres'[i].alerte = fenetres[i].alerte
         /\ \A i \in DOMAIN fenetres : i # f \/ fenetres[i].fin # 0 => fenetres'[i] = fenetres[i]
         /\ fenetres[f].fin = 0 => fenetres'[f].fin = IF t > fenetres[f].debut THEN t ELSE fenetres[f].debut + 1
  <1> DEFINE d == IF t > fenetres[f].debut THEN t ELSE fenetres[f].debut + 1
             e == [fenetres[f] EXCEPT !.fin = d]
  <1>1. fenetres[f] \in Fenetre
    BY FenetresTypees
  <1>2. d \in Nat
    BY <1>1 DEF Fenetre
  <1>3. e \in Fenetre /\ e.debut = fenetres[f].debut /\ e.alerte = fenetres[f].alerte /\ e.fin = d
    BY <1>1, <1>2 DEF Fenetre
  <1>4. CASE fenetres[f].fin # 0
    BY <1>4, FenetresTypees DEF Clore
  <1>5. CASE fenetres[f].fin = 0
    <2>1. fenetres' = [fenetres EXCEPT ![f] = e]
      BY <1>5 DEF Clore
    <2> HIDE DEF e
    <2>2. /\ fenetres' \in Seq(Fenetre) /\ DOMAIN fenetres' = DOMAIN fenetres
          /\ fenetres'[f] = e /\ \A i \in DOMAIN fenetres : i # f => fenetres'[i] = fenetres[i]
      BY <1>3, <2>1, RetoucheEffet
    <2> HIDE DEF d
    <2>3. \A i \in DOMAIN fenetres : fenetres'[i].debut = fenetres[i].debut /\ fenetres'[i].alerte = fenetres[i].alerte
      BY <1>3, <2>2
    <2>4. \A i \in DOMAIN fenetres : i # f \/ fenetres[i].fin # 0 => fenetres'[i] = fenetres[i]
      BY <1>5, <2>2
    <2>5. fenetres'[f].fin = d
      BY <1>3, <2>2
    <2> QED BY <2>2, <2>3, <2>4, <2>5 DEF d
  <1> QED BY <1>4, <1>5

-----------------------------------------------------------------------------
(* Types *)

LEMMA AucuneType == Aucune \in [tick : Nat, fenetre : Nat]
  BY DEF Aucune

\* What a pass reads, by its decision.
LEMMA LireEffet ==
  ASSUME TypeVeille, NEW v \in Veilleurs, Lire(v)
  PROVE  /\ pret[v] /\ fenetres' = fenetres /\ emises' = emises /\ pannes' = pannes
         /\ pret' = [pret EXCEPT ![v] = FALSE]
         /\ \E d \in Pas : pas' = [pas EXCEPT ![v] = d]
         /\ \E e \in [tick : Nat, fenetre : Nat] : vu' = [vu EXCEPT ![v] = e]
         /\ pas'[v] # "reprendre"
         /\ pas'[v] = "ouvrir" =>
              Ouvertes = {} /\ vu'[v].tick = expires_at[Tick] /\ expires_at[Tick] <= now /\ expires_at[Tick] + Seuil < now
         /\ pas'[v] = "alerter" => vu'[v].fenetre \in Ouvertes
         /\ pas'[v] = "fermer" =>
              /\ vu'[v].fenetre \in Ouvertes /\ vu'[v].tick = expires_at[Tick]
              /\ expires_at[Tick] <= now /\ now <= expires_at[Tick] + Seuil
  <1> DEFINE tick == expires_at[Tick]
             d == decisionVeille(now, tick)
             p == IF d = "rien" THEN "repos" ELSE d
  <1>1. tick \in Nat /\ now \in Nat /\ Seuil \in Nat
    BY SeuilType DEF TypeVeille, TypeOK
  <1>2. PICK f \in IF Ouvertes = {} THEN {0} ELSE Ouvertes :
          vu' = [vu EXCEPT ![v] = IF d = "rien" THEN Aucune ELSE [tick |-> tick, fenetre |-> f]]
    BY DEF Lire
  <1>3. Ouvertes \subseteq Nat
    BY FenetresTypees DEF Ouvertes
  <1>4. /\ d \in {"rien", "fermer", "ouvrir", "alerter"}
        /\ d = "fermer" => Ouvertes # {} /\ tick <= now /\ now <= tick + Seuil
        /\ d = "ouvrir" => Ouvertes = {} /\ tick <= now /\ tick + Seuil < now
        /\ d = "alerter" => Ouvertes # {}
    BY <1>1 DEF decisionVeille
  <1>5. /\ pret[v] /\ fenetres' = fenetres /\ emises' = emises /\ pannes' = pannes
        /\ pret' = [pret EXCEPT ![v] = FALSE] /\ pas' = [pas EXCEPT ![v] = p]
    BY DEF Lire, Aller
  <1> HIDE DEF d
  <1>6. p \in Pas /\ p # "reprendre"
    BY <1>4 DEF Pas
  <1> DEFINE e == IF d = "rien" THEN Aucune ELSE [tick |-> tick, fenetre |-> f]
  <1>7. e \in [tick : Nat, fenetre : Nat] /\ (d # "rien" => e.tick = tick /\ e.fenetre = f)
    <2>1. f \in Nat
      BY <1>2, <1>3
    <2>2. CASE d = "rien"
      BY <2>2, AucuneType
    <2>3. CASE d # "rien"
      BY <1>1, <2>1, <2>3
    <2> QED BY <2>2, <2>3
  <1>8. pas'[v] = p /\ vu'[v] = e
    BY <1>2, <1>5 DEF TypeVeille
  <1>9. d # "rien" /\ Ouvertes # {} => vu'[v].fenetre \in Ouvertes
    BY <1>2, <1>7, <1>8
  <1>10. d # "rien" => vu'[v].tick = tick
    BY <1>7, <1>8
  <1>11. \E x \in [tick : Nat, fenetre : Nat] : vu' = [vu EXCEPT ![v] = x]
    BY <1>2, <1>7
  <1> HIDE DEF e, p
  <1>12. \E x \in Pas : pas' = [pas EXCEPT ![v] = x]
    BY <1>5, <1>6
  <1>13. pas'[v] = "ouvrir" => Ouvertes = {} /\ vu'[v].tick = tick /\ tick <= now /\ tick + Seuil < now
    BY <1>4, <1>8, <1>10 DEF p
  <1>14. pas'[v] = "alerter" => vu'[v].fenetre \in Ouvertes
    BY <1>4, <1>8, <1>9 DEF p
  <1>15. pas'[v] = "fermer" => vu'[v].fenetre \in Ouvertes /\ vu'[v].tick = tick /\ tick <= now /\ now <= tick + Seuil
    BY <1>4, <1>8, <1>9, <1>10 DEF p
  <1> QED BY <1>5, <1>6, <1>8, <1>11, <1>12, <1>13, <1>14, <1>15

\* A pass moves, and holds what it has to hold.
LEMMA Types ==
  ASSUME TypeVeille, TypeOK', NEW v \in Veilleurs,
         fenetres' \in Seq(Fenetre), DOMAIN fenetres \subseteq DOMAIN fenetres',
         NEW p \in Pas, pas' = [pas EXCEPT ![v] = p],
         NEW e \in [tick : Nat, fenetre : Nat], vu' = [vu EXCEPT ![v] = e],
         p \in {"alerter", "fermer"} => e.fenetre \in DOMAIN fenetres',
         pret' \in [Veilleurs -> BOOLEAN], emises' \in Nat, pannes' \in 0..MaxPannes
  PROVE  TypeVeille'
  BY DEF TypeVeille, Fenetre

LEMMA VuType ==
  ASSUME NEW x \in [tick : Nat, fenetre : Nat], NEW k \in Nat
  PROVE  [x EXCEPT !.fenetre = k] \in [tick : Nat, fenetre : Nat] /\ [x EXCEPT !.fenetre = k].fenetre = k
  OBVIOUS

LEMMA VeilleurType ==
  ASSUME TypeVeille, NEW v \in Veilleurs, Passer(v) \/ Rater(v), UNCHANGED <<now, bail>>
  PROVE  TypeVeille'
  <1>1. TypeOK'
    BY DEF TypeVeille, bail, TypeOK
  <1>2. /\ vu[v] \in [tick : Nat, fenetre : Nat] /\ emises \in Nat /\ pannes \in 0..MaxPannes
        /\ pret \in [Veilleurs -> BOOLEAN]
    BY DEF TypeVeille
  <1>3. CASE Lire(v)
    <2>1. PICK d \in Pas : pas' = [pas EXCEPT ![v] = d]
      BY <1>3, LireEffet
    <2>2. PICK e \in [tick : Nat, fenetre : Nat] : vu' = [vu EXCEPT ![v] = e]
      BY <1>3, LireEffet
    <2>3. pas'[v] = d /\ vu'[v] = e
      BY <2>1, <2>2 DEF TypeVeille
    <2>4. d \in {"alerter", "fermer"} => e.fenetre \in DOMAIN fenetres
      BY <1>3, <2>3, LireEffet DEF Ouvertes
    <2>5. fenetres' = fenetres /\ emises' = emises /\ pannes' = pannes /\ pret' = [pret EXCEPT ![v] = FALSE]
      BY <1>3, LireEffet
    <2> QED BY <1>1, <1>2, <2>1, <2>2, <2>4, <2>5, FenetresTypees, Types
  <1>4. CASE Ouvrir(v)
    <2>0. pret' = pret /\ emises' = emises /\ pannes' = pannes
      BY <1>4 DEF Ouvrir
    <2>1. CASE Insertion(v) /\ pas' = [pas EXCEPT ![v] = "alerter"]
      <3>1. vu' = [vu EXCEPT ![v] = [vu[v] EXCEPT !.fenetre = Len(fenetres) + 1]]
        BY <2>1 DEF Insertion
      <3>2. /\ [vu[v] EXCEPT !.fenetre = Len(fenetres) + 1] \in [tick : Nat, fenetre : Nat]
            /\ [vu[v] EXCEPT !.fenetre = Len(fenetres) + 1].fenetre = Len(fenetres) + 1
        <4>1. Len(fenetres) + 1 \in Nat
          BY FenetresTypees
        <4> QED BY <1>2, <4>1, VuType
      <3>3. fenetres' \in Seq(Fenetre) /\ DOMAIN fenetres' = 1..(Len(fenetres) + 1)
        BY <2>1, InsertionEffet
      <3>4. DOMAIN fenetres \subseteq DOMAIN fenetres' /\ Len(fenetres) + 1 \in DOMAIN fenetres'
        BY <3>3, FenetresTypees
      <3> QED BY <1>1, <1>2, <2>0, <2>1, <3>1, <3>2, <3>3, <3>4, Types DEF Pas
    <2>2. CASE pas' = [pas EXCEPT ![v] = "reprendre"] /\ UNCHANGED <<fenetres, vu>>
      <3>1. vu' = [vu EXCEPT ![v] = vu[v]]
        BY <2>2 DEF TypeVeille
      <3> QED BY <1>1, <1>2, <2>0, <2>2, <3>1, FenetresTypees, Types DEF Pas
    <2> QED BY <1>4, <2>1, <2>2 DEF Ouvrir, Aller
  <1>5. CASE Reprendre(v)
    <2>0. UNCHANGED <<fenetres, pret, emises, pannes>>
      BY <1>5 DEF Reprendre
    <2>1. CASE pas' = [pas EXCEPT ![v] = "repos"] /\ vu' = [vu EXCEPT ![v] = Aucune]
      BY <1>1, <1>2, <2>0, <2>1, AucuneType, FenetresTypees, Types DEF Pas
    <2>2. ASSUME NEW f \in Ouvertes, pas' = [pas EXCEPT ![v] = "alerter"], vu' = [vu EXCEPT ![v].fenetre = f]
          PROVE  TypeVeille'
      <3>1. f \in DOMAIN fenetres /\ f \in Nat
        BY FenetresTypees DEF Ouvertes
      <3>2. /\ [vu[v] EXCEPT !.fenetre = f] \in [tick : Nat, fenetre : Nat]
            /\ [vu[v] EXCEPT !.fenetre = f].fenetre = f
        BY <1>2, <3>1, VuType
      <3>3. vu' = [vu EXCEPT ![v] = [vu[v] EXCEPT !.fenetre = f]]
        BY <2>2
      <3> QED BY <1>1, <1>2, <2>0, <2>2, <3>1, <3>2, <3>3, FenetresTypees, Types DEF Pas
    <2> QED BY <1>5, <2>1, <2>2 DEF Reprendre, Aller
  <1>6. CASE Alerter(v)
    <2>1. /\ vu[v].fenetre \in DOMAIN fenetres /\ sonde_alerter(vu[v].fenetre)
          /\ pas' = [pas EXCEPT ![v] = "repos"] /\ vu' = [vu EXCEPT ![v] = Aucune] /\ UNCHANGED <<pret, pannes>>
      BY <1>6 DEF Alerter, Aller, TypeVeille
    <2>2. emises' \in Nat
      BY <1>2, <2>1 DEF sonde_alerter
    <2>3. fenetres' \in Seq(Fenetre) /\ DOMAIN fenetres' = DOMAIN fenetres
      BY <2>1, AlerteEffet
    <2> QED BY <1>1, <1>2, <2>1, <2>2, <2>3, AucuneType, Types DEF Pas
  <1>7. CASE Fermer(v)
    <2>1. /\ vu[v].fenetre \in DOMAIN fenetres /\ fenetres' = Clore(vu[v].fenetre, vu[v].tick)
          /\ pas' = [pas EXCEPT ![v] = "repos"] /\ vu' = [vu EXCEPT ![v] = Aucune] /\ UNCHANGED <<pret, emises, pannes>>
      BY <1>7 DEF Fermer, Aller, TypeVeille
    <2>2. fenetres' \in Seq(Fenetre) /\ DOMAIN fenetres' = DOMAIN fenetres
      BY <1>2, <2>1, CloreEffet
    <2> QED BY <1>1, <1>2, <2>1, <2>2, AucuneType, Types DEF Pas
  <1>8. CASE Rater(v)
    <2>1. /\ pas' = [pas EXCEPT ![v] = "repos"] /\ vu' = [vu EXCEPT ![v] = Aucune] /\ UNCHANGED <<fenetres, emises>>
          /\ pret' \in {pret, [pret EXCEPT ![v] = FALSE]} /\ pannes' = pannes + 1 /\ pannes < MaxPannes
      BY <1>8 DEF Rater, Aller
    <2>2. pannes' \in 0..MaxPannes
      BY <1>2, <2>1
    <2>3. pret' \in [Veilleurs -> BOOLEAN]
      BY <1>2, <2>1
    <2> QED BY <1>1, <1>2, <2>1, <2>2, <2>3, AucuneType, FenetresTypees, Types DEF Pas
  <1> QED BY <1>3, <1>4, <1>5, <1>6, <1>7, <1>8 DEF Passer

-----------------------------------------------------------------------------
(* WInv is inductive. *)

\* A silence once seen stays one, the tick that ends it included.
LEMMA SilenceDure ==
  ASSUME BInv, now' \in {now, now + 1}, dernierSucces'[Tick] \in {dernierSucces[Tick], now}, NEW s \in Nat, Silence(s)
  PROVE  Silence(s)'
  BY RepereType, SeuilType DEF Silence

LEMMA RepereNombre == BInv => Repere \in Nat
  BY RepereType

LEMMA RepereEnsuite == BInv' => Repere' \in Nat
  <1>1. BInv' => (Repere \in Nat)'
    BY RepereNombre, PTL
  <1> QED BY <1>1

\* The statements of a pass leave the row alone.
LEMMA PasseBail ==
  ASSUME BInv, UNCHANGED <<now, bail>>
  PROVE  BInv' /\ Repere' = Repere /\ \A s : Silence(s)' = Silence(s)
  <1>1. UNCHANGED <<now, expires_at, etat, echeance, dernierSucces, derniereDette>> /\ UNCHANGED vars
    BY DEF bail, vars
  <1>2. IInv'
    BY <1>1, NextIInv DEF BInv
  <1>3. ALHeure' /\ Repere' = Repere
    BY <1>1 DEF BInv, ALHeure, Repere, Reference, PlusTard
  <1>4. \A s : Silence(s)' = Silence(s)
    BY <1>1 DEF Silence
  <1> QED BY <1>2, <1>3, <1>4 DEF BInv

\* What the row and the clock do to the rest: they only move on.
LEMMA RangeeWInv ==
  ASSUME WInv, BInv', TypeVeille', UNCHANGED <<fenetres, vu>>,
         now' \in {now, now + 1}, dernierSucces'[Tick] \in {dernierSucces[Tick], now}, Repere' >= Repere
  PROVE  Episodes' /\ Suite'
  <1>1. \A i \in DOMAIN fenetres : fenetres[i].debut \in Nat /\ fenetres[i].fin \in Nat
    BY FenetresTypees DEF WInv, Fenetre
  <1>2. Repere \in Nat /\ Repere' \in Nat
    BY RepereEnsuite, RepereType DEF WInv
  <1>3. \A i \in DOMAIN fenetres : Silence(fenetres[i].debut)'
    BY <1>1, SilenceDure DEF WInv, Episodes
  <1> QED BY <1>1, <1>2, <1>3 DEF WInv, Episodes, Suite

LEMMA OrdonnanceurWInv ==
  ASSUME WInv, Ordonnanceur
  PROVE  WInv'
  <1>1. BInv' /\ Avance /\ UNCHANGED veille
    BY OrdonnanceurAvance DEF WInv, Ordonnanceur
  <1>2. TypeVeille'
    BY <1>1 DEF WInv, TypeVeille, veille, BInv, IInv
  <1>3. Episodes' /\ Suite'
    BY <1>1, <1>2, RangeeWInv DEF Avance, veille
  <1>4. \A v \in Veilleurs : vu[v].tick \in Nat
    BY DEF WInv, TypeVeille
  <1>5. Repere \in Nat /\ Repere' \in Nat
    BY <1>1, RepereEnsuite, RepereType DEF WInv
  <1>6. \A v \in Veilleurs : Silence(vu[v].tick) => Silence(vu[v].tick)'
    BY <1>1, <1>4, SilenceDure DEF Avance, WInv, veille
  <1>7. Passages'
    BY <1>1, <1>4, <1>5, <1>6 DEF WInv, Passages, Avance, veille
  <1>8. Ouvreurs'
    BY <1>1 DEF WInv, Ouvreurs, Ouvertes, veille
  <1> QED BY <1>1, <1>2, <1>3, <1>7, <1>8 DEF WInv

LEMMA MinuteWInv ==
  ASSUME ~Deborde, WInv, Minute
  PROVE  WInv'
  <1>1. /\ BInv' /\ now' \in {now, now + 1} /\ dernierSucces' = dernierSucces /\ Repere' >= Repere
        /\ UNCHANGED <<fenetres, pas, vu, emises, pannes>> /\ pret' = [v \in Veilleurs |-> TRUE]
        /\ \A v \in Veilleurs : pas[v] = "repos"
    BY MinuteAvance DEF WInv, Minute, BInv
  <1>2. TypeVeille'
    BY <1>1 DEF WInv, TypeVeille, BInv, IInv
  <1>3. Episodes' /\ Suite'
    BY <1>1, <1>2, RangeeWInv
  <1>4. Passages' /\ Ouvreurs'
    BY <1>1 DEF Passages, Ouvreurs
  <1> QED BY <1>1, <1>2, <1>3, <1>4 DEF WInv

\* A pass reads the row: an episode it would open is later than all those it sees closed.
LEMMA LireWInv ==
  ASSUME WInv, NEW v \in Veilleurs, Lire(v), UNCHANGED <<now, bail>>
  PROVE  Episodes' /\ Suite' /\ Passages' /\ Ouvreurs'
  <1> DEFINE tick == expires_at[Tick]
  <1>0. BInv /\ TypeVeille
    BY DEF WInv
  <1>1. /\ pret[v] /\ fenetres' = fenetres /\ pret' = [pret EXCEPT ![v] = FALSE]
        /\ pas'[v] # "reprendre"
        /\ pas'[v] = "ouvrir" => Ouvertes = {} /\ vu'[v].tick = tick /\ tick <= now /\ tick + Seuil < now
        /\ pas'[v] = "fermer" => vu'[v].tick = tick /\ tick <= now /\ now <= tick + Seuil
    BY <1>0, LireEffet
  <1>2. \A w \in Veilleurs \ {v} : pas'[w] = pas[w] /\ vu'[w] = vu[w] /\ pret'[w] = pret[w]
    <2>1. PICK d \in Pas : pas' = [pas EXCEPT ![v] = d]
      BY <1>0, LireEffet
    <2>2. PICK e \in [tick : Nat, fenetre : Nat] : vu' = [vu EXCEPT ![v] = e]
      BY <1>0, LireEffet
    <2> QED BY <1>0, <1>1, <2>1, <2>2 DEF TypeVeille
  <1>3. Repere' = Repere /\ now' = now /\ \A s : Silence(s)' = Silence(s)
    BY <1>0, PasseBail
  <1>4. /\ tick \in Nat /\ now \in Nat /\ Seuil \in Nat /\ dernierSucces[Tick] <= Repere
        /\ tick <= now => Repere = tick
    BY <1>0, RepereType, SeuilType DEF Repere
  <1>5. Episodes' /\ Suite'
    BY <1>1, <1>3 DEF WInv, Episodes, Suite
  <1>6. ~pret'[v]
    BY <1>0, <1>1 DEF TypeVeille
  <1> HIDE DEF tick
  <1>7. pas'[v] = "ouvrir" => Silence(vu'[v].tick)
    BY <1>1, <1>4 DEF Silence
  <1>8. pas'[v] \in {"ouvrir", "fermer"} => vu'[v].tick <= Repere
    BY <1>1, <1>4
  <1>9. Passages'
    <2> SUFFICES ASSUME NEW w \in Veilleurs
                 PROVE  /\ pas'[w] # "repos" => ~pret'[w]
                        /\ pas'[w] = "ouvrir" => Silence(vu'[w].tick) /\ vu'[w].tick <= Repere
                        /\ pas'[w] = "fermer" => vu'[w].tick <= Repere /\ now <= vu'[w].tick + Seuil
      BY <1>3 DEF Passages
    <2>1. CASE w = v
      BY <1>1, <1>6, <1>7, <1>8, <2>1
    <2>2. CASE w # v
      BY <1>2, <2>2 DEF WInv, Passages
    <2> QED BY <2>1, <2>2
  <1>10. Ouvreurs'
    <2>0. Ouvertes' = Ouvertes
      BY <1>1 DEF Ouvertes
    <2> SUFFICES ASSUME NEW w \in Veilleurs, pas'[w] = "ouvrir"
                 PROVE  \/ \A i \in DOMAIN fenetres : fenetres[i].fin # 0 /\ fenetres[i].fin <= vu'[w].tick
                        \/ /\ Ouvertes # {}
                           /\ \A x \in Veilleurs \ {w} : ~pret'[x] /\ pas'[x] # "fermer"
      BY <1>1, <2>0 DEF Ouvreurs
    <2>1. CASE w = v
      <3>1. \A i \in DOMAIN fenetres : fenetres[i].fin # 0
        BY <1>1, <2>1 DEF Ouvertes
      <3>2. Repere = vu'[v].tick
        BY <1>1, <1>4, <2>1
      <3> QED BY <2>1, <3>1, <3>2 DEF WInv, Episodes
    <2>2. CASE w # v
      BY <1>1, <1>2, <2>2 DEF WInv, Ouvreurs
    <2> QED BY <2>1, <2>2
  <1> QED BY <1>5, <1>9, <1>10

\* A pass opens an episode, which is that of the silence it read.
LEMMA InsertionWInv ==
  ASSUME Deux, WInv, NEW v \in Veilleurs, pas[v] = "ouvrir", Ouvertes = {}, Insertion(v),
         pas' = [pas EXCEPT ![v] = "alerter"], pret' = pret, UNCHANGED <<now, bail>>
  PROVE  Episodes' /\ Suite' /\ Passages' /\ Ouvreurs'
  <1> DEFINE n == Len(fenetres) + 1
  <1>0. BInv /\ TypeVeille
    BY DEF WInv
  <1>1. /\ n \in Nat /\ DOMAIN fenetres = 1..(n - 1) /\ DOMAIN fenetres' = 1..n
        /\ \A i \in DOMAIN fenetres : fenetres'[i] = fenetres[i]
        /\ fenetres'[n] = [debut |-> vu[v].tick, fin |-> 0, alerte |-> FALSE]
        /\ \A i \in DOMAIN fenetres : fenetres[i] \in Fenetre
    BY <1>0, FenetresTypees, InsertionEffet
  <1>2. Repere' = Repere /\ now' = now /\ \A s : Silence(s)' = Silence(s)
    BY <1>0, PasseBail
  <1>3. \A w \in Veilleurs \ {v} : pas'[w] = pas[w] /\ vu'[w] = vu[w]
    BY <1>0 DEF TypeVeille, Insertion
  <1>4. pas'[v] = "alerter"
    BY <1>0 DEF TypeVeille
  <1>5. \A i \in DOMAIN fenetres : fenetres[i].fin # 0 /\ fenetres[i].fin <= vu[v].tick
    BY DEF WInv, Ouvreurs
  <1>6. Silence(vu[v].tick)
    BY DEF WInv, Passages
  <1> HIDE DEF n
  <1>7. /\ fenetres'[n].debut = vu[v].tick /\ fenetres'[n].fin = 0
        /\ n \in DOMAIN fenetres' /\ \A i \in DOMAIN fenetres' : i = n \/ i \in DOMAIN fenetres
        /\ \A i \in DOMAIN fenetres : i < n
    <2>1. fenetres'[n].debut = vu[v].tick /\ fenetres'[n].fin = 0
      BY <1>1
    <2>2. 1 <= n
      BY <1>0, FenetresTypees DEF n
    <2> QED BY <1>1, <2>1, <2>2
  <1>8. Episodes'
    BY <1>1, <1>2, <1>6, <1>7 DEF WInv, Episodes
  <1>9. Suite'
    <2> SUFFICES ASSUME NEW i \in DOMAIN fenetres', NEW j \in DOMAIN fenetres', i < j
                 PROVE  fenetres'[i].fin # 0 /\ fenetres'[i].fin <= fenetres'[j].debut
      BY DEF Suite
    <2>1. i \in DOMAIN fenetres
      BY <1>1
    <2>2. CASE j = n
      BY <1>1, <1>5, <1>7, <2>1, <2>2
    <2>3. CASE j # n
      BY <1>1, <1>7, <2>1, <2>3 DEF WInv, Suite
    <2> QED BY <2>2, <2>3
  <1>10. Passages'
    <2> SUFFICES ASSUME NEW w \in Veilleurs
                 PROVE  /\ pas'[w] # "repos" => ~pret[w]
                        /\ pas'[w] = "ouvrir" => Silence(vu'[w].tick) /\ vu'[w].tick <= Repere
                        /\ pas'[w] = "fermer" => vu'[w].tick <= Repere /\ now <= vu'[w].tick + Seuil
      BY <1>2 DEF Passages
    <2>1. CASE w = v
      BY <1>4, <2>1 DEF WInv, Passages
    <2>2. CASE w # v
      BY <1>3, <2>2 DEF WInv, Passages
    <2> QED BY <2>1, <2>2
  <1>11. Ouvreurs'
    <2>1. n \in Ouvertes'
      BY <1>7 DEF Ouvertes
    <2>2. ~pret[v]
      BY DEF WInv, Passages
    <2> SUFFICES ASSUME NEW w \in Veilleurs, pas'[w] = "ouvrir", NEW x \in Veilleurs \ {w}
                 PROVE  ~pret'[x] /\ pas'[x] # "fermer"
      BY <2>1 DEF Ouvreurs
    <2>3. x = v
      BY <1>4 DEF Deux
    <2> QED BY <1>4, <2>2, <2>3
  <1> QED BY <1>8, <1>9, <1>10, <1>11

\* A pass that goes on, or ends, without touching the dates of the episodes.
LEMMA SuitePasse ==
  ASSUME WInv, NEW v \in Veilleurs, pas[v] # "repos" \/ pas'[v] = "repos", UNCHANGED <<now, bail>>,
         NEW p \in {"repos", "reprendre", "alerter"}, pas' = [pas EXCEPT ![v] = p],
         \A w \in Veilleurs \ {v} : vu'[w] = vu[w],
         pret' \in {pret, [pret EXCEPT ![v] = FALSE]},
         DOMAIN fenetres' = DOMAIN fenetres,
         \A i \in DOMAIN fenetres : fenetres'[i].debut = fenetres[i].debut /\ fenetres'[i].fin = fenetres[i].fin
  PROVE  Episodes' /\ Suite' /\ Passages' /\ Ouvreurs'
  <1>0. BInv /\ TypeVeille
    BY DEF WInv
  <1>1. Repere' = Repere /\ now' = now /\ \A s : Silence(s)' = Silence(s)
    BY <1>0, PasseBail
  <1>2. pas'[v] = p /\ \A w \in Veilleurs \ {v} : pas'[w] = pas[w]
    BY <1>0 DEF TypeVeille
  <1>3. \A w \in Veilleurs : pret'[w] => pret[w]
    BY <1>0 DEF TypeVeille
  <1>4. Episodes' /\ Suite'
    BY <1>1 DEF WInv, Episodes, Suite
  <1>5. Passages'
    <2> SUFFICES ASSUME NEW w \in Veilleurs
                 PROVE  /\ pas'[w] # "repos" => ~pret'[w]
                        /\ pas'[w] = "ouvrir" => Silence(vu'[w].tick) /\ vu'[w].tick <= Repere
                        /\ pas'[w] = "fermer" => vu'[w].tick <= Repere /\ now <= vu'[w].tick + Seuil
      BY <1>1 DEF Passages
    <2>1. CASE w = v
      BY <1>2, <1>3, <2>1 DEF WInv, Passages
    <2>2. CASE w # v
      BY <1>2, <1>3, <2>2 DEF WInv, Passages
    <2> QED BY <2>1, <2>2
  <1>6. Ouvreurs'
    <2>1. Ouvertes' = Ouvertes
      BY DEF Ouvertes
    <2> SUFFICES ASSUME NEW w \in Veilleurs, pas'[w] = "ouvrir"
                 PROVE  \/ \A i \in DOMAIN fenetres : fenetres[i].fin # 0 /\ fenetres[i].fin <= vu[w].tick
                        \/ /\ Ouvertes # {}
                           /\ \A x \in Veilleurs \ {w} : ~pret'[x] /\ pas'[x] # "fermer"
      <3>1. \A w \in Veilleurs : pas'[w] = "ouvrir" => vu'[w] = vu[w]
        BY <1>2
      <3> QED BY <2>1, <3>1 DEF Ouvreurs
    <2>2. w # v /\ pas[w] = "ouvrir"
      BY <1>2
    <2> QED BY <1>2, <1>3, <2>2 DEF WInv, Ouvreurs
  <1> QED BY <1>4, <1>5, <1>6

\* A pass closes the episode it read, with a heartbeat later than the silence.
LEMMA FermerWInv ==
  ASSUME WInv, NEW v \in Veilleurs, Fermer(v), UNCHANGED <<now, bail>>
  PROVE  Episodes' /\ Suite' /\ Passages' /\ Ouvreurs'
  <1> DEFINE f == vu[v].fenetre
             t == vu[v].tick
  <1>0. BInv /\ TypeVeille
    BY DEF WInv
  <1>1. /\ pas[v] = "fermer" /\ f \in DOMAIN fenetres /\ t \in Nat /\ fenetres' = Clore(f, t)
        /\ pas' = [pas EXCEPT ![v] = "repos"] /\ vu' = [vu EXCEPT ![v] = Aucune] /\ pret' = pret
    BY <1>0 DEF Fermer, Aller, TypeVeille
  <1>2. t <= Repere /\ now <= t + Seuil
    BY <1>1 DEF WInv, Passages
  <1> HIDE DEF f, t
  <1>3. /\ DOMAIN fenetres' = DOMAIN fenetres
        /\ \A i \in DOMAIN fenetres : fenetres'[i].debut = fenetres[i].debut
        /\ \A i \in DOMAIN fenetres : i # f \/ fenetres[i].fin # 0 => fenetres'[i] = fenetres[i]
        /\ fenetres[f].fin = 0 => fenetres'[f].fin = IF t > fenetres[f].debut THEN t ELSE fenetres[f].debut + 1
    BY <1>0, <1>1, CloreEffet
  <1>4. Repere' = Repere /\ now' = now /\ \A s : Silence(s)' = Silence(s)
    BY <1>0, PasseBail
  <1>5. /\ \A i \in DOMAIN fenetres : fenetres[i].debut \in Nat /\ fenetres[i].fin \in Nat
        /\ DOMAIN fenetres \subseteq Nat /\ now \in Nat /\ Seuil \in Nat /\ Repere \in Nat
    BY <1>0, FenetresTypees, RepereType, SeuilType DEF Fenetre
  <1>6. t > fenetres[f].debut
    <2>1. fenetres[f].debut + Seuil < now
      BY <1>1 DEF WInv, Episodes, Silence
    <2> QED BY <1>1, <1>2, <1>5, <2>1
  <1>7. \A i \in DOMAIN fenetres :
          fenetres[i].fin = 0 /\ fenetres'[i].fin # 0 => i = f /\ fenetres'[i].fin = t
    BY <1>3, <1>6
  <1>8. Episodes'
    <2> SUFFICES ASSUME NEW i \in DOMAIN fenetres
                 PROVE  /\ Silence(fenetres[i].debut)
                        /\ fenetres'[i].fin # 0 => fenetres[i].debut < fenetres'[i].fin /\ fenetres'[i].fin <= Repere
      BY <1>3, <1>4 DEF Episodes
    <2>1. CASE fenetres[i].fin = 0
      BY <1>2, <1>6, <1>7, <2>1 DEF WInv, Episodes
    <2>2. CASE fenetres[i].fin # 0
      BY <1>3, <2>2 DEF WInv, Episodes
    <2> QED BY <2>1, <2>2
  <1>9. Suite'
    BY <1>3 DEF WInv, Suite
  <1>10. pas'[v] = "repos" /\ \A w \in Veilleurs \ {v} : pas'[w] = pas[w] /\ vu'[w] = vu[w]
    BY <1>0, <1>1 DEF TypeVeille
  <1>11. Passages'
    <2> SUFFICES ASSUME NEW w \in Veilleurs
                 PROVE  /\ pas'[w] # "repos" => ~pret[w]
                        /\ pas'[w] = "ouvrir" => Silence(vu'[w].tick) /\ vu'[w].tick <= Repere
                        /\ pas'[w] = "fermer" => vu'[w].tick <= Repere /\ now <= vu'[w].tick + Seuil
      BY <1>1, <1>4 DEF Passages
    <2>1. CASE w = v
      BY <1>10, <2>1
    <2>2. CASE w # v
      BY <1>10, <2>2 DEF WInv, Passages
    <2> QED BY <2>1, <2>2
  <1>12. Ouvreurs'
    <2> SUFFICES ASSUME NEW w \in Veilleurs, pas'[w] = "ouvrir"
                 PROVE  \A i \in DOMAIN fenetres : fenetres'[i].fin # 0 /\ fenetres'[i].fin <= vu'[w].tick
      BY <1>3 DEF Ouvreurs
    <2>1. w # v /\ pas[w] = "ouvrir" /\ vu'[w] = vu[w]
      BY <1>10
    <2>2. \A i \in DOMAIN fenetres : fenetres[i].fin # 0 /\ fenetres[i].fin <= vu[w].tick
      BY <1>1, <2>1 DEF WInv, Ouvreurs
    <2> QED BY <1>3, <2>1, <2>2
  <1> QED BY <1>8, <1>9, <1>11, <1>12

LEMMA VeilleurWInv ==
  ASSUME Deux, WInv, NEW v \in Veilleurs, Passer(v) \/ Rater(v), UNCHANGED <<now, bail>>
  PROVE  WInv'
  <1>0. BInv /\ TypeVeille
    BY DEF WInv
  <1>1. TypeVeille' /\ BInv'
    BY <1>0, VeilleurType, PasseBail
  <1>2. Episodes' /\ Suite' /\ Passages' /\ Ouvreurs'
    <2>1. CASE Lire(v)
      BY <2>1, LireWInv
    <2>2. CASE Ouvrir(v)
      <3>1. pas[v] = "ouvrir" /\ pret' = pret
        BY <2>2 DEF Ouvrir
      <3>2. CASE Ouvertes = {} /\ Insertion(v) /\ pas' = [pas EXCEPT ![v] = "alerter"]
        BY <3>1, <3>2, InsertionWInv
      <3>3. CASE pas' = [pas EXCEPT ![v] = "reprendre"] /\ UNCHANGED <<fenetres, vu>>
        BY <3>1, <3>3, SuitePasse
      <3> QED BY <2>2, <3>2, <3>3 DEF Ouvrir, Aller
    <2>3. CASE Reprendre(v)
      <3>1. pas[v] = "reprendre" /\ UNCHANGED <<fenetres, pret>>
        BY <2>3 DEF Reprendre
      <3>2. \E p \in {"repos", "alerter"} : pas' = [pas EXCEPT ![v] = p]
        BY <2>3 DEF Reprendre, Aller
      <3>3. \A w \in Veilleurs \ {v} : vu'[w] = vu[w]
        BY <1>0, <2>3 DEF Reprendre, TypeVeille
      <3> QED BY <3>1, <3>2, <3>3, SuitePasse
    <2>4. CASE Alerter(v)
      <3>1. /\ pas[v] = "alerter" /\ vu[v].fenetre \in DOMAIN fenetres /\ sonde_alerter(vu[v].fenetre)
            /\ pas' = [pas EXCEPT ![v] = "repos"] /\ pret' = pret
        BY <1>0, <2>4 DEF Alerter, Aller, TypeVeille
      <3>2. \A w \in Veilleurs \ {v} : vu'[w] = vu[w]
        BY <1>0, <2>4 DEF Alerter, TypeVeille
      <3>3. /\ DOMAIN fenetres' = DOMAIN fenetres
            /\ \A i \in DOMAIN fenetres : fenetres'[i].debut = fenetres[i].debut /\ fenetres'[i].fin = fenetres[i].fin
        BY <1>0, <3>1, AlerteEffet
      <3> QED BY <3>1, <3>2, <3>3, SuitePasse
    <2>5. CASE Fermer(v)
      BY <2>5, FermerWInv
    <2>6. CASE Rater(v)
      <3>1. /\ pas' = [pas EXCEPT ![v] = "repos"] /\ fenetres' = fenetres
            /\ pret' \in {pret, [pret EXCEPT ![v] = FALSE]}
        BY <2>6 DEF Rater, Aller
      <3>2. \A w \in Veilleurs \ {v} : vu'[w] = vu[w]
        BY <1>0, <2>6 DEF Rater, TypeVeille
      <3>3. pas'[v] = "repos"
        BY <1>0, <3>1 DEF TypeVeille
      <3> QED BY <3>1, <3>2, <3>3, SuitePasse
    <2> QED BY <2>1, <2>2, <2>3, <2>4, <2>5, <2>6 DEF Passer
  <1> QED BY <1>1, <1>2 DEF WInv

-----------------------------------------------------------------------------
(* What the watch keeps. *)

LEMMA InitTypes == InitVeille => IInv /\ TypeVeille
  <1> SUFFICES ASSUME InitVeille PROVE IInv /\ TypeVeille
    OBVIOUS
  <1>1. IInv
    BY InitIInv DEF InitVeille
  <1>2. fenetres \in Seq([debut : Nat, fin : Nat, alerte : BOOLEAN])
    BY EmptySeq DEF InitVeille
  <1>3. TypeVeille
    BY <1>1, <1>2, AucuneType DEF InitVeille, IInv, TypeVeille, Pas
  <1> QED BY <1>1, <1>3

LEMMA NextTypes == IInv /\ TypeVeille /\ [NextVeille]_varsVeille => IInv' /\ TypeVeille'
  <1> SUFFICES ASSUME IInv, TypeVeille, [NextVeille]_varsVeille PROVE IInv' /\ TypeVeille'
    OBVIOUS
  <1>1. CASE Ordonnanceur
    <2>1. Next /\ UNCHANGED veille
      BY <1>1 DEF Ordonnanceur, Next
    <2>2. IInv'
      BY <2>1, NextIInv
    <2> QED BY <2>1, <2>2 DEF TypeVeille, veille, IInv
  <1>2. CASE Minute
    <2>1. (Horloge \/ UNCHANGED vars) /\ UNCHANGED <<fenetres, pas, vu, emises, pannes>> /\ pret' = [v \in Veilleurs |-> TRUE]
      BY <1>2 DEF Minute, bail, vars
    <2>2. IInv'
      BY <2>1, NextIInv DEF Next
    <2> QED BY <2>1, <2>2 DEF TypeVeille, IInv
  <1>3. ASSUME NEW v \in Veilleurs, Passer(v) \/ Rater(v), UNCHANGED <<now, bail>>
        PROVE  IInv' /\ TypeVeille'
    <2>1. UNCHANGED vars
      BY <1>3 DEF bail, vars
    <2> QED BY <1>3, <2>1, NextIInv, VeilleurType
  <1>4. CASE UNCHANGED varsVeille
    <2>1. UNCHANGED vars
      BY <1>4 DEF varsVeille, bail, vars
    <2>2. IInv'
      BY <2>1, NextIInv
    <2> QED BY <1>4, <2>2 DEF TypeVeille, IInv, varsVeille, veille
  <1> QED BY <1>1, <1>2, <1>3, <1>4 DEF NextVeille

\* The rows, the episodes and the passes of the notifiers are well formed, and a
\* statement that alerts or closes names an episode that exists (veiller), for
\* any number of notifiers and any failure.
THEOREM TypeCorrect == SpecVeille => []TypeVeille
  BY InitTypes, NextTypes, PTL DEF SpecVeille

LEMMA InitWInv == InitVeille => WInv
  <1> SUFFICES ASSUME InitVeille PROVE WInv
    OBVIOUS
  <1>1. ALHeure
    BY DEF InitVeille, Init, ALHeure, Actifs
  <1>2. DOMAIN fenetres = {}
    BY DEF InitVeille
  <1> QED
    BY <1>1, <1>2, InitTypes DEF InitVeille, WInv, BInv, Episodes, Suite, Passages, Ouvreurs

LEMMA NextWInv ==
  ASSUME ~Deborde, Deux, WInv, [NextVeille]_varsVeille
  PROVE  WInv'
  <1>1. ASSUME NEW v \in Veilleurs, Passer(v) \/ Rater(v), UNCHANGED <<now, bail>>
        PROVE  WInv'
    BY <1>1, VeilleurWInv
  <1>2. CASE UNCHANGED varsVeille
    <2>1. BInv' /\ Repere' = Repere /\ \A s : Silence(s)' = Silence(s)
      BY <1>2, PasseBail DEF varsVeille, WInv
    <2>2. TypeVeille'
      BY <1>2, <2>1 DEF WInv, TypeVeille, BInv, IInv, varsVeille, veille
    <2>3. Episodes' /\ Suite' /\ Passages' /\ Ouvreurs'
      BY <1>2, <2>1 DEF WInv, Episodes, Suite, Passages, Ouvreurs, Ouvertes, varsVeille, veille
    <2> QED BY <2>1, <2>2, <2>3 DEF WInv
  <1> QED BY <1>1, <1>2, OrdonnanceurWInv, MinuteWInv DEF NextVeille

\* Episodes follow one another (SQL_OUVRIR and SQL_FERMER of
\* veille-ordonnanceur.mjs, each run outside a transaction on what another
\* statement read), for any failures of the scheduler and of the passes: none
\* starts before the one before it has ended.
THEOREM EpisodesDisjoint ==
  ASSUME ~Deborde, Deux
  PROVE  SpecVeille => []FenetresDisjointes
  <1>1. WInv => FenetresDisjointes
    <2> SUFFICES ASSUME WInv, NEW i \in DOMAIN fenetres, i < Len(fenetres)
                 PROVE  fenetres[i].fin # 0 /\ fenetres[i].fin <= fenetres[i + 1].debut
      BY DEF FenetresDisjointes
    <2>1. i + 1 \in DOMAIN fenetres /\ i < i + 1
      BY FenetresTypees DEF WInv
    <2> QED BY <2>1 DEF WInv, Suite
  <1>2. WInv /\ [NextVeille]_varsVeille => WInv'
    BY NextWInv
  <1> QED BY <1>1, <1>2, InitWInv, PTL DEF SpecVeille

-----------------------------------------------------------------------------
(* WatchPromise *)

Dites == {fenetres[i].debut : i \in Alertees}

\* What tells nothing leaves what was told.
LEMMA DitesTelles ==
  ASSUME DOMAIN fenetres' = DOMAIN fenetres,
         \A i \in DOMAIN fenetres : fenetres'[i].debut = fenetres[i].debut /\ fenetres'[i].alerte = fenetres[i].alerte
  PROVE  Dites' = Dites
  BY DEF Dites, Alertees

\* An alert is that of a silence, told for the first time.
LEMMA AlerterDit ==
  ASSUME WInv, NEW v \in Veilleurs, Alerter(v), UNCHANGED <<now, bail>>
  PROVE  \/ UNCHANGED <<Dites, emises>>
         \/ \E s \in 0..now : s \notin Dites /\ Silence(s) /\ Dites' = Dites \cup {s} /\ emises' = emises + 1
  <1> DEFINE f == vu[v].fenetre
             s == fenetres[f].debut
  <1>0. BInv /\ TypeVeille
    BY DEF WInv
  <1>1. f \in DOMAIN fenetres /\ sonde_alerter(f)
    BY <1>0 DEF Alerter, TypeVeille
  <1> HIDE DEF f
  <1>2. CASE fenetres[f].alerte
    BY <1>1, <1>2 DEF sonde_alerter, Dites, Alertees
  <1>3. CASE ~fenetres[f].alerte
    <2>1. emises' = emises + 1
      BY <1>1, <1>3 DEF sonde_alerter
    <2>2. /\ DOMAIN fenetres' = DOMAIN fenetres
          /\ \A i \in DOMAIN fenetres : fenetres'[i].debut = fenetres[i].debut /\ fenetres'[i].fin = fenetres[i].fin
          /\ \A i \in DOMAIN fenetres : i # f => fenetres'[i] = fenetres[i]
          /\ fenetres'[f].alerte
      BY <1>0, <1>1, AlerteEffet
    <2>3. Alertees' = Alertees \cup {f}
      BY <1>1, <2>2 DEF Alertees
    <2>4. Dites' = Dites \cup {s}
      BY <1>1, <2>2, <2>3 DEF Dites, Alertees
    <2>5. \A i \in DOMAIN fenetres : fenetres[i].debut \in Nat /\ fenetres[i].fin \in Nat /\ i \in Nat
      BY <1>0, FenetresTypees DEF Fenetre
    <2>6. Silence(s)
      BY <1>1 DEF WInv, Episodes
    <2>7. s \notin Dites
      <3> SUFFICES ASSUME NEW i \in Alertees, fenetres[i].debut = s PROVE FALSE
        BY DEF Dites
      <3>1. i \in DOMAIN fenetres /\ i # f
        BY <1>3 DEF Alertees
      <3>2. CASE i < f
        BY <1>1, <2>5, <3>1, <3>2 DEF WInv, Suite, Episodes
      <3>3. CASE f < i
        BY <1>1, <2>5, <3>1, <3>3 DEF WInv, Suite, Episodes
      <3> QED BY <1>1, <2>5, <3>1, <3>2, <3>3
    <2>8. s \in 0..now
      <3>1. s + Seuil < now
        BY <2>6 DEF Silence
      <3> QED BY <1>0, <1>1, <2>5, <3>1, RepereType, SeuilType
    <2> QED BY <2>1, <2>4, <2>6, <2>7, <2>8
  <1> QED BY <1>2, <1>3

\* A step of the notifiers that does not alert tells nothing.
LEMMA MuetDit ==
  ASSUME WInv, NEW v \in Veilleurs, Lire(v) \/ Ouvrir(v) \/ Reprendre(v) \/ Fermer(v) \/ Rater(v)
  PROVE  UNCHANGED <<Dites, emises>>
  <1>0. TypeVeille
    BY DEF WInv
  <1>1. emises' = emises
    BY DEF Lire, Ouvrir, Reprendre, Fermer, Rater
  <1>2. CASE UNCHANGED fenetres
    BY <1>1, <1>2, DitesTelles
  <1>3. CASE Insertion(v)
    <2>0. /\ DOMAIN fenetres' = 1..(Len(fenetres) + 1)
          /\ \A i \in DOMAIN fenetres : fenetres'[i] = fenetres[i]
          /\ fenetres'[Len(fenetres) + 1] = [debut |-> vu[v].tick, fin |-> 0, alerte |-> FALSE]
      BY <1>0, <1>3, InsertionEffet
    <2>1. /\ DOMAIN fenetres' = 1..(Len(fenetres) + 1)
          /\ \A i \in DOMAIN fenetres : fenetres'[i] = fenetres[i]
          /\ ~fenetres'[Len(fenetres) + 1].alerte
      BY <2>0
    <2>2. \A i \in DOMAIN fenetres' : i = Len(fenetres) + 1 \/ i \in DOMAIN fenetres
      BY <1>0, <2>1, FenetresTypees
    <2>3. DOMAIN fenetres \subseteq DOMAIN fenetres'
      BY <1>0, <2>1, FenetresTypees
    <2>4. Alertees' = Alertees
      BY <2>1, <2>2, <2>3 DEF Alertees
    <2>5. \A i \in Alertees : fenetres'[i] = fenetres[i]
      BY <2>1 DEF Alertees
    <2> QED BY <1>1, <2>4, <2>5 DEF Dites
  <1>4. CASE Fermer(v)
    <2>1. vu[v].fenetre \in DOMAIN fenetres /\ vu[v].tick \in Nat /\ fenetres' = Clore(vu[v].fenetre, vu[v].tick)
      BY <1>0, <1>4 DEF Fermer, TypeVeille
    <2>2. /\ DOMAIN fenetres' = DOMAIN fenetres
          /\ \A i \in DOMAIN fenetres : fenetres'[i].debut = fenetres[i].debut /\ fenetres'[i].alerte = fenetres[i].alerte
      BY <1>0, <2>1, CloreEffet
    <2> QED BY <1>1, <2>2, DitesTelles
  <1> QED BY <1>2, <1>3, <1>4 DEF Lire, Ouvrir, Reprendre, Rater

LEMMA PasPromis ==
  ASSUME ~Deborde, WInv, [NextVeille]_varsVeille
  PROVE  [Promesse!Next]_(Promesse!vars)
  <1> USE DEF Promesse!Next, Promesse!vars, Promesse!Monde, Promesse!Dire, Promesse!Vrai
  <1>1. CASE Ordonnanceur
    <2>1. Avance /\ UNCHANGED <<fenetres, emises>>
      BY <1>1, OrdonnanceurAvance DEF WInv, Ordonnanceur, veille
    <2> QED BY <2>1 DEF Avance, Alertees
  <1>2. CASE Minute
    <2>1. now' \in {now, now + 1} /\ dernierSucces' = dernierSucces /\ UNCHANGED <<fenetres, emises>>
      BY <1>2, MinuteAvance DEF WInv, Minute
    <2> QED BY <2>1 DEF Alertees
  <1>3. ASSUME NEW v \in Veilleurs, Passer(v) \/ Rater(v), UNCHANGED <<now, bail>>
        PROVE  [Promesse!Next]_(Promesse!vars)
    <2>1. now' = now /\ dernierSucces' = dernierSucces
      BY <1>3 DEF bail
    <2>2. CASE Alerter(v)
      BY <1>3, <2>1, <2>2, AlerterDit DEF Dites, Silence
    <2>3. CASE ~Alerter(v)
      BY <1>3, <2>1, <2>3, MuetDit DEF Passer, Dites
    <2> QED BY <2>2, <2>3
  <1>4. CASE UNCHANGED varsVeille
    BY <1>4 DEF varsVeille, bail, veille, Alertees
  <1> QED BY <1>1, <1>2, <1>3, <1>4 DEF NextVeille

\* « UN ÉPISODE = UNE FENÊTRE = UNE ALERTE » (veille-ordonnanceur.mjs): the watch
\* implements WatchPromise.  Whatever the scheduler and the passes do between
\* two statements, an alert is about a silence that took place and was not told.
THEOREM OneAlertPerSilence ==
  ASSUME ~Deborde, Deux
  PROVE  SpecVeille => UneAlerteParSilence
  <1>1. InitVeille => Promesse!Init
    BY DEF InitVeille, Init, Promesse!Init, Alertees
  <1>2. WInv /\ [NextVeille]_varsVeille => WInv'
    BY NextWInv
  <1>3. WInv /\ [NextVeille]_varsVeille => [Promesse!Next]_(Promesse!vars)
    BY PasPromis
  <1> QED BY <1>1, <1>2, <1>3, InitWInv, PTL DEF SpecVeille, UneAlerteParSilence, Promesse!Spec
===============================================================================
