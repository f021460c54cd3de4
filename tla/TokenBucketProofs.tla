------------------------- MODULE TokenBucketProofs -------------------------
(***************************************************************************)
(* Proofs about the limiter, for every rate, unit, burst and set of        *)
(* callers.  BucketInv is inductive; the properties TLC checks follow.     *)
(***************************************************************************)
EXTENDS TokenBucket, FiniteSetTheorems, TLAPS

(* Arithmetic.                                                               *)

LEMMA DivBounds ==
  ASSUME NEW a \in Nat, NEW b \in Nat \ {0}
  PROVE  /\ a \div b \in Nat
         /\ b * (a \div b) <= a
         /\ a < b * (a \div b) + b
  OBVIOUS

LEMMA TimesMonotone ==
  ASSUME NEW a \in Int, NEW b \in Int, NEW c \in Nat, a <= b
  PROVE  /\ c * a \in Int /\ c * b \in Int
         /\ c * a <= c * b
  OBVIOUS

-----------------------------------------------------------------------------
(* The set of callers asleep.                                                *)

\* Waking a caller takes it out of Waiting, and out of DueBy and DueAfter; after the
\* cancellation it has left.
LEMMA WakingShrinks ==
  ASSUME BucketTypeOK, NEW r \in Waiting, due' = [due EXCEPT ![r] = Back]
  PROVE  /\ Waiting' = Waiting \ {r}
         /\ Left' = IF cancelled THEN Left \cup {r} ELSE Left
         /\ \A q \in Waiting' : due'[q] = due[q]
         /\ \A t \in Nat : /\ DueBy(t)' = DueBy(t) \ {r}
                           /\ DueAfter(t)' = DueAfter(t) \ {r}
  BY DEF BucketTypeOK, Waiting, Left, Back, Idle, Gone, DueBy, DueAfter

\* A caller that takes a token or leaves does not enter it.
LEMMA TakingKeeps ==
  ASSUME BucketTypeOK, NEW r \in Callers, due[r] = Idle,
         due' = [due EXCEPT ![r] = Back]
  PROVE  /\ Waiting' = Waiting
         /\ Left' = IF cancelled THEN Left \cup {r} ELSE Left
         /\ \A q \in Waiting : due'[q] = due[q]
         /\ \A t \in Nat : DueBy(t)' = DueBy(t) /\ DueAfter(t)' = DueAfter(t)
  BY DEF BucketTypeOK, Waiting, Left, Back, Idle, Gone, DueBy, DueAfter

\* A reservation adds its caller, to DueBy or to DueAfter.
LEMMA ReservingGrows ==
  ASSUME BucketTypeOK, NEW r \in Callers, due[r] = Idle, NEW d \in Nat,
         due' = [due EXCEPT ![r] = d]
  PROVE  /\ r \notin Waiting /\ Waiting' = Waiting \cup {r}
         /\ Left' = Left
         /\ due'[r] = d
         /\ \A q \in Waiting : due'[q] = due[q]
         /\ \A t \in Nat :
              /\ r \notin DueBy(t) /\ r \notin DueAfter(t)
              /\ DueBy(t)' = IF d <= t THEN DueBy(t) \cup {r} ELSE DueBy(t)
              /\ DueAfter(t)' = IF d <= t THEN DueAfter(t) ELSE DueAfter(t) \cup {r}
              /\ r \notin Owing(t)
              /\ Owing(t)' = IF d <= t THEN Owing(t) ELSE Owing(t) \cup {r}
  <1>1. r \notin Waiting /\ Waiting' = Waiting \cup {r} /\ due'[r] = d
    BY DEF BucketTypeOK, Waiting, Idle
  <1>2. \A q \in Waiting : due'[q] = due[q]
    BY <1>1 DEF BucketTypeOK, Waiting, Idle
  <1>3. ASSUME NEW t \in Nat
        PROVE  /\ r \notin DueBy(t) /\ r \notin DueAfter(t)
               /\ DueBy(t)' = IF d <= t THEN DueBy(t) \cup {r} ELSE DueBy(t)
               /\ DueAfter(t)' = IF d <= t THEN DueAfter(t) ELSE DueAfter(t) \cup {r}
    <2>1. r \notin DueBy(t) /\ r \notin DueAfter(t)
      BY <1>1 DEF DueBy, DueAfter
    <2>2. \A q \in Waiting \cup {r} : due'[q] \in Nat
      BY <1>1, <1>2 DEF BucketTypeOK, Waiting, Idle, Gone
    <2>3. QED BY <1>1, <1>2, <2>1, <2>2 DEF DueBy, DueAfter
  <1>4. Left' = Left /\ r \notin Left
    BY DEF BucketTypeOK, Left, Idle, Gone
  <1>5. QED BY <1>1, <1>2, <1>3, <1>4 DEF Owing

\* DueBy is a part of Waiting, and Owing of Waiting and Left, so they are finite.
LEMMA PartsFinite ==
  ASSUME IsFiniteSet(Waiting), IsFiniteSet(Left), NEW t \in Nat
  PROVE  /\ IsFiniteSet(DueBy(t)) /\ IsFiniteSet(Owing(t))
         /\ Cardinality(Waiting) \in Nat
         /\ Cardinality(DueBy(t)) \in Nat /\ Cardinality(Owing(t)) \in Nat
         /\ Cardinality(DueBy(t)) <= Cardinality(Waiting)
         /\ Cardinality(Waiting \cup Left) \in Nat
         /\ Cardinality(Owing(t)) <= Cardinality(Waiting \cup Left)
  <1>1. DueBy(t) \in SUBSET Waiting /\ Owing(t) \in SUBSET (Waiting \cup Left)
    BY DEF DueBy, DueAfter, Owing
  <1>2. IsFiniteSet(Waiting \cup Left)
    BY FS_Union
  <1>3. QED BY <1>1, <1>2, FS_Subset, FS_CardinalityType

\* A caller that leaves owes what it owed, so what is owed does not shrink.
LEMMA OwingKept ==
  ASSUME IsFiniteSet(Waiting), IsFiniteSet(Left), NEW t \in Nat, NEW r,
         r \notin DueAfter(t) \/ cancelled,
         DueAfter(t)' = DueAfter(t) \ {r},
         Left' = IF cancelled THEN Left \cup {r} ELSE Left
  PROVE  /\ IsFiniteSet(Left') /\ Cardinality(Owing(t)') \in Nat
         /\ Cardinality(Owing(t)) \in Nat
         /\ Cardinality(Owing(t)) <= Cardinality(Owing(t)')
  <1>1. IsFiniteSet(Left') /\ IsFiniteSet(Owing(t) \cup {r}) /\ IsFiniteSet(Owing(t))
    BY PartsFinite, FS_AddElement
  <1>2. Owing(t)' = Owing(t) \/ Owing(t)' = Owing(t) \cup {r}
    BY DEF Owing
  <1>3. Owing(t) \in SUBSET Owing(t)' /\ IsFiniteSet(Owing(t)')
    BY <1>1, <1>2
  <1>4. QED BY <1>1, <1>3, FS_Subset, FS_CardinalityType

-----------------------------------------------------------------------------
(* The balance.                                                              *)

\* A refill gives back what has accrued, or less: it never makes up for a token.
\* Below a token's worth the cap has not been reached, and nothing is lost.
LEMMA RefillSpends ==
  ASSUME BucketTypeOK
  PROVE  /\ Refilled \in Int /\ Refilled <= Burst /\ Spent \in Int
         /\ Rate * now \in Nat
         /\ Spent <= Rate * now - Refilled
         /\ Refilled < Unit => Spent = Rate * now - Refilled
  <1> USE BucketAssumption DEF BucketTypeOK
  <1>1. /\ (now - lastRefill) * Rate \in Nat
        /\ (now - lastRefill) * Rate = Rate * now - Rate * lastRefill
        /\ Rate * now \in Nat /\ Rate * lastRefill \in Nat
    OBVIOUS
  <1>2. QED BY <1>1 DEF Refilled, Spent

LEMMA InitBucket == Init => BucketInv
  <1> SUFFICES ASSUME Init PROVE BucketInv
    OBVIOUS
  <1> USE BucketAssumption
  <1>1. /\ Waiting = {} /\ Left = {}
        /\ \A t \in Nat : DueBy(t) = {} /\ Owing(t) = {}
    BY DEF Init, Waiting, Left, Idle, Gone, DueBy, DueAfter, Owing
  <1>2. Cardinality({}) = 0 /\ IsFiniteSet({})
    BY FS_EmptySet
  <1>3. BucketTypeOK
    <2>1. due \in [Callers -> Nat \cup {Idle, Gone}] /\ cancelled \in BOOLEAN
      BY DEF Init
    <2>2. now = 0 /\ tokens = 0 /\ lastRefill = 0 /\ granted = 0
      BY DEF Init
    <2>3. QED BY <2>1, <2>2 DEF BucketTypeOK
  <1>4. TimersApart
    BY <1>1 DEF TimersApart
  <1>5. Spent = 0
    BY DEF Init, Spent
  <1>6. \A t \in now .. MaxTime : t \in Nat /\ Rate * (t + 1) > 0
    BY DEF Init
  <1>7. (granted + Cardinality(Waiting)) * Unit <= Spent
    BY <1>1, <1>2, <1>5 DEF Init
  <1>8. ASSUME NEW t \in now .. MaxTime
        PROVE  /\ (granted + Cardinality(DueBy(t))) * Unit < Rate * (t + 1)
               /\ Spent < Rate * (t + 1) + Cardinality(Owing(t)) * Unit
    <2>1. Cardinality(DueBy(t)) = 0 /\ Cardinality(Owing(t)) = 0
      BY <1>1, <1>2, <1>6
    <2>2. granted = 0 /\ Rate * (t + 1) \in Nat
      BY <1>6 DEF Init
    <2>3. QED BY <2>1, <2>2, <1>5, <1>6
  <1>9. now <= MaxTime
    BY DEF Init
  <1>10. QED
    BY <1>1, <1>2, <1>3, <1>4, <1>7, <1>8, <1>9 DEF BucketInv

-----------------------------------------------------------------------------
(* The steps.                                                                *)

LEMMA TakeKeepsInv ==
  ASSUME BucketInv, NEW r \in Callers, Take(r)
  PROVE  BucketInv'
  <1> USE BucketAssumption
  <1>1. BucketTypeOK /\ IsFiniteSet(Waiting) /\ IsFiniteSet(Left)
    BY DEF BucketInv
  <1>2. /\ Waiting' = Waiting
        /\ Left' = IF cancelled THEN Left \cup {r} ELSE Left
        /\ \A q \in Waiting : due'[q] = due[q]
        /\ \A t \in Nat : DueBy(t)' = DueBy(t) /\ DueAfter(t)' = DueAfter(t)
    BY <1>1, TakingKeeps DEF Take
  <1>3. /\ tokens' = Refilled - Unit /\ lastRefill' = now /\ now' = now
        /\ granted' = granted + 1 /\ Refilled >= Unit /\ cancelled' = cancelled
    BY DEF Take
  <1>4. BucketTypeOK'
    BY <1>1, <1>3, RefillSpends DEF BucketTypeOK, Take, Back
  <1>5. /\ Spent' = Rate * now - Refilled + Unit
        /\ Spent \in Int /\ Spent' \in Int /\ Spent + Unit <= Spent' /\ Spent' <= Rate * now
    BY <1>1, <1>3, RefillSpends DEF Spent
  <1>6. Cardinality(Waiting) \in Nat
    BY <1>1, FS_CardinalityType
  <1>7. (granted' + Cardinality(Waiting)) * Unit <= Spent'
    <2>1. (granted + Cardinality(Waiting)) * Unit <= Spent
      BY DEF BucketInv
    <2>2. (granted + 1 + Cardinality(Waiting)) * Unit
            = (granted + Cardinality(Waiting)) * Unit + Unit
      BY <1>1, <1>6 DEF BucketTypeOK
    <2>3. QED BY <1>1, <1>3, <1>5, <1>6, <2>1, <2>2 DEF BucketTypeOK
  <1>8. \A q \in Waiting : Rate * due[q] <= Spent'
    BY <1>1, <1>5 DEF BucketInv, BucketTypeOK, Waiting, Idle, Gone
  <1>9. ASSUME NEW t \in now .. MaxTime
        PROVE  /\ (granted' + Cardinality(DueBy(t))) * Unit < Rate * (t + 1)
               /\ Spent' < Rate * (t + 1) + Cardinality(Owing(t)') * Unit
    <2>1. t \in Nat /\ now <= t
      BY <1>1 DEF BucketTypeOK
    <2>2. /\ Cardinality(DueBy(t)) \in Nat /\ Cardinality(Owing(t)') \in Nat
          /\ Cardinality(DueBy(t)) <= Cardinality(Waiting)
      <3>1. r \notin DueAfter(t) /\ DueAfter(t)' = DueAfter(t)
        BY <1>1, <1>2, <2>1 DEF Take, DueAfter, Waiting, Idle
      <3>2. DueAfter(t)' = DueAfter(t) \ {r}
        BY <3>1
      <3>3. QED BY <1>1, <1>2, <2>1, <3>1, <3>2, PartsFinite, OwingKept
    <2>3. Rate * now < Rate * (t + 1) /\ Rate * now \in Nat /\ Rate * (t + 1) \in Nat
      BY <1>1, <2>1 DEF BucketTypeOK
    <2>4. (granted' + Cardinality(DueBy(t))) * Unit
            <= (granted' + Cardinality(Waiting)) * Unit
      BY <1>4, <1>6, <2>2 DEF BucketTypeOK
    <2>5. (granted' + Cardinality(DueBy(t))) * Unit < Rate * (t + 1)
      BY <1>4, <1>5, <1>6, <1>7, <2>2, <2>3, <2>4 DEF BucketTypeOK
    <2>6. Cardinality(Owing(t)') * Unit \in Nat
      BY <2>2
    <2>7. QED BY <1>5, <2>3, <2>5, <2>6
  <1>10. TimersApart'
    BY <1>2 DEF BucketInv, TimersApart
  <1>11. now' .. MaxTime = now .. MaxTime /\ \A t \in now .. MaxTime : t \in Nat
    BY <1>1, <1>3 DEF BucketTypeOK
  <1>12. IsFiniteSet(Left') /\ (~cancelled => Left' = {})
    BY <1>1, <1>2, FS_AddElement DEF BucketInv
  <1>13. QED
    BY <1>1, <1>2, <1>3, <1>4, <1>7, <1>8, <1>9, <1>10, <1>11, <1>12 DEF BucketInv

LEMMA ReserveKeepsInv ==
  ASSUME BucketInv, NEW r \in Callers, Reserve(r)
  PROVE  BucketInv'
  <1> DEFINE d == now + (Unit - Refilled) \div Rate
  <1> USE BucketAssumption
  <1>1. BucketTypeOK /\ IsFiniteSet(Waiting) /\ IsFiniteSet(Left)
    BY DEF BucketInv
  <1>2. /\ tokens' = Refilled - Unit /\ lastRefill' = now /\ now' = now
        /\ granted' = granted /\ Refilled < Unit /\ cancelled' = cancelled
        /\ due[r] = Idle /\ due' = [due EXCEPT ![r] = d]
    BY DEF Reserve
  <1>3. /\ Spent \in Int /\ Spent' = Spent + Unit
        /\ Refilled \in Int /\ Spent = Rate * now - Refilled /\ Rate * now \in Nat
    BY <1>1, <1>2, RefillSpends DEF Spent
  <1>4. d \in Nat /\ Rate * d <= Spent' /\ Spent' < Rate * d + Rate
    <2>1. Unit - Refilled \in Nat
      BY <1>2, <1>3
    <2>2. /\ (Unit - Refilled) \div Rate \in Nat
          /\ Rate * ((Unit - Refilled) \div Rate) <= Unit - Refilled
          /\ Unit - Refilled < Rate * ((Unit - Refilled) \div Rate) + Rate
      BY <2>1, DivBounds
    <2>3. Rate * d = Rate * now + Rate * ((Unit - Refilled) \div Rate)
      BY <1>1, <2>2 DEF BucketTypeOK
    <2>4. QED BY <1>1, <1>3, <2>2, <2>3 DEF BucketTypeOK
  <1> HIDE DEF d
  <1>5. /\ r \notin Waiting /\ Waiting' = Waiting \cup {r} /\ Left' = Left
        /\ due'[r] = d
        /\ \A q \in Waiting : due'[q] = due[q]
        /\ \A t \in Nat :
             /\ r \notin DueBy(t) /\ r \notin Owing(t)
             /\ DueBy(t)' = IF d <= t THEN DueBy(t) \cup {r} ELSE DueBy(t)
             /\ Owing(t)' = IF d <= t THEN Owing(t) ELSE Owing(t) \cup {r}
    BY <1>1, <1>2, <1>4, ReservingGrows
  <1>6. BucketTypeOK'
    BY <1>1, <1>2, <1>3, <1>4, RefillSpends DEF BucketTypeOK
  <1>7. /\ Cardinality(Waiting) \in Nat /\ IsFiniteSet(Waiting')
        /\ Cardinality(Waiting') = Cardinality(Waiting) + 1
    BY <1>1, <1>5, FS_CardinalityType, FS_AddElement
  <1>8. (granted' + Cardinality(Waiting')) * Unit <= Spent'
    <2>1. (granted + Cardinality(Waiting)) * Unit <= Spent
      BY DEF BucketInv
    <2>2. (granted + (Cardinality(Waiting) + 1)) * Unit
            = (granted + Cardinality(Waiting)) * Unit + Unit
      BY <1>1, <1>7 DEF BucketTypeOK
    <2>3. (granted + Cardinality(Waiting)) * Unit \in Nat
      BY <1>1, <1>7 DEF BucketTypeOK
    <2>4. QED BY <1>2, <1>3, <1>7, <2>1, <2>2, <2>3
  <1>9. \A q \in Waiting : due[q] \in Nat /\ Rate * due[q] \in Nat /\ Rate * due[q] <= Spent
    BY <1>1 DEF BucketInv, BucketTypeOK, Waiting, Idle, Gone
  <1>10. \A q \in Waiting' : Rate * due'[q] <= Spent'
    BY <1>3, <1>4, <1>5, <1>9
  <1>11. ASSUME NEW t \in now .. MaxTime
         PROVE  (granted' + Cardinality(DueBy(t)')) * Unit < Rate * (t + 1)
    <2>1. t \in Nat
      BY <1>1 DEF BucketTypeOK
    <2>2. /\ IsFiniteSet(DueBy(t)) /\ Cardinality(DueBy(t)) \in Nat
          /\ Cardinality(DueBy(t)) <= Cardinality(Waiting)
      BY <1>1, <2>1, PartsFinite
    <2>3. CASE d <= t
      <3>1. Cardinality(DueBy(t)') <= Cardinality(Waiting') /\ Cardinality(DueBy(t)') \in Nat
        <4>1. DueBy(t)' = DueBy(t) \cup {r} /\ r \notin DueBy(t)
          BY <1>5, <2>1, <2>3
        <4>2. Cardinality(DueBy(t)') = Cardinality(DueBy(t)) + 1
          BY <2>2, <4>1, FS_AddElement
        <4>3. QED BY <1>7, <2>2, <4>2
      <3>2. (granted' + Cardinality(DueBy(t)')) * Unit
              <= (granted' + Cardinality(Waiting')) * Unit
        BY <1>6, <1>7, <3>1 DEF BucketTypeOK
      <3>3. Rate * d + Rate <= Rate * (t + 1)
        BY <1>4, <2>1, <2>3
      <3>4. /\ (granted' + Cardinality(DueBy(t)')) * Unit \in Int
            /\ (granted' + Cardinality(Waiting')) * Unit \in Int
            /\ Rate * d + Rate \in Int /\ Rate * (t + 1) \in Int
        BY <1>4, <1>6, <1>7, <2>1, <3>1 DEF BucketTypeOK
      <3>5. QED BY <1>3, <1>4, <1>8, <3>2, <3>3, <3>4
    <2>4. CASE ~(d <= t)
      BY <1>2, <1>5, <2>1, <2>4 DEF BucketInv
    <2>5. QED BY <2>3, <2>4
  <1>12. ASSUME NEW t \in now .. MaxTime
         PROVE  Spent' < Rate * (t + 1) + Cardinality(Owing(t)') * Unit
    <2>1. t \in Nat
      BY <1>1 DEF BucketTypeOK
    <2>2. IsFiniteSet(Owing(t)) /\ Cardinality(Owing(t)) \in Nat
      BY <1>1, <2>1, PartsFinite
    <2>3. CASE d <= t
      <3>1. Rate * d + Rate <= Rate * (t + 1)
        BY <1>4, <2>1, <2>3
      <3>2. Cardinality(Owing(t)) * Unit \in Nat /\ Owing(t)' = Owing(t)
        BY <1>5, <2>1, <2>2, <2>3
      <3>3. Rate * d + Rate \in Int /\ Rate * (t + 1) \in Int
        BY <1>4, <2>1
      <3>4. QED BY <1>3, <1>4, <3>1, <3>2, <3>3
    <2>4. CASE ~(d <= t)
      <3>1. Cardinality(Owing(t)') = Cardinality(Owing(t)) + 1
        BY <1>5, <2>1, <2>2, <2>4, FS_AddElement
      <3>2. (Cardinality(Owing(t)) + 1) * Unit = Cardinality(Owing(t)) * Unit + Unit
        BY <2>2
      <3>3. Spent < Rate * (t + 1) + Cardinality(Owing(t)) * Unit
        BY DEF BucketInv
      <3>4. Cardinality(Owing(t)) * Unit \in Nat /\ Rate * (t + 1) \in Nat
        BY <2>1, <2>2
      <3>5. QED BY <1>3, <3>1, <3>2, <3>3, <3>4
    <2>5. QED BY <2>3, <2>4
  <1>13. TimersApart'
    <2>1. \A q \in Waiting : Rate * due[q] + Unit < Rate * d + Rate
      BY <1>3, <1>4, <1>9
    <2>2. ASSUME NEW q \in Waiting
          PROVE  /\ due[q] <= d => (d - due[q]) * Rate > Unit - Rate
                 /\ d <= due[q] => (due[q] - d) * Rate > Unit - Rate
      <3>1. due[q] \in Nat /\ Rate * due[q] + Unit < Rate * d + Rate
        BY <1>9, <2>1
      <3>2. (d - due[q]) * Rate = Rate * d - Rate * due[q]
        BY <1>4, <3>1
      <3>3. (due[q] - d) * Rate = Rate * due[q] - Rate * d
        BY <1>4, <3>1
      <3>4. Rate * d \in Nat /\ Rate * due[q] \in Nat
        BY <1>4, <3>1
      <3>5. d <= due[q] => Rate * d <= Rate * due[q]
        BY <1>4, <3>1
      <3>6. QED BY <1>4, <3>1, <3>2, <3>3, <3>4, <3>5
    <2>3. TimersApart
      BY DEF BucketInv
    <2>4. QED BY <1>5, <2>2, <2>3 DEF TimersApart
  <1>14. now' .. MaxTime = now .. MaxTime /\ cancelled' = cancelled /\ now' <= MaxTime
    BY <1>2 DEF BucketInv
  <1>15. IsFiniteSet(Left') /\ (~cancelled => Left' = {})
    BY <1>1, <1>5 DEF BucketInv
  <1>16. QED
    BY <1>6, <1>7, <1>8, <1>10, <1>11, <1>12, <1>13, <1>14, <1>15 DEF BucketInv

\* A caller that wakes, with its token or without.
LEMMA WakingKeepsInv ==
  ASSUME BucketInv, NEW r \in Callers, TimerFires(r) \/ Interrupted(r)
  PROVE  BucketInv'
  <1> USE BucketAssumption
  <1>1. BucketTypeOK /\ IsFiniteSet(Waiting) /\ IsFiniteSet(Left) /\ r \in Waiting
    BY DEF BucketInv, TimerFires, Interrupted
  <1>2. /\ now' = now /\ tokens' = tokens /\ lastRefill' = lastRefill
        /\ cancelled' = cancelled /\ due' = [due EXCEPT ![r] = Back]
    BY DEF TimerFires, Interrupted
  <1>3. \/ granted' = granted + 1 /\ now >= due[r]
        \/ granted' = granted /\ cancelled
    BY DEF TimerFires, Interrupted
  <1>4. /\ Waiting' = Waiting \ {r}
        /\ Left' = IF cancelled THEN Left \cup {r} ELSE Left
        /\ \A q \in Waiting' : due'[q] = due[q]
        /\ \A t \in Nat : /\ DueBy(t)' = DueBy(t) \ {r}
                          /\ DueAfter(t)' = DueAfter(t) \ {r}
    BY <1>1, <1>2, WakingShrinks
  <1>5. BucketTypeOK'
    BY <1>1, <1>2, <1>3 DEF BucketTypeOK, Back
  <1>6. Spent' = Spent /\ Spent \in Int
    BY <1>1, <1>2, RefillSpends DEF Spent
  <1>7. /\ Cardinality(Waiting) \in Nat /\ IsFiniteSet(Waiting')
        /\ Cardinality(Waiting') = Cardinality(Waiting) - 1
        /\ Cardinality(Waiting') \in Nat
    BY <1>1, <1>4, FS_CardinalityType, FS_RemoveElement
  <1>8. (granted' + Cardinality(Waiting')) * Unit <= Spent'
    <2>1. (granted + Cardinality(Waiting)) * Unit <= Spent
      BY DEF BucketInv
    <2>2. /\ granted' + Cardinality(Waiting') \in Nat
          /\ granted + Cardinality(Waiting) \in Nat
          /\ granted' + Cardinality(Waiting') <= granted + Cardinality(Waiting)
      BY <1>1, <1>3, <1>5, <1>7 DEF BucketTypeOK
    <2>3. /\ (granted' + Cardinality(Waiting')) * Unit
               <= (granted + Cardinality(Waiting)) * Unit
          /\ (granted' + Cardinality(Waiting')) * Unit \in Nat
          /\ (granted + Cardinality(Waiting)) * Unit \in Nat
      BY <2>2
    <2>4. QED BY <1>6, <2>1, <2>3
  <1>9. \A q \in Waiting' : Rate * due'[q] <= Spent'
    BY <1>4, <1>6 DEF BucketInv
  <1>10. ASSUME NEW t \in now .. MaxTime
         PROVE  (granted' + Cardinality(DueBy(t)')) * Unit < Rate * (t + 1)
    <2>1. t \in Nat /\ now <= t
      BY <1>1 DEF BucketTypeOK
    <2>2. IsFiniteSet(DueBy(t)) /\ Cardinality(DueBy(t)) \in Nat
      BY <1>1, <2>1, PartsFinite
    <2>3. DueBy(t)' = DueBy(t) \ {r}
      BY <1>4, <2>1
    <2>4. /\ IsFiniteSet(DueBy(t)')
          /\ Cardinality(DueBy(t)') =
               IF r \in DueBy(t) THEN Cardinality(DueBy(t)) - 1 ELSE Cardinality(DueBy(t))
      BY <2>2, <2>3, FS_RemoveElement
    <2>5. Cardinality(DueBy(t)') \in Nat
      BY <2>4, FS_CardinalityType
    <2>6. granted' = granted + 1 => r \in DueBy(t)
      BY <1>1, <1>3, <2>1 DEF BucketTypeOK, DueBy, Waiting, Idle, Gone
    <2>7. granted' + Cardinality(DueBy(t)') <= granted + Cardinality(DueBy(t))
      BY <1>1, <1>3, <2>2, <2>4, <2>6 DEF BucketTypeOK
    <2>8. /\ granted' + Cardinality(DueBy(t)') \in Nat
          /\ granted + Cardinality(DueBy(t)) \in Nat
      BY <1>1, <1>5, <2>2, <2>5 DEF BucketTypeOK
    <2>9. /\ (granted' + Cardinality(DueBy(t)')) * Unit
               <= (granted + Cardinality(DueBy(t))) * Unit
          /\ (granted' + Cardinality(DueBy(t)')) * Unit \in Nat
          /\ (granted + Cardinality(DueBy(t))) * Unit \in Nat
      BY <2>7, <2>8
    <2>10. (granted + Cardinality(DueBy(t))) * Unit < Rate * (t + 1)
      BY DEF BucketInv
    <2>11. Rate * (t + 1) \in Nat
      BY <2>1
    <2>12. QED BY <2>9, <2>10, <2>11
  <1>11. ASSUME NEW t \in now .. MaxTime
         PROVE  Spent' < Rate * (t + 1) + Cardinality(Owing(t)') * Unit
    <2>1. t \in Nat /\ now <= t
      BY <1>1 DEF BucketTypeOK
    <2>2. r \notin DueAfter(t) \/ cancelled
      BY <1>1, <1>3, <2>1 DEF BucketTypeOK, DueAfter, Waiting, Idle, Gone
    <2>3. DueAfter(t)' = DueAfter(t) \ {r}
      BY <1>4, <2>1
    <2>4. /\ Cardinality(Owing(t)') \in Nat
          /\ Cardinality(Owing(t)) \in Nat
          /\ Cardinality(Owing(t)) <= Cardinality(Owing(t)')
      BY <1>1, <1>4, <2>1, <2>2, <2>3, OwingKept
    <2>5. /\ Cardinality(Owing(t)) * Unit <= Cardinality(Owing(t)') * Unit
          /\ Cardinality(Owing(t)) * Unit \in Nat /\ Cardinality(Owing(t)') * Unit \in Nat
          /\ Rate * (t + 1) \in Nat
      BY <2>1, <2>4
    <2>6. Spent < Rate * (t + 1) + Cardinality(Owing(t)) * Unit
      BY DEF BucketInv
    <2>7. QED BY <1>6, <2>4, <2>5, <2>6
  <1>12. TimersApart'
    BY <1>4 DEF BucketInv, TimersApart
  <1>13. now' .. MaxTime = now .. MaxTime /\ cancelled' = cancelled /\ now' <= MaxTime
    BY <1>2 DEF BucketInv
  <1>14. IsFiniteSet(Left') /\ (~cancelled => Left' = {})
    BY <1>1, <1>4, FS_AddElement DEF BucketInv
  <1>15. QED
    BY <1>14, <1>5, <1>7, <1>8, <1>9, <1>10, <1>11, <1>12, <1>13 DEF BucketInv

\* Cancelling wakes no caller; a tick shortens the range of two clauses.
LEMMA CancelOrTickKeepsInv ==
  ASSUME BucketInv, Cancel \/ Tick
  PROVE  BucketInv'
  <1> USE BucketAssumption
  <1>1. BucketTypeOK
    BY DEF BucketInv
  <1>2. /\ tokens' = tokens /\ lastRefill' = lastRefill /\ due' = due /\ granted' = granted
        /\ now' = now \/ (now < MaxTime /\ now' = now + 1)
        /\ cancelled' = cancelled \/ (cancelled' = TRUE /\ ~cancelled)
    BY DEF Cancel, Tick
  <1>3. BucketTypeOK'
    <2>1. cancelled' \in BOOLEAN
      BY <1>1 DEF BucketTypeOK, Cancel, Tick
    <2>2. now' \in Nat /\ lastRefill' \in 0 .. now'
      BY <1>1, <1>2 DEF BucketTypeOK
    <2>3. QED BY <1>1, <1>2, <2>1, <2>2 DEF BucketTypeOK
  <1>4. /\ Waiting' = Waiting /\ Left' = Left
        /\ \A t \in Nat : DueBy(t)' = DueBy(t) /\ Owing(t)' = Owing(t)
    BY <1>2 DEF Waiting, Left, DueBy, DueAfter, Owing
  <1>5. Spent' = Spent /\ (TimersApart => TimersApart')
    BY <1>2, <1>4 DEF Spent, TimersApart
  <1>6. now' <= MaxTime
    BY <1>1, <1>2 DEF BucketInv, BucketTypeOK
  <1>7. \A t \in now' .. MaxTime : t \in now .. MaxTime /\ t \in Nat
    BY <1>1, <1>2, <1>3 DEF BucketTypeOK
  <1>8. cancelled => cancelled'
    BY <1>2
  <1>9. QED
    BY <1>2, <1>3, <1>4, <1>5, <1>6, <1>7, <1>8 DEF BucketInv

LEMMA StepBucket == BucketInv /\ [Next]_vars => BucketInv'
  <1> SUFFICES ASSUME BucketInv, [Next]_vars
               PROVE  BucketInv'
    OBVIOUS
  <1>1. ASSUME NEW r \in Callers, Take(r) PROVE BucketInv'
    BY <1>1, TakeKeepsInv
  <1>2. ASSUME NEW r \in Callers, Reserve(r) PROVE BucketInv'
    BY <1>2, ReserveKeepsInv
  <1>3. ASSUME NEW r \in Callers, TimerFires(r) \/ Interrupted(r) PROVE BucketInv'
    BY <1>3, WakingKeepsInv
  <1>4. CASE Cancel \/ Tick
    BY <1>4, CancelOrTickKeepsInv
  <1>5. CASE UNCHANGED vars
    BY <1>5 DEF vars, BucketInv, BucketTypeOK, TimersApart, Waiting, Left, DueBy, DueAfter,
                Owing, Spent
  <1>6. QED
    BY <1>1, <1>2, <1>3, <1>4, <1>5 DEF Next

LEMMA BucketInvariant == Spec => []BucketInv
  BY InitBucket, StepBucket, PTL DEF Spec

-----------------------------------------------------------------------------
(* The theorems.                                                             *)

\* The balance stays within the burst and no refill runs backwards, for every
\* rate, unit and burst.
THEOREM BucketTypesCorrect == Spec => []BucketTypeOK
  <1>1. BucketInv => BucketTypeOK
    BY DEF BucketInv
  <1>2. QED BY <1>1, BucketInvariant, PTL

\* The limiter keeps its rate: however the timers and the cancellation
\* interleave, the calls that have returned fit into the time that has passed.
THEOREM LimiterKeepsRate == Spec => []WithinRate
  <1>1. ASSUME BucketInv PROVE WithinRate
    <2> USE BucketAssumption
    <2>1. BucketTypeOK /\ IsFiniteSet(Waiting) /\ IsFiniteSet(Left) /\ now \in now .. MaxTime
      BY <1>1 DEF BucketInv, BucketTypeOK
    <2>2. Cardinality(DueBy(now)) \in Nat
      BY <2>1, PartsFinite DEF BucketTypeOK
    <2>3. (granted + Cardinality(DueBy(now))) * Unit < Rate * (now + 1)
      BY <1>1, <2>1 DEF BucketInv
    <2>4. (granted + Cardinality(DueBy(now))) * Unit
            = granted * Unit + Cardinality(DueBy(now)) * Unit
      BY <2>1, <2>2 DEF BucketTypeOK
    <2>5. /\ granted * Unit \in Nat /\ Cardinality(DueBy(now)) * Unit \in Nat
          /\ Rate * (now + 1) \in Nat
      BY <2>1, <2>2 DEF BucketTypeOK
    <2>6. QED BY <2>3, <2>4, <2>5 DEF WithinRate
  <1>2. QED BY <1>1, BucketInvariant, PTL

\* No two callers sleep for the same token.
THEOREM SleepersApart == Spec => []TimersApart
  <1>1. BucketInv => TimersApart
    BY DEF BucketInv
  <1>2. QED BY <1>1, BucketInvariant, PTL

\* No caller has longer to wait than the callers asleep account for and, once the run
\* is cancelled, those that have left with a reservation.
THEOREM WaitsBounded == Spec => []WaitBounded
  <1>1. ASSUME BucketInv PROVE WaitBounded
    <2> USE BucketAssumption
    <2>1. BucketTypeOK /\ IsFiniteSet(Waiting) /\ IsFiniteSet(Left) /\ now \in now .. MaxTime
      BY <1>1 DEF BucketInv, BucketTypeOK
    <2>2. SUFFICES ASSUME NEW r \in Waiting
                   PROVE  (due[r] - now) * Rate < Cardinality(Waiting \cup Left) * Unit + Rate
      BY DEF WaitBounded
    <2>3. /\ Cardinality(Waiting \cup Left) \in Nat /\ Cardinality(Owing(now)) \in Nat
          /\ Cardinality(Owing(now)) <= Cardinality(Waiting \cup Left)
      BY <2>1, PartsFinite DEF BucketTypeOK
    <2>4. Cardinality(Owing(now)) * Unit <= Cardinality(Waiting \cup Left) * Unit
      BY <2>3
    <2>5. /\ Cardinality(Owing(now)) * Unit \in Nat /\ Cardinality(Waiting \cup Left) * Unit \in Nat
      BY <2>3
    <2>6. due[r] \in Nat /\ Rate * due[r] \in Nat /\ Rate * now \in Nat
      BY <2>1 DEF BucketTypeOK, Waiting, Idle, Gone
    <2>7. /\ (due[r] - now) * Rate = Rate * due[r] - Rate * now
          /\ Rate * (now + 1) = Rate * now + Rate
      BY <2>1, <2>6 DEF BucketTypeOK
    <2>8. Rate * due[r] <= Spent /\ Spent \in Int
      BY <1>1, <2>1, RefillSpends DEF BucketInv
    <2>9. Spent < Rate * (now + 1) + Cardinality(Owing(now)) * Unit
      BY <1>1, <2>1, <2>2 DEF BucketInv
    <2>10. QED BY <2>4, <2>5, <2>6, <2>7, <2>8, <2>9
  <1>2. QED BY <1>1, BucketInvariant, PTL
=============================================================================
