--------------------------- MODULE PebbleKVProofs ---------------------------
(***************************************************************************)
(* What the order of physical keys gives the stores: seeks find what they  *)
(* look for in every set of keys that has its extremes.                    *)
(***************************************************************************)
EXTENDS PebbleKV, TLAPS

PKey == Nat \X Nat

-----------------------------------------------------------------------------
(* The order of physical keys.                                               *)

LEMMA BelowIsTotalOrder ==
  ASSUME NEW a \in PKey, NEW b \in PKey, NEW c \in PKey
  PROVE  /\ ~Below(a, a)
         /\ a = b \/ Below(a, b) \/ Below(b, a)
         /\ Below(a, b) => ~Below(b, a)
         /\ Below(a, b) /\ Below(b, c) => Below(a, c)
BY DEF PKey, Below

LEMMA InvalidIsNoKey == Invalid \notin PKey
BY DEF Invalid, PKey

LEMMA SmallestFound ==
  ASSUME NEW D \in SUBSET PKey, Extremal(D), NEW S \in SUBSET D
  PROVE  \/ S = {} /\ Smallest(S) = Invalid
         \/ /\ Smallest(S) \in S
            /\ \A b \in S : Smallest(S) = b \/ Below(Smallest(S), b)
BY DEF Smallest, Extremal

LEMMA LargestFound ==
  ASSUME NEW D \in SUBSET PKey, Extremal(D), NEW S \in SUBSET D
  PROVE  \/ S = {} /\ Largest(S) = Invalid
         \/ /\ Largest(S) \in S
            /\ \A b \in S : Largest(S) = b \/ Below(b, Largest(S))
BY DEF Largest, Extremal

LEMMA ExtremalUnion ==
  ASSUME NEW D \in SUBSET PKey, NEW E \in SUBSET PKey, Extremal(D), Extremal(E)
  PROVE  Extremal(D \cup E)
<1> SUFFICES ASSUME NEW T \in SUBSET (D \cup E), T # {}
             PROVE  /\ \E a \in T : \A b \in T : a = b \/ Below(a, b)
                    /\ \E a \in T : \A b \in T : a = b \/ Below(b, a)
  BY DEF Extremal
<1>1. T \cap D \in SUBSET D /\ T \cap E \in SUBSET E /\ T = (T \cap D) \cup (T \cap E)
  OBVIOUS
<1>2. CASE T \cap D = {} \/ T \cap E = {}
  BY <1>1, <1>2 DEF Extremal
<1>3. CASE T \cap D # {} /\ T \cap E # {}
  <2>1. PICK x \in T \cap D : \A b \in T \cap D : x = b \/ Below(x, b)
    BY <1>1, <1>3 DEF Extremal
  <2>2. PICK y \in T \cap E : \A b \in T \cap E : y = b \/ Below(y, b)
    BY <1>1, <1>3 DEF Extremal
  <2>3. PICK v \in T \cap D : \A b \in T \cap D : v = b \/ Below(b, v)
    BY <1>1, <1>3 DEF Extremal
  <2>4. PICK w \in T \cap E : \A b \in T \cap E : w = b \/ Below(b, w)
    BY <1>1, <1>3 DEF Extremal
  <2>5. \E a \in T : \A b \in T : a = b \/ Below(a, b)
    BY <2>1, <2>2, BelowIsTotalOrder
  <2>6. \E a \in T : \A b \in T : a = b \/ Below(b, a)
    BY <2>3, <2>4, BelowIsTotalOrder
  <2> QED  BY <2>5, <2>6
<1> QED  BY <1>2, <1>3

LEMMA ExtremalSingle == ASSUME NEW a PROVE Extremal({a})
BY DEF Extremal
=============================================================================
