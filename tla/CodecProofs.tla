---------------------------- MODULE CodecProofs ----------------------------
(***************************************************************************)
(* Theorems about Codecs, for every base, every length of words, hashes    *)
(* and offsets, and all values that fit: decoding inverts encoding, a      *)
(* value that was cut or is of another kind is refused or only lost the    *)
(* end of its tail, and prefixUpperBound separates the keys of a prefix.   *)
(*                                                                         *)
(* What the recursive functions Power and Number compute is shown through  *)
(* the least number of which it is false.                                  *)
(***************************************************************************)
EXTENDS Codecs, SequenceTheorems, WellFoundedInduction, TLAPS

-----------------------------------------------------------------------------
(* Recursive functions, by looking at the least number that fails.           *)

LEMMA NatLeast ==
  ASSUME NEW S \in SUBSET Nat, S # {}
  PROVE  \E x \in S : \A y \in S : x <= y
<1>1. \E x \in S : \A y \in S : ~(<<y, x>> \in OpToRel(<, Nat))
  BY NatLessThanWellFounded, WFMin
<1>2. PICK x \in S : \A y \in S : ~(<<y, x>> \in OpToRel(<, Nat))
  BY <1>1
<1>3. \A y \in Nat, z \in Nat : y < z => <<y, z>> \in OpToRel(<, Nat)
  BY Zenon DEF OpToRel
<1>4. \A y \in S : ~(y < x)
  BY <1>2, <1>3
<1>5. x \in S
  BY <1>2
<1> QED  BY <1>4, <1>5

\* Induction: a set of numbers with 0 and with the successor of each of its members.
LEMMA NatAll ==
  ASSUME NEW S, 0 \in S, \A k \in Nat : k \in S => k + 1 \in S
  PROVE  \A k \in Nat : k \in S
<1> SUFFICES ASSUME NEW j \in Nat, j \notin S PROVE FALSE
  OBVIOUS
<1> DEFINE U == {k \in Nat : k \notin S}
<1>1. PICK x \in U : \A y \in U : x <= y
  <2>1. U \in SUBSET Nat /\ j \in U
    OBVIOUS
  <2> HIDE DEF U
  <2> QED  BY <2>1, NatLeast
<1>2. x # 0 /\ x - 1 \in Nat /\ x - 1 \notin U
  BY <1>1
<1> QED  BY <1>1, <1>2

\* The first k powers.
Powers(k, h) ==
  h = [j \in 0 .. k |-> IF j = 0 THEN 1 ELSE Base * h[j-1]]

LEMMA PowersExist == \A k \in Nat : \E h : Powers(k, h)
<1> DEFINE S == {k \in Nat : \E h : Powers(k, h)}
<1>1. 0 \in S
  <2> DEFINE h == [j \in 0 .. 0 |-> 1]
  <2>1. Powers(0, h)
    BY DEF Powers
  <2> QED  BY <2>1
<1>2. ASSUME NEW k \in Nat, k \in S PROVE k + 1 \in S
  <2>1. PICK h : Powers(k, h)
    BY <1>2
  <2> DEFINE g == [j \in 0 .. k + 1 |-> IF j = k + 1 THEN Base * h[k] ELSE h[j]]
  <2>2. \A j \in 0 .. k : h[j] = IF j = 0 THEN 1 ELSE Base * h[j-1]
    BY <2>1 DEF Powers
  <2>3. \A j \in 0 .. k + 1 : g[j] = IF j = 0 THEN 1 ELSE Base * g[j-1]
    <3> TAKE j \in 0 .. k + 1
    <3>1. CASE j = k + 1
      <4>1. g[j] = Base * h[k] /\ g[k] = h[k] /\ j - 1 = k /\ j # 0
        BY <3>1
      <4> QED  BY <4>1
    <3>2. CASE j # k + 1
      <4>1. j \in 0 .. k /\ g[j] = h[j] /\ (j # 0 => j - 1 \in 0 .. k /\ g[j-1] = h[j-1])
        BY <3>2
      <4> QED  BY <2>2, <4>1
    <3> QED  BY <3>1, <3>2
  <2>4. Powers(k + 1, g)
    <3>1. g = [j \in 0 .. k + 1 |-> g[j]]
      OBVIOUS
    <3> HIDE DEF g
    <3> QED  BY <2>3, <3>1 DEF Powers
  <2> QED  BY <2>4
<1> HIDE DEF S
<1>3. \A k \in Nat : k \in S
  BY <1>1, <1>2, NatAll
<1> QED  BY <1>3 DEF S

LEMMA PowersAgree ==
  ASSUME NEW k \in Nat, NEW m \in Nat, k <= m, NEW g, NEW h, Powers(k, g), Powers(m, h)
  PROVE  \A j \in 0 .. k : g[j] = h[j]
<1> DEFINE S == {j \in Nat : j <= k => g[j] = h[j]}
<1>1. \A j \in 0 .. k : g[j] = IF j = 0 THEN 1 ELSE Base * g[j-1]
  BY DEF Powers
<1>2. \A j \in 0 .. k : h[j] = IF j = 0 THEN 1 ELSE Base * h[j-1]
  <2>1. \A j \in 0 .. m : h[j] = IF j = 0 THEN 1 ELSE Base * h[j-1]
    BY DEF Powers
  <2> QED  BY <2>1
<1>3. 0 \in S
  BY <1>1, <1>2
<1>4. ASSUME NEW j \in Nat, j \in S PROVE j + 1 \in S
  <2> SUFFICES ASSUME j + 1 <= k PROVE g[j + 1] = h[j + 1]
    OBVIOUS
  <2>1. g[j] = h[j] /\ j + 1 \in 0 .. k /\ (j + 1) - 1 = j /\ j + 1 # 0
    BY <1>4
  <2>2. g[j + 1] = Base * g[j] /\ h[j + 1] = Base * h[j]
    BY <1>1, <1>2, <2>1
  <2> QED  BY <2>1, <2>2
<1> HIDE DEF S
<1>5. \A j \in Nat : j \in S
  BY <1>3, <1>4, NatAll
<1> QED  BY <1>5 DEF S

LEMMA PowerDef == Power = [k \in Nat |-> IF k = 0 THEN 1 ELSE Base * Power[k-1]]
<1> DEFINE H(k) == CHOOSE h : Powers(k, h)
           p == [k \in Nat |-> H(k)[k]]
<1>1. \A k \in Nat : Powers(k, H(k))
  BY PowersExist
<1>2. ASSUME NEW k \in Nat PROVE p[k] = IF k = 0 THEN 1 ELSE Base * p[k-1]
  <2> HIDE DEF H
  <2>1. H(k)[k] = IF k = 0 THEN 1 ELSE Base * H(k)[k-1]
    BY <1>1 DEF Powers
  <2>2. CASE k # 0
    <3>1. k - 1 \in Nat /\ k - 1 <= k /\ k - 1 \in 0 .. k - 1
      BY <2>2
    <3>2. H(k - 1)[k - 1] = H(k)[k - 1]
      BY <1>1, <3>1, PowersAgree
    <3> QED  BY <2>1, <2>2, <3>1, <3>2
  <2> QED  BY <2>1, <2>2
<1>3. p = [k \in Nat |-> IF k = 0 THEN 1 ELSE Base * p[k-1]]
  <2>1. p = [k \in Nat |-> p[k]]
    OBVIOUS
  <2> HIDE DEF p
  <2> QED  BY <1>2, <2>1
<1> HIDE DEF p
<1> QED  BY <1>3 DEF Power

LEMMA PowerFacts ==
  /\ Power[0] = 1
  /\ \A k \in Nat : Power[k + 1] = Base * Power[k]
  /\ \A k \in Nat : Power[k] \in Nat /\ Power[k] > 0
<1>1. Power[0] = 1
  BY PowerDef
<1>2. ASSUME NEW k \in Nat PROVE Power[k + 1] = Base * Power[k]
  BY PowerDef
<1> DEFINE S == {k \in Nat : Power[k] \in Nat /\ Power[k] > 0}
<1>3. 0 \in S
  BY <1>1
<1>4. ASSUME NEW k \in Nat, k \in S PROVE k + 1 \in S
  <2> DEFINE q == Power[k]
  <2>1. q \in Nat /\ q > 0 /\ Power[k + 1] = Base * q
    BY <1>2, <1>4
  <2> HIDE DEF q
  <2>2. Base * q \in Nat /\ Base * q > 0
    BY <2>1, CodecAssumption DEF Older
  <2> QED  BY <2>1, <2>2
<1> HIDE DEF S
<1>5. \A k \in Nat : k \in S
  BY <1>3, <1>4, NatAll
<1> QED  BY <1>1, <1>2, <1>5 DEF S

-----------------------------------------------------------------------------
(* Numbers and their digits.                                                 *)

LEMMA DivFacts ==
  ASSUME NEW n \in Nat, NEW w \in Nat, w > 0
  PROVE  n \div w \in Nat /\ n % w \in Nat /\ n % w < w /\ n = (n \div w) * w + (n % w)
<1>1. n \div w \in Nat /\ n % w \in Nat /\ n % w < w
  BY Z3
<1>2. n = w * (n \div w) + (n % w)
  BY Z3
<1> DEFINE q == n \div w
<1> HIDE DEF q
<1>3. w * q = q * w
  BY <1>1 DEF q
<1> QED  BY <1>1, <1>2, <1>3 DEF q

LEMMA DivUnique ==
  ASSUME NEW n \in Nat, NEW w \in Nat, w > 0, NEW q \in Nat, NEW r \in Nat, r < w, n = q * w + r
  PROVE  n \div w = q /\ n % w = r
<1>1. q * w \in Nat
  OBVIOUS
<1>2. n \div w \in Nat /\ n % w \in Nat /\ n % w < w /\ n = (n \div w) * w + (n % w)
  BY DivFacts
<1> DEFINE d == n \div w  m == n % w
<1>3. d \in Nat /\ m \in Nat /\ m < w /\ q * w + r = d * w + m
  BY <1>2
<1> HIDE DEF d, m
<1>4. (q - d) * w = m - r
  BY <1>3, Z3
<1>5. ~(q > d)
  <2> SUFFICES ASSUME q > d PROVE FALSE
    OBVIOUS
  <2>1. (q - d) * w >= w
    BY <1>3, Z3
  <2> QED  BY <1>3, <1>4, <2>1
<1>6. ~(q < d)
  <2> SUFFICES ASSUME q < d PROVE FALSE
    OBVIOUS
  <2>1. (d - q) * w >= w
    BY <1>3, Z3
  <2>2. (d - q) * w = r - m
    BY <1>3, Z3
  <2> QED  BY <1>3, <2>1, <2>2
<1>7. q = d
  BY <1>3, <1>5, <1>6
<1> QED  BY <1>3, <1>4, <1>7 DEF d, m

\* The digit that follows a prefix of a number's digits.
LEMMA DivStep ==
  ASSUME NEW n \in Nat, NEW b \in Nat, b > 0, NEW w \in Nat, w > 0
  PROVE  (n \div (b * w)) * b + ((n \div w) % b) = n \div w
<1> DEFINE q == n \div w  r == n % w  p == q \div b  d == q % b
<1>1. q \in Nat /\ r \in Nat /\ r < w /\ n = q * w + r
  BY DivFacts
<1>2. p \in Nat /\ d \in Nat /\ d < b /\ q = p * b + d
  <2> HIDE DEF q
  <2> QED  BY <1>1, DivFacts
<1> HIDE DEF q, r, p, d
<1>3. d * w + r \in Nat /\ d * w + r < b * w
  <2>1. d + 1 <= b
    BY <1>2
  <2>2. (d + 1) * w <= b * w
    BY <1>2, <2>1, Z3
  <2>3. (d + 1) * w = d * w + w
    BY <1>2, Z3
  <2>4. d * w \in Nat /\ b * w \in Nat
    BY <1>2
  <2> QED  BY <1>1, <2>2, <2>3, <2>4
<1>4. n = p * (b * w) + (d * w + r)
  <2>1. q * w = (p * b) * w + d * w
    BY <1>1, <1>2, Z3
  <2>2. (p * b) * w = p * (b * w)
    BY <1>1, <1>2, Z3
  <2>3. (p * b) * w \in Nat /\ d * w \in Nat
    BY <1>2
  <2> QED  BY <1>1, <2>1, <2>2, <2>3
<1>5. b * w \in Nat /\ b * w > 0
  BY Z3
<1>6. n \div (b * w) = p
  <2> DEFINE c == b * w  e == d * w + r
  <2>1. c \in Nat /\ c > 0 /\ e \in Nat /\ e < c /\ n = p * c + e
    BY <1>3, <1>4, <1>5
  <2> HIDE DEF c, e
  <2>2. n \div c = p
    BY <1>2, <2>1, DivUnique
  <2> QED  BY <2>2 DEF c
<1>7. (n \div (b * w)) * b + d = q
  BY <1>2, <1>6
<1> QED  BY <1>7 DEF q, d

\* Number reads its digits one after another.
LEMMA NumberDef ==
  ASSUME NEW bs, Len(bs) \in Nat
  PROVE  \E n : /\ n[0] = 0
                /\ \A j \in 1 .. Len(bs) : n[j] = n[j-1] * Base + bs[j]
                /\ Number(bs) = n[Len(bs)]
<1> DEFINE L == Len(bs)
           Reads(k, h) == h = [j \in 0 .. k |-> IF j = 0 THEN 0 ELSE h[j-1] * Base + bs[j]]
           S == {k \in Nat : \E h : Reads(k, h)}
<1>1. 0 \in S
  <2> DEFINE h == [j \in 0 .. 0 |-> 0]
  <2>1. Reads(0, h)
    OBVIOUS
  <2> HIDE DEF Reads
  <2> QED  BY <2>1
<1>2. ASSUME NEW k \in Nat, k \in S PROVE k + 1 \in S
  <2>1. PICK h : Reads(k, h)
    BY <1>2
  <2> DEFINE v == h[k] * Base + bs[k + 1]
             g == [j \in 0 .. k + 1 |-> IF j = k + 1 THEN v ELSE h[j]]
  <2>2. \A j \in 0 .. k : h[j] = IF j = 0 THEN 0 ELSE h[j-1] * Base + bs[j]
    BY <2>1
  <2>3. \A j \in 0 .. k + 1 : g[j] = IF j = 0 THEN 0 ELSE g[j-1] * Base + bs[j]
    <3> TAKE j \in 0 .. k + 1
    <3>1. CASE j = k + 1
      <4>1. g[j] = v /\ g[k] = h[k] /\ j - 1 = k /\ j # 0
        BY <3>1
      <4> HIDE DEF g
      <4> QED  BY <3>1, <4>1
    <3>2. CASE j # k + 1
      <4>1. j \in 0 .. k /\ g[j] = h[j] /\ (j # 0 => j - 1 \in 0 .. k /\ g[j-1] = h[j-1])
        BY <3>2
      <4> HIDE DEF g
      <4> QED  BY <2>2, <4>1
    <3> QED  BY <3>1, <3>2
  <2>4. Reads(k + 1, g)
    <3>1. g = [j \in 0 .. k + 1 |-> g[j]]
      OBVIOUS
    <3> HIDE DEF g
    <3> QED  BY <2>3, <3>1
  <2> HIDE DEF Reads
  <2> QED  BY <2>4
<1> HIDE DEF S
<1>3. L \in S
  BY <1>1, <1>2, NatAll
<1>4. PICK n : Reads(L, n)
  BY <1>3 DEF S
<1> DEFINE N == CHOOSE h : Reads(L, h)
<1>5. Reads(L, N)
  <2> HIDE DEF Reads
  <2> QED  BY <1>4
<1>6. Number(bs) = N[L]
  BY DEF Number
<1> HIDE DEF N
<1>7. \A j \in 0 .. L : N[j] = IF j = 0 THEN 0 ELSE N[j-1] * Base + bs[j]
  BY <1>5
<1>8. N[0] = 0
  BY <1>7
<1>9. \A j \in 1 .. L : N[j] = N[j-1] * Base + bs[j]
  BY <1>7
<1> HIDE DEF Reads
<1> QED  BY <1>6, <1>8, <1>9

LEMMA DigitsType ==
  ASSUME NEW n \in Nat, NEW len \in Nat
  PROVE  Digits(n, len) \in Seq(Byte) /\ Len(Digits(n, len)) = len
         /\ \A j \in 1 .. len : Digits(n, len)[j] = (n \div Power[len - j]) % Base
<1>1. \A j \in 1 .. len : (n \div Power[len - j]) % Base \in Byte
  <2> TAKE j \in 1 .. len
  <2> DEFINE w == Power[len - j]
  <2>1. w \in Nat /\ w > 0
    BY PowerFacts
  <2> HIDE DEF w
  <2>2. n \div w \in Nat
    BY <2>1, DivFacts
  <2>3. (n \div w) % Base \in Nat /\ (n \div w) % Base < Base
    <3> DEFINE q == n \div w
    <3> HIDE DEF q
    <3>1. q % Base \in Nat /\ q % Base < Base
      BY <2>2, DivFacts, CodecAssumption DEF q, Older
    <3> QED  BY <3>1 DEF q
  <2> QED  BY <2>3, CodecAssumption DEF Byte, w
<1> DEFINE f(j) == (n \div Power[len - j]) % Base
<1> HIDE DEF f
<1>2. Digits(n, len) = [j \in 1 .. len |-> f(j)]
  BY DEF Digits, f
<1>3. \A j \in 1 .. len : f(j) \in Byte
  BY <1>1 DEF f
<1>4. [j \in 1 .. len |-> f(j)] \in Seq(Byte) /\ Len([j \in 1 .. len |-> f(j)]) = len
  BY <1>3
<1> QED  BY <1>2, <1>4 DEF f

\* Uint64 reads what PutUint64 wrote.
LEMMA NumberOfDigits ==
  ASSUME NEW len \in Nat, NEW n \in Below(len)
  PROVE  Number(Digits(n, len)) = n
<1> DEFINE D == Digits(n, len)
<1>1. n \in Nat /\ n < Power[len] /\ Power[len] \in Nat
  BY PowerFacts DEF Below
<1>2. Len(D) = len /\ \A j \in 1 .. len : D[j] = (n \div Power[len - j]) % Base
  BY <1>1, DigitsType
<1> HIDE DEF D
<1>3. PICK v : /\ v[0] = 0
               /\ \A j \in 1 .. len : v[j] = v[j-1] * Base + D[j]
               /\ Number(D) = v[len]
  BY <1>2, NumberDef
<1> DEFINE S == {j \in Nat : j <= len => v[j] = n \div Power[len - j]}
<1>4. 0 \in S
  <2> DEFINE w == Power[len]
  <2>1. w \in Nat /\ n < w /\ n = 0 * w + n /\ w > 0
    BY <1>1, PowerFacts
  <2> HIDE DEF w
  <2>2. n \div w = 0
    BY <1>1, <2>1, DivUnique
  <2> QED  BY <1>3, <2>2 DEF w
<1>5. ASSUME NEW j \in Nat, j \in S PROVE j + 1 \in S
  <2> SUFFICES ASSUME j + 1 <= len PROVE v[j + 1] = n \div Power[len - (j + 1)]
    OBVIOUS
  <2> DEFINE w == Power[len - (j + 1)]
  <2>1. len - (j + 1) \in Nat /\ (len - (j + 1)) + 1 = len - j
    OBVIOUS
  <2>2. w \in Nat /\ w > 0 /\ Power[len - j] = Base * w
    BY <2>1, PowerFacts
  <2>3. v[j] = n \div (Base * w)
    BY <1>5, <2>2
  <2>4. j + 1 \in 1 .. len /\ (j + 1) - 1 = j
    OBVIOUS
  <2>5. v[j + 1] = v[j] * Base + ((n \div w) % Base)
    BY <1>2, <1>3, <2>4
  <2> HIDE DEF w, S
  <2>6. Base \in Nat /\ Base > 0
    BY CodecAssumption DEF Older
  <2>7. (n \div (Base * w)) * Base + ((n \div w) % Base) = n \div w
    BY <1>1, <2>2, <2>6, DivStep
  <2>8. v[j + 1] = n \div w
    BY <2>3, <2>5, <2>7
  <2> QED  BY <2>8 DEF w
<1> HIDE DEF S
<1>6. len \in S
  BY <1>4, <1>5, NatAll
<1>7. v[len] = n \div Power[0]
  BY <1>6 DEF S
<1>8. n \div Power[0] = n
  BY <1>1, PowerFacts, DivUnique
<1> QED  BY <1>3, <1>7, <1>8 DEF D

-----------------------------------------------------------------------------
(* Sequences and their parts.                                                *)

LEMMA SameSeq ==
  ASSUME NEW S, NEW a \in Seq(S), NEW b \in Seq(S), Len(a) = Len(b),
         \A i \in 1 .. Len(a) : a[i] = b[i]
  PROVE  a = b
BY SeqEqual

LEMMA SliceFacts ==
  ASSUME NEW bs \in Seq(Byte), NEW from \in Nat, NEW to \in Nat,
         from <= to, to <= Len(bs)
  PROVE  /\ Slice(bs, from, to) \in Seq(Byte)
         /\ Len(Slice(bs, from, to)) = to - from
         /\ \A i \in 1 .. to - from : Slice(bs, from, to)[i] = bs[from + i]
BY DEF Slice

LEMMA Joined ==
  ASSUME NEW a \in Seq(Byte), NEW b \in Seq(Byte)
  PROVE  /\ a \o b \in Seq(Byte) /\ Len(a \o b) = Len(a) + Len(b)
         /\ \A i \in 1 .. Len(a) : (a \o b)[i] = a[i]
         /\ \A i \in 1 .. Len(b) : (a \o b)[Len(a) + i] = b[i]
OBVIOUS

LEMMA SliceLeft ==
  ASSUME NEW a \in Seq(Byte), NEW b \in Seq(Byte), NEW from \in Nat, NEW to \in Nat,
         from <= to, to <= Len(a)
  PROVE  Slice(a \o b, from, to) = Slice(a, from, to)
<1>1. /\ a \o b \in Seq(Byte) /\ to <= Len(a \o b)
      /\ \A i \in 1 .. Len(a) : (a \o b)[i] = a[i]
  BY Joined
<1> DEFINE c == a \o b
<1>2. c \in Seq(Byte) /\ to <= Len(c) /\ \A i \in 1 .. Len(a) : c[i] = a[i]
  BY <1>1
<1> HIDE DEF c
<1> DEFINE x == Slice(c, from, to)  y == Slice(a, from, to)
<1>3. x \in Seq(Byte) /\ Len(x) = to - from /\ \A i \in 1 .. to - from : x[i] = c[from + i]
  BY <1>2, SliceFacts
<1>4. y \in Seq(Byte) /\ Len(y) = to - from /\ \A i \in 1 .. to - from : y[i] = a[from + i]
  BY SliceFacts
<1> HIDE DEF x, y
<1>5. \A i \in 1 .. to - from : from + i \in 1 .. Len(a)
  OBVIOUS
<1>6. x = y
  <2>1. \A i \in 1 .. to - from : x[i] = y[i]
    <3> TAKE i \in 1 .. to - from
    <3>1. c[from + i] = a[from + i]
      BY <1>2, <1>5
    <3> QED  BY <1>3, <1>4, <3>1
  <2>2. Len(x) = Len(y) /\ \A i \in 1 .. Len(x) : x[i] = y[i]
    BY <1>3, <1>4, <2>1
  <2> QED  BY <1>3, <1>4, <2>2, SameSeq
<1> QED  BY <1>6 DEF x, y, c

LEMMA SliceRight ==
  ASSUME NEW a \in Seq(Byte), NEW b \in Seq(Byte), NEW from \in Nat, NEW to \in Nat,
         from <= to, to <= Len(b)
  PROVE  Slice(a \o b, Len(a) + from, Len(a) + to) = Slice(b, from, to)
<1> DEFINE c == a \o b  l == Len(a)
<1>1. c \in Seq(Byte) /\ Len(c) = l + Len(b) /\ \A i \in 1 .. Len(b) : c[l + i] = b[i]
  BY Joined
<1>2. l \in Nat
  OBVIOUS
<1> HIDE DEF c, l
<1> DEFINE x == Slice(c, l + from, l + to)  y == Slice(b, from, to)
<1>3. x \in Seq(Byte) /\ Len(x) = to - from /\ \A i \in 1 .. to - from : x[i] = c[(l + from) + i]
  <2>1. l + from \in Nat /\ l + to \in Nat /\ l + to <= Len(c) /\ (l + to) - (l + from) = to - from
    BY <1>1, <1>2
  <2> DEFINE p == l + from  q == l + to
  <2>2. p \in Nat /\ q \in Nat /\ p <= q /\ q <= Len(c) /\ q - p = to - from
    BY <2>1
  <2> HIDE DEF p, q
  <2>3. /\ Slice(c, p, q) \in Seq(Byte)
        /\ Len(Slice(c, p, q)) = q - p
        /\ \A i \in 1 .. q - p : Slice(c, p, q)[i] = c[p + i]
    BY <1>1, <2>2, SliceFacts
  <2> QED  BY <2>2, <2>3 DEF x, p, q
<1>4. y \in Seq(Byte) /\ Len(y) = to - from /\ \A i \in 1 .. to - from : y[i] = b[from + i]
  BY SliceFacts
<1> HIDE DEF x, y
<1>5. \A i \in 1 .. to - from : from + i \in 1 .. Len(b) /\ (l + from) + i = l + (from + i)
  BY <1>2
<1>6. x = y
  <2>1. \A i \in 1 .. to - from : x[i] = y[i]
    <3> TAKE i \in 1 .. to - from
    <3>1. c[(l + from) + i] = b[from + i]
      BY <1>1, <1>5
    <3> QED  BY <1>3, <1>4, <3>1
  <2>2. Len(x) = Len(y) /\ \A i \in 1 .. Len(x) : x[i] = y[i]
    BY <1>3, <1>4, <2>1
  <2> QED  BY <1>3, <1>4, <2>2, SameSeq
<1> QED  BY <1>6 DEF x, y, c, l

LEMMA CutType ==
  ASSUME NEW bs \in Seq(Byte), NEW n \in Nat, n <= Len(bs)
  PROVE  /\ SubSeq(bs, 1, n) \in Seq(Byte) /\ Len(SubSeq(bs, 1, n)) = n
         /\ \A i \in 1 .. n : SubSeq(bs, 1, n)[i] = bs[i]
OBVIOUS

\* What is left of a sequence that lost its end holds the same slices.
LEMMA SliceOfCut ==
  ASSUME NEW bs \in Seq(Byte), NEW n \in Nat, n <= Len(bs),
         NEW from \in Nat, NEW to \in Nat, from <= to, to <= n
  PROVE  Slice(SubSeq(bs, 1, n), from, to) = Slice(bs, from, to)
<1> DEFINE c == SubSeq(bs, 1, n)
<1>1. c \in Seq(Byte) /\ Len(c) = n /\ \A i \in 1 .. n : c[i] = bs[i]
  OBVIOUS
<1> HIDE DEF c
<1> DEFINE x == Slice(c, from, to)  y == Slice(bs, from, to)
<1>2. x \in Seq(Byte) /\ Len(x) = to - from /\ \A i \in 1 .. to - from : x[i] = c[from + i]
  BY <1>1, SliceFacts
<1>3. y \in Seq(Byte) /\ Len(y) = to - from /\ \A i \in 1 .. to - from : y[i] = bs[from + i]
  <2>1. to <= Len(bs)
    OBVIOUS
  <2> QED  BY <2>1, SliceFacts
<1> HIDE DEF x, y
<1>4. \A i \in 1 .. to - from : from + i \in 1 .. n
  OBVIOUS
<1>5. x = y
  <2>1. \A i \in 1 .. to - from : x[i] = y[i]
    <3> TAKE i \in 1 .. to - from
    <3>1. c[from + i] = bs[from + i]
      BY <1>1, <1>4
    <3> QED  BY <1>2, <1>3, <3>1
  <2>2. Len(x) = Len(y) /\ \A i \in 1 .. Len(x) : x[i] = y[i]
    BY <1>2, <1>3, <2>1
  <2> QED  BY <1>2, <1>3, <2>2, SameSeq
<1> QED  BY <1>5 DEF x, y, c

LEMMA SliceOfSlice ==
  ASSUME NEW bs \in Seq(Byte), NEW p \in Nat, NEW n \in Nat, p <= n, n <= Len(bs),
         NEW from \in Nat, NEW to \in Nat, from <= to, p + to <= n
  PROVE  Slice(Slice(bs, p, n), from, to) = Slice(bs, p + from, p + to)
<1> DEFINE c == Slice(bs, p, n)
<1>1. c \in Seq(Byte) /\ Len(c) = n - p /\ \A i \in 1 .. n - p : c[i] = bs[p + i]
  BY SliceFacts
<1> HIDE DEF c
<1> DEFINE x == Slice(c, from, to)  l == p + from  r == p + to  y == Slice(bs, l, r)
<1>2. x \in Seq(Byte) /\ Len(x) = to - from /\ \A i \in 1 .. to - from : x[i] = c[from + i]
  <2>1. to <= Len(c)
    BY <1>1
  <2> QED  BY <1>1, <2>1, SliceFacts
<1>3. l \in Nat /\ r \in Nat /\ l <= r /\ r <= Len(bs) /\ r - l = to - from
  OBVIOUS
<1>4. \A i \in 1 .. to - from : from + i \in 1 .. n - p /\ p + (from + i) = l + i
  OBVIOUS
<1> HIDE DEF l, r
<1>5. y \in Seq(Byte) /\ Len(y) = r - l /\ \A i \in 1 .. r - l : y[i] = bs[l + i]
  BY <1>3, SliceFacts
<1> HIDE DEF x, y
<1>6. \A i \in 1 .. to - from : x[i] = y[i]
  BY <1>1, <1>2, <1>3, <1>4, <1>5
<1>7. x = y
  <2>1. Len(x) = Len(y) /\ \A i \in 1 .. Len(x) : x[i] = y[i]
    BY <1>2, <1>3, <1>5, <1>6
  <2> QED  BY <1>2, <1>5, <2>1, SameSeq
<1> QED  BY <1>7 DEF x, y, l, r, c

-----------------------------------------------------------------------------
(* Words, hashes and offsets one after another.                              *)

LEMMA BlocksElement ==
  ASSUME NEW len \in Nat \ {0}, NEW c \in Nat, NEW j \in 1 .. c, NEW i \in 1 .. len
  PROVE  /\ (j - 1) * len + i \in 1 .. c * len
         /\ (((j - 1) * len + i) - 1) \div len + 1 = j
         /\ ((((j - 1) * len + i) - 1) % len) + 1 = i
<1> DEFINE q == j - 1  r == i - 1  n == q * len + r
<1>1. q \in Nat /\ r \in Nat /\ r < len /\ j = q + 1 /\ i = r + 1
  OBVIOUS
<1>2. q * len \in Nat
  BY <1>1
<1> HIDE DEF q, r
<1>3. n \in Nat /\ n \div len = q /\ n % len = r
  <2>1. n \in Nat /\ n = q * len + r
    BY <1>1, <1>2
  <2> HIDE DEF n
  <2> QED  BY <1>1, <2>1, DivUnique
<1>4. (q * len + i) - 1 = n
  BY <1>1, <1>2
<1>5. q * len + i \in 1 .. c * len
  <2>1. (q + 1) * len <= c * len
    BY <1>1, Z3
  <2>2. (q + 1) * len = q * len + len
    BY <1>1, Z3
  <2>3. c * len \in Nat
    OBVIOUS
  <2> QED  BY <1>1, <1>2, <2>1, <2>2, <2>3
<1> QED  BY <1>1, <1>3, <1>4, <1>5 DEF q

\* Every byte of blocks is a byte of one of them.
LEMMA BlocksIndex ==
  ASSUME NEW len \in Nat \ {0}, NEW c \in Nat, NEW k \in 1 .. c * len
  PROVE  (k - 1) \div len + 1 \in 1 .. c /\ ((k - 1) % len) + 1 \in 1 .. len
<1> DEFINE n == k - 1  q == n \div len  r == n % len
<1>1. c * len \in Nat
  OBVIOUS
<1>2. n \in Nat /\ n < c * len
  BY <1>1
<1>3. q \in Nat /\ r \in Nat /\ r < len /\ n = q * len + r
  <2> HIDE DEF n
  <2> QED  BY <1>2, DivFacts
<1> HIDE DEF n, q, r
<1>4. q < c
  <2> SUFFICES ASSUME q >= c PROVE FALSE
    BY <1>3
  <2>1. q * len >= c * len
    BY <1>3, Z3
  <2>2. q * len \in Nat
    BY <1>3
  <2> QED  BY <1>1, <1>2, <1>3, <2>1, <2>2
<1> QED  BY <1>3, <1>4 DEF n, q, r

LEMMA BlocksType ==
  ASSUME NEW len \in Nat \ {0}, NEW list \in Seq(Below(len))
  PROVE  /\ Blocks(list, len) \in Seq(Byte)
         /\ Len(Blocks(list, len)) = Len(list) * len
         /\ \A j \in 1 .. Len(list), i \in 1 .. len :
              Blocks(list, len)[(j - 1) * len + i] = Digits(list[j], len)[i]
<1> DEFINE c == Len(list)
           D(j) == Digits(list[j], len)
           at(k) == D((k - 1) \div len + 1)[((k - 1) % len) + 1]
           B == [k \in 1 .. c * len |-> at(k)]
<1>1. c \in Nat /\ c * len \in Nat
  OBVIOUS
<1>2. ASSUME NEW j \in 1 .. c PROVE D(j) \in Seq(Byte) /\ Len(D(j)) = len
  <2>1. list[j] \in Below(len)
    OBVIOUS
  <2>2. Power[len] \in Nat
    BY PowerFacts
  <2>3. list[j] \in Nat
    BY <2>1, <2>2 DEF Below
  <2> QED  BY <2>3, DigitsType
<1>3. Blocks(list, len) = B
  BY DEF Blocks
<1> HIDE DEF c, D
<1>4. \A k \in 1 .. c * len : at(k) \in Byte
  <2> TAKE k \in 1 .. c * len
  <2>1. (k - 1) \div len + 1 \in 1 .. c /\ ((k - 1) % len) + 1 \in 1 .. len
    BY <1>1, BlocksIndex
  <2> DEFINE j == (k - 1) \div len + 1  i == ((k - 1) % len) + 1
  <2> HIDE DEF j, i
  <2>2. D(j) \in Seq(Byte) /\ i \in 1 .. Len(D(j))
    BY <1>2, <2>1 DEF j, i
  <2>3. D(j)[i] \in Byte
    BY <2>2
  <2> QED  BY <2>3 DEF j, i
<1>5. ASSUME NEW j \in 1 .. c, NEW i \in 1 .. len PROVE B[(j - 1) * len + i] = D(j)[i]
  <2> DEFINE k == (j - 1) * len + i
  <2>1. k \in 1 .. c * len /\ (k - 1) \div len + 1 = j /\ ((k - 1) % len) + 1 = i
    BY <1>1, BlocksElement
  <2> HIDE DEF k
  <2>2. B[k] = D(j)[i]
    BY <2>1
  <2> QED  BY <2>2 DEF k
<1> HIDE DEF at
<1>6. B \in Seq(Byte) /\ Len(B) = c * len
  BY <1>1, <1>4
<1> HIDE DEF B
<1>7. /\ Blocks(list, len) \in Seq(Byte)
      /\ Len(Blocks(list, len)) = c * len
      /\ \A j \in 1 .. c, i \in 1 .. len : Blocks(list, len)[(j - 1) * len + i] = D(j)[i]
  BY <1>3, <1>5, <1>6
<1> QED  BY <1>7 DEF c, D

LEMMA BlockSlice ==
  ASSUME NEW len \in Nat \ {0}, NEW list \in Seq(Below(len)), NEW j \in 1 .. Len(list)
  PROVE  /\ (j - 1) * len \in Nat /\ j * len \in Nat
         /\ (j - 1) * len <= j * len /\ j * len <= Len(list) * len
         /\ Slice(Blocks(list, len), (j - 1) * len, j * len) = Digits(list[j], len)
<1> DEFINE c == Len(list)  B == Blocks(list, len)  D == Digits(list[j], len)
           from == (j - 1) * len  to == j * len
<1>1. B \in Seq(Byte) /\ Len(B) = c * len /\ \A i \in 1 .. len : B[from + i] = D[i]
  BY BlocksType
<1>2. D \in Seq(Byte) /\ Len(D) = len
  <2>1. list[j] \in Below(len) /\ Power[len] \in Nat
    <3>1. list[j] \in Below(len)
      OBVIOUS
    <3> QED  BY <3>1, PowerFacts
  <2>2. list[j] \in Nat
    BY <2>1 DEF Below
  <2> QED  BY <2>2, DigitsType
<1>3. from \in Nat /\ to \in Nat /\ to = from + len /\ to <= c * len
  <2>1. c \in Nat /\ j <= c
    OBVIOUS
  <2> HIDE DEF c
  <2>2. from + len = to
    BY Z3
  <2>3. to <= c * len
    BY <2>1, Z3
  <2> QED  BY <2>2, <2>3
<1> HIDE DEF c, B, D, from, to
<1> DEFINE x == Slice(B, from, to)
<1>4. x \in Seq(Byte) /\ Len(x) = to - from /\ \A i \in 1 .. to - from : x[i] = B[from + i]
  <2>1. from <= to /\ to <= Len(B)
    BY <1>1, <1>3
  <2> QED  BY <1>1, <1>3, <2>1, SliceFacts
<1> HIDE DEF x
<1>5. to - from = len
  BY <1>3
<1>6. x = D
  <2>1. Len(x) = Len(D) /\ \A i \in 1 .. Len(x) : x[i] = D[i]
    BY <1>1, <1>2, <1>4, <1>5
  <2> QED  BY <1>2, <1>4, <2>1, SameSeq
<1> QED  BY <1>3, <1>6 DEF c, B, D, from, to, x

\* The first k blocks hold the first k words, hashes or offsets.
LEMMA UnblockedPrefix ==
  ASSUME NEW len \in Nat \ {0}, NEW list \in Seq(Below(len)), NEW k \in 0 .. Len(list),
         NEW bs, bs = SubSeq(Blocks(list, len), 1, k * len)
  PROVE  Len(bs) = k * len /\ Unblocked(bs, len) = SubSeq(list, 1, k)
<1> DEFINE c == Len(list)  B == Blocks(list, len)  l == k * len
<1>1. c \in Nat /\ k \in Nat /\ k <= c
  OBVIOUS
<1>2. B \in Seq(Byte) /\ Len(B) = c * len
  BY BlocksType
<1>3. l \in Nat /\ l <= c * len /\ c * len \in Nat
  <2> HIDE DEF c
  <2> QED  BY <1>1, Z3
<1>4. Len(bs) = l
  <2> HIDE DEF B, l
  <2>1. Len(SubSeq(B, 1, l)) = l
    BY <1>2, <1>3
  <2> QED  BY <2>1 DEF B, l
<1>5. l \div len = k
  <2>1. l = k * len + 0
    BY <1>1
  <2> HIDE DEF l
  <2> QED  BY <1>1, <1>3, <2>1, DivUnique
<1>6. ASSUME NEW j \in 1 .. k
      PROVE  Number(Slice(bs, (j - 1) * len, j * len)) = list[j]
  <2> DEFINE from == (j - 1) * len  to == j * len
  <2>1. j \in 1 .. Len(list)
    OBVIOUS
  <2>2. /\ from \in Nat /\ to \in Nat /\ from <= to /\ to <= c * len
        /\ Slice(B, from, to) = Digits(list[j], len)
    BY <2>1, BlockSlice
  <2>3. to <= l
    BY <1>1, Z3
  <2> HIDE DEF from, to, l, B, c
  <2>4. Slice(SubSeq(B, 1, l), from, to) = Slice(B, from, to)
    BY <1>2, <1>3, <2>2, <2>3, SliceOfCut
  <2>5. list[j] \in Below(len)
    BY <2>1
  <2>6. Number(Slice(bs, from, to)) = list[j]
    BY <2>2, <2>4, <2>5, NumberOfDigits DEF B, l
  <2> QED  BY <2>6 DEF from, to
<1> HIDE DEF B, l
<1> DEFINE num(j) == Number(Slice(bs, (j - 1) * len, j * len))
<1>7. Unblocked(bs, len) = [j \in 1 .. k |-> num(j)]
  BY <1>4, <1>5 DEF Unblocked
<1>8. \A j \in 1 .. k : num(j) = list[j]
  BY <1>6
<1> HIDE DEF num
<1>9. Unblocked(bs, len) = [j \in 1 .. k |-> list[j]]
  BY <1>7, <1>8
<1>10. SubSeq(list, 1, k) = [j \in 1 .. k |-> list[j]]
  BY <1>1
<1> QED  BY <1>4, <1>9, <1>10 DEF l

LEMMA UnblockedAll ==
  ASSUME NEW len \in Nat \ {0}, NEW list \in Seq(Below(len))
  PROVE  Unblocked(Blocks(list, len), len) = list
<1> DEFINE c == Len(list)  B == Blocks(list, len)
<1>1. c \in 0 .. Len(list) /\ B \in Seq(Byte) /\ Len(B) = c * len
  BY BlocksType
<1>2. SubSeq(B, 1, c * len) = B
  <2> HIDE DEF B, c
  <2> QED  BY <1>1
<1>3. Unblocked(B, len) = SubSeq(list, 1, c)
  BY <1>1, <1>2, UnblockedPrefix
<1> QED  BY <1>3

-----------------------------------------------------------------------------
(* Varints of one or two groups.                                             *)

LEMMA GroupFacts == Group \in Nat /\ Group > 0 /\ Group + Group = Base
<1>1. Base \in Nat /\ Base > 2 /\ Base % 2 = 0
  BY CodecAssumption DEF Older
<1>2. Base \div 2 \in Nat /\ Base = (Base \div 2) * 2 + (Base % 2)
  BY <1>1, DivFacts
<1> QED  BY <1>1, <1>2 DEF Group

TwoGroups(n) == n < Group * Group

LEMMA VarintType ==
  ASSUME NEW n \in Nat, TwoGroups(n)
  PROVE  /\ Varint(n) \in Seq(Byte)
         /\ n < Group => Varint(n) = <<n>>
         /\ n >= Group => /\ Len(Varint(n)) = 2
                          /\ Varint(n)[1] \in Nat /\ Varint(n)[2] \in Nat
                          /\ Varint(n)[1] >= Group
                          /\ (Varint(n)[1] - Group) + Group * Varint(n)[2] = n
<1> DEFINE g == Group  q == n \div g  r == n % g
<1>1. g \in Nat /\ g > 0 /\ g + g = Base
  BY GroupFacts
<1>2. q \in Nat /\ r \in Nat /\ r < g /\ n = q * g + r
  <2> HIDE DEF g
  <2> QED  BY <1>1, DivFacts
<1>3. n < g * g
  BY DEF TwoGroups
<1>4. Varint(n) = IF n < g THEN <<n>> ELSE <<g + r, q>>
  BY DEF Varint
<1> HIDE DEF g, q, r
<1>5. q < g
  <2> SUFFICES ASSUME q >= g PROVE FALSE
    BY <1>1, <1>2
  <2>1. q * g >= g * g
    BY <1>1, <1>2, Z3
  <2>2. q * g \in Nat /\ g * g \in Nat
    BY <1>1, <1>2
  <2> QED  BY <1>2, <1>3, <2>1, <2>2
<1>6. q \in Byte /\ g + r \in Byte /\ (n < g => n \in Byte)
  BY <1>1, <1>2, <1>5 DEF Byte
<1>7. CASE n < g
  <2>1. Varint(n) = <<n>> /\ ~(n >= g)
    BY <1>1, <1>4, <1>7
  <2> QED  BY <1>6, <1>7, <2>1 DEF g
<1>8. CASE n >= g
  <2>1. Varint(n) = <<g + r, q>> /\ ~(n < g)
    BY <1>1, <1>4, <1>8
  <2>2. ((g + r) - g) + g * q = n
    <3>1. g * q = q * g /\ q * g \in Nat
      BY <1>1, <1>2
    <3> QED  BY <1>1, <1>2, <3>1
  <2>3. <<g + r, q>> \in Seq(Byte)
    BY <1>6
  <2>4. g + r \in Nat /\ g + r >= g
    BY <1>1, <1>2
  <2>5. Varint(n)[1] = g + r /\ Varint(n)[2] = q /\ Len(Varint(n)) = 2
    BY <2>1
  <2>6. /\ Varint(n)[1] \in Nat /\ Varint(n)[2] \in Nat /\ Varint(n)[1] >= g
        /\ (Varint(n)[1] - g) + g * Varint(n)[2] = n
    BY <1>2, <2>2, <2>4, <2>5
  <2>7. Varint(n) \in Seq(Byte)
    BY <2>1, <2>3
  <2> QED  BY <2>1, <2>5, <2>6, <2>7 DEF g
<1> QED  BY <1>1, <1>7, <1>8

\* Uvarint reads what PutUvarint wrote, whatever follows.
LEMMA UvarintReads ==
  ASSUME NEW n \in Nat, TwoGroups(n), NEW bs \in Seq(Byte),
         Len(bs) >= Len(Varint(n)),
         \A i \in 1 .. Len(Varint(n)) : bs[i] = Varint(n)[i]
  PROVE  Uvarint(bs) = <<n, Len(Varint(n))>>
<1> DEFINE w == Varint(n)
<1>0. Group \in Nat /\ Group > 0
  BY GroupFacts
<1>1. CASE n < Group
  <2>1. w = <<n>> /\ Len(w) = 1 /\ w[1] = n
    BY <1>1, VarintType
  <2>2. bs[1] = n /\ bs # <<>>
    BY <2>1
  <2>3. Uvarint(bs) = <<bs[1], 1>>
    <3>1. bs # <<>> /\ bs[1] < Group /\ ~(bs[1] >= Group)
      BY <1>0, <1>1, <2>2
    <3> QED  BY <3>1 DEF Uvarint
  <2> HIDE DEF w
  <2> QED  BY <2>1, <2>2, <2>3 DEF w
<1>2. CASE n >= Group
  <2>1. /\ Len(w) = 2 /\ w[1] \in Nat /\ w[2] \in Nat /\ w[1] >= Group
        /\ (w[1] - Group) + Group * w[2] = n
    BY <1>2, VarintType
  <2>2. bs[1] = w[1] /\ bs[2] = w[2] /\ Len(bs) > 1
    BY <2>1
  <2> HIDE DEF w
  <2>3. ~(bs[1] < Group)
    BY <1>0, <2>1, <2>2
  <2>4. Uvarint(bs) = <<bs[1] - Group + Group * bs[2], 2>>
    BY <2>1, <2>2, <2>3 DEF Uvarint
  <2>5. bs[1] - Group + Group * bs[2] = n
    BY <2>1, <2>2
  <2> QED  BY <2>1, <2>4, <2>5 DEF w
<1> QED  BY <1>0, <1>1, <1>2

\* A varint that was cut is not read as another one.
LEMMA UvarintCut ==
  ASSUME NEW n \in Nat, TwoGroups(n), NEW bs \in Seq(Byte),
         Len(bs) < Len(Varint(n)),
         \A i \in 1 .. Len(bs) : bs[i] = Varint(n)[i]
  PROVE  Uvarint(bs) = <<0, 0>>
<1> DEFINE w == Varint(n)
<1>0. Group \in Nat /\ Group > 0
  BY GroupFacts
<1>1. CASE Len(bs) = 0
  <2>1. bs = <<>> /\ ~(Len(bs) > 1)
    BY <1>1
  <2> QED  BY <2>1 DEF Uvarint
<1>2. CASE Len(bs) # 0
  <2>1. n >= Group
    <3> SUFFICES ASSUME n < Group PROVE FALSE
      BY <1>0
    <3>1. Len(w) = 1
      BY VarintType
    <3> QED  BY <1>2, <3>1
  <2>2. Len(w) = 2 /\ w[1] \in Nat /\ w[1] >= Group
    BY <2>1, VarintType
  <2> HIDE DEF w
  <2>3. Len(bs) = 1
    <3>1. Len(bs) \in Nat
      OBVIOUS
    <3>2. Len(bs) < 2
      BY <2>2 DEF w
    <3> DEFINE l == Len(bs)
    <3>3. l \in Nat /\ l < 2 /\ l # 0
      BY <1>2, <3>1, <3>2
    <3> HIDE DEF l
    <3>4. l = 1
      BY ONLY <3>3, SMT
    <3> QED  BY <3>4 DEF l
  <2>4. bs[1] = w[1]
    BY <2>3 DEF w
  <2>5. ~(bs[1] < Group) /\ ~(Len(bs) > 1)
    BY <1>0, <2>2, <2>3, <2>4
  <2> QED  BY <2>5 DEF Uvarint
<1> QED  BY <1>1, <1>2

-----------------------------------------------------------------------------
(* The parts of an encoding: header, range, tail.                            *)

FlagOf(v)      == LET f == Formats[v.format] IN IF f.flag = 0 THEN <<>> ELSE <<f.flag>>
HeaderOf(v)    == FlagOf(v) \o Blocks(v.words, WordLen)
StoredRange(v) == LET f == Formats[v.format]
                  IN  IF f.range THEN Framed(f, SerializeRange(v.range)) ELSE <<>>
TailOf(v)      == Blocks(v.tail, Formats[v.format].tail)

LEMMA FormatFacts ==
  ASSUME NEW name \in DOMAIN Formats, NEW f, f = Formats[name]
  PROVE  /\ f.flag \in {0, Latest, Older} /\ f.words \in Nat /\ f.tail \in Nat
         /\ f.range \in BOOLEAN /\ f.framed \in BOOLEAN
         /\ f.framed => f.range
         /\ FlagLen(f) \in Nat /\ HeaderLen(f) \in Nat /\ FlagLen(f) <= HeaderLen(f)
<1>0. OffLen \in Nat /\ WordLen \in Nat
  BY CodecAssumption
<1>1. name \in {"chunk", "flat", "log_latest", "log_older", "sealing_latest",
                "sealing_older", "scan_latest", "scan_older"}
  BY DEF Formats
<1>2. /\ f.flag \in {0, Latest, Older} /\ f.words \in {0, 1, 2} /\ f.tail \in Nat
      /\ f.range \in BOOLEAN /\ f.framed \in BOOLEAN
      /\ f.framed => f.range
  <2>1. Formats["chunk"] = Format(0, 0, TRUE, FALSE, OffLen)
    BY DEF Formats
  <2>2. Formats["flat"] = Format(0, 0, TRUE, TRUE, WordLen)
    BY DEF Formats
  <2>3. Formats["log_latest"] = Format(Latest, 0, TRUE, TRUE, 0)
    BY DEF Formats
  <2>4. Formats["log_older"] = Format(Older, 0, FALSE, FALSE, 0)
    BY DEF Formats
  <2>5. Formats["sealing_latest"] = Format(Latest, 2, TRUE, TRUE, OffLen)
    BY DEF Formats
  <2>6. Formats["sealing_older"] = Format(Older, 2, FALSE, FALSE, OffLen)
    BY DEF Formats
  <2>7. Formats["scan_latest"] = Format(Latest, 1, TRUE, TRUE, OffLen)
    BY DEF Formats
  <2>8. Formats["scan_older"] = Format(Older, 0, FALSE, FALSE, OffLen)
    BY DEF Formats
  <2> DEFINE Good(g) == /\ g.flag \in {0, Latest, Older} /\ g.words \in {0, 1, 2} /\ g.tail \in Nat
                        /\ g.range \in BOOLEAN /\ g.framed \in BOOLEAN
                        /\ g.framed => g.range
  <2>9. \A flag \in {0, Latest, Older}, words \in {0, 1, 2}, range \in BOOLEAN,
          framed \in BOOLEAN, tail \in {0, WordLen, OffLen} :
          (framed => range) => Good(Format(flag, words, range, framed, tail))
    BY <1>0 DEF Format
  <2> HIDE DEF Good
  <2>10. Good(f)
    BY <1>1, <2>1, <2>2, <2>3, <2>4, <2>5, <2>6, <2>7, <2>8, <2>9
  <2> QED  BY <2>10 DEF Good
<1>3. FlagLen(f) \in {0, 1}
  BY DEF FlagLen
<1>4. f.words * WordLen \in Nat
  BY <1>0, <1>2
<1> QED  BY <1>2, <1>3, <1>4 DEF HeaderLen

LEMMA HeaderParts ==
  ASSUME NEW v, IsValue(v), NEW f, f = Formats[v.format]
  PROVE  /\ HeaderOf(v) \in Seq(Byte) /\ Len(HeaderOf(v)) = HeaderLen(f)
         /\ f.flag # 0 => HeaderLen(f) >= 1 /\ HeaderOf(v)[1] = f.flag
         /\ Slice(HeaderOf(v), FlagLen(f), HeaderLen(f)) = Blocks(v.words, WordLen)
<1>0. /\ f.flag \in {0, Latest, Older} /\ f.words \in Nat
      /\ FlagLen(f) \in Nat /\ HeaderLen(f) \in Nat /\ FlagLen(f) <= HeaderLen(f)
  <2>1. v.format \in DOMAIN Formats
    BY DEF IsValue
  <2> QED  BY <2>1, FormatFacts
<1>1. v.words \in Seq(Below(WordLen)) /\ Len(v.words) = f.words /\ WordLen \in Nat \ {0}
  BY CodecAssumption DEF IsValue
<1> DEFINE W == Blocks(v.words, WordLen)  F == FlagOf(v)
<1>2. W \in Seq(Byte) /\ Len(W) = f.words * WordLen
  BY <1>1, BlocksType
<1>3. f.flag \in Byte
  BY <1>0, CodecAssumption DEF Latest, Older, Byte
<1>4. F \in Seq(Byte) /\ Len(F) = FlagLen(f) /\ (f.flag # 0 => Len(F) = 1 /\ F[1] = f.flag)
  BY <1>3 DEF FlagOf, FlagLen
<1>5. HeaderOf(v) = F \o W
  BY DEF HeaderOf
<1>6. HeaderLen(f) = Len(F) + Len(W)
  BY <1>2, <1>4 DEF HeaderLen
<1> HIDE DEF F, W
<1> DEFINE h == F \o W  lf == Len(F)  lw == Len(W)
<1>7. /\ h \in Seq(Byte) /\ Len(h) = lf + lw
      /\ \A i \in 1 .. Len(F) : h[i] = F[i]
  BY <1>2, <1>4, Joined
<1>8. Slice(h, lf + 0, lf + lw) = Slice(W, 0, lw)
  <2>1. 0 \in Nat /\ lw \in Nat /\ 0 <= lw /\ lw <= Len(W)
    BY <1>2
  <2> QED  BY <1>2, <1>4, <2>1, SliceRight
<1>9. Slice(W, 0, lw) = W
  BY <1>2 DEF Slice
<1>10. lf \in Nat /\ lw \in Nat
  BY <1>2, <1>4
<1>11. f.flag # 0 => HeaderLen(f) >= 1 /\ h[1] = f.flag
  <2> HIDE DEF h
  <2> QED  BY <1>4, <1>6, <1>7, <1>10
<1> HIDE DEF h, lf, lw
<1>12. lf + 0 = lf /\ HeaderLen(f) = lf + lw /\ FlagLen(f) = lf
  BY <1>4, <1>6, <1>10 DEF lf, lw
<1> QED  BY <1>5, <1>7, <1>8, <1>9, <1>11, <1>12 DEF h, W

LEMMA TailParts ==
  ASSUME NEW v, IsValue(v), NEW f, f = Formats[v.format]
  PROVE  TailOf(v) \in Seq(Byte) /\ Len(TailOf(v)) = Len(v.tail) * f.tail
         /\ Len(v.tail) \in Nat /\ f.tail \in Nat
<1>0. f.tail \in Nat
  <2>1. v.format \in DOMAIN Formats
    BY DEF IsValue
  <2> QED  BY <2>1, FormatFacts
<1>1. IF f.tail = 0 THEN v.tail = <<>> ELSE v.tail \in Seq(Below(f.tail))
  BY DEF IsValue
<1>2. CASE f.tail = 0
  <2>1. v.tail = <<>> /\ Len(v.tail) = 0 /\ Len(v.tail) * f.tail = 0
    BY <1>1, <1>2
  <2>2. TailOf(v) = <<>>
    <3> DEFINE at(k) == Digits(v.tail[(k-1) \div f.tail + 1], f.tail)[((k-1) % f.tail) + 1]
    <3>1. TailOf(v) = [k \in 1 .. Len(v.tail) * f.tail |-> at(k)]
      BY DEF TailOf, Blocks
    <3> HIDE DEF at
    <3>2. TailOf(v) = [k \in 1 .. 0 |-> at(k)]
      BY <2>1, <3>1
    <3> QED  BY <3>2
  <2> QED  BY <1>0, <2>1, <2>2
<1>3. CASE f.tail # 0
  <2>1. f.tail \in Nat \ {0} /\ v.tail \in Seq(Below(f.tail))
    BY <1>0, <1>1, <1>3
  <2>2. Len(v.tail) \in Nat
    BY <2>1
  <2> QED  BY <1>0, <2>1, <2>2, BlocksType DEF TailOf
<1> QED  BY <1>2, <1>3

\* The number of hashes of a range follows from its size, so that a range tells where
\* it ends.
LEMMA RangeParts ==
  ASSUME NEW v, IsValue(v), Formats[v.format].range, NEW sr, sr = SerializeRange(v.range)
  PROVE  /\ sr \in Seq(Byte) /\ Len(sr) \in Nat /\ Len(sr) >= WordLen
         /\ RangeOf(sr) = v.range
         /\ TwoGroups(Len(sr))
         /\ \A bs : Slice(bs, 0, WordLen) = Slice(sr, 0, WordLen) => RangeLen(bs) = Len(sr)
<1> DEFINE size == v.range.size  hashes == v.range.hashes
           D == Digits(size, WordLen)  B == Blocks(hashes, HashLen)
<1>1. /\ v.range = [size |-> size, hashes |-> hashes]
      /\ size \in Below(WordLen) /\ hashes \in Seq(Below(HashLen))
      /\ Len(hashes) = OnesCount(size)
      /\ WordLen + HashLen * Len(hashes) < Group * Group
  BY DEF IsValue
<1>2. WordLen \in Nat \ {0} /\ HashLen \in Nat \ {0}
  BY CodecAssumption
<1>3. D \in Seq(Byte) /\ Len(D) = WordLen /\ Number(D) = size
  <2>1. Power[WordLen] \in Nat
    BY <1>2, PowerFacts
  <2>2. size \in Nat
    BY <1>1, <2>1 DEF Below
  <2> QED  BY <1>1, <1>2, <2>2, DigitsType, NumberOfDigits
<1>4. B \in Seq(Byte) /\ Len(B) = Len(hashes) * HashLen /\ Unblocked(B, HashLen) = hashes
  BY <1>1, <1>2, BlocksType, UnblockedAll
<1>5. sr = D \o B
  BY DEF SerializeRange
<1>6. Len(hashes) \in Nat
  BY <1>1
<1> HIDE DEF size, hashes, D, B
<1>7. sr \in Seq(Byte) /\ Len(sr) = WordLen + Len(B)
  BY <1>3, <1>4, <1>5, Joined
<1>8. Len(hashes) * HashLen = HashLen * Len(hashes) /\ HashLen * Len(hashes) \in Nat
  BY <1>2, <1>6
<1>9. Len(sr) = WordLen + HashLen * Len(hashes)
  BY <1>4, <1>7, <1>8
<1>10. Slice(sr, 0, WordLen) = D
  <2>1. Slice(D \o B, 0, WordLen) = Slice(D, 0, WordLen)
    BY <1>2, <1>3, <1>4, SliceLeft
  <2>2. Slice(D, 0, WordLen) = D
    BY <1>3 DEF Slice
  <2> QED  BY <1>5, <2>1, <2>2
<1>11. Rest(sr, WordLen) = B
  <2> DEFINE lb == Len(B)
  <2>1. lb \in Nat
    BY <1>4
  <2>2. Slice(D \o B, Len(D) + 0, Len(D) + lb) = Slice(B, 0, lb)
    BY <1>3, <1>4, <2>1, SliceRight
  <2>3. Slice(B, 0, lb) = B
    BY <1>4 DEF Slice
  <2> HIDE DEF lb
  <2>4. Len(D) + 0 = WordLen /\ Len(D) + lb = Len(sr)
    BY <1>2, <1>3, <1>7, <2>1 DEF lb
  <2> QED  BY <1>5, <2>2, <2>3, <2>4 DEF Rest
<1>12. RangeOf(sr) = v.range
  BY <1>1, <1>3, <1>4, <1>10, <1>11 DEF RangeOf
<1>13. TwoGroups(Len(sr))
  BY <1>1, <1>9 DEF TwoGroups
<1>14. ASSUME NEW bs, Slice(bs, 0, WordLen) = Slice(sr, 0, WordLen)
       PROVE  RangeLen(bs) = Len(sr)
  <2>1. RangeLen(bs) = WordLen + HashLen * OnesCount(size)
    BY <1>3, <1>10, <1>14 DEF RangeLen
  <2> QED  BY <1>1, <1>9, <2>1
<1>15. Len(sr) \in Nat /\ Len(sr) >= WordLen
  BY <1>2, <1>8, <1>9
<1> QED  BY <1>7, <1>12, <1>13, <1>14, <1>15

LEMMA ThreeParts ==
  ASSUME NEW a \in Seq(Byte), NEW b \in Seq(Byte), NEW c \in Seq(Byte),
         NEW from \in Nat, NEW to \in Nat, from <= to
  PROVE  /\ to <= Len(a) => Slice((a \o b) \o c, from, to) = Slice(a, from, to)
         /\ to <= Len(b) => Slice((a \o b) \o c, Len(a) + from, Len(a) + to) = Slice(b, from, to)
         /\ to <= Len(c) => Slice((a \o b) \o c, Len(a) + Len(b) + from, Len(a) + Len(b) + to)
                              = Slice(c, from, to)
<1> DEFINE ab == a \o b  ec == ab \o c  la == Len(a)  lb == Len(b)
<1>1. ab \in Seq(Byte) /\ Len(ab) = la + lb
  BY Joined
<1>2. la \in Nat /\ lb \in Nat
  OBVIOUS
<1>3. ASSUME to <= la PROVE Slice(ec, from, to) = Slice(a, from, to)
  <2>1. Slice(ab, from, to) = Slice(a, from, to)
    BY <1>3, SliceLeft
  <2> HIDE DEF ab
  <2>2. to <= Len(ab)
    BY <1>1, <1>2, <1>3
  <2>3. Slice(ec, from, to) = Slice(ab, from, to)
    BY <1>1, <2>2, SliceLeft
  <2> QED  BY <2>1, <2>3
<1>4. ASSUME to <= lb PROVE Slice(ec, la + from, la + to) = Slice(b, from, to)
  <2>1. Slice(ab, la + from, la + to) = Slice(b, from, to)
    BY <1>4, SliceRight
  <2> HIDE DEF ab
  <2> DEFINE p == la + from  q == la + to
  <2>2. p \in Nat /\ q \in Nat /\ p <= q /\ q <= Len(ab)
    BY <1>1, <1>2, <1>4
  <2> HIDE DEF p, q
  <2>3. Slice(ec, p, q) = Slice(ab, p, q)
    BY <1>1, <2>2, SliceLeft
  <2> QED  BY <2>1, <2>3 DEF p, q
<1> HIDE DEF ab
<1>5. ASSUME to <= Len(c) PROVE Slice(ec, la + lb + from, la + lb + to) = Slice(c, from, to)
  <2>1. Slice(ec, Len(ab) + from, Len(ab) + to) = Slice(c, from, to)
    BY <1>1, <1>5, SliceRight
  <2> QED  BY <1>1, <2>1
<1> QED  BY <1>3, <1>4, <1>5 DEF ab

\* The varint before a framed range.
FrameOf(v) == IF Formats[v.format].framed THEN Varint(Len(SerializeRange(v.range))) ELSE <<>>

LEMMA StoredRangeParts ==
  ASSUME NEW v, IsValue(v), NEW f, f = Formats[v.format]
  PROVE  /\ StoredRange(v) \in Seq(Byte)
         /\ ~f.range => StoredRange(v) = <<>>
         /\ f.range => /\ FrameOf(v) \in Seq(Byte)
                       /\ StoredRange(v) = FrameOf(v) \o SerializeRange(v.range)
<1>1. CASE ~f.range
  BY <1>1 DEF StoredRange
<1>2. CASE f.range
  <2> DEFINE sr == SerializeRange(v.range)
  <2>1. sr \in Seq(Byte) /\ Len(sr) \in Nat /\ TwoGroups(Len(sr))
    BY <1>2, RangeParts
  <2> HIDE DEF sr
  <2>2. Varint(Len(sr)) \in Seq(Byte)
    BY <2>1, VarintType
  <2>3. FrameOf(v) = IF f.framed THEN Varint(Len(sr)) ELSE <<>>
    BY DEF FrameOf, sr
  <2>4. FrameOf(v) \in Seq(Byte)
    BY <2>2, <2>3
  <2>5. StoredRange(v) = FrameOf(v) \o sr
    BY <1>2, <2>3 DEF StoredRange, Framed, sr
  <2>6. FrameOf(v) \o sr \in Seq(Byte)
    BY <2>1, <2>4
  <2> QED  BY <1>2, <2>4, <2>5, <2>6 DEF sr
<1> QED  BY <1>1, <1>2

HeadLen(v) == HeaderLen(Formats[v.format])

LEMMA EncodedParts ==
  ASSUME NEW v, IsValue(v)
  PROVE  /\ Encoded(v) = (HeaderOf(v) \o StoredRange(v)) \o TailOf(v)
         /\ HeaderOf(v) \in Seq(Byte) /\ StoredRange(v) \in Seq(Byte) /\ TailOf(v) \in Seq(Byte)
         /\ Encoded(v) \in Seq(Byte)
         /\ Len(Encoded(v)) = HeadLen(v) + Len(StoredRange(v)) + Len(TailOf(v))
         /\ HeadLen(v) \in Nat /\ Len(StoredRange(v)) \in Nat /\ Len(TailOf(v)) \in Nat
<1>1. Encoded(v) = (HeaderOf(v) \o StoredRange(v)) \o TailOf(v)
  BY DEF Encoded, HeaderOf, FlagOf, StoredRange, TailOf
<1>2. HeaderOf(v) \in Seq(Byte) /\ Len(HeaderOf(v)) = HeadLen(v)
  BY HeaderParts DEF HeadLen
<1>3. StoredRange(v) \in Seq(Byte)
  BY StoredRangeParts
<1>4. TailOf(v) \in Seq(Byte)
  BY TailParts
<1> DEFINE a == HeaderOf(v)  b == StoredRange(v)  c == TailOf(v)
<1>5. a \in Seq(Byte) /\ b \in Seq(Byte) /\ c \in Seq(Byte)
  BY <1>2, <1>3, <1>4
<1> HIDE DEF a, b, c
<1>6. a \o b \in Seq(Byte) /\ Len(a \o b) = Len(a) + Len(b)
  BY <1>5, Joined
<1>7. (a \o b) \o c \in Seq(Byte) /\ Len((a \o b) \o c) = Len(a \o b) + Len(c)
  BY <1>5, <1>6, Joined
<1>8. Len(a) \in Nat /\ Len(b) \in Nat /\ Len(c) \in Nat
  BY <1>5
<1> QED  BY <1>1, <1>2, <1>5, <1>6, <1>7, <1>8 DEF a, b, c

CutTo(v, n, bs) ==
  /\ IsValue(v)
  /\ n \in 0 .. Len(Encoded(v))
  /\ bs = SubSeq(Encoded(v), 1, n)

\* What is left of an encoding after a cut is read slice by slice.
LEMMA CutParts ==
  ASSUME NEW v, NEW N, NEW bs, CutTo(v, N, bs),
         NEW from \in Nat, NEW to \in Nat, from <= to
  PROVE  /\ bs \in Seq(Byte) /\ Len(bs) = N /\ N \in Nat
         /\ to <= HeadLen(v) /\ to <= N => Slice(bs, from, to) = Slice(HeaderOf(v), from, to)
         /\ to <= Len(StoredRange(v)) /\ HeadLen(v) + to <= N =>
              Slice(bs, HeadLen(v) + from, HeadLen(v) + to) = Slice(StoredRange(v), from, to)
         /\ HeadLen(v) + Len(StoredRange(v)) + to <= N =>
              Slice(bs, HeadLen(v) + Len(StoredRange(v)) + from,
                        HeadLen(v) + Len(StoredRange(v)) + to) = Slice(TailOf(v), from, to)
<1> DEFINE e == Encoded(v)  a == HeaderOf(v)  b == StoredRange(v)  c == TailOf(v)
           la == HeadLen(v)  lb == Len(b)  lc == Len(c)
<1>1. /\ e = (a \o b) \o c
      /\ a \in Seq(Byte) /\ b \in Seq(Byte) /\ c \in Seq(Byte) /\ e \in Seq(Byte)
      /\ Len(e) = la + lb + lc
      /\ la \in Nat /\ lb \in Nat /\ lc \in Nat
  BY EncodedParts DEF CutTo
<1>2. la = Len(a)
  BY HeaderParts DEF HeadLen, CutTo
<1> HIDE DEF e, a, b, c, la
<1>3. /\ to <= la => Slice(e, from, to) = Slice(a, from, to)
      /\ to <= lb => Slice(e, la + from, la + to) = Slice(b, from, to)
      /\ to <= lc => Slice(e, la + lb + from, la + lb + to) = Slice(c, from, to)
  <2>1. /\ to <= Len(a) => Slice((a \o b) \o c, from, to) = Slice(a, from, to)
        /\ to <= Len(b) => Slice((a \o b) \o c, Len(a) + from, Len(a) + to) = Slice(b, from, to)
        /\ to <= Len(c) => Slice((a \o b) \o c, Len(a) + Len(b) + from, Len(a) + Len(b) + to)
                             = Slice(c, from, to)
    <3>1. a \in Seq(Byte) /\ b \in Seq(Byte) /\ c \in Seq(Byte)
      BY <1>1
    <3> QED  BY ONLY <3>1, ThreeParts, from \in Nat, to \in Nat, from <= to
  <2> QED  BY <1>1, <1>2, <2>1
<1> HIDE DEF lb, lc
<1>4. N \in Nat /\ N <= Len(e)
  <2>1. N \in 0 .. Len(e) /\ Len(e) \in Nat
    BY <1>1 DEF e, CutTo
  <2> QED  BY <2>1
<1>5. bs = SubSeq(e, 1, N) /\ bs \in Seq(Byte) /\ Len(bs) = N
  <2>1. bs = SubSeq(e, 1, N)
    BY DEF e, CutTo
  <2> QED  BY <1>1, <1>4, <2>1, CutType
<1>6. ASSUME NEW p \in Nat, NEW q \in Nat, p <= q, q <= N
      PROVE  Slice(bs, p, q) = Slice(e, p, q)
  <2>1. Slice(SubSeq(e, 1, N), p, q) = Slice(e, p, q)
    <3>1. e \in Seq(Byte) /\ N \in Nat /\ N <= Len(e)
      BY <1>1, <1>4
    <3> QED  BY ONLY <3>1, <1>6, SliceOfCut
  <2> QED  BY <1>5, <2>1
<1>7. to <= la /\ to <= N => Slice(bs, from, to) = Slice(a, from, to)
  BY <1>3, <1>6
<1>8. ASSUME to <= lb, la + to <= N PROVE Slice(bs, la + from, la + to) = Slice(b, from, to)
  <2>1. la + from \in Nat /\ la + to \in Nat /\ la + from <= la + to
    BY <1>1
  <2> QED  BY <1>3, <1>6, <1>8, <2>1
<1>9. ASSUME la + lb + to <= N
      PROVE  Slice(bs, la + lb + from, la + lb + to) = Slice(c, from, to)
  <2>1. /\ la + lb + from \in Nat /\ la + lb + to \in Nat /\ la + lb + from <= la + lb + to
        /\ to <= lc
    BY <1>1, <1>4, <1>9
  <2> QED  BY <1>3, <1>6, <1>9, <2>1
<1> QED  BY <1>4, <1>5, <1>7, <1>8, <1>9 DEF a, b, c, la, lb

LEMMA CutRange ==
  ASSUME NEW v, NEW N, NEW bs, CutTo(v, N, bs),
         NEW from \in Nat, NEW to \in Nat, from <= to, to <= Len(StoredRange(v)),
         NEW p, NEW q, p = HeadLen(v) + from, q = HeadLen(v) + to, q <= N
  PROVE  Slice(bs, p, q) = Slice(StoredRange(v), from, to)
<1> DEFINE R == StoredRange(v)  h == HeadLen(v)
<1>1. to <= Len(R) /\ h + to <= N => Slice(bs, h + from, h + to) = Slice(R, from, to)
  BY CutParts
<1>2. to <= Len(R) /\ p = h + from /\ q = h + to /\ q <= N
  OBVIOUS
<1> HIDE DEF R, h
<1>3. Slice(bs, p, q) = Slice(R, from, to)
  BY ONLY <1>1, <1>2
<1> QED  BY <1>3 DEF R

LEMMA CutTail ==
  ASSUME NEW v, NEW N, NEW bs, CutTo(v, N, bs),
         NEW from \in Nat, NEW to \in Nat, from <= to,
         NEW p, NEW q, p = HeadLen(v) + Len(StoredRange(v)) + from,
         q = HeadLen(v) + Len(StoredRange(v)) + to, q <= N
  PROVE  Slice(bs, p, q) = Slice(TailOf(v), from, to)
<1> DEFINE R == StoredRange(v)  h == HeadLen(v)  T == TailOf(v)
<1>1. h + Len(R) + to <= N =>
        Slice(bs, h + Len(R) + from, h + Len(R) + to) = Slice(T, from, to)
  BY CutParts
<1>2. p = h + Len(R) + from /\ q = h + Len(R) + to /\ q <= N
  OBVIOUS
<1> HIDE DEF R, h, T
<1>3. Slice(bs, p, q) = Slice(T, from, to)
  BY ONLY <1>1, <1>2
<1> QED  BY <1>3 DEF T

-----------------------------------------------------------------------------
(* Finding the range behind the header.                                      *)

LEMMA BodyLength ==
  ASSUME NEW v, NEW N, NEW bs, CutTo(v, N, bs), Formats[v.format].range,
         HeadLen(v) + Len(FrameOf(v)) + WordLen <= N
  PROVE  RangeLen(Rest(bs, HeadLen(v) + Len(FrameOf(v)))) = Len(SerializeRange(v.range))
<1> DEFINE w == FrameOf(v)  sr == SerializeRange(v.range)  lw == Len(w)
           h == HeadLen(v)  R == StoredRange(v)  p == h + lw
<1>1. /\ sr \in Seq(Byte) /\ Len(sr) \in Nat /\ Len(sr) >= WordLen
      /\ \A b : Slice(b, 0, WordLen) = Slice(sr, 0, WordLen) => RangeLen(b) = Len(sr)
  BY RangeParts DEF CutTo
<1>2. w \in Seq(Byte) /\ R = w \o sr
  BY StoredRangeParts DEF CutTo
<1>3. h \in Nat /\ R \in Seq(Byte) /\ WordLen \in Nat
  BY EncodedParts, CodecAssumption DEF CutTo
<1>4. bs \in Seq(Byte) /\ Len(bs) = N /\ N \in Nat
  BY CutParts, 0 \in Nat, 0 <= 0
<1>5. h + lw + WordLen <= N
  OBVIOUS
<1> HIDE DEF w, sr, h, R
<1>6. lw \in Nat /\ lw = Len(w)
  BY <1>2
<1>7. Len(R) = lw + Len(sr)
  BY <1>1, <1>2, Joined
<1> HIDE DEF lw
<1>8. p \in Nat /\ p + WordLen <= N /\ p <= N
  BY <1>3, <1>4, <1>5, <1>6
<1>9. Rest(bs, p) = Slice(bs, p, N)
  BY <1>4 DEF Rest
<1>10. Slice(Slice(bs, p, N), 0, WordLen) = Slice(bs, p, p + WordLen)
  <2>1. Slice(Slice(bs, p, N), 0, WordLen) = Slice(bs, p + 0, p + WordLen)
    <3> HIDE DEF p
    <3>1. /\ bs \in Seq(Byte) /\ p \in Nat /\ N \in Nat /\ p <= N /\ N <= Len(bs)
          /\ 0 \in Nat /\ WordLen \in Nat /\ 0 <= WordLen /\ p + WordLen <= N
      BY <1>3, <1>4, <1>8
    <3> QED  BY ONLY <3>1, SliceOfSlice
  <2>2. p + 0 = p
    BY <1>8
  <2> QED  BY <2>1, <2>2
<1>11. Slice(bs, p, p + WordLen) = Slice(R, lw, lw + WordLen)
  <2> DEFINE to == lw + WordLen
  <2>1. to \in Nat /\ lw <= to /\ to <= Len(R) /\ h + to <= N /\ h + to = p + WordLen
    BY <1>1, <1>3, <1>4, <1>5, <1>6, <1>7
  <2> HIDE DEF to
  <2>2. Slice(bs, h + lw, h + to) = Slice(R, lw, to)
    <3> DEFINE l == h + lw  r == h + to
    <3>1. l = h + lw /\ r = h + to /\ r <= N
      BY <2>1
    <3> HIDE DEF l, r
    <3>2. Slice(bs, l, r) = Slice(R, lw, to)
      BY <1>6, <2>1, <3>1, CutRange DEF h, R
    <3> QED  BY <3>2 DEF l, r
  <2> QED  BY <2>1, <2>2 DEF to
<1>12. Slice(R, lw, lw + WordLen) = Slice(sr, 0, WordLen)
  <2>1. Slice(w \o sr, Len(w) + 0, Len(w) + WordLen) = Slice(sr, 0, WordLen)
    <3>1. 0 \in Nat /\ 0 <= WordLen /\ WordLen <= Len(sr)
      BY <1>1, <1>3
    <3> QED  BY <1>1, <1>2, <1>3, <3>1, SliceRight
  <2>2. Len(w) + 0 = lw
    BY <1>6
  <2> QED  BY <1>2, <1>6, <2>1, <2>2
<1>13. RangeLen(Rest(bs, p)) = Len(sr)
  BY <1>1, <1>9, <1>10, <1>11, <1>12
<1> QED  BY <1>13 DEF w, sr, lw, h

\* The varint of a frame is read whole or not at all.
LEMMA FrameRead ==
  ASSUME NEW v, NEW N, NEW bs, CutTo(v, N, bs),
         Formats[v.format].range, Formats[v.format].framed,
         HeadLen(v) <= N
  PROVE  /\ Len(FrameOf(v)) > 0
         /\ HeadLen(v) + Len(FrameOf(v)) <= N =>
              Uvarint(Rest(bs, HeadLen(v))) = <<Len(SerializeRange(v.range)), Len(FrameOf(v))>>
         /\ HeadLen(v) + Len(FrameOf(v)) > N => Uvarint(Rest(bs, HeadLen(v))) = <<0, 0>>
<1> DEFINE w == FrameOf(v)  sr == SerializeRange(v.range)  n == Len(sr)  lw == Len(w)
           h == HeadLen(v)  R == StoredRange(v)  u == Rest(bs, h)
           m == IF h + lw <= N THEN lw ELSE N - h
<1>1. sr \in Seq(Byte) /\ n \in Nat /\ TwoGroups(n)
  BY RangeParts DEF CutTo
<1>2. w \in Seq(Byte) /\ R = w \o sr
  BY StoredRangeParts DEF CutTo
<1>3. h \in Nat /\ R \in Seq(Byte)
  BY EncodedParts DEF CutTo
<1>4. bs \in Seq(Byte) /\ Len(bs) = N /\ N \in Nat
  BY CutParts, 0 \in Nat, 0 <= 0
<1>5. w = Varint(n)
  BY DEF FrameOf
<1>6. h <= N
  OBVIOUS
<1> HIDE DEF w, sr, h, R, n
<1>7. lw \in Nat /\ lw > 0
  <2>1. Group \in Nat
    BY GroupFacts
  <2>2. CASE n < Group
    <3>1. w = <<n>>
      BY <1>1, <1>5, <2>2, VarintType
    <3> QED  BY <3>1
  <2>3. CASE n >= Group
    BY <1>1, <1>5, <2>3, VarintType
  <2> QED  BY <1>1, <2>1, <2>2, <2>3
<1>8. Len(R) = lw + Len(sr) /\ Len(sr) \in Nat
  BY <1>1, <1>2, Joined
<1>9. u \in Seq(Byte) /\ Len(u) = N - h /\ \A i \in 1 .. N - h : u[i] = bs[h + i]
  <2>1. N <= Len(bs) /\ u = Slice(bs, h, N)
    BY <1>4 DEF Rest
  <2> HIDE DEF u
  <2> QED  BY <1>3, <1>4, <1>6, <2>1, SliceFacts
<1>10. m \in Nat /\ m <= lw /\ h + m <= N /\ m <= N - h
  BY <1>3, <1>4, <1>6, <1>7
<1>11. Slice(bs, h, h + m) = Slice(w, 0, m)
  <2> HIDE DEF m, lw
  <2>1. m <= Len(R) /\ 0 \in Nat /\ 0 <= m
    BY <1>7, <1>8, <1>10
  <2>2. Slice(bs, h + 0, h + m) = Slice(R, 0, m)
    <3> DEFINE l == h + 0  r == h + m
    <3>1. l = h + 0 /\ r = h + m /\ r <= N
      BY <1>10
    <3> HIDE DEF l, r
    <3>2. Slice(bs, l, r) = Slice(R, 0, m)
      BY <1>10, <2>1, <3>1, CutRange DEF h, R
    <3> QED  BY <3>2 DEF l, r
  <2>3. Slice(w \o sr, 0, m) = Slice(w, 0, m)
    BY <1>1, <1>2, <1>10, <2>1, SliceLeft DEF lw
  <2>4. h + 0 = h
    BY <1>3
  <2> QED  BY <1>2, <2>2, <2>3, <2>4
<1>12. \A i \in 1 .. m : u[i] = w[i]
  <2> HIDE DEF m, lw, u
  <2> TAKE i \in 1 .. m
  <2>1. i \in 1 .. N - h
    BY <1>3, <1>4, <1>10
  <2>2. Slice(w, 0, m)[i] = w[0 + i]
    <3>1. m - 0 = m /\ 0 \in Nat /\ 0 <= m /\ m <= Len(w)
      BY <1>10 DEF lw
    <3>2. \A k \in 1 .. m - 0 : Slice(w, 0, m)[k] = w[0 + k]
      BY <1>2, <1>10, <3>1, SliceFacts
    <3> QED  BY <3>1, <3>2
  <2>3. Slice(bs, h, h + m)[i] = bs[h + i]
    <3> DEFINE r == h + m
    <3>1. r \in Nat /\ h <= r /\ r <= Len(bs) /\ r - h = m
      BY <1>3, <1>4, <1>10
    <3> HIDE DEF r
    <3>2. \A k \in 1 .. r - h : Slice(bs, h, r)[k] = bs[h + k]
      BY <1>3, <1>4, <3>1, SliceFacts
    <3> QED  BY <3>1, <3>2 DEF r
  <2>4. 0 + i = i
    BY <1>10
  <2> QED  BY <1>9, <1>11, <2>1, <2>2, <2>3, <2>4
<1> HIDE DEF u
<1>13. ASSUME h + lw <= N PROVE Uvarint(u) = <<n, lw>>
  <2>1. m = lw /\ Len(u) >= lw
    BY <1>3, <1>4, <1>7, <1>9, <1>13
  <2> HIDE DEF m
  <2> QED  BY <1>1, <1>5, <1>9, <1>12, <2>1, UvarintReads
<1>14. ASSUME h + lw > N PROVE Uvarint(u) = <<0, 0>>
  <2>1. m = N - h /\ Len(u) = m /\ m < lw
    BY <1>3, <1>4, <1>6, <1>7, <1>9, <1>14
  <2> HIDE DEF m
  <2> QED  BY <1>1, <1>5, <1>9, <1>12, <2>1, UvarintCut
<1> QED  BY <1>7, <1>13, <1>14 DEF w, sr, h, u, n

\* Where Located looks for the range, and which of its checks matter.
LEMMA RangePlace ==
  ASSUME NEW v, NEW N, NEW bs, CutTo(v, N, bs), NEW f, f = Formats[v.format], f.range,
         HeadLen(v) <= N
  PROVE  /\ Located(f, bs).ok <=> HeadLen(v) + Len(StoredRange(v)) <= N
         /\ Located(f, bs).ok =>
              /\ Located(f, bs).from = HeadLen(v) + Len(FrameOf(v))
              /\ Located(f, bs).to = HeadLen(v) + Len(StoredRange(v))
<1> DEFINE h == HeadLen(v)  w == FrameOf(v)  sr == SerializeRange(v.range)
           lw == Len(w)  n == Len(sr)
           uv == Uvarint(Rest(bs, h))
           from == h + (IF f.framed THEN uv[2] ELSE 0)
           body == Rest(bs, from)
           to == IF f.framed THEN from + uv[1]
                 ELSE IF Len(body) < WordLen THEN from
                 ELSE from + RangeLen(body)
           ok == /\ f.framed => uv[2] > 0
                 /\ to <= Len(bs)
                 /\ to - from >= WordLen
                 /\ to - from = RangeLen(body)
<1>1. /\ Located(f, bs).from = from /\ Located(f, bs).to = to
      /\ Located(f, bs).ok = ok
  BY DEF Located, HeadLen
<1>2. w \in Seq(Byte) /\ StoredRange(v) = w \o sr /\ sr \in Seq(Byte) /\ n \in Nat /\ n >= WordLen
  BY StoredRangeParts, RangeParts DEF CutTo
<1>3. h \in Nat /\ WordLen \in Nat /\ WordLen > 0
  BY EncodedParts, CodecAssumption DEF CutTo
<1>4. bs \in Seq(Byte) /\ Len(bs) = N /\ N \in Nat
  BY CutParts, 0 \in Nat, 0 <= 0
<1>5. ~f.framed => w = <<>>
  BY DEF FrameOf
<1>6. h + lw + WordLen <= N => RangeLen(Rest(bs, h + lw)) = n
  BY BodyLength
<1>7. f.framed => /\ lw > 0
                  /\ h + lw <= N => uv = <<n, lw>>
                  /\ h + lw > N => uv = <<0, 0>>
  BY FrameRead
<1> DEFINE lr == Len(StoredRange(v))
<1>8. lw \in Nat /\ lr = lw + n /\ (w = <<>> => lw = 0)
  BY <1>2, Joined
<1>9. h <= N
  OBVIOUS
<1> SUFFICES /\ ok <=> h + lr <= N
             /\ ok => from = h + lw /\ to = h + lr
  BY <1>1
<1> HIDE DEF h, w, sr, lw, n, uv, lr
<1>10. CASE f.framed /\ h + lw <= N
  <2>1. uv[1] = n /\ uv[2] = lw /\ lw > 0
    BY <1>7, <1>10
  <2>2. from = h + lw
    BY <1>10, <2>1
  <2>3. to = h + lw + n
    <3>1. to = from + uv[1]
      BY <1>10
    <3> QED  BY <2>1, <2>2, <3>1
  <2> HIDE DEF from, to
  <2>4. h + lr <= N => RangeLen(body) = n
    BY <1>2, <1>3, <1>4, <1>6, <1>8, <2>2
  <2> QED  BY <1>2, <1>3, <1>4, <1>8, <1>10, <2>1, <2>2, <2>3, <2>4
<1>11. CASE f.framed /\ h + lw > N
  <2>1. uv[2] = 0
    BY <1>7, <1>11
  <2>2. ~ok
    BY <1>11, <2>1
  <2>3. ~(h + lr <= N)
    BY <1>2, <1>3, <1>4, <1>8, <1>11
  <2> QED  BY <2>2, <2>3
<1>12. CASE ~f.framed
  <2>1. lw = 0 /\ lr = n
    BY <1>2, <1>5, <1>8, <1>12
  <2>2. from = h
    BY <1>3, <1>12
  <2>3. Len(body) = N - h
    <3>1. body = Slice(bs, h, N)
      BY <1>4, <2>2 DEF Rest
    <3>2. bs \in Seq(Byte) /\ h \in Nat /\ N \in Nat /\ h <= N /\ N <= Len(bs)
      BY <1>3, <1>4, <1>9
    <3> HIDE DEF body
    <3> QED  BY ONLY <3>1, <3>2, SliceFacts
  <2> HIDE DEF body
  <2>4. CASE N - h < WordLen
    <3>1. to = from
      BY <1>12, <2>3, <2>4
    <3> HIDE DEF to, from
    <3>2. ~ok
      BY <1>3, <2>2, <2>4, <3>1
    <3>3. ~(h + lr <= N)
      BY <1>2, <1>3, <1>4, <2>1, <2>4
    <3> QED  BY <3>2, <3>3
  <2>5. CASE ~(N - h < WordLen)
    <3>1. RangeLen(body) = n
      <4>1. h + lw + WordLen <= N /\ h + lw = h
        BY <1>3, <1>4, <2>1, <2>5
      <4> QED  BY <1>6, <2>2, <4>1 DEF body
    <3>2. to = from + n
      BY <1>12, <2>3, <2>5, <3>1
    <3> HIDE DEF to, from
    <3> QED  BY <1>2, <1>3, <1>4, <1>12, <2>1, <2>2, <3>1, <3>2
  <2> QED  BY <2>4, <2>5
<1>13. h + lw > N \/ h + lw <= N
  BY <1>3, <1>4, <1>8
<1> QED  BY <1>10, <1>11, <1>12, <1>13

-----------------------------------------------------------------------------
(* A value, cut or not, read by the decoder of its own format.               *)

LEMMA FlagRead ==
  ASSUME NEW v, NEW N, NEW bs, CutTo(v, N, bs), Formats[v.format].flag # 0, N >= 1
  PROVE  bs[1] = Formats[v.format].flag
<1> DEFINE a == HeaderOf(v)  h == HeadLen(v)
<1>1. a \in Seq(Byte) /\ Len(a) = h /\ h >= 1 /\ a[1] = Formats[v.format].flag
  BY HeaderParts DEF CutTo, HeadLen
<1>2. bs \in Seq(Byte) /\ Len(bs) = N /\ N \in Nat
  BY CutParts, 0 \in Nat, 0 <= 0
<1>3. Slice(bs, 0, 1) = Slice(a, 0, 1)
  <2>1. 0 \in Nat /\ 1 \in Nat /\ 0 <= 1 /\ 1 <= N /\ 1 <= h
    BY <1>1
  <2> QED  BY <2>1, CutParts
<1> HIDE DEF a, h
<1>4. 0 \in Nat /\ 1 \in Nat /\ 0 <= 1 /\ 1 \in 1 .. 1 - 0 /\ 1 <= Len(bs) /\ 1 <= Len(a)
  BY <1>1, <1>2
<1>5. \A i \in 1 .. 1 - 0 : Slice(bs, 0, 1)[i] = bs[0 + i]
  BY ONLY <1>2, <1>4, SliceFacts
<1>6. \A i \in 1 .. 1 - 0 : Slice(a, 0, 1)[i] = a[0 + i]
  BY ONLY <1>1, <1>4, SliceFacts
<1>7. Slice(bs, 0, 1)[1] = bs[1] /\ Slice(a, 0, 1)[1] = a[1]
  BY <1>4, <1>5, <1>6
<1> QED  BY <1>1, <1>3, <1>7

LEMMA HeaderRead ==
  ASSUME NEW v, NEW N, NEW bs, CutTo(v, N, bs), NEW f, f = Formats[v.format], HeadLen(v) <= N
  PROVE  /\ HeaderFits(f, bs)
         /\ Unblocked(Slice(bs, FlagLen(f), HeaderLen(f)), WordLen) = v.words
<1> DEFINE h == HeadLen(v)  a == HeaderOf(v)
<1>1. h = HeaderLen(f) /\ h \in Nat /\ FlagLen(f) \in Nat /\ FlagLen(f) <= h /\ f.flag \in Nat
  <2>1. v.format \in DOMAIN Formats
    BY DEF CutTo, IsValue
  <2>2. /\ f.flag \in {0, Latest, Older}
        /\ FlagLen(f) \in Nat /\ HeaderLen(f) \in Nat /\ FlagLen(f) <= HeaderLen(f)
    BY <2>1, FormatFacts
  <2> QED  BY <2>2 DEF HeadLen, Latest, Older
<1>2. /\ a \in Seq(Byte) /\ Len(a) = h
      /\ f.flag # 0 => h >= 1 /\ a[1] = f.flag
      /\ Slice(a, FlagLen(f), h) = Blocks(v.words, WordLen)
  BY <1>1, HeaderParts DEF CutTo
<1>3. bs \in Seq(Byte) /\ Len(bs) = N /\ N \in Nat
  BY CutParts, 0 \in Nat, 0 <= 0
<1>4. ASSUME NEW from \in Nat, NEW to \in Nat, from <= to, to <= h
      PROVE  Slice(bs, from, to) = Slice(a, from, to)
  <2>1. to <= N
    BY <1>1, <1>3, <1>4
  <2> QED  BY <1>4, <2>1, CutParts
<1>5. h <= N
  OBVIOUS
<1>6. v.words \in Seq(Below(WordLen)) /\ WordLen \in Nat \ {0}
  BY CodecAssumption DEF CutTo, IsValue
<1> HIDE DEF h, a
<1>7. f.flag # 0 => bs[1] = f.flag
  <2>1. f.flag # 0 => N >= 1
    BY <1>1, <1>2, <1>3, <1>5
  <2> QED  BY <2>1, FlagRead
<1>8. HeaderFits(f, bs)
  BY <1>1, <1>3, <1>5, <1>7 DEF HeaderFits
<1>9. Slice(bs, FlagLen(f), h) = Blocks(v.words, WordLen)
  BY <1>1, <1>2, <1>4
<1> QED  BY <1>1, <1>6, <1>8, <1>9, UnblockedAll

LEMMA RangeRead ==
  ASSUME NEW v, NEW N, NEW bs, CutTo(v, N, bs), Formats[v.format].range,
         HeadLen(v) + Len(StoredRange(v)) <= N
  PROVE  RangeOf(Slice(bs, HeadLen(v) + Len(FrameOf(v)), HeadLen(v) + Len(StoredRange(v))))
           = v.range
<1> DEFINE h == HeadLen(v)  w == FrameOf(v)  sr == SerializeRange(v.range)  R == StoredRange(v)
           lw == Len(w)  n == Len(sr)  lr == Len(R)  p == h + lw  q == h + lr
<1>1. w \in Seq(Byte) /\ R = w \o sr /\ sr \in Seq(Byte) /\ n \in Nat /\ RangeOf(sr) = v.range
  BY StoredRangeParts, RangeParts DEF CutTo
<1>2. lr = lw + n /\ lw \in Nat /\ lw = Len(w)
  BY <1>1, Joined
<1>3. h \in Nat
  BY EncodedParts DEF CutTo
<1>4. q <= N
  OBVIOUS
<1> HIDE DEF h, w, sr, R, lw, n, lr
<1>5. lw \in Nat /\ lr \in Nat /\ lw <= lr /\ lr <= Len(R)
  BY <1>1, <1>2 DEF lr
<1>6. p = h + lw /\ q = h + lr
  OBVIOUS
<1> HIDE DEF p, q
<1>7. Slice(bs, p, q) = Slice(R, lw, lr)
  BY <1>4, <1>5, <1>6, CutRange DEF h, R
<1>8. Slice(w \o sr, Len(w) + 0, Len(w) + n) = Slice(sr, 0, n)
  <2>1. 0 \in Nat /\ n \in Nat /\ 0 <= n /\ n <= Len(sr)
    BY <1>1 DEF n
  <2> QED  BY ONLY <1>1, <2>1, SliceRight
<1>9. Slice(sr, 0, n) = sr
  BY <1>1 DEF n, Slice
<1>10. Len(w) + 0 = lw /\ Len(w) + n = lr
  BY <1>1, <1>2
<1>11. Slice(bs, p, q) = sr
  BY <1>1, <1>7, <1>8, <1>9, <1>10
<1> QED  BY <1>1, <1>11 DEF p, q, h, lw, w, lr, R

LEMMA TailRead ==
  ASSUME NEW v, NEW N, NEW bs, CutTo(v, N, bs), NEW p, p = HeadLen(v) + Len(StoredRange(v)), p <= N
  PROVE  Rest(bs, p) = SubSeq(TailOf(v), 1, N - p)
<1> DEFINE h == HeadLen(v)  lr == Len(StoredRange(v))  T == TailOf(v)  m == N - p
<1>1. h \in Nat /\ lr \in Nat /\ T \in Seq(Byte)
  BY EncodedParts DEF CutTo
<1>2. bs \in Seq(Byte) /\ Len(bs) = N /\ N \in Nat
  BY CutParts, 0 \in Nat, 0 <= 0
<1>3. p = h + lr /\ p <= N
  OBVIOUS
<1> HIDE DEF h, lr, T
<1>4. m \in Nat /\ p = h + lr + 0 /\ N = h + lr + m /\ 0 \in Nat /\ 0 <= m /\ N <= N
  BY <1>1, <1>2, <1>3
<1> HIDE DEF m
<1>5. Slice(bs, p, N) = Slice(T, 0, m)
  BY <1>4, CutTail DEF h, lr, T
<1>6. Slice(T, 0, m) = SubSeq(T, 1, m)
  BY DEF Slice
<1>7. Rest(bs, p) = SubSeq(T, 1, m)
  BY <1>2, <1>5, <1>6 DEF Rest
<1> QED  BY <1>7 DEF T, m

\* What is left of an encoding is refused, or yields the value but for elements at the
\* end of its tail.
Reads(v, n, value) ==
  \E k \in 0 .. Len(v.tail) :
    /\ n = HeadLen(v) + Len(StoredRange(v)) + k * Formats[v.format].tail
    /\ value = [ok |-> TRUE, words |-> v.words, range |-> v.range,
                tail |-> SubSeq(v.tail, 1, k)]

LEMMA DecodedCut ==
  ASSUME NEW v, NEW N, NEW bs, CutTo(v, N, bs), NEW f, f = Formats[v.format]
  PROVE  /\ Decoded(v.format, bs).ok => Reads(v, N, Decoded(v.format, bs))
         /\ N = Len(Encoded(v)) => Decoded(v.format, bs).ok
<1> DEFINE h == HeadLen(v)  lr == Len(StoredRange(v))  lt == Len(TailOf(v))  T == TailOf(v)
           place == Located(f, bs)
           range == IF f.range THEN RangeOf(Slice(bs, place.from, place.to)) ELSE NoRange
           tail == Rest(bs, IF f.range THEN place.to ELSE HeaderLen(f))
           fits == HeaderFits(f, bs) /\ (f.range => place.ok) /\ TailFits(f, tail)
           D == Decoded(v.format, bs)
<1>1. D = IF fits THEN Contents(f, bs, range, tail) ELSE Refused
  BY DEF Decoded
<1>2. D.ok <=> fits
  <2> HIDE DEF fits, range, tail, D
  <2>1. Contents(f, bs, range, tail).ok = TRUE /\ Refused.ok = FALSE
    BY DEF Contents, Refused
  <2> QED  BY <1>1, <2>1
<1>3. /\ h \in Nat /\ lr \in Nat /\ lt \in Nat /\ T \in Seq(Byte)
      /\ Len(Encoded(v)) = h + lr + lt
  BY EncodedParts DEF CutTo
<1>4. bs \in Seq(Byte) /\ Len(bs) = N /\ N \in Nat /\ N <= Len(Encoded(v))
  <2>1. bs \in Seq(Byte) /\ Len(bs) = N /\ N \in Nat
    BY CutParts, 0 \in Nat, 0 <= 0
  <2>2. N \in 0 .. Len(Encoded(v))
    BY DEF CutTo
  <2> QED  BY <1>3, <2>1, <2>2
<1>5. lt = Len(v.tail) * f.tail /\ Len(v.tail) \in Nat /\ f.tail \in Nat
  BY TailParts DEF CutTo
<1>6. f.range \in BOOLEAN
  <2>1. v.format \in DOMAIN Formats
    BY DEF CutTo, IsValue
  <2> QED  BY <2>1, FormatFacts
<1>7. ~f.range => lr = 0 /\ v.range = NoRange
  <2> SUFFICES ASSUME ~f.range PROVE lr = 0 /\ v.range = NoRange
    OBVIOUS
  <2>1. StoredRange(v) = <<>>
    BY StoredRangeParts DEF CutTo
  <2>2. v.range = NoRange
    BY DEF CutTo, IsValue
  <2> QED  BY <2>1, <2>2
<1>8. h = HeaderLen(f)
  BY DEF HeadLen
<1>9. IF f.tail = 0 THEN v.tail = <<>> ELSE v.tail \in Seq(Below(f.tail))
  BY DEF CutTo, IsValue
<1> HIDE DEF D, h, lr, lt, T, place
\* What the decoder finds once header and range are there.
<1>10. ASSUME h + lr <= N
       PROVE  /\ HeaderFits(f, bs) /\ (f.range => place.ok)
              /\ Unblocked(Slice(bs, FlagLen(f), HeaderLen(f)), WordLen) = v.words
              /\ range = v.range
              /\ tail = SubSeq(T, 1, N - (h + lr))
  <2>1. h <= N
    BY <1>3, <1>4, <1>10
  <2>2. /\ HeaderFits(f, bs)
        /\ Unblocked(Slice(bs, FlagLen(f), HeaderLen(f)), WordLen) = v.words
    BY <2>1, HeaderRead DEF h
  <2>3. f.range => /\ place.ok /\ place.from = h + Len(FrameOf(v)) /\ place.to = h + lr
    <3> SUFFICES ASSUME f.range
                 PROVE  place.ok /\ place.from = h + Len(FrameOf(v)) /\ place.to = h + lr
      OBVIOUS
    <3>1. /\ place.ok <=> h + lr <= N
          /\ place.ok => place.from = h + Len(FrameOf(v)) /\ place.to = h + lr
      BY <2>1, RangePlace DEF h, lr, place
    <3> QED  BY <1>10, <3>1
  <2>4. range = v.range
    <3>1. CASE f.range
      <4>1. RangeOf(Slice(bs, h + Len(FrameOf(v)), h + lr)) = v.range
        BY <1>10, <3>1, RangeRead DEF h, lr
      <4> QED  BY <2>3, <3>1, <4>1
    <3>2. CASE ~f.range
      BY <1>7, <3>2
    <3> QED  BY <3>1, <3>2
  <2>5. tail = Rest(bs, h + lr)
    <3>1. CASE f.range
      BY <2>3, <3>1
    <3>2. CASE ~f.range
      <4>1. HeaderLen(f) = h + lr
        BY <1>3, <1>7, <1>8, <3>2
      <4> QED  BY <3>2, <4>1
    <3> QED  BY <3>1, <3>2
  <2>6. Rest(bs, h + lr) = SubSeq(T, 1, N - (h + lr))
    <3> DEFINE p == h + lr
    <3>1. p = h + lr /\ p <= N
      BY <1>10
    <3> HIDE DEF p
    <3>2. Rest(bs, p) = SubSeq(T, 1, N - p)
      BY <3>1, TailRead DEF h, lr, T
    <3> QED  BY <3>2 DEF p
  <2> QED  BY <2>2, <2>3, <2>4, <2>5, <2>6
\* Without them it refuses.
<1>11. fits => h + lr <= N
  <2> SUFFICES ASSUME fits PROVE h + lr <= N
    OBVIOUS
  <2>1. h <= N
    BY <1>4, <1>8 DEF HeaderFits
  <2>2. CASE f.range
    <3>1. place.ok <=> h + lr <= N
      BY <2>1, <2>2, RangePlace DEF h, lr, place
    <3> QED  BY <2>2, <3>1
  <2>3. CASE ~f.range
    BY <1>3, <1>7, <2>1, <2>3
  <2> QED  BY <2>2, <2>3
<1> HIDE DEF range, tail
<1>12. ASSUME h + lr <= N
       PROVE  Len(SubSeq(T, 1, N - (h + lr))) = N - (h + lr) /\ N - (h + lr) \in 0 .. lt
  <2> DEFINE m == N - (h + lr)
  <2>1. m \in Nat /\ m <= lt
    BY <1>3, <1>4, <1>12
  <2> HIDE DEF m
  <2>2. m <= Len(T)
    BY <2>1 DEF lt, T
  <2>3. Len(SubSeq(T, 1, m)) = m
    BY ONLY <1>3, <2>1, <2>2, CutType
  <2>4. m \in 0 .. lt
    BY <1>3, <2>1
  <2> QED  BY <2>3, <2>4 DEF m
<1>13. ASSUME D.ok
       PROVE  \E k \in 0 .. Len(v.tail) :
                /\ N = h + lr + k * f.tail
                /\ D = [ok |-> TRUE, words |-> v.words, range |-> v.range,
                        tail |-> SubSeq(v.tail, 1, k)]
  <2>1. fits /\ h + lr <= N /\ TailFits(f, tail)
    BY <1>2, <1>11, <1>13
  <2> DEFINE m == N - (h + lr)
  <2>2. tail = SubSeq(T, 1, m) /\ Len(tail) = m /\ m \in 0 .. lt
    BY <1>10, <1>12, <2>1
  <2>3. D = [ok |-> TRUE, words |-> v.words, range |-> v.range,
             tail |-> IF f.tail = 0 THEN <<>> ELSE Unblocked(tail, f.tail)]
    <3> HIDE DEF fits
    <3> QED  BY <1>1, <1>10, <2>1 DEF Contents
  <2>4. N = h + lr + m
    BY <1>3, <1>4
  <2> HIDE DEF m, fits
  <2>5. CASE f.tail = 0
    <3>1. v.tail = <<>> /\ lt = 0 /\ Len(v.tail) = 0
      BY <1>5, <1>9, <2>5
    <3>2. m = 0 /\ 0 * f.tail = 0
      BY <2>2, <2>5, <3>1
    <3>3. SubSeq(v.tail, 1, 0) = <<>>
      BY <3>1
    <3>4. D = [ok |-> TRUE, words |-> v.words, range |-> v.range, tail |-> SubSeq(v.tail, 1, 0)]
      BY <2>3, <2>5, <3>3
    <3>5. 0 \in 0 .. Len(v.tail) /\ N = h + lr + 0 * f.tail
      BY <2>4, <3>1, <3>2
    <3> QED  BY <3>4, <3>5
  <2>6. CASE f.tail # 0
    <3> DEFINE t == f.tail  k == m \div t  c == Len(v.tail)
    <3>1. t \in Nat /\ t > 0 /\ c \in Nat /\ lt = c * t /\ v.tail \in Seq(Below(t))
      BY <1>5, <1>9, <2>6
    <3>2. m % t = 0
      BY <2>1, <2>2, <2>6 DEF TailFits
    <3>3. m \in Nat /\ m <= lt
      BY <1>3, <2>2
    <3> HIDE DEF t, c
    <3>4. k \in Nat /\ m = k * t + (m % t)
      BY <3>1, <3>3, DivFacts
    <3> HIDE DEF k
    <3>5. k * t \in Nat /\ m = k * t
      BY <3>1, <3>2, <3>4
    <3>6. k <= c
      <4> SUFFICES ASSUME k > c PROVE FALSE
        BY <3>1, <3>4
      <4>1. k >= c + 1
        BY <3>1, <3>4
      <4>2. k * t >= (c + 1) * t
        BY <3>1, <3>4, <4>1, Z3
      <4>3. (c + 1) * t = c * t + t /\ c * t \in Nat
        BY <3>1, Z3
      <4> QED  BY <3>1, <3>3, <3>5, <4>2, <4>3
    <3>7. k \in 0 .. c
      BY <3>1, <3>4, <3>6
    <3>8. Unblocked(tail, t) = SubSeq(v.tail, 1, k)
      <4>1. tail = SubSeq(Blocks(v.tail, t), 1, k * t)
        BY <2>2, <3>5 DEF T, TailOf, t
      <4>2. t \in Nat \ {0} /\ k \in 0 .. Len(v.tail)
        BY <3>1, <3>7 DEF c
      <4> QED  BY <3>1, <4>1, <4>2, UnblockedPrefix
    <3>9. D = [ok |-> TRUE, words |-> v.words, range |-> v.range, tail |-> SubSeq(v.tail, 1, k)]
      BY <2>3, <2>6, <3>8 DEF t
    <3>10. N = h + lr + k * f.tail
      BY <2>4, <3>5 DEF t
    <3> QED  BY <3>7, <3>9, <3>10 DEF c
  <2> QED  BY <2>5, <2>6
<1>14. ASSUME N = Len(Encoded(v)) PROVE D.ok
  <2>1. N = h + lr + lt /\ h + lr <= N /\ N - (h + lr) = lt
    BY <1>3, <1>4, <1>14
  <2>2. /\ HeaderFits(f, bs) /\ (f.range => place.ok)
        /\ tail = SubSeq(T, 1, N - (h + lr))
    BY <1>10, <2>1
  <2>3. Len(tail) = lt
    BY <1>12, <2>1, <2>2
  <2>4. TailFits(f, tail)
    <3>1. CASE f.tail = 0
      BY <3>1 DEF TailFits
    <3>2. CASE f.tail # 0
      <4> DEFINE t == f.tail  c == Len(v.tail)
      <4>1. t \in Nat /\ t > 0 /\ c \in Nat /\ lt = c * t + 0 /\ lt \in Nat /\ 0 < t /\ 0 \in Nat
        BY <1>3, <1>5, <3>2
      <4> HIDE DEF t, c
      <4>2. lt % t = 0
        BY <4>1, DivUnique
      <4> QED  BY <2>3, <3>2, <4>2 DEF TailFits, t
    <3> QED  BY <3>1, <3>2
  <2> QED  BY <1>2, <2>2, <2>4
<1> QED  BY <1>13, <1>14 DEF D, h, lr, Reads

-----------------------------------------------------------------------------
(* The order of keys, byte by byte.                                          *)

Agree(a, b, n) == \A j \in 1 .. n : a[j] = b[j]

LEMMA PrefixDef ==
  ASSUME NEW a \in Seq(Byte), NEW b \in Seq(Byte)
  PROVE  /\ IsPrefix(a, b) <=> Len(a) <= Len(b) /\ Agree(a, b, Len(a))
         /\ IsStrictPrefix(a, b) <=> Len(a) < Len(b) /\ Agree(a, b, Len(a))
<1>1. Len(a) \in Nat /\ Len(b) \in Nat
  OBVIOUS
<1>2. SubSeq(a, 1, Len(a)) = a
  OBVIOUS
<1>3. ASSUME Len(a) <= Len(b) PROVE SubSeq(b, 1, Len(a)) = a <=> Agree(a, b, Len(a))
  <2> DEFINE c == SubSeq(b, 1, Len(a))
  <2>1. c \in Seq(Byte) /\ Len(c) = Len(a) /\ \A j \in 1 .. Len(a) : c[j] = b[j]
    BY <1>1, <1>3, CutType
  <2> HIDE DEF c
  <2>2. c = a => Agree(a, b, Len(a))
    BY <2>1 DEF Agree
  <2>3. ASSUME Agree(a, b, Len(a)) PROVE c = a
    <3>1. \A j \in 1 .. Len(c) : c[j] = a[j]
      BY <2>1, <2>3 DEF Agree
    <3> QED  BY <2>1, <3>1, SameSeq
  <2> QED  BY <2>2, <2>3 DEF c
<1>4. IsPrefix(a, b) <=> Len(a) <= Len(b) /\ Agree(a, b, Len(a))
  BY <1>2, <1>3 DEF IsPrefix
<1>5. ASSUME Len(a) = Len(b), Agree(a, b, Len(a)) PROVE a = b
  BY <1>5, SameSeq DEF Agree
<1> QED  BY <1>1, <1>4, <1>5 DEF IsStrictPrefix

\* The first difference decides.
LEMMA BeforeDef ==
  ASSUME NEW a \in Seq(Byte), NEW b \in Seq(Byte)
  PROVE  Before(a, b) <=>
           \/ Len(a) < Len(b) /\ Agree(a, b, Len(a))
           \/ \E i \in Nat : /\ 1 <= i /\ i <= Len(a) /\ i <= Len(b)
                             /\ Agree(a, b, i - 1) /\ a[i] < b[i]
<1> DEFINE m == Min({Len(a), Len(b)})
<1>1. Len(a) \in Nat /\ Len(b) \in Nat
  OBVIOUS
<1>2. m \in {Len(a), Len(b)} /\ m <= Len(a) /\ m <= Len(b)
  <2> DEFINE S == {Len(a), Len(b)}
  <2>1. \E x \in S : \A y \in S : x <= y
    BY <1>1
  <2>2. m \in S /\ \A y \in S : m <= y
    BY <2>1 DEF Min
  <2> QED  BY <2>2
<1> HIDE DEF m
<1>3. ASSUME NEW i \in 1 .. m
      PROVE  SubSeq(a, 1, i - 1) = SubSeq(b, 1, i - 1) <=> Agree(a, b, i - 1)
  <2> DEFINE n == i - 1  x == SubSeq(a, 1, n)  y == SubSeq(b, 1, n)
  <2>1. n \in Nat /\ n <= Len(a) /\ n <= Len(b)
    BY <1>1, <1>2
  <2> HIDE DEF n
  <2>2. /\ x \in Seq(Byte) /\ Len(x) = n /\ \A j \in 1 .. n : x[j] = a[j]
        /\ y \in Seq(Byte) /\ Len(y) = n /\ \A j \in 1 .. n : y[j] = b[j]
    BY ONLY <2>1, CutType, a \in Seq(Byte), b \in Seq(Byte)
  <2> HIDE DEF x, y
  <2>3. x = y => Agree(a, b, n)
    BY <2>2 DEF Agree
  <2>4. ASSUME Agree(a, b, n) PROVE x = y
    <3>1. \A j \in 1 .. Len(x) : x[j] = y[j]
      BY <2>2, <2>4 DEF Agree
    <3> QED  BY <2>2, <3>1, SameSeq
  <2> QED  BY <2>3, <2>4 DEF x, y, n
<1>4. \A i : i \in 1 .. m <=> i \in Nat /\ 1 <= i /\ i <= Len(a) /\ i <= Len(b)
  BY <1>1, <1>2
<1>5. Before(a, b) <=> \/ IsStrictPrefix(a, b)
                       \/ \E i \in 1 .. m : Agree(a, b, i - 1) /\ a[i] < b[i]
  BY <1>3 DEF Before, m
<1>6. IsStrictPrefix(a, b) <=> Len(a) < Len(b) /\ Agree(a, b, Len(a))
  BY PrefixDef
<1> QED  BY <1>4, <1>5, <1>6

\* Two sequences that do not agree have a first difference.
LEMMA FirstDifference ==
  ASSUME NEW a, NEW b, NEW n \in Nat, ~Agree(a, b, n)
  PROVE  \E i \in 1 .. n : Agree(a, b, i - 1) /\ a[i] # b[i]
<1> DEFINE S == {i \in 1 .. n : a[i] # b[i]}
<1>1. S \in SUBSET Nat /\ S # {}
  BY DEF Agree
<1>2. PICK i \in S : \A y \in S : i <= y
  <2> HIDE DEF S
  <2> QED  BY <1>1, NatLeast
<1>3. i \in 1 .. n /\ a[i] # b[i]
  BY <1>2
<1>4. \A j \in 1 .. i - 1 : a[j] = b[j]
  <2> TAKE j \in 1 .. i - 1
  <2>1. j \in 1 .. n /\ j < i
    BY <1>3
  <2>2. j \notin S
    BY <1>2, <1>3, <2>1
  <2> QED  BY <2>1, <2>2
<1> QED  BY <1>3, <1>4 DEF Agree

LEMMA Greatest ==
  ASSUME NEW n \in Nat, NEW S, S \subseteq 1 .. n, S # {}
  PROVE  Max(S) \in S /\ \A x \in S : x <= Max(S)
<1> DEFINE U == {k \in Nat : \A x \in S : x <= k}
<1>1. U \in SUBSET Nat /\ n \in U
  OBVIOUS
<1>2. PICK u \in U : \A y \in U : u <= y
  <2> HIDE DEF U
  <2> QED  BY <1>1, NatLeast
<1>3. u \in S
  <2> SUFFICES ASSUME u \notin S PROVE FALSE
    OBVIOUS
  <2>1. u \in Nat /\ \A x \in S : x \in Nat /\ 1 <= x /\ x <= u /\ x # u
    BY <1>2
  <2>2. u - 1 \in Nat /\ \A x \in S : x <= u - 1
    <3>1. PICK z \in S : TRUE
      OBVIOUS
    <3>2. u >= 1 /\ u - 1 \in Nat
      BY <2>1, <3>1
    <3>3. \A x \in S : x <= u - 1
      BY <2>1
    <3> QED  BY <3>2, <3>3
  <2>3. u - 1 \in U
    BY <2>2
  <2>4. u <= u - 1
    BY <1>2, <2>3
  <2> QED  BY <2>1, <2>4
<1>4. \A x \in S : u >= x
  BY <1>2
<1>5. \E x \in S : \A y \in S : x >= y
  BY <1>3, <1>4
<1>6. Max(S) \in S /\ \A x \in S : Max(S) >= x
  BY <1>5 DEF Max
<1> QED  BY <1>6

\* What prefixUpperBound returns: nothing but bytes 0xff follows the byte it raises.
LEMMA UpperBoundShape ==
  ASSUME NEW p \in Seq(Byte), p # <<>>, p[1] # Base - 1
  PROVE  \E m \in 1 .. Len(p) :
           /\ UpperBound(p) \in Seq(Byte) /\ Len(UpperBound(p)) = m
           /\ Agree(UpperBound(p), p, m - 1)
           /\ UpperBound(p)[m] = p[m] + 1
           /\ \A i \in m + 1 .. Len(p) : p[i] = Base - 1
<1> DEFINE grows == {i \in 1 .. Len(p) : p[i] # Base - 1}
           m == Max(grows)
           c == SubSeq(p, 1, m)
           b == [c EXCEPT ![m] = @ + 1]
<1>1. Len(p) \in Nat /\ 1 \in grows /\ grows \subseteq 1 .. Len(p)
  OBVIOUS
<1>2. m \in grows /\ \A i \in grows : i <= m
  <2> HIDE DEF grows
  <2> QED  BY <1>1, Greatest
<1>3. UpperBound(p) = b
  BY <1>1 DEF UpperBound
<1>4. m \in 1 .. Len(p) /\ p[m] # Base - 1
  BY <1>2
<1>5. \A i \in m + 1 .. Len(p) : p[i] = Base - 1
  <2> TAKE i \in m + 1 .. Len(p)
  <2>1. i \in 1 .. Len(p) /\ ~(i <= m)
    BY <1>4
  <2>2. i \notin grows
    BY <1>2, <2>1
  <2> QED  BY <2>1, <2>2
<1> HIDE DEF m, grows
<1>6. c \in Seq(Byte) /\ Len(c) = m /\ \A j \in 1 .. m : c[j] = p[j]
  <2>1. m \in Nat /\ m <= Len(p)
    BY <1>1, <1>4
  <2> QED  BY <2>1, CutType
<1>7. p[m] + 1 \in Byte
  <2>1. p[m] \in Byte /\ Base \in Nat
    BY <1>4, CodecAssumption
  <2> QED  BY <1>4, <2>1 DEF Byte
<1> HIDE DEF c
<1>8. b \in Seq(Byte) /\ Len(b) = m /\ b[m] = p[m] + 1 /\ \A j \in 1 .. m - 1 : b[j] = p[j]
  <2>1. m \in 1 .. Len(c) /\ c[m] = p[m]
    BY <1>1, <1>4, <1>6
  <2>2. b = [c EXCEPT ![m] = p[m] + 1]
    BY <2>1
  <2>3. b \in Seq(Byte) /\ Len(b) = Len(c)
    BY <1>6, <1>7, <2>1, <2>2
  <2>4. b[m] = p[m] + 1 /\ \A j \in 1 .. m - 1 : b[j] = c[j]
    BY <1>6, <2>1, <2>2
  <2>5. \A j \in 1 .. m - 1 : c[j] = p[j]
    BY <1>4, <1>6
  <2> QED  BY <1>6, <2>3, <2>4, <2>5
<1> QED  BY <1>3, <1>4, <1>5, <1>8 DEF Agree

LEMMA BoundIsExact ==
  ASSUME NEW p \in Seq(Byte), p # <<>>, p[1] # Base - 1, NEW k \in Seq(Byte)
  PROVE  Before(k, UpperBound(p)) <=> IsPrefix(p, k) \/ Before(k, p)
<1> DEFINE b == UpperBound(p)  lk == Len(k)  lp == Len(p)
<1>1. PICK m \in 1 .. lp :
        /\ b \in Seq(Byte) /\ Len(b) = m /\ Agree(b, p, m - 1) /\ b[m] = p[m] + 1
        /\ \A i \in m + 1 .. lp : p[i] = Base - 1
  BY UpperBoundShape
<1> HIDE DEF b
<1>2. lk \in Nat /\ lp \in Nat /\ m \in Nat /\ 1 <= m /\ m <= lp
  OBVIOUS
<1>3. \A i \in 1 .. lk : k[i] \in Byte
  OBVIOUS
<1>4. \A i \in 1 .. lp : p[i] \in Byte
  OBVIOUS
<1>5. \A n \in Byte : n \in Nat /\ n <= Base - 1
  BY CodecAssumption DEF Byte
<1>6. \A i \in Nat : 1 <= i /\ i < m => b[i] = p[i]
  BY <1>1, <1>2 DEF Agree
<1>7. Before(k, b) <=> \/ lk < m /\ Agree(k, b, lk)
                       \/ \E i \in Nat : /\ 1 <= i /\ i <= lk /\ i <= m
                                         /\ Agree(k, b, i - 1) /\ k[i] < b[i]
  BY <1>1, BeforeDef
<1>8. Before(k, p) <=> \/ lk < lp /\ Agree(k, p, lk)
                       \/ \E i \in Nat : /\ 1 <= i /\ i <= lk /\ i <= lp
                                         /\ Agree(k, p, i - 1) /\ k[i] < p[i]
  BY BeforeDef
<1>9. IsPrefix(p, k) <=> lp <= lk /\ \A i \in 1 .. lp : p[i] = k[i]
  BY PrefixDef DEF Agree
<1> HIDE DEF lk, lp
\* Below the byte it raises, the bound and the prefix are alike.
<1>10. \A n \in Nat : n < m => (Agree(k, b, n) <=> Agree(k, p, n))
  BY <1>6 DEF Agree
\* A key that has the prefix up to that byte lies below the bound.
<1>11. ASSUME m <= lk, Agree(k, p, m) PROVE Before(k, b)
  <2>1. Agree(k, p, m - 1) /\ k[m] = p[m]
    BY <1>2, <1>11 DEF Agree
  <2>2. Agree(k, b, m - 1)
    BY <1>2, <1>10, <2>1
  <2>3. p[m] \in Nat
    BY <1>2, <1>4, <1>5
  <2>4. k[m] < b[m]
    BY <1>1, <2>1, <2>3
  <2> QED  BY <1>2, <1>7, <1>11, <2>2, <2>4
<1>12. ASSUME IsPrefix(p, k) PROVE Before(k, b)
  <2>1. m <= lk /\ Agree(k, p, m)
    BY <1>2, <1>9, <1>12 DEF Agree
  <2> QED  BY <1>11, <2>1
<1>13. ASSUME lk < lp, Agree(k, p, lk) PROVE Before(k, b)
  <2>1. CASE m <= lk
    <3>1. Agree(k, p, m)
      BY <1>2, <1>13, <2>1 DEF Agree
    <3> QED  BY <1>11, <2>1, <3>1
  <2>2. CASE lk < m
    BY <1>2, <1>7, <1>10, <1>13, <2>2
  <2> QED  BY <1>2, <2>1, <2>2
<1>14. ASSUME NEW i \in Nat, 1 <= i, i <= lk, i <= lp, Agree(k, p, i - 1), k[i] < p[i]
       PROVE  Before(k, b)
  <2>1. k[i] \in Nat /\ p[i] \in Nat
    BY <1>2, <1>3, <1>4, <1>5, <1>14
  <2>2. CASE m < i
    <3>1. Agree(k, p, m) /\ m <= lk
      BY <1>2, <1>14, <2>2 DEF Agree
    <3> QED  BY <1>11, <3>1
  <2>3. CASE i <= m
    <3>1. i - 1 \in Nat /\ i - 1 < m
      BY <1>2, <1>14, <2>3
    <3>2. Agree(k, b, i - 1)
      BY <1>10, <1>14, <3>1
    <3>3. b[i] = p[i] \/ b[i] = p[i] + 1
      BY <1>1, <1>2, <1>6, <1>14, <2>3
    <3>4. k[i] < b[i]
      BY <1>14, <2>1, <3>3
    <3> QED  BY <1>7, <1>14, <2>3, <3>2, <3>4
  <2> QED  BY <1>2, <2>2, <2>3
\* A key that has the prefix up to that byte and not the whole prefix is smaller.
<1>15. ASSUME m <= lk, Agree(k, p, m) PROVE IsPrefix(p, k) \/ Before(k, p)
  <2> DEFINE n == IF lk < lp THEN lk ELSE lp
  <2>1. n \in Nat /\ n <= lk /\ n <= lp /\ m <= n
    BY <1>2, <1>15
  <2>2. CASE Agree(k, p, n)
    <3>1. CASE lk < lp
      BY <1>8, <2>2, <3>1
    <3>2. CASE ~(lk < lp)
      <4>1. lp <= lk /\ Agree(k, p, lp)
        BY <1>2, <2>2, <3>2
      <4> QED  BY <1>9, <4>1 DEF Agree
    <3> QED  BY <3>1, <3>2
  <2>3. CASE ~Agree(k, p, n)
    <3> HIDE DEF n
    <3>1. PICK d \in 1 .. n : Agree(k, p, d - 1) /\ k[d] # p[d]
      BY <2>1, <2>3, FirstDifference
    <3>2. d \in Nat /\ 1 <= d /\ d <= lk /\ d <= lp
      BY <1>2, <2>1
    <3>3. m < d
      <4> SUFFICES ASSUME d <= m PROVE FALSE
        BY <1>2, <3>2
      <4>1. d \in 1 .. m
        BY <1>2, <3>2
      <4> QED  BY <1>15, <3>1, <4>1 DEF Agree
    <3>4. p[d] = Base - 1
      BY <1>1, <1>2, <3>2, <3>3
    <3>5. k[d] \in Byte
      BY <1>2, <1>3, <3>2
    <3>6. k[d] < p[d]
      <4>1. k[d] \in Nat /\ k[d] <= Base - 1 /\ Base \in Nat
        BY <1>5, <3>5, CodecAssumption
      <4> QED  BY <3>1, <3>4, <4>1
    <3> QED  BY <1>8, <3>1, <3>2, <3>6
  <2> QED  BY <2>2, <2>3
<1>16. ASSUME lk < m, Agree(k, b, lk) PROVE Before(k, p)
  <2>1. lk < lp /\ Agree(k, p, lk)
    BY <1>2, <1>10, <1>16
  <2> QED  BY <1>8, <2>1
<1>17. ASSUME NEW i \in Nat, 1 <= i, i <= lk, i <= m, Agree(k, b, i - 1), k[i] < b[i]
       PROVE  IsPrefix(p, k) \/ Before(k, p)
  <2>1. i - 1 \in Nat /\ i - 1 < m /\ i <= lp
    BY <1>2, <1>17
  <2>2. Agree(k, p, i - 1)
    BY <1>10, <1>17, <2>1
  <2>3. k[i] \in Nat /\ p[i] \in Nat
    <3>1. i \in 1 .. lk /\ i \in 1 .. lp
      BY <1>2, <1>17, <2>1
    <3> QED  BY <1>3, <1>4, <1>5, <3>1
  <2>4. CASE k[i] < p[i]
    BY <1>8, <1>17, <2>1, <2>2, <2>4
  <2>5. CASE ~(k[i] < p[i])
    <3>1. i = m /\ k[m] = p[m]
      <4>1. i = m
        BY <1>2, <1>6, <1>17, <2>5
      <4> QED  BY <1>1, <1>17, <2>3, <2>5, <4>1
    <3>2. Agree(k, p, m)
      BY <1>2, <2>2, <3>1 DEF Agree
    <3> QED  BY <1>15, <1>17, <3>1, <3>2
  <2> QED  BY <2>4, <2>5
<1>18. Before(k, b) => IsPrefix(p, k) \/ Before(k, p)
  BY <1>7, <1>16, <1>17
<1>19. Before(k, p) => Before(k, b)
  BY <1>8, <1>13, <1>14
<1> QED  BY <1>12, <1>18, <1>19 DEF b

-----------------------------------------------------------------------------
(* The decoder of another format, where the flag tells.                      *)

LEMMA FlagsDiffer ==
  ASSUME NEW name \in DOMAIN Formats, NEW d \in Meets[name], d # name
  PROVE  /\ d \in DOMAIN Formats
         /\ Formats[name].flag # 0 /\ Formats[d].flag # 0
         /\ Formats[name].flag # Formats[d].flag
<1>1. name \in {"chunk", "flat", "log_latest", "log_older", "sealing_latest",
                "sealing_older", "scan_latest", "scan_older"}
  BY DEF Formats
<1>2. Meets[name] = CASE name \in {"sealing_latest", "sealing_older"} -> {"sealing_latest", "sealing_older"}
                      [] name \in {"scan_latest", "scan_older"} -> {"scan_latest", "scan_older"}
                      [] name = "log_older" -> {"log_latest"}
                      [] OTHER -> {name}
  BY DEF Meets
<1>3. \/ name = "sealing_latest" /\ d = "sealing_older"
      \/ name = "sealing_older" /\ d = "sealing_latest"
      \/ name = "scan_latest" /\ d = "scan_older"
      \/ name = "scan_older" /\ d = "scan_latest"
      \/ name = "log_older" /\ d = "log_latest"
  BY <1>1, <1>2
<1>4. d \in DOMAIN Formats
  BY <1>3 DEF Formats
<1>5. /\ Formats["sealing_latest"].flag = Latest /\ Formats["sealing_older"].flag = Older
      /\ Formats["scan_latest"].flag = Latest /\ Formats["scan_older"].flag = Older
      /\ Formats["log_latest"].flag = Latest /\ Formats["log_older"].flag = Older
  BY DEF Formats, Format
<1> QED  BY <1>3, <1>4, <1>5 DEF Latest, Older

LEMMA OtherRefuses ==
  ASSUME NEW v, NEW N, NEW bs, CutTo(v, N, bs), NEW d \in Meets[v.format], d # v.format
  PROVE  ~Decoded(d, bs).ok
<1> DEFINE f == Formats[d]
<1>1. v.format \in DOMAIN Formats
  BY DEF CutTo, IsValue
<1>2. /\ d \in DOMAIN Formats /\ f.flag # 0
      /\ Formats[v.format].flag # 0 /\ Formats[v.format].flag # f.flag
  BY <1>1, FlagsDiffer
<1>3. ~HeaderFits(f, bs)
  <2> SUFFICES ASSUME HeaderFits(f, bs) PROVE FALSE
    OBVIOUS
  <2>1. Len(bs) >= HeaderLen(f) /\ bs[1] = f.flag
    BY <1>2 DEF HeaderFits
  <2>2. HeaderLen(f) >= 1 /\ HeaderLen(f) \in Nat
    <3>1. f.words \in Nat /\ WordLen \in Nat
      BY <1>2, FormatFacts, CodecAssumption
    <3>2. f.words * WordLen \in Nat /\ FlagLen(f) = 1
      BY <1>2, <3>1 DEF FlagLen
    <3> QED  BY <3>2 DEF HeaderLen
  <2>3. Len(bs) = N /\ N \in Nat
    BY CutParts, 0 \in Nat, 0 <= 0
  <2>4. N >= 1
    BY <2>1, <2>2, <2>3
  <2> QED  BY <1>2, <2>1, <2>4, FlagRead
<1>4. Decoded(d, bs) = Refused
  BY <1>3 DEF Decoded
<1> QED  BY <1>4 DEF Refused

-----------------------------------------------------------------------------
(* The runs of Codecs.                                                       *)

CodecInv ==
  /\ stage \in {"value", "encoded", "decoded"} => job \in Values
  /\ stage \in {"seek", "bounded"} => job \in Seeks
  /\ stage \in {"value", "encoded", "decoded", "seek", "bounded"}
  /\ stage = "value" => cut = 0
  /\ stage \in {"encoded", "decoded"} =>
       /\ cut \in 0 .. Len(Encoded(job))
       /\ bytes = SubSeq(Encoded(job), 1, Len(Encoded(job)) - cut)
  /\ stage = "decoded" => decoder \in Meets[job.format] /\ out = Decoded(decoder, bytes)
  /\ stage = "bounded" => bytes = UpperBound(job.prefix)

LEMMA WholeEncoding ==
  ASSUME NEW v \in Values
  PROVE  /\ IsValue(v) /\ Encoded(v) \in Seq(Byte) /\ Len(Encoded(v)) \in Nat
         /\ \A c \in 0 .. Len(Encoded(v)) :
              CutTo(v, Len(Encoded(v)) - c, SubSeq(Encoded(v), 1, Len(Encoded(v)) - c))
<1>1. IsValue(v)
  BY CodecAssumption
<1>2. Encoded(v) \in Seq(Byte)
  BY <1>1, EncodedParts
<1>3. Len(Encoded(v)) \in Nat
  BY <1>2
<1> DEFINE l == Len(Encoded(v))
<1>4. \A c \in 0 .. l : l - c \in 0 .. l
  BY <1>3
<1> QED  BY <1>1, <1>2, <1>3, <1>4 DEF CutTo

LEMMA CodecInvInit == Init => CodecInv
BY DEF Init, CodecInv

LEMMA CodecInvStep == CodecInv /\ [Next]_vars => CodecInv'
<1> SUFFICES ASSUME CodecInv, [Next]_vars PROVE CodecInv'
  OBVIOUS
<1>1. CASE Encode
  <2> DEFINE e == Encoded(job)
  <2>1. stage = "value" /\ stage' = "encoded" /\ bytes' = e /\ job' = job /\ cut' = cut
    BY <1>1 DEF Encode
  <2>2. job \in Values /\ cut = 0
    BY <2>1 DEF CodecInv
  <2>3. e \in Seq(Byte) /\ Len(e) \in Nat
    BY <2>2, WholeEncoding
  <2>4. Encoded(job)' = e
    BY <2>1
  <2> HIDE DEF e
  <2>5. e = SubSeq(e, 1, Len(e) - 0) /\ 0 \in 0 .. Len(e)
    BY <2>3
  <2> QED  BY <2>1, <2>2, <2>4, <2>5 DEF CodecInv
<1>2. CASE Cut
  <2> DEFINE e == Encoded(job)
  <2>1. PICK n \in 1 .. Len(bytes) : bytes' = SubSeq(bytes, 1, Len(bytes) - n) /\ cut' = n
    BY <1>2 DEF Cut
  <2>2. stage = "encoded" /\ cut = 0 /\ stage' = stage /\ job' = job
    BY <1>2 DEF Cut
  <2>3. job \in Values /\ bytes = SubSeq(e, 1, Len(e) - 0)
    BY <2>2 DEF CodecInv
  <2>4. e \in Seq(Byte) /\ Len(e) \in Nat
    BY <2>3, WholeEncoding
  <2>5. Encoded(job)' = e
    BY <2>2
  <2> HIDE DEF e
  <2>6. bytes = e
    BY <2>3, <2>4
  <2>7. n \in 0 .. Len(e) /\ bytes' = SubSeq(e, 1, Len(e) - n)
    BY <2>1, <2>4, <2>6
  <2> QED  BY <2>1, <2>2, <2>3, <2>5, <2>7 DEF CodecInv
<1>3. CASE Decode
  <2>1. PICK d \in Meets[job.format] : decoder' = d /\ out' = Decoded(d, bytes)
    BY <1>3 DEF Decode
  <2>2. /\ stage = "encoded" /\ stage' = "decoded"
        /\ job' = job /\ bytes' = bytes /\ cut' = cut
    BY <1>3 DEF Decode
  <2>3. Encoded(job)' = Encoded(job) /\ Decoded(decoder, bytes)' = Decoded(d, bytes)
    BY <2>1, <2>2
  <2> QED  BY <2>1, <2>2, <2>3 DEF CodecInv
<1>4. CASE Bound
  <2>1. stage = "seek" /\ stage' = "bounded" /\ bytes' = UpperBound(job.prefix) /\ job' = job
    BY <1>4 DEF Bound
  <2>2. UpperBound(job.prefix)' = UpperBound(job.prefix)
    BY <2>1
  <2> QED  BY <2>1, <2>2 DEF CodecInv
<1>5. CASE UNCHANGED vars
  <2>1. /\ stage' = stage /\ job' = job /\ bytes' = bytes /\ cut' = cut
        /\ decoder' = decoder /\ out' = out
    BY <1>5 DEF vars
  <2>2. /\ Encoded(job)' = Encoded(job) /\ Decoded(decoder, bytes)' = Decoded(decoder, bytes)
        /\ UpperBound(job.prefix)' = UpperBound(job.prefix)
    BY <2>1
  <2> QED  BY <2>1, <2>2 DEF CodecInv
<1> QED  BY <1>1, <1>2, <1>3, <1>4, <1>5 DEF Next

LEMMA CodecInvHolds == Spec => []CodecInv
BY CodecInvInit, CodecInvStep, PTL DEF Spec

LEMMA DecodedState ==
  ASSUME CodecInv, stage = "decoded"
  PROVE  /\ job \in Values /\ IsValue(job) /\ decoder \in Meets[job.format]
         /\ out = Decoded(decoder, bytes)
         /\ CutTo(job, Len(Encoded(job)) - cut, bytes)
         /\ Len(Encoded(job)) \in Nat /\ cut \in 0 .. Len(Encoded(job))
<1>1. /\ job \in Values /\ decoder \in Meets[job.format] /\ out = Decoded(decoder, bytes)
      /\ cut \in 0 .. Len(Encoded(job))
      /\ bytes = SubSeq(Encoded(job), 1, Len(Encoded(job)) - cut)
  BY DEF CodecInv
<1> QED  BY <1>1, WholeEncoding

LEMMA OwnReading ==
  ASSUME CodecInv, Own, out.ok
  PROVE  LET f == Formats[job.format]
         IN  \E k \in 0 .. Len(job.tail) :
               /\ Len(job.tail) \in Nat /\ f.tail \in Nat /\ cut \in Nat
               /\ cut + k * f.tail = Len(job.tail) * f.tail
               /\ out = [ok |-> TRUE, words |-> job.words, range |-> job.range,
                         tail |-> SubSeq(job.tail, 1, k)]
<1> DEFINE f == Formats[job.format]  E == Len(Encoded(job))  N == E - cut
           h == HeadLen(job)  lr == Len(StoredRange(job))  lt == Len(job.tail) * f.tail
<1>1. /\ job \in Values /\ IsValue(job) /\ out = Decoded(job.format, bytes)
      /\ CutTo(job, N, bytes) /\ E \in Nat /\ cut \in 0 .. E
  BY DecodedState DEF Own
<1>2. PICK k \in 0 .. Len(job.tail) :
        /\ N = h + lr + k * f.tail
        /\ out = [ok |-> TRUE, words |-> job.words, range |-> job.range,
                  tail |-> SubSeq(job.tail, 1, k)]
  <2> HIDE DEF N, E
  <2>1. CutTo(job, N, bytes) /\ out = Decoded(job.format, bytes) /\ out.ok
    BY <1>1
  <2>2. Reads(job, N, out)
    BY <2>1, DecodedCut
  <2> QED  BY <2>2 DEF Reads
<1>3. E = h + lr + Len(TailOf(job)) /\ h \in Nat /\ lr \in Nat
  BY <1>1, EncodedParts
<1>4. Len(TailOf(job)) = lt /\ Len(job.tail) \in Nat /\ f.tail \in Nat
  BY <1>1, TailParts
<1>5. cut \in Nat /\ k \in Nat
  BY <1>1, <1>2, <1>4
<1> DEFINE l == Len(job.tail)  kt == k * f.tail
<1>6. kt \in Nat /\ lt \in Nat
  <2> DEFINE t == f.tail
  <2>1. l \in Nat /\ t \in Nat
    BY <1>4
  <2> HIDE DEF t, l
  <2>2. k * t \in Nat /\ l * t \in Nat
    BY <1>5, <2>1
  <2> QED  BY <2>2 DEF t, l
<1>7. E - cut = h + lr + kt /\ E = h + lr + lt
  BY <1>2, <1>3, <1>4
<1> HIDE DEF E, h, lr, kt, lt
<1>8. cut + kt = lt
  BY <1>1, <1>3, <1>5, <1>6, <1>7
<1> QED  BY <1>2, <1>4, <1>5, <1>8 DEF kt, lt

\* Own decoders invert: a value that was stored and comes back whole is decoded to the
\* words, the range with all its hashes and the tail that were encoded, whatever the
\* lengths of words, hashes and offsets, the size of the range and the number of groups
\* of its varint.
THEOREM DecodingInvertsHolds == Spec => []DecodingInverts
<1>1. CodecInv => DecodingInverts
  <2> SUFFICES ASSUME CodecInv, Own, cut = 0
               PROVE  out = [ok |-> TRUE, words |-> job.words, range |-> job.range,
                             tail |-> job.tail]
    BY DEF DecodingInverts
  <2> DEFINE f == Formats[job.format]  E == Len(Encoded(job))
  <2>1. /\ job \in Values /\ IsValue(job) /\ out = Decoded(job.format, bytes)
        /\ CutTo(job, E - cut, bytes) /\ E \in Nat
    BY DecodedState DEF Own
  <2>2. out.ok
    <3>1. E - cut = E
      BY <2>1
    <3> QED  BY <2>1, <3>1, DecodedCut
  <2>3. PICK k \in 0 .. Len(job.tail) :
          /\ Len(job.tail) \in Nat /\ f.tail \in Nat
          /\ cut + k * f.tail = Len(job.tail) * f.tail
          /\ out = [ok |-> TRUE, words |-> job.words, range |-> job.range,
                    tail |-> SubSeq(job.tail, 1, k)]
    BY <2>2, OwnReading
  <2>4. IF f.tail = 0 THEN job.tail = <<>> ELSE job.tail \in Seq(Below(f.tail))
    BY <2>1 DEF IsValue
  <2>5. SubSeq(job.tail, 1, k) = job.tail
    <3>1. CASE f.tail = 0
      <4>1. job.tail = <<>> /\ k = 0
        BY <2>3, <2>4, <3>1
      <4> QED  BY <4>1
    <3>2. CASE f.tail # 0
      <4> DEFINE t == f.tail  c == Len(job.tail)
      <4>1. t \in Nat /\ t > 0 /\ c \in Nat /\ k \in Nat /\ 0 + k * t = c * t
        BY <2>3, <3>2
      <4> HIDE DEF t, c
      <4>2. k * t \in Nat /\ k * t = k * t + 0 /\ c * t = c * t + 0
        BY <4>1
      <4>3. k = c
        <5> DEFINE n == c * t
        <5>1. n \in Nat /\ n = k * t + 0 /\ n = c * t + 0
          BY <4>1, <4>2
        <5> HIDE DEF n
        <5>2. n \div t = k /\ n \div t = c
          BY <4>1, <5>1, DivUnique
        <5> QED  BY <5>2
      <4> QED  BY <2>4, <3>2, <4>3 DEF c
    <3> QED  BY <3>1, <3>2
  <2> QED  BY <2>3, <2>5
<1> QED  BY <1>1, CodecInvHolds, PTL

\* A latest value is never taken for an older one, nor the other way round, cut or not:
\* the flag is the first byte, and every decoder that looks for one requires it.
THEOREM WrongFlagRefusedHolds == Spec => []WrongFlagRefused
<1>1. CodecInv => WrongFlagRefused
  <2> SUFFICES ASSUME CodecInv, stage = "decoded", decoder # job.format PROVE ~out.ok
    BY DEF WrongFlagRefused
  <2>1. decoder \in Meets[job.format] /\ out = Decoded(decoder, bytes)
        /\ CutTo(job, Len(Encoded(job)) - cut, bytes)
    BY DecodedState
  <2> QED  BY <2>1, OtherRefuses
<1> QED  BY <1>1, CodecInvHolds, PTL

\* A value that was cut anywhere is refused, or lost whole elements of its tail and
\* nothing else: the lengths the header, the varint and the range's size announce leave
\* a decoder no other reading.
THEOREM CutRefusedOrPrefixHolds == Spec => []CutRefusedOrPrefix
<1>1. CodecInv => CutRefusedOrPrefix
  <2> SUFFICES ASSUME CodecInv, Own, cut > 0, out.ok
               PROVE  /\ out.words = job.words /\ out.range = job.range
                      /\ IsStrictPrefix(out.tail, job.tail)
                      /\ cut = Formats[decoder].tail * (Len(job.tail) - Len(out.tail))
    BY DEF CutRefusedOrPrefix
  <2> DEFINE t == Formats[job.format].tail  c == Len(job.tail)
  <2>1. PICK k \in 0 .. c :
          /\ c \in Nat /\ t \in Nat /\ cut \in Nat
          /\ cut + k * t = c * t
          /\ out = [ok |-> TRUE, words |-> job.words, range |-> job.range,
                    tail |-> SubSeq(job.tail, 1, k)]
    BY OwnReading
  <2>2. IsValue(job)
    BY DecodedState DEF Own
  <2>3. IF t = 0 THEN job.tail = <<>> ELSE job.tail \in Seq(Below(t))
    BY <2>2 DEF IsValue
  <2>4. decoder = job.format
    BY DEF Own
  <2> HIDE DEF t
  <2>5. k \in Nat /\ k <= c /\ c \in Nat
    BY <2>1
  <2>6. t # 0
    <3> SUFFICES ASSUME t = 0 PROVE FALSE
      OBVIOUS
    <3>1. k * t = 0 /\ c * t = 0
      BY <2>1, <2>5
    <3> QED  BY <2>1, <3>1
  <2>7. job.tail \in Seq(Below(t))
    BY <2>3, <2>6
  <2>8. Len(SubSeq(job.tail, 1, k)) = k
    BY <2>5, <2>7
  <2> HIDE DEF c
  <2>9. cut = t * (c - k)
    <3>1. t * (c - k) = c * t - k * t
      BY <2>1, <2>5, Z3
    <3>2. c * t \in Nat /\ k * t \in Nat
      BY <2>1, <2>5
    <3> QED  BY <2>1, <3>1, <3>2
  <2>10. k # c
    <3> SUFFICES ASSUME k = c PROVE FALSE
      OBVIOUS
    <3>1. c * t \in Nat
      BY <2>1
    <3> QED  BY <2>1, <3>1
  <2>11. IsStrictPrefix(SubSeq(job.tail, 1, k), job.tail)
    <3> DEFINE x == SubSeq(job.tail, 1, k)
    <3>1. SubSeq(x, 1, k) = x
      BY <2>5, <2>7 DEF c
    <3>2. IsPrefix(x, job.tail)
      BY <2>5, <2>8, <3>1 DEF IsPrefix, c
    <3>3. x # job.tail
      BY <2>8, <2>10 DEF c
    <3> QED  BY <3>2, <3>3 DEF IsStrictPrefix
  <2>12. Len(out.tail) = k /\ IsStrictPrefix(out.tail, job.tail)
         /\ out.words = job.words /\ out.range = job.range
    BY <2>1, <2>8, <2>11
  <2> QED  BY <2>4, <2>9, <2>12 DEF t, c
<1> QED  BY <1>1, CodecInvHolds, PTL

\* Below the bound prefixUpperBound returns lie the keys with the prefix and those before
\* it, and no others, for every prefix that begins with an engine's letter: SeekLT finds
\* the last key of a map key also where the map key ends in bytes 0xff.
THEOREM BoundSeparatesHolds == Spec => []BoundSeparates
<1>1. CodecInv => BoundSeparates
  <2> SUFFICES ASSUME CodecInv, stage = "bounded"
               PROVE  Before(job.key, bytes) <=>
                        IsPrefix(job.prefix, job.key) \/ Before(job.key, job.prefix)
    BY DEF BoundSeparates
  <2>1. job \in Seeks /\ bytes = UpperBound(job.prefix)
    BY DEF CodecInv
  <2>2. /\ job.prefix \in Seq(Byte) /\ job.prefix # <<>> /\ job.prefix[1] # Base - 1
        /\ job.key \in Seq(Byte)
    BY <2>1, CodecAssumption DEF IsSeek
  <2> QED  BY <2>1, <2>2, BoundIsExact
<1> QED  BY <1>1, CodecInvHolds, PTL
=============================================================================
