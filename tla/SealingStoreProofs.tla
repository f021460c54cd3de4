------------------------- MODULE SealingStoreProofs -------------------------
(***************************************************************************)
(* Both sealing chunk stores keep their links, counts, flags and ranges in *)
(* agreement, never change a sealed chunk, never fail a read, and          *)
(* implement IndexStore, for every chunk size, set of keys, readers and    *)
(* batches.                                                                *)
(***************************************************************************)
EXTENDS SealingInvariant, SequenceTheorems, FiniteSetTheorems, WellFoundedInduction, TLAPS

-----------------------------------------------------------------------------
(* Indices, chunk numbers and offsets.                                       *)

LEMMA IndexType ==
  /\ Index = 0 .. MaxUint /\ Index \subseteq Nat /\ 0 \in Index
  /\ \A i \in Index : i \in Nat
BY SealingAssumption DEF Index, Layout!Index

LEMMA DivMod ==
  ASSUME NEW i \in Nat, NEW n \in Nat, n > 0
  PROVE  /\ i \div n \in Nat /\ i % n \in Nat /\ i % n < n
         /\ ((i \div n) * n) + (i % n) = i
BY Z3

LEMMA DivBelow ==
  ASSUME NEW q \in Nat, NEW r \in Nat, NEW n \in Nat, n > 0
  PROVE  q <= q * n + r
BY Z3

LEMMA DivOrder ==
  ASSUME NEW p \in Nat, NEW q \in Nat, NEW n \in Nat, n > 0, NEW r \in Nat, NEW s \in Nat,
         r < n, s < n, p * n + r <= q * n + s
  PROVE  p <= q
<1> SUFFICES ASSUME q + 1 <= p PROVE FALSE
  OBVIOUS
<1>1. (q + 1) * n <= p * n
  BY Z3
<1>2. (q + 1) * n = q * n + n
  BY Z3
<1>3. p * n \in Nat /\ q * n \in Nat
  BY Z3
<1>4. \A x \in Nat, y \in Nat : y + n <= x => ~(x + r <= y + s)
  BY Z3
<1> QED  BY <1>1, <1>2, <1>3, <1>4

\* An index is in its chunk, at its offset.
LEMMA InChunk ==
  ASSUME NEW i \in Index
  PROVE  /\ Layout!ChunkNum(i) \in Index /\ Layout!ChunkNum(i) \in Nat
         /\ Layout!RelIdx(i) \in Layout!Rel
         /\ Layout!ChunkNum(i) * ChunkSize + Layout!RelIdx(i) = i
<1> DEFINE c == i \div ChunkSize  r == i % ChunkSize
<1>1. i \in Nat /\ i <= MaxUint /\ MaxUint \in Nat /\ ChunkSize \in Nat /\ ChunkSize > 0
  BY IndexType, SealingAssumption
<1>2. c \in Nat /\ r \in Nat /\ r < ChunkSize /\ c * ChunkSize + r = i
  BY <1>1, DivMod
<1> HIDE DEF c, r
<1>3. c <= i
  BY <1>1, <1>2, DivBelow
<1>4. c \in Index
  BY <1>1, <1>2, <1>3, IndexType
<1>5. r < RelSpan /\ RelSpan \in Nat
  BY <1>1, <1>2, SealingAssumption
<1>6. r % RelSpan = r
  BY <1>2, <1>5
<1>7. Layout!ChunkNum(i) = c /\ Layout!RelIdx(i) = r
  BY <1>6 DEF Layout!ChunkNum, Layout!RelIdx, c, r
<1>8. r \in Layout!Rel
  BY <1>2, <1>5 DEF Layout!Rel
<1> QED  BY <1>2, <1>4, <1>7, <1>8

LEMMA ChunksOrdered ==
  ASSUME NEW i \in Index, NEW j \in Index
  PROVE  /\ i <= j => Layout!ChunkNum(i) <= Layout!ChunkNum(j)
         /\ Layout!ChunkNum(i) < Layout!ChunkNum(j) => i < j
         /\ Layout!ChunkNum(i) * ChunkSize <= i
<1>1. \A x \in Index : /\ Layout!ChunkNum(x) \in Nat /\ Layout!RelIdx(x) \in Nat
                       /\ Layout!RelIdx(x) < ChunkSize /\ x \in Nat
                       /\ Layout!ChunkNum(x) * ChunkSize + Layout!RelIdx(x) = x
  <2> TAKE x \in Index
  <2>1. x \in Nat /\ ChunkSize \in Nat /\ ChunkSize > 0
    BY IndexType, SealingAssumption
  <2>2. x % ChunkSize \in Nat /\ x % ChunkSize < ChunkSize
    BY <2>1, DivMod
  <2>3. Layout!RelIdx(x) = x % ChunkSize
    BY <2>1, <2>2, SealingAssumption DEF Layout!RelIdx
  <2> QED  BY <2>1, <2>2, <2>3, InChunk
<1>2. ChunkSize \in Nat /\ ChunkSize > 0
  BY SealingAssumption
<1> DEFINE p == Layout!ChunkNum(i)  q == Layout!ChunkNum(j)
           r == Layout!RelIdx(i)  s == Layout!RelIdx(j)
<1>3. /\ p \in Nat /\ q \in Nat /\ r \in Nat /\ s \in Nat /\ r < ChunkSize /\ s < ChunkSize
      /\ p * ChunkSize + r = i /\ q * ChunkSize + s = j
  BY <1>1
<1>4. i \in Nat /\ j \in Nat
  BY <1>1
<1> HIDE DEF p, q, r, s
<1>5. i <= j => p <= q
  BY <1>2, <1>3, DivOrder
<1>6. j <= i => q <= p
  BY <1>2, <1>3, DivOrder
<1>7. p < q => i < j
  BY <1>3, <1>4, <1>6
<1>8. p * ChunkSize \in Nat
  BY <1>2, <1>3, Z3
<1>9. p * ChunkSize <= i
  BY <1>3, <1>4, <1>8
<1> QED  BY <1>5, <1>7, <1>9 DEF p, q, r, s

-----------------------------------------------------------------------------
(* Parts of lists.                                                           *)

\* The part of a list after its first m indices up to the n-th.
Part(L, m, n) == SubSeq(L, m + 1, n)

LEMMA ListType ==
  ASSUME NEW L \in Seq(Index)
  PROVE  /\ Len(L) \in Nat /\ \A i \in 1 .. Len(L) : L[i] \in Index /\ L[i] \in Nat
         /\ DOMAIN L = 1 .. Len(L)
BY LenProperties, ElementOfSeq, IndexType

LEMMA ListEqual ==
  ASSUME NEW L \in Seq(Index), NEW M \in Seq(Index), Len(L) = Len(M),
         \A i \in 1 .. Len(L) : L[i] = M[i]
  PROVE  L = M
BY SeqEqual

LEMMA PartFacts ==
  ASSUME NEW L \in Seq(Index), NEW m \in Nat, NEW n \in Nat, m <= n, n <= Len(L)
  PROVE  /\ Part(L, m, n) \in Seq(Index) /\ Len(Part(L, m, n)) = n - m
         /\ \A i \in 1 .. n - m : Part(L, m, n)[i] = L[m + i]
<1>1. Len(L) \in Nat /\ \A i \in m + 1 .. n : L[i] \in Index
  BY ListType
<1>2. m + 1 \in Int /\ n \in Int
  OBVIOUS
<1>3. /\ Part(L, m, n) \in Seq(Index)
      /\ Len(Part(L, m, n)) = IF m + 1 <= n THEN n - (m + 1) + 1 ELSE 0
      /\ \A i \in 1 .. n - (m + 1) + 1 : Part(L, m, n)[i] = L[(m + 1) + i - 1]
  BY <1>1, <1>2, SubSeqProperties DEF Part
<1>4. Len(Part(L, m, n)) = n - m
  BY <1>3
<1>5. ASSUME NEW i \in 1 .. n - m
      PROVE  Part(L, m, n)[i] = L[m + i]
  <2>1. i \in 1 .. n - (m + 1) + 1 /\ (m + 1) + i - 1 = m + i
    OBVIOUS
  <2> QED  BY <1>1, <1>3, <2>1
<1> QED  BY <1>3, <1>4, <1>5

LEMMA PartWhole ==
  ASSUME NEW L \in Seq(Index)
  PROVE  /\ Part(L, 0, Len(L)) = L
         /\ \A m \in Nat : m <= Len(L) => Part(L, m, m) = <<>>
<1>1. Len(L) \in Nat
  BY ListType
<1>2. Part(L, 0, Len(L)) = L
  <2> DEFINE p == Part(L, 0, Len(L))
  <2>0. 0 \in Nat /\ 0 <= Len(L) /\ Len(L) <= Len(L)
    BY <1>1
  <2>1. p \in Seq(Index) /\ Len(p) = Len(L) - 0 /\ \A i \in 1 .. Len(L) - 0 : p[i] = L[0 + i]
    BY <1>1, <2>0, PartFacts
  <2> HIDE DEF p
  <2>2. Len(p) = Len(L) /\ \A i \in 1 .. Len(p) : p[i] = L[i]
    BY <1>1, <2>1
  <2>3. p = L
    BY <2>1, <2>2, ListEqual
  <2> QED  BY <2>3 DEF p
<1>3. ASSUME NEW m \in Nat, m <= Len(L) PROVE Part(L, m, m) = <<>>
  <2>1. Part(L, m, m) \in Seq(Index) /\ Len(Part(L, m, m)) = m - m
    BY <1>3, PartFacts
  <2> QED  BY <2>1, EmptySeq
<1> QED  BY <1>2, <1>3

LEMMA PartConcat ==
  ASSUME NEW L \in Seq(Index), NEW m \in Nat, NEW n \in Nat, NEW o \in Nat,
         m <= n, n <= o, o <= Len(L)
  PROVE  Part(L, m, n) \o Part(L, n, o) = Part(L, m, o)
<1> DEFINE a == Part(L, m, n)  b == Part(L, n, o)  l == a \o b  r == Part(L, m, o)
<1>0. Len(L) \in Nat /\ n <= Len(L) /\ m <= o
  BY ListType
<1>1. a \in Seq(Index) /\ Len(a) = n - m /\ \A i \in 1 .. n - m : a[i] = L[m + i]
  BY <1>0, PartFacts
<1>2. b \in Seq(Index) /\ Len(b) = o - n /\ \A i \in 1 .. o - n : b[i] = L[n + i]
  BY <1>0, PartFacts
<1>3. r \in Seq(Index) /\ Len(r) = o - m /\ \A i \in 1 .. o - m : r[i] = L[m + i]
  BY <1>0, PartFacts
<1> HIDE DEF a, b, r
<1>4. /\ l \in Seq(Index) /\ Len(l) = Len(a) + Len(b)
      /\ \A i \in 1 .. Len(a) + Len(b) : l[i] = IF i <= Len(a) THEN a[i] ELSE b[i - Len(a)]
  BY <1>1, <1>2, ConcatProperties
<1> HIDE DEF l
<1>5. Len(l) = Len(r) /\ Len(r) = o - m
  BY <1>1, <1>2, <1>3, <1>4
<1>6. ASSUME NEW i \in 1 .. Len(l) PROVE l[i] = r[i]
  <2>1. i \in Nat /\ i \in 1 .. Len(a) + Len(b) /\ r[i] = L[m + i]
    BY <1>1, <1>2, <1>3, <1>4, <1>5
  <2>2. CASE i <= Len(a)
    BY <1>1, <1>4, <2>1, <2>2
  <2>3. CASE ~(i <= Len(a))
    <3>1. i - Len(a) \in 1 .. o - n /\ n + (i - Len(a)) = m + i
      BY <1>1, <1>2, <2>1, <2>3
    <3>2. l[i] = b[i - Len(a)]
      BY <1>4, <2>1, <2>3
    <3> QED  BY <1>2, <2>1, <3>1, <3>2
  <2> QED  BY <2>2, <2>3
<1>7. l = r
  BY <1>3, <1>4, <1>5, <1>6, ListEqual
<1> QED  BY <1>7 DEF l, r, a, b

\* What From leaves of a part.
LEMMA FromPart ==
  ASSUME NEW L \in Seq(Index), NEW m \in Nat, m <= Len(L), NEW n \in Nat
  PROVE  /\ n <= Len(L) => From(L, n) = Part(L, n, Len(L))
         /\ Len(L) <= n => From(L, n) = <<>>
         /\ From(From(L, m), n) = From(L, m + n)
<1>1. Len(L) \in Nat /\ Len(L) \in Int /\ n + 1 \in Int /\ Len(L) <= Len(L)
  BY ListType
<1>2. \A k \in Nat : k <= Len(L) => From(L, k) = Part(L, k, Len(L))
  BY DEF From, Part
<1>3. \A M \in Seq(Index) : \A k \in Nat : Len(M) <= k => From(M, k) = <<>>
  <2> TAKE M \in Seq(Index)
  <2> TAKE k \in Nat
  <2>1. Len(M) \in Int /\ k + 1 \in Int /\ (Len(M) <= k => Len(M) < k + 1)
    BY ListType
  <2> QED  BY <2>1, SubSeqEmpty DEF From
<1>4. From(From(L, m), n) = From(L, m + n)
  <2> DEFINE f == From(L, m)
  <2>1. f \in Seq(Index) /\ Len(f) = Len(L) - m /\ \A i \in 1 .. Len(L) - m : f[i] = L[m + i]
    <3> DEFINE p == Part(L, m, Len(L))
    <3>1. p \in Seq(Index) /\ Len(p) = Len(L) - m /\ \A i \in 1 .. Len(L) - m : p[i] = L[m + i]
      BY <1>1, PartFacts
    <3>2. f = p
      BY <1>2
    <3> HIDE DEF p, f
    <3> QED  BY <3>1, <3>2
  <2> HIDE DEF f
  <2>2. CASE Len(f) <= n
    <3>1. From(f, n) = <<>>
      BY <1>3, <2>1, <2>2
    <3>2. m + n \in Nat /\ Len(L) <= m + n
      BY <1>1, <2>1, <2>2
    <3>3. From(L, m + n) = <<>>
      BY <1>3, <3>2
    <3> QED  BY <3>1, <3>3 DEF f
  <2>3. CASE ~(Len(f) <= n)
    <3> DEFINE l == Part(f, n, Len(f))  r == Part(L, m + n, Len(L))
    <3>1. n <= Len(f) /\ m + n \in Nat /\ m + n <= Len(L) /\ Len(f) \in Nat
          /\ Len(f) <= Len(f)
      BY <1>1, <2>1, <2>3
    <3>2. l \in Seq(Index) /\ Len(l) = Len(f) - n /\ \A i \in 1 .. Len(f) - n : l[i] = f[n + i]
      BY <2>1, <3>1, PartFacts
    <3>3. /\ r \in Seq(Index) /\ Len(r) = Len(L) - (m + n)
          /\ \A i \in 1 .. Len(L) - (m + n) : r[i] = L[(m + n) + i]
      BY <1>1, <3>1, PartFacts
    <3> HIDE DEF l, r
    <3>4. Len(l) = Len(r)
      BY <1>1, <2>1, <3>2, <3>3
    <3>5. ASSUME NEW i \in 1 .. Len(l) PROVE l[i] = r[i]
      <4>1. /\ i \in 1 .. Len(f) - n /\ n + i \in 1 .. Len(L) - m
            /\ i \in 1 .. Len(L) - (m + n) /\ m + (n + i) = (m + n) + i
        BY <1>1, <2>1, <3>2, <3>3, <3>4
      <4> QED  BY <2>1, <3>2, <3>3, <4>1
    <3>6. l = r
      BY <3>2, <3>3, <3>4, <3>5, ListEqual
    <3>7. From(f, n) = l /\ From(L, m + n) = r
      BY <1>2, <2>1, <3>1 DEF From, Part, l, r
    <3> QED  BY <3>6, <3>7 DEF f
  <2> QED  BY <2>2, <2>3
<1> QED  BY <1>1, <1>2, <1>3, <1>4

-----------------------------------------------------------------------------
(* Seeks.                                                                    *)

LEMMA NatLeast ==
  ASSUME NEW S \in SUBSET Nat, S # {}
  PROVE  \E x \in S : \A y \in S : x <= y
<1>1. \E x \in S : \A y \in S : ~(<<y, x>> \in OpToRel(<, Nat))
  BY NatLessThanWellFounded, WFMin
<1>2. PICK x \in S : \A y \in S : ~(<<y, x>> \in OpToRel(<, Nat))
  BY <1>1
<1>3. \A y \in Nat, z \in Nat : y < z => <<y, z>> \in OpToRel(<, Nat)
  BY Zenon DEF OpToRel
<1>4. \A y \in S : ~(y < x)
  BY <1>2, <1>3
<1>5. x \in S
  BY <1>2
<1> QED  BY <1>4, <1>5

LEMMA NatGreatest ==
  ASSUME NEW b \in Nat, NEW S \in SUBSET (0 .. b), S # {}
  PROVE  \E x \in S : \A y \in S : y <= x
<1> DEFINE U == {n \in Nat : \A y \in S : y <= n}
<1>1. b \in U /\ U \in SUBSET Nat
  OBVIOUS
<1>2. PICK n \in U : \A m \in U : n <= m
  <2> HIDE DEF U
  <2> QED  BY <1>1, NatLeast
<1>3. n \in Nat /\ \A y \in S : y <= n /\ y \in Nat
  BY <1>2
<1>4. n \in S
  <2> SUFFICES ASSUME n \notin S PROVE FALSE
    OBVIOUS
  <2>1. PICK y \in S : TRUE
    OBVIOUS
  <2>2. n # 0
    BY <1>3, <2>1
  <2>3. n - 1 \in U
    BY <1>3, <2>2
  <2>4. n <= n - 1
    BY <1>2, <2>3
  <2> QED  BY <1>3, <2>4
<1> QED  BY <1>3, <1>4

LEMMA SmallestFound ==
  ASSUME NEW S \in SUBSET (Nat \X Nat)
  PROVE  \/ S = {} /\ Layout!Smallest(S) = Layout!Invalid
         \/ /\ Layout!Smallest(S) \in S
            /\ \A b \in S : Layout!Smallest(S) = b \/ Layout!Below(Layout!Smallest(S), b)
<1>1. CASE S = {}
  BY <1>1 DEF Layout!Smallest
<1>2. CASE S # {}
  <2>1. \A a \in S : a = <<a[1], a[2]>> /\ a[1] \in Nat /\ a[2] \in Nat
    OBVIOUS
  <2> DEFINE P == {a[1] : a \in S}
  <2>2. P \in SUBSET Nat /\ P # {}
    BY <1>2, <2>1
  <2>3. PICK p \in P : \A x \in P : p <= x
    <3> HIDE DEF P
    <3> QED  BY <2>2, NatLeast
  <2> DEFINE N == {a[2] : a \in {b \in S : b[1] = p}}
  <2>4. N \in SUBSET Nat /\ N # {}
    BY <2>1, <2>3
  <2>5. PICK n \in N : \A x \in N : n <= x
    <3> HIDE DEF N
    <3> QED  BY <2>4, NatLeast
  <2>6. PICK a \in S : a[1] = p /\ a[2] = n
    BY <2>5
  <2>7. \A b \in S : a = b \/ Layout!Below(a, b)
    <3> TAKE b \in S
    <3>1. b[1] \in P /\ (b[1] = p => b[2] \in N)
      OBVIOUS
    <3>2. p <= b[1] /\ (b[1] = p => n <= b[2])
      BY <2>3, <2>5, <3>1
    <3>3. a = <<a[1], a[2]>> /\ b = <<b[1], b[2]>> /\ a[1] \in Nat /\ a[2] \in Nat
          /\ b[1] \in Nat /\ b[2] \in Nat
      BY <2>1
    <3> QED  BY <2>6, <3>2, <3>3 DEF Layout!Below
  <2> QED  BY <1>2, <2>6, <2>7 DEF Layout!Smallest
<1> QED  BY <1>1, <1>2

LEMMA LargestFound ==
  ASSUME NEW k \in Nat, NEW S \in SUBSET ((0 .. k) \X Index)
  PROVE  \/ S = {} /\ Layout!Largest(S) = Layout!Invalid
         \/ /\ Layout!Largest(S) \in S
            /\ \A b \in S : Layout!Largest(S) = b \/ Layout!Below(b, Layout!Largest(S))
<1>1. CASE S = {}
  BY <1>1 DEF Layout!Largest
<1>2. CASE S # {}
  <2>1. \A a \in S : /\ a = <<a[1], a[2]>> /\ a[1] \in Nat /\ a[2] \in Nat
                     /\ a[1] \in 0 .. k /\ a[2] \in 0 .. MaxUint
    BY IndexType
  <2>0. MaxUint \in Nat
    BY SealingAssumption
  <2> DEFINE P == {a[1] : a \in S}
  <2>2. P \in SUBSET (0 .. k) /\ P # {}
    BY <1>2, <2>1
  <2>3. PICK p \in P : \A x \in P : x <= p
    <3> HIDE DEF P
    <3> QED  BY <2>2, NatGreatest
  <2> DEFINE N == {a[2] : a \in {b \in S : b[1] = p}}
  <2>4. N \in SUBSET (0 .. MaxUint) /\ N # {}
    BY <2>1, <2>3
  <2>5. PICK n \in N : \A x \in N : x <= n
    <3> HIDE DEF N
    <3> QED  BY <2>0, <2>4, NatGreatest
  <2>6. PICK a \in S : a[1] = p /\ a[2] = n
    BY <2>5
  <2>7. \A b \in S : a = b \/ Layout!Below(b, a)
    <3> TAKE b \in S
    <3>1. b[1] \in P /\ (b[1] = p => b[2] \in N)
      OBVIOUS
    <3>2. b[1] <= p /\ (b[1] = p => b[2] <= n)
      BY <2>3, <2>5, <3>1
    <3>3. a = <<a[1], a[2]>> /\ b = <<b[1], b[2]>> /\ a[1] \in Nat /\ a[2] \in Nat
          /\ b[1] \in Nat /\ b[2] \in Nat
      BY <2>1
    <3> QED  BY <2>6, <3>2, <3>3 DEF Layout!Below
  <2> QED  BY <1>2, <2>6, <2>7 DEF Layout!Largest
<1> QED  BY <1>1, <1>2

LEMMA LayoutKeys ==
  /\ \A k, c : Layout!DBKey(k, c) = <<k, c>>
  /\ \A k, c : Layout!ChunkAt(<<k, c>>) = c /\ <<k, c>> # Layout!Invalid
BY DEF Layout!DBKey, Layout!Suffix, Layout!Inverted, Layout!ChunkAt, Layout!Invalid

\* The physical keys of a snapshot.
InSpace(s) == DOMAIN s \subseteq Keys \X Index

LEMMA SpaceFacts ==
  ASSUME NEW s, InSpace(s)
  PROVE  \A a \in DOMAIN s : /\ a = <<a[1], a[2]>> /\ a[1] \in Keys /\ a[2] \in Index
                             /\ a[1] \in Nat /\ a[2] \in Nat /\ a # Layout!Invalid
                             /\ a \in Nat \X Nat
                             /\ a[2] \in ChunksOf(s, a[1])
<1>1. Keys \subseteq Nat /\ Index \subseteq Nat
  BY SealingAssumption, IndexType
<1> TAKE a \in DOMAIN s
<1>2. a \in Keys \X Index
  BY DEF InSpace
<1>3. a = <<a[1], a[2]>> /\ a[1] \in Keys /\ a[2] \in Index /\ a \in Nat \X Nat
  <2>1. PICK x \in Keys, y \in Index : a = <<x, y>>
    BY <1>2
  <2> QED  BY <1>1, <2>1
<1>4. a # Layout!Invalid
  BY <1>3, LayoutKeys
<1>5. a[2] \in ChunksOf(s, a[1])
  BY <1>3, LayoutKeys DEF ChunksOf
<1> QED  BY <1>1, <1>3, <1>4, <1>5

LEMMA ChunkKeys ==
  ASSUME NEW s, NEW k, NEW c \in ChunksOf(s, k)
  PROVE  /\ c \in Index /\ c \in Nat /\ <<k, c>> \in DOMAIN s /\ Layout!DBKey(k, c) = <<k, c>>
         /\ Chunk(s, k, c) = s[<<k, c>>]
BY LayoutKeys, IndexType DEF ChunksOf, Chunk

\* SeekLT to the end of the prefix finds the key's last chunk.
LEMMA LatestFinds ==
  ASSUME NEW s, InSpace(s), NEW k \in Keys
  PROVE  \/ ChunksOf(s, k) = {} /\ Layout!ReverseSeekLatest(s, k) = Layout!Invalid
         \/ \E c \in ChunksOf(s, k) : /\ \A d \in ChunksOf(s, k) : d <= c
                                      /\ Layout!ReverseSeekLatest(s, k) = <<k, c>>
<1> DEFINE S == {b \in DOMAIN s : Layout!Below(b, Layout!prefixUpperBound(k))}
           a == Layout!Largest(S)
<1>1. k \in Nat
  BY SealingAssumption
<1>2. \A b \in DOMAIN s : b \in S <=> b[1] <= k
  <2> TAKE b \in DOMAIN s
  <2>1. b[1] \in Nat /\ b[2] \in Nat
    BY SpaceFacts
  <2> QED  BY <1>1, <2>1 DEF Layout!Below, Layout!prefixUpperBound
<1>3. S \in SUBSET ((0 .. k) \X Index)
  <2>1. \A b \in S : b \in DOMAIN s /\ b[1] <= k
    BY <1>2
  <2>2. \A b \in S : b = <<b[1], b[2]>> /\ b[1] \in Nat /\ b[2] \in Index
    BY SpaceFacts
  <2>3. \A b \in S : b \in (0 .. k) \X Index
    BY <1>1, <2>1, <2>2
  <2> QED  BY <2>3
<1>4. Layout!ReverseSeekLatest(s, k) =
        IF a # Layout!Invalid /\ a[1] = k THEN a ELSE Layout!Invalid
  BY DEF Layout!ReverseSeekLatest, Layout!Within, Layout!HasPrefix, Layout!SeekLT
<1> HIDE DEF a
<1>5. \/ S = {} /\ a = Layout!Invalid
      \/ a \in S /\ \A b \in S : a = b \/ Layout!Below(b, a)
  <2> HIDE DEF S
  <2> QED  BY <1>1, <1>3, LargestFound DEF a
<1>6. CASE ChunksOf(s, k) = {}
  <2>1. a \in S => a[1] # k
    BY <1>6, SpaceFacts
  <2> QED  BY <1>4, <1>5, <1>6, <2>1
<1>7. CASE ChunksOf(s, k) # {}
  <2>1. \A c \in ChunksOf(s, k) : <<k, c>> \in S /\ <<k, c>>[1] = k /\ <<k, c>>[2] = c /\ c \in Nat
    BY <1>1, <1>2, ChunkKeys
  <2>2. a \in S /\ \A b \in S : a = b \/ Layout!Below(b, a)
    BY <1>5, <1>7, <2>1
  <2>3. a \in DOMAIN s /\ a[1] <= k
    BY <1>2, <2>2
  <2>4. a = <<a[1], a[2]>> /\ a[1] \in Nat /\ a[2] \in Nat /\ a # Layout!Invalid
        /\ a[2] \in ChunksOf(s, a[1])
    BY <2>3, SpaceFacts
  <2>5. \A c \in ChunksOf(s, k) : a = <<k, c>> \/ Layout!Below(<<k, c>>, a)
    BY <2>1, <2>2
  <2>6. \A c \in ChunksOf(s, k) : a[1] = k /\ c <= a[2]
    <3> TAKE c \in ChunksOf(s, k)
    <3>1. (a[1] = k /\ a[2] = c) \/ k < a[1] \/ (k = a[1] /\ c < a[2])
      BY <2>1, <2>5 DEF Layout!Below
    <3>2. k \in Nat /\ c \in Nat /\ a[1] \in Nat /\ a[2] \in Nat /\ a[1] <= k
      BY <1>1, <2>1, <2>3, <2>4
    <3> QED  BY <3>1, <3>2
  <2>7. a[1] = k
    BY <1>7, <2>6
  <2>8. Layout!ReverseSeekLatest(s, k) = <<k, a[2]>>
    BY <1>4, <2>4, <2>7
  <2> QED  BY <2>4, <2>6, <2>7, <2>8
<1> QED  BY <1>6, <1>7

\* Key a is that of the first of k's chunks numbered n or more, if there is one.
FirstFrom(s, k, n, a) ==
  \/ a = Layout!Invalid /\ \A c \in ChunksOf(s, k) : c < n
  \/ \E c \in ChunksOf(s, k) : /\ a = <<k, c>> /\ n <= c
                               /\ \A d \in ChunksOf(s, k) : n <= d => c <= d

LEMMA ForwardFinds ==
  ASSUME NEW s, InSpace(s), NEW k \in Keys, NEW n \in Nat, NEW S \in SUBSET DOMAIN s,
         \A b \in DOMAIN s : b \in S <=> b[1] > k \/ (b[1] = k /\ n <= b[2])
  PROVE  FirstFrom(s, k, n, Layout!Bounded(Layout!Smallest(S), k))
<1> DEFINE a == Layout!Smallest(S)
<1>1. k \in Nat
  BY SealingAssumption
<1>2. S \in SUBSET (Nat \X Nat)
  BY SpaceFacts
<1>3. \/ S = {} /\ a = Layout!Invalid
      \/ a \in S /\ \A b \in S : a = b \/ Layout!Below(a, b)
  BY <1>2, SmallestFound
<1> HIDE DEF a
<1>4. a \in S => /\ a = <<a[1], a[2]>> /\ a[1] \in Nat /\ a[2] \in Nat /\ a # Layout!Invalid
                 /\ a[2] \in ChunksOf(s, a[1]) /\ (a[1] > k \/ (a[1] = k /\ n <= a[2]))
  BY SpaceFacts
<1>5. Layout!Bounded(a, k) = IF a \in S /\ a[1] = k THEN a ELSE Layout!Invalid
  <2>1. CASE a \in S
    BY <1>1, <1>4, <2>1 DEF Layout!Bounded, Layout!Below, Layout!prefixUpperBound
  <2>2. CASE a \notin S
    BY <1>3, <2>2 DEF Layout!Bounded
  <2> QED  BY <2>1, <2>2
<1>6. \A c \in ChunksOf(s, k) : n <= c => <<k, c>> \in S
  BY ChunkKeys
<1>7. \A c \in ChunksOf(s, k) : c \in Nat /\ <<k, c>>[1] = k /\ <<k, c>>[2] = c
  BY ChunkKeys
<1>8. CASE a \in S /\ a[1] = k
  <2>1. \A d \in ChunksOf(s, k) : n <= d => a[2] <= d
    <3> TAKE d \in ChunksOf(s, k)
    <3> HAVE n <= d
    <3>1. a = <<k, d>> \/ a[1] < k \/ (a[1] = k /\ a[2] < d)
      BY <1>3, <1>6, <1>7, <1>8 DEF Layout!Below
    <3> QED  BY <1>1, <1>4, <1>7, <1>8, <3>1
  <2>2. a = <<k, a[2]>> /\ n <= a[2] /\ a[2] \in ChunksOf(s, k)
    BY <1>1, <1>4, <1>8
  <2> QED  BY <1>5, <1>8, <2>1, <2>2 DEF FirstFrom, a
<1>9. CASE ~(a \in S /\ a[1] = k)
  <2>1. \A c \in ChunksOf(s, k) : ~(n <= c)
    <3> SUFFICES ASSUME NEW c \in ChunksOf(s, k), n <= c PROVE FALSE
      OBVIOUS
    <3>1. a \in S /\ (a = <<k, c>> \/ a[1] < k \/ (a[1] = k /\ a[2] < c))
      BY <1>3, <1>6, <1>7 DEF Layout!Below
    <3> QED  BY <1>1, <1>4, <1>7, <1>9, <3>1
  <2>2. \A c \in ChunksOf(s, k) : c < n
    BY <1>7, <2>1
  <2> QED  BY <1>5, <1>9, <2>2 DEF FirstFrom, a
<1> QED  BY <1>8, <1>9

LEMMA StartFinds ==
  ASSUME NEW s, InSpace(s), NEW k \in Keys, NEW n \in Index
  PROVE  FirstFrom(s, k, n, Layout!SeekStart(s, k, n))
<1> DEFINE S == {b \in DOMAIN s : ~Layout!Below(b, <<k, n>>)}
<1>1. k \in Nat /\ n \in Nat
  BY SealingAssumption, IndexType
<1>2. \A b \in DOMAIN s : b \in S <=> b[1] > k \/ (b[1] = k /\ n <= b[2])
  <2> TAKE b \in DOMAIN s
  <2>1. b[1] \in Nat /\ b[2] \in Nat
    BY SpaceFacts
  <2> QED  BY <1>1, <2>1 DEF Layout!Below
<1>3. Layout!SeekStart(s, k, n) = Layout!Bounded(Layout!Smallest(S), k)
  BY LayoutKeys DEF Layout!SeekStart, Layout!Inverted, Layout!SeekGE
<1>4. S \in SUBSET DOMAIN s
  OBVIOUS
<1> HIDE DEF S
<1> QED  BY <1>1, <1>2, <1>3, <1>4, ForwardFinds

LEMMA NextFinds ==
  ASSUME NEW s, InSpace(s), NEW k \in Keys, NEW c \in Index
  PROVE  FirstFrom(s, k, c + 1, Layout!Advance(s, k, <<k, c>>))
<1> DEFINE S == {b \in DOMAIN s : Layout!Below(<<k, c>>, b)}
<1>1. k \in Nat /\ c \in Nat /\ c + 1 \in Nat
  BY SealingAssumption, IndexType
<1>2. \A b \in DOMAIN s : b \in S <=> b[1] > k \/ (b[1] = k /\ c + 1 <= b[2])
  <2> TAKE b \in DOMAIN s
  <2>1. b[1] \in Nat /\ b[2] \in Nat
    BY SpaceFacts
  <2> QED  BY <1>1, <2>1 DEF Layout!Below
<1>3. Layout!Advance(s, k, <<k, c>>) = Layout!Bounded(Layout!Smallest(S), k)
  BY DEF Layout!Advance, Layout!NextKey
<1>4. S \in SUBSET DOMAIN s
  OBVIOUS
<1> HIDE DEF S
<1> QED  BY <1>1, <1>2, <1>3, <1>4, ForwardFinds

-----------------------------------------------------------------------------
(* Chunks of a list.                                                         *)

LEMMA ChunkFields ==
  ASSUME NEW e, NEW k, NEW c, NEW L, NEW m, NEW n
  PROVE  LET x == ChunkOf(e, k, c, L, m, n)
         IN  /\ x.key = k /\ x.chunkNum = c /\ x.range = Part(L, 0, m) /\ x.cum = n
             /\ x.prev = IF e = "sealing_chunk" /\ m > 0 THEN Layout!ChunkNum(L[m]) ELSE 0
<1>1. 0 + 1 = 1
  OBVIOUS
<1>2. Part(L, 0, m) = SubSeq(L, 1, m)
  BY <1>1 DEF Part
<1> QED  BY <1>2 DEF ChunkOf

LEMMA RelList ==
  ASSUME NEW n \in Nat, NEW f \in [1 .. n -> Layout!Rel]
  PROVE  f \in Seq(Layout!Rel) /\ Len(f) = n
<1>1. f \in Seq(Layout!Rel)
  BY SeqDef
<1>2. DOMAIN f = 1 .. n /\ DOMAIN f = 1 .. Len(f) /\ Len(f) \in Nat
  BY <1>1, LenProperties
<1> QED  BY <1>1, <1>2

LEMMA ValueFields ==
  ASSUME NEW e, NEW x
  PROVE  /\ LatestValue(e, x).flag = "latest" /\ IsLatestValue(LatestValue(e, x))
         /\ LatestValue(e, x).cum = x.cum /\ LatestValue(e, x).range = x.range
         /\ LatestValue(e, x).rel = x.rel
         /\ OlderValue(e, x).flag = "older" /\ ~IsLatestValue(OlderValue(e, x))
         /\ OlderValue(e, x).rel = x.rel
         /\ e = "sealing_chunk" => /\ LatestValue(e, x).prev = x.prev
                                   /\ OlderValue(e, x).prev = x.prev
                                   /\ OlderValue(e, x).cum = x.cum
BY DEF LatestValue, OlderValue, IsLatestValue

LEMMA ChunkOffsets ==
  ASSUME NEW e, NEW k, NEW c, NEW L \in Seq(Index), NEW m \in Nat, NEW n \in Nat,
         m <= n, n <= Len(L)
  PROVE  LET x == ChunkOf(e, k, c, L, m, n)
         IN  /\ x.rel \in Seq(Layout!Rel) /\ Len(x.rel) = n - m
             /\ x.range \in Seq(Index) /\ Len(x.range) = m
             /\ x.prev \in Index /\ x.cum \in Nat
<1> DEFINE x == ChunkOf(e, k, c, L, m, n)  f == [j \in 1 .. n - m |-> Layout!RelIdx(L[m + j])]
<1>1. /\ x.rel = f /\ x.range = Part(L, 0, m) /\ x.cum = n
      /\ x.prev = IF e = "sealing_chunk" /\ m > 0 THEN Layout!ChunkNum(L[m]) ELSE 0
  <2>1. x.rel = f
    BY DEF ChunkOf
  <2> HIDE DEF f
  <2> QED  BY <2>1, ChunkFields
<1>2. Len(L) \in Nat /\ m <= Len(L) /\ 0 \in Nat /\ 0 <= m
  BY ListType
<1>3. Part(L, 0, m) \in Seq(Index) /\ Len(Part(L, 0, m)) = m - 0
  BY <1>2, PartFacts
<1>4. n - m \in Nat
  OBVIOUS
<1>5. \A j \in 1 .. n - m : f[j] \in Layout!Rel
  <2> TAKE j \in 1 .. n - m
  <2>1. m + j \in 1 .. Len(L)
    BY <1>2
  <2>2. L[m + j] \in Index
    BY <2>1, ListType
  <2> QED  BY <2>2, InChunk
<1>6. f \in Seq(Layout!Rel) /\ Len(f) = n - m
  <2>1. f \in [1 .. n - m -> Layout!Rel]
    BY <1>5
  <2> HIDE DEF f
  <2> QED  BY <1>4, <2>1, RelList
<1>7. x.prev \in Index
  <2>1. m > 0 => m \in 1 .. Len(L)
    BY <1>2
  <2>2. m > 0 => L[m] \in Index
    BY <2>1, ListType
  <2> QED  BY <1>1, <2>2, InChunk, IndexType
<1> HIDE DEF x, f
<1> QED  BY <1>1, <1>3, <1>6, <1>7 DEF x

LEMMA ChunkLength ==
  ASSUME NEW e, NEW k, NEW c, NEW L \in Seq(Index), NEW m \in Nat, NEW n \in Nat,
         m <= n, n <= Len(L), NEW o, o = n - m
  PROVE  Len(ChunkOf(e, k, c, L, m, n).rel) = o
BY ChunkOffsets

LEMMA ChunkIndices ==
  ASSUME NEW e, NEW k, NEW c, NEW L \in Seq(Index), NEW m \in Nat, NEW n \in Nat,
         m <= n, n <= Len(L), \A i \in m + 1 .. n : Layout!ChunkNum(L[i]) = c
  PROVE  /\ Layout!AbsSeq(c, ChunkOf(e, k, c, L, m, n).rel) = Part(L, m, n)
         /\ Folded(c, ChunkOf(e, k, c, L, m, n)) = Part(L, 0, n)
<1> DEFINE x == ChunkOf(e, k, c, L, m, n)  a == Layout!AbsSeq(c, x.rel)  p == Part(L, m, n)
<1>1. /\ Len(x.rel) = n - m /\ x.range = Part(L, 0, m)
      /\ x.rel = [j \in 1 .. n - m |-> Layout!RelIdx(L[m + j])]
  <2>1. Len(x.rel) = n - m
    BY ChunkOffsets
  <2>2. x.range = Part(L, 0, m)
    BY ChunkFields
  <2>3. x.rel = [j \in 1 .. n - m |-> Layout!RelIdx(L[m + j])]
    BY DEF ChunkOf
  <2> HIDE DEF x
  <2> QED  BY <2>1, <2>2, <2>3
<1>2. Len(L) \in Nat /\ m <= Len(L) /\ 0 \in Nat /\ 0 <= m /\ n - m \in Nat
  BY ListType
<1>3. p \in Seq(Index) /\ Len(p) = n - m /\ \A i \in 1 .. n - m : p[i] = L[m + i]
  BY PartFacts
<1>4. a = [j \in 1 .. n - m |-> c * ChunkSize + x.rel[j]]
  BY <1>1 DEF Layout!AbsSeq
<1>5. \A j \in 1 .. n - m : c * ChunkSize + x.rel[j] = p[j]
  <2> TAKE j \in 1 .. n - m
  <2>1. m + j \in 1 .. Len(L) /\ m + j \in m + 1 .. n
    BY <1>2
  <2>2. L[m + j] \in Index /\ Layout!ChunkNum(L[m + j]) = c
    BY <2>1, ListType
  <2>3. x.rel[j] = Layout!RelIdx(L[m + j])
    BY <1>1
  <2>4. c * ChunkSize + Layout!RelIdx(L[m + j]) = L[m + j]
    BY <2>2, InChunk
  <2> QED  BY <1>3, <2>3, <2>4
<1>6. p = [j \in 1 .. n - m |-> p[j]]
  BY <1>3, ListType
<1>7. a = p
  <2> HIDE DEF a, p, x
  <2> QED  BY <1>4, <1>5, <1>6
<1>8. Folded(c, x) = Part(L, 0, m) \o p
  BY <1>1, <1>7 DEF Folded
<1>9. Part(L, 0, m) \o p = Part(L, 0, n)
  BY <1>2, PartConcat
<1> QED  BY <1>7, <1>8, <1>9

\* A segment ends where the next chunk begins.
LEMMA SegmentFacts ==
  ASSUME NEW L \in Seq(Index), NEW c, NEW m, NEW n, Segment(L, c, m, n)
  PROVE  /\ m \in Nat /\ n \in Nat /\ m < n /\ m <= n /\ n <= Len(L) /\ n \in 1 .. Len(L)
         /\ c = Layout!ChunkNum(L[n]) /\ c \in Index
         /\ \A i \in m + 1 .. n : Layout!ChunkNum(L[i]) = c
         /\ m > 0 => m \in 1 .. Len(L) /\ Layout!ChunkNum(L[m]) # c
         /\ n # Len(L) => n + 1 \in 1 .. Len(L) /\ Layout!ChunkNum(L[n + 1]) # c
<1>1. Len(L) \in Nat /\ m \in 0 .. Len(L) /\ n \in 0 .. Len(L) /\ m < n
  BY ListType DEF Segment
<1>2. \A i \in 1 .. Len(L) : Layout!ChunkNum(L[i]) = c <=> m < i /\ i <= n
  BY DEF Segment
<1>3. n \in 1 .. Len(L) /\ m \in Nat /\ n \in Nat
  BY <1>1
<1>4. L[n] \in Index /\ Layout!ChunkNum(L[n]) = c
  BY <1>1, <1>2, <1>3, ListType
<1>5. c \in Index
  BY <1>4, InChunk
<1>6. \A i \in m + 1 .. n : i \in 1 .. Len(L) /\ m < i /\ i <= n
  BY <1>1
<1>7. m > 0 => m \in 1 .. Len(L) /\ Layout!ChunkNum(L[m]) # c
  BY <1>1, <1>2
<1>8. n # Len(L) => n + 1 \in 1 .. Len(L) /\ ~(n + 1 <= n)
  BY <1>1
<1> QED  BY <1>1, <1>2, <1>3, <1>4, <1>5, <1>6, <1>7, <1>8

LEMMA SegmentUnique ==
  ASSUME NEW L \in Seq(Index), NEW c, NEW m, NEW n, NEW x, NEW y,
         Segment(L, c, m, n), Segment(L, c, x, y)
  PROVE  m = x /\ n = y
<1>1. /\ m \in Nat /\ n \in Nat /\ m < n /\ n <= Len(L) /\ n \in 1 .. Len(L)
      /\ x \in Nat /\ y \in Nat /\ x < y /\ y <= Len(L) /\ y \in 1 .. Len(L)
      /\ m + 1 \in 1 .. Len(L) /\ x + 1 \in 1 .. Len(L)
  BY SegmentFacts, ListType
<1>2. \A i \in 1 .. Len(L) : m < i /\ i <= n <=> x < i /\ i <= y
  BY DEF Segment
<1>3. n <= y /\ y <= n
  BY <1>1, <1>2
<1>4. x < m + 1 /\ m < x + 1
  BY <1>1, <1>2
<1> QED  BY <1>1, <1>3, <1>4

LEMMA SegmentOrder ==
  ASSUME NEW L \in Seq(Index), Ordered(L), NEW c, NEW m, NEW n, Segment(L, c, m, n),
         NEW i \in 1 .. Len(L)
  PROVE  /\ i <= m => Layout!ChunkNum(L[i]) < c
         /\ n < i => c < Layout!ChunkNum(L[i])
         /\ i <= n => Layout!ChunkNum(L[i]) <= c
         /\ Layout!ChunkNum(L[i]) < c <=> i <= m
         /\ Layout!ChunkNum(L[i]) = c <=> m < i /\ i <= n
<1>1. /\ n \in 1 .. Len(L) /\ m \in Nat /\ n \in Nat /\ m < n /\ c = Layout!ChunkNum(L[n])
      /\ Len(L) \in Nat /\ i \in Nat
  BY SegmentFacts, ListType
<1>2. L[i] \in Index /\ L[n] \in Index
  BY <1>1, ListType
<1>3. Layout!ChunkNum(L[i]) = c <=> m < i /\ i <= n
  BY DEF Segment
<1>4. i < n => L[i] <= L[n]
  BY <1>1 DEF Ordered
<1>5. n < i => L[n] <= L[i]
  BY <1>1 DEF Ordered
<1>6. i <= n => Layout!ChunkNum(L[i]) <= c
  <2>1. CASE i = n
    BY <1>1, <1>2, <2>1, InChunk
  <2>2. CASE i < n
    BY <1>1, <1>2, <1>4, <2>2, ChunksOrdered
  <2> QED  BY <1>1, <2>1, <2>2
<1>7. n < i => c <= Layout!ChunkNum(L[i])
  BY <1>1, <1>2, <1>5, ChunksOrdered
<1>8. Layout!ChunkNum(L[i]) \in Nat /\ c \in Nat
  BY <1>1, <1>2, InChunk
<1> QED  BY <1>1, <1>3, <1>6, <1>7, <1>8

-----------------------------------------------------------------------------
(* What the chunks of a key say of its log.                                  *)

\* Every index of the list is in a chunk that is what the list says.
LEMMA HoldsAt ==
  ASSUME NEW e, NEW s, NEW k, NEW L, Holds(e, s, k, L), NEW i \in 1 .. Len(L)
  PROVE  /\ Layout!ChunkNum(L[i]) \in ChunksOf(s, k)
         /\ IsChunk(e, k, Layout!ChunkNum(L[i]), L, Chunk(s, k, Layout!ChunkNum(L[i])))
BY DEF Holds

\* The chunk of the last index is the latest.
LEMMA HoldsLast ==
  ASSUME NEW e, NEW s, NEW k, NEW L, Holds(e, s, k, L), L # <<>>
  PROVE  LET c == Layout!ChunkNum(L[Len(L)])
         IN  /\ c \in ChunksOf(s, k) /\ \A d \in ChunksOf(s, k) : d <= c
             /\ \E m \in 0 .. Len(L) :
                  /\ Segment(L, c, m, Len(L))
                  /\ Chunk(s, k, c) = LatestValue(e, ChunkOf(e, k, c, L, m, Len(L)))
<1> DEFINE n == Len(L)  c == Layout!ChunkNum(L[n])
<1>1. L \in Seq(Index) /\ Ordered(L)
  BY DEF Holds
<1>2. n \in Nat \ {0} /\ n \in 1 .. Len(L)
  BY <1>1, EmptySeq, ListType
<1>3. c \in ChunksOf(s, k) /\ IsChunk(e, k, c, L, Chunk(s, k, c))
  BY <1>2, HoldsAt
<1>4. PICK x, y \in 0 .. Len(L) :
        /\ Segment(L, c, x, y)
        /\ Chunk(s, k, c) = IF y = Len(L) THEN LatestValue(e, ChunkOf(e, k, c, L, x, y))
                                          ELSE OlderValue(e, ChunkOf(e, k, c, L, x, y))
  BY <1>3 DEF IsChunk
<1>5. y = n
  <2>1. x < n /\ n <= y
    BY <1>2, <1>4 DEF Segment
  <2>2. y \in 0 .. n
    BY <1>4
  <2> QED  BY <1>2, <2>1, <2>2
<1>6. ASSUME NEW d \in ChunksOf(s, k) PROVE d <= c
  <2>1. IsChunk(e, k, d, L, Chunk(s, k, d))
    BY DEF Holds
  <2>2. PICK v, w \in 0 .. Len(L) : Segment(L, d, v, w)
    BY <2>1 DEF IsChunk
  <2>3. d = Layout!ChunkNum(L[w]) /\ w \in 1 .. Len(L)
    BY <1>1, <2>2, SegmentFacts
  <2> QED  BY <1>1, <1>2, <1>4, <1>5, <2>3, SegmentOrder
<1> HIDE DEF n, c
<1>7. /\ x \in 0 .. Len(L) /\ Segment(L, c, x, Len(L))
      /\ Chunk(s, k, c) = LatestValue(e, ChunkOf(e, k, c, L, x, Len(L)))
  BY <1>4, <1>5 DEF n
<1> QED  BY <1>3, <1>6, <1>7 DEF c, n

\* The search for the latest chunk finds it, and it tells the list.
LEMMA HoldsContents ==
  ASSUME NEW e, NEW s, InSpace(s), NEW k \in Keys, NEW L, Holds(e, s, k, L)
  PROVE  /\ Contents(s, k) = L
         /\ L = <<>> => Layout!ReverseSeekLatest(s, k) = Layout!Invalid
         /\ L # <<>> =>
              LET c == Layout!ChunkNum(L[Len(L)])
              IN  /\ Layout!ReverseSeekLatest(s, k) = <<k, c>>
                  /\ <<k, c>> # Layout!Invalid /\ <<k, c>> \in DOMAIN s
                  /\ \E m \in 0 .. Len(L) :
                       /\ Segment(L, c, m, Len(L))
                       /\ s[<<k, c>>] = LatestValue(e, ChunkOf(e, k, c, L, m, Len(L)))
<1> DEFINE a == Layout!ReverseSeekLatest(s, k)
<1>1. L \in Seq(Index) /\ Ordered(L) /\ Len(L) \in Nat
  BY ListType DEF Holds
<1>2. \/ ChunksOf(s, k) = {} /\ a = Layout!Invalid
      \/ \E c \in ChunksOf(s, k) : (\A d \in ChunksOf(s, k) : d <= c) /\ a = <<k, c>>
  BY LatestFinds
<1> HIDE DEF a
<1>3. CASE L = <<>>
  <2>1. ChunksOf(s, k) = {}
    <3> SUFFICES ASSUME NEW d \in ChunksOf(s, k) PROVE FALSE
      OBVIOUS
    <3>1. IsChunk(e, k, d, L, Chunk(s, k, d))
      BY DEF Holds
    <3>2. PICK v, w \in 0 .. Len(L) : Segment(L, d, v, w)
      BY <3>1 DEF IsChunk
    <3>3. w \in 1 .. Len(L)
      BY <1>1, <3>2, SegmentFacts
    <3>4. Len(L) = 0
      BY <1>3, EmptySeq
    <3> QED  BY <3>3, <3>4
  <2>2. a = Layout!Invalid
    BY <1>2, <2>1
  <2> QED  BY <1>3, <2>2 DEF Contents, a
<1>4. CASE L # <<>>
  <2> DEFINE c == Layout!ChunkNum(L[Len(L)])
  <2>1. /\ c \in ChunksOf(s, k) /\ \A d \in ChunksOf(s, k) : d <= c
        /\ \E m \in 0 .. Len(L) :
             /\ Segment(L, c, m, Len(L))
             /\ Chunk(s, k, c) = LatestValue(e, ChunkOf(e, k, c, L, m, Len(L)))
    BY <1>4, HoldsLast
  <2> HIDE DEF c
  <2>2. \A d \in ChunksOf(s, k) : d \in Nat
    BY ChunkKeys
  <2>3. a = <<k, c>>
    <3>1. PICK d \in ChunksOf(s, k) : (\A x \in ChunksOf(s, k) : x <= d) /\ a = <<k, d>>
      BY <1>2, <2>1
    <3>2. d = c
      BY <2>1, <2>2, <3>1
    <3> QED  BY <3>1, <3>2
  <2>4. <<k, c>> \in DOMAIN s /\ Chunk(s, k, c) = s[<<k, c>>]
    BY <2>1, ChunkKeys
  <2>5. <<k, c>> # Layout!Invalid /\ Layout!ChunkAt(<<k, c>>) = c
    BY LayoutKeys
  <2>6. PICK m \in 0 .. Len(L) :
          /\ Segment(L, c, m, Len(L))
          /\ s[<<k, c>>] = LatestValue(e, ChunkOf(e, k, c, L, m, Len(L)))
    BY <2>1, <2>4
  <2> DEFINE x == ChunkOf(e, k, c, L, m, Len(L))
  <2>7. Folded(c, x) = Part(L, 0, Len(L))
    BY <1>1, <2>6, SegmentFacts, ChunkIndices
  <2>8. Folded(c, s[<<k, c>>]) = Folded(c, x)
    <3> HIDE DEF x
    <3>1. s[<<k, c>>] = LatestValue(e, x)
      BY <2>6 DEF x
    <3>2. s[<<k, c>>].range = x.range /\ s[<<k, c>>].rel = x.rel
      BY <3>1, ValueFields
    <3> QED  BY <3>2 DEF Folded
  <2>9. Contents(s, k) = Folded(c, s[<<k, c>>])
    BY <2>3, <2>5 DEF Contents, a
  <2>10. Contents(s, k) = L
    BY <1>1, <2>7, <2>8, <2>9, PartWhole
  <2> QED  BY <1>4, <2>3, <2>4, <2>5, <2>6, <2>10 DEF a, c
<1> QED  BY <1>3, <1>4

\* Only the chunks of the key count.
LEMMA HoldsSame ==
  ASSUME NEW e, NEW s, NEW t, NEW k, NEW L, Holds(e, s, k, L),
         \A c \in Index : /\ <<k, c>> \in DOMAIN s <=> <<k, c>> \in DOMAIN t
                          /\ <<k, c>> \in DOMAIN s => s[<<k, c>>] = t[<<k, c>>]
  PROVE  Holds(e, t, k, L)
<1>1. ChunksOf(s, k) = ChunksOf(t, k)
  BY LayoutKeys DEF ChunksOf
<1>2. \A c \in ChunksOf(s, k) : Chunk(s, k, c) = Chunk(t, k, c)
  BY LayoutKeys DEF ChunksOf, Chunk
<1> QED  BY <1>1, <1>2 DEF Holds

\* A list that goes on leaves the sealed chunks as they are.
LEMMA SegmentGrows ==
  ASSUME NEW L \in Seq(Index), NEW M \in Seq(Index), NEW c, NEW m, NEW n,
         Ordered(L \o M), Segment(L, c, m, n), n # Len(L)
  PROVE  Segment(L \o M, c, m, n) /\ n # Len(L \o M)
<1> DEFINE N == L \o M
<1>1. /\ N \in Seq(Index) /\ Len(N) = Len(L) + Len(M)
      /\ \A i \in 1 .. Len(L) + Len(M) : N[i] = IF i <= Len(L) THEN L[i] ELSE M[i - Len(L)]
  BY ConcatProperties
<1>2. Len(L) \in Nat /\ Len(M) \in Nat /\ \A i \in 1 .. Len(N) : N[i] \in Index
  BY <1>1, ListType
<1> HIDE DEF N
<1>3. /\ m \in Nat /\ n \in Nat /\ m < n /\ n <= Len(L) /\ n + 1 \in 1 .. Len(L)
      /\ n \in 1 .. Len(L) /\ c = Layout!ChunkNum(L[n]) /\ Layout!ChunkNum(L[n + 1]) # c
  BY SegmentFacts
<1>4. n \in 1 .. Len(N) /\ n + 1 \in 1 .. Len(N) /\ N[n] = L[n] /\ N[n + 1] = L[n + 1]
  BY <1>1, <1>2, <1>3
<1>5. c < Layout!ChunkNum(N[n + 1])
  <2>1. N[n] <= N[n + 1]
    BY <1>3, <1>4 DEF Ordered, N
  <2>2. c <= Layout!ChunkNum(N[n + 1])
    BY <1>2, <1>3, <1>4, <2>1, ChunksOrdered
  <2>3. c \in Nat /\ Layout!ChunkNum(N[n + 1]) \in Nat
    BY <1>2, <1>3, <1>4, InChunk
  <2> QED  BY <1>3, <1>4, <2>2, <2>3
<1>6. ASSUME NEW i \in 1 .. Len(N)
      PROVE  Layout!ChunkNum(N[i]) = c <=> m < i /\ i <= n
  <2>1. i \in Nat
    OBVIOUS
  <2>2. CASE i <= Len(L)
    <3>1. i \in 1 .. Len(L) /\ N[i] = L[i]
      BY <1>1, <1>2, <2>1, <2>2
    <3> QED  BY <3>1 DEF Segment
  <2>3. CASE ~(i <= Len(L))
    <3>1. n + 1 < i
      BY <1>2, <1>3, <2>1, <2>3
    <3>2. N[n + 1] <= N[i]
      BY <1>4, <3>1 DEF Ordered, N
    <3>3. Layout!ChunkNum(N[n + 1]) <= Layout!ChunkNum(N[i])
      BY <1>2, <1>4, <3>2, ChunksOrdered
    <3>4. Layout!ChunkNum(N[n + 1]) \in Nat /\ Layout!ChunkNum(N[i]) \in Nat /\ c \in Nat
      BY <1>2, <1>3, <1>4, InChunk
    <3>5. Layout!ChunkNum(N[i]) # c
      BY <1>5, <3>3, <3>4
    <3> QED  BY <1>2, <1>3, <2>1, <2>3, <3>5
  <2> QED  BY <2>2, <2>3
<1>7. m \in 0 .. Len(N) /\ n \in 0 .. Len(N) /\ n # Len(N)
  BY <1>1, <1>2, <1>3
<1> QED  BY <1>3, <1>6, <1>7 DEF Segment, N

LEMMA ChunkOfPrefix ==
  ASSUME NEW e, NEW k, NEW c, NEW L \in Seq(Index), NEW M \in Seq(Index),
         NEW m \in Nat, NEW n \in Nat, m <= n, n <= Len(L)
  PROVE  ChunkOf(e, k, c, L \o M, m, n) = ChunkOf(e, k, c, L, m, n)
<1> DEFINE N == L \o M
<1>1. /\ N \in Seq(Index) /\ Len(N) = Len(L) + Len(M)
      /\ \A i \in 1 .. Len(L) + Len(M) : N[i] = IF i <= Len(L) THEN L[i] ELSE M[i - Len(L)]
  BY ConcatProperties
<1>2. Len(L) \in Nat /\ Len(M) \in Nat
  BY ListType
<1>3. \A i \in 1 .. Len(L) : N[i] = L[i]
  BY <1>1, <1>2
<1> HIDE DEF N
<1>4. m <= Len(L) /\ m <= Len(N) /\ 0 <= m /\ 0 \in Nat
  BY <1>1, <1>2
<1>5. Part(N, 0, m) = Part(L, 0, m)
  <2> DEFINE p == Part(N, 0, m)  q == Part(L, 0, m)
  <2>1. p \in Seq(Index) /\ Len(p) = m - 0 /\ \A i \in 1 .. m - 0 : p[i] = N[0 + i]
    BY <1>1, <1>4, PartFacts
  <2>2. q \in Seq(Index) /\ Len(q) = m - 0 /\ \A i \in 1 .. m - 0 : q[i] = L[0 + i]
    BY <1>4, PartFacts
  <2> HIDE DEF p, q
  <2>3. \A i \in 1 .. Len(p) : p[i] = q[i]
    <3> TAKE i \in 1 .. Len(p)
    <3>1. i \in 1 .. m - 0 /\ 0 + i = i /\ i \in 1 .. Len(L)
      BY <1>2, <1>4, <2>1
    <3> QED  BY <1>3, <2>1, <2>2, <3>1
  <2>4. p = q
    BY <2>1, <2>2, <2>3, ListEqual
  <2> QED  BY <2>4 DEF p, q
<1>6. m > 0 => N[m] = L[m]
  BY <1>3, <1>4
<1>7. [j \in 1 .. n - m |-> Layout!RelIdx(N[m + j])] = [j \in 1 .. n - m |-> Layout!RelIdx(L[m + j])]
  <2>1. \A j \in 1 .. n - m : m + j \in 1 .. Len(L)
    BY <1>2
  <2> QED  BY <1>3, <2>1
<1>8. 0 + 1 = 1
  OBVIOUS
<1>9. SubSeq(N, 1, m) = SubSeq(L, 1, m)
  BY <1>5, <1>8 DEF Part
<1>10. (IF e = "sealing_chunk" /\ m > 0 THEN Layout!ChunkNum(N[m]) ELSE 0)
         = (IF e = "sealing_chunk" /\ m > 0 THEN Layout!ChunkNum(L[m]) ELSE 0)
  BY <1>6
<1>11. ChunkOf(e, k, c, N, m, n) = ChunkOf(e, k, c, L, m, n)
  BY <1>7, <1>9, <1>10, Zenon DEF ChunkOf
<1> QED  BY <1>11 DEF N

-----------------------------------------------------------------------------
(* Databases and batches.                                                    *)

LEMMA NoWritesFacts ==
  /\ DOMAIN NoWrites = {} /\ InSpace(NoWrites)
  /\ \A e : Stored(e, NoWrites)
BY DEF NoWrites, Stored, InSpace

LEMMA StoredSpace ==
  ASSUME NEW e, NEW s, Stored(e, s)
  PROVE  InSpace(s)
BY DEF Stored, InSpace

LEMMA OverlayStored ==
  ASSUME NEW e, NEW b, NEW s, Stored(e, b), Stored(e, s)
  PROVE  Stored(e, Layout!Overlay(b, s))
<1> DEFINE t == Layout!Overlay(b, s)
<1>1. /\ DOMAIN t = DOMAIN b \cup DOMAIN s
      /\ \A a \in DOMAIN b \cup DOMAIN s : t[a] = IF a \in DOMAIN b THEN b[a] ELSE s[a]
  BY DEF Layout!Overlay
<1> HIDE DEF t
<1>2. Stored(e, t)
  BY <1>1 DEF Stored
<1> QED  BY <1>2 DEF t

LEMMA SetStored ==
  ASSUME NEW e, NEW b, Stored(e, b), NEW k \in Keys, NEW c \in Index, NEW v, ValueOK(e, v)
  PROVE  Stored(e, Set(<<k, c>>, v, b))
<1> DEFINE t == Set(<<k, c>>, v, b)
<1>1. /\ DOMAIN t = {<<k, c>>} \cup DOMAIN b
      /\ \A x \in {<<k, c>>} \cup DOMAIN b : t[x] = IF x = <<k, c>> THEN v ELSE b[x]
  BY DEF Set, Layout!Overlay
<1> HIDE DEF t
<1>2. Stored(e, t)
  BY <1>1 DEF Stored
<1> QED  BY <1>2 DEF t

LEMMA ValuesOK ==
  ASSUME NEW e, NEW x, x.prev \in Index, x.cum \in Nat, x.range \in Seq(Index),
         x.rel \in Seq(Layout!Rel)
  PROVE  ValueOK(e, OlderValue(e, x)) /\ ValueOK(e, LatestValue(e, x))
<1>1. CASE e = "sealing_chunk"
  BY <1>1 DEF ValueOK, OlderValue, LatestValue, IsLatestValue
<1>2. CASE e # "sealing_chunk"
  BY <1>2 DEF ValueOK, OlderValue, LatestValue, IsLatestValue
<1> QED  BY <1>1, <1>2

\* A key the batch does not touch is in View as it is in the database.
LEMMA ViewUntouched ==
  ASSUME NEW e, NEW b, NEW s, NEW k, NEW L, Holds(e, s, k, L), \A a \in DOMAIN b : a[1] # k
  PROVE  Holds(e, Layout!Overlay(b, s), k, L)
<1> DEFINE t == Layout!Overlay(b, s)
<1>1. /\ DOMAIN t = DOMAIN b \cup DOMAIN s
      /\ \A a \in DOMAIN b \cup DOMAIN s : t[a] = IF a \in DOMAIN b THEN b[a] ELSE s[a]
  BY DEF Layout!Overlay
<1>2. \A c \in Index : <<k, c>> \notin DOMAIN b
  <2>1. \A c \in Index : <<k, c>>[1] = k
    OBVIOUS
  <2> QED  BY <2>1
<1> HIDE DEF t
<1>3. \A c \in Index : /\ <<k, c>> \in DOMAIN s <=> <<k, c>> \in DOMAIN t
                       /\ <<k, c>> \in DOMAIN s => s[<<k, c>>] = t[<<k, c>>]
  BY <1>1, <1>2
<1>4. Holds(e, t, k, L)
  BY <1>3, HoldsSame
<1> QED  BY <1>4 DEF t

\* One more write to key k, as View sees it.
LEMMA ViewSet ==
  ASSUME NEW k, NEW c, NEW v, batch' = Set(<<k, c>>, v, batch), UNCHANGED db
  PROVE  /\ DOMAIN View' = {<<k, c>>} \cup DOMAIN View
         /\ View'[<<k, c>>] = v
         /\ \A x \in DOMAIN View : x # <<k, c>> => View'[x] = View[x]
<1> DEFINE b == Set(<<k, c>>, v, batch)
<1>1. /\ DOMAIN b = {<<k, c>>} \cup DOMAIN batch
      /\ \A x \in {<<k, c>>} \cup DOMAIN batch : b[x] = IF x = <<k, c>> THEN v ELSE batch[x]
  BY DEF Set, Layout!Overlay
<1>2. /\ DOMAIN View = DOMAIN batch \cup DOMAIN db
      /\ \A a \in DOMAIN batch \cup DOMAIN db :
           View[a] = IF a \in DOMAIN batch THEN batch[a] ELSE db[a]
  BY DEF View, Layout!Overlay
<1>3. View' = Layout!Overlay(b, db)
  BY DEF View
<1> HIDE DEF b
<1>4. /\ DOMAIN View' = DOMAIN b \cup DOMAIN db
      /\ \A a \in DOMAIN b \cup DOMAIN db :
           View'[a] = IF a \in DOMAIN b THEN b[a] ELSE db[a]
  BY <1>3 DEF Layout!Overlay
<1> QED  BY <1>1, <1>2, <1>4

\* It leaves the other keys alone.
LEMMA ViewOthers ==
  ASSUME NEW e, NEW k, NEW c, NEW v, batch' = Set(<<k, c>>, v, batch), UNCHANGED db,
         NEW j, j # k, NEW L, Holds(e, View, j, L)
  PROVE  Holds(e, View', j, L)
<1>1. /\ DOMAIN View' = {<<k, c>>} \cup DOMAIN View
      /\ \A x \in DOMAIN View : x # <<k, c>> => View'[x] = View[x]
  BY ViewSet
<1>2. \A d \in Index : <<j, d>> # <<k, c>>
  OBVIOUS
<1>3. \A d \in Index : /\ <<j, d>> \in DOMAIN View <=> <<j, d>> \in DOMAIN View'
                       /\ <<j, d>> \in DOMAIN View => View[<<j, d>>] = View'[<<j, d>>]
  BY <1>1, <1>2
<1> QED  BY <1>3, HoldsSame

\* A list in order by neighbours is in order.
LEMMA SortedOrdered ==
  ASSUME NEW L \in Seq(Index), Sorted(L)
  PROVE  Ordered(L)
<1> DEFINE bad == {j \in 1 .. Len(L) : \E i \in 1 .. Len(L) : i < j /\ L[j] < L[i]}
<1>1. Len(L) \in Nat /\ \A i \in 1 .. Len(L) : L[i] \in Nat
  BY ListType
<1>2. bad = {}
  <2> SUFFICES ASSUME bad # {} PROVE FALSE
    OBVIOUS
  <2>1. bad \in SUBSET Nat
    BY <1>1
  <2>2. PICK j \in bad : \A x \in bad : j <= x
    <3> HIDE DEF bad
    <3> QED  BY <2>1, NatLeast
  <2>3. PICK i \in 1 .. Len(L) : i < j /\ L[j] < L[i]
    BY <2>2
  <2>4. j \in 2 .. Len(L) /\ j - 1 \in 1 .. Len(L) /\ j \in Nat /\ i \in Nat
    BY <1>1, <2>2, <2>3
  <2>5. ~(L[j] < L[j - 1])
    BY <2>4 DEF Sorted
  <2>6. i < j - 1 /\ L[j - 1] < L[i]
    <3>1. L[i] \in Nat /\ L[j] \in Nat /\ L[j - 1] \in Nat
      BY <1>1, <2>4
    <3>2. L[j - 1] < L[i]
      BY <2>3, <2>5, <3>1
    <3>3. i # j - 1
      BY <3>1, <3>2
    <3> QED  BY <2>3, <2>4, <3>2, <3>3
  <2>7. j - 1 \in bad
    BY <2>4, <2>6
  <2>8. j <= j - 1
    BY <2>2, <2>7
  <2> QED  BY <2>4, <2>8
<1>3. \A i, j \in 1 .. Len(L) : i < j => ~(L[j] < L[i])
  BY <1>2
<1> QED  BY <1>1, <1>3 DEF Ordered

\* New indices in order on top of a log in order.
LEMMA OrderedConcat ==
  ASSUME NEW L \in Seq(Index), NEW M \in Seq(Index), Ordered(L), Ordered(M),
         \A i \in IndicesOf(M) : \A j \in IndicesOf(L) : j < i
  PROVE  Ordered(L \o M)
<1> DEFINE N == L \o M
<1>1. /\ N \in Seq(Index) /\ Len(N) = Len(L) + Len(M)
      /\ \A i \in 1 .. Len(L) + Len(M) : N[i] = IF i <= Len(L) THEN L[i] ELSE M[i - Len(L)]
  BY ConcatProperties
<1>2. /\ Len(L) \in Nat /\ Len(M) \in Nat
      /\ \A i \in 1 .. Len(L) : L[i] \in Nat
      /\ \A i \in 1 .. Len(M) : M[i] \in Nat
  BY ListType
<1> HIDE DEF N
<1>3. ASSUME NEW i \in 1 .. Len(N), NEW j \in 1 .. Len(N), i < j PROVE N[i] <= N[j]
  <2>1. i \in Nat /\ j \in Nat
    OBVIOUS
  <2>2. CASE j <= Len(L)
    <3>1. i \in 1 .. Len(L) /\ j \in 1 .. Len(L) /\ N[i] = L[i] /\ N[j] = L[j]
      BY <1>1, <1>2, <1>3, <2>1, <2>2
    <3> QED  BY <1>3, <3>1 DEF Ordered
  <2>3. CASE i <= Len(L) /\ ~(j <= Len(L))
    <3>1. /\ i \in 1 .. Len(L) /\ j - Len(L) \in 1 .. Len(M)
          /\ N[i] = L[i] /\ N[j] = M[j - Len(L)]
      BY <1>1, <1>2, <2>1, <2>3
    <3>2. L[i] \in IndicesOf(L) /\ M[j - Len(L)] \in IndicesOf(M)
      BY <3>1 DEF IndicesOf
    <3>3. L[i] < M[j - Len(L)]
      BY <3>2
    <3> QED  BY <1>2, <3>1, <3>3
  <2>4. CASE ~(i <= Len(L))
    <3>1. /\ i - Len(L) \in 1 .. Len(M) /\ j - Len(L) \in 1 .. Len(M)
          /\ i - Len(L) < j - Len(L)
          /\ N[i] = M[i - Len(L)] /\ N[j] = M[j - Len(L)]
      BY <1>1, <1>2, <1>3, <2>1, <2>4
    <3> QED  BY <3>1 DEF Ordered
  <2> QED  BY <2>2, <2>3, <2>4
<1> QED  BY <1>3 DEF Ordered, N

-----------------------------------------------------------------------------
(* The writer: the steps that do not touch the chunk in hand.                *)

LEMMA HoldsNothing ==
  ASSUME NEW e, NEW s, InSpace(s), NEW k \in Keys, ChunksOf(s, k) = {}
  PROVE  Holds(e, s, k, Contents(s, k))
<1>1. Layout!ReverseSeekLatest(s, k) = Layout!Invalid
  BY LatestFinds
<1>2. Contents(s, k) = <<>>
  BY <1>1 DEF Contents
<1>3. <<>> \in Seq(Index) /\ Len(<<>>) = 0
  BY EmptySeq
<1>4. \A i \in 1 .. Len(<<>>) : FALSE
  BY <1>3
<1>5. Holds(e, s, k, <<>>)
  BY <1>3, <1>4 DEF Holds, Ordered
<1> QED  BY <1>2, <1>5

LEMMA InitSeal ==
  ASSUME Init
  PROVE  SealInv
<1>1. NoWrites = [a \in {} |-> 0] /\ \A e : Stored(e, NoWrites)
  BY NoWritesFacts DEF NoWrites
<1>2. <<>> \in Seq(Index) /\ <<>> \in Seq(Layout!Rel) /\ 0 \in Index
  BY EmptySeq, IndexType
<1>3. DOMAIN rd = Readers /\ \A r \in Readers : InCall(rd[r])
  BY DEF Init, InCall, NoRead
<1>4. SealingTypeOK
  BY <1>1, <1>2, <1>3 DEF Init, SealingTypeOK, NoCur
<1>5. \A k \in Keys : Holds(engine, db, k, Contents(db, k))
  <2> TAKE k \in Keys
  <2>1. InSpace(db) /\ DOMAIN db = {}
    BY NoWritesFacts DEF Init
  <2>2. ChunksOf(db, k) = {}
    BY <2>1 DEF ChunksOf
  <2> QED  BY <2>1, <2>2, HoldsNothing
<1>6. KeysFollow /\ wpc # "indices"
  BY DEF Init, KeysFollow, Working
<1> QED  BY <1>3, <1>4, <1>5, <1>6 DEF SealInv

\* A call that ends, in whatever way, leaves the database to tell its logs.
LEMMA EndSeal ==
  ASSUME SealInv, Release, UNCHANGED engine,
         wpc' \in {"idle", "ack", "failed"}, updates' \in {updates, <<>>},
         DOMAIN rd' = Readers, \A r \in Readers : InCall(rd'[r]),
         Stored(engine, db'), \A k \in Keys : Holds(engine, db', k, Contents(db', k))
  PROVE  SealInv'
<1>1. \A e : Stored(e, NoWrites)
  BY NoWritesFacts
<1>2. <<>> \in Seq(Index) /\ <<>> \in Seq(Layout!Rel) /\ 0 \in Index
  BY EmptySeq, IndexType
<1>3. /\ todo' = {} /\ snap' = NoWrites /\ batch' = NoWrites
      /\ pending' = <<>> /\ cur' = NoCur
  BY DEF Release
<1>4. engine' \in Engines /\ updates \in Updates \cup {<<>>}
  BY DEF SealInv, SealingTypeOK
<1>5. updates' \in Updates \cup {<<>>}
  BY <1>4
<1>6. cur'.chunkNum = 0 /\ cur'.prev = 0 /\ cur'.cum = 0 /\ cur'.range = <<>> /\ cur'.rel = <<>>
  BY <1>3 DEF NoCur
<1>7. SealingTypeOK'
  BY <1>1, <1>2, <1>3, <1>4, <1>5, <1>6 DEF SealingTypeOK
<1>8. ~Working' /\ wpc' # "indices"
  BY DEF Working
<1>9. KeysFollow'
  BY <1>3, <1>8 DEF KeysFollow
<1> QED  BY <1>7, <1>8, <1>9 DEF SealInv

\* The steps that write nothing.
LEMMA StillStored ==
  ASSUME SealInv, UNCHANGED <<engine, db>>
  PROVE  Stored(engine, db') /\ \A k \in Keys : Holds(engine, db', k, Contents(db', k))
BY DEF SealInv, SealingTypeOK

LEMMA ReadersStay ==
  ASSUME SealInv, UNCHANGED rd
  PROVE  DOMAIN rd' = Readers /\ \A r \in Readers : InCall(rd'[r])
BY DEF SealInv, SealingTypeOK

LEMMA GiveUpSeal ==
  ASSUME SealInv, Release, UNCHANGED <<engine, db, updates, rd>>, wpc' = "failed"
  PROVE  SealInv'
<1>1. Stored(engine, db') /\ \A k \in Keys : Holds(engine, db', k, Contents(db', k))
  BY StillStored
<1>2. DOMAIN rd' = Readers /\ \A r \in Readers : InCall(rd'[r])
  BY ReadersStay
<1> QED  BY <1>1, <1>2, EndSeal

LEMMA CrashSeal ==
  ASSUME SealInv, Crash
  PROVE  SealInv'
<1>1. Stored(engine, db') /\ \A k \in Keys : Holds(engine, db', k, Contents(db', k))
  BY StillStored DEF Crash
<1>2. DOMAIN rd' = Readers /\ \A r \in Readers : InCall(rd'[r])
  BY DEF Crash, NoRead, InCall
<1>3. Release /\ wpc' = "idle" /\ updates' = <<>> /\ UNCHANGED engine
  BY DEF Crash
<1> QED  BY <1>1, <1>2, <1>3, EndSeal

LEMMA UpdateFacts ==
  ASSUME NEW u \in Updates
  PROVE  /\ DOMAIN u \subseteq Keys
         /\ \A k \in DOMAIN u : u[k] \in Seq(Index) /\ k \in Keys
BY SealingAssumption DEF Index

LEMMA WriteReturnSeal ==
  ASSUME SealInv, WriteReturn
  PROVE  SealInv'
<1>1. UNCHANGED <<engine, db, todo, snap, pending, cur, batch, rd>>
  BY DEF WriteReturn
<1>2. ~Working /\ wpc' = "idle" /\ updates' = <<>>
  BY DEF WriteReturn, Working
<1>3. todo = {} /\ batch = NoWrites
  BY <1>2 DEF SealInv, KeysFollow
<1>4. SealingTypeOK
  BY DEF SealInv
<1>5. SealingTypeOK'
  BY <1>1, <1>2, <1>3, <1>4 DEF SealingTypeOK
<1>6. KeysFollow'
  BY <1>1, <1>2, <1>3 DEF KeysFollow, Working
<1>7. DOMAIN rd' = Readers /\ \A k \in Keys : Holds(engine', db', k, Contents(db', k))
  BY <1>1 DEF SealInv
<1> QED  BY <1>2, <1>5, <1>6, <1>7 DEF SealInv

LEMMA WriteBatchSeal ==
  ASSUME SealInv, NEW u \in Updates, WriteBatch(u)
  PROVE  SealInv'
<1>1. /\ UNCHANGED <<engine, db, pending, cur, batch, rd>>
      /\ wpc = "idle" /\ New(u) /\ updates' = u
  BY DEF WriteBatch
<1>2. ~Working /\ todo = {} /\ batch = NoWrites
  BY <1>1 DEF SealInv, KeysFollow, Working
<1>3. \/ wpc' = "ack" /\ todo' = {} /\ snap' = snap
      \/ wpc' = "keys" /\ todo' = DOMAIN u /\ snap' = db
  BY <1>2 DEF WriteBatch
<1>4. SealingTypeOK
  BY DEF SealInv
<1>5. SealingTypeOK'
  BY <1>1, <1>2, <1>3, <1>4 DEF SealingTypeOK
<1>6. KeysFollow'
  <2>1. CASE wpc' = "ack"
    BY <1>1, <1>2, <1>3, <2>1 DEF KeysFollow, Working
  <2>2. CASE wpc' = "keys"
    <3>1. New(updates)'
      BY <1>1 DEF New
    <3>2. DOMAIN batch' = {} /\ DOMAIN updates' \ todo' = {} /\ snap' = db' /\ updates' \in Updates
      BY <1>1, <1>2, <1>3, <2>2, NoWritesFacts
    <3> QED  BY <2>2, <3>1, <3>2 DEF KeysFollow, Working
  <2> QED  BY <1>3, <2>1, <2>2
<1>7. DOMAIN rd' = Readers /\ \A k \in Keys : Holds(engine', db', k, Contents(db', k))
  BY <1>1 DEF SealInv
<1>8. wpc' # "indices"
  BY <1>3
<1> QED  BY <1>5, <1>6, <1>7, <1>8 DEF SealInv

LEMMA WorkingFacts ==
  ASSUME SealInv, Working
  PROVE  /\ updates \in Updates /\ New(updates) /\ snap = db
         /\ todo \subseteq DOMAIN updates
         /\ \A k \in DOMAIN updates : updates[k] \in Seq(Index) /\ k \in Keys
         /\ \A a \in DOMAIN batch : a[1] \in DOMAIN updates \ todo
         /\ \A k \in DOMAIN updates \ todo :
              ~(wpc = "indices" /\ k = cur.key) =>
                Holds(engine, View, k, Contents(db, k) \o updates[k])
<1>1. KeysFollow /\ SealingTypeOK
  BY DEF SealInv
<1>2. updates \in Updates /\ todo \subseteq DOMAIN updates
  BY <1>1 DEF KeysFollow, SealingTypeOK
<1>3. \A k \in DOMAIN updates : updates[k] \in Seq(Index) /\ k \in Keys
  BY <1>2, UpdateFacts
<1> QED  BY <1>1, <1>2, <1>3 DEF KeysFollow

\* A key that this call does not write yet, or not at all.
LEMMA UnreachedKey ==
  ASSUME SealInv, Working, NEW k \in Keys, k \in todo \/ k \notin DOMAIN updates
  PROVE  Holds(engine, View, k, Contents(db, k))
<1>1. \A a \in DOMAIN batch : a[1] # k
  BY WorkingFacts
<1>2. Holds(engine, db, k, Contents(db, k))
  BY DEF SealInv
<1>3. Holds(engine, Layout!Overlay(batch, db), k, Contents(db, k))
  BY <1>1, <1>2, ViewUntouched
<1> QED  BY <1>3 DEF View

LEMMA SkipKeySeal ==
  ASSUME SealInv, NEW k \in todo, SkipKey(k)
  PROVE  SealInv'
<1>1. /\ UNCHANGED <<engine, db, wpc, updates, snap, pending, cur, batch, rd>>
      /\ wpc = "keys" /\ updates[k] = <<>> /\ todo' = todo \ {k}
  BY DEF SkipKey, NextKeyToDo
<1>2. Working /\ Working'
  BY <1>1 DEF Working
<1>3. k \in DOMAIN updates /\ k \in Keys
  BY <1>2, WorkingFacts
<1>4. Holds(engine, View, k, Contents(db, k) \o updates[k])
  <2>1. Holds(engine, View, k, Contents(db, k))
    BY <1>2, <1>3, UnreachedKey
  <2>2. Contents(db, k) \in Seq(Index)
    BY <2>1 DEF Holds
  <2>3. Contents(db, k) \o <<>> = Contents(db, k)
    BY <2>2, ConcatEmptySeq
  <2> QED  BY <1>1, <2>1, <2>3
<1>5. SealingTypeOK
  BY DEF SealInv
<1>6. SealingTypeOK'
  BY <1>1, <1>5 DEF SealingTypeOK
<1>7. View' = View
  BY <1>1 DEF View
<1>8. New(updates)'
  <2>1. New(updates)
    BY <1>2, WorkingFacts
  <2> QED  BY <1>1, <2>1 DEF New
<1>9. KeysFollow'
  <2>1. updates' \in Updates /\ snap' = db'
    BY <1>1, <1>2, WorkingFacts
  <2>2. \A a \in DOMAIN batch' : a[1] \in DOMAIN updates' \ todo'
    BY <1>1, <1>2, WorkingFacts
  <2>3. ASSUME NEW j \in DOMAIN updates' \ todo'
        PROVE  Holds(engine', View', j, Contents(db', j) \o updates'[j])
    <3>1. CASE j = k
      BY <1>1, <1>4, <1>7, <3>1
    <3>2. CASE j # k
      <4>1. j \in DOMAIN updates \ todo
        BY <1>1, <3>2
      <4>2. Holds(engine, View, j, Contents(db, j) \o updates[j])
        BY <1>1, <1>2, <4>1, WorkingFacts
      <4> QED  BY <1>1, <1>7, <4>2
    <3> QED  BY <3>1, <3>2
  <2> QED  BY <1>2, <1>8, <2>1, <2>2, <2>3 DEF KeysFollow
<1>10. DOMAIN rd' = Readers /\ \A j \in Keys : Holds(engine', db', j, Contents(db', j))
  BY <1>1 DEF SealInv
<1> QED  BY <1>1, <1>6, <1>9, <1>10 DEF SealInv

-----------------------------------------------------------------------------
(* The writer: the key in hand.                                              *)

LEMMA FromConcat ==
  ASSUME NEW L \in Seq(Index), NEW M \in Seq(Index)
  PROVE  From(L \o M, Len(L)) = M
<1> DEFINE N == L \o M  p == Part(N, Len(L), Len(N))
<1>1. /\ N \in Seq(Index) /\ Len(N) = Len(L) + Len(M)
      /\ \A i \in 1 .. Len(L) + Len(M) : N[i] = IF i <= Len(L) THEN L[i] ELSE M[i - Len(L)]
  BY ConcatProperties
<1>2. Len(L) \in Nat /\ Len(M) \in Nat
  BY ListType
<1> HIDE DEF N
<1>3. Len(L) <= Len(N) /\ Len(N) \in Nat /\ Len(N) <= Len(N)
  BY <1>1, <1>2
<1>4. p \in Seq(Index) /\ Len(p) = Len(N) - Len(L)
      /\ \A i \in 1 .. Len(N) - Len(L) : p[i] = N[Len(L) + i]
  BY <1>1, <1>2, <1>3, PartFacts
<1>5. From(N, Len(L)) = p
  BY <1>1, <1>2, <1>3, FromPart
<1> HIDE DEF p
<1>6. Len(p) = Len(M)
  BY <1>1, <1>2, <1>4
<1>7. \A i \in 1 .. Len(p) : p[i] = M[i]
  <2> TAKE i \in 1 .. Len(p)
  <2>1. /\ i \in 1 .. Len(N) - Len(L) /\ Len(L) + i \in 1 .. Len(L) + Len(M)
        /\ ~(Len(L) + i <= Len(L)) /\ (Len(L) + i) - Len(L) = i
    BY <1>1, <1>2, <1>6
  <2> QED  BY <1>1, <1>4, <2>1
<1>8. p = M
  BY <1>4, <1>6, <1>7, ListEqual
<1> QED  BY <1>5, <1>8 DEF N

LEMMA HoldsEmpty ==
  ASSUME NEW e, NEW s, NEW k, Holds(e, s, k, <<>>)
  PROVE  ChunksOf(s, k) = {}
<1> SUFFICES ASSUME NEW d \in ChunksOf(s, k) PROVE FALSE
  OBVIOUS
<1>1. IsChunk(e, k, d, <<>>, Chunk(s, k, d)) /\ <<>> \in Seq(Index)
  BY DEF Holds
<1>2. PICK v, w \in 0 .. Len(<<>>) : Segment(<<>>, d, v, w)
  BY <1>1 DEF IsChunk
<1>3. w \in 1 .. Len(<<>>)
  BY <1>1, <1>2, SegmentFacts
<1>4. Len(<<>>) = 0
  BY EmptySeq
<1> QED  BY <1>3, <1>4

\* The chunk in hand as LoadKey, AppendInChunk and SealAndCross make it.
Fresh(k, c)      == [NoCur EXCEPT !.key = k, !.chunkNum = c]
Grown(x, i)      == [x EXCEPT !.rel = Append(@, Layout!RelIdx(i)), !.cum = @ + 1]
Crossed(x, d, i) == [x EXCEPT !.chunkNum = d, !.prev = IF Linked THEN x.chunkNum ELSE 0,
                              !.range = Folded(x.chunkNum, x),
                              !.rel = <<Layout!RelIdx(i)>>, !.cum = @ + 1]

\* The chunk a key starts with when there is none yet.
LEMMA FreshChunk ==
  ASSUME NEW e, NEW k, NEW c, NEW L \in Seq(Index)
  PROVE  ChunkOf(e, k, c, L, 0, 0) = Fresh(k, c)
<1> DEFINE f == [j \in 1 .. 0 - 0 |-> Layout!RelIdx(L[0 + j])]
<1>1. f = <<>>
  <2>1. \A j \in 1 .. 0 - 0 : f[j] \in Layout!Rel
    OBVIOUS
  <2>2. f \in [1 .. 0 - 0 -> Layout!Rel]
    BY <2>1
  <2> HIDE DEF f
  <2>3. f \in [1 .. 0 -> Layout!Rel] /\ 0 \in Nat
    BY <2>2
  <2>4. f \in Seq(Layout!Rel) /\ Len(f) = 0
    BY <2>3, RelList
  <2> QED  BY <2>4, EmptySeq
<1>2. SubSeq(L, 1, 0) = <<>>
  <2>1. Part(L, 0, 0) = <<>> /\ 0 + 1 = 1
    BY PartWhole, ListType
  <2> QED  BY <2>1 DEF Part
<1>3. ~(0 > 0)
  OBVIOUS
<1>4. ChunkOf(e, k, c, L, 0, 0)
        = [key |-> k, chunkNum |-> c, prev |-> 0, range |-> <<>>, rel |-> <<>>, cum |-> 0]
  BY <1>1, <1>2, <1>3 DEF ChunkOf
<1>5. [NoCur EXCEPT !.key = k]
        = [key |-> k, chunkNum |-> 0, prev |-> 0, range |-> <<>>, rel |-> <<>>, cum |-> 0]
  BY DEF NoCur
<1>6. [[key |-> k, chunkNum |-> 0, prev |-> 0, range |-> <<>>, rel |-> <<>>, cum |-> 0]
         EXCEPT !.chunkNum = c]
        = [key |-> k, chunkNum |-> c, prev |-> 0, range |-> <<>>, rel |-> <<>>, cum |-> 0]
  OBVIOUS
<1> QED  BY <1>4, <1>5, <1>6 DEF Fresh

\* The fields of a chunk, as the writer keeps them, are in range.
LEMMA HandTypes ==
  ASSUME NEW e, NEW k, NEW c \in Index, NEW L \in Seq(Index), NEW m \in Nat, NEW n \in Nat,
         m <= n, n <= Len(L), NEW x, x = ChunkOf(e, k, c, L, m, n)
  PROVE  /\ x.key = k /\ x.chunkNum = c /\ x.chunkNum \in Index
         /\ x.prev \in Index /\ x.cum \in Nat /\ x.cum = n
         /\ x.range \in Seq(Index) /\ Len(x.range) = m /\ x.rel \in Seq(Layout!Rel)
<1>1. x.rel \in Seq(Layout!Rel) /\ x.range \in Seq(Index) /\ Len(x.range) = m
      /\ x.prev \in Index /\ x.cum \in Nat
  BY ChunkOffsets
<1>2. x.key = k /\ x.chunkNum = c /\ x.cum = n
  BY ChunkFields
<1> QED  BY <1>1, <1>2

\* A step that goes on with a key.
LEMMA HandSeal ==
  ASSUME SealInv, Working, wpc' = "indices", UNCHANGED <<engine, db, updates, snap, rd>>,
         todo' \subseteq todo, KeyInHand', Stored(engine, batch'), pending' \in Seq(Index),
         cur'.chunkNum \in Index, cur'.prev \in Index, cur'.cum \in Nat,
         cur'.range \in Seq(Index), cur'.rel \in Seq(Layout!Rel),
         \A a \in DOMAIN batch' : a[1] \in DOMAIN updates \ todo',
         \A j \in DOMAIN updates \ todo' :
           j # cur'.key => Holds(engine, View', j, Contents(db, j) \o updates[j])
  PROVE  SealInv'
<1>1. updates \in Updates /\ New(updates) /\ snap = db
  BY WorkingFacts
<1>2. New(updates)'
  BY <1>1 DEF New
<1>3. Working'
  BY DEF Working
<1>4. \A j \in DOMAIN updates' \ todo' :
        ~(wpc' = "indices" /\ j = cur'.key) =>
           Holds(engine', View', j, Contents(db', j) \o updates'[j])
  OBVIOUS
<1>5. KeysFollow'
  BY <1>1, <1>2, <1>3, <1>4 DEF KeysFollow
<1>6. SealingTypeOK
  BY DEF SealInv
<1>7. SealingTypeOK'
  BY <1>6 DEF SealingTypeOK
<1>8. DOMAIN rd' = Readers /\ \A j \in Keys : Holds(engine', db', j, Contents(db', j))
  BY DEF SealInv
<1> QED  BY <1>5, <1>7, <1>8 DEF SealInv

\* What the latest chunk of a key, if it has one, gives the writer to go on with.
LEMMA LoadedChunk ==
  ASSUME NEW e, NEW s, InSpace(s), NEW k \in Keys, NEW L, Holds(e, s, k, L),
         NEW M \in Seq(Index), M # <<>>, s = snap, e = engine
  PROVE  \/ /\ L = <<>> /\ Layout!ReverseSeekLatest(snap, k) = Layout!Invalid
            /\ InitialCur(k, M) = ChunkOf(e, k, Layout!ChunkNum(Head(M)), L \o M, 0, 0)
         \/ /\ L # <<>> /\ IsLatestValue(snap[Layout!ReverseSeekLatest(snap, k)])
            /\ \E m \in 0 .. Len(L) :
                 LET c == Layout!ChunkNum(L[Len(L)])
                 IN  /\ Segment(L, c, m, Len(L))
                     /\ InitialCur(k, M) = ChunkOf(e, k, c, L \o M, m, Len(L))
<1> DEFINE a == Layout!ReverseSeekLatest(snap, k)
<1>1. L \in Seq(Index) /\ Len(L) \in Nat /\ L \o M \in Seq(Index)
  BY ConcatProperties, ListType DEF Holds
<1>2. CASE L = <<>>
  <2>1. a = Layout!Invalid
    BY <1>2, HoldsContents
  <2>2. InitialCur(k, M) = Fresh(k, Layout!ChunkNum(Head(M)))
    BY <2>1 DEF InitialCur, Fresh
  <2> HIDE DEF a
  <2> DEFINE T == L \o M  c == Layout!ChunkNum(Head(M))
  <2>3. T \in Seq(Index)
    BY <1>1
  <2> HIDE DEF T, c
  <2>4. ChunkOf(e, k, c, T, 0, 0) = Fresh(k, c)
    BY <2>3, FreshChunk
  <2>5. InitialCur(k, M) = ChunkOf(e, k, c, T, 0, 0)
    BY <2>2, <2>4 DEF c
  <2> QED  BY <1>2, <2>1, <2>5 DEF a, T, c
<1>3. CASE L # <<>>
  <2> DEFINE c == Layout!ChunkNum(L[Len(L)])
  <2>1. a = <<k, c>> /\ <<k, c>> # Layout!Invalid
    BY <1>3, HoldsContents
  <2>2. \E m \in 0 .. Len(L) :
          /\ Segment(L, c, m, Len(L))
          /\ s[<<k, c>>] = LatestValue(e, ChunkOf(e, k, c, L, m, Len(L)))
    BY <1>3, HoldsContents
  <2> HIDE DEF c, a
  <2>3. PICK m \in 0 .. Len(L) :
          /\ Segment(L, c, m, Len(L))
          /\ s[<<k, c>>] = LatestValue(e, ChunkOf(e, k, c, L, m, Len(L)))
    BY <2>2
  <2> DEFINE x == ChunkOf(e, k, c, L, m, Len(L))  v == snap[a]
  <2>4. v = LatestValue(e, x)
    BY <2>1, <2>3
  <2>5. /\ x.key = k /\ x.chunkNum = c
        /\ x.prev = IF e = "sealing_chunk" /\ m > 0 THEN Layout!ChunkNum(L[m]) ELSE 0
    BY ChunkFields
  <2>6. x = [key |-> x.key, chunkNum |-> x.chunkNum, prev |-> x.prev, range |-> x.range,
             rel |-> x.rel, cum |-> x.cum]
    BY DEF ChunkOf
  <2>7. m \in Nat /\ m <= Len(L)
    BY <1>1, <2>3
  <2>8. ChunkOf(e, k, c, L \o M, m, Len(L)) = x
    BY <1>1, <2>7, ChunkOfPrefix
  <2> HIDE DEF x, v
  <2>9. /\ v.range = x.range /\ v.rel = x.rel /\ v.cum = x.cum /\ IsLatestValue(v)
        /\ e = "sealing_chunk" => v.prev = x.prev
    BY <2>4, ValueFields
  <2>10. Layout!ChunkAt(a) = c /\ a # Layout!Invalid
    BY <2>1, LayoutKeys
  <2>11. InitialCur(k, M) = [key |-> k, chunkNum |-> c,
                             prev |-> IF Linked THEN v.prev ELSE 0,
                             range |-> v.range, rel |-> v.rel, cum |-> v.cum]
    BY <2>10 DEF InitialCur, a, v
  <2>12. (IF Linked THEN v.prev ELSE 0) = x.prev
    BY <2>5, <2>9 DEF Linked
  <2>13. InitialCur(k, M) = x
    BY <2>5, <2>6, <2>9, <2>11, <2>12
  <2> QED  BY <1>3, <2>3, <2>8, <2>9, <2>13 DEF a, c, v
<1> QED  BY <1>2, <1>3

\* The list the writer is about to write is in order.
LEMMA TargetFacts ==
  ASSUME SealInv, Working, NEW k \in DOMAIN updates, Sorted(updates[k])
  PROVE  /\ Contents(db, k) \in Seq(Index)
         /\ Contents(db, k) \o updates[k] \in Seq(Index)
         /\ Len(Contents(db, k) \o updates[k]) = Len(Contents(db, k)) + Len(updates[k])
         /\ Ordered(Contents(db, k) \o updates[k])
<1>1. updates[k] \in Seq(Index) /\ k \in Keys /\ New(updates)
  BY WorkingFacts
<1>2. Holds(engine, db, k, Contents(db, k))
  BY <1>1 DEF SealInv
<1>3. Contents(db, k) \in Seq(Index) /\ Ordered(Contents(db, k))
  BY <1>2 DEF Holds
<1>4. Ordered(updates[k])
  BY <1>1, SortedOrdered
<1>5. \A i \in IndicesOf(updates[k]) : \A j \in IndicesOf(Contents(db, k)) : j < i
  BY <1>1 DEF New
<1>6. Ordered(Contents(db, k) \o updates[k])
  BY <1>1, <1>3, <1>4, <1>5, OrderedConcat
<1>7. /\ Contents(db, k) \o updates[k] \in Seq(Index)
      /\ Len(Contents(db, k) \o updates[k]) = Len(Contents(db, k)) + Len(updates[k])
  BY <1>1, <1>3, ConcatProperties
<1> QED  BY <1>3, <1>6, <1>7

LEMMA LoadKeySeal ==
  ASSUME SealInv, NEW k \in todo, LoadKey(k)
  PROVE  SealInv'
<1> DEFINE L == Contents(db, k)  M == updates[k]  T == L \o M  e == engine
           a == Layout!ReverseSeekLatest(snap, k)
<1>1. /\ wpc = "keys" /\ M # <<>> /\ Sorted(M)
      /\ UNCHANGED <<engine, db, updates, rd>>
  BY DEF LoadKey, NextKeyToDo
<1>2. Working /\ SealingTypeOK
  BY <1>1 DEF Working, SealInv
<1>3. k \in DOMAIN updates /\ k \in Keys /\ M \in Seq(Index) /\ snap = db
  BY <1>2, WorkingFacts
<1>4. L \in Seq(Index) /\ T \in Seq(Index) /\ Len(T) = Len(L) + Len(M) /\ Ordered(T)
  BY <1>1, <1>2, <1>3, TargetFacts
<1>5. InSpace(db) /\ Holds(e, db, k, L)
  BY <1>2, <1>3, StoredSpace DEF SealingTypeOK, SealInv
<1>6. Holds(e, View, k, L)
  BY <1>2, <1>3, UnreachedKey
<1>7. Len(L) \in Nat /\ Len(M) \in Nat \ {0} /\ Len(L) <= Len(T) /\ Len(T) \in Nat
      /\ From(T, Len(L)) = M
  BY <1>1, <1>3, <1>4, EmptySeq, ListType, FromConcat
<1>8. \/ /\ L = <<>> /\ a = Layout!Invalid
         /\ InitialCur(k, M) = ChunkOf(e, k, Layout!ChunkNum(Head(M)), T, 0, 0)
      \/ /\ L # <<>> /\ IsLatestValue(snap[a])
         /\ \E m \in 0 .. Len(L) :
              LET c == Layout!ChunkNum(L[Len(L)])
              IN  /\ Segment(L, c, m, Len(L))
                  /\ InitialCur(k, M) = ChunkOf(e, k, c, T, m, Len(L))
  BY <1>1, <1>3, <1>5, LoadedChunk
<1>9. /\ wpc' = "indices" /\ todo' = todo \ {k} /\ pending' = M
      /\ cur' = InitialCur(k, M) /\ UNCHANGED <<snap, batch>>
  <2>1. ~(a # Layout!Invalid /\ ~IsLatestValue(snap[a]))
    BY <1>8
  <2> QED  BY <2>1 DEF LoadKey
<1>10. View' = View
  BY <1>1, <1>9 DEF View
<1> DEFINE Hand(c, m, n) ==
             /\ c \in Index /\ m \in Nat /\ n = Len(L) /\ m <= n
             /\ cur' = ChunkOf(e, k, c, T, m, n)
             /\ m = n => n = 0 /\ c = Layout!ChunkNum(Head(M))
             /\ \A i \in 1 .. n : Layout!ChunkNum(T[i]) = c <=> m < i
             /\ \A i \in 1 .. m : Layout!ChunkNum(T[i]) \in ChunksOf(View, k)
             /\ \A d \in ChunksOf(View, k) \ {c} :
                  \E x, y \in 0 .. m :
                    /\ Segment(T, d, x, y)
                    /\ Chunk(View, k, d) = OlderValue(e, ChunkOf(e, k, d, T, x, y))
<1>11. \E c, m, n : Hand(c, m, n)
  <2>1. CASE L = <<>>
    <3> DEFINE c == Layout!ChunkNum(Head(M))
    <3>1. cur' = ChunkOf(e, k, c, T, 0, 0)
      BY <1>8, <1>9, <2>1
    <3>2. c \in Index
      <4>1. Head(M) \in Index
        BY <1>1, <1>3, HeadTailProperties
      <4> QED  BY <4>1, InChunk
    <3>3. Len(L) = 0
      BY <2>1, EmptySeq
    <3>4. ChunksOf(View, k) = {}
      BY <1>6, <2>1, HoldsEmpty
    <3> HIDE DEF c, L, T, M
    <3>5. Hand(c, 0, 0)
      BY <3>1, <3>2, <3>3, <3>4 DEF c
    <3> QED  BY <3>5
  <2>2. CASE L # <<>>
    <3> DEFINE c == Layout!ChunkNum(L[Len(L)])  n == Len(L)
    <3>1. PICK m \in 0 .. n : /\ Segment(L, c, m, n)
                              /\ cur' = ChunkOf(e, k, c, T, m, n)
      BY <1>8, <1>9, <2>2
    <3>2. /\ m \in Nat /\ n \in Nat /\ m < n /\ n \in 1 .. n /\ c \in Index
          /\ \A i \in m + 1 .. n : Layout!ChunkNum(L[i]) = c
      <4> HIDE DEF L, c
      <4> QED  BY <1>4, <3>1, SegmentFacts
    <3>3. \A i \in 1 .. n : T[i] = L[i]
      <4> HIDE DEF L, M
      <4> QED  BY <1>3, <1>4, <1>7, ConcatProperties
    <3>4. \A i \in 1 .. n : Layout!ChunkNum(T[i]) = c <=> m < i
      BY <3>1, <3>2, <3>3 DEF Segment
    <3>5. \A i \in 1 .. m : Layout!ChunkNum(T[i]) \in ChunksOf(View, k)
      <4> TAKE i \in 1 .. m
      <4>1. i \in 1 .. n
        BY <3>2
      <4>2. Layout!ChunkNum(L[i]) \in ChunksOf(View, k)
        BY <1>6, <4>1, HoldsAt
      <4> QED  BY <3>3, <4>1, <4>2
    <3>6. ASSUME NEW d \in ChunksOf(View, k) \ {c}
          PROVE  \E x, y \in 0 .. m :
                   /\ Segment(T, d, x, y)
                   /\ Chunk(View, k, d) = OlderValue(e, ChunkOf(e, k, d, T, x, y))
      <4>1. IsChunk(e, k, d, L, Chunk(View, k, d))
        BY <1>6 DEF Holds
      <4>2. PICK x, y \in 0 .. Len(L) :
              /\ Segment(L, d, x, y)
              /\ Chunk(View, k, d) = IF y = Len(L) THEN LatestValue(e, ChunkOf(e, k, d, L, x, y))
                                                   ELSE OlderValue(e, ChunkOf(e, k, d, L, x, y))
        BY <4>1 DEF IsChunk
      <4> HIDE DEF L, M, c, T
      <4>3. /\ x \in Nat /\ y \in Nat /\ x < y /\ x <= y /\ y <= Len(L) /\ y \in 1 .. Len(L)
            /\ d = Layout!ChunkNum(L[y])
        BY <1>4, <4>2, SegmentFacts
      <4>4. y # Len(L)
        BY <4>3 DEF c
      <4>5. ~(m < y /\ y <= n)
        BY <3>1, <4>3 DEF Segment
      <4>6. y <= m /\ x \in 0 .. m /\ y \in 0 .. m
        BY <3>2, <4>3, <4>5
      <4>7. Segment(T, d, x, y)
        BY <1>3, <1>4, <4>2, <4>4, SegmentGrows DEF T
      <4>8. ChunkOf(e, k, d, T, x, y) = ChunkOf(e, k, d, L, x, y)
        BY <1>3, <1>4, <4>3, ChunkOfPrefix DEF T
      <4>9. Chunk(View, k, d) = OlderValue(e, ChunkOf(e, k, d, T, x, y))
        BY <4>2, <4>4, <4>8
      <4> QED  BY <4>6, <4>7, <4>9
    <3> HIDE DEF c, L, T, M
    <3>7. Hand(c, m, n)
      BY <3>1, <3>2, <3>4, <3>5, <3>6
    <3> QED  BY <3>7
  <2> QED  BY <2>1, <2>2
<1>12. PICK c, m, n : Hand(c, m, n)
  BY <1>11
<1>13. /\ cur'.key = k /\ cur'.chunkNum = c /\ cur'.chunkNum \in Index
       /\ cur'.prev \in Index /\ cur'.cum \in Nat /\ cur'.cum = n
       /\ cur'.range \in Seq(Index) /\ Len(cur'.range) = m /\ cur'.rel \in Seq(Layout!Rel)
  <2>1. n \in Nat /\ n <= Len(T)
    BY <1>7, <1>12
  <2> HIDE DEF L, T, M
  <2> QED  BY <1>4, <1>12, <2>1, HandTypes
<1>14. KeyInHand'
  <2>1. Target' = T
    BY <1>1, <1>13 DEF Target
  <2>2. k \in DOMAIN updates' \ todo'
    BY <1>1, <1>3, <1>9
  <2>3. Contents(db', k) = L /\ engine' = e
    BY <1>1
  <2>4. M # <<>> /\ pending' = From(T, n)
    BY <1>1, <1>7, <1>9, <1>12
  <2>5. n <= Len(T) /\ Ordered(T)
    BY <1>4, <1>7, <1>12
  <2> HIDE DEF L, M, T, e
  <2> QED  BY <1>9, <1>10, <1>12, <1>13, <2>1, <2>2, <2>3, <2>4, <2>5 DEF KeyInHand
<1>15. Stored(engine, batch')
  BY <1>2, <1>9 DEF SealingTypeOK
<1>16. \A b \in DOMAIN batch' : b[1] \in DOMAIN updates \ todo'
  BY <1>2, <1>9, WorkingFacts
<1>17. \A j \in DOMAIN updates \ todo' :
         j # cur'.key => Holds(engine, View', j, Contents(db, j) \o updates[j])
  BY <1>1, <1>2, <1>9, <1>10, <1>13, WorkingFacts
<1> HIDE DEF L, M, T, a
<1> QED  BY <1>1, <1>2, <1>3, <1>9, <1>13, <1>14, <1>15, <1>16, <1>17, HandSeal

LEMMA FromHead ==
  ASSUME NEW L \in Seq(Index), NEW n \in Nat, n <= Len(L)
  PROVE  /\ From(L, n) \in Seq(Index)
         /\ From(L, n) = <<>> <=> n = Len(L)
         /\ From(L, n) # <<>> => /\ n + 1 \in 1 .. Len(L) /\ n + 1 <= Len(L)
                                 /\ Head(From(L, n)) = L[n + 1]
                                 /\ Tail(From(L, n)) = From(L, n + 1)
<1> DEFINE p == Part(L, n, Len(L))  q == Part(L, n + 1, Len(L))
<1>1. Len(L) \in Nat /\ Len(L) <= Len(L)
  BY ListType
<1>2. p \in Seq(Index) /\ Len(p) = Len(L) - n /\ \A i \in 1 .. Len(L) - n : p[i] = L[n + i]
  BY <1>1, PartFacts
<1>3. From(L, n) = p
  BY FromPart
<1> HIDE DEF p
<1>4. p = <<>> <=> n = Len(L)
  BY <1>1, <1>2, EmptySeq
<1>5. ASSUME p # <<>>
      PROVE  n + 1 \in 1 .. Len(L) /\ n + 1 <= Len(L) /\ Head(p) = L[n + 1] /\ Tail(p) = From(L, n + 1)
  <2>1. n + 1 \in 1 .. Len(L) /\ n + 1 <= Len(L) /\ n + 1 \in Nat /\ 1 \in 1 .. Len(L) - n
    BY <1>1, <1>4, <1>5
  <2>2. q \in Seq(Index) /\ Len(q) = Len(L) - (n + 1)
        /\ \A i \in 1 .. Len(L) - (n + 1) : q[i] = L[(n + 1) + i]
    BY <1>1, <2>1, PartFacts
  <2>3. From(L, n + 1) = q
    BY <2>1, FromPart
  <2> HIDE DEF q
  <2>4. Head(p) = p[1] /\ p[1] = L[n + 1]
    BY <1>2, <2>1
  <2>5. Tail(p) \in Seq(Index) /\ Len(Tail(p)) = Len(p) - 1
        /\ \A i \in 1 .. Len(Tail(p)) : Tail(p)[i] = p[i + 1]
    BY <1>2, <1>5, HeadTailProperties
  <2>6. Len(Tail(p)) = Len(q)
    BY <1>1, <1>2, <2>2, <2>5
  <2>7. \A i \in 1 .. Len(Tail(p)) : Tail(p)[i] = q[i]
    <3> TAKE i \in 1 .. Len(Tail(p))
    <3>1. i \in 1 .. Len(L) - (n + 1) /\ i + 1 \in 1 .. Len(L) - n /\ n + (i + 1) = (n + 1) + i
      BY <1>1, <1>2, <2>5
    <3> QED  BY <1>2, <2>2, <2>5, <3>1
  <2>8. Tail(p) = q
    BY <2>2, <2>5, <2>6, <2>7, ListEqual
  <2> QED  BY <2>1, <2>3, <2>4, <2>8
<1> QED  BY <1>2, <1>3, <1>4, <1>5

LEMMA GrowChunk ==
  ASSUME NEW e, NEW k, NEW c, NEW L \in Seq(Index), NEW m \in Nat, NEW n \in Nat,
         m <= n, n + 1 <= Len(L), NEW x, x = ChunkOf(e, k, c, L, m, n)
  PROVE  Grown(x, L[n + 1]) = ChunkOf(e, k, c, L, m, n + 1)
<1> DEFINE y == ChunkOf(e, k, c, L, m, n + 1)  r == Layout!RelIdx(L[n + 1])
           f == [j \in 1 .. n - m |-> Layout!RelIdx(L[m + j])]
           g == [j \in 1 .. (n + 1) - m |-> Layout!RelIdx(L[m + j])]
<1>1. Len(L) \in Nat /\ n <= Len(L) /\ n + 1 \in 1 .. Len(L) /\ n + 1 \in Nat /\ m <= n + 1
      /\ n - m \in Nat
  BY ListType
<1>2. x.rel = f /\ x.rel \in Seq(Layout!Rel) /\ Len(x.rel) = n - m
  <2>1. x.rel = f
    BY DEF ChunkOf
  <2>2. n <= Len(L)
    BY <1>1
  <2>3. x.rel \in Seq(Layout!Rel)
    BY <2>2, ChunkOffsets
  <2> DEFINE o == n - m
  <2>4. o = n - m
    OBVIOUS
  <2> HIDE DEF o
  <2>5. Len(x.rel) = o
    BY <2>2, <2>4, ChunkLength
  <2> QED  BY <2>1, <2>3, <2>4, <2>5
<1>3. r \in Layout!Rel
  BY <1>1, ListType, InChunk
<1> HIDE DEF r
<1> DEFINE A == Append(x.rel, r)
<1>4. /\ A \in Seq(Layout!Rel) /\ Len(A) = (n - m) + 1
      /\ \A i \in 1 .. n - m : A[i] = x.rel[i]
      /\ A[(n - m) + 1] = r
  BY <1>1, <1>2, <1>3, AppendProperties
<1> HIDE DEF A
<1>5. DOMAIN A = 1 .. (n + 1) - m /\ A = [j \in 1 .. (n + 1) - m |-> A[j]]
  <2>1. (n - m) + 1 = (n + 1) - m
    BY <1>1
  <2>2. A \in [1 .. Len(A) -> Layout!Rel]
    BY <1>4, LenProperties
  <2>3. Len(A) = (n + 1) - m
    BY <1>4, <2>1
  <2>4. A \in [1 .. (n + 1) - m -> Layout!Rel]
    BY <2>2, <2>3
  <2> QED  BY <2>4
<1>6. \A j \in 1 .. (n + 1) - m : A[j] = Layout!RelIdx(L[m + j])
  <2> TAKE j \in 1 .. (n + 1) - m
  <2>1. j \in 1 .. n - m \/ j = (n - m) + 1
    BY <1>1
  <2>2. ASSUME j \in 1 .. n - m PROVE A[j] = Layout!RelIdx(L[m + j])
    BY <1>2, <1>4, <2>2
  <2>3. ASSUME j = (n - m) + 1 PROVE A[j] = Layout!RelIdx(L[m + j])
    <3>1. m + j = n + 1
      BY <1>1, <2>3
    <3> QED  BY <1>4, <2>3, <3>1 DEF r
  <2> QED  BY <2>1, <2>2, <2>3
<1>7. A = g
  <2> HIDE DEF f
  <2> QED  BY <1>5, <1>6
<1>8. /\ x = [key |-> x.key, chunkNum |-> x.chunkNum, prev |-> x.prev, range |-> x.range,
              rel |-> x.rel, cum |-> x.cum]
      /\ y = [key |-> y.key, chunkNum |-> y.chunkNum, prev |-> y.prev, range |-> y.range,
              rel |-> y.rel, cum |-> y.cum]
  BY DEF ChunkOf
<1>9. y.rel = g
  BY DEF ChunkOf
<1>10. /\ x.key = y.key /\ x.chunkNum = y.chunkNum /\ x.range = y.range
       /\ x.prev = y.prev /\ x.cum = n /\ y.cum = n + 1
  BY DEF ChunkOf
<1> HIDE DEF y, f, g
<1> DEFINE x1 == [x EXCEPT !.rel = A]
<1>11. x1 = [key |-> x.key, chunkNum |-> x.chunkNum, prev |-> x.prev, range |-> x.range,
             rel |-> A, cum |-> x.cum]
  BY <1>8
<1> HIDE DEF x1
<1>12. [x1 EXCEPT !.cum = x.cum + 1]
         = [key |-> x.key, chunkNum |-> x.chunkNum, prev |-> x.prev, range |-> x.range,
            rel |-> A, cum |-> x.cum + 1]
  BY <1>11
<1>13. [x1 EXCEPT !.cum = x.cum + 1] = y
  BY <1>7, <1>8, <1>9, <1>10, <1>12
<1> QED  BY <1>13 DEF r, y, A, x1, Grown

LEMMA CrossChunk ==
  ASSUME NEW e, NEW k, NEW c, NEW d, NEW L \in Seq(Index), NEW m \in Nat, NEW n \in Nat,
         m < n, n + 1 <= Len(L), NEW x, x = ChunkOf(e, k, c, L, m, n),
         \A i \in m + 1 .. n : Layout!ChunkNum(L[i]) = c, e = engine
  PROVE  Crossed(x, d, L[n + 1]) = ChunkOf(e, k, d, L, n, n + 1)
<1> DEFINE y == ChunkOf(e, k, d, L, n, n + 1)  r == Layout!RelIdx(L[n + 1])
           p == IF Linked THEN c ELSE 0
           g == [j \in 1 .. (n + 1) - n |-> Layout!RelIdx(L[n + j])]
<1>1. Len(L) \in Nat /\ n <= Len(L) /\ n + 1 \in 1 .. Len(L) /\ n \in m + 1 .. n /\ n > 0 /\ m <= n
  BY ListType
<1>2. x.key = k /\ x.chunkNum = c /\ x.cum = n
  BY ChunkFields
<1>3. Folded(c, x) = Part(L, 0, n)
  BY <1>1, ChunkIndices
<1>4. y.key = k /\ y.chunkNum = d /\ y.range = Part(L, 0, n) /\ y.cum = n + 1
      /\ y.prev = IF e = "sealing_chunk" /\ n > 0 THEN Layout!ChunkNum(L[n]) ELSE 0
  BY ChunkFields
<1>5. y.prev = p
  BY <1>1, <1>4 DEF Linked
<1>6. y.rel = <<r>>
  <2>1. y.rel = g
    BY DEF ChunkOf
  <2>2. (n + 1) - n = 1 /\ 1 .. 1 = {1}
    OBVIOUS
  <2>3. g = [j \in {1} |-> r]
    BY <2>2
  <2>4. <<r>> = [j \in {1} |-> r]
    OBVIOUS
  <2> QED  BY <2>1, <2>3, <2>4
<1>7. /\ x = [key |-> x.key, chunkNum |-> x.chunkNum, prev |-> x.prev, range |-> x.range,
              rel |-> x.rel, cum |-> x.cum]
      /\ y = [key |-> y.key, chunkNum |-> y.chunkNum, prev |-> y.prev, range |-> y.range,
              rel |-> y.rel, cum |-> y.cum]
  BY DEF ChunkOf
<1> DEFINE F == Folded(c, x)
<1> HIDE DEF y, g, r, p, F
<1> DEFINE x1 == [x EXCEPT !.chunkNum = d]     x2 == [x1 EXCEPT !.prev = p]
           x3 == [x2 EXCEPT !.range = F]       x4 == [x3 EXCEPT !.rel = <<r>>]
           x5 == [x4 EXCEPT !.cum = x.cum + 1]
<1>8. x1 = [key |-> x.key, chunkNum |-> d, prev |-> x.prev, range |-> x.range,
            rel |-> x.rel, cum |-> x.cum]
  BY <1>7
<1> HIDE DEF x1
<1>9. x2 = [key |-> x.key, chunkNum |-> d, prev |-> p, range |-> x.range,
            rel |-> x.rel, cum |-> x.cum]
  BY <1>8
<1> HIDE DEF x2
<1>10. x3 = [key |-> x.key, chunkNum |-> d, prev |-> p, range |-> F,
             rel |-> x.rel, cum |-> x.cum]
  BY <1>9
<1> HIDE DEF x3
<1>11. x4 = [key |-> x.key, chunkNum |-> d, prev |-> p, range |-> F,
             rel |-> <<r>>, cum |-> x.cum]
  BY <1>10
<1> HIDE DEF x4
<1>12. x5 = [key |-> x.key, chunkNum |-> d, prev |-> p, range |-> F,
             rel |-> <<r>>, cum |-> x.cum + 1]
  BY <1>11
<1> HIDE DEF x5
<1>13. x5 = y
  BY <1>2, <1>3, <1>4, <1>5, <1>6, <1>7, <1>12 DEF F
<1> QED  BY <1>2, <1>13 DEF y, r, p, F, x1, x2, x3, x4, x5, Crossed

LEMMA SegmentEnds ==
  ASSUME NEW L \in Seq(Index), Ordered(L), NEW c, NEW m \in Nat, NEW n \in Nat, m < n, n <= Len(L),
         \A i \in 1 .. n : Layout!ChunkNum(L[i]) = c <=> m < i,
         n # Len(L) => Layout!ChunkNum(L[n + 1]) # c
  PROVE  Segment(L, c, m, n)
<1>1. /\ Len(L) \in Nat /\ n \in 1 .. Len(L) /\ n \in 1 .. n
      /\ n # Len(L) => n + 1 \in 1 .. Len(L)
      /\ m \in 0 .. Len(L) /\ n \in 0 .. Len(L)
      /\ \A i \in 1 .. Len(L) : L[i] \in Index
  BY ListType
<1>2. Layout!ChunkNum(L[n]) = c
  BY <1>1
<1>3. ASSUME NEW i \in 1 .. Len(L)
      PROVE  Layout!ChunkNum(L[i]) = c <=> m < i /\ i <= n
  <2>1. CASE i <= n
    <3>1. i \in 1 .. n
      BY <1>1, <2>1
    <3> QED  BY <2>1, <3>1
  <2>2. CASE ~(i <= n)
    <3>1. n # Len(L) /\ n < n + 1 /\ (i = n + 1 \/ n + 1 < i)
      BY <1>1, <2>2
    <3>2. n + 1 \in 1 .. Len(L) /\ Layout!ChunkNum(L[n + 1]) # c
      BY <1>1, <3>1
    <3>3. L[n] <= L[n + 1]
      BY <1>1, <3>1, <3>2 DEF Ordered
    <3>4. c <= Layout!ChunkNum(L[n + 1])
      BY <1>1, <1>2, <3>2, <3>3, ChunksOrdered
    <3>5. Layout!ChunkNum(L[n + 1]) <= Layout!ChunkNum(L[i])
      <4>1. L[n + 1] \in Index /\ L[i] \in Index
        BY <1>1, <3>2
      <4>2. Layout!ChunkNum(L[n + 1]) \in Nat
        BY <4>1, InChunk
      <4>3. CASE i = n + 1
        BY <4>2, <4>3
      <4>4. CASE n + 1 < i
        <5>1. L[n + 1] <= L[i]
          BY <3>2, <4>4 DEF Ordered
        <5> QED  BY <4>1, <5>1, ChunksOrdered
      <4> QED  BY <3>1, <4>3, <4>4
    <3>6. c \in Nat /\ Layout!ChunkNum(L[n + 1]) \in Nat /\ Layout!ChunkNum(L[i]) \in Nat
      BY <1>1, <1>2, <3>2, InChunk
    <3>7. Layout!ChunkNum(L[i]) # c
      BY <3>2, <3>4, <3>5, <3>6
    <3> QED  BY <2>2, <3>7
  <2> QED  BY <2>1, <2>2
<1> QED  BY <1>1, <1>3 DEF Segment

\* What KeyInHand gives the steps of the index loop.
LEMMA HandFacts ==
  ASSUME SealInv, wpc = "indices"
  PROVE  LET k == cur.key
             c == cur.chunkNum
             m == Len(cur.range)
             n == cur.cum
         IN  /\ Working /\ k \in DOMAIN updates \ todo /\ k \in Keys
             /\ Contents(db, k) \in Seq(Index) /\ Target \in Seq(Index) /\ Ordered(Target)
             /\ m \in Nat /\ n \in Nat /\ m <= n /\ n <= Len(Target) /\ c \in Index
             /\ Len(Contents(db, k)) <= n
             /\ cur = ChunkOf(engine, k, c, Target, m, n) /\ pending = From(Target, n)
             /\ Len(Target) \in Nat
<1>1. Working /\ KeyInHand /\ SealingTypeOK
  BY DEF SealInv, Working
<1>2. cur.key \in DOMAIN updates \ todo
  BY <1>1 DEF KeyInHand
<1>3. cur.key \in Keys /\ updates[cur.key] \in Seq(Index)
  BY <1>1, <1>2, WorkingFacts
<1>4. Holds(engine, db, cur.key, Contents(db, cur.key))
  BY <1>3 DEF SealInv
<1>5. Contents(db, cur.key) \in Seq(Index)
  BY <1>4 DEF Holds
<1>6. Target \in Seq(Index) /\ Len(Target) \in Nat
  <2>1. Target \in Seq(Index)
    BY <1>3, <1>5, ConcatProperties DEF Target
  <2> QED  BY <2>1, ListType
<1>7. cur.chunkNum \in Index /\ cur.cum \in Nat /\ cur.range \in Seq(Index)
  BY <1>1 DEF SealingTypeOK
<1>8. Len(cur.range) \in Nat
  BY <1>7, ListType
<1> QED  BY <1>1, <1>2, <1>3, <1>5, <1>6, <1>7, <1>8 DEF KeyInHand

LEMMA AppendSeal ==
  ASSUME SealInv, AppendInChunk
  PROVE  SealInv'
<1> DEFINE k == cur.key  c == cur.chunkNum  m == Len(cur.range)  n == cur.cum  e == engine
<1>1. /\ wpc = "indices" /\ pending # <<>> /\ Layout!ChunkNum(Head(pending)) = c
      /\ cur' = [cur EXCEPT !.rel = Append(@, Layout!RelIdx(Head(pending))), !.cum = @ + 1]
      /\ pending' = Tail(pending)
      /\ UNCHANGED <<engine, db, wpc, updates, todo, snap, batch, rd>>
  BY DEF AppendInChunk
<1>2. /\ Working /\ k \in DOMAIN updates \ todo /\ k \in Keys
      /\ Contents(db, k) \in Seq(Index) /\ Target \in Seq(Index) /\ Ordered(Target)
      /\ m \in Nat /\ n \in Nat /\ m <= n /\ n <= Len(Target) /\ c \in Index
      /\ Len(Contents(db, k)) <= n
      /\ cur = ChunkOf(e, k, c, Target, m, n) /\ pending = From(Target, n)
  BY <1>1, HandFacts
<1>3. /\ n + 1 \in 1 .. Len(Target) /\ n + 1 <= Len(Target) /\ Head(pending) = Target[n + 1]
      /\ pending' = From(Target, n + 1) /\ n + 1 \in Nat /\ m <= n + 1
  BY <1>1, <1>2, FromHead
<1>4. cur' = ChunkOf(e, k, c, Target, m, n + 1)
  <2>1. cur' = Grown(cur, Target[n + 1])
    BY <1>1, <1>3 DEF Grown
  <2> HIDE DEF k, c, m, n, e
  <2>2. Grown(cur, Target[n + 1]) = ChunkOf(e, k, c, Target, m, n + 1)
    BY <1>2, <1>3, GrowChunk
  <2> QED  BY <2>1, <2>2
<1>5. /\ cur'.key = k /\ cur'.chunkNum = c /\ cur'.chunkNum \in Index
      /\ cur'.prev \in Index /\ cur'.cum \in Nat /\ cur'.cum = n + 1
      /\ cur'.range \in Seq(Index) /\ Len(cur'.range) = m /\ cur'.rel \in Seq(Layout!Rel)
  <2> HIDE DEF k, c, m, n, e
  <2> QED  BY <1>2, <1>3, <1>4, HandTypes
<1>6. Target' = Target /\ View' = View
  BY <1>1, <1>5 DEF Target, View
<1>7. \A i \in 1 .. n + 1 : Layout!ChunkNum(Target[i]) = c <=> m < i
  <2>1. \A i \in 1 .. n : Layout!ChunkNum(Target[i]) = c <=> m < i
    BY <1>1 DEF SealInv, KeyInHand
  <2>2. Layout!ChunkNum(Target[n + 1]) = c /\ m < n + 1
    BY <1>1, <1>2, <1>3
  <2>3. n \in Nat
    BY <1>2
  <2> HIDE DEF k, c, m, n
  <2>4. \A i \in 1 .. n + 1 : i \in 1 .. n \/ i = n + 1
    BY <2>3
  <2> QED  BY <2>1, <2>2, <2>4
<1>8. /\ \A i \in 1 .. m : Layout!ChunkNum(Target[i]) \in ChunksOf(View, k)
      /\ \A d \in ChunksOf(View, k) \ {c} :
           \E x, y \in 0 .. m :
             /\ Segment(Target, d, x, y)
             /\ Chunk(View, k, d) = OlderValue(e, ChunkOf(e, k, d, Target, x, y))
  BY <1>1 DEF SealInv, KeyInHand
<1>9. KeyInHand'
  <2>1. m # n + 1 /\ Len(Contents(db, k)) <= n + 1
    BY <1>2, ListType
  <2>2. k \in DOMAIN updates' \ todo' /\ Contents(db', k) = Contents(db, k) /\ engine' = e
    BY <1>1, <1>2
  <2> HIDE DEF k, c, m, n, e
  <2>3. /\ Ordered(Target') /\ Len(cur'.range) <= cur'.cum
        /\ Len(Contents(db', cur'.key)) <= cur'.cum /\ cur'.cum <= Len(Target')
        /\ cur' = ChunkOf(engine', cur'.key, cur'.chunkNum, Target', Len(cur'.range), cur'.cum)
        /\ pending' = From(Target', cur'.cum) /\ Len(cur'.range) # cur'.cum
    BY <1>2, <1>3, <1>4, <1>5, <1>6, <2>1, <2>2
  <2>4. \A i \in 1 .. cur'.cum : Layout!ChunkNum(Target'[i]) = cur'.chunkNum <=> Len(cur'.range) < i
    BY <1>5, <1>6, <1>7
  <2>5. /\ \A i \in 1 .. Len(cur'.range) : Layout!ChunkNum(Target'[i]) \in ChunksOf(View', cur'.key)
        /\ \A d \in ChunksOf(View', cur'.key) \ {cur'.chunkNum} :
             \E x, y \in 0 .. Len(cur'.range) :
               /\ Segment(Target', d, x, y)
               /\ Chunk(View', cur'.key, d)
                    = OlderValue(engine', ChunkOf(engine', cur'.key, d, Target', x, y))
    BY <1>5, <1>6, <1>8, <2>2
  <2>6. cur'.key \in DOMAIN updates' \ todo'
    BY <1>5, <2>2
  <2> QED  BY <2>3, <2>4, <2>5, <2>6 DEF KeyInHand
<1>10. Stored(engine, batch')
  BY <1>1 DEF SealInv, SealingTypeOK
<1>11. \A b \in DOMAIN batch' : b[1] \in DOMAIN updates \ todo'
  BY <1>1, <1>2, WorkingFacts
<1>12. \A j \in DOMAIN updates \ todo' :
         j # cur'.key => Holds(engine, View', j, Contents(db, j) \o updates[j])
  BY <1>1, <1>2, <1>5, <1>6, WorkingFacts
<1>13. pending' \in Seq(Index)
  BY <1>2, <1>3, FromHead
<1> HIDE DEF k, c, m, n, e
<1> QED  BY <1>1, <1>2, <1>5, <1>9, <1>10, <1>11, <1>12, <1>13, HandSeal

\* The chunks of a key, after one of them is written.
LEMMA ChunksSet ==
  ASSUME NEW k, NEW c \in Index, NEW v, UNCHANGED db,
         batch' = Set(Layout!DBKey(k, c), v, batch)
  PROVE  /\ ChunksOf(View', k) = ChunksOf(View, k) \cup {c}
         /\ Chunk(View', k, c) = v
         /\ \A d \in ChunksOf(View, k) \ {c} : Chunk(View', k, d) = Chunk(View, k, d)
<1>1. batch' = Set(<<k, c>>, v, batch)
  BY LayoutKeys
<1>2. /\ DOMAIN View' = {<<k, c>>} \cup DOMAIN View
      /\ View'[<<k, c>>] = v
      /\ \A x \in DOMAIN View : x # <<k, c>> => View'[x] = View[x]
  BY <1>1, ViewSet
<1>3. ChunksOf(View', k) = ChunksOf(View, k) \cup {c}
  <2>1. \A d : d \in ChunksOf(View', k) <=> d \in Index /\ <<k, d>> \in DOMAIN View'
    BY LayoutKeys DEF ChunksOf
  <2>2. \A d : d \in ChunksOf(View, k) <=> d \in Index /\ <<k, d>> \in DOMAIN View
    BY LayoutKeys DEF ChunksOf
  <2>3. \A d : d \in ChunksOf(View', k) <=> d \in ChunksOf(View, k) \/ d = c
    BY <1>2, <2>1, <2>2
  <2> QED  BY <2>3
<1>4. Chunk(View', k, c) = v
  BY <1>2, LayoutKeys DEF Chunk
<1>5. \A d \in ChunksOf(View, k) \ {c} : Chunk(View', k, d) = Chunk(View, k, d)
  <2> TAKE d \in ChunksOf(View, k) \ {c}
  <2>1. <<k, d>> \in DOMAIN View /\ Chunk(View, k, d) = View[<<k, d>>]
    BY ChunkKeys
  <2>2. Chunk(View', k, d) = View'[<<k, d>>]
    BY LayoutKeys DEF Chunk
  <2>3. <<k, d>> # <<k, c>>
    OBVIOUS
  <2> QED  BY <1>2, <2>1, <2>2, <2>3
<1> QED  BY <1>3, <1>4, <1>5

\* A step that writes a chunk of the key in hand leaves the other keys alone.
LEMMA OthersHold ==
  ASSUME SealInv, wpc = "indices", NEW v,
         batch' = Set(Layout!DBKey(cur.key, cur.chunkNum), v, batch),
         UNCHANGED <<engine, db, updates, todo>>
  PROVE  /\ \A b \in DOMAIN batch' : b[1] \in DOMAIN updates \ todo
         /\ \A j \in DOMAIN updates \ todo :
              j # cur.key => Holds(engine, View', j, Contents(db, j) \o updates[j])
<1> DEFINE k == cur.key  c == cur.chunkNum
<1>1. Working /\ k \in DOMAIN updates \ todo
  BY HandFacts
<1>2. batch' = Set(<<k, c>>, v, batch)
  BY LayoutKeys
<1>3. DOMAIN batch' = {<<k, c>>} \cup DOMAIN batch
  BY <1>2 DEF Set, Layout!Overlay
<1>4. \A b \in DOMAIN batch : b[1] \in DOMAIN updates \ todo
  BY <1>1, WorkingFacts
<1>5. <<k, c>>[1] = k
  OBVIOUS
<1>6. ASSUME NEW j \in DOMAIN updates \ todo, j # k
      PROVE  Holds(engine, View', j, Contents(db, j) \o updates[j])
  <2>1. Holds(engine, View, j, Contents(db, j) \o updates[j])
    BY <1>1, <1>6, WorkingFacts
  <2> HIDE DEF k, c
  <2> QED  BY <1>2, <1>6, <2>1, ViewOthers
<1> HIDE DEF c
<1> QED  BY <1>1, <1>3, <1>4, <1>5, <1>6

\* What is written of the chunk in hand is in the format of the store.
LEMMA HandStored ==
  ASSUME SealInv, wpc = "indices", NEW v, v \in {OlderValue(engine, cur), LatestValue(engine, cur)}
  PROVE  Stored(engine, Set(Layout!DBKey(cur.key, cur.chunkNum), v, batch))
<1>1. SealingTypeOK /\ cur.key \in Keys /\ cur.chunkNum \in Index
  BY HandFacts DEF SealInv
<1>2. /\ cur.prev \in Index /\ cur.cum \in Nat /\ cur.range \in Seq(Index)
      /\ cur.rel \in Seq(Layout!Rel) /\ Stored(engine, batch)
  BY <1>1 DEF SealingTypeOK
<1>3. ValueOK(engine, v)
  BY <1>2, ValuesOK
<1>4. Stored(engine, Set(<<cur.key, cur.chunkNum>>, v, batch))
  BY <1>1, <1>2, <1>3, SetStored
<1> QED  BY <1>4, LayoutKeys

LEMMA CrossSeal ==
  ASSUME SealInv, SealAndCross
  PROVE  SealInv'
<1> DEFINE k == cur.key  c == cur.chunkNum  m == Len(cur.range)  n == cur.cum  e == engine
           d == Layout!ChunkNum(Head(pending))
<1>1. /\ wpc = "indices" /\ pending # <<>> /\ d # c
      /\ batch' = Set(Layout!DBKey(k, c), OlderValue(e, cur), batch)
      /\ pending' = Tail(pending)
      /\ UNCHANGED <<engine, db, wpc, updates, todo, snap, rd>>
  BY DEF SealAndCross
<1>2. /\ Working /\ k \in DOMAIN updates \ todo /\ k \in Keys
      /\ Contents(db, k) \in Seq(Index) /\ Target \in Seq(Index) /\ Ordered(Target)
      /\ m \in Nat /\ n \in Nat /\ m <= n /\ n <= Len(Target) /\ c \in Index
      /\ Len(Contents(db, k)) <= n
      /\ cur = ChunkOf(e, k, c, Target, m, n) /\ pending = From(Target, n)
  BY <1>1, HandFacts
<1>3. /\ n + 1 \in 1 .. Len(Target) /\ n + 1 <= Len(Target) /\ Head(pending) = Target[n + 1]
      /\ pending' = From(Target, n + 1) /\ n + 1 \in Nat /\ n <= n + 1
  <2> HIDE DEF k, c, m, n, e, d
  <2> QED  BY <1>1, <1>2, FromHead
<1>4. m < n
  <2>1. m = n => c = d
    BY <1>1 DEF SealInv, KeyInHand
  <2> QED  BY <1>1, <1>2, <2>1
<1>5. \A i \in 1 .. n : Layout!ChunkNum(Target[i]) = c <=> m < i
  BY <1>1 DEF SealInv, KeyInHand
<1>6. d = Layout!ChunkNum(Target[n + 1]) /\ d \in Index
  <2>1. Target[n + 1] \in Index
    BY <1>2, <1>3, ListType
  <2> QED  BY <1>3, <2>1, InChunk
<1>7. Segment(Target, c, m, n)
  <2> HIDE DEF k, c, m, n, e, d
  <2> QED  BY <1>1, <1>2, <1>4, <1>5, <1>6, SegmentEnds
<1>8. cur' = ChunkOf(e, k, d, Target, n, n + 1)
  <2>1. \A i \in m + 1 .. n : Layout!ChunkNum(Target[i]) = c
    BY <1>2, <1>7, SegmentFacts
  <2>2. Crossed(cur, d, Target[n + 1]) = ChunkOf(e, k, d, Target, n, n + 1)
    <3> HIDE DEF k, c, m, n, d
    <3> QED  BY <1>2, <1>3, <1>4, <2>1, CrossChunk
  <2>3. cur' = Crossed(cur, d, Target[n + 1])
    BY <1>3 DEF SealAndCross, Crossed
  <2> QED  BY <2>2, <2>3
<1>9. /\ cur'.key = k /\ cur'.chunkNum = d /\ cur'.chunkNum \in Index
      /\ cur'.prev \in Index /\ cur'.cum \in Nat /\ cur'.cum = n + 1
      /\ cur'.range \in Seq(Index) /\ Len(cur'.range) = n /\ cur'.rel \in Seq(Layout!Rel)
  <2> HIDE DEF k, c, m, n, e, d
  <2> QED  BY <1>2, <1>3, <1>6, <1>8, HandTypes
<1>10. Target' = Target
  BY <1>1, <1>9 DEF Target
<1>11. \A i \in 1 .. n + 1 : Layout!ChunkNum(Target[i]) = d <=> n < i
  <2>1. \A i \in 1 .. n : Layout!ChunkNum(Target[i]) <= c /\ i \in 1 .. Len(Target)
    <3> HIDE DEF k, c, m, n, e, d
    <3> TAKE i \in 1 .. n
    <3>1. i \in 1 .. Len(Target) /\ i <= n
      BY <1>2, <1>3
    <3> QED  BY <1>2, <1>7, <3>1, SegmentOrder
  <2>2. c < d
    <3>1. n < n + 1
      BY <1>2
    <3> HIDE DEF k, c, m, n, e, d
    <3> QED  BY <1>2, <1>3, <1>6, <1>7, <3>1, SegmentOrder
  <2>3. n \in Nat /\ c \in Nat /\ d \in Nat
    BY <1>2, <1>6, IndexType
  <2>4. \A i \in 1 .. n : Layout!ChunkNum(Target[i]) \in Nat
    <3> TAKE i \in 1 .. n
    <3>1. Target[i] \in Index
      BY <1>2, <2>1, ListType
    <3> QED  BY <3>1, InChunk
  <2> HIDE DEF k, c, m, n, e, d
  <2> TAKE i \in 1 .. n + 1
  <2>5. i \in 1 .. n \/ i = n + 1
    BY <2>3
  <2>6. ASSUME i \in 1 .. n PROVE Layout!ChunkNum(Target[i]) # d /\ ~(n < i)
    <3>1. Layout!ChunkNum(Target[i]) <= c /\ Layout!ChunkNum(Target[i]) \in Nat
      BY <2>1, <2>4, <2>6
    <3> QED  BY <2>2, <2>3, <2>6, <3>1
  <2>7. n < n + 1
    BY <2>3
  <2> QED  BY <1>6, <2>5, <2>6, <2>7
<1>12. /\ ChunksOf(View', k) = ChunksOf(View, k) \cup {c}
       /\ Chunk(View', k, c) = OlderValue(e, cur)
       /\ \A x \in ChunksOf(View, k) \ {c} : Chunk(View', k, x) = Chunk(View, k, x)
  <2> HIDE DEF k, c, m, n, e, d
  <2> QED  BY <1>1, <1>2, ChunksSet
<1>13. \A i \in 1 .. n : Layout!ChunkNum(Target[i]) \in ChunksOf(View', k)
  <2>1. \A i \in 1 .. m : Layout!ChunkNum(Target[i]) \in ChunksOf(View, k)
    BY <1>1 DEF SealInv, KeyInHand
  <2>2. m \in Nat /\ n \in Nat
    BY <1>2
  <2> HIDE DEF k, c, m, n, e, d
  <2> TAKE i \in 1 .. n
  <2>3. i \in 1 .. m \/ m < i
    BY <2>2
  <2> QED  BY <1>5, <1>12, <2>1, <2>3
<1>14. ASSUME NEW o \in ChunksOf(View', k) \ {d}
       PROVE  \E x, y \in 0 .. n :
                /\ Segment(Target, o, x, y)
                /\ Chunk(View', k, o) = OlderValue(e, ChunkOf(e, k, o, Target, x, y))
  <2>1. m \in 0 .. n /\ n \in 0 .. n /\ \A x \in 0 .. m : x \in 0 .. n
    <3>1. m \in Nat /\ n \in Nat /\ m < n
      BY <1>2, <1>4
    <3> HIDE DEF k, c, m, n, e, d
    <3> QED  BY <3>1
  <2>2. CASE o = c
    BY <1>2, <1>7, <1>12, <2>1, <2>2
  <2>3. CASE o # c
    <3>1. o \in ChunksOf(View, k) \ {c}
      BY <1>12, <1>14, <2>3
    <3>2. \E x, y \in 0 .. m :
            /\ Segment(Target, o, x, y)
            /\ Chunk(View, k, o) = OlderValue(e, ChunkOf(e, k, o, Target, x, y))
      BY <1>1, <3>1 DEF SealInv, KeyInHand
    <3> HIDE DEF k, c, m, n, e, d
    <3> QED  BY <1>12, <2>1, <3>1, <3>2
  <2> QED  BY <2>2, <2>3
<1>15. KeyInHand'
  <2>1. n # n + 1 /\ Len(Contents(db, k)) <= n + 1
    BY <1>2, ListType
  <2>2. k \in DOMAIN updates' \ todo' /\ Contents(db', k) = Contents(db, k) /\ engine' = e
    BY <1>1, <1>2
  <2> HIDE DEF k, c, m, n, e, d
  <2> QED  BY <1>2, <1>3, <1>8, <1>9, <1>10, <1>11, <1>13, <1>14, <2>1, <2>2 DEF KeyInHand
<1>16. Stored(engine, batch')
  BY <1>1, HandStored
<1>17. /\ \A b \in DOMAIN batch' : b[1] \in DOMAIN updates \ todo'
       /\ \A j \in DOMAIN updates \ todo' :
            j # cur'.key => Holds(engine, View', j, Contents(db, j) \o updates[j])
  BY <1>1, <1>9, OthersHold
<1>18. pending' \in Seq(Index)
  BY <1>2, <1>3, FromHead
<1> HIDE DEF k, c, m, n, e, d
<1> QED  BY <1>1, <1>2, <1>9, <1>15, <1>16, <1>17, <1>18, HandSeal

LEMMA FlushSeal ==
  ASSUME SealInv, FlushKey
  PROVE  SealInv'
<1> DEFINE k == cur.key  c == cur.chunkNum  m == Len(cur.range)  n == cur.cum  e == engine
           V == View'
<1>1. /\ wpc = "indices" /\ pending = <<>> /\ wpc' = "keys" /\ cur' = NoCur
      /\ batch' = Set(Layout!DBKey(k, c), LatestValue(e, cur), batch)
      /\ UNCHANGED <<engine, db, updates, todo, snap, pending, rd>>
  BY DEF FlushKey
<1>2. /\ Working /\ k \in DOMAIN updates \ todo /\ k \in Keys
      /\ Contents(db, k) \in Seq(Index) /\ Target \in Seq(Index) /\ Ordered(Target)
      /\ m \in Nat /\ n \in Nat /\ m <= n /\ n <= Len(Target) /\ c \in Index
      /\ Len(Contents(db, k)) <= n
      /\ cur = ChunkOf(e, k, c, Target, m, n) /\ pending = From(Target, n)
  BY <1>1, HandFacts
<1>3. n = Len(Target)
  BY <1>1, <1>2, FromHead
<1>4. m < n
  <2>1. m # n
    BY <1>1 DEF SealInv, KeyInHand
  <2> QED  BY <1>2, <2>1
<1>5. \A i \in 1 .. n : Layout!ChunkNum(Target[i]) = c <=> m < i
  BY <1>1 DEF SealInv, KeyInHand
<1>6. Segment(Target, c, m, n)
  <2> HIDE DEF k, c, m, n, e
  <2> QED  BY <1>2, <1>3, <1>4, <1>5, SegmentEnds
<1>7. /\ ChunksOf(V, k) = ChunksOf(View, k) \cup {c}
      /\ Chunk(V, k, c) = LatestValue(e, cur)
      /\ \A x \in ChunksOf(View, k) \ {c} : Chunk(V, k, x) = Chunk(View, k, x)
  <2> HIDE DEF k, c, m, n, e
  <2> QED  BY <1>1, <1>2, ChunksSet
<1>8. \A i \in 1 .. Len(Target) : Layout!ChunkNum(Target[i]) \in ChunksOf(V, k)
  <2>1. \A i \in 1 .. m : Layout!ChunkNum(Target[i]) \in ChunksOf(View, k)
    BY <1>1 DEF SealInv, KeyInHand
  <2>2. m \in Nat /\ n \in Nat
    BY <1>2
  <2> HIDE DEF k, c, m, n, e, V
  <2> TAKE i \in 1 .. Len(Target)
  <2>3. i \in 1 .. n /\ (i \in 1 .. m \/ m < i)
    BY <1>3, <2>2
  <2> QED  BY <1>5, <1>7, <2>1, <2>3
<1>9. ASSUME NEW o \in ChunksOf(V, k)
      PROVE  IsChunk(e, k, o, Target, Chunk(V, k, o))
  <2>1. m \in 0 .. Len(Target) /\ n \in 0 .. Len(Target)
        /\ \A x \in 0 .. m : x \in 0 .. Len(Target) /\ x # Len(Target)
    <3>1. m \in Nat /\ n \in Nat /\ m < n
      BY <1>2, <1>4
    <3> HIDE DEF k, c, m, n, e
    <3> QED  BY <1>3, <3>1
  <2>2. CASE o = c
    <3> HIDE DEF k, c, m, n, e, V
    <3>1. Segment(Target, o, m, n) /\ Chunk(V, k, o) = LatestValue(e, ChunkOf(e, k, o, Target, m, n))
      BY <1>2, <1>6, <1>7, <2>2
    <3> QED  BY <1>3, <2>1, <3>1 DEF IsChunk
  <2>3. CASE o # c
    <3>1. o \in ChunksOf(View, k) \ {c}
      BY <1>7, <1>9, <2>3
    <3>2. \E x, y \in 0 .. m :
            /\ Segment(Target, o, x, y)
            /\ Chunk(View, k, o) = OlderValue(e, ChunkOf(e, k, o, Target, x, y))
      BY <1>1, <3>1 DEF SealInv, KeyInHand
    <3> HIDE DEF k, c, m, n, e, V
    <3>3. PICK x, y \in 0 .. m :
            /\ Segment(Target, o, x, y)
            /\ Chunk(View, k, o) = OlderValue(e, ChunkOf(e, k, o, Target, x, y))
      BY <3>2
    <3>4. /\ x \in 0 .. Len(Target) /\ y \in 0 .. Len(Target) /\ y # Len(Target)
          /\ Chunk(V, k, o) = OlderValue(e, ChunkOf(e, k, o, Target, x, y))
      BY <1>7, <2>1, <3>1, <3>3
    <3> QED  BY <3>3, <3>4 DEF IsChunk
  <2> QED  BY <2>2, <2>3
<1>10. Holds(e, V, k, Target)
  <2> HIDE DEF k, c, m, n, e, V
  <2> QED  BY <1>2, <1>8, <1>9 DEF Holds
<1>11. Stored(engine, batch')
  BY <1>1, HandStored
<1>12. /\ \A b \in DOMAIN batch' : b[1] \in DOMAIN updates \ todo
       /\ \A j \in DOMAIN updates \ todo :
            j # k => Holds(engine, View', j, Contents(db, j) \o updates[j])
  BY <1>1, OthersHold
<1>13. KeysFollow'
  <2>1. updates \in Updates /\ New(updates) /\ snap = db
    BY <1>2, WorkingFacts
  <2>2. New(updates)' /\ Working'
    BY <1>1, <2>1 DEF New, Working
  <2>3. \A j \in DOMAIN updates \ todo : Holds(engine, View', j, Contents(db, j) \o updates[j])
    BY <1>10, <1>12 DEF Target
  <2>4. \A j \in DOMAIN updates' \ todo' :
          Holds(engine', View', j, Contents(db', j) \o updates'[j])
    BY <1>1, <2>3
  <2>5. \A b \in DOMAIN batch' : b[1] \in DOMAIN updates' \ todo'
    BY <1>1, <1>12
  <2> QED  BY <1>1, <2>1, <2>2, <2>4, <2>5 DEF KeysFollow
<1>14. SealingTypeOK'
  <2>1. SealingTypeOK /\ <<>> \in Seq(Index) /\ <<>> \in Seq(Layout!Rel) /\ 0 \in Index
    BY EmptySeq, IndexType DEF SealInv
  <2> QED  BY <1>1, <1>11, <2>1 DEF SealingTypeOK, NoCur
<1>15. DOMAIN rd' = Readers /\ \A j \in Keys : Holds(engine', db', j, Contents(db', j))
  BY <1>1 DEF SealInv
<1> QED  BY <1>1, <1>13, <1>14, <1>15 DEF SealInv

\* At the commit every key gets the list it was sent on top of its log.
LEMMA CommitFacts ==
  ASSUME SealInv, Commit
  PROVE  /\ Stored(engine, db')
         /\ \A k \in Keys : /\ Contents(db', k) = IF k \in DOMAIN updates
                                                   THEN Contents(db, k) \o updates[k]
                                                   ELSE Contents(db, k)
                            /\ Holds(engine, db', k, Contents(db', k))
<1>1. /\ wpc = "keys" /\ todo = {} /\ db' = Layout!Overlay(batch, db)
      /\ UNCHANGED <<engine, updates, rd>>
  BY DEF Commit
<1>2. Working /\ SealingTypeOK
  BY <1>1 DEF Working, SealInv
<1>3. Stored(engine, batch) /\ Stored(engine, db)
  BY <1>2 DEF SealingTypeOK
<1>4. Stored(engine, db') /\ InSpace(db')
  BY <1>1, <1>3, OverlayStored, StoredSpace
<1>5. db' = View
  BY <1>1 DEF View
<1>6. ASSUME NEW k \in Keys
      PROVE  /\ Contents(db', k) = IF k \in DOMAIN updates
                                   THEN Contents(db, k) \o updates[k] ELSE Contents(db, k)
             /\ Holds(engine, db', k, Contents(db', k))
  <2> DEFINE L == IF k \in DOMAIN updates THEN Contents(db, k) \o updates[k] ELSE Contents(db, k)
  <2>1. Holds(engine, View, k, L)
    <3>1. CASE k \in DOMAIN updates
      <4>1. Holds(engine, View, k, Contents(db, k) \o updates[k])
        BY <1>1, <1>2, <3>1, WorkingFacts
      <4> QED  BY <3>1, <4>1
    <3>2. CASE k \notin DOMAIN updates
      <4>1. Holds(engine, View, k, Contents(db, k))
        BY <1>2, <3>2, UnreachedKey
      <4> QED  BY <3>2, <4>1
    <3> QED  BY <3>1, <3>2
  <2> HIDE DEF L
  <2>2. Holds(engine, db', k, L)
    BY <1>5, <2>1
  <2>3. Contents(db', k) = L
    BY <1>4, <2>2, HoldsContents
  <2> QED  BY <2>2, <2>3 DEF L
<1> QED  BY <1>4, <1>6

LEMMA CommitSeal ==
  ASSUME SealInv, Commit
  PROVE  SealInv'
<1>1. Release /\ UNCHANGED <<engine, updates, rd>> /\ wpc' = "ack"
  BY DEF Commit
<1>2. DOMAIN rd' = Readers /\ \A r \in Readers : InCall(rd'[r])
  BY <1>1, ReadersStay
<1>3. Stored(engine, db') /\ \A k \in Keys : Holds(engine, db', k, Contents(db', k))
  BY CommitFacts
<1> QED  BY <1>1, <1>2, <1>3, EndSeal

LEMMA WriterSeal ==
  ASSUME SealInv, WriterStep
  PROVE  SealInv'
<1>1. ASSUME NEW k \in todo, SkipKey(k) PROVE SealInv'
  BY <1>1, SkipKeySeal
<1>2. ASSUME NEW k \in todo, RejectKey(k) PROVE SealInv'
  <2>1. Release /\ UNCHANGED <<engine, db, updates, rd>> /\ wpc' = "failed"
    BY <1>2 DEF RejectKey
  <2> QED  BY <2>1, GiveUpSeal
<1>3. ASSUME NEW k \in todo, LoadKey(k) PROVE SealInv'
  BY <1>3, LoadKeySeal
<1>4. ASSUME StorageError PROVE SealInv'
  <2>1. Release /\ UNCHANGED <<engine, db, updates, rd>> /\ wpc' = "failed"
    BY <1>4 DEF StorageError
  <2> QED  BY <2>1, GiveUpSeal
<1> QED  BY <1>1, <1>2, <1>3, <1>4, AppendSeal, CrossSeal, FlushSeal, CommitSeal,
            WriteReturnSeal DEF WriterStep, WriterProgress

-----------------------------------------------------------------------------
(* The readers leave the database and the writer alone.                      *)

LEMMA BecomesSeal ==
  ASSUME SealInv, NEW r \in Readers, NEW q, InCall(q), Becomes(r, q)
  PROVE  SealInv'
<1>1. /\ UNCHANGED <<engine, db, wpc, updates, todo, snap, pending, cur, batch>>
      /\ rd' = [rd EXCEPT ![r] = q]
  BY DEF Becomes, writer
<1>2. SealingTypeOK /\ DOMAIN rd = Readers
  BY DEF SealInv
<1>3. DOMAIN rd' = Readers /\ \A p \in Readers : InCall(rd'[p])
  <2>1. \A p \in Readers : InCall(rd[p])
    BY <1>2 DEF SealingTypeOK
  <2> QED  BY <1>1, <1>2, <2>1
<1>4. SealingTypeOK'
  BY <1>1, <1>2, <1>3 DEF SealingTypeOK
<1>5. View' = View /\ Target' = Target /\ (Working' <=> Working)
  BY <1>1 DEF View, Target, Working
<1>6. KeysFollow'
  <2>1. KeysFollow /\ (New(updates)' <=> New(updates))
    BY <1>1 DEF SealInv, New
  <2> QED  BY <1>1, <1>5, <2>1 DEF KeysFollow
<1>7. wpc' = "indices" => KeyInHand'
  <2>1. wpc = "indices" => KeyInHand
    BY DEF SealInv
  <2> QED  BY <1>1, <1>5, <2>1 DEF KeyInHand
<1>8. \A k \in Keys : Holds(engine', db', k, Contents(db', k))
  BY <1>1 DEF SealInv
<1> QED  BY <1>3, <1>4, <1>6, <1>7, <1>8 DEF SealInv

LEMMA AnswerInCall ==
  \A ok, val : InCall(Answer(ok, val))
BY DEF Answer, InCall

LEMMA LookupLinkedSeal ==
  ASSUME SealInv, NEW r \in Readers, NEW k, NEW start, LookupLinked(r, k, start)
  PROVE  SealInv'
<1> DEFINE a == Layout!ReverseSeekLatest(db, k)
           w == [pc |-> "walk", key |-> k, start |-> start,
                 latestKey |-> a, latestVal |-> db[a],
                 prev |-> db[a].prev, cum |-> db[a].cum, relLen |-> Len(db[a].rel),
                 reconstructed |-> Layout!AbsSeq(Layout!ChunkAt(a), db[a].rel)]
<1>1. PICK q : Becomes(r, q) /\ (q = w \/ \E ok, val : q = Answer(ok, val))
  BY DEF LookupLinked
<1>2. InCall(w)
  BY DEF InCall
<1> HIDE DEF w
<1>3. InCall(q)
  BY <1>1, <1>2, AnswerInCall
<1> QED  BY <1>1, <1>3, BecomesSeal

LEMMA LookupScanSeal ==
  ASSUME SealInv, NEW r \in Readers, NEW k, NEW start, LookupScan(r, k, start)
  PROVE  SealInv'
<1> DEFINE w == [pc |-> "scan", key |-> k, start |-> start, snap |-> db,
                 pos |-> Layout!SeekStart(db, k, Layout!ChunkNum(start)),
                 cum |-> 0, foundLatest |-> FALSE, reconstructed |-> <<>>]
<1>1. Becomes(r, w)
  BY DEF LookupScan
<1>2. InCall(w)
  BY DEF InCall
<1> HIDE DEF w
<1> QED  BY <1>1, <1>2, BecomesSeal

LEMMA GetSubRootSeal ==
  ASSUME SealInv, NEW r \in Readers, NEW k, GetSubRoot(r, k)
  PROVE  SealInv'
<1>1. PICK q : Becomes(r, q) /\ \E ok, val : q = Answer(ok, val)
  BY DEF GetSubRoot
<1>2. InCall(q)
  BY <1>1, AnswerInCall
<1> QED  BY <1>1, <1>2, BecomesSeal

LEMMA ReaderStepSeal ==
  ASSUME SealInv, NEW r \in Readers, ReaderStep(r)
  PROVE  SealInv'
<1>1. InCall(rd[r])
  BY DEF SealInv, SealingTypeOK
<1>2. CASE GetPrevChunk(r)
  <2> DEFINE q == rd[r]  a == Layout!DBKey(q.key, q.prev)
             w == [q EXCEPT !.prev = db[a].prev, !.cum = db[a].cum, !.relLen = Len(db[a].rel),
                            !.reconstructed = Layout!AbsSeq(q.prev, db[a].rel) \o @]
  <2>1. PICK p : Becomes(r, p) /\ (p = w \/ \E ok, val : p = Answer(ok, val))
    BY <1>2 DEF GetPrevChunk
  <2>2. InCall(w)
    <3> DEFINE x == Layout!AbsSeq(q.prev, db[a].rel) \o q.reconstructed
    <3>1. w = [q EXCEPT !.prev = db[a].prev, !.cum = db[a].cum, !.relLen = Len(db[a].rel),
                        !.reconstructed = x]
      OBVIOUS
    <3> HIDE DEF x, w
    <3>2. DOMAIN w = DOMAIN q /\ w["pc"] = q["pc"]
      BY <1>1, <3>1 DEF InCall
    <3> QED  BY <1>1, <3>2 DEF InCall
  <2> HIDE DEF w
  <2>3. InCall(p)
    BY <2>1, <2>2, AnswerInCall
  <2> QED  BY <2>1, <2>3, BecomesSeal
<1>3. CASE FinishWalk(r)
  <2>1. PICK p : Becomes(r, p) /\ \E ok, val : p = Answer(ok, val)
    BY <1>3 DEF FinishWalk
  <2>2. InCall(p)
    BY <2>1, AnswerInCall
  <2> QED  BY <2>1, <2>2, BecomesSeal
<1>4. CASE VisitChunk(r)
  <2> DEFINE q == rd[r]  v == q.snap[q.pos]
             x1 == IF IsLatestValue(v) THEN v.cum ELSE q.cum
             x2 == q.foundLatest \/ IsLatestValue(v)
             x3 == q.reconstructed \o Layout!AbsSeq(Layout!ChunkAt(q.pos), v.rel)
             x4 == Layout!Advance(q.snap, q.key, q.pos)
             w == [q EXCEPT !.cum = x1, !.foundLatest = x2, !.reconstructed = x3, !.pos = x4]
  <2>1. Becomes(r, w)
    BY <1>4 DEF VisitChunk
  <2> HIDE DEF x1, x2, x3, x4
  <2>2. DOMAIN w = DOMAIN q /\ w["pc"] = q["pc"]
    BY <1>1 DEF InCall
  <2>3. InCall(w)
    BY <1>1, <2>2 DEF InCall
  <2> HIDE DEF w
  <2> QED  BY <2>1, <2>3, BecomesSeal
<1>5. CASE FinishScan(r)
  <2>1. PICK p : Becomes(r, p) /\ \E ok, val : p = Answer(ok, val)
    BY <1>5 DEF FinishScan
  <2>2. InCall(p)
    BY <2>1, AnswerInCall
  <2> QED  BY <2>1, <2>2, BecomesSeal
<1>6. CASE ReadReturn(r)
  <2>1. InCall(NoRead)
    BY DEF InCall, NoRead
  <2> QED  BY <1>6, <2>1, BecomesSeal DEF ReadReturn
<1> QED  BY <1>2, <1>3, <1>4, <1>5, <1>6 DEF ReaderStep

LEMMA StutterSeal ==
  ASSUME SealInv, UNCHANGED vars
  PROVE  SealInv'
<1>1. UNCHANGED <<engine, db, wpc, updates, todo, snap, pending, cur, batch, rd>>
  BY DEF vars, writer
<1>2. /\ View' = View /\ Target' = Target /\ (Working' <=> Working)
      /\ (New(updates)' <=> New(updates))
  BY <1>1 DEF View, Target, Working, New
<1>3. SealingTypeOK'
  BY <1>1 DEF SealInv, SealingTypeOK
<1>4. KeysFollow'
  <2>1. KeysFollow
    BY DEF SealInv
  <2> QED  BY <1>1, <1>2, <2>1 DEF KeysFollow
<1>5. wpc' = "indices" => KeyInHand'
  <2>1. wpc = "indices" => KeyInHand
    BY DEF SealInv
  <2> QED  BY <1>1, <1>2, <2>1 DEF KeyInHand
<1>6. DOMAIN rd' = Readers /\ \A k \in Keys : Holds(engine', db', k, Contents(db', k))
  BY <1>1 DEF SealInv
<1> QED  BY <1>3, <1>4, <1>5, <1>6 DEF SealInv

LEMMA NextSeal ==
  ASSUME SealInv, [Next]_vars
  PROVE  SealInv'
<1>1. ASSUME NEW u \in Updates, WriteBatch(u) PROVE SealInv'
  BY <1>1, WriteBatchSeal
<1>2. ASSUME WriterStep PROVE SealInv'
  BY <1>2, WriterSeal
<1>3. ASSUME NEW r \in Readers, NEW k \in Keys, GetSubRoot(r, k) PROVE SealInv'
  BY <1>3, GetSubRootSeal
<1>4. ASSUME NEW r \in Readers, NEW k \in Keys, NEW start \in Index, LookupLinked(r, k, start)
      PROVE  SealInv'
  BY <1>4, LookupLinkedSeal
<1>5. ASSUME NEW r \in Readers, NEW k \in Keys, NEW start \in Index, LookupScan(r, k, start)
      PROVE  SealInv'
  BY <1>5, LookupScanSeal
<1>6. ASSUME NEW r \in Readers, ReaderStep(r) PROVE SealInv'
  BY <1>6, ReaderStepSeal
<1>7. ASSUME Crash PROVE SealInv'
  BY <1>7, CrashSeal
<1> QED  BY <1>1, <1>2, <1>3, <1>4, <1>5, <1>6, <1>7, StutterSeal DEF Next

\* The database, the batch under construction and the chunk in hand are always
\* chunks of the keys' index lists; the type invariant of the run is part of that.
THEOREM SealingTypesCorrect == Spec => []SealingTypeOK
<1>1. Init => SealInv
  BY InitSeal
<1>2. SealInv /\ [Next]_vars => SealInv'
  BY NextSeal
<1>3. SealInv => SealingTypeOK
  BY DEF SealInv
<1> QED  BY <1>1, <1>2, <1>3, PTL DEF Spec

-----------------------------------------------------------------------------
(* SealedOnce.                                                               *)

\* What a longer list makes of a chunk: it begins where it began, and goes on only if
\* the shorter list ended in it.
LEMMA SegmentPrefix ==
  ASSUME NEW L \in Seq(Index), NEW M \in Seq(Index), NEW c, NEW m, NEW n, NEW x, NEW y,
         Ordered(L \o M), Segment(L, c, m, n), Segment(L \o M, c, x, y)
  PROVE  x = m /\ n <= y /\ (n # Len(L) => y = n /\ n # Len(L \o M))
<1> DEFINE N == L \o M
<1>1. /\ N \in Seq(Index) /\ Len(N) = Len(L) + Len(M)
      /\ \A i \in 1 .. Len(L) + Len(M) : N[i] = IF i <= Len(L) THEN L[i] ELSE M[i - Len(L)]
  BY ConcatProperties
<1>2. Len(L) \in Nat /\ Len(M) \in Nat
  BY ListType
<1>3. \A i \in 1 .. Len(L) : N[i] = L[i] /\ i \in 1 .. Len(N)
  BY <1>1, <1>2
<1>4. CASE n # Len(L)
  <2>1. Segment(N, c, m, n) /\ n # Len(N)
    BY <1>4, SegmentGrows
  <2>2. n \in Nat
    BY SegmentFacts
  <2> HIDE DEF N
  <2>3. Segment(N, c, x, y)
    BY DEF N
  <2>4. x = m /\ y = n
    BY <1>1, <2>1, <2>3, SegmentUnique
  <2> QED  BY <2>1, <2>2, <2>4 DEF N
<1>5. CASE n = Len(L)
  <2> HIDE DEF N
  <2>1. /\ m \in Nat /\ n \in Nat /\ m < n /\ n \in 1 .. Len(L) /\ m + 1 \in 1 .. Len(L)
        /\ \A i \in 1 .. Len(L) : Layout!ChunkNum(L[i]) = c <=> m < i /\ i <= n
    BY <1>2, SegmentFacts DEF Segment
  <2>2. /\ x \in Nat /\ y \in Nat /\ x < y
        /\ \A i \in 1 .. Len(N) : Layout!ChunkNum(N[i]) = c <=> x < i /\ i <= y
    BY <1>1, SegmentFacts DEF Segment, N
  <2>3. \A i \in 1 .. Len(L) : m < i /\ i <= n <=> x < i /\ i <= y
    BY <1>3, <2>1, <2>2
  <2>4. x < n /\ n <= y /\ x < m + 1
    BY <2>1, <2>3
  <2>5. x + 1 \in 1 .. Len(L)
    BY <1>2, <2>1, <2>2, <2>4
  <2>6. m < x + 1
    BY <2>2, <2>3, <2>5
  <2> QED  BY <1>5, <2>1, <2>2, <2>4, <2>6
<1> QED  BY <1>4, <1>5

LEMMA OffsetsPrefix ==
  ASSUME NEW e, NEW k, NEW c, NEW L \in Seq(Index), NEW N \in Seq(Index),
         \A i \in 1 .. Len(L) : N[i] = L[i], NEW m \in Nat, NEW n \in Nat, NEW y \in Nat,
         m <= n, n <= Len(L), n <= y, y <= Len(N)
  PROVE  Begins(ChunkOf(e, k, c, L, m, n).rel, ChunkOf(e, k, c, N, m, y).rel)
<1> DEFINE old == ChunkOf(e, k, c, L, m, n).rel  new == ChunkOf(e, k, c, N, m, y).rel
           h == SubSeq(new, 1, n - m)
<1>1. Len(L) \in Nat /\ Len(N) \in Nat
  BY ListType
<1>4. old \in Seq(Layout!Rel) /\ Len(old) = n - m
  <2>1. old \in Seq(Layout!Rel)
    BY ChunkOffsets
  <2> DEFINE o == n - m
  <2>2. o = n - m
    OBVIOUS
  <2> HIDE DEF o
  <2>3. Len(old) = o
    BY <2>2, ChunkLength
  <2> QED  BY <2>1, <2>2, <2>3
<1>5. \A j \in 1 .. n - m : old[j] = Layout!RelIdx(L[m + j])
  BY DEF ChunkOf
<1>6. m <= y /\ y <= Len(N)
  OBVIOUS
<1>7. new \in Seq(Layout!Rel) /\ Len(new) = y - m
  <2>1. m <= y /\ y <= Len(N)
    BY <1>6
  <2>2. new \in Seq(Layout!Rel)
    BY <2>1, ChunkOffsets
  <2> DEFINE o == y - m
  <2>3. o = y - m
    OBVIOUS
  <2> HIDE DEF o
  <2>4. Len(new) = o
    BY <2>1, <2>3, ChunkLength
  <2> QED  BY <2>2, <2>3, <2>4
<1>8. \A j \in 1 .. y - m : new[j] = Layout!RelIdx(N[m + j])
  BY DEF ChunkOf
<1> HIDE DEF old, new
<1>9. \A j \in 1 .. n - m : j \in 1 .. y - m /\ m + j \in 1 .. Len(L)
  BY <1>1
<1>10. \A j \in 1 .. n - m : new[j] = old[j] /\ new[j] \in Layout!Rel
  <2> TAKE j \in 1 .. n - m
  <2>1. new[j] = old[j]
    BY <1>5, <1>8, <1>9
  <2>2. j \in 1 .. Len(new)
    BY <1>7, <1>9
  <2>3. new[j] \in Layout!Rel
    BY <1>7, <2>2, ElementOfSeq
  <2> QED  BY <2>1, <2>3
<1>11. n - m \in Nat /\ n - m \in Int /\ 1 \in Int
  OBVIOUS
<1>12. /\ h \in Seq(Layout!Rel)
       /\ Len(h) = IF 1 <= n - m THEN (n - m) - 1 + 1 ELSE 0
       /\ \A i \in 1 .. (n - m) - 1 + 1 : h[i] = new[1 + i - 1]
  BY <1>10, <1>11, SubSeqProperties
<1> HIDE DEF h
<1>13. Len(h) = Len(old)
  BY <1>4, <1>11, <1>12
<1>14. \A i \in 1 .. Len(h) : h[i] = old[i]
  <2> TAKE i \in 1 .. Len(h)
  <2>1. i \in 1 .. n - m /\ i \in 1 .. (n - m) - 1 + 1 /\ 1 + i - 1 = i
    BY <1>4, <1>11, <1>13
  <2> QED  BY <1>10, <1>12, <2>1
<1>15. h = old
  BY <1>4, <1>12, <1>13, <1>14, SeqEqual
<1>16. Len(old) <= Len(new)
  BY <1>4, <1>7
<1> QED  BY <1>4, <1>15, <1>16 DEF h, old, new, Begins

\* A chunk before and after its key's list has grown.
LEMMA ChunkKept ==
  ASSUME NEW e, NEW k, NEW c, NEW L \in Seq(Index), NEW M \in Seq(Index), Ordered(L \o M),
         NEW v, NEW w, IsChunk(e, k, c, L, v), IsChunk(e, k, c, L \o M, w)
  PROVE  /\ ~IsLatestValue(v) => w = v
         /\ Begins(v.rel, w.rel)
<1> DEFINE N == L \o M
<1>1. PICK m, n \in 0 .. Len(L) :
        /\ Segment(L, c, m, n)
        /\ v = IF n = Len(L) THEN LatestValue(e, ChunkOf(e, k, c, L, m, n))
                             ELSE OlderValue(e, ChunkOf(e, k, c, L, m, n))
  BY DEF IsChunk
<1>2. PICK x, y \in 0 .. Len(N) :
        /\ Segment(N, c, x, y)
        /\ w = IF y = Len(N) THEN LatestValue(e, ChunkOf(e, k, c, N, x, y))
                             ELSE OlderValue(e, ChunkOf(e, k, c, N, x, y))
  BY DEF IsChunk
<1>3. x = m /\ n <= y /\ (n # Len(L) => y = n /\ n # Len(N))
  BY <1>1, <1>2, SegmentPrefix
<1>4. m \in Nat /\ n \in Nat /\ m <= n /\ n <= Len(L)
  BY <1>1, SegmentFacts
<1>5. N \in Seq(Index)
  BY ConcatProperties
<1>6. y \in Nat /\ y <= Len(N)
  <2> HIDE DEF N
  <2> QED  BY <1>2, <1>5, SegmentFacts
<1> DEFINE X == ChunkOf(e, k, c, L, m, n)  Y == ChunkOf(e, k, c, N, m, y)
<1>7. Begins(X.rel, Y.rel)
  <2>1. /\ Len(N) = Len(L) + Len(M)
        /\ \A i \in 1 .. Len(L) + Len(M) : N[i] = IF i <= Len(L) THEN L[i] ELSE M[i - Len(L)]
    BY ConcatProperties
  <2>2. Len(L) \in Nat /\ Len(M) \in Nat
    BY ListType
  <2> HIDE DEF N
  <2>3. \A i \in 1 .. Len(L) : N[i] = L[i]
    BY <2>1, <2>2
  <2> QED  BY <1>3, <1>4, <1>5, <1>6, <2>3, OffsetsPrefix
<1>8. ChunkOf(e, k, c, N, m, n) = X
  BY <1>4, ChunkOfPrefix
<1>9. n # Len(L) => Y = X
  BY <1>3, <1>8
<1>10. v = IF n = Len(L) THEN LatestValue(e, X) ELSE OlderValue(e, X)
  BY <1>1
<1>11. w = IF y = Len(N) THEN LatestValue(e, Y) ELSE OlderValue(e, Y)
  BY <1>2, <1>3
<1> HIDE DEF X, Y, N
<1>12. v.rel = X.rel /\ w.rel = Y.rel
  BY <1>10, <1>11, ValueFields
<1>13. IsLatestValue(LatestValue(e, X))
  BY ValueFields
<1>14. ~IsLatestValue(v) => n # Len(L)
  BY <1>10, <1>13
<1>15. ~IsLatestValue(v) => w = v
  BY <1>3, <1>9, <1>10, <1>11, <1>14
<1> QED  BY <1>7, <1>12, <1>15

LEMMA SealedCommit ==
  ASSUME SealInv, Commit
  PROVE  \A a \in DOMAIN db :
           /\ a \in DOMAIN db'
           /\ ~IsLatestValue(db[a]) => db'[a] = db[a]
           /\ Begins(db[a].rel, db'[a].rel)
<1>1. Stored(engine, db) /\ InSpace(db) /\ db' = Layout!Overlay(batch, db) /\ Working
  BY StoredSpace DEF SealInv, SealingTypeOK, Commit, Working
<1>2. DOMAIN db' = DOMAIN batch \cup DOMAIN db
  BY <1>1 DEF Layout!Overlay
<1> TAKE a \in DOMAIN db
<1> DEFINE k == a[1]  c == a[2]  L == Contents(db, k)
           M == IF k \in DOMAIN updates THEN updates[k] ELSE <<>>
<1>3. a = <<k, c>> /\ k \in Keys /\ c \in Index /\ c \in ChunksOf(db, k)
  BY <1>1, SpaceFacts
<1>4. Holds(engine, db, k, L) /\ L \in Seq(Index)
  BY <1>3 DEF SealInv, Holds
<1>5. M \in Seq(Index)
  BY <1>1, EmptySeq, WorkingFacts
<1>6. Contents(db', k) = L \o M
  <2>1. Contents(db', k) = IF k \in DOMAIN updates THEN L \o updates[k] ELSE L
    BY <1>3, CommitFacts
  <2>2. L \o <<>> = L
    BY <1>4, ConcatEmptySeq
  <2> HIDE DEF L, k
  <2> QED  BY <2>1, <2>2
<1>7. Holds(engine, db', k, L \o M)
  BY <1>3, <1>6, CommitFacts
<1> HIDE DEF k, c, L, M
<1>8. Ordered(L \o M)
  BY <1>7 DEF Holds
<1>9. IsChunk(engine, k, c, L, db[a]) /\ Chunk(db, k, c) = db[a]
  <2>1. Chunk(db, k, c) = db[a]
    BY <1>3, ChunkKeys
  <2> QED  BY <1>3, <1>4, <2>1 DEF Holds
<1>10. c \in ChunksOf(db', k) /\ Chunk(db', k, c) = db'[a]
  BY <1>2, <1>3, LayoutKeys DEF ChunksOf, Chunk
<1>11. IsChunk(engine, k, c, L \o M, db'[a])
  BY <1>7, <1>10 DEF Holds
<1> QED  BY <1>2, <1>4, <1>5, <1>8, <1>9, <1>11, ChunkKept

LEMMA OnlyCommitWrites ==
  ASSUME [Next]_vars
  PROVE  Commit \/ UNCHANGED <<engine, db>>
BY DEF Next, WriterStep, WriterProgress, ReaderStep, WriteBatch, SkipKey, RejectKey, LoadKey,
       AppendInChunk, SealAndCross, FlushKey, WriteReturn, StorageError, GetSubRoot,
       LookupLinked, LookupScan, GetPrevChunk, FinishWalk, VisitChunk, FinishScan, ReadReturn,
       Becomes, Crash, vars

\* A sealed chunk is never written differently again, and the latest one only grows
\* at its end: no reader that follows links in the live database can miss a chunk.
THEOREM SealedOnceHolds == Spec => SealedOnce
<1>1. Init => SealInv
  BY InitSeal
<1>2. SealInv /\ [Next]_vars => SealInv'
  BY NextSeal
<1>3. SealInv /\ [Next]_vars =>
        [\A a \in DOMAIN db :
           /\ a \in DOMAIN db'
           /\ ~IsLatestValue(db[a]) => db'[a] = db[a]
           /\ Begins(db[a].rel, db'[a].rel)]_vars
  <2> SUFFICES ASSUME SealInv, [Next]_vars
               PROVE  \A a \in DOMAIN db :
                        /\ a \in DOMAIN db'
                        /\ ~IsLatestValue(db[a]) => db'[a] = db[a]
                        /\ Begins(db[a].rel, db'[a].rel)
    OBVIOUS
  <2>1. CASE Commit
    BY <2>1, SealedCommit
  <2>2. CASE UNCHANGED <<engine, db>>
    <3> TAKE a \in DOMAIN db
    <3>1. db[a].rel \in Seq(Layout!Rel)
      BY DEF SealInv, SealingTypeOK, Stored, ValueOK
    <3>2. Begins(db[a].rel, db[a].rel)
      BY <3>1, SubSeqFull, LenProperties DEF Begins
    <3> QED  BY <2>2, <3>2
  <2> QED  BY <2>1, <2>2, OnlyCommitWrites
<1> QED  BY <1>1, <1>2, <1>3, PTL DEF Spec, SealedOnce

-----------------------------------------------------------------------------
(* Logs without repeated indices.                                            *)

\* The list a key is sent is in order if the log with it on top is.
LEMMA SuffixSorted ==
  ASSUME NEW L \in Seq(Index), NEW M \in Seq(Index), Ordered(L \o M)
  PROVE  Sorted(M)
<1> DEFINE N == L \o M
<1>1. /\ Len(N) = Len(L) + Len(M)
      /\ \A i \in 1 .. Len(L) + Len(M) : N[i] = IF i <= Len(L) THEN L[i] ELSE M[i - Len(L)]
  BY ConcatProperties
<1>2. Len(L) \in Nat /\ Len(M) \in Nat /\ \A i \in 1 .. Len(M) : M[i] \in Nat
  BY ListType
<1> HIDE DEF N
<1>3. ASSUME NEW i \in 2 .. Len(M) PROVE ~(M[i] < M[i - 1])
  <2> DEFINE j == Len(L) + i  h == Len(L) + (i - 1)
  <2>1. /\ j \in 1 .. Len(N) /\ h \in 1 .. Len(N) /\ h < j
        /\ ~(j <= Len(L)) /\ ~(h <= Len(L)) /\ j - Len(L) = i /\ h - Len(L) = i - 1
        /\ i \in 1 .. Len(M) /\ i - 1 \in 1 .. Len(M)
    BY <1>1, <1>2
  <2> HIDE DEF j, h
  <2>2. N[j] = M[i] /\ N[h] = M[i - 1]
    BY <1>1, <2>1
  <2>3. N[h] <= N[j]
    BY <2>1 DEF Ordered, N
  <2> QED  BY <1>2, <2>1, <2>2, <2>3
<1> QED  BY <1>3 DEF Sorted

LEMMA RisesConcat ==
  ASSUME NEW L \in Seq(Index), NEW M \in Seq(Index), Rises(L), Rises(M),
         \A i \in IndicesOf(M) : \A j \in IndicesOf(L) : j < i
  PROVE  Rises(L \o M)
<1> DEFINE N == L \o M
<1>1. /\ N \in Seq(Index) /\ Len(N) = Len(L) + Len(M)
      /\ \A i \in 1 .. Len(L) + Len(M) : N[i] = IF i <= Len(L) THEN L[i] ELSE M[i - Len(L)]
  BY ConcatProperties
<1>2. Len(L) \in Nat /\ Len(M) \in Nat
  BY ListType
<1> HIDE DEF N
<1>3. ASSUME NEW i \in 1 .. Len(N), NEW j \in 1 .. Len(N), i < j PROVE N[i] < N[j]
  <2>1. i \in Nat /\ j \in Nat
    OBVIOUS
  <2>2. CASE j <= Len(L)
    <3>1. i \in 1 .. Len(L) /\ j \in 1 .. Len(L) /\ N[i] = L[i] /\ N[j] = L[j]
      BY <1>1, <1>2, <1>3, <2>1, <2>2
    <3> QED  BY <1>3, <3>1 DEF Rises
  <2>3. CASE i <= Len(L) /\ ~(j <= Len(L))
    <3>1. /\ i \in 1 .. Len(L) /\ j - Len(L) \in 1 .. Len(M)
          /\ N[i] = L[i] /\ N[j] = M[j - Len(L)]
      BY <1>1, <1>2, <2>1, <2>3
    <3>2. L[i] \in IndicesOf(L) /\ M[j - Len(L)] \in IndicesOf(M)
      BY <3>1 DEF IndicesOf
    <3> QED  BY <3>1, <3>2
  <2>4. CASE ~(i <= Len(L))
    <3>1. /\ i - Len(L) \in 1 .. Len(M) /\ j - Len(L) \in 1 .. Len(M)
          /\ i - Len(L) < j - Len(L)
          /\ N[i] = M[i - Len(L)] /\ N[j] = M[j - Len(L)]
      BY <1>1, <1>2, <1>3, <2>1, <2>4
    <3> QED  BY <3>1 DEF Rises
  <2> QED  BY <2>2, <2>3, <2>4
<1> QED  BY <1>3 DEF Rises, N

\* The i-th match is at least i - 1.
LEMMA RisesHigh ==
  ASSUME NEW L \in Seq(Index), Rises(L)
  PROVE  \A i \in 1 .. Len(L) : i - 1 <= L[i]
<1> DEFINE low == {i \in 1 .. Len(L) : ~(i - 1 <= L[i])}
<1>1. Len(L) \in Nat /\ \A i \in 1 .. Len(L) : L[i] \in Nat
  BY ListType
<1>2. low = {}
  <2> SUFFICES ASSUME low # {} PROVE FALSE
    OBVIOUS
  <2>1. low \in SUBSET Nat
    BY <1>1
  <2>2. PICK x \in low : \A y \in low : x <= y
    <3> HIDE DEF low
    <3> QED  BY <2>1, NatLeast
  <2>3. x \in 1 .. Len(L) /\ ~(x - 1 <= L[x])
    BY <2>2
  <2>4. x # 1
    BY <1>1, <2>3
  <2>5. x - 1 \in 1 .. Len(L) /\ x - 1 < x /\ x \in Nat
    BY <1>1, <2>3, <2>4
  <2>6. L[x - 1] < L[x] /\ L[x - 1] \in Nat /\ L[x] \in Nat
    BY <1>1, <2>3, <2>5 DEF Rises
  <2>7. x - 1 \notin low
    BY <2>2, <2>5
  <2>8. (x - 1) - 1 <= L[x - 1]
    BY <2>5, <2>7
  <2> QED  BY <2>3, <2>5, <2>6, <2>8
<1> QED  BY <1>2

\* The lists of a commit are in order.
LEMMA CommitSorted ==
  ASSUME SealInv, Commit
  PROVE  \A k \in DOMAIN updates : Sorted(updates[k])
<1> TAKE k \in DOMAIN updates
<1>1. Working /\ wpc = "keys" /\ todo = {}
  BY DEF Commit, Working
<1>2. Holds(engine, View, k, Contents(db, k) \o updates[k])
  BY <1>1, WorkingFacts
<1>3. k \in Keys /\ updates[k] \in Seq(Index)
  BY <1>1, WorkingFacts
<1>4. Holds(engine, db, k, Contents(db, k))
  BY <1>3 DEF SealInv
<1>5. Contents(db, k) \in Seq(Index) /\ Ordered(Contents(db, k) \o updates[k])
  BY <1>2, <1>4 DEF Holds
<1> QED  BY <1>3, <1>5, SuffixSorted

LEMMA OnceStep ==
  ASSUME NoRepeats, SealInv, OnceOnly, [Next]_vars
  PROVE  OnceOnly'
<1>1. CASE UNCHANGED <<engine, db>>
  BY <1>1 DEF OnceOnly
<1>2. CASE Commit
  <2>1. Working
    BY <1>2 DEF Commit, Working
  <2>2. updates \in Updates /\ New(updates)
    BY <2>1, WorkingFacts
  <2>3. ASSUME NEW k \in Keys PROVE Rises(Contents(db', k))
    <3>1. Contents(db', k) = IF k \in DOMAIN updates
                             THEN Contents(db, k) \o updates[k] ELSE Contents(db, k)
      BY <1>2, CommitFacts
    <3>2. Rises(Contents(db, k))
      BY DEF OnceOnly
    <3>3. CASE k \in DOMAIN updates
      <4>1. Rises(updates[k])
        BY <1>2, <2>2, <3>3, CommitSorted DEF NoRepeats
      <4>2. updates[k] \in Seq(Index)
        BY <2>1, <3>3, WorkingFacts
      <4>3. Contents(db, k) \in Seq(Index)
        BY DEF SealInv, Holds
      <4>4. \A i \in IndicesOf(updates[k]) : \A j \in IndicesOf(Contents(db, k)) : j < i
        BY <2>2, <3>3 DEF New
      <4>5. Rises(Contents(db, k) \o updates[k])
        BY <3>2, <4>1, <4>2, <4>3, <4>4, RisesConcat
      <4> QED  BY <3>1, <3>3, <4>5
    <3>4. CASE k \notin DOMAIN updates
      BY <3>1, <3>2, <3>4
    <3> QED  BY <3>3, <3>4
  <2> QED  BY <2>3 DEF OnceOnly
<1> QED  BY <1>1, <1>2, OnlyCommitWrites

LEMMA InitOnce ==
  ASSUME Init
  PROVE  OnceOnly
<1> SUFFICES ASSUME NEW k \in Keys PROVE Rises(Contents(db, k))
  BY DEF OnceOnly
<1>1. InSpace(db) /\ DOMAIN db = {}
  BY NoWritesFacts DEF Init
<1>2. ChunksOf(db, k) = {}
  BY <1>1 DEF ChunksOf
<1>3. Layout!ReverseSeekLatest(db, k) = Layout!Invalid
  BY <1>1, <1>2, LatestFinds
<1>4. Contents(db, k) = <<>>
  BY <1>3 DEF Contents
<1>5. Len(<<>>) = 0
  BY EmptySeq
<1> QED  BY <1>4, <1>5 DEF Rises

-----------------------------------------------------------------------------
(* Lookup in SealingChunkStore.                                              *)

\* The part a list begins with.
LEMMA PartStart ==
  ASSUME NEW L \in Seq(Index), NEW n \in Nat, n <= Len(L)
  PROVE  /\ Part(L, 0, n) \in Seq(Index) /\ Len(Part(L, 0, n)) = n
         /\ \A i \in 1 .. n : Part(L, 0, n)[i] = L[i]
<1> DEFINE p == Part(L, 0, n)
<1>1. 0 \in Nat /\ 0 <= n
  OBVIOUS
<1>2. p \in Seq(Index) /\ Len(p) = n - 0 /\ \A i \in 1 .. n - 0 : p[i] = L[0 + i]
  BY <1>1, PartFacts
<1> HIDE DEF p
<1>3. \A i \in 1 .. n : i \in 1 .. n - 0 /\ 0 + i = i
  OBVIOUS
<1>4. p \in Seq(Index) /\ Len(p) = n /\ \A i \in 1 .. n : p[i] = L[i]
  BY <1>2, <1>3
<1> QED  BY <1>4 DEF p

LEMMA PrefixKept ==
  ASSUME NEW L \in Seq(Index), NEW M \in Seq(Index), NEW n \in Nat, n <= Len(L)
  PROVE  /\ Len(L) <= Len(L \o M)
         /\ SubSeq(L \o M, 1, n) = SubSeq(L, 1, n)
<1> DEFINE N == L \o M
<1>1. N \in Seq(Index) /\ Len(N) = Len(L) + Len(M) /\ Len(L) \in Nat /\ Len(M) \in Nat
  BY ConcatProperties, LenProperties
<1>2. \A i \in 1 .. n : N[i] = L[i]
  BY <1>1, ConcatProperties
<1> HIDE DEF N
<1>3. n <= Len(N) /\ Len(L) <= Len(N)
  BY <1>1
<1>4. Part(L, 0, n) \in Seq(Index) /\ Len(Part(L, 0, n)) = n
      /\ \A i \in 1 .. n : Part(L, 0, n)[i] = L[i]
  BY PartStart
<1>5. Part(N, 0, n) \in Seq(Index) /\ Len(Part(N, 0, n)) = n
      /\ \A i \in 1 .. n : Part(N, 0, n)[i] = N[i]
  BY <1>1, <1>3, PartStart
<1>6. Part(N, 0, n) = Part(L, 0, n)
  BY <1>2, <1>4, <1>5, ListEqual
<1>7. 0 + 1 = 1
  OBVIOUS
<1>8. SubSeq(N, 1, n) = SubSeq(L, 1, n)
  BY <1>6, <1>7 DEF Part
<1> QED  BY <1>3, <1>8 DEF N

\* A list and a longer one that begins with it.
LEMMA PrefixItems ==
  ASSUME NEW L \in Seq(Index), NEW N \in Seq(Index), Len(L) <= Len(N), L = SubSeq(N, 1, Len(L))
  PROVE  \A i \in 1 .. Len(L) : N[i] = L[i] /\ i \in 1 .. Len(N)
<1>1. Len(L) \in Nat /\ Len(N) \in Nat /\ 0 + 1 = 1
  BY LenProperties
<1>2. \A i \in 1 .. Len(L) : Part(N, 0, Len(L))[i] = N[i]
  BY <1>1, PartStart
<1>3. Part(N, 0, Len(L)) = L
  BY <1>1 DEF Part
<1> QED  BY <1>1, <1>2, <1>3

\* What a reader in state q has answered or will answer, as in answer.
Told(q) ==
  CASE q.pc = "idle" -> <<>>
    [] q.pc = "done" -> [ok |-> q.ok, val |-> q.val]
    [] q.pc = "walk" ->
         [ok |-> TRUE, val |-> From(Folded(Layout!ChunkAt(q.latestKey), q.latestVal), q.start)]
    [] q.pc = "scan" ->
         [ok |-> TRUE, val |-> From(Contents(q.snap, q.key), q.start)]

LEMMA ToldFacts ==
  /\ Told(NoRead) = <<>>
  /\ \A ok, val : Told(Answer(ok, val)) = [ok |-> ok, val |-> val]
  /\ \A q : q.pc = "walk" =>
       Told(q) = [ok  |-> TRUE,
                  val |-> From(Folded(Layout!ChunkAt(q.latestKey), q.latestVal), q.start)]
  /\ \A q : q.pc = "scan" =>
       Told(q) = [ok |-> TRUE, val |-> From(Contents(q.snap, q.key), q.start)]
BY DEF Told, NoRead, Answer

LEMMA LookupLinkedFollows ==
  ASSUME SealInv, NEW r \in Readers, NEW k \in Keys, NEW start \in Index,
         LookupLinked(r, k, start)
  PROVE  /\ ReaderFollows(rd'[r])
         /\ Told(rd'[r]) = [ok |-> TRUE, val |-> From(Contents(db, k), start)]
<1> DEFINE L == Contents(db, k)
           a == Layout!ReverseSeekLatest(db, k)
<1>1. Holds(engine, db, k, L) /\ InSpace(db) /\ DOMAIN rd = Readers
  BY StoredSpace DEF SealInv, SealingTypeOK
<1>2. L \in Seq(Index) /\ Ordered(L)
  BY <1>1 DEF Holds
<1>3. Linked /\ engine = "sealing_chunk"
  BY DEF LookupLinked, Linked
<1> HIDE DEF L
<1>4. CASE L = <<>>
  <2>1. a = Layout!Invalid
    BY <1>1, <1>4, HoldsContents
  <2>2. rd'[r] = Answer(TRUE, <<>>)
    BY <1>1, <2>1 DEF LookupLinked, Becomes
  <2>3. <<>> \in Seq(Index)
    BY EmptySeq
  <2>4. From(L, start) = <<>>
    <3>1. Len(L) = 0 /\ 0 \in Nat /\ start \in Nat /\ Len(L) <= start /\ 0 <= Len(L)
      BY <1>4, EmptySeq, IndexType
    <3> QED  BY <1>2, <3>1, FromPart
  <2>5. Told(rd'[r]) = [ok |-> TRUE, val |-> From(L, start)]
    BY <2>2, <2>4, ToldFacts
  <2> QED  BY <2>2, <2>3, <2>5 DEF Answer, ReaderFollows, L
<1>5. CASE L # <<>>
  <2> DEFINE c == Layout!ChunkNum(L[Len(L)])
             n == Len(L)
  <2>1. a = <<k, c>> /\ <<k, c>> # Layout!Invalid
    <3>1. a = <<k, c>>
      BY <1>1, <1>5, HoldsContents
    <3> QED  BY <3>1, LayoutKeys
  <2>2. \E m \in 0 .. Len(L) :
          /\ Segment(L, c, m, Len(L))
          /\ db[<<k, c>>] = LatestValue(engine, ChunkOf(engine, k, c, L, m, Len(L)))
    BY <1>1, <1>5, HoldsContents
  <2>3. PICK m \in 0 .. n :
          /\ Segment(L, c, m, n)
          /\ db[a] = LatestValue(engine, ChunkOf(engine, k, c, L, m, n))
    BY <2>1, <2>2
  <2> HIDE DEF c, n, a
  <2> DEFINE x == ChunkOf(engine, k, c, L, m, n)
  <2>4. m \in Nat /\ n \in Nat /\ m < n /\ m <= n /\ n <= Len(L)
        /\ (\A i \in m + 1 .. n : Layout!ChunkNum(L[i]) = c)
        /\ (m > 0 => m \in 1 .. Len(L) /\ Layout!ChunkNum(L[m]) # c)
    BY <1>2, <2>3, SegmentFacts
  <2>5. x.range = Part(L, 0, m) /\ x.cum = n
        /\ x.prev = IF m > 0 THEN Layout!ChunkNum(L[m]) ELSE 0
    BY <1>3, ChunkFields
  <2>6. Len(x.rel) = n - m
    BY <1>2, <2>4, ChunkOffsets
  <2>7. Layout!AbsSeq(c, x.rel) = Part(L, m, n) /\ Folded(c, x) = Part(L, 0, n)
    BY <1>2, <2>4, ChunkIndices
  <2> HIDE DEF x
  <2>8. /\ IsLatestValue(db[a]) /\ db[a].prev = x.prev /\ db[a].cum = n
        /\ db[a].range = x.range /\ db[a].rel = x.rel
    BY <1>3, <2>3, <2>5, ValueFields DEF x
  <2>9. Layout!ChunkAt(a) = c /\ a # Layout!Invalid
    BY <2>1, LayoutKeys
  <2>10. Folded(Layout!ChunkAt(a), db[a]) = L
    <3>1. Part(L, 0, n) = L
      BY <1>2, PartWhole DEF n
    <3> QED  BY <2>7, <2>8, <2>9, <3>1 DEF Folded
  <2> DEFINE q == [pc |-> "walk", key |-> k, start |-> start,
                   latestKey |-> a, latestVal |-> db[a],
                   prev |-> db[a].prev, cum |-> db[a].cum, relLen |-> Len(db[a].rel),
                   reconstructed |-> Layout!AbsSeq(Layout!ChunkAt(a), db[a].rel)]
  <2>11. rd'[r] = q
    BY <1>1, <2>8, <2>9 DEF LookupLinked, Becomes, a
  <2>12. /\ IsWalk(q) /\ q.pc = "walk" /\ q.key = k /\ q.start = start /\ q.latestKey = a /\ q.latestVal = db[a]
         /\ q.prev = x.prev /\ q.cum = n /\ q.relLen = n - m
         /\ q.reconstructed = Part(L, m, n)
    BY <2>6, <2>7, <2>8, <2>9 DEF IsWalk
  <2> HIDE DEF q
  <2>13. q.cum - q.relLen = m /\ q.relLen \in Nat \ {0} /\ q.relLen <= q.cum
    BY <2>4, <2>12
  <2>14. From(L, m) = Part(L, m, n)
    BY <1>2, <2>4, FromPart DEF n
  <2>15. L = SubSeq(L, 1, Len(L)) /\ Len(L) <= Len(L)
    <3>1. Part(L, 0, Len(L)) = L
      BY <1>2, PartWhole
    <3> QED  BY <3>1, <2>4 DEF Part, n
  <2>16. m > 0 => /\ q.prev = Layout!ChunkNum(L[m])
                  /\ q.prev # Layout!ChunkNum(L[m + 1])
    <3>1. m + 1 \in m + 1 .. n
      BY <2>4
    <3>2. Layout!ChunkNum(L[m + 1]) = c
      BY <2>4, <3>1
    <3> QED  BY <2>4, <2>5, <2>12, <3>2
  <2>17. Folded(Layout!ChunkAt(q.latestKey), q.latestVal) = L /\ Contents(db, q.key) = L
    BY <2>10, <2>12 DEF L
  <2>18. m < Len(L)
    BY <2>4 DEF n
  <2>19. WalkFollows(q)
    BY <1>2, <2>4, <2>12, <2>13, <2>14, <2>15, <2>16, <2>17, <2>18 DEF WalkFollows
  <2>20. Told(q) = [ok |-> TRUE, val |-> From(L, start)]
    BY <2>12, <2>17, ToldFacts
  <2> QED  BY <1>3, <2>11, <2>19, <2>20 DEF ReaderFollows, L
<1> QED  BY <1>4, <1>5

\* The oldest matches a walk has read are at place m + 1 of the log; it is not there yet.
LEMMA WalkFacts ==
  ASSUME NEW q, WalkFollows(q)
  PROVE  LET all == Folded(Layout!ChunkAt(q.latestKey), q.latestVal)
             m   == q.cum - q.relLen
         IN  /\ q.pc = "walk" /\ q.key \in Keys /\ q.start \in Nat
             /\ all \in Seq(Index) /\ Len(all) \in Nat
             /\ m \in Nat /\ m < Len(all) /\ m <= Len(all)
             /\ q.reconstructed = From(all, m)
             /\ StartsEarlier(q) <=> m > q.start
             /\ ~(q.cum < q.relLen)
             /\ q.cum \in Nat /\ m < q.cum
<1> DEFINE all == Folded(Layout!ChunkAt(q.latestKey), q.latestVal)
           m   == q.cum - q.relLen
<1>1. /\ q.pc = "walk" /\ q.key \in Keys /\ q.start \in Index
      /\ all \in Seq(Index) /\ q.reconstructed = From(all, m)
      /\ q.cum \in Nat /\ q.relLen \in Nat \ {0} /\ q.relLen <= q.cum /\ m < Len(all)
  BY DEF WalkFollows, IsWalk
<1>2. q.start \in Nat
  BY <1>1, IndexType
<1>3. Len(all) \in Nat
  BY <1>1, LenProperties
<1>4. m \in Nat /\ ~(q.cum < q.relLen) /\ m < q.cum
  BY <1>1
<1>5. StartsEarlier(q) <=> m > q.start
  BY <1>4 DEF StartsEarlier
<1> HIDE DEF all, m
<1>6. m <= Len(all)
  BY <1>1, <1>3, <1>4
<1> QED  BY <1>1, <1>2, <1>3, <1>4, <1>5, <1>6 DEF all, m

\* The walk has the answer when it ends.
LEMMA FinishWalkFinds ==
  ASSUME NEW q, WalkFollows(q), ~StartsEarlier(q)
  PROVE  LET all == Folded(Layout!ChunkAt(q.latestKey), q.latestVal)
         IN  /\ ~(q.cum < q.relLen \/ q.start < q.cum - q.relLen)
             /\ From(q.reconstructed, q.start - (q.cum - q.relLen)) = From(all, q.start)
             /\ From(all, q.start) \in Seq(Index)
<1> DEFINE all == Folded(Layout!ChunkAt(q.latestKey), q.latestVal)
           m   == q.cum - q.relLen
           n   == q.start - m
<1>1. /\ q.start \in Nat /\ all \in Seq(Index) /\ Len(all) \in Nat
      /\ m \in Nat /\ m <= Len(all) /\ q.reconstructed = From(all, m) /\ ~(m > q.start)
      /\ ~(q.cum < q.relLen)
  BY WalkFacts
<1>2. ~(q.cum < q.relLen \/ q.start < m)
  BY <1>1
<1> HIDE DEF all, m
<1>3. n \in Nat /\ m + n = q.start
  BY <1>1
<1> HIDE DEF n
<1>4. From(From(all, m), n) = From(all, q.start)
  BY <1>1, <1>3, FromPart
<1>5. From(all, q.start) \in Seq(Index)
  <2>1. CASE q.start <= Len(all)
    <3>1. Len(all) <= Len(all)
      BY <1>1
    <3>2. Part(all, q.start, Len(all)) \in Seq(Index)
      BY <1>1, <2>1, <3>1, PartFacts
    <3> QED  BY <1>1, <2>1, <3>2, FromPart
  <2>2. CASE Len(all) <= q.start
    BY <1>1, <2>2, FromPart, EmptySeq
  <2> QED  BY <1>1, <2>1, <2>2
<1> QED  BY <1>1, <1>2, <1>4, <1>5 DEF all, m, n

\* What a round of the loop makes of a walk.
Walked(q, prev, cum, relLen, found) ==
  [q EXCEPT !.prev = prev, !.cum = cum, !.relLen = relLen, !.reconstructed = found \o @]

LEMMA WalkedFields ==
  ASSUME NEW q, IsWalk(q), NEW p, NEW c, NEW n, NEW found
  PROVE  /\ IsWalk(Walked(q, p, c, n, found))
         /\ Walked(q, p, c, n, found).key = q.key
         /\ Walked(q, p, c, n, found).start = q.start
         /\ Walked(q, p, c, n, found).latestKey = q.latestKey
         /\ Walked(q, p, c, n, found).latestVal = q.latestVal
         /\ Walked(q, p, c, n, found).prev = p
         /\ Walked(q, p, c, n, found).cum = c
         /\ Walked(q, p, c, n, found).relLen = n
         /\ Walked(q, p, c, n, found).reconstructed = found \o q.reconstructed
<1> DEFINE q1 == [q EXCEPT !.prev = p]
           q2 == [q1 EXCEPT !.cum = c]
           q3 == [q2 EXCEPT !.relLen = n]
           more == found \o q3.reconstructed
           q4 == [q3 EXCEPT !.reconstructed = more]
<1>1. q1 = [pc |-> "walk", key |-> q.key, start |-> q.start, latestKey |-> q.latestKey,
            latestVal |-> q.latestVal, prev |-> p, cum |-> q.cum, relLen |-> q.relLen,
            reconstructed |-> q.reconstructed]
  BY DEF IsWalk
<1> HIDE DEF q1
<1>2. q2 = [pc |-> "walk", key |-> q.key, start |-> q.start, latestKey |-> q.latestKey,
            latestVal |-> q.latestVal, prev |-> p, cum |-> c, relLen |-> q.relLen,
            reconstructed |-> q.reconstructed]
  BY <1>1
<1> HIDE DEF q2
<1>3. q3 = [pc |-> "walk", key |-> q.key, start |-> q.start, latestKey |-> q.latestKey,
            latestVal |-> q.latestVal, prev |-> p, cum |-> c, relLen |-> n,
            reconstructed |-> q.reconstructed]
  BY <1>2
<1> HIDE DEF q3
<1> HIDE DEF more
<1>4. q3.reconstructed = q.reconstructed
  BY <1>3
<1>5. q4 = [pc |-> "walk", key |-> q.key, start |-> q.start, latestKey |-> q.latestKey,
            latestVal |-> q.latestVal, prev |-> p, cum |-> c, relLen |-> n,
            reconstructed |-> more]
  BY <1>3
<1> HIDE DEF q4
<1>6. more = found \o q.reconstructed
  BY <1>4 DEF more
<1>7. Walked(q, p, c, n, found) = q4
  BY DEF Walked, q1, q2, q3, q4, more
<1>8. /\ IsWalk(q4) /\ q4.key = q.key /\ q4.start = q.start /\ q4.latestKey = q.latestKey
      /\ q4.latestVal = q.latestVal /\ q4.prev = p /\ q4.cum = c /\ q4.relLen = n
      /\ q4.reconstructed = more
  BY <1>5 DEF IsWalk
<1> QED  BY <1>6, <1>7, <1>8

\* A round of the loop finds the chunk linked to, sealed, in the live database: its
\* matches are those before the ones read so far.  Its count is smaller, and so is the
\* number of the chunk it links to, if it links to one.
LEMMA WalkOn ==
  ASSUME SealInv, Linked, NEW q, WalkFollows(q), StartsEarlier(q)
  PROVE  LET a == Layout!DBKey(q.key, q.prev)
             z == [q EXCEPT !.prev = db[a].prev, !.cum = db[a].cum,
                            !.relLen = Len(db[a].rel),
                            !.reconstructed = Layout!AbsSeq(q.prev, db[a].rel) \o @]
         IN  /\ a \in DOMAIN db /\ ~IsLatestValue(db[a])
             /\ WalkFollows(z) /\ Told(z) = Told(q)
             /\ z.start < z.cum /\ z.cum < q.cum
             /\ z.relLen < z.cum => z.prev < q.prev
<1> DEFINE all == Folded(Layout!ChunkAt(q.latestKey), q.latestVal)
           now == Contents(db, q.key)
           m   == q.cum - q.relLen
           p   == q.prev
           k   == q.key
           a   == Layout!DBKey(k, p)
<1>1. /\ k \in Keys /\ q.start \in Nat /\ all \in Seq(Index) /\ Len(all) \in Nat
      /\ m \in Nat /\ m < Len(all) /\ m <= Len(all) /\ q.reconstructed = From(all, m)
      /\ m > q.start /\ m < q.cum
  BY WalkFacts
<1>2. /\ Len(all) <= Len(now) /\ all = SubSeq(now, 1, Len(all))
      /\ q.start \in Index /\ q.pc = "walk"
      /\ IsWalk(q)
  BY DEF WalkFollows, IsWalk
<1>3. m > 0 => p = Layout!ChunkNum(all[m]) /\ p # Layout!ChunkNum(all[m + 1])
  BY DEF WalkFollows
<1>4. Holds(engine, db, k, now) /\ InSpace(db) /\ engine = "sealing_chunk"
  BY <1>1, StoredSpace DEF SealInv, SealingTypeOK, Linked
<1> HIDE DEF all, now, m, p, k
<1>5. now \in Seq(Index) /\ Ordered(now) /\ Len(now) \in Nat
  BY <1>4, LenProperties DEF Holds
<1>6. \A i \in 1 .. Len(all) : now[i] = all[i] /\ i \in 1 .. Len(now)
  BY <1>1, <1>2, <1>5, PrefixItems
<1>7. m > 0 /\ m \in 1 .. Len(all) /\ m + 1 \in 1 .. Len(all)
  BY <1>1
<1>8. p = Layout!ChunkNum(now[m]) /\ p # Layout!ChunkNum(now[m + 1])
      /\ m \in 1 .. Len(now) /\ m + 1 \in 1 .. Len(now)
  BY <1>3, <1>6, <1>7
<1>9. p \in ChunksOf(db, k) /\ IsChunk(engine, k, p, now, Chunk(db, k, p))
  BY <1>4, <1>8, HoldsAt
<1>10. a \in DOMAIN db /\ Chunk(db, k, p) = db[a]
  BY <1>9 DEF ChunksOf, Chunk
<1>11. PICK x, y \in 0 .. Len(now) :
         /\ Segment(now, p, x, y)
         /\ db[a] = IF y = Len(now) THEN LatestValue(engine, ChunkOf(engine, k, p, now, x, y))
                                    ELSE OlderValue(engine, ChunkOf(engine, k, p, now, x, y))
  BY <1>9, <1>10 DEF IsChunk
<1>12. x < m /\ m <= y /\ ~(x < m + 1 /\ m + 1 <= y)
  BY <1>8, <1>11 DEF Segment
<1>13. x \in Nat /\ y \in Nat /\ y = m /\ y # Len(now)
  BY <1>1, <1>2, <1>5, <1>11, <1>12
<1> DEFINE v == db[a]
           w == ChunkOf(engine, k, p, now, x, m)
<1>14. v = OlderValue(engine, w) /\ Segment(now, p, x, m)
  BY <1>11, <1>13
<1>15. /\ x <= m /\ m <= Len(now)
       /\ \A i \in x + 1 .. m : Layout!ChunkNum(now[i]) = p
       /\ x > 0 => x \in 1 .. Len(now) /\ Layout!ChunkNum(now[x]) # p
  BY <1>5, <1>14, SegmentFacts
<1>16. w.cum = m /\ w.prev = IF x > 0 THEN Layout!ChunkNum(now[x]) ELSE 0
  BY <1>4, ChunkFields
<1>17. Len(w.rel) = m - x
  BY <1>1, <1>5, <1>13, <1>15, ChunkOffsets
<1>18. Layout!AbsSeq(p, w.rel) = Part(now, x, m)
  BY <1>1, <1>5, <1>13, <1>15, ChunkIndices
<1> HIDE DEF w, v
<1>19. ~IsLatestValue(v) /\ v.rel = w.rel /\ v.prev = w.prev /\ v.cum = m
  BY <1>4, <1>14, <1>16, ValueFields
<1>20. Part(now, x, m) = Part(all, x, m)
  <2>1. Part(now, x, m) \in Seq(Index) /\ Len(Part(now, x, m)) = m - x
        /\ \A i \in 1 .. m - x : Part(now, x, m)[i] = now[x + i]
    BY <1>1, <1>5, <1>13, <1>15, PartFacts
  <2>2. Part(all, x, m) \in Seq(Index) /\ Len(Part(all, x, m)) = m - x
        /\ \A i \in 1 .. m - x : Part(all, x, m)[i] = all[x + i]
    BY <1>1, <1>13, <1>15, PartFacts
  <2>3. \A i \in 1 .. m - x : x + i \in 1 .. Len(all)
    BY <1>1, <1>13
  <2>4. \A i \in 1 .. m - x : Part(now, x, m)[i] = Part(all, x, m)[i]
    BY <1>6, <2>1, <2>2, <2>3
  <2> QED  BY <2>1, <2>2, <2>4, ListEqual
<1>21. Part(all, x, m) \o From(all, m) = From(all, x)
  <2>1. From(all, m) = Part(all, m, Len(all))
    BY <1>1, FromPart
  <2>2. x <= Len(all) /\ Len(all) <= Len(all)
    BY <1>1, <1>13, <1>15
  <2>3. From(all, x) = Part(all, x, Len(all))
    BY <1>1, <1>13, <2>2, FromPart
  <2>4. Part(all, x, m) \o Part(all, m, Len(all)) = Part(all, x, Len(all))
    BY <1>1, <1>13, <1>15, <2>2, PartConcat
  <2> QED  BY <2>1, <2>3, <2>4
<1> DEFINE z == Walked(q, v.prev, v.cum, Len(v.rel), Layout!AbsSeq(p, v.rel))
<1>22. /\ IsWalk(z) /\ z.key = k /\ z.start = q.start /\ z.latestKey = q.latestKey
       /\ z.latestVal = q.latestVal /\ z.prev = v.prev /\ z.cum = v.cum
       /\ z.relLen = Len(v.rel)
       /\ z.reconstructed = Layout!AbsSeq(p, v.rel) \o q.reconstructed
  <2> DEFINE pv == v.prev  cv == v.cum  rl == Len(v.rel)  f == Layout!AbsSeq(p, v.rel)
             w0 == Walked(q, pv, cv, rl, f)
  <2>1. z = w0
    OBVIOUS
  <2> HIDE DEF pv, cv, rl, f, z
  <2>2. /\ IsWalk(w0) /\ w0.key = q.key /\ w0.start = q.start /\ w0.latestKey = q.latestKey
        /\ w0.latestVal = q.latestVal
    BY <1>2, WalkedFields
  <2>3. w0.prev = pv /\ w0.cum = cv /\ w0.relLen = rl /\ w0.reconstructed = f \o q.reconstructed
    BY <1>2, WalkedFields
  <2> HIDE DEF w0
  <2> QED  BY <2>1, <2>2, <2>3 DEF k, pv, cv, rl, f
<1> HIDE DEF z
<1>23. z.cum = m /\ z.relLen = m - x /\ z.prev = (IF x > 0 THEN Layout!ChunkNum(now[x]) ELSE 0)
       /\ z.reconstructed = From(all, x)
  BY <1>1, <1>16, <1>17, <1>18, <1>19, <1>20, <1>21, <1>22
<1>24. z.cum - z.relLen = x /\ z.cum \in Nat /\ z.relLen \in Nat \ {0} /\ z.relLen <= z.cum
       /\ x < Len(all)
  BY <1>1, <1>12, <1>13, <1>15, <1>23
<1>25. x > 0 => z.prev = Layout!ChunkNum(all[x]) /\ z.prev # Layout!ChunkNum(all[x + 1])
  <2> HAVE x > 0
  <2>1. x \in 1 .. Len(all) /\ x + 1 \in 1 .. Len(all) /\ x + 1 \in x + 1 .. m
    BY <1>1, <1>12, <1>13, <1>24
  <2>2. now[x] = all[x] /\ now[x + 1] = all[x + 1]
    BY <1>6, <2>1
  <2>3. Layout!ChunkNum(now[x + 1]) = p /\ Layout!ChunkNum(now[x]) # p
    BY <1>15, <2>1
  <2> QED  BY <1>23, <2>2, <2>3
<1>26. Folded(Layout!ChunkAt(z.latestKey), z.latestVal) = all /\ Contents(db, z.key) = now
  BY <1>22 DEF all, now, k
<1>27. WalkFollows(z)
  BY <1>1, <1>2, <1>22, <1>23, <1>24, <1>25, <1>26 DEF WalkFollows
<1>28. Told(z) = Told(q)
  <2>1. z.pc = "walk"
    BY <1>22 DEF IsWalk
  <2>2. Told(z) = [ok |-> TRUE, val |-> From(all, z.start)]
    BY <1>26, <2>1, ToldFacts
  <2>3. Told(q) = [ok |-> TRUE, val |-> From(all, q.start)]
    BY <1>2, ToldFacts DEF all
  <2> QED  BY <1>22, <2>2, <2>3
<1>29. z.start < z.cum /\ z.cum < q.cum
  BY <1>1, <1>22, <1>23
<1>30. z.relLen < z.cum => z.prev < p
  <2> HAVE z.relLen < z.cum
  <2>1. x > 0 /\ x \in 1 .. Len(now) /\ z.prev = Layout!ChunkNum(now[x])
    BY <1>13, <1>15, <1>23, <1>24
  <2>2. now[x] \in Index /\ now[m] \in Index /\ now[x] <= now[m]
    BY <1>5, <1>8, <1>12, <2>1, ElementOfSeq DEF Ordered
  <2>3. Layout!ChunkNum(now[x]) <= Layout!ChunkNum(now[m])
    BY <2>2, ChunksOrdered
  <2>4. Layout!ChunkNum(now[x]) # p /\ Layout!ChunkNum(now[m]) = p
    BY <1>8, <1>15, <2>1
  <2>5. Layout!ChunkNum(now[x]) \in Nat /\ Layout!ChunkNum(now[m]) \in Nat
    BY <2>2, InChunk
  <2> QED  BY <2>1, <2>3, <2>4, <2>5
<1> QED  BY <1>10, <1>19, <1>27, <1>28, <1>29, <1>30 DEF z, v, k, p, Walked

\* The log only grows, and so a walk still has its end.
LEMMA WalkKept ==
  ASSUME SealInv, Commit, NEW q, WalkFollows(q)
  PROVE  WalkFollows(q)'
<1> DEFINE all == Folded(Layout!ChunkAt(q.latestKey), q.latestVal)
           now == Contents(db, q.key)
           new == Contents(db', q.key)
<1>1. /\ q.key \in Keys /\ all \in Seq(Index) /\ Len(all) \in Nat
      /\ Len(all) <= Len(now) /\ all = SubSeq(now, 1, Len(all))
  BY WalkFacts DEF WalkFollows
<1>2. Working
  BY DEF Commit, Working
<1>3. new = IF q.key \in DOMAIN updates THEN now \o updates[q.key] ELSE now
  BY <1>1, CommitFacts
<1>4. now \in Seq(Index) /\ Len(now) \in Nat
  BY <1>1, LenProperties DEF SealInv, Holds
<1>5. q.key \in DOMAIN updates => updates[q.key] \in Seq(Index)
  BY <1>2, WorkingFacts
<1>6. Len(all) <= Len(new) /\ all = SubSeq(new, 1, Len(all))
  <2>1. CASE q.key \in DOMAIN updates
    <3> DEFINE M == updates[q.key]
    <3>1. M \in Seq(Index) /\ new = now \o M
      BY <1>3, <1>5, <2>1
    <3> HIDE DEF M, now, new, all
    <3>2. Len(now) <= Len(now \o M) /\ SubSeq(now \o M, 1, Len(all)) = SubSeq(now, 1, Len(all))
      BY <1>1, <1>4, <3>1, PrefixKept
    <3>3. Len(now \o M) \in Nat
      BY <1>4, <3>1, ConcatProperties, LenProperties
    <3> QED  BY <1>1, <1>4, <3>1, <3>2, <3>3
  <2>2. CASE q.key \notin DOMAIN updates
    BY <1>1, <1>3, <2>2
  <2> QED  BY <2>1, <2>2
<1> QED  BY <1>6 DEF WalkFollows

-----------------------------------------------------------------------------
(* Lookup in SealingChunkScanStore.                                          *)

\* A search forward from chunk n lands on the chunk of the first index that is in
\* chunk n or later.
LEMMA ScanPosition ==
  ASSUME NEW e, NEW s, NEW k, NEW L, Holds(e, s, k, L), NEW n \in Nat, NEW a,
         FirstFrom(s, k, n, a)
  PROVE  \E lo \in 0 .. Len(L) :
           /\ \A i \in 1 .. Len(L) : Layout!ChunkNum(L[i]) < n <=> i <= lo
           /\ IF lo = Len(L) THEN a = Layout!Invalid
              ELSE a = <<k, Layout!ChunkNum(L[lo + 1])>>
<1>1. L \in Seq(Index) /\ Ordered(L) /\ Len(L) \in Nat
  BY LenProperties DEF Holds
<1>2. \A i \in 1 .. Len(L) : L[i] \in Index /\ L[i] \in Nat /\ Layout!ChunkNum(L[i]) \in Nat
  BY <1>1, ListType, InChunk
<1>3. \A i, j \in 1 .. Len(L) : i <= j => Layout!ChunkNum(L[i]) <= Layout!ChunkNum(L[j])
  <2> TAKE i, j \in 1 .. Len(L)
  <2> HAVE i <= j
  <2>1. i < j \/ i = j
    OBVIOUS
  <2>2. L[i] <= L[j]
    BY <1>1, <1>2, <2>1 DEF Ordered
  <2> QED  BY <1>2, <2>2, ChunksOrdered
<1> DEFINE low == {i \in 0 .. Len(L) : i = 0 \/ Layout!ChunkNum(L[i]) < n}
<1>4. PICK lo \in low : \A j \in low : j <= lo
  <2>1. low \in SUBSET (0 .. Len(L)) /\ 0 \in low
    BY <1>1
  <2> QED  BY <1>1, <2>1, NatGreatest
<1>5. lo \in 0 .. Len(L) /\ lo \in Nat
  OBVIOUS
<1>6. ASSUME NEW i \in 1 .. Len(L) PROVE Layout!ChunkNum(L[i]) < n <=> i <= lo
  <2>1. ASSUME Layout!ChunkNum(L[i]) < n PROVE i <= lo
    <3>1. i \in low
      BY <2>1
    <3> QED  BY <1>4, <3>1
  <2>2. ASSUME i <= lo PROVE Layout!ChunkNum(L[i]) < n
    <3>1. lo \in 1 .. Len(L) /\ lo # 0
      BY <1>5, <2>2
    <3>2. Layout!ChunkNum(L[lo]) < n
      BY <3>1
    <3>3. Layout!ChunkNum(L[i]) <= Layout!ChunkNum(L[lo])
      BY <1>3, <2>2, <3>1
    <3> QED  BY <1>2, <3>1, <3>2, <3>3
  <2> QED  BY <2>1, <2>2
<1> HIDE DEF low
<1>7. CASE a = Layout!Invalid /\ \A c \in ChunksOf(s, k) : c < n
  <2>1. lo = Len(L)
    <3>1. CASE Len(L) = 0
      BY <1>5, <3>1
    <3>2. CASE Len(L) # 0
      <4>1. Len(L) \in 1 .. Len(L)
        BY <1>1, <3>2
      <4>2. Layout!ChunkNum(L[Len(L)]) < n
        BY <1>7, <4>1, HoldsAt
      <4> QED  BY <1>1, <1>5, <1>6, <4>1, <4>2
    <3> QED  BY <3>1, <3>2
  <2> QED  BY <1>5, <1>6, <1>7, <2>1
<1>8. CASE \E c \in ChunksOf(s, k) : /\ a = <<k, c>> /\ n <= c
                                     /\ \A d \in ChunksOf(s, k) : n <= d => c <= d
  <2>1. PICK c \in ChunksOf(s, k) : /\ a = <<k, c>> /\ n <= c
                                    /\ \A d \in ChunksOf(s, k) : n <= d => c <= d
    BY <1>8
  <2>2. IsChunk(e, k, c, L, Chunk(s, k, c)) /\ c \in Nat
    BY <2>1, ChunkKeys DEF Holds
  <2>3. PICK x, y \in 0 .. Len(L) : Segment(L, c, x, y)
    BY <2>2 DEF IsChunk
  <2>4. y \in 1 .. Len(L) /\ c = Layout!ChunkNum(L[y])
    BY <1>1, <2>3, SegmentFacts
  <2>5. ~(Layout!ChunkNum(L[y]) < n)
    BY <2>1, <2>2, <2>4
  <2>6. ~(y <= lo) /\ y \in Nat
    BY <1>6, <2>4, <2>5
  <2>7. lo + 1 \in 1 .. Len(L) /\ lo # Len(L) /\ lo + 1 <= y /\ ~(lo + 1 <= lo)
    BY <1>1, <1>5, <2>4, <2>6
  <2>8. ~(Layout!ChunkNum(L[lo + 1]) < n) /\ Layout!ChunkNum(L[lo + 1]) \in Nat
    BY <1>2, <1>6, <2>7
  <2>9. n <= Layout!ChunkNum(L[lo + 1]) /\ Layout!ChunkNum(L[lo + 1]) \in ChunksOf(s, k)
    BY <2>7, <2>8, HoldsAt
  <2>10. c <= Layout!ChunkNum(L[lo + 1])
    BY <2>1, <2>9
  <2>11. Layout!ChunkNum(L[lo + 1]) <= c
    BY <1>3, <2>4, <2>7
  <2>12. a = <<k, Layout!ChunkNum(L[lo + 1])>>
    BY <2>1, <2>2, <2>8, <2>10, <2>11
  <2> QED  BY <1>5, <1>6, <2>7, <2>12
<1> QED  BY <1>7, <1>8 DEF FirstFrom

LEMMA LookupScanFollows ==
  ASSUME SealInv, Linked \/ OnceOnly,
         NEW r \in Readers, NEW k \in Keys, NEW start \in Index, LookupScan(r, k, start)
  PROVE  /\ ReaderFollows(rd'[r])
         /\ Told(rd'[r]) = [ok |-> TRUE, val |-> From(Contents(db, k), start)]
<1> DEFINE L == Contents(db, k)
           n == Layout!ChunkNum(start)
           a == Layout!SeekStart(db, k, n)
<1>1. Holds(engine, db, k, L) /\ Stored(engine, db) /\ InSpace(db) /\ DOMAIN rd = Readers
  BY StoredSpace DEF SealInv, SealingTypeOK
<1>2. L \in Seq(Index) /\ Ordered(L) /\ Len(L) \in Nat /\ Rises(L)
  <2>1. Rises(L)
    BY DEF OnceOnly, LookupScan
  <2> QED  BY <1>1, <2>1, LenProperties DEF Holds
<1>3. ~Linked
  BY DEF LookupScan
<1>4. n \in Index /\ n \in Nat /\ start \in Nat
  BY InChunk, IndexType
<1>5. FirstFrom(db, k, n, a)
  BY <1>1, <1>4, StartFinds
<1> HIDE DEF L, n, a
<1>6. PICK lo \in 0 .. Len(L) :
        /\ \A i \in 1 .. Len(L) : Layout!ChunkNum(L[i]) < n <=> i <= lo
        /\ IF lo = Len(L) THEN a = Layout!Invalid
           ELSE a = <<k, Layout!ChunkNum(L[lo + 1])>>
  BY <1>1, <1>4, <1>5, ScanPosition
<1>7. lo \in Nat /\ lo <= Len(L) /\ lo <= lo
  BY <1>2
<1>8. lo <= start
  <2>1. CASE lo = 0
    BY <1>4, <2>1
  <2>2. CASE lo # 0
    <3>1. lo \in 1 .. Len(L) /\ lo <= lo
      BY <1>7, <2>2
    <3>2. Layout!ChunkNum(L[lo]) < n
      BY <1>6, <3>1
    <3>3. L[lo] \in Index /\ L[lo] \in Nat
      BY <1>2, <3>1, ListType
    <3>4. L[lo] < start
      BY <3>2, <3>3, ChunksOrdered DEF n
    <3>5. lo - 1 <= L[lo]
      BY <1>2, <3>1, RisesHigh
    <3> QED  BY <1>4, <1>7, <3>3, <3>4, <3>5
  <2> QED  BY <2>1, <2>2
<1> DEFINE q == [pc |-> "scan", key |-> k, start |-> start, snap |-> db, pos |-> a,
                 cum |-> 0, foundLatest |-> FALSE, reconstructed |-> <<>>]
<1>9. rd'[r] = q
  BY <1>1 DEF LookupScan, Becomes, a, n
<1>10. /\ IsScan(q) /\ q.pc = "scan" /\ q.key = k /\ q.start = start /\ q.snap = db /\ q.pos = a
       /\ q.foundLatest = FALSE /\ q.reconstructed = <<>>
  BY DEF IsScan
<1> HIDE DEF q
<1>11. SubSeq(L, lo + 1, lo) = <<>>
  BY <1>2, <1>7, PartWhole DEF Part
<1>12. lo # Len(L) /\ lo > 0 => Layout!ChunkNum(L[lo]) < Layout!ChunkNum(L[lo + 1])
  <2> HAVE lo # Len(L) /\ lo > 0
  <2>1. lo \in 1 .. Len(L) /\ lo + 1 \in 1 .. Len(L) /\ lo <= lo /\ ~(lo + 1 <= lo)
    BY <1>2, <1>7
  <2>2. Layout!ChunkNum(L[lo]) < n /\ ~(Layout!ChunkNum(L[lo + 1]) < n)
    BY <1>6, <2>1
  <2>3. Layout!ChunkNum(L[lo]) \in Nat /\ Layout!ChunkNum(L[lo + 1]) \in Nat
    BY <1>2, <2>1, ListType, InChunk
  <2> QED  BY <1>4, <2>2, <2>3
<1>13. q.foundLatest <=> lo < lo /\ lo = Len(L)
  BY <1>7, <1>10
<1>14. IF lo = Len(L) THEN q.pos = Layout!Invalid
       ELSE /\ q.pos = Layout!DBKey(q.key, Layout!ChunkNum(L[lo + 1]))
            /\ lo > 0 => Layout!ChunkNum(L[lo]) < Layout!ChunkNum(L[lo + 1])
  BY <1>6, <1>10, <1>12, LayoutKeys
<1>15. ScanAt(q, L, lo, lo)
  BY <1>6, <1>7, <1>8, <1>10, <1>11, <1>13, <1>14 DEF ScanAt
<1>16. Contents(q.snap, q.key) = L
  BY <1>10 DEF L
<1>17. ScanFollows(q)
  <2>1. IsScan(q) /\ q.key \in Keys /\ q.start \in Index /\ Stored(engine, q.snap)
    BY <1>1, <1>10
  <2>2. Holds(engine, q.snap, q.key, Contents(q.snap, q.key))
    BY <1>1, <1>10, <1>16
  <2>3. \E l, h \in 0 .. Len(Contents(q.snap, q.key)) : ScanAt(q, Contents(q.snap, q.key), l, h)
    BY <1>6, <1>15, <1>16
  <2> QED  BY <2>1, <2>2, <2>3 DEF ScanFollows
<1>18. Told(q) = [ok |-> TRUE, val |-> From(L, start)]
  BY <1>10, <1>16, ToldFacts
<1> QED  BY <1>3, <1>9, <1>17, <1>18 DEF ReaderFollows, L

\* What a round of the loop makes of a scan.
Visited(q, cum, foundLatest, found, pos) ==
  [q EXCEPT !.cum = cum, !.foundLatest = foundLatest, !.reconstructed = found, !.pos = pos]

LEMMA VisitedFields ==
  ASSUME NEW q, IsScan(q), NEW c, NEW f, NEW l, NEW p
  PROVE  /\ IsScan(Visited(q, c, f, l, p))
         /\ Visited(q, c, f, l, p).key = q.key
         /\ Visited(q, c, f, l, p).start = q.start
         /\ Visited(q, c, f, l, p).snap = q.snap
         /\ Visited(q, c, f, l, p).cum = c
         /\ Visited(q, c, f, l, p).foundLatest = f
         /\ Visited(q, c, f, l, p).reconstructed = l
         /\ Visited(q, c, f, l, p).pos = p
<1> DEFINE q1 == [q EXCEPT !.cum = c]
           q2 == [q1 EXCEPT !.foundLatest = f]
           q3 == [q2 EXCEPT !.reconstructed = l]
           q4 == [q3 EXCEPT !.pos = p]
<1>1. q1 = [pc |-> "scan", key |-> q.key, start |-> q.start, snap |-> q.snap, pos |-> q.pos,
            cum |-> c, foundLatest |-> q.foundLatest, reconstructed |-> q.reconstructed]
  BY DEF IsScan
<1> HIDE DEF q1
<1>2. q2 = [pc |-> "scan", key |-> q.key, start |-> q.start, snap |-> q.snap, pos |-> q.pos,
            cum |-> c, foundLatest |-> f, reconstructed |-> q.reconstructed]
  BY <1>1
<1> HIDE DEF q2
<1>3. q3 = [pc |-> "scan", key |-> q.key, start |-> q.start, snap |-> q.snap, pos |-> q.pos,
            cum |-> c, foundLatest |-> f, reconstructed |-> l]
  BY <1>2
<1> HIDE DEF q3
<1>4. q4 = [pc |-> "scan", key |-> q.key, start |-> q.start, snap |-> q.snap, pos |-> p,
            cum |-> c, foundLatest |-> f, reconstructed |-> l]
  BY <1>3
<1> HIDE DEF q4
<1>5. Visited(q, c, f, l, p) = q4
  BY DEF Visited, q1, q2, q3, q4
<1>6. /\ IsScan(q4) /\ q4.key = q.key /\ q4.start = q.start /\ q4.snap = q.snap
      /\ q4.cum = c /\ q4.foundLatest = f /\ q4.reconstructed = l /\ q4.pos = p
  BY <1>4 DEF IsScan
<1> QED  BY <1>5, <1>6

\* A round of the loop reads the chunk of the next match, and with it all matches of
\* that chunk.
LEMMA ScanOn ==
  ASSUME NEW q, ScanFollows(q), q.pos # Layout!Invalid
  PROVE  LET v == q.snap[q.pos]
             z == [q EXCEPT !.cum = IF IsLatestValue(v) THEN v.cum ELSE @,
                            !.foundLatest = @ \/ IsLatestValue(v),
                            !.reconstructed = @ \o Layout!AbsSeq(Layout!ChunkAt(q.pos), v.rel),
                            !.pos = Layout!Advance(q.snap, q.key, q.pos)]
         IN  ScanFollows(z) /\ Told(z) = Told(q)
<1> DEFINE s == q.snap
           k == q.key
           L == Contents(s, k)
           v == s[q.pos]
<1>1. /\ IsScan(q) /\ k \in Keys /\ q.start \in Index
      /\ Stored(engine, s) /\ Holds(engine, s, k, L)
      /\ \E lo, hi \in 0 .. Len(L) : ScanAt(q, L, lo, hi)
  BY DEF ScanFollows
<1> HIDE DEF L, s, k
<1>2. L \in Seq(Index) /\ Ordered(L) /\ Len(L) \in Nat /\ InSpace(s) /\ q.start \in Nat
  BY <1>1, LenProperties, StoredSpace, IndexType DEF Holds
<1>3. PICK lo \in 0 .. Len(L), hi \in 0 .. Len(L) : ScanAt(q, L, lo, hi)
  BY <1>1
<1>4. hi # Len(L)
  BY <1>3 DEF ScanAt
<1> DEFINE c == Layout!ChunkNum(L[hi + 1])
<1>5. /\ lo <= hi /\ lo <= q.start /\ q.reconstructed = Part(L, lo, hi) /\ ~q.foundLatest
      /\ q.pos = <<k, c>>
      /\ hi > 0 => Layout!ChunkNum(L[hi]) < c
  BY <1>3, <1>4, LayoutKeys DEF ScanAt, Part, k
<1>6. lo \in Nat /\ hi \in Nat /\ hi <= Len(L) /\ hi + 1 \in 1 .. Len(L)
  BY <1>2, <1>4
<1>7. c \in ChunksOf(s, k) /\ IsChunk(engine, k, c, L, Chunk(s, k, c))
  BY <1>1, <1>6, HoldsAt
<1>8. Chunk(s, k, c) = v /\ c \in Index /\ c \in Nat /\ <<k, c>> \in DOMAIN s
      /\ Layout!ChunkAt(q.pos) = c
  BY <1>5, <1>7, ChunkKeys, LayoutKeys DEF Chunk
<1> HIDE DEF v
<1>9. PICK x, y \in 0 .. Len(L) :
        /\ Segment(L, c, x, y)
        /\ v = IF y = Len(L) THEN LatestValue(engine, ChunkOf(engine, k, c, L, x, y))
                             ELSE OlderValue(engine, ChunkOf(engine, k, c, L, x, y))
  BY <1>7, <1>8 DEF IsChunk
<1>10. x < hi + 1 /\ hi + 1 <= y /\ x \in Nat /\ y \in Nat
  BY <1>2, <1>6, <1>9 DEF Segment
<1>11. x = hi
  <2>1. CASE hi = 0
    BY <1>10, <2>1
  <2>2. CASE hi # 0
    <3>1. hi > 0 /\ hi \in 1 .. Len(L)
      BY <1>2, <1>6, <2>2
    <3>2. Layout!ChunkNum(L[hi]) \in Nat /\ Layout!ChunkNum(L[hi]) < c
      BY <1>2, <1>5, <3>1, ListType, InChunk
    <3>3. Layout!ChunkNum(L[hi]) # c
      BY <1>8, <3>2
    <3>4. ~(x < hi /\ hi <= y)
      BY <1>9, <3>1, <3>3 DEF Segment
    <3> QED  BY <1>6, <1>10, <3>4
  <2> QED  BY <2>1, <2>2
<1> DEFINE w == ChunkOf(engine, k, c, L, hi, y)
<1>12. Segment(L, c, hi, y) /\ v = IF y = Len(L) THEN LatestValue(engine, w)
                                                 ELSE OlderValue(engine, w)
  BY <1>9, <1>11
<1>13. /\ hi < y /\ hi <= y /\ y <= Len(L) /\ y \in 1 .. Len(L) /\ c = Layout!ChunkNum(L[y])
       /\ \A i \in hi + 1 .. y : Layout!ChunkNum(L[i]) = c
  BY <1>2, <1>12, SegmentFacts
<1>14. w.cum = y
  BY ChunkFields
<1> HIDE DEF c
<1>15. Layout!AbsSeq(c, w.rel) = Part(L, hi, y)
  BY <1>2, <1>6, <1>10, <1>13, ChunkIndices
<1> HIDE DEF w
<1>16. v.rel = w.rel /\ (IsLatestValue(v) <=> y = Len(L)) /\ (IsLatestValue(v) => v.cum = y)
  BY <1>12, <1>14, ValueFields
<1>17. Part(L, lo, hi) \o Part(L, hi, y) = Part(L, lo, y)
  BY <1>2, <1>5, <1>6, <1>10, <1>13, PartConcat
<1>18. FirstFrom(s, k, c + 1, Layout!Advance(s, k, q.pos))
  BY <1>1, <1>2, <1>5, <1>8, NextFinds
<1> DEFINE next == Layout!Advance(s, k, q.pos)
<1> HIDE DEF next
<1>19. IF y = Len(L) THEN next = Layout!Invalid
       ELSE next = <<k, Layout!ChunkNum(L[y + 1])>>
  <2>1. c + 1 \in Nat
    BY <1>8
  <2>2. FirstFrom(s, k, c + 1, next)
    BY <1>18 DEF next
  <2> DEFINE n == c + 1
  <2> HIDE DEF n
  <2>3. PICK z \in 0 .. Len(L) :
          /\ \A i \in 1 .. Len(L) : Layout!ChunkNum(L[i]) < n <=> i <= z
          /\ IF z = Len(L) THEN next = Layout!Invalid
             ELSE next = <<k, Layout!ChunkNum(L[z + 1])>>
    <3>1. n \in Nat /\ FirstFrom(s, k, n, next)
      BY <2>1, <2>2 DEF n
    <3> QED  BY <1>1, <3>1, ScanPosition
  <2>4. z \in Nat
    BY <1>2
  <2>5. Layout!ChunkNum(L[y]) < c + 1
    BY <1>8, <1>13
  <2> USE DEF n
  <2>6. y <= z
    BY <1>13, <2>3, <2>5
  <2>7. ~(y < z)
    <3> SUFFICES ASSUME y < z PROVE FALSE
      OBVIOUS
    <3>1. z \in 1 .. Len(L) /\ z <= z
      BY <1>10, <2>4
    <3>2. Layout!ChunkNum(L[z]) < c + 1 /\ Layout!ChunkNum(L[z]) \in Nat
      BY <1>2, <2>3, <3>1, ListType, InChunk
    <3>3. c < Layout!ChunkNum(L[z])
      BY <1>2, <1>12, <3>1, SegmentOrder
    <3> QED  BY <1>8, <3>2, <3>3
  <2>8. z = y
    BY <1>10, <2>4, <2>6, <2>7
  <2> QED  BY <2>3, <2>8
<1>20. y # Len(L) => Layout!ChunkNum(L[y]) < Layout!ChunkNum(L[y + 1])
  <2> HAVE y # Len(L)
  <2>1. y + 1 \in 1 .. Len(L) /\ y < y + 1
    BY <1>2, <1>10, <1>13
  <2> QED  BY <1>2, <1>12, <1>13, <2>1, SegmentOrder
<1> DEFINE cm == IF IsLatestValue(v) THEN v.cum ELSE q.cum
           fl == q.foundLatest \/ IsLatestValue(v)
           rc == q.reconstructed \o Layout!AbsSeq(Layout!ChunkAt(q.pos), v.rel)
           z  == Visited(q, cm, fl, rc, next)
<1>21. rc = Part(L, lo, y) /\ (fl <=> y = Len(L)) /\ (fl => cm = Len(L))
  BY <1>5, <1>8, <1>15, <1>16, <1>17
<1> HIDE DEF cm, fl, rc
<1>22. /\ IsScan(z) /\ z.key = k /\ z.start = q.start /\ z.snap = s /\ z.cum = cm
       /\ z.foundLatest = fl /\ z.reconstructed = rc /\ z.pos = next
  BY <1>1, VisitedFields DEF k, s
<1> HIDE DEF z
<1>23. lo <= y /\ lo < y
  BY <1>5, <1>6, <1>10, <1>13
<1>24. IF y = Len(L) THEN z.pos = Layout!Invalid
       ELSE /\ z.pos = Layout!DBKey(z.key, Layout!ChunkNum(L[y + 1]))
            /\ y > 0 => Layout!ChunkNum(L[y]) < Layout!ChunkNum(L[y + 1])
  BY <1>19, <1>20, <1>22, LayoutKeys
<1>25. z.reconstructed = SubSeq(L, lo + 1, y)
  BY <1>21, <1>22 DEF Part
<1>26. (z.foundLatest <=> lo < y /\ y = Len(L)) /\ (z.foundLatest => z.cum = Len(L))
  BY <1>21, <1>22, <1>23
<1>27. ScanAt(z, L, lo, y)
  BY <1>5, <1>22, <1>23, <1>24, <1>25, <1>26 DEF ScanAt
<1>28. Contents(z.snap, z.key) = L
  BY <1>22 DEF L
<1>29. ScanFollows(z)
  <2>1. IsScan(z) /\ z.key \in Keys /\ z.start \in Index /\ Stored(engine, z.snap)
    BY <1>1, <1>22
  <2>2. Holds(engine, z.snap, z.key, Contents(z.snap, z.key))
    BY <1>1, <1>22, <1>28
  <2>3. \E l, h \in 0 .. Len(Contents(z.snap, z.key)) : ScanAt(z, Contents(z.snap, z.key), l, h)
    BY <1>3, <1>9, <1>27, <1>28
  <2> QED  BY <2>1, <2>2, <2>3 DEF ScanFollows
<1>30. Told(z) = Told(q)
  <2>1. z.pc = "scan" /\ q.pc = "scan"
    BY <1>1, <1>22 DEF IsScan
  <2>2. Told(z) = [ok |-> TRUE, val |-> From(L, z.start)]
    BY <1>28, <2>1, ToldFacts
  <2>3. Told(q) = [ok |-> TRUE, val |-> From(L, q.start)]
    BY <2>1, ToldFacts DEF L, s, k
  <2> QED  BY <1>22, <2>2, <2>3
<1> QED  BY <1>29, <1>30 DEF z, cm, fl, rc, next, v, s, k, Visited

\* The scan has the answer when it ends.
LEMMA FinishScanFinds ==
  ASSUME NEW q, ScanFollows(q), q.pos = Layout!Invalid
  PROVE  LET L == Contents(q.snap, q.key)
             n == Len(q.reconstructed)
         IN  /\ From(L, q.start) \in Seq(Index)
             /\ n = 0 => From(L, q.start) = <<>>
             /\ n # 0 => /\ ~(~q.foundLatest \/ q.cum < n \/ q.start < q.cum - n)
                         /\ From(q.reconstructed, q.start - (q.cum - n)) = From(L, q.start)
<1> DEFINE L == Contents(q.snap, q.key)
           n == Len(q.reconstructed)
<1>1. /\ q.start \in Index /\ Holds(engine, q.snap, q.key, L)
      /\ \E lo, hi \in 0 .. Len(L) : ScanAt(q, L, lo, hi)
  BY DEF ScanFollows
<1> HIDE DEF L
<1>2. L \in Seq(Index) /\ Len(L) \in Nat /\ q.start \in Nat
  BY <1>1, LenProperties, IndexType DEF Holds
<1>3. PICK lo \in 0 .. Len(L), hi \in 0 .. Len(L) : ScanAt(q, L, lo, hi)
  BY <1>1
<1>4. hi = Len(L)
  BY <1>3, LayoutKeys DEF ScanAt
<1>5. /\ lo <= q.start /\ q.reconstructed = Part(L, lo, Len(L))
      /\ q.foundLatest <=> lo < Len(L)
      /\ q.foundLatest => q.cum = Len(L)
  BY <1>3, <1>4 DEF ScanAt, Part
<1>6. lo \in Nat /\ lo <= Len(L) /\ Len(L) <= Len(L)
  BY <1>2
<1>7. n = Len(L) - lo /\ q.reconstructed \in Seq(Index)
  <2> DEFINE p == Part(L, lo, Len(L))
  <2>1. p \in Seq(Index) /\ Len(p) = Len(L) - lo
    BY <1>2, <1>6, PartFacts
  <2>2. q.reconstructed = p
    BY <1>5
  <2> HIDE DEF p
  <2> QED  BY <2>1, <2>2
<1> HIDE DEF n
<1>8. From(L, q.start) \in Seq(Index)
  <2>1. CASE q.start <= Len(L)
    <3>1. Part(L, q.start, Len(L)) \in Seq(Index)
      BY <1>2, <1>6, <2>1, PartFacts
    <3>2. From(L, q.start) = Part(L, q.start, Len(L))
      <4>1. 0 \in Nat /\ 0 <= Len(L)
        BY <1>2
      <4> QED  BY <1>2, <2>1, <4>1, FromPart
    <3> QED  BY <3>1, <3>2
  <2>2. CASE Len(L) <= q.start
    <3>1. From(L, q.start) = <<>>
      <4>1. 0 \in Nat /\ 0 <= Len(L)
        BY <1>2
      <4> QED  BY <1>2, <2>2, <4>1, FromPart
    <3> QED  BY <3>1, EmptySeq
  <2> QED  BY <1>2, <2>1, <2>2
<1>9. n = 0 => From(L, q.start) = <<>>
  <2> HAVE n = 0
  <2>1. Len(L) <= q.start /\ 0 \in Nat /\ 0 <= Len(L)
    BY <1>2, <1>5, <1>6, <1>7
  <2> QED  BY <1>2, <2>1, FromPart
<1>10. n # 0 => /\ ~(~q.foundLatest \/ q.cum < n \/ q.start < q.cum - n)
                /\ From(q.reconstructed, q.start - (q.cum - n)) = From(L, q.start)
  <2> HAVE n # 0
  <2>1. lo < Len(L)
    BY <1>2, <1>6, <1>7
  <2>2. q.foundLatest /\ q.cum = Len(L)
    BY <1>5, <2>1
  <2>3. q.cum - n = lo /\ ~(q.cum < n)
    BY <1>2, <1>6, <1>7, <2>2
  <2>4. ~(q.start < q.cum - n)
    BY <1>2, <1>5, <1>6, <2>3
  <2> DEFINE o == q.start - lo
  <2>5. o \in Nat /\ lo + o = q.start
    BY <1>2, <1>5, <1>6
  <2> HIDE DEF o
  <2>6. From(From(L, lo), o) = From(L, q.start)
    BY <1>2, <1>6, <2>5, FromPart
  <2>7. From(L, lo) = q.reconstructed
    BY <1>2, <1>5, <1>6, FromPart
  <2>8. From(q.reconstructed, o) = From(L, q.start)
    BY <2>6, <2>7
  <2> QED  BY <2>2, <2>3, <2>4, <2>8 DEF o
<1> QED  BY <1>8, <1>9, <1>10 DEF L, n

-----------------------------------------------------------------------------
(* What a read has found follows the log, whatever happens meanwhile.        *)

LEMMA AnswerFollows ==
  \A v \in Seq(Index) : ReaderFollows(Answer(TRUE, v))
BY DEF ReaderFollows, Answer

\* Which store the reader is in, by what it is doing.
LEMMA ReaderCases ==
  ASSUME NEW q, ReaderFollows(q)
  PROVE  /\ q.pc = "walk" => Linked /\ WalkFollows(q)
         /\ q.pc = "scan" => ~Linked /\ ScanFollows(q)
         /\ q.pc = "done" => q.ok /\ q = Answer(TRUE, q.val) /\ q.val \in Seq(Index)
         /\ q.pc = "idle" => q = NoRead
<1>1. WalkFollows(q) => q.pc = "walk"
  BY DEF WalkFollows, IsWalk
<1>2. ScanFollows(q) => q.pc = "scan"
  BY DEF ScanFollows, IsScan
<1>3. q = NoRead => q.pc = "idle"
  BY DEF NoRead
<1>4. ASSUME q \in [pc : {"done"}, ok : {TRUE}, val : Seq(Index)]
      PROVE  q.pc = "done" /\ q.ok /\ q = Answer(TRUE, q.val) /\ q.val \in Seq(Index)
  BY <1>4 DEF Answer
<1> QED  BY <1>1, <1>2, <1>3, <1>4 DEF ReaderFollows

LEMMA GetSubRootFinds ==
  ASSUME SealInv, NEW r \in Readers, NEW k \in Keys, GetSubRoot(r, k)
  PROVE  /\ rd'[r] = Answer(TRUE, Contents(db, k))
         /\ ReaderFollows(rd'[r])
<1> DEFINE L == Contents(db, k)
           a == Layout!ReverseSeekLatest(db, k)
<1>1. Holds(engine, db, k, L) /\ InSpace(db) /\ DOMAIN rd = Readers
  BY StoredSpace DEF SealInv, SealingTypeOK
<1>2. L \in Seq(Index) /\ (a = Layout!Invalid => L = <<>>)
      /\ (a # Layout!Invalid => L = Folded(Layout!ChunkAt(a), db[a]))
  BY <1>1 DEF Holds, Contents
<1>3. a # Layout!Invalid => IsLatestValue(db[a])
  <2> HAVE a # Layout!Invalid
  <2> HIDE DEF L
  <2>1. L # <<>>
    BY <1>1, HoldsContents
  <2> DEFINE c == Layout!ChunkNum(L[Len(L)])
  <2>2. a = <<k, c>>
    BY <1>1, <2>1, HoldsContents
  <2>3. \E m \in 0 .. Len(L) :
          /\ Segment(L, c, m, Len(L))
          /\ db[<<k, c>>] = LatestValue(engine, ChunkOf(engine, k, c, L, m, Len(L)))
    BY <1>1, <2>1, HoldsContents
  <2> HIDE DEF c, a
  <2> QED  BY <2>2, <2>3, ValueFields
<1>4. rd'[r] = Answer(TRUE, L)
  BY <1>1, <1>2, <1>3 DEF GetSubRoot, Becomes
<1> QED  BY <1>2, <1>4, AnswerFollows

\* A step of a read leaves what it will answer.
LEMMA ReaderStepFollows ==
  ASSUME ReadInv, NEW r \in Readers, ReaderStep(r)
  PROVE  /\ ReaderFollows(rd'[r])
         /\ \/ rd[r].pc = "done" /\ rd'[r] = NoRead
            \/ rd[r].pc \in {"walk", "scan"} /\ Told(rd'[r]) = Told(rd[r])
<1> DEFINE q == rd[r]
<1>1. SealInv /\ ReaderFollows(q) /\ DOMAIN rd = Readers
  BY DEF ReadInv, SealInv
<1>2. ASSUME q.pc = "walk" PROVE Linked /\ WalkFollows(q)
  BY <1>1, <1>2, ReaderCases
<1>3. ASSUME q.pc = "scan" PROVE ~Linked /\ ScanFollows(q)
  BY <1>1, <1>3, ReaderCases
<1>4. CASE GetPrevChunk(r)
  <2> DEFINE a == Layout!DBKey(q.key, q.prev)
             z == [q EXCEPT !.prev = db[a].prev, !.cum = db[a].cum,
                            !.relLen = Len(db[a].rel),
                            !.reconstructed = Layout!AbsSeq(q.prev, db[a].rel) \o @]
  <2>1. q.pc = "walk" /\ StartsEarlier(q)
    BY <1>4 DEF GetPrevChunk
  <2>2. Linked /\ WalkFollows(q)
    BY <1>2, <2>1
  <2>3. a \in DOMAIN db /\ ~IsLatestValue(db[a])
    BY <1>1, <2>1, <2>2, WalkOn
  <2>4. WalkFollows(z) /\ Told(z) = Told(q)
    BY <1>1, <2>1, <2>2, WalkOn
  <2>5. rd' = [rd EXCEPT ![r] = z]
    BY <1>4, <2>3 DEF GetPrevChunk, Becomes
  <2> HIDE DEF z
  <2>6. rd'[r] = z
    BY <1>1, <2>5
  <2> QED  BY <2>1, <2>2, <2>4, <2>6 DEF ReaderFollows
<1>5. CASE FinishWalk(r)
  <2> DEFINE all == Folded(Layout!ChunkAt(q.latestKey), q.latestVal)
             v == From(q.reconstructed, q.start - (q.cum - q.relLen))
  <2>1. q.pc = "walk" /\ ~StartsEarlier(q)
    BY <1>5 DEF FinishWalk
  <2>2. Linked /\ WalkFollows(q)
    BY <1>2, <2>1
  <2>3. /\ ~(q.cum < q.relLen \/ q.start < q.cum - q.relLen)
        /\ v = From(all, q.start) /\ From(all, q.start) \in Seq(Index)
    BY <2>1, <2>2, FinishWalkFinds
  <2>4. rd' = [rd EXCEPT ![r] = Answer(TRUE, v)]
    BY <1>5, <2>3 DEF FinishWalk, Becomes
  <2>5. Told(q) = [ok |-> TRUE, val |-> From(all, q.start)]
    BY <2>1, ToldFacts
  <2> HIDE DEF all, v
  <2>6. rd'[r] = Answer(TRUE, v)
    BY <1>1, <2>4
  <2>7. Told(rd'[r]) = Told(q)
    BY <2>3, <2>5, <2>6, ToldFacts
  <2> QED  BY <2>1, <2>3, <2>6, <2>7, AnswerFollows
<1>6. CASE VisitChunk(r)
  <2> DEFINE v == q.snap[q.pos]
             z == [q EXCEPT !.cum = IF IsLatestValue(v) THEN v.cum ELSE @,
                            !.foundLatest = @ \/ IsLatestValue(v),
                            !.reconstructed = @ \o Layout!AbsSeq(Layout!ChunkAt(q.pos), v.rel),
                            !.pos = Layout!Advance(q.snap, q.key, q.pos)]
  <2>1. q.pc = "scan" /\ q.pos # Layout!Invalid
    BY <1>6 DEF VisitChunk
  <2>2. ~Linked /\ ScanFollows(q)
    BY <1>3, <2>1
  <2>3. ScanFollows(z) /\ Told(z) = Told(q)
    BY <2>1, <2>2, ScanOn
  <2>4. rd' = [rd EXCEPT ![r] = z]
    BY <1>6 DEF VisitChunk, Becomes
  <2> HIDE DEF z
  <2>5. rd'[r] = z
    BY <1>1, <2>4
  <2> QED  BY <2>1, <2>2, <2>3, <2>5 DEF ReaderFollows
<1>7. CASE FinishScan(r)
  <2> DEFINE L == Contents(q.snap, q.key)
             n == Len(q.reconstructed)
             v == IF n = 0 THEN <<>> ELSE From(q.reconstructed, q.start - (q.cum - n))
  <2>1. q.pc = "scan" /\ q.pos = Layout!Invalid
    BY <1>7 DEF FinishScan
  <2>2. ~Linked /\ ScanFollows(q)
    BY <1>3, <2>1
  <2>3. /\ From(L, q.start) \in Seq(Index)
        /\ n = 0 => From(L, q.start) = <<>>
        /\ n # 0 => /\ ~(~q.foundLatest \/ q.cum < n \/ q.start < q.cum - n)
                    /\ From(q.reconstructed, q.start - (q.cum - n)) = From(L, q.start)
    BY <2>1, <2>2, FinishScanFinds
  <2>4. v = From(L, q.start)
    BY <2>3
  <2>5. rd' = [rd EXCEPT ![r] = Answer(TRUE, v)]
    BY <1>7, <2>3 DEF FinishScan, Becomes
  <2>6. Told(q) = [ok |-> TRUE, val |-> From(L, q.start)]
    BY <2>1, ToldFacts
  <2> HIDE DEF L, n, v
  <2>7. rd'[r] = Answer(TRUE, v)
    BY <1>1, <2>5
  <2>8. Told(rd'[r]) = Told(q)
    BY <2>4, <2>6, <2>7, ToldFacts
  <2> QED  BY <2>1, <2>3, <2>4, <2>7, <2>8, AnswerFollows
<1>8. CASE ReadReturn(r)
  <2>1. q.pc = "done" /\ rd'[r] = NoRead
    BY <1>1, <1>8 DEF ReadReturn, Becomes
  <2> QED  BY <2>1 DEF ReaderFollows
<1> QED  BY <1>4, <1>5, <1>6, <1>7, <1>8 DEF ReaderStep

LEMMA FollowsKept ==
  ASSUME SealInv, NEW q, ReaderFollows(q), UNCHANGED <<engine, db>> \/ Commit
  PROVE  ReaderFollows(q)'
<1>1. CASE UNCHANGED <<engine, db>>
  BY <1>1 DEF ReaderFollows, WalkFollows, ScanFollows, Linked
<1>2. CASE Commit
  <2>1. UNCHANGED engine
    BY <1>2 DEF Commit
  <2>2. WalkFollows(q) => WalkFollows(q)'
    BY <1>2, WalkKept
  <2>3. ScanFollows(q) => ScanFollows(q)'
    BY <2>1 DEF ScanFollows
  <2> QED  BY <2>1, <2>2, <2>3 DEF ReaderFollows, Linked
<1> QED  BY <1>1, <1>2

LEMMA InitRead ==
  ASSUME Init
  PROVE  ReadInv
<1>1. SealInv /\ OnceOnly
  BY InitSeal, InitOnce
<1>2. \A r \in Readers : ReaderFollows(rd[r])
  BY DEF Init, ReaderFollows
<1> QED  BY <1>1, <1>2 DEF ReadInv

\* A reader's step: the others, the database and the writer stay.
LEMMA BecomesRead ==
  ASSUME ReadInv, NEW r \in Readers, ReaderFollows(rd'[r]), NEW q, Becomes(r, q)
  PROVE  \A o \in Readers : ReaderFollows(rd[o])'
<1> TAKE o \in Readers
<1>1. SealInv /\ DOMAIN rd = Readers /\ UNCHANGED <<engine, db>>
  BY DEF ReadInv, SealInv, Becomes
<1>2. ReaderFollows(rd'[o])
  <2>1. CASE o = r
    BY <2>1
  <2>2. CASE o # r
    <3>1. rd'[o] = rd[o]
      BY <1>1, <2>2 DEF Becomes
    <3> QED  BY <3>1 DEF ReadInv
  <2> QED  BY <2>1, <2>2
<1> QED  BY <1>1, <1>2, FollowsKept

LEMMA ReadersFollow ==
  ASSUME ReadInv, [Next]_vars
  PROVE  \A r \in Readers : ReaderFollows(rd[r])'
<1>1. SealInv /\ (Linked \/ OnceOnly)
  BY DEF ReadInv
<1>2. CASE UNCHANGED rd
  <2>1. UNCHANGED <<engine, db>> \/ Commit
    BY OnlyCommitWrites
  <2> TAKE r \in Readers
  <2>2. ReaderFollows(rd'[r])
    BY <1>2 DEF ReadInv
  <2> QED  BY <1>1, <2>1, <2>2, FollowsKept
<1>3. ASSUME NEW r \in Readers, NEW k \in Keys, GetSubRoot(r, k)
      PROVE  \A o \in Readers : ReaderFollows(rd[o])'
  <2>1. ReaderFollows(rd'[r])
    BY <1>1, <1>3, GetSubRootFinds
  <2>2. \E q : Becomes(r, q)
    BY <1>3 DEF GetSubRoot
  <2> QED  BY <2>1, <2>2, BecomesRead
<1>4. ASSUME NEW r \in Readers, NEW k \in Keys, NEW start \in Index, LookupLinked(r, k, start)
      PROVE  \A o \in Readers : ReaderFollows(rd[o])'
  <2>1. ReaderFollows(rd'[r])
    BY <1>1, <1>4, LookupLinkedFollows
  <2>2. \E q : Becomes(r, q)
    BY <1>4 DEF LookupLinked
  <2> QED  BY <2>1, <2>2, BecomesRead
<1>5. ASSUME NEW r \in Readers, NEW k \in Keys, NEW start \in Index, LookupScan(r, k, start)
      PROVE  \A o \in Readers : ReaderFollows(rd[o])'
  <2>1. ReaderFollows(rd'[r])
    BY <1>1, <1>5, LookupScanFollows
  <2>2. \E q : Becomes(r, q)
    BY <1>5 DEF LookupScan
  <2> QED  BY <2>1, <2>2, BecomesRead
<1>6. ASSUME NEW r \in Readers, ReaderStep(r)
      PROVE  \A o \in Readers : ReaderFollows(rd[o])'
  <2>1. ReaderFollows(rd'[r])
    BY <1>6, ReaderStepFollows
  <2>2. \E q : Becomes(r, q)
    BY <1>6 DEF ReaderStep, GetPrevChunk, FinishWalk, VisitChunk, FinishScan, ReadReturn
  <2> QED  BY <2>1, <2>2, BecomesRead
<1>7. CASE Crash
  <2> TAKE r \in Readers
  <2>1. rd'[r] = NoRead
    BY <1>7 DEF Crash
  <2>2. ReaderFollows(rd'[r])
    BY <2>1 DEF ReaderFollows
  <2>3. UNCHANGED <<engine, db>>
    BY <1>7 DEF Crash
  <2> QED  BY <1>1, <2>2, <2>3, FollowsKept
<1>8. ASSUME NEW u \in Updates, WriteBatch(u) PROVE UNCHANGED rd
  BY <1>8 DEF WriteBatch
<1>9. CASE WriterStep
  <2>1. UNCHANGED rd
    BY <1>9 DEF WriterStep, WriterProgress, SkipKey, RejectKey, LoadKey, AppendInChunk,
                SealAndCross, FlushKey, Commit, StorageError, WriteReturn
  <2> QED  BY <1>2, <2>1
<1>10. CASE UNCHANGED vars
  BY <1>2, <1>10 DEF vars
<1> QED  BY <1>2, <1>3, <1>4, <1>5, <1>6, <1>7, <1>8, <1>9, <1>10 DEF Next

LEMMA NextRead ==
  ASSUME StartIsSafe, ReadInv, [Next]_vars
  PROVE  ReadInv' /\ StartIsSafe'
<1>1. SealInv /\ (Linked \/ OnceOnly)
  BY DEF ReadInv
<1>2. SealInv'
  BY <1>1, NextSeal
<1>3. Linked' <=> Linked
  BY OnlyCommitWrites DEF Linked, Commit
<1>4. (Linked \/ OnceOnly)'
  BY <1>1, <1>3, OnceStep DEF StartIsSafe
<1>5. \A r \in Readers : ReaderFollows(rd[r])'
  BY ReadersFollow
<1>6. StartIsSafe'
  BY <1>3 DEF StartIsSafe, NoRepeats, Sorted, Rises
<1> QED  BY <1>2, <1>4, <1>5, <1>6 DEF ReadInv

\* Whatever a Lookup has read so far, of its snapshot or of the live database, is a
\* part of the log it answers for.
THEOREM ReadsFollow == Spec /\ StartIsSafe => []ReadInv
<1>1. Init => ReadInv
  BY InitRead
<1>2. ReadInv /\ StartIsSafe /\ [Next]_vars => ReadInv' /\ StartIsSafe'
  BY NextRead
<1> QED  BY <1>1, <1>2, PTL DEF Spec

\* A step that leaves a walk a walk follows a link, downwards.
LEMMA WalkStepDescends ==
  ASSUME ReadInv, [Next]_vars, NEW r \in Readers,
         rd[r].pc = "walk", rd'[r].pc = "walk", rd'[r] # rd[r]
  PROVE  /\ rd[r].start < rd'[r].cum /\ rd'[r].cum < rd[r].cum
         /\ rd'[r].relLen < rd'[r].cum => rd'[r].prev < rd[r].prev
<1> DEFINE q == rd[r]
           a == Layout!DBKey(q.key, q.prev)
           z == [q EXCEPT !.prev = db[a].prev, !.cum = db[a].cum,
                          !.relLen = Len(db[a].rel),
                          !.reconstructed = Layout!AbsSeq(q.prev, db[a].rel) \o @]
<1>1. SealInv /\ DOMAIN rd = Readers /\ Linked /\ WalkFollows(q) /\ q # NoRead
  <2>1. SealInv /\ DOMAIN rd = Readers /\ ReaderFollows(rd[r])
    BY DEF ReadInv, SealInv
  <2>2. Linked /\ WalkFollows(rd[r])
    BY <2>1, ReaderCases
  <2>3. rd[r] # NoRead
    BY DEF NoRead
  <2> QED  BY <2>1, <2>2, <2>3
<1>2. ASSUME NEW o \in Readers, NEW w, Becomes(o, w) PROVE o = r /\ rd'[r] = w
  BY <1>1, <1>2 DEF Becomes
<1>3. \A w \in BOOLEAN : \A l : rd'[r] # Answer(w, l)
  BY DEF Answer
<1>4. \E o \in Readers : ReaderStep(o)
  <2>1. ~UNCHANGED rd
    OBVIOUS
  <2>2. ASSUME NEW o \in Readers, NEW k \in Keys PROVE ~GetSubRoot(o, k)
    BY <1>1, <1>2 DEF GetSubRoot
  <2>3. ASSUME NEW o \in Readers, NEW k \in Keys, NEW start \in Index
        PROVE  ~LookupLinked(o, k, start) /\ ~LookupScan(o, k, start)
    BY <1>1, <1>2 DEF LookupLinked, LookupScan
  <2>4. ~Crash
    BY DEF Crash, NoRead
  <2>5. ~(\E u \in Updates : WriteBatch(u)) /\ ~WriterStep
    BY <2>1 DEF WriteBatch, WriterStep, WriterProgress, SkipKey, RejectKey, LoadKey,
                AppendInChunk, SealAndCross, FlushKey, Commit, StorageError, WriteReturn
  <2> QED  BY <2>1, <2>2, <2>3, <2>4, <2>5 DEF Next, vars
<1>5. PICK o \in Readers : ReaderStep(o)
  BY <1>4
<1>6. GetPrevChunk(r)
  <2>1. ~FinishWalk(o)
    BY <1>2, <1>3 DEF FinishWalk
  <2>2. ~VisitChunk(o)
    BY <1>2 DEF VisitChunk
  <2>3. ~FinishScan(o)
    BY <1>2 DEF FinishScan
  <2>4. ~ReadReturn(o)
    BY <1>2 DEF ReadReturn
  <2>5. GetPrevChunk(o) => o = r
    BY <1>2 DEF GetPrevChunk
  <2> QED  BY <1>5, <2>1, <2>2, <2>3, <2>4, <2>5 DEF ReaderStep
<1>7. StartsEarlier(q)
  BY <1>6 DEF GetPrevChunk
<1>8. a \in DOMAIN db /\ ~IsLatestValue(db[a])
  BY <1>1, <1>7, WalkOn
<1>9. /\ z.start < z.cum /\ z.cum < q.cum
      /\ z.relLen < z.cum => z.prev < q.prev
  BY <1>1, <1>7, WalkOn
<1>10. Becomes(r, z)
  BY <1>6, <1>8 DEF GetPrevChunk
<1>11. z.start = q.start
  OBVIOUS
<1> HIDE DEF z
<1>12. rd'[r] = z
  BY <1>2, <1>10
<1> QED  BY <1>9, <1>11, <1>12

\* Whatever is sealed under it, a walk along the links goes down from chunk to chunk,
\* and so it ends.
THEOREM LinksDescend == Spec /\ StartIsSafe => WalkDescends
<1>1. ReadInv /\ [Next]_vars =>
        [\A r \in Readers : rd[r].pc = "walk" /\ rd'[r].pc = "walk" /\ rd'[r] # rd[r] =>
           /\ rd[r].start < rd'[r].cum /\ rd'[r].cum < rd[r].cum
           /\ rd'[r].relLen < rd'[r].cum => rd'[r].prev < rd[r].prev]_vars
  <2> SUFFICES ASSUME ReadInv, [Next]_vars, NEW r \in Readers,
                      rd[r].pc = "walk", rd'[r].pc = "walk", rd'[r] # rd[r]
               PROVE  /\ rd[r].start < rd'[r].cum /\ rd'[r].cum < rd[r].cum
                      /\ rd'[r].relLen < rd'[r].cum => rd'[r].prev < rd[r].prev
    OBVIOUS
  <2> QED  BY WalkStepDescends
<1> QED  BY <1>1, ReadsFollow, PTL DEF Spec, WalkDescends

\* No Lookup and no GetSubRoot of a sealing store returns an error.
THEOREM SealedReadsNeverFail == Spec /\ StartIsSafe => []ReadsNeverFail
<1>1. ReadInv => ReadsNeverFail
  BY ReaderCases DEF ReadInv, ReadsNeverFail
<1> QED  BY <1>1, ReadsFollow, PTL

-----------------------------------------------------------------------------
(* The refinement.                                                           *)

LEMMA PhaseOf ==
  /\ wpc = "idle" => phase = "idle"
  /\ wpc \in {"keys", "indices"} => phase = "open"
  /\ wpc = "ack" => phase = "applied"
  /\ wpc = "failed" => phase = "rejected"
BY DEF phase

LEMMA PhaseOfNext ==
  /\ wpc' = "idle" => phase' = "idle"
  /\ wpc' \in {"keys", "indices"} => phase' = "open"
  /\ wpc' = "ack" => phase' = "applied"
  /\ wpc' = "failed" => phase' = "rejected"
BY DEF phase

LEMMA LogUnchanged ==
  ASSUME UNCHANGED db
  PROVE  UNCHANGED log
BY DEF log

LEMMA AnswerUnchanged ==
  ASSUME UNCHANGED rd
  PROVE  UNCHANGED answer
BY DEF answer

LEMMA AnswerIs ==
  /\ answer = [r \in Readers |-> Told(rd[r])]
  /\ answer' = [r \in Readers |-> Told(rd'[r])]
BY DEF answer, Told

\* A step of a reader changes its answer alone.
LEMMA AnswerBecomes ==
  ASSUME SealInv, NEW r \in Readers, NEW q, Becomes(r, q)
  PROVE  /\ answer' = [answer EXCEPT ![r] = Told(rd'[r])]
         /\ answer[r] = Told(rd[r])
         /\ UNCHANGED <<log, phase, updates>>
<1>1. rd' = [rd EXCEPT ![r] = q] /\ DOMAIN rd = Readers /\ UNCHANGED <<db, wpc, updates>>
  BY DEF Becomes, writer, SealInv
<1>2. \A x \in Readers : x # r => rd'[x] = rd[x]
  BY <1>1
<1>3. answer' = [answer EXCEPT ![r] = Told(rd'[r])] /\ answer[r] = Told(rd[r])
  BY <1>2, AnswerIs
<1>4. UNCHANGED phase
  BY <1>1 DEF phase
<1> QED  BY <1>1, <1>3, <1>4, LogUnchanged

LEMMA InitRefines ==
  ASSUME Init
  PROVE  Promise!Init
<1>1. log = [k \in Keys |-> <<>>]
  <2>1. ASSUME NEW k \in Keys PROVE Contents(db, k) = <<>>
    <3>1. InSpace(db) /\ DOMAIN db = {}
      BY NoWritesFacts DEF Init
    <3>2. ChunksOf(db, k) = {}
      BY <3>1 DEF ChunksOf
    <3>3. Layout!ReverseSeekLatest(db, k) = Layout!Invalid
      BY <3>1, <3>2, LatestFinds
    <3> QED  BY <3>3 DEF Contents
  <2> QED  BY <2>1 DEF log
<1>2. answer = [r \in Readers |-> <<>>]
  BY AnswerIs, ToldFacts DEF Init
<1> QED  BY <1>1, <1>2, PhaseOf DEF Init, Promise!Init

\* The commit appends every list of the batch to the log of its key.
LEMMA CommitRefines ==
  ASSUME SealInv, Commit
  PROVE  Promise!Apply
<1>1. wpc = "keys" /\ wpc' = "ack" /\ UNCHANGED <<updates, rd>> /\ Working
  BY DEF Commit, Working
<1>2. \A k \in DOMAIN updates : Promise!Sorted(updates[k])
  BY CommitSorted DEF Sorted, Promise!Sorted
<1>3. log' = [k \in Keys |-> IF k \in DOMAIN updates THEN log[k] \o updates[k] ELSE log[k]]
  <2>1. /\ log' = [k \in Keys |-> Contents(db', k)]
        /\ \A k \in Keys : log[k] = Contents(db, k)
    BY DEF log
  <2>2. \A k \in Keys : Contents(db', k) = IF k \in DOMAIN updates
                                           THEN Contents(db, k) \o updates[k]
                                           ELSE Contents(db, k)
    BY CommitFacts
  <2> QED  BY <2>1, <2>2
<1> QED  BY <1>1, <1>2, <1>3, PhaseOf, PhaseOfNext, AnswerUnchanged DEF Promise!Apply

\* Lookup takes effect when it opens its iterator, also where it goes on to read the
\* live database.
LEMMA LookupRefines ==
  ASSUME ReadInv, NEW r \in Readers, NEW k \in Keys, NEW start \in Index,
         LookupLinked(r, k, start) \/ LookupScan(r, k, start)
  PROVE  Promise!Lookup(r, k, start)
<1>1. SealInv /\ (Linked \/ OnceOnly)
  BY DEF ReadInv
<1>2. rd[r] = NoRead /\ \E q : Becomes(r, q)
  BY DEF LookupLinked, LookupScan
<1>3. Told(rd'[r]) = [ok |-> TRUE, val |-> From(Contents(db, k), start)]
  BY <1>1, LookupLinkedFollows, LookupScanFollows
<1>4. /\ answer' = [answer EXCEPT ![r] = Told(rd'[r])] /\ answer[r] = Told(rd[r])
      /\ UNCHANGED <<log, phase, updates>>
  BY <1>1, <1>2, AnswerBecomes
<1>5. log[k] = Contents(db, k) /\ answer[r] = <<>>
  BY <1>2, <1>4, ToldFacts DEF log
<1>6. From(Contents(db, k), start) = Promise!From(log[k], start)
  BY <1>5 DEF From, Promise!From
<1> QED  BY <1>3, <1>4, <1>5, <1>6 DEF Promise!Lookup

LEMMA GetSubRootRefines ==
  ASSUME ReadInv, NEW r \in Readers, NEW k \in Keys, GetSubRoot(r, k)
  PROVE  Promise!GetSubRoot(r, k)
<1>1. SealInv
  BY DEF ReadInv
<1>2. rd[r] = NoRead /\ \E q : Becomes(r, q)
  BY DEF GetSubRoot
<1>3. Told(rd'[r]) = [ok |-> TRUE, val |-> Contents(db, k)]
  BY <1>1, GetSubRootFinds, ToldFacts
<1>4. /\ answer' = [answer EXCEPT ![r] = Told(rd'[r])] /\ answer[r] = Told(rd[r])
      /\ UNCHANGED <<log, phase, updates>>
  BY <1>1, <1>2, AnswerBecomes
<1>5. log[k] = Contents(db, k) /\ answer[r] = <<>>
  BY <1>2, <1>4, ToldFacts DEF log
<1> QED  BY <1>3, <1>4, <1>5 DEF Promise!GetSubRoot

\* Reading on leaves the answer as it was when the iterator was opened; what was
\* returned was an answer.
LEMMA ReadRefines ==
  ASSUME ReadInv, NEW r \in Readers, ReaderStep(r)
  PROVE  Promise!ReadReturn(r) \/ UNCHANGED Promise!vars
<1>1. SealInv
  BY DEF ReadInv
<1>2. \E q : Becomes(r, q)
  BY DEF ReaderStep, GetPrevChunk, FinishWalk, VisitChunk, FinishScan, ReadReturn
<1>3. /\ answer' = [answer EXCEPT ![r] = Told(rd'[r])] /\ answer[r] = Told(rd[r])
      /\ UNCHANGED <<log, phase, updates>>
  BY <1>1, <1>2, AnswerBecomes
<1>4. CASE rd[r].pc = "done" /\ rd'[r] = NoRead
  <2>1. Told(rd[r]) = [ok |-> rd[r].ok, val |-> rd[r].val]
    BY <1>4 DEF Told
  <2>2. Told(rd[r]) # <<>>
    BY <2>1
  <2> QED  BY <1>3, <1>4, <2>2, ToldFacts DEF Promise!ReadReturn
<1>5. CASE Told(rd'[r]) = Told(rd[r])
  <2>1. answer' = answer
    BY <1>3, <1>5, AnswerIs
  <2> QED  BY <1>3, <2>1 DEF Promise!vars
<1> QED  BY <1>4, <1>5, ReaderStepFollows

\* Every step is a step of IndexStore or leaves its state alone.
LEMMA StepRefines ==
  ASSUME ReadInv, [Next]_vars
  PROVE  [Promise!Next]_(Promise!vars)
<1>0. SealInv
  BY DEF ReadInv
<1>1. CASE \E u \in Updates : WriteBatch(u)
  <2> PICK u \in Updates : WriteBatch(u)
    BY <1>1
  <2>1. Promise!WriteBatch(u)
    BY LogUnchanged, AnswerUnchanged, PhaseOf, PhaseOfNext DEF WriteBatch, Promise!WriteBatch
  <2> QED  BY <2>1 DEF Promise!Next
<1>2. ASSUME wpc \in {"keys", "indices"}, wpc' \in {"keys", "indices"},
             UNCHANGED <<db, updates, rd>>
      PROVE  UNCHANGED Promise!vars
  BY <1>2, LogUnchanged, AnswerUnchanged, PhaseOf, PhaseOfNext DEF Promise!vars
<1>3. ASSUME wpc \in {"keys", "indices"}, wpc' = "failed", UNCHANGED <<db, updates, rd>>
      PROVE  Promise!Next
  <2>1. Promise!Reject
    BY <1>3, LogUnchanged, AnswerUnchanged, PhaseOf, PhaseOfNext DEF Promise!Reject
  <2> QED  BY <2>1 DEF Promise!Next
<1>4. CASE \E k \in todo : SkipKey(k) \/ RejectKey(k) \/ LoadKey(k)
  <2> PICK k \in todo : SkipKey(k) \/ RejectKey(k) \/ LoadKey(k)
    BY <1>4
  <2>1. CASE SkipKey(k)
    BY <1>2, <2>1 DEF SkipKey, NextKeyToDo
  <2>2. CASE RejectKey(k)
    BY <1>3, <2>2 DEF RejectKey, NextKeyToDo
  <2>3. CASE LoadKey(k)
    <3>1. /\ wpc = "keys" /\ wpc' \in {"failed", "indices"}
          /\ UNCHANGED <<db, updates, rd>>
      BY <2>3 DEF LoadKey, NextKeyToDo
    <3> QED  BY <1>2, <1>3, <3>1
  <2> QED  BY <2>1, <2>2, <2>3
<1>5. CASE AppendInChunk \/ SealAndCross \/ FlushKey
  <2>1. /\ wpc \in {"keys", "indices"} /\ wpc' \in {"keys", "indices"}
        /\ UNCHANGED <<db, updates, rd>>
    BY <1>5 DEF AppendInChunk, SealAndCross, FlushKey
  <2> QED  BY <1>2, <2>1
<1>6. CASE Commit
  BY <1>0, <1>6, CommitRefines DEF Promise!Next
<1>7. CASE StorageError
  BY <1>3, <1>7 DEF StorageError
<1>8. CASE WriteReturn
  <2>1. Promise!WriteReturn
    BY <1>8, LogUnchanged, AnswerUnchanged, PhaseOf, PhaseOfNext
    DEF WriteReturn, Promise!WriteReturn
  <2> QED  BY <2>1 DEF Promise!Next
<1>9. CASE \E r \in Readers, k \in Keys :
             \/ GetSubRoot(r, k)
             \/ \E start \in Index : LookupLinked(r, k, start) \/ LookupScan(r, k, start)
  BY <1>9, GetSubRootRefines, LookupRefines DEF Promise!Next
<1>10. CASE \E r \in Readers : ReaderStep(r)
  BY <1>10, ReadRefines DEF Promise!Next
<1>11. CASE Crash
  <2>1. answer' = [r \in Readers |-> <<>>]
    BY <1>11, AnswerIs, ToldFacts DEF Crash
  <2>2. Promise!Crash
    BY <1>11, <2>1, LogUnchanged, PhaseOfNext DEF Crash, Promise!Crash
  <2> QED  BY <2>2 DEF Promise!Next
<1>12. CASE UNCHANGED vars
  <2>1. UNCHANGED <<db, wpc, updates, rd>>
    BY <1>12 DEF vars, writer
  <2>2. UNCHANGED phase
    BY <2>1 DEF phase
  <2> QED  BY <2>1, <2>2, LogUnchanged, AnswerUnchanged DEF Promise!vars
<1> QED  BY <1>1, <1>4, <1>5, <1>6, <1>7, <1>8, <1>9, <1>10, <1>11, <1>12
         DEF Next, WriterStep, WriterProgress

\* Both sealing stores keep the promise of the IndexStore interface: a Lookup that
\* follows links through the live database, too, answers for the moment its
\* iterator was opened.
THEOREM SealingRefines == Spec /\ StartIsSafe => RefinesIndexStore
<1>1. Init => Promise!Init
  BY InitRefines
<1>2. ReadInv /\ [Next]_vars => [Promise!Next]_(Promise!vars)
  BY StepRefines
<1> QED  BY <1>1, <1>2, ReadsFollow, PTL DEF Spec, RefinesIndexStore, Promise!Spec

-----------------------------------------------------------------------------
(* SealsAgree.                                                               *)

\* The first n matches of a log without repeats are n.
LEMMA CountMatches ==
  ASSUME NEW L \in Seq(Index), Rises(L), NEW n \in Nat, n <= Len(L)
  PROVE  Cardinality({L[i] : i \in 1 .. n}) = n
<1> DEFINE S == {L[i] : i \in 1 .. n}
           f == [i \in 1 .. n |-> L[i]]
<1>1. \A i \in 1 .. n : i \in 1 .. Len(L) /\ L[i] \in Nat
  <2>1. Len(L) \in Nat /\ \A i \in 1 .. Len(L) : L[i] \in Nat
    BY ListType
  <2>2. \A i \in 1 .. n : i \in 1 .. Len(L)
    BY <2>1
  <2> QED  BY <2>1, <2>2
<1>2. f \in [1 .. n -> S]
  OBVIOUS
<1>3. \A i, j \in 1 .. n : f[i] = f[j] => i = j
  <2> SUFFICES ASSUME NEW i \in 1 .. n, NEW j \in 1 .. n, L[i] = L[j], i # j PROVE FALSE
    OBVIOUS
  <2>1. L[i] \in Nat /\ L[j] \in Nat /\ i \in 1 .. Len(L) /\ j \in 1 .. Len(L)
    BY <1>1
  <2>2. CASE i < j
    <3>1. L[i] < L[j]
      BY <2>1, <2>2 DEF Rises
    <3> QED  BY <2>1, <3>1
  <2>3. CASE j < i
    <3>1. L[j] < L[i]
      BY <2>1, <2>3 DEF Rises
    <3> QED  BY <2>1, <3>1
  <2> QED  BY <2>2, <2>3
<1>4. \A x \in S : \E i \in 1 .. n : f[i] = x
  OBVIOUS
<1>5. DOMAIN f = 1 .. n
  OBVIOUS
<1> HIDE DEF f, S
<1>6. f \in Injection(1 .. n, S) /\ f \in Surjection(1 .. n, S)
  BY <1>2, <1>3, <1>4, <1>5 DEF Injection, Surjection, IsInjective
<1>7. ExistsBijection(1 .. n, S)
  BY <1>6 DEF ExistsBijection, Bijection
<1>8. Cardinality(S) = n
  BY <1>7, FS_CountingElements
<1> QED  BY <1>8 DEF S

\* The indices of list L that belong to chunks D.
MatchesOf(L, D) == {L[i] : i \in {j \in 1 .. Len(L) : Layout!ChunkNum(L[j]) \in D}}

LEMMA MatchesIn ==
  ASSUME NEW L, NEW D, NEW x
  PROVE  x \in MatchesOf(L, D)
           <=> \E j \in 1 .. Len(L) : Layout!ChunkNum(L[j]) \in D /\ x = L[j]
BY DEF MatchesOf

\* The offsets of a chunk are those of the indices of the log that belong to it.
LEMMA ChunkMatches ==
  ASSUME NEW e, NEW k, NEW c, NEW L \in Seq(Index), NEW v, IsChunk(e, k, c, L, v)
  PROVE  IndicesOf(Layout!AbsSeq(c, v.rel)) = MatchesOf(L, {c})
<1>1. PICK m, n \in 0 .. Len(L) :
        /\ Segment(L, c, m, n)
        /\ v = IF n = Len(L) THEN LatestValue(e, ChunkOf(e, k, c, L, m, n))
                             ELSE OlderValue(e, ChunkOf(e, k, c, L, m, n))
  BY DEF IsChunk
<1>2. /\ m \in Nat /\ n \in Nat /\ m <= n /\ n <= Len(L)
      /\ \A i \in m + 1 .. n : Layout!ChunkNum(L[i]) = c
  BY <1>1, SegmentFacts
<1> DEFINE x == ChunkOf(e, k, c, L, m, n)
           p == Part(L, m, n)
<1>3. Layout!AbsSeq(c, x.rel) = p
  BY <1>2, ChunkIndices
<1>4. v.rel = x.rel
  BY <1>1, ValueFields
<1>5. p \in Seq(Index) /\ Len(p) = n - m /\ \A i \in 1 .. n - m : p[i] = L[m + i]
  BY <1>2, PartFacts
<1> HIDE DEF x, p
<1>6. Len(L) \in Nat
  BY LenProperties
<1>7. \A i \in 1 .. n - m : /\ m + i \in 1 .. Len(L) /\ m < m + i /\ m + i <= n
  BY <1>2, <1>6
<1>8. \A j \in 1 .. Len(L) : Layout!ChunkNum(L[j]) = c =>
         j - m \in 1 .. n - m /\ m + (j - m) = j
  <2> TAKE j \in 1 .. Len(L)
  <2> HAVE Layout!ChunkNum(L[j]) = c
  <2>1. m < j /\ j <= n
    BY <1>1 DEF Segment
  <2> QED  BY <1>2, <1>6, <2>1
<1>9. IndicesOf(p) \subseteq MatchesOf(L, {c})
  <2>1. \A i \in 1 .. n - m : Layout!ChunkNum(L[m + i]) = c
    BY <1>1, <1>7 DEF Segment
  <2> SUFFICES ASSUME NEW i \in 1 .. Len(p) PROVE p[i] \in MatchesOf(L, {c})
    BY DEF IndicesOf
  <2>2. i \in 1 .. n - m /\ m + i \in 1 .. Len(L) /\ p[i] = L[m + i]
    BY <1>5, <1>7
  <2>3. Layout!ChunkNum(L[m + i]) \in {c}
    BY <2>1, <2>2
  <2> QED  BY <2>2, <2>3 DEF MatchesOf
<1>10. MatchesOf(L, {c}) \subseteq IndicesOf(p)
  <2> SUFFICES ASSUME NEW j \in 1 .. Len(L), Layout!ChunkNum(L[j]) = c
               PROVE  L[j] \in IndicesOf(p)
    BY MatchesIn
  <2>1. j - m \in 1 .. n - m /\ m + (j - m) = j
    BY <1>8
  <2>2. p[j - m] = L[j]
    BY <1>5, <2>1
  <2>3. j - m \in 1 .. Len(p)
    BY <1>5, <2>1
  <2> QED  BY <2>2, <2>3 DEF IndicesOf
<1> QED  BY <1>3, <1>4, <1>9, <1>10

\* Some chunks of a key hold the indices of its log that belong to them.
LEMMA HeldBy ==
  ASSUME NEW e, NEW s, NEW k, NEW L, Holds(e, s, k, L), NEW D \in SUBSET ChunksOf(s, k)
  PROVE  Held(s, k, D) = MatchesOf(L, D)
<1>1. L \in Seq(Index) /\ \A d \in D : IsChunk(e, k, d, L, Chunk(s, k, d))
  BY DEF Holds
<1>2. \A d \in D : IndicesOf(Layout!AbsSeq(d, Chunk(s, k, d).rel)) = MatchesOf(L, {d})
  BY <1>1, ChunkMatches
<1>3. ASSUME NEW x
      PROVE  x \in Held(s, k, D)
               <=> \E d \in D : x \in IndicesOf(Layout!AbsSeq(d, Chunk(s, k, d).rel))
  BY DEF Held
<1>4. ASSUME NEW x
      PROVE  x \in Held(s, k, D) <=> x \in MatchesOf(L, D)
  <2>1. x \in Held(s, k, D) <=> \E d \in D : x \in MatchesOf(L, {d})
    BY <1>2, <1>3
  <2>2. x \in MatchesOf(L, D)
          <=> \E j \in 1 .. Len(L) : Layout!ChunkNum(L[j]) \in D /\ x = L[j]
    BY MatchesIn
  <2>3. \A d \in D : x \in MatchesOf(L, {d})
          <=> \E j \in 1 .. Len(L) : Layout!ChunkNum(L[j]) = d /\ x = L[j]
    BY DEF MatchesOf
  <2> QED  BY <2>1, <2>2, <2>3
<1> QED  BY <1>4

LEMMA HoldsAgrees ==
  ASSUME NEW s, NEW k, NEW L, Holds(engine, s, k, L), Rises(L), NEW c \in ChunksOf(s, k)
  PROVE  LET last == \A d \in ChunksOf(s, k) : d <= c
         IN  /\ Chunk(s, k, c).rel # <<>>
             /\ IsLatestValue(Chunk(s, k, c)) <=> last
             /\ last => LatestAgrees(s, k, c)
             /\ Linked => LinkAgrees(s, k, c)
<1> DEFINE last == \A d \in ChunksOf(s, k) : d <= c
           v == Chunk(s, k, c)
           older == Below(s, k, c)
<1>1. L \in Seq(Index) /\ Ordered(L) /\ Len(L) \in Nat
      /\ IsChunk(engine, k, c, L, v) /\ c \in Index /\ c \in Nat
  BY LenProperties, ChunkKeys DEF Holds
<1> HIDE DEF v
<1>2. PICK m, n \in 0 .. Len(L) :
        /\ Segment(L, c, m, n)
        /\ v = IF n = Len(L) THEN LatestValue(engine, ChunkOf(engine, k, c, L, m, n))
                             ELSE OlderValue(engine, ChunkOf(engine, k, c, L, m, n))
  BY <1>1 DEF IsChunk
<1>3. /\ m \in Nat /\ n \in Nat /\ m < n /\ m <= n /\ n <= Len(L) /\ n \in 1 .. Len(L)
      /\ m > 0 => m \in 1 .. Len(L)
      /\ n # Len(L) => n + 1 \in 1 .. Len(L)
      /\ m <= Len(L)
  BY <1>1, <1>2, SegmentFacts
<1> DEFINE x == ChunkOf(engine, k, c, L, m, n)
<1>4. x.range = Part(L, 0, m) /\ x.cum = n
      /\ x.prev = IF engine = "sealing_chunk" /\ m > 0 THEN Layout!ChunkNum(L[m]) ELSE 0
  BY ChunkFields
<1>5. x.rel \in Seq(Layout!Rel) /\ Len(x.rel) = n - m
  BY <1>1, <1>3, ChunkOffsets
<1> HIDE DEF x
<1>6. v.rel = x.rel /\ (IsLatestValue(v) <=> n = Len(L))
      /\ (IsLatestValue(v) => v.range = x.range /\ v.cum = x.cum)
      /\ (Linked => v.prev = x.prev /\ v.cum = x.cum)
  BY <1>2, ValueFields DEF Linked, x
<1>7. \A i \in 1 .. Len(L) : /\ Layout!ChunkNum(L[i]) < c <=> i <= m
                             /\ n < i => c < Layout!ChunkNum(L[i])
                             /\ i <= n => Layout!ChunkNum(L[i]) <= c
                             /\ Layout!ChunkNum(L[i]) = c <=> m < i /\ i <= n
                             /\ Layout!ChunkNum(L[i]) \in ChunksOf(s, k)
                             /\ Layout!ChunkNum(L[i]) \in Nat
  <2> TAKE i \in 1 .. Len(L)
  <2>1. L[i] \in Index /\ Layout!ChunkNum(L[i]) \in ChunksOf(s, k)
    BY <1>1, ListType, HoldsAt
  <2>2. Layout!ChunkNum(L[i]) \in Nat
    BY <2>1, InChunk
  <2> QED  BY <1>1, <1>2, <2>1, <2>2, SegmentOrder
\* The chunk of another index.
<1>8. ASSUME NEW d \in ChunksOf(s, k)
      PROVE  \E y \in 1 .. Len(L) : d = Layout!ChunkNum(L[y])
  <2>1. IsChunk(engine, k, d, L, Chunk(s, k, d))
    BY DEF Holds
  <2>2. PICK z, y \in 0 .. Len(L) : Segment(L, d, z, y)
    BY <2>1 DEF IsChunk
  <2>3. y \in 1 .. Len(L) /\ d = Layout!ChunkNum(L[y])
    BY <1>1, <2>2, SegmentFacts
  <2> QED  BY <2>3
<1>9. v.rel # <<>>
  BY <1>3, <1>5, <1>6, EmptySeq
<1>10. n = Len(L) <=> last
  <2>1. ASSUME n = Len(L) PROVE last
    <3> TAKE d \in ChunksOf(s, k)
    <3>1. PICK y \in 1 .. Len(L) : d = Layout!ChunkNum(L[y])
      BY <1>8
    <3>2. y <= n
      BY <1>1, <2>1
    <3> QED  BY <1>7, <3>1, <3>2
  <2>2. ASSUME n # Len(L) PROVE ~last
    <3>1. n + 1 \in 1 .. Len(L) /\ n < n + 1
      BY <1>3, <2>2
    <3>2. c < Layout!ChunkNum(L[n + 1]) /\ Layout!ChunkNum(L[n + 1]) \in ChunksOf(s, k)
          /\ Layout!ChunkNum(L[n + 1]) \in Nat
      BY <1>7, <3>1
    <3> QED  BY <1>1, <3>2
  <2> QED  BY <2>1, <2>2
<1>11. older \in SUBSET ChunksOf(s, k) /\ \A d \in ChunksOf(s, k) : d \in older <=> d < c
  BY DEF Below
<1> HIDE DEF older, last
<1>12. Held(s, k, older) = {L[i] : i \in 1 .. m}
  <2>1. MatchesOf(L, older) = {L[i] : i \in 1 .. m}
    <3>1. \A j \in 1 .. Len(L) : Layout!ChunkNum(L[j]) \in older <=> j <= m
      BY <1>7, <1>11
    <3>2. \A j \in 1 .. m : j \in 1 .. Len(L) /\ j <= m
      BY <1>1, <1>3
    <3>3. \A j \in 1 .. Len(L) : j <= m => j \in 1 .. m
      BY <1>1, <1>3
    <3> QED  BY <3>1, <3>2, <3>3 DEF MatchesOf
  <2>2. Held(s, k, older) = MatchesOf(L, older)
    BY <1>11, HeldBy
  <2> QED  BY <2>1, <2>2
<1>13. Held(s, k, older \cup {c}) = {L[i] : i \in 1 .. n}
  <2>1. MatchesOf(L, older \cup {c}) = {L[i] : i \in 1 .. n}
    <3>1. \A j \in 1 .. Len(L) : Layout!ChunkNum(L[j]) \in older \cup {c} <=> j <= n
      <4> TAKE j \in 1 .. Len(L)
      <4>1. Layout!ChunkNum(L[j]) \in older <=> j <= m
        BY <1>7, <1>11
      <4>2. Layout!ChunkNum(L[j]) = c <=> m < j /\ j <= n
        BY <1>7
      <4> QED  BY <1>1, <1>3, <4>1, <4>2
    <3>2. \A j \in 1 .. n : j \in 1 .. Len(L) /\ j <= n
      BY <1>1, <1>3
    <3>3. \A j \in 1 .. Len(L) : j <= n => j \in 1 .. n
      BY <1>1, <1>3
    <3> QED  BY <3>1, <3>2, <3>3 DEF MatchesOf
  <2> DEFINE D == older \cup {c}
  <2>2. D \in SUBSET ChunksOf(s, k)
    BY <1>11
  <2> HIDE DEF D
  <2>3. Held(s, k, D) = MatchesOf(L, D)
    BY <2>2, HeldBy
  <2> QED  BY <2>1, <2>3 DEF D
<1>14. last => LatestAgrees(s, k, c)
  <2> HAVE last
  <2> DEFINE p == Part(L, 0, m)
  <2>1. v.range = p /\ v.cum = n
    BY <1>4, <1>6, <1>10
  <2>2. Len(p) = m /\ \A i \in 1 .. m : p[i] = L[i]
    BY <1>1, <1>3, PartStart
  <2> HIDE DEF p
  <2>3. IndicesOf(v.range) = Held(s, k, older)
    BY <1>12, <2>1, <2>2 DEF IndicesOf
  <2>4. \A i \in 2 .. Len(p) : p[i-1] < p[i]
    <3> TAKE i \in 2 .. Len(p)
    <3>1. i - 1 \in 1 .. m /\ i \in 1 .. m /\ i - 1 < i
          /\ i - 1 \in 1 .. Len(L) /\ i \in 1 .. Len(L)
      BY <1>1, <1>3, <2>2
    <3>2. L[i - 1] < L[i]
      BY <3>1 DEF Rises
    <3> QED  BY <2>2, <3>1, <3>2
  <2>5. n = Len(v.range) + Len(v.rel)
    BY <1>3, <1>5, <1>6, <2>1, <2>2
  <2> QED  BY <2>1, <2>3, <2>4, <2>5 DEF LatestAgrees, v, older
<1>15. Linked => LinkAgrees(s, k, c)
  <2> HAVE Linked
  <2>1. v.cum = Cardinality(Held(s, k, older \cup {c}))
    <3>1. Cardinality({L[i] : i \in 1 .. n}) = n
      BY <1>1, <1>3, CountMatches
    <3> QED  BY <1>4, <1>6, <1>13, <3>1
  <2>2. older # {} => v.prev \in older /\ \A d \in older : d <= v.prev
    <3> HAVE older # {}
    <3>1. ASSUME NEW d \in older
          PROVE  m > 0 /\ d <= Layout!ChunkNum(L[m])
      <4>1. d \in ChunksOf(s, k) /\ d < c
        BY <1>11
      <4>2. PICK y \in 1 .. Len(L) : d = Layout!ChunkNum(L[y])
        BY <1>8, <4>1
      <4>3. y <= m /\ y \in Nat
        BY <1>7, <4>1, <4>2
      <4>4. m \in 1 .. Len(L) /\ m > 0
        BY <1>3, <4>2, <4>3
      <4>5. L[y] \in Index /\ L[m] \in Index /\ L[y] \in Nat /\ L[m] \in Nat
        BY <1>1, <4>2, <4>4, ListType
      <4>6. y < m \/ y = m
        BY <4>3, <1>3
      <4>7. L[y] <= L[m]
        BY <1>1, <4>2, <4>4, <4>5, <4>6 DEF Ordered
      <4>8. Layout!ChunkNum(L[y]) <= Layout!ChunkNum(L[m])
        BY <4>5, <4>7, ChunksOrdered
      <4> QED  BY <4>2, <4>4, <4>8
    <3>2. m > 0
      BY <3>1
    <3>3. v.prev = Layout!ChunkNum(L[m])
      BY <1>4, <1>6, <3>2 DEF Linked
    <3>4. m \in 1 .. Len(L) /\ m <= m
      BY <1>3, <3>2
    <3>5. Layout!ChunkNum(L[m]) \in older
      BY <1>7, <1>11, <3>4
    <3> QED  BY <3>1, <3>3, <3>5
  <2> QED  BY <2>1, <2>2 DEF LinkAgrees, v, older
<1> QED  BY <1>6, <1>9, <1>10, <1>14, <1>15 DEF v, last

\* Only the last chunk of a key carries the Merkle range, and it commits to exactly
\* what the sealed chunks hold; links and counts lead from it to all of them.
THEOREM SealsAlwaysAgree ==
  ASSUME NoRepeats
  PROVE  Spec => []SealsAgree
<1>1. Init => SealInv /\ OnceOnly
  BY InitSeal, InitOnce
<1>2. SealInv /\ OnceOnly /\ [Next]_vars => SealInv' /\ OnceOnly'
  BY NextSeal, OnceStep
<1>3. SealInv /\ OnceOnly => SealsAgree
  <2> SUFFICES ASSUME SealInv, OnceOnly, NEW k \in Keys, NEW c \in ChunksOf(db, k)
               PROVE  LET last == \A d \in ChunksOf(db, k) : d <= c
                      IN  /\ Chunk(db, k, c).rel # <<>>
                          /\ IsLatestValue(Chunk(db, k, c)) <=> last
                          /\ last => LatestAgrees(db, k, c)
                          /\ Linked => LinkAgrees(db, k, c)
    BY DEF SealsAgree
  <2>1. Holds(engine, db, k, Contents(db, k)) /\ Rises(Contents(db, k))
    BY DEF SealInv, OnceOnly
  <2> QED  BY <2>1, HoldsAgrees
<1> QED  BY <1>1, <1>2, <1>3, PTL DEF Spec
=============================================================================
