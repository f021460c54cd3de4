--------------------------- MODULE LogStoreProofs ---------------------------
(***************************************************************************)
(* LogStore implements IndexStore, for every set of keys, readers, indices *)
(* and batches of ascending lists.                                         *)
(***************************************************************************)
EXTENDS LogStore, PebbleKVProofs, SequenceTheorems

-----------------------------------------------------------------------------
(* Lists of indices.                                                         *)

LEMMA IndexType == Index \subseteq Nat /\ Index \subseteq Int
  BY LogAssumption DEF Index

LEMMA KeysAreKeys ==
  ASSUME NEW k \in Keys, NEW i \in Index
  PROVE  /\ k \in Nat /\ i \in Nat /\ <<k, i>> \in PKey
         /\ <<k, i>>[1] = k /\ <<k, i>>[2] = i
  BY LogAssumption, IndexType DEF PKey

\* Appending an index above all of an increasing list.
LEMMA AppendIncreasing ==
  ASSUME NEW list \in Seq(Index), Increasing(list), NEW h \in Index,
         \A i \in 1 .. Len(list) : list[i] < h
  PROVE  /\ Append(list, h) \in Seq(Index) /\ Increasing(Append(list, h))
         /\ IndicesOf(Append(list, h)) = IndicesOf(list) \cup {h}
         /\ \A i \in 1 .. Len(Append(list, h)) : Append(list, h)[i] <= h
  <1> DEFINE new == Append(list, h)
  <1>1. /\ new \in Seq(Index) /\ Len(new) = Len(list) + 1 /\ Len(list) \in Nat
        /\ \A i \in 1 .. Len(list) : new[i] = list[i]
        /\ new[Len(list) + 1] = h
    BY AppendProperties, LenProperties
  <1> HIDE DEF new
  <1>2. \A i \in 1 .. Len(list) : list[i] \in Nat
    BY IndexType, ElementOfSeq
  <1>3. \A i \in 1 .. Len(new) : i \in 1 .. Len(list) \/ i = Len(list) + 1
    BY <1>1
  <1>4. Increasing(new)
    BY <1>1, <1>2, <1>3, IndexType DEF Increasing
  <1>5. IndicesOf(new) = IndicesOf(list) \cup {h}
    BY <1>1, <1>3 DEF IndicesOf
  <1>6. \A i \in 1 .. Len(new) : new[i] <= h
    BY <1>1, <1>2, <1>3, IndexType
  <1>7. QED BY <1>1, <1>4, <1>5, <1>6 DEF new

LEMMA HeadOf ==
  ASSUME NEW list \in Seq(Index), list # <<>>
  PROVE  /\ Head(list) \in Index /\ Head(list) = list[1]
         /\ Tail(list) \in Seq(Index) /\ Len(Tail(list)) = Len(list) - 1
         /\ Len(list) \in Nat \ {0}
         /\ \A i \in 1 .. Len(Tail(list)) : Tail(list)[i] = list[i + 1]
         /\ Tail(list) = <<>> <=> Len(list) = 1
  <1>1. /\ Head(list) \in Index /\ Tail(list) \in Seq(Index)
        /\ Len(Tail(list)) = Len(list) - 1 /\ Len(list) \in Nat
        /\ \A i \in 1 .. Len(Tail(list)) : Tail(list)[i] = list[i + 1]
    BY HeadTailProperties, LenProperties
  <1>2. Head(list) = list[1]
    OBVIOUS
  <1>3. Len(list) # 0
    BY EmptySeq
  <1>4. Tail(list) = <<>> <=> Len(Tail(list)) = 0
    BY <1>1, EmptySeq
  <1>5. QED BY <1>1, <1>2, <1>3, <1>4

\* The rest of an ascending list ascends from above its head.
LEMMA TailAscends ==
  ASSUME NEW list \in Seq(Index), list # <<>>, Ascends(list), Tail(list) # <<>>
  PROVE  Ascends(Tail(list)) /\ Head(list) < Head(Tail(list))
  <1>1. /\ Tail(list) \in Seq(Index) /\ Len(Tail(list)) = Len(list) - 1
        /\ Len(list) \in Nat /\ Len(Tail(list)) \in Nat \ {0}
        /\ \A i \in 1 .. Len(Tail(list)) : Tail(list)[i] = list[i + 1]
    BY HeadOf, EmptySeq
  <1>2. Head(list) = list[1] /\ Head(Tail(list)) = list[2]
    BY <1>1, HeadOf
  <1>3. QED BY <1>1, <1>2 DEF Ascends

\* Moving the head of the rest to the end of what is done.
LEMMA MoveHead ==
  ASSUME NEW done \in Seq(Index), NEW rest \in Seq(Index), rest # <<>>
  PROVE  Append(done, Head(rest)) \o Tail(rest) = done \o rest
  <1> DEFINE new == Append(done, Head(rest))  t == Tail(rest)
  <1>1. /\ t \in Seq(Index) /\ Len(t) = Len(rest) - 1 /\ Len(rest) \in Nat \ {0}
        /\ \A i \in 1 .. Len(t) : t[i] = rest[i + 1]
        /\ Head(rest) \in Index /\ Head(rest) = rest[1]
    BY HeadOf
  <1>2. /\ new \in Seq(Index) /\ Len(new) = Len(done) + 1 /\ Len(done) \in Nat
        /\ \A i \in 1 .. Len(done) : new[i] = done[i]
        /\ new[Len(done) + 1] = rest[1]
    BY <1>1, AppendProperties, LenProperties
  <1> HIDE DEF new, t
  <1>3. /\ new \o t \in Seq(Index) /\ Len(new \o t) = Len(done) + Len(rest)
        /\ \A i \in 1 .. Len(new) + Len(t) :
             (new \o t)[i] = IF i <= Len(new) THEN new[i] ELSE t[i - Len(new)]
    <2>1. new \in Seq(Index) /\ t \in Seq(Index)
      BY <1>1, <1>2
    <2>2. /\ new \o t \in Seq(Index) /\ Len(new \o t) = Len(new) + Len(t)
          /\ \A i \in 1 .. Len(new) + Len(t) :
               (new \o t)[i] = IF i <= Len(new) THEN new[i] ELSE t[i - Len(new)]
      BY <2>1, ConcatProperties
    <2>3. QED BY <1>1, <1>2, <2>2
  <1>4. /\ done \o rest \in Seq(Index) /\ Len(done \o rest) = Len(done) + Len(rest)
        /\ \A i \in 1 .. Len(done) + Len(rest) :
             (done \o rest)[i] = IF i <= Len(done) THEN done[i] ELSE rest[i - Len(done)]
    BY ConcatProperties
  <1>5. ASSUME NEW i \in 1 .. Len(done) + Len(rest)
        PROVE  (new \o t)[i] = (done \o rest)[i]
    <2>1. CASE i <= Len(done)
      BY <1>1, <1>2, <1>3, <1>4, <2>1
    <2>2. CASE i = Len(done) + 1
      <3>1. (new \o t)[i] = new[i] /\ new[i] = rest[1]
        BY <1>1, <1>2, <1>3, <2>2
      <3>2. (done \o rest)[i] = rest[i - Len(done)] /\ i - Len(done) = 1
        BY <1>1, <1>2, <1>4, <2>2
      <3>3. QED BY <3>1, <3>2
    <2>3. CASE i > Len(done) + 1
      <3>1. (new \o t)[i] = t[i - Len(new)] /\ i - Len(new) \in 1 .. Len(t)
        BY <1>1, <1>2, <1>3, <2>3
      <3>2. t[i - Len(new)] = rest[i - Len(new) + 1] /\ i - Len(new) + 1 = i - Len(done)
        BY <1>1, <1>2, <3>1
      <3>3. (done \o rest)[i] = rest[i - Len(done)]
        BY <1>1, <1>2, <1>4, <2>3
      <3>4. QED BY <3>1, <3>2, <3>3
    <2>4. QED BY <1>1, <1>2, <2>1, <2>2, <2>3
  <1>6. new \o t = done \o rest
    BY <1>3, <1>4, <1>5, SeqEqual
  <1>7. QED BY <1>6 DEF new, t

-----------------------------------------------------------------------------
(* The records of a key.                                                     *)

LEMMA StoredKeys ==
  ASSUME NEW s, Stored(s), NEW a \in DOMAIN s
  PROVE  /\ a[1] \in Keys /\ a[2] \in Index /\ a = <<a[1], a[2]>>
         /\ a \in PKey /\ a # Invalid
  <1>1. a \in Keys \X Index
    BY DEF Stored
  <1>2. a \in PKey
    BY <1>1, LogAssumption, IndexType DEF PKey
  <1>3. QED BY <1>1, <1>2, InvalidIsNoKey

LEMMA StoredDomain ==
  ASSUME NEW s, Stored(s)
  PROVE  DOMAIN s \in SUBSET PKey
  BY StoredKeys

\* The seek for the latest record finds that of the largest index.
LEMMA SeekLatestFinds ==
  ASSUME NEW s, Stored(s), Extremal(DOMAIN s), NEW k \in Keys
  PROVE  \/ Records(s, k) = {} /\ SeekLatest(s, k) = Invalid
         \/ \E m \in Records(s, k) : /\ \A j \in Records(s, k) : j <= m
                                     /\ SeekLatest(s, k) = <<k, m>>
  <1> DEFINE S == {b \in DOMAIN s : Below(b, prefixUpperBound(k))}
             a == SeekLT(s, prefixUpperBound(k))
  <1>1. k \in Nat
    BY LogAssumption
  <1>2. \/ S = {} /\ a = Invalid
        \/ a \in S /\ \A b \in S : a = b \/ Below(b, a)
    BY StoredDomain, LargestFound DEF SeekLT
  <1>3. SeekLatest(s, k) = IF HasPrefix(a, k) THEN a ELSE Invalid
    BY DEF SeekLatest
  <1>4. \A j \in Records(s, k) : <<k, j>> \in S /\ j \in Nat
    BY <1>1, IndexType DEF Records, Below, prefixUpperBound
  <1>5. a \in S => a \in PKey /\ a = <<a[1], a[2]>> /\ a[1] <= k /\ a[2] \in Index /\ a # Invalid
    BY <1>1, StoredKeys DEF PKey, Below, prefixUpperBound
  <1> HIDE DEF a
  <1>6. CASE Records(s, k) = {}
    <2>1. ~HasPrefix(a, k)
      <3>1. SUFFICES ASSUME a \in S, a[1] = k PROVE FALSE
        BY <1>2 DEF HasPrefix
      <3>2. a[2] \in Records(s, k)
        BY <1>5, <3>1 DEF Records
      <3>3. QED BY <1>6, <3>2
    <2>2. QED BY <1>3, <1>6, <2>1
  <1>7. CASE Records(s, k) # {}
    <2>1. a \in S
      BY <1>2, <1>4, <1>7
    <2>2. a[1] = k
      <3>1. PICK j \in Records(s, k) : TRUE
        BY <1>7
      <3>2. <<k, j>> \in S /\ (a = <<k, j>> \/ Below(<<k, j>>, a))
        BY <1>2, <1>4, <2>1
      <3>3. QED BY <1>1, <1>5, <2>1, <3>2 DEF Below, PKey
    <2>3. a[2] \in Records(s, k) /\ a = <<k, a[2]>>
      BY <1>5, <2>1, <2>2 DEF Records
    <2>4. ASSUME NEW j \in Records(s, k) PROVE j <= a[2]
      <3>1. a = <<k, j>> \/ Below(<<k, j>>, a)
        BY <1>2, <1>4, <2>1
      <3>2. j \in Nat /\ k \in Nat /\ a[2] \in Nat
        BY <1>1, <1>4, <1>5, <2>1, IndexType
      <3>3. <<k, j>>[1] = k /\ <<k, j>>[2] = j
        OBVIOUS
      <3>4. CASE a = <<k, j>>
        BY <3>2, <3>3, <3>4
      <3>5. CASE Below(<<k, j>>, a)
        BY <2>2, <3>2, <3>3, <3>5 DEF Below
      <3>6. QED BY <3>1, <3>4, <3>5
    <2>5. SeekLatest(s, k) = a
      BY <1>3, <1>5, <2>1, <2>2 DEF HasPrefix
    <2>6. QED BY <2>3, <2>4, <2>5
  <1>8. QED BY <1>6, <1>7

LEMMA Flags ==
  /\ Older.flag = "older" /\ \A list : Latest(list).flag = "latest"
  /\ \A list : Latest(list).range = list /\ Latest(list) # Older
  BY DEF Older, Latest

\* A list the records of a key hold is what the seek and the range tell of it.
LEMMA HoldsContents ==
  ASSUME NEW s, Stored(s), Extremal(DOMAIN s), NEW k \in Keys, NEW list,
         Holds(s, k, list)
  PROVE  /\ Contents(s, k) = list
         /\ list = <<>> => SeekLatest(s, k) = Invalid
         /\ list # <<>> => /\ SeekLatest(s, k) = <<k, list[Len(list)]>>
                           /\ Decodes(s, SeekLatest(s, k))
                           /\ s[SeekLatest(s, k)].range = list
                           /\ SeekLatest(s, k) # Invalid
  <1>1. list \in Seq(Index) /\ Len(list) \in Nat /\ Records(s, k) = IndicesOf(list)
    BY LenProperties DEF Holds
  <1>2. CASE list = <<>>
    <2>1. Records(s, k) = {}
      BY <1>1, <1>2 DEF IndicesOf
    <2>2. SeekLatest(s, k) = Invalid
      BY <2>1, SeekLatestFinds
    <2>3. QED BY <1>2, <2>2 DEF Contents
  <1>3. CASE list # <<>>
    <2> DEFINE n == Len(list)
    <2>1. n \in Nat \ {0} /\ n \in 1 .. n
      BY <1>1, <1>3, EmptySeq
    <2>2. list[n] \in Records(s, k)
      BY <1>1, <2>1 DEF IndicesOf
    <2>3. PICK m \in Records(s, k) : /\ \A j \in Records(s, k) : j <= m
                                     /\ SeekLatest(s, k) = <<k, m>>
      BY <2>2, SeekLatestFinds
    <2>4. PICK j \in 1 .. n : m = list[j]
      BY <1>1 DEF IndicesOf
    <2>5. m = list[n]
      <3>1. list[n] <= m /\ list[n] \in Nat /\ m \in Nat
        BY <2>2, <2>3, IndexType DEF Records
      <3>2. j = n \/ list[j] < list[n]
        BY <2>1, <2>4 DEF Holds, Increasing
      <3>3. QED BY <2>4, <3>1, <3>2
    <2>6. s[<<k, m>>] = Latest(list)
      BY <2>1, <2>5 DEF Holds
    <2>7. SeekLatest(s, k) # Invalid
      BY <2>3 DEF Invalid
    <2>8. QED BY <1>3, <2>3, <2>5, <2>6, <2>7, Flags DEF Contents, Decodes
  <1>4. QED BY <1>2, <1>3

\* Two states with the same records of a key hold the same list for it.
LEMMA HoldsSame ==
  ASSUME NEW s, NEW t, NEW k \in Keys, NEW list, Holds(s, k, list),
         \A i \in Index : /\ <<k, i>> \in DOMAIN s <=> <<k, i>> \in DOMAIN t
                          /\ <<k, i>> \in DOMAIN s => s[<<k, i>>] = t[<<k, i>>]
  PROVE  Holds(t, k, list)
  <1>1. Records(t, k) = Records(s, k)
    BY DEF Records
  <1>2. \A i \in 1 .. Len(list) : list[i] \in Records(s, k)
    BY DEF Holds, IndicesOf
  <1>3. QED BY <1>1, <1>2 DEF Holds, Records

-----------------------------------------------------------------------------
(* Batches.                                                                  *)

LEMMA NoWritesFacts ==
  /\ Stored(NoWrites) /\ Extremal(DOMAIN NoWrites) /\ DOMAIN NoWrites = {}
  /\ IsMap(NoWrites)
  BY DEF NoWrites, Stored, Extremal, IsMap

LEMMA OverlayFacts ==
  ASSUME NEW b, NEW s
  PROVE  /\ DOMAIN Overlay(b, s) = DOMAIN b \cup DOMAIN s
         /\ IsMap(Overlay(b, s))
         /\ \A a \in DOMAIN b \cup DOMAIN s :
              Overlay(b, s)[a] = IF a \in DOMAIN b THEN b[a] ELSE s[a]
  BY DEF Overlay, IsMap

LEMMA OverlayStored ==
  ASSUME NEW b, Stored(b), Extremal(DOMAIN b), NEW s, Stored(s), Extremal(DOMAIN s)
  PROVE  Stored(Overlay(b, s)) /\ Extremal(DOMAIN Overlay(b, s))
  <1> DEFINE t == Overlay(b, s)
  <1>1. /\ DOMAIN t = DOMAIN b \cup DOMAIN s
        /\ \A a \in DOMAIN t : (t[a] = b[a] /\ a \in DOMAIN b) \/ (t[a] = s[a] /\ a \in DOMAIN s)
    BY DEF Overlay
  <1> HIDE DEF t
  <1>2. Stored(t)
    BY <1>1 DEF Stored
  <1>3. Extremal(DOMAIN b \cup DOMAIN s)
    BY StoredDomain, ExtremalUnion
  <1>4. QED BY <1>1, <1>2, <1>3 DEF t

LEMMA OverlayNothing ==
  ASSUME NEW s, IsMap(s)
  PROVE  Overlay(NoWrites, s) = s
  BY DEF Overlay, NoWrites, IsMap

\* One more write.
LEMMA SetFacts ==
  ASSUME NEW a \in Keys \X Index, NEW v, v = Older \/ v.range \in Seq(Index),
         NEW b, Stored(b), Extremal(DOMAIN b)
  PROVE  /\ Stored(Set(a, v, b)) /\ Extremal(DOMAIN Set(a, v, b)) /\ IsMap(Set(a, v, b))
         /\ \A c : c \in DOMAIN Set(a, v, b) <=> c = a \/ c \in DOMAIN b
         /\ Set(a, v, b)[a] = v
         /\ \A c \in DOMAIN b : c # a => Set(a, v, b)[c] = b[c]
  <1> DEFINE one == [c \in {a} |-> v]
  <1>1. DOMAIN one = {a} /\ one[a] = v
    OBVIOUS
  <1>2. Stored(one) /\ Extremal(DOMAIN one)
    BY <1>1, ExtremalSingle DEF Stored
  <1>3. Set(a, v, b) = Overlay(one, b)
    BY DEF Set
  <1> HIDE DEF one
  <1>4. Stored(Overlay(one, b)) /\ Extremal(DOMAIN Overlay(one, b))
    BY <1>2, OverlayStored
  <1>5. IsMap(Overlay(one, b))
    BY OverlayFacts
  <1>6. /\ DOMAIN Overlay(one, b) = {a} \cup DOMAIN b
        /\ Overlay(one, b)[a] = v
        /\ \A c \in DOMAIN b : c # a => Overlay(one, b)[c] = b[c]
    BY <1>1 DEF Overlay
  <1>7. QED
    BY <1>3, <1>4, <1>5, <1>6

\* How one more write changes what a commit would make.
LEMMA ViewSet ==
  ASSUME LogInv, NEW k \in Keys, NEW i \in Index, NEW v,
         v = Older \/ v.range \in Seq(Index),
         batch' = Set(<<k, i>>, v, batch), UNCHANGED db
  PROVE  /\ Stored(batch') /\ Extremal(DOMAIN batch')
         /\ IsMap(batch')
         /\ DOMAIN batch' = {<<k, i>>} \cup DOMAIN batch
         /\ DOMAIN View' = {<<k, i>>} \cup DOMAIN View
         /\ View'[<<k, i>>] = v
         /\ \A a \in DOMAIN View : a # <<k, i>> => View'[a] = View[a]
  <1>1. Stored(batch) /\ Extremal(DOMAIN batch)
    BY DEF LogInv, LogTypeOK
  <1> DEFINE a == <<k, i>>
             new == Set(a, v, batch)
  <1>2. a \in Keys \X Index
    OBVIOUS
  <1> HIDE DEF a
  <1>3. /\ Stored(new) /\ Extremal(DOMAIN new) /\ IsMap(new)
        /\ \A c : c \in DOMAIN new <=> c = a \/ c \in DOMAIN batch
        /\ new[a] = v /\ \A c \in DOMAIN batch : c # a => new[c] = batch[c]
    <2>1. Stored(Set(a, v, batch)) /\ Extremal(DOMAIN Set(a, v, batch)) /\ IsMap(Set(a, v, batch))
      BY <1>1, <1>2, SetFacts
    <2>2. \A c : c \in DOMAIN Set(a, v, batch) <=> c = a \/ c \in DOMAIN batch
      BY <1>1, <1>2, SetFacts
    <2>3. Set(a, v, batch)[a] = v
      BY <1>1, <1>2, SetFacts
    <2>4. \A c \in DOMAIN batch : c # a => Set(a, v, batch)[c] = batch[c]
      BY <1>1, <1>2, SetFacts
    <2>5. QED BY <2>1, <2>2, <2>3, <2>4
  <1> HIDE DEF new
  <1>4. batch' = new /\ View' = Overlay(new, db) /\ View = Overlay(batch, db)
    BY DEF View, new, a
  <1>5. /\ DOMAIN Overlay(new, db) = {a} \cup DOMAIN Overlay(batch, db)
        /\ Overlay(new, db)[a] = v
        /\ \A c \in DOMAIN Overlay(batch, db) :
             c # a => Overlay(new, db)[c] = Overlay(batch, db)[c]
    BY <1>3 DEF Overlay
  <1>6. QED BY <1>3, <1>4, <1>5 DEF a

\* A key other than that of the write keeps its records.
LEMMA ViewOthers ==
  ASSUME LogInv, NEW k \in Keys, NEW i \in Index, NEW v,
         v = Older \/ v.range \in Seq(Index),
         batch' = Set(<<k, i>>, v, batch), UNCHANGED db,
         NEW j \in Keys, j # k, NEW list, Holds(View, j, list)
  PROVE  Holds(View', j, list)
  <1>1. /\ DOMAIN View' = {<<k, i>>} \cup DOMAIN View
        /\ \A a \in DOMAIN View : a # <<k, i>> => View'[a] = View[a]
    BY ViewSet
  <1>2. \A n \in Index : <<j, n>> # <<k, i>>
    OBVIOUS
  <1>3. \A n \in Index : /\ <<j, n>> \in DOMAIN View <=> <<j, n>> \in DOMAIN View'
                         /\ <<j, n>> \in DOMAIN View => View[<<j, n>>] = View'[<<j, n>>]
    BY <1>1, <1>2
  <1>4. QED BY <1>3, HoldsSame

\* A key the batch does not touch has in the view what it has in the database.
LEMMA ViewUntouched ==
  ASSUME LogInv, NEW k \in Keys, \A a \in DOMAIN batch : a[1] # k
  PROVE  Holds(View, k, Contents(db, k))
  <1>1. Holds(db, k, Contents(db, k))
    BY DEF LogInv, LogState
  <1>2. \A n \in Index : <<k, n>>[1] = k
    OBVIOUS
  <1>3. \A n \in Index : /\ <<k, n>> \in DOMAIN db <=> <<k, n>> \in DOMAIN View
                         /\ <<k, n>> \in DOMAIN db => db[<<k, n>>] = View[<<k, n>>]
    BY <1>2 DEF View, Overlay
  <1>4. QED BY <1>1, <1>3, HoldsSame

-----------------------------------------------------------------------------
(* WriteBatch keeps the invariant.                                           *)

LEMMA NoBatch ==
  /\ Stored(NoWrites) /\ Extremal(DOMAIN NoWrites) /\ \A a \in DOMAIN NoWrites : FALSE
  /\ IsMap(NoWrites)
  /\ <<>> \in Seq(Index)
  BY NoWritesFacts, EmptySeq

\* The readers' part of the invariant is about rd alone.
LEMMA ReadersStay ==
  ASSUME LogInv, UNCHANGED rd
  PROVE  /\ (DOMAIN rd = Readers /\ \A r \in Readers : ReaderFollows(rd[r]))'
         /\ \A r \in Readers : rd'[r].pc \in {"idle", "scan", "done"}
  BY DEF LogInv, LogTypeOK

LEMMA WriteBatchInv ==
  ASSUME LogInv, NEW u \in Updates, WriteBatch(u)
  PROVE  LogInv'
  <1>1. /\ wpc = "idle" /\ New(u) /\ updates' = u /\ UNCHANGED <<db, key, range, pending, batch, rd>>
        /\ \/ DOMAIN u = {} /\ wpc' = "ack" /\ UNCHANGED <<todo, snap>>
           \/ wpc' = "keys" /\ todo' = DOMAIN u /\ snap' = db
    BY DEF WriteBatch
  <1>2. /\ todo = {} /\ snap = NoWrites /\ batch = NoWrites
    BY <1>1 DEF LogInv, LogTypeOK, KeysFollow
  <1>3. LogTypeOK'
    BY <1>1, <1>2, ReadersStay DEF LogInv, LogTypeOK, LogState
  <1>4. New(updates)'
    BY <1>1 DEF New, Records
  <1>5. KeysFollow'
    BY <1>1, <1>2, <1>4, NoBatch DEF KeysFollow
  <1>6. KeyInHand'
    BY <1>1 DEF KeyInHand
  <1>7. (IsMap(batch) /\ Extremal(DOMAIN batch) /\ LogState(db))'
    BY <1>1 DEF LogInv
  <1>8. QED BY <1>3, <1>5, <1>6, <1>7, <1>1, ReadersStay DEF LogInv

\* Every way out of the loop before the commit.
LEMMA ReleaseInv ==
  ASSUME LogInv, Release, wpc' \in {"idle", "ack", "failed"}, LogState(db)',
         updates' \in {updates, <<>>},
         (DOMAIN rd = Readers /\ \A r \in Readers : ReaderFollows(rd[r]))',
         \A r \in Readers : rd'[r].pc \in {"idle", "scan", "done"}
  PROVE  LogInv'
  <1>1. todo' = {} /\ snap' = NoWrites /\ batch' = NoWrites /\ range' = <<>> /\ pending' = <<>>
    BY DEF Release
  <1>2. LogTypeOK'
    BY <1>1, NoBatch DEF LogInv, LogTypeOK, LogState
  <1>3. KeysFollow' /\ KeyInHand'
    BY <1>1 DEF KeysFollow, KeyInHand
  <1>4. QED BY <1>1, <1>2, <1>3, NoBatch DEF LogInv

LEMMA StorageErrorInv == ASSUME LogInv, StorageError PROVE LogInv'
  <1>1. /\ wpc' = "failed" /\ Release /\ UNCHANGED <<db, updates, rd>>
    BY DEF StorageError
  <1>2. LogState(db)'
    BY <1>1 DEF LogInv
  <1>3. QED BY <1>1, <1>2, ReadersStay, ReleaseInv

LEMMA WriteReturnInv == ASSUME LogInv, WriteReturn PROVE LogInv'
  <1>1. /\ wpc \in {"ack", "failed"} /\ wpc' = "idle" /\ updates' = <<>>
        /\ UNCHANGED <<db, todo, snap, key, range, pending, batch, rd>>
    BY DEF WriteReturn
  <1>2. todo = {} /\ snap = NoWrites /\ batch = NoWrites
    BY <1>1 DEF LogInv, LogTypeOK, KeysFollow
  <1>3. LogTypeOK'
    BY <1>1, <1>2, ReadersStay DEF LogInv, LogTypeOK
  <1>4. KeysFollow' /\ KeyInHand'
    BY <1>1, <1>2 DEF KeysFollow, KeyInHand
  <1>5. (IsMap(batch) /\ Extremal(DOMAIN batch) /\ LogState(db))'
    BY <1>1 DEF LogInv
  <1>6. QED BY <1>3, <1>4, <1>5, <1>1, ReadersStay DEF LogInv

\* An empty list leaves its key as it is.
LEMMA SkipKeyInv ==
  ASSUME LogInv, NEW k \in todo, SkipKey(k)
  PROVE  LogInv'
  <1>1. /\ wpc = "keys" /\ updates[k] = <<>> /\ todo' = todo \ {k}
        /\ UNCHANGED <<db, wpc, updates, snap, key, range, pending, batch, rd>>
    BY DEF SkipKey, NextKeyToDo
  <1>2. /\ updates \in Updates /\ New(updates) /\ snap = db /\ todo \subseteq DOMAIN updates
        /\ \A a \in DOMAIN batch : a[1] \in DOMAIN updates \ todo
        /\ \A j \in DOMAIN updates \ todo : Holds(View, j, Contents(db, j) \o updates[j])
    BY <1>1 DEF LogInv, LogTypeOK, KeysFollow
  <1>3. View' = View /\ New(updates)'
    BY <1>1, <1>2 DEF View, New, Records
  <1>4. k \in Keys
    BY <1>2, LogAssumption
  <1>5. Holds(View, k, Contents(db, k) \o updates[k])
    <2>1. Holds(View, k, Contents(db, k))
      BY <1>2, <1>4, ViewUntouched
    <2>2. Contents(db, k) \in Seq(Index)
      BY <2>1 DEF Holds
    <2>3. Contents(db, k) \o updates[k] = Contents(db, k)
      BY <1>1, <2>2
    <2>4. QED BY <2>1, <2>3
  <1>6. LogTypeOK'
    BY <1>1, <1>2, ReadersStay DEF LogInv, LogTypeOK
  <1>7. KeysFollow'
    <2>1. \A j \in DOMAIN updates \ todo' : Holds(View, j, Contents(db, j) \o updates[j])
      BY <1>1, <1>2, <1>5
    <2>2. \A a \in DOMAIN batch : a[1] \in DOMAIN updates \ todo'
      BY <1>1, <1>2
    <2>3. /\ wpc' = "keys" /\ updates' = updates /\ snap' = db' /\ db' = db /\ batch' = batch
      BY <1>1, <1>2
    <2>4. \A j \in DOMAIN updates' \ todo' : Holds(View', j, Contents(db', j) \o updates'[j])
      BY <1>3, <2>1, <2>3
    <2>5. QED BY <1>2, <1>3, <2>2, <2>3, <2>4 DEF KeysFollow
  <1>8. KeyInHand'
    BY <1>1 DEF KeyInHand
  <1>9. (IsMap(batch) /\ Extremal(DOMAIN batch) /\ LogState(db))'
    BY <1>1 DEF LogInv
  <1>10. QED BY <1>6, <1>7, <1>8, <1>9, <1>1, ReadersStay DEF LogInv

\* Loading a key never fails, and takes the Latest flag off its last record.
LEMMA LoadKeyFacts ==
  ASSUME LogInv, NEW k \in todo, LoadKey(k)
  PROVE  /\ k \in Keys /\ wpc = "keys" /\ wpc' = "indices" /\ key' = k
         /\ todo' = todo \ {k} /\ pending' = updates[k] /\ updates[k] # <<>>
         /\ range' = Contents(db, k) /\ UNCHANGED <<db, updates, snap, rd>>
         /\ \/ Contents(db, k) = <<>> /\ batch' = batch
            \/ /\ Contents(db, k) # <<>>
               /\ batch' = Set(<<k, Contents(db, k)[Len(Contents(db, k))]>>, Older, batch)
  <1> DEFINE list == Contents(db, k)
             a == SeekLatest(db, k)
  <1>1. /\ wpc = "keys" /\ updates[k] # <<>> /\ UNCHANGED <<db, updates, rd>>
    BY DEF LoadKey, NextKeyToDo
  <1>2. updates \in Updates /\ todo \subseteq DOMAIN updates /\ snap = db
    BY <1>1 DEF LogInv, LogTypeOK, KeysFollow
  <1>3. k \in Keys
    BY <1>2, LogAssumption
  <1>4. Stored(db) /\ Extremal(DOMAIN db) /\ Holds(db, k, list)
    BY <1>3 DEF LogInv, LogState
  <1>5. /\ list = <<>> => a = Invalid
        /\ list # <<>> => /\ a = <<k, list[Len(list)]>> /\ Decodes(db, a)
                          /\ db[a].range = list /\ a # Invalid
    BY <1>3, <1>4, HoldsContents
  <1>6. IF a # Invalid /\ ~Decodes(db, a)
        THEN wpc' = "failed" /\ Release
        ELSE /\ wpc' = "indices" /\ key' = k /\ todo' = todo \ {k} /\ pending' = updates[k]
             /\ range' = IF a = Invalid THEN <<>> ELSE db[a].range
             /\ batch' = IF a = Invalid THEN batch ELSE Set(a, Older, batch)
             /\ UNCHANGED snap
    BY <1>2 DEF LoadKey
  <1> HIDE DEF a, list
  <1>7. CASE list = <<>>
    BY <1>1, <1>3, <1>5, <1>6, <1>7 DEF list
  <1>8. CASE list # <<>>
    BY <1>1, <1>3, <1>5, <1>6, <1>8 DEF list
  <1>9. QED BY <1>7, <1>8

LEMMA LoadKeyInv ==
  ASSUME LogInv, NEW k \in todo, LoadKey(k)
  PROVE  LogInv'
  <1> DEFINE list == Contents(db, k)
  <1>1. /\ k \in Keys /\ wpc = "keys" /\ wpc' = "indices" /\ key' = k
        /\ todo' = todo \ {k} /\ pending' = updates[k] /\ updates[k] # <<>>
        /\ range' = list /\ UNCHANGED <<db, updates, snap, rd>>
        /\ \/ list = <<>> /\ batch' = batch
           \/ list # <<>> /\ batch' = Set(<<k, list[Len(list)]>>, Older, batch)
    BY LoadKeyFacts
  <1>2. /\ updates \in Updates /\ New(updates) /\ snap = db /\ todo \subseteq DOMAIN updates
        /\ \A a \in DOMAIN batch : a[1] \in DOMAIN updates \ todo
        /\ \A j \in DOMAIN updates \ todo : Holds(View, j, Contents(db, j) \o updates[j])
    BY <1>1 DEF LogInv, LogTypeOK, KeysFollow
  <1>3. DOMAIN updates \subseteq Keys /\ updates[k] \in Seq(Index)
    BY <1>2, LogAssumption
  <1>4. /\ Holds(db, k, list) /\ Holds(View, k, list)
    BY <1>1, <1>2, ViewUntouched DEF LogInv, LogState
  <1>5. /\ list \in Seq(Index) /\ Increasing(list) /\ Len(list) \in Nat
        /\ Records(View, k) = IndicesOf(list) /\ Records(db, k) = IndicesOf(list)
        /\ \A i \in 1 .. Len(list) : /\ list[i] \in Records(View, k)
                                     /\ View[<<k, list[i]>>] = IF i = Len(list) THEN Latest(list) ELSE Older
    BY <1>4, LenProperties DEF Holds, IndicesOf
  <1> HIDE DEF list
  <1>6. \A j \in DOMAIN updates \ todo' : j # k => Holds(View', j, Contents(db, j) \o updates[j])
    <2> SUFFICES ASSUME NEW j \in DOMAIN updates \ todo, j # k
                 PROVE  Holds(View', j, Contents(db, j) \o updates[j])
      BY <1>1
    <2>1. Holds(View, j, Contents(db, j) \o updates[j]) /\ j \in Keys
      BY <1>2, <1>3
    <2>2. CASE list = <<>>
      BY <1>1, <2>1, <2>2 DEF View
    <2>3. CASE list # <<>>
      <3>1. list[Len(list)] \in Index
        BY <1>5, <2>3, EmptySeq, ElementOfSeq
      <3>2. QED BY <1>1, <2>1, <2>3, <3>1, ViewOthers
    <2>4. QED BY <2>2, <2>3
  <1>7. /\ Stored(batch') /\ Extremal(DOMAIN batch') /\ IsMap(batch')
        /\ \A a \in DOMAIN batch' : a[1] \in DOMAIN updates \ todo'
        /\ Records(View', k) = IndicesOf(list)
        /\ \A i \in IndicesOf(list) : View'[<<k, i>>] = Older
    <2>1. CASE list = <<>>
      <3>1. batch' = batch /\ View' = View /\ IndicesOf(list) = {}
        BY <1>1, <2>1 DEF View, IndicesOf
      <3>2. QED BY <1>1, <1>2, <1>5, <3>1 DEF LogInv, LogTypeOK
    <2>2. CASE list # <<>>
      <3> DEFINE m == list[Len(list)]
      <3>1. m \in Index /\ m \in IndicesOf(list) /\ Len(list) \in 1 .. Len(list)
        BY <1>5, <2>2, EmptySeq, ElementOfSeq DEF IndicesOf
      <3>2. batch' = Set(<<k, m>>, Older, batch) /\ UNCHANGED db
        BY <1>1, <2>2
      <3> HIDE DEF m
      <3>3. /\ Stored(batch') /\ Extremal(DOMAIN batch') /\ IsMap(batch')
            /\ DOMAIN batch' = {<<k, m>>} \cup DOMAIN batch
            /\ DOMAIN View' = {<<k, m>>} \cup DOMAIN View
            /\ View'[<<k, m>>] = Older
            /\ \A a \in DOMAIN View : a # <<k, m>> => View'[a] = View[a]
        <4>1. k \in Keys /\ m \in Index
          BY <1>1, <3>1
        <4>2. Older = Older \/ Older.range \in Seq(Index)
          OBVIOUS
        <4>3. QED BY <4>1, <4>2, <3>2, ViewSet, Zenon
      <3>4. \A a \in DOMAIN batch' : a[1] \in DOMAIN updates \ todo'
        <4>1. <<k, m>>[1] = k
          OBVIOUS
        <4>2. QED BY <1>1, <1>2, <3>3, <4>1
      <3>5. Records(View', k) = IndicesOf(list)
        <4>1. <<k, m>> \in DOMAIN View
          BY <1>5, <3>1 DEF Records
        <4>2. QED BY <1>5, <3>3, <4>1 DEF Records
      <3>6. ASSUME NEW i \in IndicesOf(list) PROVE View'[<<k, i>>] = Older
        <4>1. CASE i = m
          BY <3>3, <4>1
        <4>2. CASE i # m
          <5>1. <<k, i>> \in DOMAIN View /\ <<k, i>> # <<k, m>>
            BY <1>5, <4>2 DEF Records
          <5>2. PICK n \in 1 .. Len(list) : i = list[n]
            BY DEF IndicesOf
          <5>3. n # Len(list)
            BY <4>2, <5>2 DEF m
          <5>4. QED BY <1>5, <3>3, <5>1, <5>2, <5>3
        <4>3. QED BY <4>1, <4>2
      <3>7. QED BY <3>3, <3>4, <3>5, <3>6
    <2>3. QED BY <2>1, <2>2
  <1>8. New(updates)'
    BY <1>1, <1>2 DEF New, Records
  <1>9. LogTypeOK'
    BY <1>1, <1>2, <1>3, <1>5, <1>7, ReadersStay DEF LogInv, LogTypeOK
  <1>10. KeysFollow'
    BY <1>1, <1>2, <1>6, <1>7, <1>8 DEF KeysFollow
  <1>11. KeyInHand'
    <2>1. Ascends(updates[k]) /\ \A i \in IndicesOf(updates[k]), j \in Records(db, k) : j < i
      BY <1>1, <1>2 DEF New
    <2>2. Head(updates[k]) \in IndicesOf(updates[k])
      <3>1. Head(updates[k]) = updates[k][1] /\ 1 \in 1 .. Len(updates[k])
        BY <1>1, <1>3, HeadOf
      <3>2. QED BY <3>1 DEF IndicesOf
    <2>3. \A i \in 1 .. Len(list) : list[i] < Head(updates[k])
      BY <1>5, <2>1, <2>2 DEF IndicesOf
    <2>4. range' \o pending' = Contents(db', key') \o updates'[key']
      BY <1>1 DEF list
    <2>5. key' \in DOMAIN updates' \ todo'
      BY <1>1, <1>2
    <2>6. QED BY <1>1, <1>5, <1>7, <2>1, <2>3, <2>4, <2>5 DEF KeyInHand
  <1>12. QED BY <1>1, <1>7, <1>9, <1>10, <1>11, ReadersStay DEF LogInv

\* What KeyInHand says, and what a write for the key in hand makes of it.
LEMMA InHand ==
  ASSUME LogInv, wpc = "indices"
  PROVE  /\ key \in Keys /\ key \in DOMAIN updates \ todo /\ updates[key] \in Seq(Index)
         /\ pending \in Seq(Index) /\ pending # <<>> /\ Ascends(pending)
         /\ Head(pending) \in Index
         /\ range \in Seq(Index) /\ Increasing(range)
         /\ \A i \in 1 .. Len(range) : range[i] < Head(pending)
         /\ range \o pending = Contents(db, key) \o updates[key]
         /\ Records(View, key) = IndicesOf(range)
         /\ \A i \in IndicesOf(range) : View[<<key, i>>] = Older
         /\ updates \in Updates /\ New(updates) /\ snap = db
         /\ \A a \in DOMAIN batch : a[1] \in DOMAIN updates \ todo
         /\ \A k \in DOMAIN updates \ todo :
              k # key => Holds(View, k, Contents(db, k) \o updates[k])
  <1>1. /\ KeyInHand /\ KeysFollow /\ LogTypeOK
    BY DEF LogInv
  <1>2. key \in DOMAIN updates /\ updates \in Updates /\ pending \in Seq(Index) /\ pending # <<>>
    BY <1>1 DEF KeyInHand, KeysFollow, LogTypeOK
  <1>3. key \in Keys /\ updates[key] \in Seq(Index) /\ Head(pending) \in Index
    BY <1>2, LogAssumption, HeadOf
  <1>4. QED BY <1>1, <1>2, <1>3 DEF KeyInHand, KeysFollow, LogTypeOK

\* The next index of the key in hand, written with the flag v.
LEMMA SetInHand ==
  ASSUME LogInv, wpc = "indices", NEW v, v = Older \/ v.range \in Seq(Index),
         batch' = Set(<<key, Head(pending)>>, v, batch),
         UNCHANGED <<db, updates, todo, snap>>
  PROVE  LET list == Append(range, Head(pending))
         IN  /\ list \in Seq(Index) /\ Increasing(list)
             /\ \A i \in 1 .. Len(list) : list[i] <= Head(pending)
             /\ IndicesOf(list) = IndicesOf(range) \cup {Head(pending)}
             /\ Records(View', key) = IndicesOf(list)
             /\ View'[<<key, Head(pending)>>] = v
             /\ \A i \in IndicesOf(range) : i # Head(pending) /\ View'[<<key, i>>] = Older
             /\ Stored(batch') /\ Extremal(DOMAIN batch') /\ IsMap(batch')
             /\ \A a \in DOMAIN batch' : a[1] \in DOMAIN updates' \ todo'
             /\ \A k \in DOMAIN updates' \ todo' :
                  k # key => Holds(View', k, Contents(db', k) \o updates'[k])
             /\ New(updates)'
  <1> DEFINE h == Head(pending)
             list == Append(range, h)
  <1>1. /\ key \in Keys /\ h \in Index /\ key \in DOMAIN updates \ todo
        /\ range \in Seq(Index) /\ Increasing(range) /\ \A i \in 1 .. Len(range) : range[i] < h
        /\ Records(View, key) = IndicesOf(range)
        /\ \A i \in IndicesOf(range) : View[<<key, i>>] = Older
        /\ updates \in Updates /\ New(updates)
        /\ \A a \in DOMAIN batch : a[1] \in DOMAIN updates \ todo
        /\ \A k \in DOMAIN updates \ todo :
             k # key => Holds(View, k, Contents(db, k) \o updates[k])
    BY InHand
  <1>2. /\ list \in Seq(Index) /\ Increasing(list)
        /\ IndicesOf(list) = IndicesOf(range) \cup {h}
        /\ \A i \in 1 .. Len(list) : list[i] <= h
    BY <1>1, AppendIncreasing
  <1>3. batch' = Set(<<key, h>>, v, batch)
    OBVIOUS
  <1> HIDE DEF h, list
  <1>4. /\ Stored(batch') /\ Extremal(DOMAIN batch') /\ IsMap(batch')
        /\ DOMAIN batch' = {<<key, h>>} \cup DOMAIN batch
        /\ DOMAIN View' = {<<key, h>>} \cup DOMAIN View
        /\ View'[<<key, h>>] = v
        /\ \A a \in DOMAIN View : a # <<key, h>> => View'[a] = View[a]
    BY <1>1, <1>3, ViewSet
  <1>5. Records(View', key) = IndicesOf(list)
    BY <1>1, <1>2, <1>4 DEF Records
  <1>6. ASSUME NEW i \in IndicesOf(range)
        PROVE  i # h /\ View'[<<key, i>>] = Older
    <2>1. i < h /\ i \in Nat /\ h \in Nat
      <3>1. PICK n \in 1 .. Len(range) : i = range[n]
        BY DEF IndicesOf
      <3>2. range[n] \in Index
        BY <1>1, ElementOfSeq
      <3>3. QED BY <1>1, <3>1, <3>2, IndexType
    <2>2. <<key, i>> \in DOMAIN View /\ <<key, i>> # <<key, h>>
      BY <1>1, <2>1 DEF Records
    <2>3. QED BY <1>1, <1>4, <2>1, <2>2
  <1>7. \A a \in DOMAIN batch' : a[1] \in DOMAIN updates' \ todo'
    <2>1. <<key, h>>[1] = key
      OBVIOUS
    <2>2. QED BY <1>1, <1>4, <2>1
  <1>8. ASSUME NEW k \in DOMAIN updates' \ todo', k # key
        PROVE  Holds(View', k, Contents(db', k) \o updates'[k])
    <2>1. k \in Keys /\ Holds(View, k, Contents(db, k) \o updates[k])
      BY <1>1, <1>8, LogAssumption
    <2>2. Holds(View', k, Contents(db, k) \o updates[k])
      BY <1>1, <1>3, <1>8, <2>1, ViewOthers
    <2>3. QED BY <2>2
  <1>9. New(updates)'
    BY <1>1 DEF New, Records
  <1>10. QED BY <1>2, <1>4, <1>5, <1>6, <1>7, <1>8, <1>9 DEF h, list

LEMMA SetIntermediateInv == ASSUME LogInv, SetIntermediate PROVE LogInv'
  <1> DEFINE h == Head(pending)
             list == Append(range, h)
  <1>1. /\ wpc = "indices" /\ Len(pending) > 1 /\ range' = list /\ pending' = Tail(pending)
        /\ batch' = Set(<<key, h>>, Older, batch)
        /\ UNCHANGED <<db, wpc, updates, todo, snap, key, rd>>
    BY DEF SetIntermediate
  <1>2. /\ key \in Keys /\ key \in DOMAIN updates \ todo /\ h \in Index
        /\ pending \in Seq(Index) /\ pending # <<>> /\ Ascends(pending)
        /\ range \in Seq(Index)
        /\ range \o pending = Contents(db, key) \o updates[key]
        /\ updates \in Updates /\ snap = db
    BY <1>1, InHand
  <1>3. /\ Tail(pending) \in Seq(Index) /\ Tail(pending) # <<>> /\ Ascends(Tail(pending))
        /\ h < Head(Tail(pending)) /\ Head(Tail(pending)) \in Index
    BY <1>1, <1>2, HeadOf, TailAscends
  <1>4. list \o Tail(pending) = range \o pending
    BY <1>2, MoveHead
  <1>5. Older = Older \/ Older.range \in Seq(Index)
    OBVIOUS
  <1>6. /\ list \in Seq(Index) /\ Increasing(list)
        /\ \A i \in 1 .. Len(list) : list[i] <= h
        /\ IndicesOf(list) = IndicesOf(range) \cup {h}
        /\ Records(View', key) = IndicesOf(list)
        /\ View'[<<key, h>>] = Older
        /\ \A i \in IndicesOf(range) : i # h /\ View'[<<key, i>>] = Older
        /\ Stored(batch') /\ Extremal(DOMAIN batch') /\ IsMap(batch')
        /\ \A a \in DOMAIN batch' : a[1] \in DOMAIN updates' \ todo'
        /\ \A k \in DOMAIN updates' \ todo' :
             k # key => Holds(View', k, Contents(db', k) \o updates'[k])
        /\ New(updates)'
    BY <1>1, <1>5, SetInHand
  <1> HIDE DEF h, list
  <1>7. LogTypeOK'
    BY <1>1, <1>3, <1>6, ReadersStay DEF LogInv, LogTypeOK
  <1>8. KeysFollow'
    BY <1>1, <1>2, <1>6 DEF KeysFollow
  <1>9. KeyInHand'
    <2>1. \A i \in 1 .. Len(list) : list[i] < Head(Tail(pending))
      <3>1. h \in Nat /\ Head(Tail(pending)) \in Nat
        BY <1>2, <1>3, IndexType
      <3>2. \A i \in 1 .. Len(list) : list[i] \in Nat
        BY <1>6, IndexType, ElementOfSeq
      <3>3. QED BY <1>3, <1>6, <3>1, <3>2
    <2>2. \A i \in IndicesOf(list) : View'[<<key, i>>] = Older
      BY <1>6
    <2>3. list \o Tail(pending) = Contents(db', key') \o updates'[key']
      BY <1>1, <1>2, <1>4
    <2>4. QED BY <1>1, <1>2, <1>3, <1>6, <2>1, <2>2, <2>3 DEF KeyInHand
  <1>10. LogState(db)'
    BY <1>1 DEF LogInv
  <1>11. QED BY <1>1, <1>6, <1>7, <1>8, <1>9, <1>10, ReadersStay DEF LogInv

\* The record of the last index completes the list of its key.
LEMMA SetLastInv == ASSUME LogInv, SetLast PROVE LogInv'
  <1> DEFINE h == Head(pending)
             list == Append(range, h)
  <1>1. /\ wpc = "indices" /\ Len(pending) = 1 /\ wpc' = "keys"
        /\ batch' = Set(<<key, h>>, Latest(list), batch)
        /\ key' = 0 /\ range' = <<>> /\ pending' = <<>>
        /\ UNCHANGED <<db, updates, todo, snap, rd>>
    BY DEF SetLast
  <1>2. /\ key \in Keys /\ key \in DOMAIN updates \ todo /\ h \in Index
        /\ pending \in Seq(Index) /\ pending # <<>>
        /\ range \in Seq(Index) /\ Increasing(range)
        /\ \A i \in 1 .. Len(range) : range[i] < h
        /\ range \o pending = Contents(db, key) \o updates[key]
        /\ updates \in Updates /\ snap = db
    BY <1>1, InHand
  <1>3. list = Contents(db, key) \o updates[key]
    <2>1. Tail(pending) = <<>>
      BY <1>1, <1>2, HeadOf
    <2>2. list \o Tail(pending) = range \o pending /\ list \in Seq(Index)
      BY <1>2, MoveHead, AppendProperties
    <2> HIDE DEF list
    <2>3. list \o <<>> = list
      BY <2>2
    <2>4. QED BY <1>2, <2>1, <2>2, <2>3
  <1>4. Latest(list).range \in Seq(Index)
    <2>1. list \in Seq(Index)
      BY <1>2, AppendProperties
    <2>2. QED BY <2>1, Flags
  <1>5. /\ list \in Seq(Index) /\ Increasing(list)
        /\ IndicesOf(list) = IndicesOf(range) \cup {h}
        /\ Records(View', key) = IndicesOf(list)
        /\ View'[<<key, h>>] = Latest(list)
        /\ \A i \in IndicesOf(range) : i # h /\ View'[<<key, i>>] = Older
        /\ Stored(batch') /\ Extremal(DOMAIN batch') /\ IsMap(batch')
        /\ \A a \in DOMAIN batch' : a[1] \in DOMAIN updates' \ todo'
        /\ \A k \in DOMAIN updates' \ todo' :
             k # key => Holds(View', k, Contents(db', k) \o updates'[k])
        /\ New(updates)'
    BY <1>1, <1>4, SetInHand
  <1>6. /\ Len(list) = Len(range) + 1 /\ Len(range) \in Nat /\ list[Len(list)] = h
        /\ \A i \in 1 .. Len(range) : list[i] \in IndicesOf(range)
    BY <1>2, AppendProperties, LenProperties DEF IndicesOf
  <1> HIDE DEF h, list
  <1>7. Holds(View', key, list)
    <2>1. ASSUME NEW i \in 1 .. Len(list)
          PROVE  View'[<<key, list[i]>>] = IF i = Len(list) THEN Latest(list) ELSE Older
      <3>1. CASE i = Len(list)
        BY <1>5, <1>6, <3>1
      <3>2. CASE i # Len(list)
        <4>1. i \in 1 .. Len(range)
          BY <1>6, <3>2
        <4>2. QED BY <1>5, <1>6, <3>2, <4>1
      <3>3. QED BY <3>1, <3>2
    <2>2. QED BY <1>5, <2>1 DEF Holds
  <1>8. LogTypeOK'
    BY <1>1, <1>5, EmptySeq, ReadersStay DEF LogInv, LogTypeOK
  <1>9. KeysFollow'
    <2>1. \A k \in DOMAIN updates' \ todo' : Holds(View', k, Contents(db', k) \o updates'[k])
      BY <1>1, <1>3, <1>5, <1>7
    <2>2. QED BY <1>1, <1>2, <1>5, <2>1 DEF KeysFollow
  <1>10. KeyInHand'
    BY <1>1 DEF KeyInHand
  <1>11. LogState(db)'
    BY <1>1 DEF LogInv
  <1>12. QED BY <1>1, <1>5, <1>8, <1>9, <1>10, <1>11, ReadersStay DEF LogInv

\* What the commit makes of the log of a key: its list is appended.
LEMMA CommitHolds ==
  ASSUME LogInv, Commit
  PROVE  /\ wpc = "keys" /\ updates \in Updates /\ New(updates) /\ UNCHANGED <<updates, rd>>
         /\ Stored(db') /\ Extremal(DOMAIN db') /\ IsMap(db')
         /\ \A k \in Keys :
              Holds(db', k, IF k \in DOMAIN updates THEN Contents(db, k) \o updates[k]
                                                     ELSE Contents(db, k))
  <1>1. /\ wpc = "keys" /\ todo = {} /\ db' = View /\ UNCHANGED <<updates, rd>>
    BY DEF Commit, View
  <1>2. /\ updates \in Updates /\ New(updates)
        /\ \A a \in DOMAIN batch : a[1] \in DOMAIN updates
        /\ \A k \in DOMAIN updates : Holds(View, k, Contents(db, k) \o updates[k])
    BY <1>1 DEF LogInv, KeysFollow
  <1>3. /\ Stored(batch) /\ Extremal(DOMAIN batch) /\ Stored(db) /\ Extremal(DOMAIN db)
    BY DEF LogInv, LogTypeOK, LogState
  <1>4. Stored(View) /\ Extremal(DOMAIN View) /\ IsMap(View)
    BY <1>3, OverlayStored, OverlayFacts DEF View
  <1>5. ASSUME NEW k \in Keys
        PROVE  Holds(View, k, IF k \in DOMAIN updates THEN Contents(db, k) \o updates[k]
                                                       ELSE Contents(db, k))
    <2>1. CASE k \in DOMAIN updates
      BY <1>2, <2>1
    <2>2. CASE k \notin DOMAIN updates
      BY <1>2, <2>2, ViewUntouched
    <2>3. QED BY <2>1, <2>2
  <1>6. QED BY <1>1, <1>2, <1>4, <1>5

LEMMA CommitContents ==
  ASSUME LogInv, Commit, NEW k \in Keys
  PROVE  /\ Contents(db', k) = IF k \in DOMAIN updates THEN Contents(db, k) \o updates[k]
                                                         ELSE Contents(db, k)
         /\ Holds(db', k, Contents(db', k))
  <1>1. PICK list : /\ list = IF k \in DOMAIN updates THEN Contents(db, k) \o updates[k]
                                                        ELSE Contents(db, k)
                    /\ Holds(db', k, list)
    BY CommitHolds
  <1>2. Contents(db', k) = list
    BY <1>1, CommitHolds, HoldsContents
  <1>3. QED BY <1>1, <1>2

LEMMA CommitInv == ASSUME LogInv, Commit PROVE LogInv'
  <1>1. wpc' = "ack" /\ Release /\ UNCHANGED <<updates, rd>>
    BY DEF Commit
  <1>2. LogState(db)'
    BY CommitHolds, CommitContents DEF LogState
  <1>3. QED BY <1>1, <1>2, ReadersStay, ReleaseInv

-----------------------------------------------------------------------------
(* The readers keep the invariant.                                           *)

\* Of a set of records that has of a key those after its n-th and otherwise only
\* records of later keys, the smallest is the next of the key's log, if any.
LEMMA NextInLog ==
  ASSUME NEW s, Stored(s), Extremal(DOMAIN s), NEW k \in Keys, NEW list, Holds(s, k, list),
         NEW n \in 0 .. Len(list), NEW S \in SUBSET DOMAIN s,
         \A i \in 1 .. Len(list) : <<k, list[i]>> \in S <=> n < i,
         \A a \in S : k <= a[1]
  PROVE  Bounded(Smallest(S), k) = IF n = Len(list) THEN Invalid ELSE <<k, list[n + 1]>>
  <1> DEFINE a == Smallest(S)
  <1>1. /\ list \in Seq(Index) /\ Len(list) \in Nat /\ k \in Nat /\ n \in Nat
        /\ Records(s, k) = IndicesOf(list) /\ Increasing(list)
    BY LenProperties, LogAssumption DEF Holds
  <1>2. \/ S = {} /\ a = Invalid
        \/ a \in S /\ \A b \in S : a = b \/ Below(a, b)
    BY StoredDomain, SmallestFound
  <1>3. a \in S => /\ a[1] \in Nat /\ a[2] \in Index /\ a = <<a[1], a[2]>>
                   /\ a # Invalid /\ k <= a[1]
    BY StoredKeys, LogAssumption
  <1>4. Bounded(a, k) = IF HasPrefix(a, k) THEN a ELSE Invalid
    BY DEF Bounded
  <1> HIDE DEF a
  <1>5. ASSUME a \in S, a[1] = k
        PROVE  \E i \in 1 .. Len(list) : n < i /\ a = <<k, list[i]>>
    <2>1. a[2] \in IndicesOf(list) /\ a = <<k, a[2]>>
      BY <1>1, <1>3, <1>5 DEF Records
    <2>2. PICK i \in 1 .. Len(list) : a[2] = list[i]
      BY <2>1 DEF IndicesOf
    <2>3. QED BY <1>5, <2>1, <2>2
  <1>6. CASE n = Len(list)
    <2>1. ~HasPrefix(a, k)
      BY <1>1, <1>2, <1>5, <1>6 DEF HasPrefix
    <2>2. QED BY <1>4, <1>6, <2>1 DEF a
  <1>7. CASE n # Len(list)
    <2> DEFINE x == <<k, list[n + 1]>>
    <2>1. n + 1 \in 1 .. Len(list) /\ n < n + 1
      BY <1>1, <1>7
    <2>2. x \in S /\ x[1] = k /\ x[2] = list[n + 1] /\ list[n + 1] \in Nat /\ x # Invalid
      BY <1>1, <2>1, IndexType, ElementOfSeq DEF Invalid
    <2>3. a \in S /\ (a = x \/ Below(a, x))
      BY <1>2, <2>2
    <2>4. a = x
      <3>1. SUFFICES ASSUME Below(a, x) PROVE FALSE
        BY <2>3
      <3>2. a[1] = k /\ a[2] < list[n + 1]
        BY <1>1, <1>3, <2>2, <2>3, <3>1 DEF Below
      <3>3. PICK i \in 1 .. Len(list) : n < i /\ a = <<k, list[i]>>
        BY <1>5, <2>3, <3>2
      <3>4. list[i] < list[n + 1] /\ list[i] \in Nat
        <4>1. list[i] \in Index /\ a[2] = list[i]
          BY <1>1, <3>3, ElementOfSeq
        <4>2. QED BY <3>2, <4>1, IndexType
      <3>5. i = n + 1 \/ list[n + 1] < list[i]
        BY <1>1, <2>1, <3>3 DEF Increasing
      <3>6. QED BY <2>2, <3>4, <3>5
    <2>5. HasPrefix(x, k)
      BY <2>2 DEF HasPrefix
    <2>6. QED BY <1>4, <1>7, <2>4, <2>5 DEF a
  <1>8. QED BY <1>6, <1>7

\* Where the iterator lands at first.
LEMMA FirstInLog ==
  ASSUME NEW s, Stored(s), Extremal(DOMAIN s), NEW k \in Keys, NEW list, Holds(s, k, list)
  PROVE  Bounded(SeekGE(s, BarePrefix(k)), k) = IF Len(list) = 0 THEN Invalid ELSE <<k, list[1]>>
  <1> DEFINE S == {b \in DOMAIN s : ~Below(b, BarePrefix(k))}
  <1>1. /\ list \in Seq(Index) /\ Len(list) \in Nat /\ k \in Nat
        /\ Records(s, k) = IndicesOf(list)
    BY LenProperties, LogAssumption DEF Holds
  <1>2. \A i \in 1 .. Len(list) : <<k, list[i]>> \in S <=> 0 < i
    <2> SUFFICES ASSUME NEW i \in 1 .. Len(list) PROVE <<k, list[i]>> \in S
      BY <1>1
    <2>1. list[i] \in Nat /\ <<k, list[i]>> \in DOMAIN s
      BY <1>1, IndexType, ElementOfSeq DEF Records, IndicesOf
    <2>2. QED BY <1>1, <2>1 DEF Below, BarePrefix
  <1>3. \A a \in S : k <= a[1]
    <2> SUFFICES ASSUME NEW a \in S PROVE k <= a[1]
      OBVIOUS
    <2>1. a[1] \in Nat /\ ~(a[1] < k)
      BY StoredKeys, LogAssumption DEF Below, BarePrefix
    <2>2. QED BY <1>1, <2>1
  <1>4. S \in SUBSET DOMAIN s /\ 0 \in 0 .. Len(list) /\ SeekGE(s, BarePrefix(k)) = Smallest(S)
    BY <1>1 DEF SeekGE
  <1> HIDE DEF S
  <1>5. Bounded(Smallest(S), k) = IF 0 = Len(list) THEN Invalid ELSE <<k, list[0 + 1]>>
    BY <1>2, <1>3, <1>4, NextInLog
  <1>6. QED BY <1>4, <1>5

\* Where it lands next.
LEMMA NextKeyInLog ==
  ASSUME NEW s, Stored(s), Extremal(DOMAIN s), NEW k \in Keys, NEW list, Holds(s, k, list),
         NEW n \in 1 .. Len(list)
  PROVE  Bounded(NextKey(s, <<k, list[n]>>), k)
           = IF n = Len(list) THEN Invalid ELSE <<k, list[n + 1]>>
  <1> DEFINE p == <<k, list[n]>>
             S == {b \in DOMAIN s : Below(p, b)}
  <1>1. /\ list \in Seq(Index) /\ Len(list) \in Nat /\ k \in Nat /\ n \in Nat
        /\ Records(s, k) = IndicesOf(list) /\ Increasing(list)
        /\ \A i \in 1 .. Len(list) : list[i] \in Nat
    <2>1. list \in Seq(Index) /\ Records(s, k) = IndicesOf(list) /\ Increasing(list)
      BY DEF Holds
    <2>2. Len(list) \in Nat /\ k \in Nat /\ \A i \in 1 .. Len(list) : list[i] \in Nat
      BY <2>1, LenProperties, LogAssumption, IndexType, ElementOfSeq
    <2>3. QED BY <2>1, <2>2
  <1>2. p[1] = k /\ p[2] = list[n]
    OBVIOUS
  <1>3. \A i \in 1 .. Len(list) : <<k, list[i]>> \in S <=> n < i
    <2> SUFFICES ASSUME NEW i \in 1 .. Len(list)
                 PROVE  <<k, list[i]>> \in S <=> n < i
      OBVIOUS
    <2>1. <<k, list[i]>> \in DOMAIN s
      BY <1>1 DEF Records, IndicesOf
    <2>2. Below(p, <<k, list[i]>>) <=> list[n] < list[i]
      BY <1>1, <1>2 DEF Below
    <2>3. list[n] < list[i] <=> n < i
      BY <1>1 DEF Increasing
    <2>4. QED BY <2>1, <2>2, <2>3
  <1>4. \A a \in S : k <= a[1]
    <2> SUFFICES ASSUME NEW a \in S PROVE k <= a[1]
      OBVIOUS
    <2>1. a[1] \in Nat /\ (k < a[1] \/ k = a[1])
      BY <1>2, StoredKeys, LogAssumption DEF Below
    <2>2. QED BY <1>1, <2>1
  <1>5. S \in SUBSET DOMAIN s /\ n \in 0 .. Len(list) /\ NextKey(s, p) = Smallest(S)
    BY <1>1 DEF NextKey
  <1> HIDE DEF S, p
  <1>6. Bounded(Smallest(S), k) = IF n = Len(list) THEN Invalid ELSE <<k, list[n + 1]>>
    BY <1>3, <1>4, <1>5, NextInLog
  <1>7. QED BY <1>5, <1>6 DEF p

\* Prefixes of a list.
LEMMA PrefixOf ==
  ASSUME NEW list \in Seq(Index)
  PROVE  /\ SubSeq(list, 1, 0) = <<>> /\ SubSeq(list, 1, Len(list)) = list
         /\ \A n \in 0 .. Len(list) : Len(SubSeq(list, 1, n)) = n
         /\ \A n \in 0 .. Len(list) : n # Len(list) =>
              Append(SubSeq(list, 1, n), list[n + 1]) = SubSeq(list, 1, n + 1)
         /\ \A n \in Nat : From(list, n) \in Seq(Index)
  <1>1. Len(list) \in Nat
    BY LenProperties
  <1>2. \A n \in 0 .. Len(list) :
          /\ SubSeq(list, 1, n) \in Seq(Index) /\ Len(SubSeq(list, 1, n)) = n
          /\ \A i \in 1 .. n : SubSeq(list, 1, n)[i] = list[i]
    BY <1>1, SubSeqProperties
  <1>3. SubSeq(list, 1, 0) = <<>>
    BY <1>1, <1>2, EmptySeq
  <1>4. SubSeq(list, 1, Len(list)) = list
    BY <1>1, <1>2, SeqEqual
  <1>5. ASSUME NEW n \in 0 .. Len(list), n # Len(list)
        PROVE  Append(SubSeq(list, 1, n), list[n + 1]) = SubSeq(list, 1, n + 1)
    <2> DEFINE p == SubSeq(list, 1, n)  x == list[n + 1]  q == SubSeq(list, 1, n + 1)
    <2>1. n + 1 \in 0 .. Len(list) /\ n + 1 \in 1 .. Len(list) /\ n \in Nat
      BY <1>1, <1>5
    <2>2. /\ p \in Seq(Index) /\ Len(p) = n /\ \A i \in 1 .. n : p[i] = list[i]
          /\ q \in Seq(Index) /\ Len(q) = n + 1 /\ \A i \in 1 .. n + 1 : q[i] = list[i]
          /\ x \in Index
      BY <1>2, <2>1, ElementOfSeq
    <2>3. /\ Append(p, x) \in Seq(Index) /\ Len(Append(p, x)) = n + 1
          /\ \A i \in 1 .. n : Append(p, x)[i] = p[i]
          /\ Append(p, x)[n + 1] = x
      BY <2>2, AppendProperties
    <2>4. \A i \in 1 .. n + 1 : Append(p, x)[i] = q[i]
      BY <2>1, <2>2, <2>3
    <2> HIDE DEF p, q
    <2>5. Append(p, x) = q
      BY <2>2, <2>3, <2>4, SeqEqual
    <2>6. QED BY <2>5 DEF p, q
  <1>6. ASSUME NEW n \in Nat PROVE From(list, n) \in Seq(Index)
    BY <1>1, SubSeqProperties DEF From
  <1>7. QED BY <1>2, <1>3, <1>4, <1>5, <1>6

\* A step of a reader.
LEMMA BecomesInv ==
  ASSUME LogInv, NEW r \in Readers, NEW q, Becomes(r, q), ReaderFollows(q)
  PROVE  LogInv'
  <1>1. /\ rd' = [rd EXCEPT ![r] = q]
        /\ UNCHANGED <<db, wpc, updates, todo, snap, key, range, pending, batch>>
    BY DEF Becomes, writer
  <1>2. DOMAIN rd = Readers /\ \A x \in Readers : ReaderFollows(rd[x])
    BY DEF LogInv
  <1>3. /\ DOMAIN rd' = Readers
        /\ \A x \in Readers : rd'[x] = IF x = r THEN q ELSE rd[x]
    BY <1>1, <1>2
  <1>4. \A x \in Readers : ReaderFollows(rd'[x])
    BY <1>2, <1>3
  <1>5. q.pc \in {"idle", "scan", "done"}
    <2>1. CASE q = NoRead
      BY <2>1 DEF NoRead
    <2>2. CASE q \in [pc : {"done"}, ok : {TRUE}, val : Seq(Index)]
      BY <2>2
    <2>3. CASE q = [pc |-> "scan", key |-> q.key, start |-> q.start, snap |-> q.snap,
                    pos |-> q.pos, indices |-> q.indices]
      BY <2>3
    <2>4. QED BY <2>1, <2>2, <2>3 DEF ReaderFollows
  <1>6. LogTypeOK'
    <2>1. \A x \in Readers : rd'[x].pc \in {"idle", "scan", "done"}
      BY <1>3, <1>5 DEF LogInv, LogTypeOK
    <2>2. QED BY <1>1, <2>1 DEF LogInv, LogTypeOK
  <1>7. View' = View
    BY <1>1 DEF View
  <1>8. KeysFollow'
    BY <1>1, <1>7 DEF LogInv, KeysFollow, New, Records
  <1>9. KeyInHand'
    BY <1>1, <1>7 DEF LogInv, KeyInHand
  <1>10. (IsMap(batch) /\ Extremal(DOMAIN batch) /\ LogState(db))'
    BY <1>1 DEF LogInv
  <1>11. QED BY <1>3, <1>4, <1>6, <1>8, <1>9, <1>10 DEF LogInv

\* A scan that has collected the first n of the log of its key.
LEMMA ScanFollows ==
  ASSUME NEW s, LogState(s), NEW k \in Keys, NEW start \in Index,
         NEW n \in 0 .. Len(Contents(s, k)), NEW pos, NEW indices,
         indices = SubSeq(Contents(s, k), 1, n),
         pos = IF n = Len(Contents(s, k)) THEN Invalid ELSE <<k, Contents(s, k)[n + 1]>>
  PROVE  ReaderFollows([pc |-> "scan", key |-> k, start |-> start, snap |-> s,
                        pos |-> pos, indices |-> indices])
  <1>1. Contents(s, k) \in Seq(Index)
    BY DEF LogState, Holds
  <1>2. Len(indices) = n
    BY <1>1, PrefixOf
  <1>3. QED BY <1>2 DEF ReaderFollows

LEMMA LookupInv ==
  ASSUME LogInv, NEW r \in Readers, NEW k \in Keys, NEW start \in Index, Lookup(r, k, start)
  PROVE  LogInv'
  <1> DEFINE list == Contents(db, k)
             pos == Bounded(SeekGE(db, BarePrefix(k)), k)
  <1>1. /\ LogState(db) /\ Stored(db) /\ Extremal(DOMAIN db) /\ Holds(db, k, list)
    BY DEF LogInv, LogState
  <1>2. list \in Seq(Index) /\ Len(list) \in Nat
    BY <1>1, LenProperties DEF Holds
  <1>3. pos = IF Len(list) = 0 THEN Invalid ELSE <<k, list[1]>>
    BY <1>1, FirstInLog
  <1>4. 0 \in 0 .. Len(list) /\ <<>> = SubSeq(list, 1, 0)
    BY <1>2, PrefixOf
  <1>5. Becomes(r, [pc |-> "scan", key |-> k, start |-> start, snap |-> db,
                    pos |-> pos, indices |-> <<>>])
    BY DEF Lookup
  <1> HIDE DEF pos
  <1>6. pos = IF 0 = Len(list) THEN Invalid ELSE <<k, list[0 + 1]>>
    BY <1>3
  <1>7. ReaderFollows([pc |-> "scan", key |-> k, start |-> start, snap |-> db,
                       pos |-> pos, indices |-> <<>>])
    BY <1>1, <1>4, <1>6, ScanFollows
  <1>8. QED BY <1>5, <1>7, BecomesInv

\* What the invariant says of a reader in the middle of a scan.
LEMMA Scanning ==
  ASSUME LogInv, NEW r \in Readers, rd[r].pc = "scan"
  PROVE  LET q    == rd[r]
             list == Contents(q.snap, q.key)
             n    == Len(q.indices)
         IN  /\ q = [pc |-> "scan", key |-> q.key, start |-> q.start, snap |-> q.snap,
                     pos |-> q.pos, indices |-> q.indices]
             /\ q.key \in Keys /\ q.start \in Index /\ LogState(q.snap)
             /\ list \in Seq(Index) /\ Holds(q.snap, q.key, list)
             /\ n \in 0 .. Len(list) /\ q.indices = SubSeq(list, 1, n)
             /\ q.pos = IF n = Len(list) THEN Invalid ELSE <<q.key, list[n + 1]>>
  <1>1. ReaderFollows(rd[r]) /\ rd[r] # NoRead
        /\ rd[r] \notin [pc : {"done"}, ok : {TRUE}, val : Seq(Index)]
    <2>1. ReaderFollows(rd[r])
      BY DEF LogInv
    <2>2. NoRead.pc = "idle" /\ \A q \in [pc : {"done"}, ok : {TRUE}, val : Seq(Index)] : q.pc = "done"
      BY DEF NoRead
    <2>3. QED BY <2>1, <2>2
  <1> DEFINE q == rd[r]
  <1>2. /\ q = [pc |-> "scan", key |-> q.key, start |-> q.start, snap |-> q.snap,
                pos |-> q.pos, indices |-> q.indices]
        /\ q.key \in Keys /\ q.start \in Index /\ LogState(q.snap)
        /\ LET all == Contents(q.snap, q.key)
               n   == Len(q.indices)
           IN  /\ n \in 0 .. Len(all) /\ q.indices = SubSeq(all, 1, n)
               /\ q.pos = IF n = Len(all) THEN Invalid ELSE <<q.key, all[n + 1]>>
    BY <1>1 DEF ReaderFollows
  <1>3. Holds(q.snap, q.key, Contents(q.snap, q.key))
    BY <1>2 DEF LogState
  <1>4. Contents(q.snap, q.key) \in Seq(Index)
    BY <1>3 DEF Holds
  <1>5. QED BY <1>2, <1>3, <1>4

\* The record a Visit leaves.
LEMMA VisitRecord ==
  ASSUME LogInv, NEW r \in Readers, Visit(r)
  PROVE  LET q == rd[r]
         IN  Becomes(r, [pc |-> "scan", key |-> q.key, start |-> q.start, snap |-> q.snap,
                         pos |-> Bounded(NextKey(q.snap, q.pos), q.key),
                         indices |-> Append(q.indices, q.pos[2])])
  <1> DEFINE q    == rd[r]
             pos  == Bounded(NextKey(q.snap, q.pos), q.key)
             more == Append(q.indices, q.pos[2])
  <1>1. Becomes(r, [q EXCEPT !.indices = more, !.pos = pos])
    BY DEF Visit
  <1>2. [q EXCEPT !.indices = more, !.pos = pos]
          = [pc |-> "scan", key |-> q.key, start |-> q.start, snap |-> q.snap,
             pos |-> pos, indices |-> more]
    <2> DEFINE x1 == q.key  x2 == q.start  x3 == q.snap  x4 == q.pos  x5 == q.indices
    <2>1. q = [pc |-> "scan", key |-> x1, start |-> x2, snap |-> x3, pos |-> x4, indices |-> x5]
      BY Scanning DEF Visit
    <2> HIDE DEF x1, x2, x3, x4, x5, pos, more
    <2>2. [q EXCEPT !.indices = more, !.pos = pos]
            = [pc |-> "scan", key |-> x1, start |-> x2, snap |-> x3,
               pos |-> pos, indices |-> more]
      <3>1. [q EXCEPT !.indices = more]
              = [pc |-> "scan", key |-> x1, start |-> x2, snap |-> x3, pos |-> x4, indices |-> more]
        BY <2>1
      <3>2. [[pc |-> "scan", key |-> x1, start |-> x2, snap |-> x3, pos |-> x4, indices |-> more]
               EXCEPT !.pos = pos]
              = [pc |-> "scan", key |-> x1, start |-> x2, snap |-> x3, pos |-> pos, indices |-> more]
        OBVIOUS
      <3>3. QED BY <3>1, <3>2
    <2>3. QED BY <2>2 DEF x1, x2, x3
  <1>3. QED BY <1>1, <1>2

LEMMA VisitBecomes ==
  ASSUME LogInv, NEW r \in Readers, Visit(r)
  PROVE  \E q : /\ Becomes(r, q) /\ q.pc = "scan" /\ q.snap = rd[r].snap
                /\ q.key = rd[r].key /\ q.start = rd[r].start
  <1> DEFINE q    == rd[r]
             pos  == Bounded(NextKey(q.snap, q.pos), q.key)
             more == Append(q.indices, q.pos[2])
             next == [pc |-> "scan", key |-> q.key, start |-> q.start, snap |-> q.snap,
                      pos |-> pos, indices |-> more]
  <1>1. Becomes(r, next)
    BY VisitRecord
  <1>2. /\ next.pc = "scan" /\ next.snap = rd[r].snap
        /\ next.key = rd[r].key /\ next.start = rd[r].start
    OBVIOUS
  <1> HIDE DEF next
  <1>3. QED BY <1>1, <1>2

LEMMA VisitInv ==
  ASSUME LogInv, NEW r \in Readers, Visit(r)
  PROVE  LogInv'
  <1> DEFINE q    == rd[r]
             s    == q.snap
             k    == q.key
             list == Contents(s, k)
             n    == Len(q.indices)
             pos  == Bounded(NextKey(s, q.pos), k)
             more == Append(q.indices, q.pos[2])
  <1>1. q.pc = "scan" /\ q.pos # Invalid
    BY DEF Visit
  <1>2. /\ q = [pc |-> "scan", key |-> k, start |-> q.start, snap |-> s,
                pos |-> q.pos, indices |-> q.indices]
        /\ k \in Keys /\ q.start \in Index /\ LogState(s)
        /\ list \in Seq(Index) /\ Holds(s, k, list)
        /\ n \in 0 .. Len(list) /\ q.indices = SubSeq(list, 1, n)
        /\ q.pos = IF n = Len(list) THEN Invalid ELSE <<k, list[n + 1]>>
    BY <1>1, Scanning
  <1>3. n # Len(list) /\ q.pos = <<k, list[n + 1]>>
    BY <1>1, <1>2
  <1>4. n \in Nat /\ n + 1 \in 1 .. Len(list) /\ n + 1 \in 0 .. Len(list) /\ Len(list) \in Nat
    BY <1>2, <1>3, LenProperties
  <1>5. Stored(s) /\ Extremal(DOMAIN s)
    BY <1>2 DEF LogState
  <1>6. Becomes(r, [pc |-> "scan", key |-> k, start |-> q.start, snap |-> s,
                    pos |-> pos, indices |-> more])
    BY VisitRecord
  <1>7. pos = IF n + 1 = Len(list) THEN Invalid ELSE <<k, list[n + 1 + 1]>>
    <2>1. Bounded(NextKey(s, <<k, list[n + 1]>>), k)
            = IF n + 1 = Len(list) THEN Invalid ELSE <<k, list[n + 1 + 1]>>
      BY <1>2, <1>4, <1>5, NextKeyInLog
    <2>2. QED BY <1>3, <2>1
  <1>8. more = SubSeq(list, 1, n + 1)
    <2>1. q.pos[2] = list[n + 1]
      BY <1>3
    <2>2. Append(SubSeq(list, 1, n), list[n + 1]) = SubSeq(list, 1, n + 1)
      BY <1>2, <1>3, PrefixOf
    <2>3. QED BY <1>2, <2>1, <2>2
  <1> HIDE DEF pos, more
  <1>9. ReaderFollows([pc |-> "scan", key |-> k, start |-> q.start, snap |-> s,
                       pos |-> pos, indices |-> more])
    BY <1>2, <1>4, <1>7, <1>8, ScanFollows
  <1>10. QED BY <1>6, <1>9, BecomesInv

\* A finished scan has collected the whole log of its key.
LEMMA FinishLookupAnswers ==
  ASSUME LogInv, NEW r \in Readers, FinishLookup(r)
  PROVE  LET list == Contents(rd[r].snap, rd[r].key)
         IN  /\ rd[r].pc = "scan"
             /\ list \in Seq(Index) /\ rd[r].start \in Index
             /\ Becomes(r, Answer(TRUE, From(list, rd[r].start)))
  <1> DEFINE q    == rd[r]
             list == Contents(q.snap, q.key)
             n    == Len(q.indices)
  <1>1. /\ q.pc = "scan" /\ q.pos = Invalid /\ Becomes(r, Answer(TRUE, From(q.indices, q.start)))
    BY DEF FinishLookup
  <1>2. /\ list \in Seq(Index) /\ q.start \in Index
        /\ n \in 0 .. Len(list) /\ q.indices = SubSeq(list, 1, n)
        /\ q.pos = IF n = Len(list) THEN Invalid ELSE <<q.key, list[n + 1]>>
    BY <1>1, Scanning
  <1>3. n = Len(list)
    <2>1. \A x, y : <<x, y>> # Invalid
      BY DEF Invalid
    <2> HIDE DEF n, list
    <2>2. QED BY <1>1, <1>2, <2>1
  <1>4. q.indices = list
    BY <1>2, <1>3, PrefixOf
  <1>5. QED BY <1>1, <1>2, <1>4

LEMMA AnswerFollows ==
  ASSUME NEW val \in Seq(Index)
  PROVE  ReaderFollows(Answer(TRUE, val))
  BY DEF ReaderFollows, Answer

LEMMA FinishLookupInv ==
  ASSUME LogInv, NEW r \in Readers, FinishLookup(r)
  PROVE  LogInv'
  <1>1. PICK list \in Seq(Index), start \in Index : Becomes(r, Answer(TRUE, From(list, start)))
    BY FinishLookupAnswers
  <1>2. From(list, start) \in Seq(Index)
    BY PrefixOf, IndexType
  <1>3. ReaderFollows(Answer(TRUE, From(list, start)))
    BY <1>2, AnswerFollows
  <1>4. QED BY <1>1, <1>3, BecomesInv

\* GetSubRoot answers with the log of its key.
LEMMA GetSubRootAnswers ==
  ASSUME LogInv, NEW r \in Readers, NEW k \in Keys, GetSubRoot(r, k)
  PROVE  /\ rd[r] = NoRead /\ Contents(db, k) \in Seq(Index)
         /\ Becomes(r, Answer(TRUE, Contents(db, k)))
  <1> DEFINE list == Contents(db, k)
             a == SeekLatest(db, k)
  <1>1. /\ Stored(db) /\ Extremal(DOMAIN db) /\ Holds(db, k, list)
    BY DEF LogInv, LogState
  <1>2. /\ list = <<>> => a = Invalid
        /\ list # <<>> => Decodes(db, a) /\ db[a].range = list /\ a # Invalid
    BY <1>1, HoldsContents
  <1>3. /\ rd[r] = NoRead
        /\ Becomes(r, IF a = Invalid THEN Answer(TRUE, <<>>)
                      ELSE IF Decodes(db, a) THEN Answer(TRUE, db[a].range)
                      ELSE Answer(FALSE, <<>>))
    BY DEF GetSubRoot
  <1>4. list \in Seq(Index)
    BY <1>1 DEF Holds
  <1> HIDE DEF list, a
  <1>5. QED BY <1>2, <1>3, <1>4 DEF list

LEMMA GetSubRootInv ==
  ASSUME LogInv, NEW r \in Readers, NEW k \in Keys, GetSubRoot(r, k)
  PROVE  LogInv'
  BY GetSubRootAnswers, AnswerFollows, BecomesInv

LEMMA ReadReturnInv ==
  ASSUME LogInv, NEW r \in Readers, ReadReturn(r)
  PROVE  LogInv'
  <1>1. Becomes(r, NoRead) /\ ReaderFollows(NoRead)
    BY DEF ReadReturn, ReaderFollows
  <1>2. QED BY <1>1, BecomesInv

LEMMA CrashInv == ASSUME LogInv, Crash PROVE LogInv'
  <1>1. /\ wpc' = "idle" /\ updates' = <<>> /\ Release /\ db' = db
        /\ rd' = [r \in Readers |-> NoRead]
    BY DEF Crash
  <1>2. \A r \in Readers : ReaderFollows(rd'[r]) /\ rd'[r].pc \in {"idle", "scan", "done"}
    BY <1>1 DEF ReaderFollows, NoRead
  <1>3. LogState(db)'
    BY <1>1 DEF LogInv
  <1>4. (DOMAIN rd = Readers /\ \A r \in Readers : ReaderFollows(rd[r]))'
    BY <1>1, <1>2
  <1>5. QED BY <1>1, <1>2, <1>3, <1>4, ReleaseInv

LEMMA StutterInv == ASSUME LogInv, UNCHANGED vars PROVE LogInv'
  <1>1. UNCHANGED <<db, wpc, updates, todo, snap, key, range, pending, batch, rd>>
    BY DEF vars, writer
  <1>2. View' = View
    BY <1>1 DEF View
  <1>3. LogTypeOK'
    BY <1>1 DEF LogInv, LogTypeOK
  <1>4. KeysFollow'
    BY <1>1, <1>2 DEF LogInv, KeysFollow, New, Records
  <1>5. KeyInHand'
    BY <1>1, <1>2 DEF LogInv, KeyInHand
  <1>6. QED BY <1>1, <1>3, <1>4, <1>5 DEF LogInv

\* Before the first call there are no records.
LEMMA InitFollows == Init => LogInv /\ \A k \in Keys : Contents(db, k) = <<>>
  <1> SUFFICES ASSUME Init PROVE LogInv /\ \A k \in Keys : Contents(db, k) = <<>>
    OBVIOUS
  <1>1. /\ db = NoWrites /\ snap = NoWrites /\ batch = NoWrites
        /\ wpc = "idle" /\ updates = <<>> /\ todo = {}
        /\ key = 0 /\ range = <<>> /\ pending = <<>>
        /\ rd = [r \in Readers |-> NoRead]
    BY DEF Init
  <1>2. ASSUME NEW k \in Keys PROVE Holds(NoWrites, k, <<>>)
    <2>1. Records(NoWrites, k) = {}
      BY NoBatch DEF Records
    <2>2. <<>> \in Seq(Index) /\ Len(<<>>) = 0
      BY EmptySeq
    <2>3. Increasing(<<>>) /\ IndicesOf(<<>>) = {}
      BY <2>2 DEF Increasing, IndicesOf
    <2>4. QED BY <2>1, <2>2, <2>3 DEF Holds
  <1>3. \A k \in Keys : Contents(NoWrites, k) = <<>>
    BY <1>2, NoBatch, HoldsContents
  <1>4. LogState(NoWrites)
    BY <1>2, <1>3, NoBatch DEF LogState
  <1>5. LogTypeOK
    BY <1>1, NoBatch DEF LogTypeOK, NoRead
  <1>6. KeysFollow /\ KeyInHand
    BY <1>1 DEF KeysFollow, KeyInHand
  <1>7. DOMAIN rd = Readers /\ \A r \in Readers : ReaderFollows(rd[r])
    BY <1>1 DEF ReaderFollows
  <1>8. QED BY <1>1, <1>3, <1>4, <1>5, <1>6, <1>7, NoBatch DEF LogInv

LEMMA StepFollows ==
  ASSUME LogInv, [Next]_vars
  PROVE  LogInv'
  <1>1. CASE \E u \in Updates : WriteBatch(u)
    BY <1>1, WriteBatchInv
  <1>2. CASE \E k \in todo : SkipKey(k) \/ LoadKey(k)
    BY <1>2, SkipKeyInv, LoadKeyInv
  <1>3. CASE SetIntermediate
    BY <1>3, SetIntermediateInv
  <1>4. CASE SetLast
    BY <1>4, SetLastInv
  <1>5. CASE Commit
    BY <1>5, CommitInv
  <1>6. CASE StorageError
    BY <1>6, StorageErrorInv
  <1>7. CASE WriteReturn
    BY <1>7, WriteReturnInv
  <1>8. CASE \E r \in Readers, k \in Keys :
               GetSubRoot(r, k) \/ \E start \in Index : Lookup(r, k, start)
    BY <1>8, GetSubRootInv, LookupInv
  <1>9. CASE \E r \in Readers : ReaderStep(r)
    BY <1>9, VisitInv, FinishLookupInv, ReadReturnInv DEF ReaderStep
  <1>10. CASE Crash
    BY <1>10, CrashInv
  <1>11. CASE UNCHANGED vars
    BY <1>11, StutterInv
  <1>12. QED
    BY <1>1, <1>2, <1>3, <1>4, <1>5, <1>6, <1>7, <1>8, <1>9, <1>10, <1>11 DEF Next, WriterStep

\* LogInv is an invariant of LogStore.
THEOREM LogInvariant == Spec => []LogInv
  <1>1. LogInv /\ [Next]_vars => LogInv'
    BY StepFollows
  <1>2. Init => LogInv
    BY InitFollows
  <1>3. QED BY <1>1, <1>2, PTL DEF Spec

\* Records and the locals of WriteBatch are well formed, and no return leaves the
\* iterator or the batch open.
THEOREM LogTypesCorrect == Spec => []LogTypeOK
  <1>1. LogInv => LogTypeOK
    BY DEF LogInv
  <1>2. QED BY <1>1, LogInvariant, PTL

\* Of the records of a key exactly the last is flagged Latest, and its range
\* commits to the indices of all of them.
THEOREM LatestRecordLast == Spec => []LatestIsLast
  <1>1. LogInv => LatestIsLast
    <2> SUFFICES ASSUME LogInv, NEW k \in Keys, NEW i \in Records(db, k)
                 PROVE  LET v == db[<<k, i>>]
                        IN  /\ v.flag = "latest" <=> \A j \in Records(db, k) : j <= i
                            /\ v.flag = "latest" => /\ IndicesOf(v.range) = Records(db, k)
                                                    /\ Ascends(v.range)
      BY DEF LatestIsLast
    <2> DEFINE list == Contents(db, k)
    <2>1. /\ list \in Seq(Index) /\ Increasing(list) /\ Records(db, k) = IndicesOf(list)
          /\ \A n \in 1 .. Len(list) :
               db[<<k, list[n]>>] = IF n = Len(list) THEN Latest(list) ELSE Older
      BY DEF LogInv, LogState, Holds
    <2>2. Len(list) \in Nat /\ \A n \in 1 .. Len(list) : list[n] \in Nat /\ list[n] \in Records(db, k)
      BY <2>1, LenProperties, IndexType, ElementOfSeq DEF IndicesOf
    <2>3. PICK n \in 1 .. Len(list) : i = list[n]
      BY <2>1 DEF IndicesOf
    <2>4. Ascends(list)
      BY <2>1, <2>2 DEF Ascends, Increasing
    <2> HIDE DEF list
    <2>5. CASE n = Len(list)
      <3>1. db[<<k, i>>] = Latest(list)
        BY <2>1, <2>3, <2>5
      <3>2. \A j \in Records(db, k) : j <= i
        <4> SUFFICES ASSUME NEW m \in 1 .. Len(list) PROVE list[m] <= i
          BY <2>1 DEF IndicesOf
        <4>1. m = n \/ list[m] < list[n]
          BY <2>1, <2>2, <2>5 DEF Increasing
        <4>2. QED BY <2>2, <2>3, <4>1
      <3>3. QED BY <2>1, <2>4, <3>1, <3>2, Flags
    <2>6. CASE n # Len(list)
      <3>1. db[<<k, i>>] = Older
        BY <2>1, <2>3, <2>6
      <3>2. Len(list) \in 1 .. Len(list) /\ n < Len(list)
        BY <2>2, <2>6
      <3>3. list[Len(list)] \in Records(db, k) /\ ~(list[Len(list)] <= i)
        BY <2>1, <2>2, <2>3, <3>2 DEF Increasing
      <3>4. QED BY <3>1, <3>3, Flags
    <2>7. QED BY <2>5, <2>6
  <1>2. QED BY <1>1, LogInvariant, PTL

-----------------------------------------------------------------------------
(* The refinement.                                                           *)

\* The abstract phase for each place WriteBatch can be at.
LEMMA PhaseOf ==
  /\ wpc = "idle" => phase = "idle"
  /\ wpc \in {"keys", "indices"} => phase = "open"
  /\ wpc = "ack" => phase = "applied"
  /\ wpc = "failed" => phase = "rejected"
  BY DEF phase

LEMMA PhaseOfNext ==
  /\ wpc' = "idle" => phase' = "idle"
  /\ wpc' \in {"keys", "indices"} => phase' = "open"
  /\ wpc' = "ack" => phase' = "applied"
  /\ wpc' = "failed" => phase' = "rejected"
  BY DEF phase

LEMMA LogUnchanged == ASSUME UNCHANGED db PROVE UNCHANGED log
  BY DEF log

LEMMA AnswerUnchanged == ASSUME UNCHANGED rd PROVE UNCHANGED answer
  BY DEF answer

\* What a reader's call returns.
AnswerOf(q) ==
  CASE q.pc = "idle" -> <<>>
    [] q.pc = "done" -> [ok |-> q.ok, val |-> q.val]
    [] q.pc = "scan" -> [ok |-> TRUE, val |-> From(Contents(q.snap, q.key), q.start)]

LEMMA AnswerIs ==
  /\ answer = [r \in Readers |-> AnswerOf(rd[r])]
  /\ answer' = [r \in Readers |-> AnswerOf(rd'[r])]
  BY DEF answer, AnswerOf

LEMMA AnswersOf ==
  /\ AnswerOf(NoRead) = <<>>
  /\ \A val : AnswerOf(Answer(TRUE, val)) = [ok |-> TRUE, val |-> val]
  /\ \A q : q.pc = "scan" =>
       AnswerOf(q) = [ok |-> TRUE, val |-> From(Contents(q.snap, q.key), q.start)]
  BY DEF AnswerOf, NoRead, Answer

\* A step of a reader changes its answer alone.
LEMMA AnswerBecomes ==
  ASSUME LogInv, NEW r \in Readers, NEW q, Becomes(r, q)
  PROVE  /\ answer' = [answer EXCEPT ![r] = AnswerOf(q)]
         /\ answer[r] = AnswerOf(rd[r])
         /\ UNCHANGED <<log, phase, updates>>
  <1>1. rd' = [rd EXCEPT ![r] = q] /\ DOMAIN rd = Readers /\ UNCHANGED <<db, wpc, updates>>
    BY DEF Becomes, writer, LogInv
  <1>2. \A x \in Readers : rd'[x] = IF x = r THEN q ELSE rd[x]
    BY <1>1
  <1>3. answer' = [answer EXCEPT ![r] = AnswerOf(q)] /\ answer[r] = AnswerOf(rd[r])
    BY <1>2, AnswerIs
  <1>4. UNCHANGED phase
    BY <1>1 DEF phase
  <1>5. QED BY <1>1, <1>3, <1>4, LogUnchanged

LEMMA InitRefines == Init => Promise!Init
  <1> SUFFICES ASSUME Init PROVE Promise!Init
    OBVIOUS
  <1>1. log = [k \in Keys |-> <<>>]
    BY InitFollows DEF log
  <1>2. answer = [r \in Readers |-> <<>>]
    BY AnswerIs, AnswersOf DEF Init
  <1>3. QED BY <1>1, <1>2, PhaseOf DEF Init, Promise!Init

\* The commit appends every list of the batch to the log of its key.
LEMMA CommitRefines ==
  ASSUME LogInv, Commit
  PROVE  Promise!Apply
  <1>1. /\ wpc = "keys" /\ wpc' = "ack" /\ updates \in Updates /\ New(updates)
        /\ UNCHANGED <<updates, rd>>
    BY CommitHolds DEF Commit
  <1>2. ASSUME NEW k \in DOMAIN updates PROVE Promise!Sorted(updates[k])
    <2>1. updates[k] \in Seq(Index) /\ Ascends(updates[k])
      BY <1>1, LogAssumption DEF New
    <2>2. Len(updates[k]) \in Nat /\ \A i \in 1 .. Len(updates[k]) : updates[k][i] \in Nat
      BY <2>1, LenProperties, IndexType, ElementOfSeq
    <2>3. QED BY <2>1, <2>2 DEF Ascends, Promise!Sorted
  <1>3. log' = [k \in Keys |-> IF k \in DOMAIN updates THEN log[k] \o updates[k] ELSE log[k]]
    <2>1. /\ log' = [k \in Keys |-> Contents(db', k)]
          /\ \A k \in Keys : log[k] = Contents(db, k)
      BY DEF log
    <2>2. \A k \in Keys :
            Contents(db', k) = IF k \in DOMAIN updates THEN log[k] \o updates[k] ELSE log[k]
      BY <2>1, CommitContents
    <2>3. QED BY <2>1, <2>2
  <1>4. QED BY <1>1, <1>2, <1>3, PhaseOf, PhaseOfNext, AnswerUnchanged DEF Promise!Apply

\* Lookup takes effect when it opens its iterator; its scan changes nothing.
LEMMA LookupRefines ==
  ASSUME LogInv, NEW r \in Readers, NEW k \in Keys, NEW start \in Index, Lookup(r, k, start)
  PROVE  Promise!Lookup(r, k, start)
  <1> DEFINE q == [pc |-> "scan", key |-> k, start |-> start, snap |-> db,
                   pos |-> Bounded(SeekGE(db, BarePrefix(k)), k), indices |-> <<>>]
  <1>1. rd[r] = NoRead /\ Becomes(r, q)
    BY DEF Lookup
  <1>2. q.pc = "scan" /\ q.snap = db /\ q.key = k /\ q.start = start
    OBVIOUS
  <1> HIDE DEF q
  <1>3. AnswerOf(q) = [ok |-> TRUE, val |-> From(Contents(db, k), start)]
    BY <1>2, AnswersOf
  <1>4. /\ answer' = [answer EXCEPT ![r] = AnswerOf(q)] /\ answer[r] = AnswerOf(rd[r])
        /\ UNCHANGED <<log, phase, updates>>
    BY <1>1, AnswerBecomes
  <1>5. log[k] = Contents(db, k) /\ answer[r] = <<>>
    BY <1>1, <1>4, AnswersOf DEF log
  <1>6. From(Contents(db, k), start) = Promise!From(log[k], start)
    BY <1>5 DEF From, Promise!From
  <1>7. QED BY <1>3, <1>4, <1>5, <1>6 DEF Promise!Lookup

LEMMA GetSubRootRefines ==
  ASSUME LogInv, NEW r \in Readers, NEW k \in Keys, GetSubRoot(r, k)
  PROVE  Promise!GetSubRoot(r, k)
  <1>1. rd[r] = NoRead /\ Becomes(r, Answer(TRUE, Contents(db, k)))
    BY GetSubRootAnswers
  <1>2. /\ answer' = [answer EXCEPT ![r] = AnswerOf(Answer(TRUE, Contents(db, k)))]
        /\ answer[r] = AnswerOf(rd[r])
        /\ UNCHANGED <<log, phase, updates>>
    BY <1>1, AnswerBecomes
  <1>3. log[k] = Contents(db, k)
    BY DEF log
  <1>4. QED BY <1>1, <1>2, <1>3, AnswersOf DEF Promise!GetSubRoot

\* Collecting a record, and returning what was collected, leave the answer as the
\* log was when the iterator was opened.
LEMMA ScanRefines ==
  ASSUME LogInv, NEW r \in Readers, Visit(r) \/ FinishLookup(r)
  PROVE  UNCHANGED Promise!vars
  <1>1. rd[r].pc = "scan"
    BY DEF Visit, FinishLookup
  <1>2. ASSUME NEW q, Becomes(r, q), AnswerOf(q) = AnswerOf(rd[r])
        PROVE  UNCHANGED Promise!vars
    <2>1. /\ answer' = [answer EXCEPT ![r] = AnswerOf(q)] /\ answer[r] = AnswerOf(rd[r])
          /\ UNCHANGED <<log, phase, updates>>
      BY <1>2, AnswerBecomes
    <2>2. answer' = answer
      BY <1>2, <2>1, AnswerIs
    <2>3. QED BY <2>1, <2>2 DEF Promise!vars
  <1>3. CASE Visit(r)
    <2>1. PICK q : /\ Becomes(r, q) /\ q.pc = "scan" /\ q.snap = rd[r].snap
                   /\ q.key = rd[r].key /\ q.start = rd[r].start
      BY <1>3, VisitBecomes
    <2>2. AnswerOf(q) = AnswerOf(rd[r])
      BY <1>1, <2>1, AnswersOf
    <2>3. QED BY <1>2, <2>1, <2>2
  <1>4. CASE FinishLookup(r)
    <2> DEFINE val == From(Contents(rd[r].snap, rd[r].key), rd[r].start)
    <2>1. Becomes(r, Answer(TRUE, val))
      BY <1>4, FinishLookupAnswers
    <2>2. AnswerOf(Answer(TRUE, val)) = AnswerOf(rd[r])
      BY <1>1, AnswersOf
    <2>3. QED BY <1>2, <2>1, <2>2
  <1>5. QED BY <1>3, <1>4

\* What was returned was an answer.
LEMMA ReadReturnRefines ==
  ASSUME LogInv, NEW r \in Readers, ReadReturn(r)
  PROVE  Promise!ReadReturn(r)
  <1>1. rd[r].pc = "done" /\ Becomes(r, NoRead)
    BY DEF ReadReturn
  <1>2. AnswerOf(rd[r]) # <<>>
    <2>1. AnswerOf(rd[r]) = [ok |-> rd[r].ok, val |-> rd[r].val]
      BY <1>1 DEF AnswerOf
    <2>2. QED BY <2>1
  <1>3. /\ answer' = [answer EXCEPT ![r] = AnswerOf(NoRead)] /\ answer[r] = AnswerOf(rd[r])
        /\ UNCHANGED <<log, phase, updates>>
    BY <1>1, AnswerBecomes
  <1>4. QED BY <1>2, <1>3, AnswersOf DEF Promise!ReadReturn

\* Every step is a step of IndexStore or leaves its state alone.
LEMMA StepRefines ==
  ASSUME LogInv, [Next]_vars
  PROVE  [Promise!Next]_(Promise!vars)
  <1>1. CASE \E u \in Updates : WriteBatch(u)
    <2> PICK u \in Updates : WriteBatch(u)
      BY <1>1
    <2>1. Promise!WriteBatch(u)
      BY LogUnchanged, AnswerUnchanged, PhaseOf, PhaseOfNext DEF WriteBatch, Promise!WriteBatch
    <2>2. QED BY <2>1 DEF Promise!Next
  <1>2. CASE \E k \in todo : SkipKey(k) \/ LoadKey(k)
    <2> PICK k \in todo : SkipKey(k) \/ LoadKey(k)
      BY <1>2
    <2>1. /\ wpc \in {"keys", "indices"} /\ wpc' \in {"keys", "indices"}
          /\ UNCHANGED <<db, updates, rd>>
      <3>1. CASE SkipKey(k)
        BY <3>1 DEF SkipKey, NextKeyToDo
      <3>2. CASE LoadKey(k)
        BY <3>2, LoadKeyFacts
      <3>3. QED BY <3>1, <3>2
    <2>2. QED BY <2>1, LogUnchanged, AnswerUnchanged, PhaseOf, PhaseOfNext DEF Promise!vars
  <1>3. CASE SetIntermediate \/ SetLast
    <2>1. /\ wpc \in {"keys", "indices"} /\ wpc' \in {"keys", "indices"}
          /\ UNCHANGED <<db, updates, rd>>
      BY <1>3 DEF SetIntermediate, SetLast
    <2>2. QED BY <2>1, LogUnchanged, AnswerUnchanged, PhaseOf, PhaseOfNext DEF Promise!vars
  <1>4. CASE Commit
    BY <1>4, CommitRefines DEF Promise!Next
  <1>5. CASE StorageError
    <2>1. Promise!Reject
      BY <1>5, LogUnchanged, AnswerUnchanged, PhaseOf, PhaseOfNext DEF StorageError, Promise!Reject
    <2>2. QED BY <2>1 DEF Promise!Next
  <1>6. CASE WriteReturn
    <2>1. Promise!WriteReturn
      BY <1>6, LogUnchanged, AnswerUnchanged, PhaseOf, PhaseOfNext
      DEF WriteReturn, Promise!WriteReturn
    <2>2. QED BY <2>1 DEF Promise!Next
  <1>7. CASE \E r \in Readers, k \in Keys :
               GetSubRoot(r, k) \/ \E start \in Index : Lookup(r, k, start)
    BY <1>7, GetSubRootRefines, LookupRefines DEF Promise!Next
  <1>8. CASE \E r \in Readers : ReaderStep(r)
    BY <1>8, ScanRefines, ReadReturnRefines DEF ReaderStep, Promise!Next
  <1>9. CASE Crash
    <2>1. answer' = [r \in Readers |-> <<>>]
      BY <1>9, AnswerIs, AnswersOf DEF Crash
    <2>2. Promise!Crash
      BY <1>9, <2>1, LogUnchanged, PhaseOfNext DEF Crash, Promise!Crash
    <2>3. QED BY <2>2 DEF Promise!Next
  <1>10. CASE UNCHANGED vars
    <2>1. UNCHANGED <<db, wpc, updates, rd>>
      BY <1>10 DEF vars, writer
    <2>2. UNCHANGED phase
      BY <2>1 DEF phase
    <2>3. QED BY <2>1, <2>2, LogUnchanged, AnswerUnchanged DEF Promise!vars
  <1>11. QED
    BY <1>1, <1>2, <1>3, <1>4, <1>5, <1>6, <1>7, <1>8, <1>9, <1>10 DEF Next, WriterStep

\* For ascending lists LogStore keeps the promise of the IndexStore interface.
THEOREM LogRefines == Spec => RefinesIndexStore
  <1>1. QED
    BY InitRefines, StepRefines, LogInvariant, PTL DEF Spec, RefinesIndexStore, Promise!Spec
=============================================================================
