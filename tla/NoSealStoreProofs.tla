------------------------- MODULE NoSealStoreProofs -------------------------
(***************************************************************************)
(* Theorems about NoSealStore, for every engine, chunk size, set of keys,  *)
(* readers and batches: types and chained ranges first, then what          *)
(* WriteBatch does to the chunks and the logs, what Lookup answers, and    *)
(* that every engine implements IndexStore.                                *)
(***************************************************************************)
EXTENDS NoSealInvariant, PebbleKVProofs, SequenceTheorems, WellFoundedInduction

-----------------------------------------------------------------------------
(* Chunk numbers, offsets and suffixes.                                      *)

LEMMA DivMod ==
  ASSUME NEW i \in Nat
  PROVE  /\ ChunkNum(i) \in Nat /\ ChunkNum(i) <= i
         /\ RelIdx(i) \in Rel /\ RelIdx(i) < ChunkSize
         /\ i = ChunkNum(i) * ChunkSize + RelIdx(i)
BY SizeAssumption, Z3 DEF ChunkNum, RelIdx, Rel

LEMMA ChunkNumType ==
  ASSUME NEW i \in Index
  PROVE  i \in Nat /\ ChunkNum(i) \in Index
<1>1. i \in Nat /\ i <= MaxUint
  BY SizeAssumption DEF Index
<1>2. ChunkNum(i) \in Nat /\ ChunkNum(i) <= i
  BY <1>1, DivMod
<1> QED  BY <1>1, <1>2, SizeAssumption DEF Index

LEMMA SuffixIsInvolution ==
  ASSUME NEW c \in Index
  PROVE  Suffix(c) \in Index /\ Suffix(Suffix(c)) = c
BY SizeAssumption DEF Suffix, Index, invertChunkNum

LEMMA AbsSeqType ==
  ASSUME NEW c \in Nat, NEW rel \in Seq(Rel)
  PROVE  AbsSeq(c, rel) \in Seq(Nat) /\ Len(AbsSeq(c, rel)) = Len(rel)
BY SizeAssumption DEF AbsSeq, Rel

LEMMA AbsSeqAppend ==
  ASSUME NEW rel \in Seq(Rel), NEW i \in Index, Offsets(ChunkNum(i), rel)
  PROVE  /\ Append(rel, RelIdx(i)) \in Seq(Rel)
         /\ Offsets(ChunkNum(i), Append(rel, RelIdx(i)))
         /\ AbsSeq(ChunkNum(i), Append(rel, RelIdx(i)))
              = Append(AbsSeq(ChunkNum(i), rel), i)
<1> DEFINE c == ChunkNum(i)  new == Append(rel, RelIdx(i))
<1>1. i \in Nat /\ c \in Nat /\ RelIdx(i) \in Rel /\ RelIdx(i) < ChunkSize
      /\ i = c * ChunkSize + RelIdx(i)
  BY DivMod, SizeAssumption DEF Index
<1>2. /\ new \in Seq(Rel) /\ Len(new) = Len(rel) + 1
      /\ \A j \in 1 .. Len(rel) : new[j] = rel[j]
      /\ new[Len(rel) + 1] = RelIdx(i)
  BY <1>1, AppendProperties
<1>3. AbsSeq(c, rel) \in Seq(Index) /\ Len(AbsSeq(c, rel)) = Len(rel)
  BY <1>1, AbsSeqType DEF Offsets
<1>4. /\ Append(AbsSeq(c, rel), i) \in Seq(Index)
      /\ Len(Append(AbsSeq(c, rel), i)) = Len(rel) + 1
      /\ \A j \in 1 .. Len(rel) : Append(AbsSeq(c, rel), i)[j] = AbsSeq(c, rel)[j]
      /\ Append(AbsSeq(c, rel), i)[Len(rel) + 1] = i
  BY <1>3, AppendProperties
<1>5. AbsSeq(c, new) \in Seq(Nat) /\ Len(AbsSeq(c, new)) = Len(rel) + 1
  BY <1>1, <1>2, AbsSeqType
<1>6. \A j \in 1 .. Len(rel) + 1 : AbsSeq(c, new)[j] = Append(AbsSeq(c, rel), i)[j]
  BY <1>1, <1>2, <1>3, <1>4 DEF AbsSeq
<1>7. AbsSeq(c, new) = Append(AbsSeq(c, rel), i)
  <2>1. Append(AbsSeq(c, rel), i) \in Seq(Nat)
    BY <1>4, SeqMonotonic, Index \subseteq Nat DEF Index
  <2> QED  BY <1>4, <1>5, <1>6, <2>1, SeqEqual
<1>8. \A j \in 1 .. Len(new) : new[j] < ChunkSize
  BY <1>1, <1>2 DEF Offsets
<1> HIDE DEF new, c
<1> QED  BY <1>2, <1>4, <1>7, <1>8 DEF Offsets, new, c

-----------------------------------------------------------------------------
(* Database states.                                                          *)

LEMMA KeysAreKeys == Keys \X Index \subseteq PKey
<1>1. Keys \subseteq Nat /\ Index \subseteq Nat
  BY KeysAssumption, SizeAssumption DEF Index
<1> QED  BY <1>1 DEF PKey

LEMMA StateFacts ==
  ASSUME NEW s, StateOK(s), NEW a \in DOMAIN s
  PROVE  /\ a \in Keys \X Index /\ a \in PKey /\ a # Invalid
         /\ ChunkAt(a) \in Index /\ ChunkAt(a) \in Nat
         /\ s[a] \in ChunkValue /\ s[a].range \in Seq(Index) /\ s[a].rel \in Seq(Rel)
         /\ Offsets(ChunkAt(a), s[a].rel)
<1>1. a \in Keys \X Index /\ s[a] \in ChunkValue /\ Offsets(ChunkAt(a), s[a].rel)
  BY DEF StateOK, Snapshot
<1>2. a \in PKey /\ a # Invalid
  BY <1>1, KeysAreKeys, InvalidIsNoKey
<1>3. ChunkAt(a) \in Index /\ ChunkAt(a) \in Nat
  BY <1>1, SuffixIsInvolution, SizeAssumption DEF ChunkAt, Index
<1> QED  BY <1>1, <1>2, <1>3 DEF ChunkValue

LEMMA FoldedType ==
  ASSUME NEW c \in Nat, NEW v, v.range \in Seq(Index), v.rel \in Seq(Rel),
         Offsets(c, v.rel)
  PROVE  Folded(c, v) \in Seq(Index)
BY ConcatProperties DEF Folded, Offsets

LEMMA NoWritesOK == StateOK(NoWrites)
BY DEF StateOK, Snapshot, NoWrites, Extremal

LEMMA OverlayOK ==
  ASSUME NEW b, StateOK(b), NEW s, StateOK(s)
  PROVE  StateOK(Overlay(b, s))
<1> DEFINE t == Overlay(b, s)
<1>1. DOMAIN t = DOMAIN b \cup DOMAIN s
  BY DEF Overlay
<1>2. \A a \in DOMAIN t : t[a] = IF a \in DOMAIN b THEN b[a] ELSE s[a]
  BY DEF Overlay
<1>3. t = [a \in DOMAIN t |-> t[a]]
  BY DEF Overlay
<1>4. Snapshot(t)
  BY <1>1, <1>2, <1>3 DEF StateOK, Snapshot
<1>5. Extremal(DOMAIN t)
  BY <1>1, ExtremalUnion, KeysAreKeys DEF StateOK, Snapshot
<1>6. \A a \in DOMAIN t : Offsets(ChunkAt(a), t[a].rel)
  BY <1>1, <1>2 DEF StateOK
<1> QED  BY <1>4, <1>5, <1>6 DEF StateOK

LEMMA SingleOK ==
  ASSUME NEW k \in Keys, NEW c \in Index, NEW range \in Seq(Index),
         NEW rel \in Seq(Rel), Offsets(c, rel)
  PROVE  StateOK([a \in {DBKey(k, c)} |-> Value(range, rel)])
<1>1. DBKey(k, c) \in Keys \X Index /\ ChunkAt(DBKey(k, c)) = c
  BY SuffixIsInvolution DEF DBKey, ChunkAt
<1>2. Value(range, rel) \in ChunkValue /\ Value(range, rel).rel = rel
  BY DEF Value, ChunkValue
<1> QED  BY <1>1, <1>2, ExtremalSingle DEF StateOK, Snapshot

-----------------------------------------------------------------------------
(* Where the iterators can be.                                               *)

LEMMA PositionOf ==
  ASSUME NEW s, StateOK(s), NEW S \in SUBSET (DOMAIN s)
  PROVE  /\ Smallest(S) \in S \cup {Invalid}
         /\ Largest(S) \in S \cup {Invalid}
<1>1. DOMAIN s \in SUBSET PKey /\ Extremal(DOMAIN s)
  BY KeysAreKeys DEF StateOK, Snapshot
<1> QED  BY <1>1, SmallestFound, LargestFound

LEMMA SeekPositions ==
  ASSUME NEW s, StateOK(s), NEW a, NEW k
  PROVE  /\ SeekGE(s, a) \in DOMAIN s \cup {Invalid}
         /\ SeekLT(s, a) \in DOMAIN s \cup {Invalid}
         /\ NextKey(s, a) \in DOMAIN s \cup {Invalid}
         /\ PrevKey(s, a) \in DOMAIN s \cup {Invalid}
         /\ LastKey(s) \in DOMAIN s \cup {Invalid}
         /\ SeekPrefixGE(s, a) \in DOMAIN s \cup {Invalid}
         /\ NextInPrefix(s, a) \in DOMAIN s \cup {Invalid}
         /\ Largest({b \in DOMAIN s : HasPrefix(b, k)}) \in DOMAIN s \cup {Invalid}
<1>1. \A S \in SUBSET (DOMAIN s) : /\ Smallest(S) \in DOMAIN s \cup {Invalid}
                                   /\ Largest(S) \in DOMAIN s \cup {Invalid}
  BY PositionOf
<1> QED
  BY <1>1 DEF SeekGE, SeekLT, NextKey, PrevKey, LastKey, SeekPrefixGE, NextInPrefix

LEMMA LookupPositions ==
  ASSUME NEW s, StateOK(s), NEW k, NEW a, NEW c
  PROVE  /\ SeekLatest(s, k) \in DOMAIN s \cup {Invalid}
         /\ SeekStart(s, k, c) \in DOMAIN s \cup {Invalid}
         /\ Advance(s, k, a) \in DOMAIN s \cup {Invalid}
<1>1. ReverseSeekLatest(s, k) \in DOMAIN s \cup {Invalid}
  BY SeekPositions DEF ReverseSeekLatest, Within
<1>2. ScanToLatest(s, k) \in DOMAIN s \cup {Invalid}
  BY SeekPositions DEF ScanToLatest
<1>3. InvertedSeekLatest(s, k) \in DOMAIN s \cup {Invalid}
  BY SeekPositions DEF InvertedSeekLatest
<1>4. InvertedSeekStart(s, k, c) \in DOMAIN s \cup {Invalid}
  BY SeekPositions DEF InvertedSeekStart, Within
<1>5. SeekPrefixGE(s, DBKey(k, c)) \in DOMAIN s \cup {Invalid}
  BY SeekPositions
<1>6. Bounded(SeekGE(s, DBKey(k, c)), k) \in DOMAIN s \cup {Invalid}
  BY SeekPositions DEF Bounded
<1>7. /\ NextInPrefix(s, a) \in DOMAIN s \cup {Invalid}
      /\ Bounded(NextKey(s, a), k) \in DOMAIN s \cup {Invalid}
      /\ Within(PrevKey(s, a), k) \in DOMAIN s \cup {Invalid}
  BY SeekPositions DEF Bounded, Within
<1>8. SeekLatest(s, k) \in DOMAIN s \cup {Invalid}
  BY <1>1, <1>2, <1>3 DEF SeekLatest
<1>9. SeekStart(s, k, c) \in DOMAIN s \cup {Invalid}
  BY <1>1, <1>4, <1>5, <1>6, EngineAssumption DEF SeekStart, Engines, Inverted
<1>10. Advance(s, k, a) \in DOMAIN s \cup {Invalid}
  BY <1>7 DEF Advance
<1> QED  BY <1>8, <1>9, <1>10

-----------------------------------------------------------------------------
(* Type correctness.                                                         *)

LEMMA TInvImpliesTypeOK == TInv => TypeOK
BY DEF TInv, WriterTypes, ReaderTypes, TypeOK, StateOK

LEMMA NoCurTypes == NoCur \in CurType /\ Offsets(NoCur.chunkNum, NoCur.rel)
<1>1. 0 \in Index /\ <<>> \in Seq(Rel) /\ <<>> \in Seq(Index) /\ Len(<<>>) = 0
  BY SizeAssumption, EmptySeq DEF Index
<1>2. \A c \in Nat : Offsets(c, <<>>)
  BY EmptySeq DEF Offsets, AbsSeq
<1>3. NoCur \in CurType
  BY <1>1 DEF NoCur, CurType
<1> QED  BY <1>2, <1>3 DEF NoCur

LEMMA InitTypes == Init => TInv
<1> SUFFICES ASSUME Init PROVE TInv
  OBVIOUS
<1>1. WriterTypes
  BY NoWritesOK, NoCurTypes, EmptySeq DEF Init, WriterTypes
<1>2. ReaderTypes
  BY DEF Init, ReaderTypes, ReadType
<1> QED  BY <1>1, <1>2 DEF TInv

\* What every return of WriteBatch leaves behind is well typed.
LEMMA ReleaseTypes ==
  ASSUME Release
  PROVE  /\ StateOK(snap') /\ StateOK(batch') /\ todo' = {}
         /\ pending' \in Seq(Index)
         /\ cur' \in CurType /\ Offsets(cur'.chunkNum, cur'.rel)
BY NoWritesOK, NoCurTypes, EmptySeq DEF Release

LEMMA InitialCurTypes ==
  ASSUME TInv, NEW k \in todo, updates[k] # <<>>
  PROVE  /\ k \in Keys /\ updates[k] \in Seq(Index)
         /\ InitialCur(k, updates[k]) \in CurType
         /\ InitialCur(k, updates[k]).key = k
         /\ Offsets(InitialCur(k, updates[k]).chunkNum, InitialCur(k, updates[k]).rel)
<1> DEFINE a == SeekLatest(snap, k)  list == updates[k]
<1>1. k \in Keys /\ k \in Nat /\ list \in Seq(Index)
  <2>1. updates \in Updates
    BY DEF TInv, WriterTypes
  <2> QED  BY <2>1, UpdatesAssumption, KeysAssumption DEF TInv, WriterTypes
<1>2. CASE a = Invalid
  <2>1. Head(list) \in Index
    BY <1>1, HeadTailProperties
  <2>2. ChunkNum(Head(list)) \in Index
    BY <2>1, ChunkNumType
  <2>3. Offsets(ChunkNum(Head(list)), <<>>)
    BY <2>2, EmptySeq DEF Offsets, AbsSeq
  <2>4. InitialCur(k, list) = [key |-> k, chunkNum |-> ChunkNum(Head(list)),
                               range |-> <<>>, rel |-> <<>>, modified |-> TRUE]
    BY <1>2 DEF InitialCur
  <2> QED  BY <1>1, <2>2, <2>3, <2>4, EmptySeq DEF CurType
<1>3. CASE a # Invalid
  <2>1. a \in DOMAIN snap /\ StateOK(snap)
    BY <1>3, LookupPositions DEF TInv, WriterTypes
  <2>2. InitialCur(k, list) = [key |-> k, chunkNum |-> ChunkAt(a),
                               range |-> snap[a].range, rel |-> snap[a].rel,
                               modified |-> FALSE]
    BY <1>3 DEF InitialCur
  <2> QED  BY <1>1, <2>1, <2>2, StateFacts DEF CurType
<1> QED  BY <1>1, <1>2, <1>3

LEMMA BatchWithCurTypes ==
  ASSUME TInv, wpc = "indices"
  PROVE  StateOK(BatchWithCur)
<1>1. StateOK([a \in {DBKey(cur.key, cur.chunkNum)} |-> Value(cur.range, cur.rel)])
  <2>1. /\ cur.key \in Keys /\ cur.chunkNum \in Index
        /\ cur.range \in Seq(Index) /\ cur.rel \in Seq(Rel)
        /\ Offsets(cur.chunkNum, cur.rel)
    BY DEF TInv, WriterTypes, CurType
  <2> QED  BY <2>1, SingleOK
<1> QED  BY <1>1, OverlayOK DEF BatchWithCur, TInv, WriterTypes

LEMMA WriterStepTypes ==
  ASSUME TInv, WriterStep
  PROVE  TInv'
<1>1. ASSUME NEW k \in todo, SkipKey(k) PROVE TInv'
  BY <1>1 DEF SkipKey, TInv, WriterTypes, ReaderTypes
<1>2. ASSUME NEW k \in todo, RejectKey(k) PROVE TInv'
  BY <1>2, ReleaseTypes DEF RejectKey, TInv, WriterTypes, ReaderTypes
<1>3. ASSUME NEW k \in todo, LoadKey(k) PROVE TInv'
  <2>1. /\ k \in Keys /\ updates[k] \in Seq(Index)
        /\ cur' \in CurType /\ cur'.key = k /\ Offsets(cur'.chunkNum, cur'.rel)
    BY <1>3, InitialCurTypes DEF LoadKey
  <2> QED  BY <1>3, <2>1 DEF LoadKey, TInv, WriterTypes, ReaderTypes
<1>4. ASSUME AppendInChunk PROVE TInv'
  <2> DEFINE i == Head(pending)
  <2>1. i \in Index /\ Tail(pending) \in Seq(Index)
    BY <1>4, HeadTailProperties DEF AppendInChunk, TInv, WriterTypes
  <2>2. /\ Append(cur.rel, RelIdx(i)) \in Seq(Rel)
        /\ Offsets(cur.chunkNum, Append(cur.rel, RelIdx(i)))
    BY <1>4, <2>1, AbsSeqAppend DEF AppendInChunk, TInv, WriterTypes, CurType
  <2>3. /\ cur' \in CurType /\ cur'.key = cur.key
        /\ Offsets(cur'.chunkNum, cur'.rel)
    BY <1>4, <2>2 DEF AppendInChunk, TInv, WriterTypes, CurType
  <2> QED  BY <1>4, <2>1, <2>3 DEF AppendInChunk, TInv, WriterTypes, ReaderTypes
<1>5. ASSUME CrossBoundary PROVE TInv'
  <2> DEFINE i == Head(pending)
  <2>1. i \in Index /\ Tail(pending) \in Seq(Index) /\ ChunkNum(i) \in Index
    BY <1>5, HeadTailProperties, ChunkNumType DEF CrossBoundary, TInv, WriterTypes
  <2>2. <<RelIdx(i)>> \in Seq(Rel) /\ Offsets(ChunkNum(i), <<RelIdx(i)>>)
    <3>1. Offsets(ChunkNum(i), <<>>) /\ <<>> \in Seq(Rel)
      BY EmptySeq DEF Offsets, AbsSeq
    <3>2. Append(<<>>, RelIdx(i)) = <<RelIdx(i)>>
      OBVIOUS
    <3> QED  BY <2>1, <3>1, <3>2, AbsSeqAppend
  <2>3. Folded(cur.chunkNum, cur) \in Seq(Index)
    BY FoldedType, SizeAssumption DEF TInv, WriterTypes, CurType, Index
  <2>4. /\ cur' \in CurType /\ cur'.key = cur.key
        /\ Offsets(cur'.chunkNum, cur'.rel)
    BY <1>5, <2>1, <2>2, <2>3 DEF CrossBoundary, TInv, WriterTypes, CurType
  <2>5. StateOK(batch')
    BY <1>5, BatchWithCurTypes DEF CrossBoundary, TInv, WriterTypes
  <2> QED  BY <1>5, <2>1, <2>4, <2>5 DEF CrossBoundary, TInv, WriterTypes, ReaderTypes
<1>6. ASSUME FlushKey PROVE TInv'
  <2>1. StateOK(batch')
    BY <1>6, BatchWithCurTypes DEF FlushKey, TInv, WriterTypes
  <2> QED
    BY <1>6, <2>1, NoCurTypes DEF FlushKey, TInv, WriterTypes, ReaderTypes
<1>7. ASSUME Commit PROVE TInv'
  <2>1. StateOK(db')
    BY <1>7, OverlayOK DEF Commit, TInv, WriterTypes
  <2> QED  BY <1>7, <2>1, ReleaseTypes DEF Commit, TInv, WriterTypes, ReaderTypes
<1>8. ASSUME StorageError PROVE TInv'
  BY <1>8, ReleaseTypes DEF StorageError, TInv, WriterTypes, ReaderTypes
<1>9. ASSUME WriteReturn PROVE TInv'
  BY <1>9 DEF WriteReturn, TInv, WriterTypes, ReaderTypes
<1> QED
  BY <1>1, <1>2, <1>3, <1>4, <1>5, <1>6, <1>7, <1>8, <1>9 DEF WriterStep, WriterProgress

LEMMA VisitTypes ==
  ASSUME TInv, NEW r \in Readers, rd[r].pc = "scan", rd[r].pos # Invalid
  PROVE  LET q == rd[r]
             c == ChunkAt(q.pos)
             v == q.snap[q.pos]
         IN  /\ StateOK(q.snap) /\ ScanOK(q)
             /\ Len(v.range) \in Nat
             /\ q.reconstructed \o AbsSeq(c, v.rel) \in Seq(Index)
             /\ AbsSeq(c, v.rel) \o q.reconstructed \in Seq(Index)
             /\ Advance(q.snap, q.key, q.pos) \in DOMAIN q.snap \cup {Invalid}
<1> DEFINE q == rd[r]  c == ChunkAt(q.pos)  v == q.snap[q.pos]
<1>1. StateOK(q.snap) /\ ScanOK(q)
  BY DEF TInv, ReaderTypes, ReadType, NoRead
<1>2. q.pos \in DOMAIN q.snap /\ q.reconstructed \in Seq(Index)
  BY <1>1 DEF ScanOK
<1>3. v.range \in Seq(Index) /\ AbsSeq(c, v.rel) \in Seq(Index)
  BY <1>1, <1>2, StateFacts DEF Offsets
<1>4. Len(v.range) \in Nat
  BY <1>3, LenProperties
<1>5. /\ q.reconstructed \o AbsSeq(c, v.rel) \in Seq(Index)
      /\ AbsSeq(c, v.rel) \o q.reconstructed \in Seq(Index)
  BY <1>2, <1>3, ConcatProperties
<1>6. Advance(q.snap, q.key, q.pos) \in DOMAIN q.snap \cup {Invalid}
  BY <1>1, LookupPositions
<1> QED  BY <1>1, <1>4, <1>5, <1>6

LEMMA LookupAnswerType ==
  ASSUME NEW q, ScanOK(q)
  PROVE  LookupAnswer(q) \in ReadType
<1>1. /\ q.start \in Nat /\ q.skippedOffset \in Nat /\ q.reconstructed \in Seq(Index)
      /\ <<>> \in Seq(Index)
  BY SizeAssumption, EmptySeq DEF ScanOK, Index
<1>2. Answer(TRUE, <<>>) \in ReadType /\ Answer(FALSE, <<>>) \in ReadType
  BY <1>1 DEF Answer, ReadType
<1>3. ASSUME NEW offset \in Nat, offset < Len(q.reconstructed)
      PROVE  Answer(TRUE, SubSeq(q.reconstructed, offset + 1, Len(q.reconstructed)))
               \in ReadType
  <2>1. SubSeq(q.reconstructed, offset + 1, Len(q.reconstructed)) \in Seq(Index)
    BY <1>1, <1>3, SubSeqProperties, LenProperties
  <2> QED  BY <2>1 DEF Answer, ReadType
<1>4. CASE NothingFound(q) \/ q.start < q.skippedOffset
  BY <1>2, <1>4 DEF LookupAnswer
<1>5. CASE ~NothingFound(q) /\ ~(q.start < q.skippedOffset)
  <2> DEFINE offset == q.start - q.skippedOffset
  <2>1. offset \in Nat /\ Len(q.reconstructed) \in Nat
    BY <1>1, <1>5, LenProperties
  <2>2. CASE offset >= Len(q.reconstructed)
    BY <1>2, <1>5, <2>2 DEF LookupAnswer
  <2>3. CASE ~(offset >= Len(q.reconstructed))
    <3>1. LookupAnswer(q) = Answer(TRUE, SubSeq(q.reconstructed, offset + 1,
                                                Len(q.reconstructed)))
      BY <1>5, <2>3 DEF LookupAnswer
    <3>2. offset < Len(q.reconstructed)
      BY <2>1, <2>3
    <3> HIDE DEF offset
    <3> QED  BY <1>3, <2>1, <3>1, <3>2
  <2> QED  BY <2>2, <2>3
<1> QED  BY <1>4, <1>5

\* A step that only gives reader r a well-typed record preserves the types.
LEMMA ReaderRecord ==
  ASSUME TInv, NEW r \in Readers, NEW new,
         new \in ReadType \/ (ScanOK(new) /\ StateOK(new.snap)),
         rd' = [rd EXCEPT ![r] = new], UNCHANGED <<db, writer>>
  PROVE  TInv'
<1>1. WriterTypes'
  BY DEF TInv, WriterTypes, writer
<1>2. ReaderTypes'
  BY DEF TInv, ReaderTypes
<1> QED  BY <1>1, <1>2 DEF TInv

LEMMA ReaderStepTypes ==
  ASSUME TInv, NEW r \in Readers, ReaderStep(r)
  PROVE  TInv'
<1> DEFINE q == rd[r]  c == ChunkAt(q.pos)  v == q.snap[q.pos]
<1>1. ASSUME VisitForward(r) PROVE TInv'
  <2> DEFINE new == [q EXCEPT !.skippedOffset =
                                IF q.skippedOffsetSet THEN @ ELSE Len(v.range),
                              !.skippedOffsetSet = TRUE,
                              !.reconstructed = @ \o AbsSeq(c, v.rel),
                              !.pos = Advance(q.snap, q.key, q.pos)]
  <2>1. rd' = [rd EXCEPT ![r] = new] /\ UNCHANGED <<db, writer>>
    BY <1>1 DEF VisitForward
  <2>2. ScanOK(new) /\ StateOK(new.snap)
    BY <1>1, VisitTypes DEF VisitForward, ScanOK
  <2> QED  BY <2>1, <2>2, ReaderRecord
<1>2. ASSUME VisitBackward(r) PROVE TInv'
  <2> DEFINE new == [q EXCEPT !.skippedOffset = Len(v.range),
                              !.skippedOffsetSet = TRUE,
                              !.reconstructed = AbsSeq(c, v.rel) \o @,
                              !.pos = IF Len(v.range) <= q.start THEN Invalid
                                      ELSE Advance(q.snap, q.key, q.pos)]
  <2>1. rd' = [rd EXCEPT ![r] = new] /\ UNCHANGED <<db, writer>>
    BY <1>2 DEF VisitBackward
  <2>2. ScanOK(new) /\ StateOK(new.snap)
    BY <1>2, VisitTypes DEF VisitBackward, ScanOK
  <2> QED  BY <2>1, <2>2, ReaderRecord
<1>3. ASSUME FinishLookup(r) PROVE TInv'
  <2>1. ScanOK(q)
    BY <1>3 DEF FinishLookup, TInv, ReaderTypes, ReadType, NoRead
  <2> QED  BY <1>3, <2>1, LookupAnswerType, ReaderRecord DEF FinishLookup
<1>4. ASSUME ReadReturn(r) PROVE TInv'
  BY <1>4, ReaderRecord DEF ReadReturn, ReadType
<1> QED  BY <1>1, <1>2, <1>3, <1>4 DEF ReaderStep

LEMMA SubRootType ==
  ASSUME TInv, NEW k
  PROVE  SubRoot(db, k) \in Seq(Index)
<1> DEFINE a == SeekLatest(db, k)
<1>1. StateOK(db) /\ a \in DOMAIN db \cup {Invalid}
  BY LookupPositions DEF TInv, WriterTypes
<1>2. CASE a = Invalid
  BY <1>2, EmptySeq DEF SubRoot
<1>3. CASE a # Invalid
  <2>1. Folded(ChunkAt(a), db[a]) \in Seq(Index)
    BY <1>1, <1>3, StateFacts, FoldedType
  <2> QED  BY <1>3, <2>1 DEF SubRoot
<1> QED  BY <1>2, <1>3

\* TInv is an invariant: no step of the writer, of a reader, or of a crash
\* leaves the types.
LEMMA StepTypes == TInv /\ [Next]_vars => TInv'
<1> SUFFICES ASSUME TInv, [Next]_vars PROVE TInv'
  OBVIOUS
<1>1. ASSUME NEW u \in Updates, WriteBatch(u) PROVE TInv'
  BY <1>1 DEF WriteBatch, TInv, WriterTypes, ReaderTypes
<1>2. ASSUME WriterStep PROVE TInv'
  BY <1>2, WriterStepTypes
<1>3. ASSUME NEW r \in Readers, NEW k \in Keys, GetSubRoot(r, k) PROVE TInv'
  <2>1. Answer(TRUE, SubRoot(db, k)) \in ReadType
    BY SubRootType DEF Answer, ReadType
  <2> QED  BY <1>3, <2>1, ReaderRecord DEF GetSubRoot
<1>4. ASSUME NEW r \in Readers, NEW k \in Keys, NEW start \in Index, Lookup(r, k, start)
      PROVE  TInv'
  <2> DEFINE new == [pc |-> "scan", key |-> k, start |-> start, snap |-> db,
                     pos |-> SeekStart(db, k, ChunkNum(start)),
                     skippedOffset |-> 0, skippedOffsetSet |-> FALSE,
                     reconstructed |-> <<>>]
  <2>1. SeekStart(db, k, ChunkNum(start)) \in DOMAIN db \cup {Invalid}
    BY LookupPositions DEF TInv, WriterTypes
  <2>2. ScanOK(new) /\ StateOK(new.snap)
    BY <2>1, EmptySeq DEF ScanOK, TInv, WriterTypes, StateOK
  <2>3. rd' = [rd EXCEPT ![r] = new] /\ UNCHANGED <<db, writer>>
    BY <1>4 DEF Lookup
  <2> QED  BY <2>2, <2>3, ReaderRecord
<1>5. ASSUME NEW r \in Readers, ReaderStep(r) PROVE TInv'
  BY <1>5, ReaderStepTypes
<1>6. ASSUME Crash PROVE TInv'
  <2>1. WriterTypes'
    BY <1>6, ReleaseTypes DEF Crash, TInv, WriterTypes
  <2>2. ReaderTypes'
    BY <1>6 DEF Crash, ReaderTypes, ReadType
  <2> QED  BY <2>1, <2>2 DEF TInv
<1>7. CASE UNCHANGED vars
  BY <1>7 DEF vars, writer, TInv, WriterTypes, ReaderTypes
<1> QED
  BY <1>1, <1>2, <1>3, <1>4, <1>5, <1>6, <1>7 DEF Next

\* Every reachable state is well typed: in particular the unchecked uint64 and
\* uint16 arithmetic of WriteBatch and Lookup never leaves its range.
THEOREM TypesCorrect == Spec => []TypeOK
<1>1. Init => TInv
  BY InitTypes
<1>2. TInv /\ [Next]_vars => TInv'
  BY StepTypes
<1>3. TInv => TypeOK
  BY TInvImpliesTypeOK
<1> QED  BY <1>1, <1>2, <1>3, PTL DEF Spec

-----------------------------------------------------------------------------
(* The chunks of a key.                                                      *)

LEMMA DBKeyFacts ==
  ASSUME NEW k \in Keys, NEW c \in Index
  PROVE  /\ DBKey(k, c) \in Keys \X Index /\ DBKey(k, c) \in PKey
         /\ DBKey(k, c)[1] = k /\ ChunkAt(DBKey(k, c)) = c
         /\ \A m \in Keys, d \in Index : DBKey(k, c) = DBKey(m, d) <=> k = m /\ c = d
<1>1. \A d \in Index : Suffix(d) \in Index /\ Suffix(Suffix(d)) = d
  BY SuffixIsInvolution
<1>2. DBKey(k, c) \in Keys \X Index /\ DBKey(k, c)[1] = k /\ ChunkAt(DBKey(k, c)) = c
  BY <1>1 DEF DBKey, ChunkAt
<1>3. ASSUME NEW m \in Keys, NEW d \in Index, DBKey(k, c) = DBKey(m, d)
      PROVE  k = m /\ c = d
  BY <1>1, <1>3 DEF DBKey
<1> QED  BY <1>2, <1>3, KeysAreKeys

LEMMA ChunkKey ==
  ASSUME NEW s, StateOK(s), NEW a \in DOMAIN s
  PROVE  a[1] \in Keys /\ ChunkAt(a) \in ChunksOf(s, a[1]) /\ a = DBKey(a[1], ChunkAt(a))
<1>1. a \in Keys \X Index /\ ChunkAt(a) \in Index
  BY StateFacts
<1>2. a = DBKey(a[1], ChunkAt(a))
  BY <1>1, SuffixIsInvolution DEF DBKey, ChunkAt
<1> QED  BY <1>1, <1>2 DEF ChunksOf

\* The order of a key's physical keys is the order of its chunk numbers, or for
\* the inverted engine its reverse.
LEMMA SuffixOrder ==
  ASSUME NEW k \in Keys, NEW c \in Index, NEW d \in Index
  PROVE  IF Engine = Inverted THEN Below(DBKey(k, c), DBKey(k, d)) <=> d < c
         ELSE Below(DBKey(k, c), DBKey(k, d)) <=> c < d
BY SizeAssumption, KeysAssumption
   DEF Below, DBKey, Suffix, Inverted, invertChunkNum, Index

PrefixKeys(s, k) == {a \in DOMAIN s : a[1] = k}

LEMMA LatestIsExtreme ==
  ASSUME NEW s, StateOK(s), NEW k \in Keys, NEW a \in PrefixKeys(s, k),
         \A b \in PrefixKeys(s, k) :
           a = b \/ (IF Engine = Inverted THEN Below(a, b) ELSE Below(b, a))
  PROVE  a = DBKey(k, ChunkAt(a)) /\ IsLatest(s, k, ChunkAt(a))
<1>1. a \in DOMAIN s /\ a = DBKey(k, ChunkAt(a)) /\ ChunkAt(a) \in ChunksOf(s, k)
  BY ChunkKey DEF PrefixKeys
<1>2. ASSUME NEW d \in ChunksOf(s, k)
      PROVE  d <= ChunkAt(a)
  <2>1. d \in Index /\ ChunkAt(a) \in Index /\ DBKey(k, d) \in PrefixKeys(s, k)
    BY <1>1, DBKeyFacts DEF ChunksOf, PrefixKeys
  <2>2. \/ a = DBKey(k, d)
        \/ IF Engine = Inverted THEN Below(a, DBKey(k, d)) ELSE Below(DBKey(k, d), a)
    BY <2>1
  <2>3. d = ChunkAt(a) \/ d < ChunkAt(a)
    BY <1>1, <2>1, <2>2, SuffixOrder, DBKeyFacts
  <2> QED  BY <2>1, <2>3, SizeAssumption DEF Index
<1> QED  BY <1>1, <1>2 DEF IsLatest

\* Every engine's seek lands on the latest chunk of the key.
LEMMA SeekLatestFinds ==
  ASSUME NEW s, StateOK(s), NEW k \in Keys
  PROVE  LET a == SeekLatest(s, k)
         IN  \/ a = Invalid /\ ChunksOf(s, k) = {}
             \/ /\ a \in DOMAIN s /\ a # Invalid
                /\ a = DBKey(k, ChunkAt(a)) /\ IsLatest(s, k, ChunkAt(a))
<1> DEFINE P == PrefixKeys(s, k)
<1>1. DOMAIN s \in SUBSET PKey /\ Extremal(DOMAIN s) /\ k \in Nat
  BY KeysAreKeys, KeysAssumption DEF StateOK, Snapshot
<1>2. \A a \in DOMAIN s : a \in PKey /\ a # Invalid /\ a[1] \in Nat /\ a[2] \in Nat
  BY <1>1, InvalidIsNoKey DEF PKey
<1>3. P = {} => ChunksOf(s, k) = {}
  BY DBKeyFacts DEF PrefixKeys, ChunksOf
<1>4. P \in SUBSET (DOMAIN s)
  BY DEF PrefixKeys
<1>5. CASE Engine = Inverted
  <2>1. SeekLatest(s, k) = Smallest(P)
    <3>1. P = {b \in DOMAIN s : b[1] = BarePrefix(k)[1] /\ ~Below(b, BarePrefix(k))}
      BY <1>1, <1>2 DEF PrefixKeys, BarePrefix, Below
    <3> QED  BY <1>5, <3>1 DEF SeekLatest, InvertedSeekLatest, SeekPrefixGE, Inverted
  <2>2. \/ P = {} /\ Smallest(P) = Invalid
        \/ /\ Smallest(P) \in P
           /\ \A b \in P : Smallest(P) = b \/ Below(Smallest(P), b)
    BY <1>1, <1>4, SmallestFound
  <2> QED  BY <1>2, <1>3, <1>4, <1>5, <2>1, <2>2, LatestIsExtreme
<1>6. CASE Engine # Inverted
  <2>1. \/ P = {} /\ SeekLatest(s, k) = Invalid
        \/ /\ SeekLatest(s, k) \in P
           /\ \A b \in P : SeekLatest(s, k) = b \/ Below(b, SeekLatest(s, k))
    <3>1. CASE Engine = "prefix_chunk_scan"
      <4>1. P = {a \in DOMAIN s : HasPrefix(a, k)}
        BY <1>2 DEF PrefixKeys, HasPrefix
      <4>2. P = {b \in DOMAIN s : b[1] = BarePrefix(k)[1] /\ ~Below(b, BarePrefix(k))}
        BY <1>1, <1>2 DEF PrefixKeys, BarePrefix, Below
      <4>3. SeekLatest(s, k) = IF Smallest(P) = Invalid THEN Invalid ELSE Largest(P)
        BY <1>6, <3>1, <4>1, <4>2 DEF SeekLatest, ScanToLatest, SeekPrefixGE
      <4> QED  BY <1>1, <1>2, <1>4, <4>3, SmallestFound, LargestFound
    <3>2. CASE Engine # "prefix_chunk_scan"
      <4> DEFINE L == {b \in DOMAIN s : Below(b, prefixUpperBound(k))}
                 a == Largest(L)
      <4>1. L = {b \in DOMAIN s : b[1] <= k}
        BY <1>1, <1>2 DEF Below, prefixUpperBound
      <4>2. SeekLatest(s, k) = Within(a, k)
        BY <1>6, <3>2 DEF SeekLatest, ReverseSeekLatest, SeekLT
      <4>3. \/ L = {} /\ a = Invalid
            \/ a \in L /\ \A b \in L : a = b \/ Below(b, a)
        BY <1>1, LargestFound
      <4>4. P \subseteq L
        BY <1>1, <1>2, <4>1 DEF PrefixKeys
      <4>5. CASE L = {} /\ a = Invalid
        BY <4>2, <4>4, <4>5 DEF Within
      <4>6. CASE a \in L /\ \A b \in L : a = b \/ Below(b, a)
        <5>1. a \in DOMAIN s /\ a # Invalid /\ a[1] <= k
          BY <1>2, <4>1, <4>6
        <5>2. CASE a[1] = k
          BY <4>2, <4>4, <4>6, <5>1, <5>2 DEF Within, HasPrefix, PrefixKeys
        <5>3. CASE a[1] # k
          <6>1. P = {}
            BY <1>1, <1>2, <4>4, <4>6, <5>1, <5>3 DEF PrefixKeys, Below
          <6> QED  BY <4>2, <5>3, <6>1 DEF Within, HasPrefix
        <5> QED  BY <5>2, <5>3
      <4> QED  BY <4>3, <4>5, <4>6
    <3> QED  BY <3>1, <3>2
  <2> QED  BY <1>2, <1>3, <1>4, <1>6, <2>1, LatestIsExtreme
<1> QED  BY <1>5, <1>6

-----------------------------------------------------------------------------
(* Writing one chunk into a database state.                                  *)

Put(s, k, c, v) == Overlay([a \in {DBKey(k, c)} |-> v], s)

LEMMA PutFacts ==
  ASSUME NEW s, StateOK(s), NEW k \in Keys, NEW c \in Index, NEW v
  PROVE  LET t == Put(s, k, c, v)
         IN  /\ ChunksOf(t, k) = ChunksOf(s, k) \cup {c}
             /\ Chunk(t, k, c) = v
             /\ \A d \in ChunksOf(s, k) : d # c => Chunk(t, k, d) = Chunk(s, k, d)
             /\ \A m \in Keys : m # k =>
                  /\ ChunksOf(t, m) = ChunksOf(s, m)
                  /\ \A d \in ChunksOf(s, m) : Chunk(t, m, d) = Chunk(s, m, d)
<1> DEFINE t == Put(s, k, c, v)
<1>1. DOMAIN t = {DBKey(k, c)} \cup DOMAIN s
  BY DEF Put, Overlay
<1>2. t[DBKey(k, c)] = v /\ \A a \in DOMAIN s : a # DBKey(k, c) => t[a] = s[a]
  BY DEF Put, Overlay
<1>3. \A m \in Keys, d \in Index : DBKey(k, c) = DBKey(m, d) <=> k = m /\ c = d
  BY DBKeyFacts
<1> HIDE DEF t
<1>4. ChunksOf(t, k) = ChunksOf(s, k) \cup {c}
  BY <1>1, <1>3 DEF ChunksOf
<1>5. ASSUME NEW m \in Keys, m # k PROVE ChunksOf(t, m) = ChunksOf(s, m)
  BY <1>1, <1>3, <1>5 DEF ChunksOf
<1>6. ASSUME NEW m \in Keys, NEW d \in ChunksOf(s, m), m # k \/ d # c
      PROVE  Chunk(t, m, d) = Chunk(s, m, d)
  BY <1>2, <1>3, <1>6 DEF ChunksOf, Chunk
<1>7. Chunk(t, k, c) = v
  BY <1>2 DEF Chunk
<1> QED  BY <1>4, <1>5, <1>6, <1>7 DEF t

\* Chain speaks only of the chunks of its key.
LEMMA ChainSame ==
  ASSUME NEW s, NEW t, NEW k, Chain(s, k), ChunksOf(t, k) = ChunksOf(s, k),
         \A d \in ChunksOf(s, k) : Chunk(t, k, d) = Chunk(s, k, d)
  PROVE  Chain(t, k)
BY DEF Chain

\* The first chunk of a key, the latest chunk with its range kept, and a new
\* chunk with the latest one folded into its range: each keeps the chain.
LEMMA ChainPut ==
  ASSUME NEW s, StateOK(s), NEW k \in Keys, NEW c \in Index, NEW range, NEW rel,
         Chain(s, k), rel # <<>>,
         \/ ChunksOf(s, k) = {} /\ range = <<>>
         \/ IsLatest(s, k, c) /\ range = Chunk(s, k, c).range
         \/ \E d \in ChunksOf(s, k) : IsLatest(s, k, d) /\ d < c
                                      /\ range = Folded(d, Chunk(s, k, d))
  PROVE  LET t == Put(s, k, c, Value(range, rel))
         IN  Chain(t, k) /\ IsLatest(t, k, c)
<1> DEFINE v == Value(range, rel)  t == Put(s, k, c, v)
<1>1. /\ ChunksOf(t, k) = ChunksOf(s, k) \cup {c}
      /\ Chunk(t, k, c) = v
      /\ \A d \in ChunksOf(s, k) : d # c => Chunk(t, k, d) = Chunk(s, k, d)
  BY PutFacts
<1>2. ChunksOf(s, k) \subseteq Nat /\ c \in Nat
  BY SizeAssumption DEF ChunksOf, Index
<1>3. v.range = range /\ v.rel = rel
  BY DEF Value
<1>4. \A d \in ChunksOf(s, k) : d <= c
  BY <1>2 DEF IsLatest
<1>5. IsLatest(t, k, c)
  BY <1>1, <1>2, <1>4 DEF IsLatest
<1> HIDE DEF t, v
<1>6. ASSUME NEW e \in ChunksOf(t, k)
      PROVE  LET older == {d \in ChunksOf(t, k) : d < e}
             IN  /\ Chunk(t, k, e).rel # <<>>
                 /\ older = {} => Chunk(t, k, e).range = <<>>
                 /\ \A d \in older : (\A f \in older : f <= d) =>
                      Chunk(t, k, e).range = Folded(d, Chunk(t, k, d))
  <2>1. CASE e # c
    <3>1. e \in ChunksOf(s, k) /\ e < c
      BY <1>1, <1>2, <1>4, <2>1
    <3>2. {d \in ChunksOf(t, k) : d < e} = {d \in ChunksOf(s, k) : d < e}
      BY <1>1, <1>2, <3>1
    <3>3. \A d \in ChunksOf(s, k) : d < e => Chunk(t, k, d) = Chunk(s, k, d)
      BY <1>1, <1>2, <3>1
    <3>4. Chunk(t, k, e) = Chunk(s, k, e)
      BY <1>1, <2>1, <3>1
    <3> QED  BY <3>1, <3>2, <3>3, <3>4 DEF Chain
  <2>2. CASE e = c
    <3> DEFINE older == {d \in ChunksOf(s, k) : d < c}
    <3>1. {d \in ChunksOf(t, k) : d < e} = older
      BY <1>1, <1>2, <2>2
    <3>2. \A d \in older : Chunk(t, k, d) = Chunk(s, k, d)
      BY <1>1, <1>2
    <3>3. Chunk(t, k, e).rel = rel /\ Chunk(t, k, e).range = range
      BY <1>1, <1>3, <2>2
    <3>4. older = {} => range = <<>>
      BY <1>2, <1>4 DEF IsLatest, Chain
    <3>5. ASSUME NEW d \in older, \A f \in older : f <= d
          PROVE  range = Folded(d, Chunk(s, k, d))
      <4>1. CASE IsLatest(s, k, c) /\ range = Chunk(s, k, c).range
        BY <3>5, <4>1 DEF IsLatest, Chain
      <4>2. CASE \E g \in ChunksOf(s, k) : IsLatest(s, k, g) /\ g < c
                                           /\ range = Folded(g, Chunk(s, k, g))
        <5>1. PICK g \in ChunksOf(s, k) : IsLatest(s, k, g) /\ g < c
                                          /\ range = Folded(g, Chunk(s, k, g))
          BY <4>2
        <5>2. g = d
          BY <1>2, <3>5, <5>1 DEF IsLatest
        <5> QED  BY <5>1, <5>2
      <4> QED  BY <4>1, <4>2
    <3> QED  BY <3>1, <3>2, <3>3, <3>4, <3>5
  <2> QED  BY <2>1, <2>2
<1>7. Chain(t, k)
  BY <1>6 DEF Chain
<1> QED  BY <1>5, <1>7 DEF t, v

LEMMA OverlayAssociative ==
  ASSUME NEW a, NEW b, NEW s
  PROVE  Overlay(Overlay(a, b), s) = Overlay(a, Overlay(b, s))
BY DEF Overlay

LEMMA OverlayNothing ==
  ASSUME NEW s, Snapshot(s)
  PROVE  Overlay(NoWrites, s) = s
BY DEF Overlay, NoWrites, Snapshot

\* Keys the batch does not touch are in the view as they are in the database.
LEMMA ViewOfUntouched ==
  ASSUME NEW b, StateOK(b), NEW s, StateOK(s), NEW k \in Keys,
         \A a \in DOMAIN b : a[1] # k
  PROVE  /\ ChunksOf(Overlay(b, s), k) = ChunksOf(s, k)
         /\ \A c \in ChunksOf(s, k) : Chunk(Overlay(b, s), k, c) = Chunk(s, k, c)
<1>1. \A c \in Index : DBKey(k, c) \notin DOMAIN b
  BY DBKeyFacts
<1> QED  BY <1>1 DEF ChunksOf, Chunk, Overlay

-----------------------------------------------------------------------------
(* The order in which indices arrive.                                        *)

LEMMA ChunkNumLowerBound ==
  ASSUME NEW c \in Nat, NEW i \in Nat, c * ChunkSize <= i
  PROVE  c <= ChunkNum(i)
BY SizeAssumption, Z3 DEF ChunkNum

LEMMA ChunkNumMonotonic ==
  ASSUME NEW i \in Nat, NEW j \in Nat, i <= j
  PROVE  ChunkNum(i) <= ChunkNum(j)
BY SizeAssumption, Z3 DEF ChunkNum

LEMMA ContentsOfLatest ==
  ASSUME NEW s, StateOK(s), NEW k \in Keys, NEW c, IsLatest(s, k, c)
  PROVE  Contents(s, k) = Folded(c, Chunk(s, k, c))
<1>1. LatestChunk(s, k) = c
  BY SizeAssumption DEF LatestChunk, IsLatest, ChunksOf, Index
<1> QED  BY <1>1 DEF Contents, IsLatest

\* An index above all that a key has is not in a chunk below its latest.
LEMMA NewIndexNotBelow ==
  ASSUME NEW s, StateOK(s), NEW k \in Keys, NEW c, IsLatest(s, k, c), Chain(s, k),
         NEW i \in Index, \A j \in IndicesOf(Contents(s, k)) : j < i
  PROVE  c <= ChunkNum(i)
<1> DEFINE v == Chunk(s, k, c)  n == Len(v.rel)  m == Len(v.range)
<1>1. c \in Index /\ c \in Nat /\ i \in Nat
  BY SizeAssumption DEF IsLatest, ChunksOf, Index
<1>2. v.range \in Seq(Index) /\ v.rel \in Seq(Rel) /\ Offsets(c, v.rel) /\ v.rel # <<>>
  BY StateFacts, DBKeyFacts DEF IsLatest, ChunksOf, Chunk, Chain
<1>3. n \in Nat /\ n > 0 /\ m \in Nat
  BY <1>2, EmptySeq, LenProperties
<1>4. AbsSeq(c, v.rel)[n] = c * ChunkSize + v.rel[n] /\ v.rel[n] \in Nat
  <2>1. v.rel[n] \in Rel
    BY <1>2, <1>3, ElementOfSeq
  <2> QED  BY <1>3, <2>1 DEF AbsSeq, Rel
<1>5. AbsSeq(c, v.rel) \in Seq(Index) /\ Len(AbsSeq(c, v.rel)) = n
  BY <1>1, <1>2, AbsSeqType DEF Offsets
<1>6. /\ Len(Folded(c, v)) = m + n
      /\ Folded(c, v)[m + n] = AbsSeq(c, v.rel)[n]
  <2> DEFINE abs == AbsSeq(c, v.rel)
  <2>1. v.range \in Seq(Index) /\ abs \in Seq(Index) /\ Len(abs) = n /\ Len(v.range) = m
    BY <1>2, <1>5
  <2>2. Folded(c, v) = v.range \o abs
    BY DEF Folded
  <2> HIDE DEF abs, n, m
  <2>3. /\ Len(v.range \o abs) = m + n
        /\ \A x \in 1 .. m + n :
             (v.range \o abs)[x] = IF x <= m THEN v.range[x] ELSE abs[x - m]
    BY <2>1, ConcatProperties
  <2>4. m + n \in 1 .. m + n /\ ~(m + n <= m) /\ (m + n) - m = n
    BY <1>3
  <2>5. (v.range \o abs)[m + n] = abs[n]
    BY <2>3, <2>4
  <2> QED  BY <2>2, <2>3, <2>5 DEF abs
<1>7. AbsSeq(c, v.rel)[n] \in IndicesOf(Contents(s, k))
  <2>1. Contents(s, k) = Folded(c, v)
    BY ContentsOfLatest
  <2>2. m + n \in 1 .. Len(Folded(c, v))
    <3> HIDE DEF n, m
    <3> QED  BY <1>3, <1>6
  <2> QED  BY <1>6, <2>1, <2>2 DEF IndicesOf
<1>8. c * ChunkSize + v.rel[n] < i
  BY <1>4, <1>7
<1>9. c * ChunkSize <= i
  BY <1>1, <1>4, <1>8, SizeAssumption
<1> QED  BY <1>1, <1>9, ChunkNumLowerBound

\* Going on to the next index keeps the rest in order.
LEMMA ComingNext ==
  ASSUME pending \in Seq(Index), pending # <<>>, Sorted(pending)
  PROVE  /\ Sorted(Tail(pending))
         /\ Tail(pending) # <<>> => ChunkNum(Head(pending)) <= ChunkNum(Head(Tail(pending)))
<1>1. /\ Tail(pending) \in Seq(Index) /\ Len(Tail(pending)) = Len(pending) - 1
      /\ Len(pending) \in Nat /\ Head(pending) = pending[1]
      /\ \A i \in 1 .. Len(Tail(pending)) : Tail(pending)[i] = pending[i + 1]
  BY HeadTailProperties, LenProperties
<1>2. \A i \in 1 .. Len(pending) : pending[i] \in Nat
  BY ElementOfSeq, SizeAssumption DEF Index
<1>3. Sorted(Tail(pending))
  BY <1>1 DEF Sorted
<1>4. ASSUME Tail(pending) # <<>>
      PROVE  ChunkNum(Head(pending)) <= ChunkNum(Head(Tail(pending)))
  <2>1. Len(Tail(pending)) > 0 /\ Head(Tail(pending)) = pending[2]
    BY <1>1, <1>4, HeadTailProperties, EmptySeq
  <2>2. ~(pending[2] < pending[1])
    BY <1>1, <2>1 DEF Sorted
  <2> QED  BY <1>1, <1>2, <2>1, <2>2, ChunkNumMonotonic
<1> QED  BY <1>3, <1>4

-----------------------------------------------------------------------------
(* The chain of frontiers.                                                   *)

\* Writing the chunk in hand.
LEMMA Written ==
  ASSUME CInv, wpc = "indices", cur.rel # <<>>,
         NEW b, b = IF cur.modified THEN BatchWithCur ELSE batch
  PROVE  LET t == Overlay(b, db)
         IN  /\ \A m \in Keys : Chain(t, m)
             /\ IsLatest(t, cur.key, cur.chunkNum)
             /\ Chunk(t, cur.key, cur.chunkNum).range = cur.range
             /\ Chunk(t, cur.key, cur.chunkNum).rel = cur.rel
             /\ \A a \in DOMAIN b : a[1] \notin todo
<1> DEFINE k == cur.key  c == cur.chunkNum  v == Value(cur.range, cur.rel)
<1>1. k \in Keys /\ c \in Index /\ k \notin todo /\ StateOK(View)
  BY OverlayOK DEF CInv, TInv, WriterTypes, CurType, View
<1>2. InHand /\ \A m \in Keys : Chain(View, m)
  BY DEF CInv
<1>3. CASE ~cur.modified
  <2>1. b = batch
    BY <1>3
  <2> QED  BY <1>1, <1>2, <1>3, <2>1 DEF InHand, View, CInv
<1>4. CASE cur.modified
  <2>1. b = Overlay([a \in {DBKey(k, c)} |-> v], batch)
    BY <1>4 DEF BatchWithCur
  <2>2. Overlay(b, db) = Put(View, k, c, v)
    BY <2>1, OverlayAssociative DEF Put, View
  <2>3. Chain(Put(View, k, c, v), k) /\ IsLatest(Put(View, k, c, v), k, c)
    BY <1>1, <1>2, ChainPut DEF InHand
  <2>4. Chunk(Put(View, k, c, v), k, c) = v
    BY <1>1, PutFacts
  <2>5. ASSUME NEW m \in Keys, m # k PROVE Chain(Put(View, k, c, v), m)
    BY <1>1, <1>2, <2>5, PutFacts, ChainSame
  <2>6. \A a \in DOMAIN b : a[1] \notin todo
    <3>1. DOMAIN b = {DBKey(k, c)} \cup DOMAIN batch
      BY <2>1 DEF Overlay
    <3>2. DBKey(k, c)[1] = k
      BY <1>1, DBKeyFacts
    <3> QED  BY <1>1, <3>1, <3>2 DEF CInv
  <2> QED  BY <2>2, <2>3, <2>4, <2>5, <2>6 DEF Value
<1> QED  BY <1>3, <1>4

\* Loading the state of a key puts its latest chunk, or an empty first one, in hand.
LEMMA Loaded ==
  ASSUME CInv, wpc = "keys", NEW k \in todo, LoadKey(k), TInv'
  PROVE  (InHand /\ Coming)'
<1> DEFINE a == SeekLatest(snap, k)  list == updates[k]
<1>1. /\ k \in Keys /\ list \in Seq(Index) /\ list # <<>> /\ Sorted(list)
      /\ StateOK(db) /\ StateOK(batch) /\ snap = db
  BY InitialCurTypes DEF CInv, LoadKey, Working, TInv, WriterTypes
<1>2. /\ cur' = InitialCur(k, list) /\ cur'.key = k
      /\ pending' = list /\ View' = View
  BY InitialCurTypes DEF LoadKey, View, CInv
<1>3. /\ ChunksOf(View, k) = ChunksOf(db, k)
      /\ \A c \in ChunksOf(db, k) : Chunk(View, k, c) = Chunk(db, k, c)
  BY <1>1, ViewOfUntouched DEF CInv, View
<1>4. Head(list) \in Index /\ Head(list) = list[1] /\ Len(list) \in Nat \ {0}
  BY <1>1, HeadTailProperties, EmptySeq
<1>5. CASE a = Invalid
  <2>1. ChunksOf(db, k) = {}
    BY <1>1, <1>5, SeekLatestFinds
  <2>2. cur' = [key |-> k, chunkNum |-> ChunkNum(Head(list)), range |-> <<>>,
                rel |-> <<>>, modified |-> TRUE]
    BY <1>2, <1>5 DEF InitialCur
  <2>3. InHand'
    BY <1>2, <1>3, <2>1, <2>2 DEF InHand
  <2>4. ChunkNum(Head(list)) \in Nat
    BY <1>4, ChunkNumType, SizeAssumption DEF Index
  <2>5. Coming'
    BY <1>1, <1>2, <2>2, <2>4 DEF Coming
  <2> QED  BY <2>3, <2>5
<1>6. CASE a # Invalid
  <2> DEFINE c == ChunkAt(a)
  <2>1. /\ a \in DOMAIN db /\ a = DBKey(k, c) /\ IsLatest(db, k, c)
    BY <1>1, <1>6, SeekLatestFinds
  <2>2. cur' = [key |-> k, chunkNum |-> c, range |-> Chunk(db, k, c).range,
                rel |-> Chunk(db, k, c).rel, modified |-> FALSE]
    BY <1>1, <1>2, <1>6, <2>1 DEF InitialCur, Chunk
  <2>3. IsLatest(View, k, c) /\ Chunk(View, k, c) = Chunk(db, k, c)
    BY <1>3, <2>1 DEF IsLatest
  <2> HIDE DEF c
  <2>4. InHand'
    BY <1>2, <2>2, <2>3 DEF InHand
  <2>5. c <= ChunkNum(Head(list))
    <3>1. \A j \in IndicesOf(Contents(db, k)) : j < Head(list)
      <4>1. New(updates) /\ k \in DOMAIN updates
        BY DEF CInv, Working, TInv, WriterTypes
      <4>2. Head(list) \in IndicesOf(updates[k])
        BY <1>4 DEF IndicesOf
      <4> QED  BY <4>1, <4>2 DEF New
    <3>2. Chain(db, k)
      BY <1>1 DEF CInv
    <3> QED  BY <1>1, <1>4, <2>1, <3>1, <3>2, NewIndexNotBelow
  <2>6. Chunk(db, k, c).rel # <<>>
    BY <1>1, <2>1 DEF CInv, Chain, IsLatest
  <2>7. Coming'
    BY <1>1, <1>2, <2>2, <2>5, <2>6 DEF Coming
  <2> QED  BY <2>4, <2>7
<1> QED  BY <1>5, <1>6

\* Every way out of WriteBatch drops the batch.
LEMMA Returned ==
  ASSUME CInv, TInv', Release, wpc' \notin {"keys", "indices"},
         db' = db \/ db' = View
  PROVE  CInv'
<1>1. batch' = NoWrites /\ StateOK(db')
  BY DEF Release, TInv, WriterTypes
<1>2. View' = db'
  BY <1>1, OverlayNothing DEF View, StateOK
<1>3. \A k \in Keys : Chain(db', k) /\ Chain(View', k)
  BY <1>2 DEF CInv
<1>4. DOMAIN NoWrites = {}
  BY DEF NoWrites
<1> QED  BY <1>1, <1>3, <1>4 DEF CInv, Working

LEMMA InitChains == Init => CInv
<1> SUFFICES ASSUME Init PROVE CInv
  OBVIOUS
<1>1. TInv
  BY InitTypes
<1>2. /\ db = NoWrites /\ batch = NoWrites /\ DOMAIN batch = {} /\ wpc = "idle"
      /\ View = NoWrites
  BY OverlayNothing, NoWritesOK DEF Init, NoWrites, View, StateOK
<1>3. \A k \in Keys : ChunksOf(NoWrites, k) = {}
  BY DEF ChunksOf, NoWrites
<1>4. \A k \in Keys : Chain(NoWrites, k)
  BY <1>3 DEF Chain
<1> QED  BY <1>1, <1>2, <1>4 DEF CInv, Working

LEMMA WriterStepChains ==
  ASSUME CInv, WriterStep, TInv'
  PROVE  CInv'
<1>1. ASSUME NEW k \in todo, SkipKey(k) PROVE CInv'
  BY <1>1 DEF SkipKey, CInv, View, Working, New
<1>2. ASSUME NEW k \in todo, RejectKey(k) PROVE CInv'
  BY <1>2, Returned DEF RejectKey
<1>3. ASSUME NEW k \in todo, LoadKey(k) PROVE CInv'
  <2>1. (InHand /\ Coming)'
    BY <1>3, Loaded DEF LoadKey
  <2>2. cur'.key \notin todo'
    BY <1>3, InitialCurTypes DEF LoadKey, CInv
  <2> QED  BY <1>3, <2>1, <2>2 DEF LoadKey, CInv, View, Working, New
<1>4. ASSUME AppendInChunk PROVE CInv'
  <2> DEFINE i == Head(pending)
  <2>1. pending \in Seq(Index) /\ pending # <<>> /\ i \in Index /\ cur.rel \in Seq(Rel)
    BY <1>4, HeadTailProperties DEF AppendInChunk, CInv, TInv, WriterTypes, CurType
  <2>2. cur' = [cur EXCEPT !.rel = Append(@, RelIdx(i)), !.modified = TRUE]
        /\ cur'.rel # <<>> /\ cur'.modified /\ cur'.key = cur.key
        /\ cur'.chunkNum = cur.chunkNum /\ cur'.range = cur.range
    <3>1. RelIdx(i) \in Rel
      <4>1. i \in Nat
        BY <2>1, ChunkNumType
      <4> HIDE DEF i
      <4> QED  BY <4>1, DivMod
    <3>2. Append(cur.rel, RelIdx(i)) # <<>>
      BY <2>1, <3>1, AppendProperties
    <3> QED  BY <1>4, <3>2 DEF AppendInChunk, CInv, TInv, WriterTypes, CurType
  <2>3. View' = View
    BY <1>4 DEF AppendInChunk, View
  <2>4. InHand'
    BY <1>4, <2>2, <2>3 DEF AppendInChunk, CInv, InHand
  <2>5. Coming'
    BY <1>4, <2>1, <2>2, ComingNext DEF AppendInChunk, CInv, Coming
  <2> QED
    BY <1>4, <2>2, <2>3, <2>4, <2>5 DEF AppendInChunk, CInv, Working, New
<1>5. ASSUME CrossBoundary PROVE CInv'
  <2> DEFINE i == Head(pending)
  <2>1. pending \in Seq(Index) /\ pending # <<>> /\ i \in Index /\ cur.rel # <<>>
        /\ cur.chunkNum < ChunkNum(i)
    <3>1. pending \in Seq(Index) /\ pending # <<>> /\ cur.chunkNum \in Index
      BY <1>5 DEF CrossBoundary, CInv, TInv, WriterTypes, CurType
    <3>2. i \in Index /\ ChunkNum(i) \in Index
      BY <3>1, HeadTailProperties, ChunkNumType
    <3>3. cur.rel # <<>> /\ cur.chunkNum <= ChunkNum(i) /\ ChunkNum(i) # cur.chunkNum
      BY <1>5 DEF CrossBoundary, CInv, Coming
    <3> QED  BY <3>1, <3>2, <3>3, SizeAssumption DEF Index
  <2>2. /\ View' = Overlay(batch', db)
        /\ batch' = IF cur.modified THEN BatchWithCur ELSE batch
    BY <1>5 DEF CrossBoundary, View
  <2>3. /\ \A m \in Keys : Chain(View', m)
        /\ IsLatest(View', cur.key, cur.chunkNum)
        /\ Chunk(View', cur.key, cur.chunkNum).range = cur.range
        /\ Chunk(View', cur.key, cur.chunkNum).rel = cur.rel
        /\ \A a \in DOMAIN batch' : a[1] \notin todo
    BY <1>5, <2>1, <2>2, Written DEF CrossBoundary
  <2>4. cur' = [key |-> cur.key, chunkNum |-> ChunkNum(i),
                range |-> Folded(cur.chunkNum, cur), rel |-> <<RelIdx(i)>>,
                modified |-> TRUE]
    BY <1>5 DEF CrossBoundary
  <2>5. Folded(cur.chunkNum, Chunk(View', cur.key, cur.chunkNum))
          = Folded(cur.chunkNum, cur)
    BY <2>3 DEF Folded
  <2>6. InHand'
    BY <2>1, <2>3, <2>4, <2>5 DEF InHand, IsLatest
  <2>7. Coming'
    BY <1>5, <2>1, <2>4, ComingNext DEF CrossBoundary, CInv, Coming
  <2> QED
    BY <1>5, <2>3, <2>4, <2>6, <2>7 DEF CrossBoundary, CInv, Working, New
<1>6. ASSUME FlushKey PROVE CInv'
  <2>1. cur.rel # <<>> /\ wpc = "indices"
    BY <1>6 DEF FlushKey, CInv, Coming
  <2>2. /\ View' = Overlay(batch', db)
        /\ batch' = IF cur.modified THEN BatchWithCur ELSE batch
    BY <1>6 DEF FlushKey, View
  <2>3. /\ \A m \in Keys : Chain(View', m)
        /\ \A a \in DOMAIN batch' : a[1] \notin todo
    BY <2>1, <2>2, Written
  <2> QED  BY <1>6, <2>3 DEF FlushKey, CInv, Working, New
<1>7. ASSUME Commit PROVE CInv'
  BY <1>7, Returned DEF Commit, View
<1>8. ASSUME StorageError PROVE CInv'
  BY <1>8, Returned DEF StorageError
<1>9. ASSUME WriteReturn PROVE CInv'
  BY <1>9 DEF WriteReturn, CInv, View, Working, TInv, WriterTypes
<1> QED
  BY <1>1, <1>2, <1>3, <1>4, <1>5, <1>6, <1>7, <1>8, <1>9 DEF WriterStep, WriterProgress

LEMMA StepChains == CInv /\ [Next]_vars => CInv'
<1> SUFFICES ASSUME CInv, [Next]_vars PROVE CInv'
  OBVIOUS
<1>1. TInv'
  BY StepTypes DEF CInv
<1>2. ASSUME NEW u \in Updates, WriteBatch(u) PROVE CInv'
  <2>1. batch = NoWrites /\ DOMAIN NoWrites = {}
    BY <1>2 DEF WriteBatch, CInv, Working, NoWrites
  <2> QED  BY <1>1, <1>2, <2>1 DEF WriteBatch, CInv, View, Working, New
<1>3. ASSUME WriterStep PROVE CInv'
  BY <1>1, <1>3, WriterStepChains
<1>4. CASE UNCHANGED <<db, writer>>
  BY <1>1, <1>4 DEF writer, CInv, View, Working, New, InHand, Coming
<1>5. ASSUME NEW r \in Readers, ReaderStep(r) PROVE UNCHANGED <<db, writer>>
  BY <1>5 DEF ReaderStep, VisitForward, VisitBackward, FinishLookup, ReadReturn
<1>6. ASSUME Crash PROVE CInv'
  BY <1>1, <1>6, Returned DEF Crash
<1> QED
  BY <1>2, <1>3, <1>4, <1>5, <1>6 DEF Next, vars, GetSubRoot, Lookup

\* Every reachable state of a batch in progress is chained too: what the writer
\* has collected, put over the committed database, is a database whose chunks
\* follow one another, so that the commit may come after any key.
THEOREM ChainInvariant == Spec => []CInv
<1> QED  BY InitChains, StepChains, PTL DEF Spec

\* In every reachable state the range stored with a chunk is what all older
\* chunks of its key hold: the writer may fold the latest chunk in memory and
\* never look at the older ones, for every engine and chunk size.
THEOREM FrontiersChain == Spec => []FrontierChain
<1>1. CInv => FrontierChain
  BY DEF CInv, FrontierChain
<1> QED  BY <1>1, ChainInvariant, PTL

-----------------------------------------------------------------------------
(* Sequences.                                                                *)

LEMMA IndexIsNat == Index \subseteq Nat /\ \A i \in Index : i \in Nat
BY SizeAssumption DEF Index

\* Moving the head of what is to come to the end of what was.
LEMMA MoveHead ==
  ASSUME NEW F \in Seq(Index), NEW p \in Seq(Index), p # <<>>
  PROVE  Append(F, Head(p)) \o Tail(p) = F \o p
<1> DEFINE h == Head(p)  t == Tail(p)
<1>1. h \in Index /\ t \in Seq(Index) /\ Len(t) = Len(p) - 1 /\ h = p[1]
      /\ \A i \in 1 .. Len(t) : t[i] = p[i + 1]
  BY HeadTailProperties
<1>2. Len(F) \in Nat /\ Len(p) \in Nat /\ Len(p) > 0
  BY LenProperties, EmptySeq
<1>3. /\ Append(F, h) \in Seq(Index) /\ Len(Append(F, h)) = Len(F) + 1
      /\ \A i \in 1 .. Len(F) : Append(F, h)[i] = F[i]
      /\ Append(F, h)[Len(F) + 1] = h
  BY <1>1, AppendProperties
<1> DEFINE A == Append(F, h)
<1> HIDE DEF h, t, A
<1>4. A \in Seq(Index) /\ t \in Seq(Index)
  BY <1>1, <1>3 DEF A
<1>5. /\ A \o t \in Seq(Index) /\ Len(A \o t) = Len(A) + Len(t)
      /\ \A i \in 1 .. Len(A) + Len(t) :
           (A \o t)[i] = IF i <= Len(A) THEN A[i] ELSE t[i - Len(A)]
  BY <1>4, ConcatProperties
<1>6. /\ F \o p \in Seq(Index) /\ Len(F \o p) = Len(F) + Len(p)
      /\ \A i \in 1 .. Len(F) + Len(p) :
           (F \o p)[i] = IF i <= Len(F) THEN F[i] ELSE p[i - Len(F)]
  BY ConcatProperties
<1>7. ASSUME NEW i \in 1 .. Len(F) + Len(p) PROVE (A \o t)[i] = (F \o p)[i]
  <2>1. i \in Nat
    BY <1>2
  <2>2. CASE i <= Len(F)
    BY <1>1, <1>2, <1>3, <1>5, <1>6, <2>2 DEF A
  <2>3. CASE i = Len(F) + 1
    BY <1>1, <1>2, <1>3, <1>5, <1>6, <2>3 DEF A
  <2>4. CASE i > Len(F) + 1
    <3>1. i - Len(A) \in 1 .. Len(t) /\ (i - Len(A)) + 1 = i - Len(F)
      BY <1>1, <1>2, <1>3, <2>4 DEF A
    <3>2. (A \o t)[i] = t[i - Len(A)]
      BY <1>1, <1>2, <1>3, <1>5, <2>4 DEF A
    <3>3. (F \o p)[i] = p[i - Len(F)]
      BY <1>2, <1>6, <2>4
    <3> QED  BY <1>1, <3>1, <3>2, <3>3
  <2>5. i <= Len(F) \/ i = Len(F) + 1 \/ i > Len(F) + 1
    BY <1>2, <2>1
  <2> QED  BY <2>2, <2>3, <2>4, <2>5
<1>8. Len(A \o t) = Len(F \o p) /\ Len(F \o p) = Len(F) + Len(p)
  BY <1>1, <1>2, <1>3, <1>5, <1>6 DEF A
<1>9. A \o t = F \o p
  BY <1>5, <1>6, <1>7, <1>8, SeqEqual
<1> QED  BY <1>9 DEF A, h, t

LEMMA ConcatAppend ==
  ASSUME NEW R \in Seq(Index), NEW A \in Seq(Index), NEW i \in Index
  PROVE  R \o Append(A, i) = Append(R \o A, i)
<1>1. R \o A \in Seq(Index) /\ <<i>> \in Seq(Index)
  BY ConcatProperties
<1>2. Append(A, i) = A \o <<i>> /\ Append(R \o A, i) = (R \o A) \o <<i>>
  BY <1>1, AppendIsConcat
<1>3. (R \o A) \o <<i>> = R \o (A \o <<i>>)
  BY <1>1, ConcatAssociative
<1> QED  BY <1>2, <1>3

LEMMA ConcatThree ==
  ASSUME NEW a \in Seq(Index), NEW b \in Seq(Index), NEW c \in Seq(Index)
  PROVE  (a \o b) \o c = a \o (b \o c)
BY ConcatAssociative

LEMMA ExtendsSelf ==
  ASSUME NEW v, NEW w, v.range = w.range, v.rel = w.rel, w.rel \in Seq(Rel)
  PROVE  Extends(v, w)
BY SubSeqFull, LenProperties DEF Extends

LEMMA ExtendsAppend ==
  ASSUME NEW v, NEW w, NEW x, NEW e \in Rel, Extends(v, w), v.rel \in Seq(Rel),
         w.rel \in Seq(Rel), x.range = v.range, x.rel = Append(v.rel, e)
  PROVE  Extends(x, w)
<1>1. /\ Len(v.rel) \in Nat /\ Len(w.rel) \in Nat /\ Len(w.rel) <= Len(v.rel)
      /\ Len(x.rel) = Len(v.rel) + 1
      /\ \A i \in 1 .. Len(v.rel) : x.rel[i] = v.rel[i]
  BY AppendProperties, LenProperties DEF Extends
<1>2. \A i \in 1 .. Len(w.rel) : x.rel[i] = v.rel[i]
  BY <1>1
<1>3. SubSeq(x.rel, 1, Len(w.rel)) = SubSeq(v.rel, 1, Len(w.rel))
  BY <1>1, <1>2
<1> QED  BY <1>1, <1>3 DEF Extends

-----------------------------------------------------------------------------
(* What becomes of the chunks.                                               *)

LEMMA KeptSame ==
  ASSUME NEW s, StateOK(s), NEW t, NEW k \in Keys, ChunksOf(t, k) = ChunksOf(s, k),
         \A c \in ChunksOf(s, k) : Chunk(t, k, c) = Chunk(s, k, c)
  PROVE  Kept(s, t, k)
<1> SUFFICES ASSUME NEW c \in ChunksOf(s, k) PROVE Extends(Chunk(s, k, c), Chunk(s, k, c))
  BY DEF Kept
<1>1. Chunk(s, k, c).rel \in Seq(Rel)
  BY StateFacts DEF ChunksOf, Chunk
<1> QED  BY <1>1, ExtendsSelf

\* Writing the key's latest chunk, or a newer one, keeps the others.
LEMMA KeptPut ==
  ASSUME NEW s, NEW t, StateOK(t), NEW k \in Keys, Kept(s, t, k),
         NEW c \in Index, NEW v,
         \A d \in ChunksOf(s, k) : d <= c /\ (d = c => Extends(v, Chunk(s, k, d)))
  PROVE  Kept(s, Put(t, k, c, v), k)
<1> DEFINE p == Put(t, k, c, v)
<1>1. /\ ChunksOf(p, k) = ChunksOf(t, k) \cup {c}
      /\ Chunk(p, k, c) = v
      /\ \A d \in ChunksOf(t, k) : d # c => Chunk(p, k, d) = Chunk(t, k, d)
  BY PutFacts
<1> HIDE DEF p
<1>2. ASSUME NEW d \in ChunksOf(s, k), d # c
      PROVE  /\ d \in ChunksOf(p, k)
             /\ IF IsLatest(s, k, d) THEN Extends(Chunk(p, k, d), Chunk(s, k, d))
                                     ELSE Chunk(p, k, d) = Chunk(s, k, d)
  BY <1>1, <1>2 DEF Kept
<1>3. ASSUME c \in ChunksOf(s, k)
      PROVE  IsLatest(s, k, c) /\ Extends(Chunk(p, k, c), Chunk(s, k, c))
  BY <1>1, <1>3 DEF IsLatest
<1> QED  BY <1>1, <1>2, <1>3 DEF Kept, p

LEMMA KeptPutOther ==
  ASSUME NEW s, NEW t, StateOK(t), NEW k \in Keys, NEW c \in Index, NEW v,
         NEW m \in Keys, m # k, Kept(s, t, m)
  PROVE  Kept(s, Put(t, k, c, v), m)
<1>1. /\ ChunksOf(Put(t, k, c, v), m) = ChunksOf(t, m)
      /\ \A d \in ChunksOf(t, m) : Chunk(Put(t, k, c, v), m, d) = Chunk(t, m, d)
  BY PutFacts
<1> QED  BY <1>1 DEF Kept

LEMMA ContentsSame ==
  ASSUME NEW s, NEW t, NEW k, ChunksOf(t, k) = ChunksOf(s, k),
         \A c \in ChunksOf(s, k) : Chunk(t, k, c) = Chunk(s, k, c),
         NEW c0, ChunksOf(s, k) = {} \/ IsLatest(s, k, c0)
  PROVE  Contents(t, k) = Contents(s, k)
<1>1. \A c : IsLatest(t, k, c) <=> IsLatest(s, k, c)
  BY DEF IsLatest
<1>2. LatestChunk(t, k) = LatestChunk(s, k)
  BY <1>1 DEF LatestChunk
<1>3. ASSUME ChunksOf(s, k) # {}
      PROVE  LatestChunk(s, k) \in ChunksOf(s, k)
  BY <1>3 DEF LatestChunk, IsLatest
<1> QED  BY <1>2, <1>3 DEF Contents

\* The chunk numbers of a key have a last one, as its physical keys do.
LEMMA LatestExists ==
  ASSUME NEW s, StateOK(s), NEW k \in Keys
  PROVE  ChunksOf(s, k) = {} \/ \E c : IsLatest(s, k, c)
BY SeekLatestFinds

LEMMA ContentsType ==
  ASSUME NEW s, StateOK(s), NEW k \in Keys
  PROVE  Contents(s, k) \in Seq(Index)
<1>1. CASE ChunksOf(s, k) = {}
  BY <1>1, EmptySeq DEF Contents
<1>2. CASE \E c : IsLatest(s, k, c)
  <2>1. PICK c : IsLatest(s, k, c)
    BY <1>2
  <2>2. DBKey(k, c) \in DOMAIN s /\ c \in Index /\ ChunkAt(DBKey(k, c)) = c
    BY <2>1, DBKeyFacts DEF IsLatest, ChunksOf
  <2>3. Folded(c, Chunk(s, k, c)) \in Seq(Index)
    BY <2>2, StateFacts, FoldedType, IndexIsNat DEF Chunk
  <2> QED  BY <2>1, <2>3, ContentsOfLatest
<1> QED  BY <1>1, <1>2, LatestExists

\* The chunk in hand as the batch will have it.
LEMMA InHandTypes ==
  ASSUME GInv, wpc = "indices"
  PROVE  /\ cur.key \in Keys /\ cur.chunkNum \in Index /\ cur.chunkNum \in Nat
         /\ cur.range \in Seq(Index) /\ cur.rel \in Seq(Rel)
         /\ Offsets(cur.chunkNum, cur.rel)
         /\ Folded(cur.chunkNum, cur) \in Seq(Index)
         /\ pending \in Seq(Index) /\ StateOK(db) /\ StateOK(batch) /\ StateOK(View)
<1>1. /\ cur.key \in Keys /\ cur.chunkNum \in Index
      /\ cur.range \in Seq(Index) /\ cur.rel \in Seq(Rel)
      /\ Offsets(cur.chunkNum, cur.rel) /\ pending \in Seq(Index)
      /\ StateOK(db) /\ StateOK(batch)
  BY DEF GInv, CInv, TInv, WriterTypes, CurType
<1>2. Folded(cur.chunkNum, cur) \in Seq(Index)
  BY <1>1, FoldedType, IndexIsNat
<1>3. StateOK(View)
  BY <1>1, OverlayOK DEF View
<1> QED  BY <1>1, <1>2, <1>3, IndexIsNat

\* Writing the chunk in hand keeps what is committed, completes the log of its key
\* and leaves the other keys alone.
LEMMA WrittenLog ==
  ASSUME GInv, wpc = "indices", cur.rel # <<>>,
         NEW b, b = IF cur.modified THEN BatchWithCur ELSE batch
  PROVE  LET t == Overlay(b, db)
         IN  /\ StateOK(b)
             /\ \A m \in Keys : Kept(db, t, m)
             /\ Contents(t, cur.key) = Folded(cur.chunkNum, cur)
             /\ \A m \in Keys : m # cur.key => Contents(t, m) = Contents(View, m)
             /\ \A a \in DOMAIN b : a[1] \in DOMAIN updates
<1> DEFINE k == cur.key  c == cur.chunkNum  v == Value(cur.range, cur.rel)
           t == Overlay(b, db)
<1>1. k \in Keys /\ c \in Index /\ StateOK(View) /\ StateOK(db) /\ StateOK(batch)
  BY InHandTypes
<1>2. CInv /\ KeyInHand /\ \A m \in Keys : Kept(db, View, m)
  BY DEF GInv
<1>3. StateOK(b)
  BY <1>1, <1>2, BatchWithCurTypes DEF CInv
<1>4. StateOK(t)
  BY <1>1, <1>3, OverlayOK
<1>5. /\ IsLatest(t, k, c) /\ Chunk(t, k, c).range = cur.range
      /\ Chunk(t, k, c).rel = cur.rel
  BY <1>2, Written
<1>6. Contents(t, k) = Folded(c, cur)
  <2>1. Contents(t, k) = Folded(c, Chunk(t, k, c))
    BY <1>1, <1>4, <1>5, ContentsOfLatest
  <2> QED  BY <1>5, <2>1 DEF Folded
<1>7. CASE ~cur.modified
  <2>1. b = batch /\ t = View
    BY <1>7 DEF View
  <2> QED  BY <1>2, <1>3, <1>6, <2>1 DEF GInv, Working
<1>8. CASE cur.modified
  <2>1. b = Overlay([a \in {DBKey(k, c)} |-> v], batch)
    BY <1>8 DEF BatchWithCur
  <2>2. t = Put(View, k, c, v)
    BY <2>1, OverlayAssociative DEF Put, View
  <2>3. ASSUME NEW d \in ChunksOf(db, k)
        PROVE  d <= c /\ (d = c => Extends(v, Chunk(db, k, d)))
    BY <1>2, <2>3 DEF KeyInHand, Extends, Value
  <2>4. Kept(db, t, k)
    BY <1>1, <1>2, <2>2, <2>3, KeptPut
  <2>5. ASSUME NEW m \in Keys, m # k
        PROVE  Kept(db, t, m) /\ Contents(t, m) = Contents(View, m)
    <3>1. Kept(db, t, m)
      BY <1>1, <1>2, <2>2, <2>5, KeptPutOther
    <3>2. /\ ChunksOf(t, m) = ChunksOf(View, m)
          /\ \A d \in ChunksOf(View, m) : Chunk(t, m, d) = Chunk(View, m, d)
      BY <1>1, <2>2, <2>5, PutFacts
    <3> HIDE DEF t
    <3>3. Contents(t, m) = Contents(View, m)
      BY <1>1, <3>2, LatestExists, ContentsSame
    <3> QED  BY <3>1, <3>3
  <2>6. ASSUME NEW a \in DOMAIN b PROVE a[1] \in DOMAIN updates
    <3>1. a = DBKey(k, c) \/ a \in DOMAIN batch
      BY <2>1, <2>6 DEF Overlay
    <3>2. DBKey(k, c)[1] = k /\ k \in DOMAIN updates
      BY <1>1, <1>2, DBKeyFacts DEF KeyInHand
    <3> QED  BY <3>1, <3>2 DEF GInv, Working
  <2> QED  BY <1>3, <1>6, <2>4, <2>5, <2>6
<1> QED  BY <1>7, <1>8

-----------------------------------------------------------------------------
(* WriteBatch and the logs.                                                  *)

\* Loading a key puts its log, and its list, into the hands of the writer.
LEMMA LoadedLog ==
  ASSUME GInv, NEW k \in todo, LoadKey(k)
  PROVE  KeyInHand' /\ cur'.key = k
<1> DEFINE a == SeekLatest(snap, k)  list == updates[k]
<1>1. /\ k \in Keys /\ list \in Seq(Index) /\ Sorted(list)
      /\ cur' = InitialCur(k, list) /\ cur'.key = k
      /\ k \in DOMAIN updates /\ StateOK(db) /\ snap = db
      /\ pending' = list /\ UNCHANGED <<db, updates>>
  BY InitialCurTypes DEF LoadKey, GInv, CInv, Working, TInv, WriterTypes
<1>2. KeyInHand' <=> /\ Folded(cur'.chunkNum, cur') \o list = Contents(db, k) \o list
                     /\ \A c \in ChunksOf(db, k) :
                          c <= cur'.chunkNum
                          /\ (c = cur'.chunkNum => Extends(cur', Chunk(db, k, c)))
  BY <1>1 DEF KeyInHand
<1>3. CASE a = Invalid
  <2>1. ChunksOf(db, k) = {} /\ Contents(db, k) = <<>>
    BY <1>1, <1>3, SeekLatestFinds DEF Contents
  <2>2. cur'.range = <<>> /\ cur'.rel = <<>>
    BY <1>1, <1>3 DEF InitialCur
  <2>3. Folded(cur'.chunkNum, cur') = <<>>
    BY <2>2, EmptySeq, ConcatEmptySeq DEF Folded, AbsSeq
  <2> QED  BY <1>1, <1>2, <2>1, <2>3
<1>4. CASE a # Invalid
  <2> DEFINE c == ChunkAt(a)
  <2>1. a \in DOMAIN db /\ a = DBKey(k, c) /\ IsLatest(db, k, c)
    BY <1>1, <1>4, SeekLatestFinds
  <2>2. /\ cur'.chunkNum = c /\ cur'.range = Chunk(db, k, c).range
        /\ cur'.rel = Chunk(db, k, c).rel
    BY <1>1, <1>4, <2>1 DEF InitialCur, Chunk
  <2>3. Folded(cur'.chunkNum, cur') = Contents(db, k)
    <3>1. Contents(db, k) = Folded(c, Chunk(db, k, c))
      BY <1>1, <2>1, ContentsOfLatest
    <3> QED  BY <2>2, <3>1 DEF Folded
  <2>4. Chunk(db, k, c).rel \in Seq(Rel)
    BY <1>1, <2>1, StateFacts DEF Chunk
  <2> HIDE DEF c
  <2>5. Extends(cur', Chunk(db, k, c))
    BY <2>2, <2>4, ExtendsSelf
  <2>6. \A d \in ChunksOf(db, k) : d <= c
    BY <2>1 DEF IsLatest
  <2> QED  BY <1>1, <1>2, <2>2, <2>3, <2>5, <2>6
<1> QED  BY <1>1, <1>3, <1>4

LEMMA AppendedLog ==
  ASSUME GInv, AppendInChunk
  PROVE  KeyInHand'
<1> DEFINE i == Head(pending)  F == Folded(cur.chunkNum, cur)
<1>1. /\ wpc = "indices" /\ pending # <<>> /\ ChunkNum(i) = cur.chunkNum
      /\ cur' = [cur EXCEPT !.rel = Append(@, RelIdx(i)), !.modified = TRUE]
      /\ pending' = Tail(pending) /\ UNCHANGED <<db, updates>>
  BY DEF AppendInChunk
<1>2. /\ cur.range \in Seq(Index) /\ cur.rel \in Seq(Rel) /\ F \in Seq(Index)
      /\ Offsets(cur.chunkNum, cur.rel) /\ pending \in Seq(Index) /\ cur \in CurType
  BY <1>1, InHandTypes DEF GInv, CInv, TInv, WriterTypes
<1>3. i \in Index /\ RelIdx(i) \in Rel
  BY <1>1, <1>2, HeadTailProperties, DivMod, IndexIsNat
<1>4. /\ cur'.key = cur.key /\ cur'.chunkNum = cur.chunkNum /\ cur'.range = cur.range
      /\ cur'.rel = Append(cur.rel, RelIdx(i))
  BY <1>1, <1>2 DEF CurType
<1>5. AbsSeq(cur.chunkNum, Append(cur.rel, RelIdx(i))) = Append(AbsSeq(cur.chunkNum, cur.rel), i)
  BY <1>1, <1>2, <1>3, AbsSeqAppend
<1>6. Folded(cur'.chunkNum, cur') = Append(F, i)
  <2>1. AbsSeq(cur.chunkNum, cur.rel) \in Seq(Index)
    BY <1>2 DEF Offsets
  <2> DEFINE A == AbsSeq(cur.chunkNum, cur.rel)
  <2>2. Folded(cur'.chunkNum, cur') = cur.range \o Append(A, i)
    BY <1>4, <1>5 DEF Folded
  <2>3. F = cur.range \o A /\ A \in Seq(Index)
    BY <2>1 DEF Folded
  <2> HIDE DEF A, F, i
  <2> QED  BY <1>2, <1>3, <2>2, <2>3, ConcatAppend
<1>7. Append(F, i) \o Tail(pending) = F \o pending
  BY <1>1, <1>2, MoveHead
<1>8. KeyInHand
  BY <1>1 DEF GInv
<1>9. ASSUME NEW c \in ChunksOf(db, cur.key)
      PROVE  c <= cur'.chunkNum /\ (c = cur'.chunkNum => Extends(cur', Chunk(db, cur.key, c)))
  <2>1. Chunk(db, cur.key, c).rel \in Seq(Rel)
    BY <1>1, <1>9, InHandTypes, StateFacts DEF ChunksOf, Chunk
  <2>2. c <= cur.chunkNum /\ (c = cur.chunkNum => Extends(cur, Chunk(db, cur.key, c)))
    BY <1>8, <1>9 DEF KeyInHand
  <2> QED  BY <1>2, <1>3, <1>4, <2>1, <2>2, ExtendsAppend
<1>10. Folded(cur'.chunkNum, cur') \o pending' = Contents(db, cur.key) \o updates[cur.key]
  BY <1>1, <1>6, <1>7, <1>8 DEF KeyInHand
<1> HIDE DEF F, i
<1> QED  BY <1>1, <1>4, <1>8, <1>9, <1>10 DEF KeyInHand

LEMMA CrossedLog ==
  ASSUME GInv, CrossBoundary
  PROVE  KeyInHand' /\ cur.rel # <<>>
<1> DEFINE i == Head(pending)  F == Folded(cur.chunkNum, cur)
<1>1. /\ wpc = "indices" /\ pending # <<>> /\ ChunkNum(i) # cur.chunkNum
      /\ cur'.key = cur.key /\ cur'.chunkNum = ChunkNum(i) /\ cur'.range = F
      /\ cur'.rel = <<RelIdx(i)>>
      /\ pending' = Tail(pending) /\ UNCHANGED <<db, updates>>
  BY DEF CrossBoundary
<1>2. /\ F \in Seq(Index) /\ pending \in Seq(Index) /\ StateOK(db) /\ cur.key \in Keys
      /\ cur.chunkNum \in Nat
  BY <1>1, InHandTypes
<1>3. i \in Index /\ RelIdx(i) \in Rel /\ ChunkNum(i) \in Index /\ ChunkNum(i) \in Nat
  BY <1>1, <1>2, HeadTailProperties, DivMod, ChunkNumType, IndexIsNat
<1>4. cur.rel # <<>> /\ cur.chunkNum < ChunkNum(i)
  BY <1>1, <1>2, <1>3 DEF GInv, CInv, Coming
<1>5. AbsSeq(ChunkNum(i), <<RelIdx(i)>>) = <<i>>
  <2>1. Offsets(ChunkNum(i), <<>>) /\ <<>> \in Seq(Rel) /\ AbsSeq(ChunkNum(i), <<>>) = <<>>
    BY EmptySeq DEF Offsets, AbsSeq
  <2>2. Append(<<>>, RelIdx(i)) = <<RelIdx(i)>> /\ Append(<<>>, i) = <<i>>
    OBVIOUS
  <2> HIDE DEF i
  <2> QED  BY <1>3, <2>1, <2>2, AbsSeqAppend
<1>6. Folded(cur'.chunkNum, cur') = Append(F, i)
  BY <1>1, <1>2, <1>3, <1>5, AppendIsConcat DEF Folded
<1>7. Append(F, i) \o Tail(pending) = F \o pending
  BY <1>1, <1>2, MoveHead
<1>8. KeyInHand
  BY <1>1 DEF GInv
<1>9. ASSUME NEW c \in ChunksOf(db, cur.key)
      PROVE  c <= cur'.chunkNum /\ (c = cur'.chunkNum => Extends(cur', Chunk(db, cur.key, c)))
  <2>1. c \in Nat /\ c <= cur.chunkNum
    BY <1>8, <1>9, IndexIsNat DEF KeyInHand, ChunksOf
  <2> QED  BY <1>1, <1>2, <1>3, <1>4, <2>1
<1>10. Folded(cur'.chunkNum, cur') \o pending' = Contents(db, cur.key) \o updates[cur.key]
  BY <1>1, <1>6, <1>7, <1>8 DEF KeyInHand
<1> HIDE DEF F, i
<1> QED  BY <1>1, <1>4, <1>8, <1>9, <1>10 DEF KeyInHand

\* Every way out of WriteBatch drops the batch.
LEMMA ReturnedG ==
  ASSUME CInv', Release, wpc' \notin {"keys", "indices"}
  PROVE  GInv'
<1>1. batch' = NoWrites /\ StateOK(db')
  BY DEF Release, CInv, TInv, WriterTypes
<1>2. View' = db'
  BY <1>1, OverlayNothing DEF View, StateOK
<1>3. \A k \in Keys : Kept(db', View', k)
  BY <1>1, <1>2, KeptSame
<1> QED  BY <1>3 DEF GInv, Working

LEMMA InitG == Init => GInv
<1> SUFFICES ASSUME Init PROVE GInv
  OBVIOUS
<1>1. CInv
  BY InitChains
<1>2. View = db /\ StateOK(db) /\ wpc = "idle"
  BY OverlayNothing, NoWritesOK DEF Init, View, StateOK
<1>3. \A k \in Keys : Kept(db, View, k)
  BY <1>2, KeptSame
<1> QED  BY <1>1, <1>2, <1>3 DEF GInv, Working

LEMMA WriterStepG ==
  ASSUME GInv, WriterStep, CInv'
  PROVE  GInv'
<1>1. ASSUME NEW k \in todo, SkipKey(k) PROVE GInv'
  <2>1. /\ wpc = "keys" /\ updates[k] = <<>> /\ todo' = todo \ {k}
        /\ UNCHANGED <<db, wpc, updates, snap, pending, cur, batch, rd>>
    BY <1>1 DEF SkipKey
  <2>2. k \in Keys /\ k \in DOMAIN updates /\ StateOK(db) /\ StateOK(batch)
    <3>1. updates \in Updates /\ k \in DOMAIN updates
      BY DEF GInv, CInv, TInv, WriterTypes
    <3> QED  BY <3>1, UpdatesAssumption DEF GInv, CInv, TInv, WriterTypes
  <2>3. Contents(View, k) = Contents(db, k)
    <3>1. \A a \in DOMAIN batch : a[1] # k
      BY DEF GInv, CInv
    <3>2. /\ ChunksOf(View, k) = ChunksOf(db, k)
          /\ \A c \in ChunksOf(db, k) : Chunk(View, k, c) = Chunk(db, k, c)
      BY <2>2, <3>1, ViewOfUntouched DEF View
    <3> QED  BY <2>2, <3>2, LatestExists, ContentsSame
  <2>4. Sorted(updates[k]) /\ Contents(View, k) = Contents(db, k) \o updates[k]
    <3>1. Contents(db, k) \in Seq(Index)
      BY <2>2, ContentsType
    <3> QED  BY <2>1, <2>3, <3>1, EmptySeq, ConcatEmptySeq DEF Sorted
  <2>5. Done' \subseteq Done \cup {k}
    BY <2>1 DEF Done
  <2>6. View' = View
    BY <2>1 DEF View
  <2> QED  BY <2>1, <2>4, <2>5, <2>6 DEF GInv, Working
<1>2. ASSUME NEW k \in todo, RejectKey(k) PROVE GInv'
  BY <1>2, ReturnedG DEF RejectKey
<1>3. ASSUME NEW k \in todo, LoadKey(k) PROVE GInv'
  <2>1. KeyInHand' /\ cur'.key = k
    BY <1>3, LoadedLog
  <2>2. /\ wpc = "keys" /\ wpc' = "indices" /\ todo' = todo \ {k}
        /\ UNCHANGED <<db, updates, snap, batch, rd>>
    BY <1>3 DEF LoadKey
  <2>3. Done' = Done /\ View' = View
    BY <2>1, <2>2 DEF Done, View
  <2> QED  BY <2>1, <2>2, <2>3 DEF GInv, Working
<1>4. ASSUME AppendInChunk PROVE GInv'
  <2>1. KeyInHand'
    BY <1>4, AppendedLog
  <2>2. /\ wpc = "indices" /\ cur'.key = cur.key
        /\ UNCHANGED <<db, wpc, updates, todo, snap, batch, rd>>
    BY <1>4 DEF AppendInChunk, GInv, CInv, TInv, WriterTypes, CurType
  <2>3. Done' = Done /\ View' = View
    BY <2>2 DEF Done, View
  <2> QED  BY <2>1, <2>2, <2>3 DEF GInv, Working
<1>5. ASSUME CrossBoundary PROVE GInv'
  <2>1. KeyInHand' /\ cur.rel # <<>>
    BY <1>5, CrossedLog
  <2>2. /\ wpc = "indices" /\ cur'.key = cur.key
        /\ batch' = IF cur.modified THEN BatchWithCur ELSE batch
        /\ UNCHANGED <<db, wpc, updates, todo, snap, rd>>
    BY <1>5 DEF CrossBoundary
  <2>3. Done' = Done /\ View' = Overlay(batch', db)
    BY <2>2 DEF Done, View
  <2>4. /\ \A m \in Keys : Kept(db, View', m)
        /\ \A m \in Keys : m # cur.key => Contents(View', m) = Contents(View, m)
        /\ \A a \in DOMAIN batch' : a[1] \in DOMAIN updates
    BY <2>1, <2>2, <2>3, WrittenLog
  <2>5. ASSUME NEW m \in Done
        PROVE  Sorted(updates[m]) /\ Contents(View', m) = Contents(db, m) \o updates[m]
    <3>1. m \in Keys /\ m # cur.key
      BY <2>2, <2>5, UpdatesAssumption DEF Done, GInv, CInv, TInv, WriterTypes, Working
    <3> QED  BY <2>2, <2>4, <2>5, <3>1 DEF GInv, Working
  <2> QED  BY <2>1, <2>2, <2>3, <2>4, <2>5 DEF GInv, Working
<1>6. ASSUME FlushKey PROVE GInv'
  <2>1. /\ wpc = "indices" /\ wpc' = "keys" /\ pending = <<>>
        /\ batch' = IF cur.modified THEN BatchWithCur ELSE batch
        /\ UNCHANGED <<db, updates, todo, snap, pending, rd>>
    BY <1>6 DEF FlushKey
  <2>2. cur.rel # <<>>
    BY <2>1 DEF GInv, CInv, Coming
  <2>3. Done' \subseteq Done \cup {cur.key} /\ View' = Overlay(batch', db)
    BY <2>1 DEF Done, View
  <2>4. /\ \A m \in Keys : Kept(db, View', m)
        /\ Contents(View', cur.key) = Folded(cur.chunkNum, cur)
        /\ \A m \in Keys : m # cur.key => Contents(View', m) = Contents(View, m)
        /\ \A a \in DOMAIN batch' : a[1] \in DOMAIN updates
    BY <2>1, <2>2, <2>3, WrittenLog
  <2>5. ASSUME NEW m \in Done'
        PROVE  Sorted(updates[m]) /\ Contents(View', m) = Contents(db, m) \o updates[m]
    <3>1. CASE m = cur.key
      <4>1. Folded(cur.chunkNum, cur) \o pending = Folded(cur.chunkNum, cur)
        BY <2>1, InHandTypes, ConcatEmptySeq
      <4> QED  BY <2>1, <2>4, <3>1, <4>1 DEF GInv, KeyInHand
    <3>2. CASE m # cur.key
      <4>1. m \in Done /\ m \in Keys
        BY <2>1, <2>3, <2>5, <3>2, UpdatesAssumption
           DEF Done, GInv, CInv, TInv, WriterTypes, Working
      <4> QED  BY <2>1, <2>4, <3>2, <4>1 DEF GInv, Working
    <3> QED  BY <3>1, <3>2
  <2> QED  BY <2>1, <2>3, <2>4, <2>5 DEF GInv, Working
<1>7. ASSUME Commit PROVE GInv'
  BY <1>7, ReturnedG DEF Commit
<1>8. ASSUME StorageError PROVE GInv'
  BY <1>8, ReturnedG DEF StorageError
<1>9. ASSUME WriteReturn PROVE GInv'
  BY <1>9 DEF WriteReturn, GInv, View, Working
<1> QED
  BY <1>1, <1>2, <1>3, <1>4, <1>5, <1>6, <1>7, <1>8, <1>9 DEF WriterStep, WriterProgress

LEMMA StepG == GInv /\ [Next]_vars => GInv'
<1> SUFFICES ASSUME GInv, [Next]_vars PROVE GInv'
  OBVIOUS
<1>1. CInv'
  BY StepChains DEF GInv
<1>2. ASSUME NEW u \in Updates, WriteBatch(u) PROVE GInv'
  <2>1. /\ batch = NoWrites /\ DOMAIN NoWrites = {} /\ wpc = "idle"
        /\ UNCHANGED <<db, batch>> /\ updates' = u
    BY <1>2 DEF WriteBatch, GInv, CInv, Working, NoWrites
  <2>2. View' = View /\ wpc' # "indices"
    BY <1>2, <2>1 DEF View, WriteBatch
  <2>3. wpc' = "keys" => Done' = {}
    BY <1>2 DEF Done, WriteBatch
  <2> QED  BY <1>1, <2>1, <2>2, <2>3 DEF GInv, Working
<1>3. ASSUME WriterStep PROVE GInv'
  BY <1>1, <1>3, WriterStepG
<1>4. CASE UNCHANGED <<db, writer>>
  <2>1. UNCHANGED <<db, wpc, updates, todo, snap, pending, cur, batch>>
    BY <1>4 DEF writer
  <2>2. View' = View /\ Done' = Done /\ (KeyInHand => KeyInHand')
    BY <2>1 DEF View, Done, KeyInHand
  <2> QED  BY <1>1, <2>1, <2>2 DEF GInv, Working
<1>5. ASSUME NEW r \in Readers, ReaderStep(r) PROVE UNCHANGED <<db, writer>>
  BY <1>5 DEF ReaderStep, VisitForward, VisitBackward, FinishLookup, ReadReturn
<1>6. ASSUME Crash PROVE GInv'
  BY <1>1, <1>6, ReturnedG DEF Crash
<1> QED
  BY <1>2, <1>3, <1>4, <1>5, <1>6 DEF Next, vars, GetSubRoot, Lookup

THEOREM WriterInvariant == Spec => []GInv
<1> QED  BY InitG, StepG, PTL DEF Spec

\* No step changes a chunk that is no longer its key's latest, and of the latest
\* one no step changes the range or takes an index away: WriteBatch rewrites it
\* under the same key, and only ever with indices appended.
THEOREM SealedStay == Spec => SealedImmutable
<1> DEFINE Stay == \A k \in Keys : \A c \in ChunksOf(db, k) :
       /\ c \in ChunksOf(db', k)
       /\ IF IsLatest(db, k, c)
          THEN /\ Chunk(db', k, c).range = Chunk(db, k, c).range
               /\ SubSeq(Chunk(db', k, c).rel, 1, Len(Chunk(db, k, c).rel))
                    = Chunk(db, k, c).rel
          ELSE Chunk(db', k, c) = Chunk(db, k, c)
<1>1. GInv /\ [Next]_vars => [Stay]_vars
  <2> SUFFICES ASSUME GInv, Next PROVE Stay
    BY DEF vars
  <2>1. db' = db \/ db' = View
    BY DEF Next, WriteBatch, WriterStep, WriterProgress, SkipKey, RejectKey, LoadKey,
           AppendInChunk, CrossBoundary, FlushKey, Commit, StorageError, WriteReturn,
           GetSubRoot, Lookup, ReaderStep, VisitForward, VisitBackward, FinishLookup,
           ReadReturn, Crash, View
  <2>2. \A k \in Keys : Kept(db, db, k) /\ Kept(db, View, k)
    BY KeptSame DEF GInv, CInv, TInv, WriterTypes
  <2> QED  BY <2>1, <2>2 DEF Kept, Extends
<1> HIDE DEF Stay
<1>2. Spec => [][Stay]_vars
  BY <1>1, WriterInvariant, PTL DEF Spec
<1> QED  BY <1>2 DEF Stay, SealedImmutable

-----------------------------------------------------------------------------
(* Where a Lookup goes.                                                      *)

\* Position a is at the least, or the greatest, of the chunks S of key k.
AtLeast(s, k, S, a) ==
  IF S = {} THEN a = Invalid
  ELSE /\ a \in PrefixKeys(s, k) /\ a # Invalid
       /\ ChunkAt(a) \in S /\ \A c \in S : ChunkAt(a) <= c

AtGreatest(s, k, S, a) ==
  IF S = {} THEN a = Invalid
  ELSE /\ a \in PrefixKeys(s, k) /\ a # Invalid
       /\ ChunkAt(a) \in S /\ \A c \in S : c <= ChunkAt(a)

LEMMA PrefixKeyFacts ==
  ASSUME NEW s, StateOK(s), NEW k \in Keys
  PROVE  /\ \A a \in PrefixKeys(s, k) :
              /\ a \in DOMAIN s /\ a \in PKey /\ a # Invalid /\ a[1] = k
              /\ ChunkAt(a) \in ChunksOf(s, k) /\ a = DBKey(k, ChunkAt(a))
         /\ \A c \in ChunksOf(s, k) :
              /\ c \in Index /\ c \in Nat
              /\ DBKey(k, c) \in PrefixKeys(s, k) /\ ChunkAt(DBKey(k, c)) = c
<1>1. ASSUME NEW a \in PrefixKeys(s, k)
      PROVE  /\ a \in DOMAIN s /\ a \in PKey /\ a # Invalid /\ a[1] = k
             /\ ChunkAt(a) \in ChunksOf(s, k) /\ a = DBKey(k, ChunkAt(a))
  BY StateFacts, ChunkKey DEF PrefixKeys
<1>2. ASSUME NEW c \in ChunksOf(s, k)
      PROVE  /\ c \in Index /\ c \in Nat
             /\ DBKey(k, c) \in PrefixKeys(s, k) /\ ChunkAt(DBKey(k, c)) = c
  BY DBKeyFacts, IndexIsNat DEF PrefixKeys, ChunksOf
<1> QED  BY <1>1, <1>2

\* The physically first key of a set of chunks is the least chunk, or for the
\* inverted engine the greatest; the physically last one is the opposite.
LEMMA FirstIs ==
  ASSUME NEW s, StateOK(s), NEW k \in Keys, NEW S \in SUBSET ChunksOf(s, k),
         NEW a, a = Invalid => S = {},
         a # Invalid => /\ a \in PrefixKeys(s, k) /\ ChunkAt(a) \in S
                        /\ \A c \in S : a = DBKey(k, c) \/ Below(a, DBKey(k, c))
  PROVE  IF Engine = Inverted THEN AtGreatest(s, k, S, a) ELSE AtLeast(s, k, S, a)
<1>1. CASE a = Invalid
  BY <1>1 DEF AtLeast, AtGreatest
<1>2. CASE a # Invalid
  <2>1. a = DBKey(k, ChunkAt(a)) /\ ChunkAt(a) \in Index /\ ChunkAt(a) \in Nat
    BY <1>2, PrefixKeyFacts
  <2>2. ASSUME NEW c \in S
        PROVE  IF Engine = Inverted THEN c <= ChunkAt(a) ELSE ChunkAt(a) <= c
    <3>1. c \in Index /\ c \in Nat
      BY PrefixKeyFacts
    <3>2. a = DBKey(k, c) \/ Below(DBKey(k, ChunkAt(a)), DBKey(k, c))
      BY <1>2, <2>1
    <3>3. CASE a = DBKey(k, c)
      BY <3>1, <3>3, DBKeyFacts
    <3>4. CASE Below(DBKey(k, ChunkAt(a)), DBKey(k, c))
      BY <2>1, <3>1, <3>4, SuffixOrder
    <3> QED  BY <3>2, <3>3, <3>4
  <2> QED  BY <1>2, <2>2 DEF AtLeast, AtGreatest
<1> QED  BY <1>1, <1>2

LEMMA LastIs ==
  ASSUME NEW s, StateOK(s), NEW k \in Keys, NEW S \in SUBSET ChunksOf(s, k),
         NEW a, a = Invalid => S = {},
         a # Invalid => /\ a \in PrefixKeys(s, k) /\ ChunkAt(a) \in S
                        /\ \A c \in S : a = DBKey(k, c) \/ Below(DBKey(k, c), a)
  PROVE  IF Engine = Inverted THEN AtLeast(s, k, S, a) ELSE AtGreatest(s, k, S, a)
<1>1. CASE a = Invalid
  BY <1>1 DEF AtLeast, AtGreatest
<1>2. CASE a # Invalid
  <2>1. a = DBKey(k, ChunkAt(a)) /\ ChunkAt(a) \in Index /\ ChunkAt(a) \in Nat
    BY <1>2, PrefixKeyFacts
  <2>2. ASSUME NEW c \in S
        PROVE  IF Engine = Inverted THEN ChunkAt(a) <= c ELSE c <= ChunkAt(a)
    <3>1. c \in Index /\ c \in Nat
      BY PrefixKeyFacts
    <3>2. a = DBKey(k, c) \/ Below(DBKey(k, c), DBKey(k, ChunkAt(a)))
      BY <1>2, <2>1
    <3>3. CASE a = DBKey(k, c)
      BY <3>1, <3>3, DBKeyFacts
    <3>4. CASE Below(DBKey(k, c), DBKey(k, ChunkAt(a)))
      BY <2>1, <3>1, <3>4, SuffixOrder
    <3> QED  BY <3>2, <3>3, <3>4
  <2> QED  BY <1>2, <2>2 DEF AtLeast, AtGreatest
<1> QED  BY <1>1, <1>2

\* The key before b, if it has the prefix.
LEMMA PrevWithin ==
  ASSUME NEW s, StateOK(s), NEW k \in Keys, NEW b \in PKey, b[1] = k
  PROVE  LET a == Within(SeekLT(s, b), k)
         IN  /\ a = Invalid => \A x \in PrefixKeys(s, k) : ~Below(x, b)
             /\ a # Invalid => /\ a \in PrefixKeys(s, k) /\ Below(a, b)
                               /\ \A x \in PrefixKeys(s, k) :
                                    Below(x, b) => a = x \/ Below(x, a)
<1> DEFINE L == {x \in DOMAIN s : Below(x, b)}
           m == SeekLT(s, b)
<1>1. DOMAIN s \in SUBSET PKey /\ Extremal(DOMAIN s) /\ k \in Nat
  BY KeysAreKeys, KeysAssumption DEF StateOK, Snapshot
<1>2. \/ L = {} /\ m = Invalid
      \/ m \in L /\ \A x \in L : m = x \/ Below(x, m)
  BY <1>1, LargestFound DEF SeekLT
<1>3. \A x \in PKey : x[1] \in Nat /\ x[2] \in Nat /\ x # Invalid
  BY InvalidIsNoKey DEF PKey
<1>4. \A x \in PrefixKeys(s, k) : x \in PKey /\ x[1] = k /\ (Below(x, b) => x \in L)
  BY <1>1 DEF PrefixKeys
<1>5. CASE L = {} /\ m = Invalid
  BY <1>4, <1>5 DEF Within
<1>6. CASE m \in L /\ \A x \in L : m = x \/ Below(x, m)
  <2>1. m \in DOMAIN s /\ m \in PKey /\ m # Invalid /\ Below(m, b) /\ m[1] <= k
    BY <1>1, <1>3, <1>6 DEF Below
  <2>2. CASE m[1] = k
    BY <1>4, <1>6, <2>1, <2>2 DEF Within, HasPrefix, PrefixKeys
  <2>3. CASE m[1] # k
    <3>1. \A x \in PrefixKeys(s, k) : ~Below(x, b)
      BY <1>1, <1>3, <1>4, <1>6, <2>1, <2>3 DEF Below
    <3> QED  BY <2>3, <3>1 DEF Within, HasPrefix
  <2> QED  BY <2>2, <2>3
<1> HIDE DEF L, m
<1> QED  BY <1>2, <1>5, <1>6

\* The first of a set T of keys from k's prefix on, if it is bounded by the prefix.
LEMMA FirstBounded ==
  ASSUME NEW s, StateOK(s), NEW k \in Keys, NEW T \in SUBSET (DOMAIN s),
         \A x \in T : k <= x[1]
  PROVE  LET a == Bounded(Smallest(T), k)
         IN  /\ a = Invalid => \A x \in PrefixKeys(s, k) : x \notin T
             /\ a # Invalid => /\ a \in PrefixKeys(s, k) /\ a \in T
                               /\ \A x \in PrefixKeys(s, k) : x \in T => a = x \/ Below(a, x)
<1> DEFINE m == Smallest(T)
<1>1. DOMAIN s \in SUBSET PKey /\ Extremal(DOMAIN s) /\ k \in Nat
  BY KeysAreKeys, KeysAssumption DEF StateOK, Snapshot
<1>2. (T = {} /\ m = Invalid) \/ (m \in T /\ \A x \in T : m = x \/ Below(m, x))
  BY <1>1, SmallestFound
<1>3. \A x \in PKey : x[1] \in Nat /\ x[2] \in Nat /\ x # Invalid
  BY InvalidIsNoKey DEF PKey
<1>4. CASE T = {} /\ m = Invalid
  BY <1>4 DEF Bounded
<1>5. CASE m \in T /\ \A x \in T : m = x \/ Below(m, x)
  <2>1. m \in DOMAIN s /\ m \in PKey /\ m # Invalid /\ k <= m[1]
    BY <1>1, <1>3, <1>5
  <2>2. Below(m, prefixUpperBound(k)) <=> m[1] = k
    BY <1>1, <1>3, <2>1 DEF Below, prefixUpperBound
  <2>3. CASE m[1] = k
    BY <1>5, <2>1, <2>2, <2>3 DEF Bounded, PrefixKeys
  <2>4. CASE m[1] # k
    <3>1. \A x \in PrefixKeys(s, k) : x \notin T
      BY <1>1, <1>3, <1>5, <2>1, <2>4 DEF Below, PrefixKeys
    <3> QED  BY <2>2, <2>4, <3>1 DEF Bounded
  <2> QED  BY <2>3, <2>4
<1> HIDE DEF m
<1> QED  BY <1>2, <1>4, <1>5

\* SeekPrefixGE and NextInPrefix look at the keys of the prefix alone.
LEMMA SmallestInPrefix ==
  ASSUME NEW s, StateOK(s), NEW k \in Keys, NEW T \in SUBSET PrefixKeys(s, k)
  PROVE  LET a == Smallest(T)
         IN  /\ a = Invalid => T = {}
             /\ a # Invalid => /\ a \in T
                               /\ \A x \in T : a = x \/ Below(a, x)
<1>1. DOMAIN s \in SUBSET PKey /\ Extremal(DOMAIN s) /\ T \in SUBSET (DOMAIN s)
  BY KeysAreKeys DEF StateOK, Snapshot, PrefixKeys
<1>2. \A x \in T : x # Invalid
  BY <1>1, InvalidIsNoKey
<1> QED  BY <1>1, <1>2, SmallestFound

\* The seek of the inverted engine: the start key itself, or the key before it.
LEMMA InvertedStart ==
  ASSUME NEW s, StateOK(s), NEW k \in Keys, NEW n \in Index
  PROVE  InvertedSeekStart(s, k, n) =
           IF DBKey(k, n) \in DOMAIN s THEN DBKey(k, n) ELSE Within(SeekLT(s, DBKey(k, n)), k)
<1> DEFINE key == DBKey(k, n)
           T   == {b \in DOMAIN s : ~Below(b, key)}
           a   == SeekGE(s, key)
           back == IF a = Invalid THEN LastKey(s) ELSE PrevKey(s, a)
           L   == {b \in DOMAIN s : Below(b, key)}
<1>1. DOMAIN s \in SUBSET PKey /\ Extremal(DOMAIN s) /\ key \in PKey /\ key[1] = k
  BY KeysAreKeys, DBKeyFacts DEF StateOK, Snapshot
<1>2. \/ T = {} /\ a = Invalid
      \/ a \in T /\ a # Invalid /\ \A x \in T : a = x \/ Below(a, x)
  <2>1. T \in SUBSET (DOMAIN s) /\ \A x \in T : x # Invalid
    BY <1>1, InvalidIsNoKey
  <2> QED  BY <1>1, <2>1, SmallestFound DEF SeekGE
<1>3. InvertedSeekStart(s, k, n) =
        IF HasPrefix(a, k) /\ ~Below(key, a) THEN a
        ELSE IF HasPrefix(a, k) THEN Within(back, k)
        ELSE IF back # Invalid /\ ~Below(key, back) THEN Within(back, k)
        ELSE Invalid
  BY DEF InvertedSeekStart
<1> HIDE DEF key
<1>4. CASE key \in DOMAIN s
  <2>1. key \in T
    BY <1>1, <1>4, BelowIsTotalOrder
  <2>2. a \in T /\ a = key /\ a # Invalid
    <3>1. a \in T /\ (a = key \/ Below(a, key)) /\ a # Invalid
      BY <1>2, <2>1
    <3> QED  BY <3>1
  <2>3. HasPrefix(a, k) /\ ~Below(key, a)
    BY <1>1, <2>2, BelowIsTotalOrder DEF HasPrefix
  <2> HIDE DEF a, back, T
  <2> QED  BY <1>3, <1>4, <2>2, <2>3 DEF key
<1>5. CASE key \notin DOMAIN s
  <2>1. back = Largest(L)
    <3>1. CASE T = {} /\ a = Invalid
      <4>1. L = DOMAIN s
        BY <3>1
      <4> QED  BY <3>1, <4>1 DEF LastKey
    <3>2. CASE a \in T /\ a # Invalid /\ \A x \in T : a = x \/ Below(a, x)
      <4>1. a \in PKey /\ Below(key, a)
        BY <1>1, <1>5, <3>2, BelowIsTotalOrder
      <4>2. ASSUME NEW b \in DOMAIN s PROVE Below(b, key) <=> Below(b, a)
        <5>1. b \in PKey
          BY <1>1
        <5>2. Below(b, key) => Below(b, a)
          BY <1>1, <4>1, <5>1, BelowIsTotalOrder
        <5>3. ~Below(b, key) => a = b \/ Below(a, b)
          BY <3>2
        <5> HIDE DEF a
        <5> QED  BY <1>1, <4>1, <5>1, <5>2, <5>3, BelowIsTotalOrder
      <4>3. L = {b \in DOMAIN s : Below(b, a)}
        BY <4>2
      <4> QED  BY <3>2, <4>3 DEF PrevKey, SeekLT
    <3> QED  BY <1>2, <3>1, <3>2
  <2>2. Largest(L) = SeekLT(s, key)
    BY DEF SeekLT
  <2>3. ~(HasPrefix(a, k) /\ ~Below(key, a))
    <3>1. CASE a = Invalid
      BY <3>1 DEF HasPrefix
    <3>2. CASE a \in T /\ a # Invalid
      BY <1>1, <1>5, <3>2, BelowIsTotalOrder
    <3> QED  BY <1>2, <3>1, <3>2
  <2>4. back = Invalid \/ (back \in PKey /\ Below(back, key))
    <3>1. L \in SUBSET (DOMAIN s)
      OBVIOUS
    <3>2. (L = {} /\ Largest(L) = Invalid) \/ Largest(L) \in L
      BY <1>1, <3>1, LargestFound
    <3> QED  BY <1>1, <2>1, <3>2
  <2>5. ~(back # Invalid /\ Below(key, back))
    <3> HIDE DEF back
    <3> QED  BY <1>1, <2>4, BelowIsTotalOrder
  <2>6. back = Invalid => Within(back, k) = Invalid
    BY DEF Within
  <2> HIDE DEF a, back, T, L
  <2>7. InvertedSeekStart(s, k, n) = Within(back, k)
    BY <1>3, <2>3, <2>5, <2>6
  <2> QED  BY <1>5, <2>1, <2>2, <2>7 DEF key
<1> QED  BY <1>4, <1>5

\* A forward Lookup begins at the first chunk from the one that start belongs to.
LEMMA StartFinds ==
  ASSUME NEW s, StateOK(s), NEW k \in Keys, NEW n \in Index, Engine # "chunk"
  PROVE  AtLeast(s, k, {c \in ChunksOf(s, k) : n <= c}, SeekStart(s, k, n))
<1> DEFINE S == {c \in ChunksOf(s, k) : n <= c}
           key == DBKey(k, n)
           a == SeekStart(s, k, n)
<1>1. key \in PKey /\ key[1] = k /\ n \in Nat
  BY DBKeyFacts, IndexIsNat
<1>2. ASSUME NEW c \in ChunksOf(s, k)
      PROVE  /\ IF Engine = Inverted THEN Below(DBKey(k, c), key) <=> n < c
                ELSE Below(DBKey(k, c), key) <=> c < n
             /\ DBKey(k, c) = key <=> c = n
             /\ c \in Nat
  BY PrefixKeyFacts, SuffixOrder, DBKeyFacts
<1>3. CASE Engine = Inverted
  <2>1. a = IF key \in DOMAIN s THEN key ELSE Within(SeekLT(s, key), k)
    <3>1. a = InvertedSeekStart(s, k, n)
      BY <1>3 DEF SeekStart, Inverted
    <3> HIDE DEF a, key
    <3>2. InvertedSeekStart(s, k, n) = IF key \in DOMAIN s THEN key ELSE Within(SeekLT(s, key), k)
      BY InvertedStart DEF key
    <3> QED  BY <3>1, <3>2
  <2>2. CASE key \in DOMAIN s
    <3>1. n \in S /\ ChunkAt(key) = n /\ key \in PrefixKeys(s, k) /\ key # Invalid
      BY <1>1, <2>2, DBKeyFacts, InvalidIsNoKey DEF ChunksOf, PrefixKeys
    <3> QED  BY <2>1, <2>2, <3>1 DEF AtLeast
  <2>3. CASE key \notin DOMAIN s
    <3> HIDE DEF key
    <3>1. a = Within(SeekLT(s, key), k)
      BY <2>1, <2>3
    <3>2. /\ a = Invalid => \A x \in PrefixKeys(s, k) : ~Below(x, key)
          /\ a # Invalid => /\ a \in PrefixKeys(s, k) /\ Below(a, key)
                            /\ \A x \in PrefixKeys(s, k) :
                                 Below(x, key) => a = x \/ Below(x, a)
      BY <1>1, <3>1, PrevWithin
    <3>3. \A c \in S : DBKey(k, c) \in PrefixKeys(s, k) /\ Below(DBKey(k, c), key)
      BY <1>1, <1>2, <1>3, <2>3, PrefixKeyFacts DEF key, ChunksOf
    <3>4. a = Invalid => S = {}
      BY <3>2, <3>3
    <3>5. a # Invalid => /\ a \in PrefixKeys(s, k) /\ ChunkAt(a) \in S
                         /\ \A c \in S : a = DBKey(k, c) \/ Below(DBKey(k, c), a)
      <4> SUFFICES ASSUME a # Invalid
                   PROVE  /\ a \in PrefixKeys(s, k) /\ ChunkAt(a) \in S
                          /\ \A c \in S : a = DBKey(k, c) \/ Below(DBKey(k, c), a)
        OBVIOUS
      <4>1. ChunkAt(a) \in ChunksOf(s, k) /\ a = DBKey(k, ChunkAt(a))
        BY <3>2, PrefixKeyFacts
      <4>2. n < ChunkAt(a)
        BY <1>2, <1>3, <3>2, <4>1
      <4>3. n <= ChunkAt(a)
        BY <1>1, <1>2, <4>1, <4>2
      <4> HIDE DEF a
      <4> QED  BY <3>2, <3>3, <4>1, <4>3
    <3> HIDE DEF a, S
    <3>6. S \in SUBSET ChunksOf(s, k)
      BY DEF S
    <3>7. AtLeast(s, k, S, a)
      BY <1>3, <3>4, <3>5, <3>6, LastIs
    <3> QED  BY <3>7 DEF a, S
  <2> QED  BY <2>2, <2>3
<1>4. CASE Engine # Inverted
  <2>1. ASSUME NEW x \in PrefixKeys(s, k)
        PROVE  /\ ChunkAt(x) \in ChunksOf(s, k) /\ x = DBKey(k, ChunkAt(x))
               /\ ~Below(x, key) <=> ChunkAt(x) \in S
    <3>1. ChunkAt(x) \in ChunksOf(s, k) /\ x = DBKey(k, ChunkAt(x))
      BY PrefixKeyFacts
    <3>2. Below(x, key) <=> ChunkAt(x) < n
      BY <1>2, <1>4, <3>1
    <3> QED  BY <1>1, <1>2, <3>1, <3>2
  <2>2. /\ a = Invalid => \A x \in PrefixKeys(s, k) : Below(x, key)
        /\ a # Invalid => /\ a \in PrefixKeys(s, k) /\ ~Below(a, key)
                          /\ \A x \in PrefixKeys(s, k) :
                               ~Below(x, key) => a = x \/ Below(a, x)
    <3>1. CASE Engine = "prefix_chunk_scan"
      <4> DEFINE T == {b \in PrefixKeys(s, k) : ~Below(b, key)}
      <4>1. a = Smallest(T)
        <5>1. a = SeekPrefixGE(s, key)
          BY <3>1, <1>4 DEF SeekStart
        <5>2. T = {b \in DOMAIN s : b[1] = key[1] /\ ~Below(b, key)}
          BY <1>1 DEF PrefixKeys
        <5> QED  BY <5>1, <5>2 DEF SeekPrefixGE
      <4>2. T \in SUBSET PrefixKeys(s, k)
        OBVIOUS
      <4>3. /\ a = Invalid => T = {}
            /\ a # Invalid => a \in T /\ \A x \in T : a = x \/ Below(a, x)
        BY <4>1, <4>2, SmallestInPrefix
      <4> HIDE DEF a
      <4> QED  BY <4>3
    <3>2. CASE Engine = "chunk_scan"
      <4> DEFINE T == {b \in DOMAIN s : ~Below(b, key)}
      <4>1. a = Bounded(Smallest(T), k)
        BY <1>4, <3>2 DEF SeekStart, SeekGE
      <4>2. T \in SUBSET (DOMAIN s) /\ \A x \in T : k <= x[1]
        BY <1>1, KeysAreKeys, KeysAssumption DEF StateOK, Snapshot, PKey, Below
      <4>3. /\ a = Invalid => \A x \in PrefixKeys(s, k) : x \notin T
            /\ a # Invalid => /\ a \in PrefixKeys(s, k) /\ a \in T
                              /\ \A x \in PrefixKeys(s, k) : x \in T => a = x \/ Below(a, x)
        <5> HIDE DEF a, T
        <5> QED  BY <4>1, <4>2, FirstBounded
      <4> HIDE DEF a
      <4> QED  BY <4>3 DEF PrefixKeys
    <3> QED  BY <1>4, <3>1, <3>2, EngineAssumption DEF Engines, Inverted
  <2>3. a = Invalid => S = {}
    <3> HIDE DEF a, key
    <3> QED  BY <2>1, <2>2, PrefixKeyFacts DEF S
  <2>4. a # Invalid => /\ a \in PrefixKeys(s, k) /\ ChunkAt(a) \in S
                       /\ \A c \in S : a = DBKey(k, c) \/ Below(a, DBKey(k, c))
    <3> HIDE DEF a, key
    <3>1. \A c \in S : DBKey(k, c) \in PrefixKeys(s, k) /\ ChunkAt(DBKey(k, c)) = c
      BY PrefixKeyFacts DEF S
    <3> HIDE DEF S
    <3> QED  BY <2>1, <2>2, <3>1
  <2>5. S \in SUBSET ChunksOf(s, k)
    OBVIOUS
  <2> HIDE DEF a, S
  <2>6. AtLeast(s, k, S, a)
    BY <1>4, <2>3, <2>4, <2>5, FirstIs
  <2> QED  BY <2>6 DEF a, S
<1> QED  BY <1>3, <1>4

\* A forward Lookup goes on to the next newer chunk.
LEMMA NextFinds ==
  ASSUME NEW s, StateOK(s), NEW k \in Keys, NEW p \in PrefixKeys(s, k), Engine # "chunk"
  PROVE  AtLeast(s, k, {c \in ChunksOf(s, k) : ChunkAt(p) < c}, Advance(s, k, p))
<1> DEFINE S == {c \in ChunksOf(s, k) : ChunkAt(p) < c}
           a == Advance(s, k, p)
<1>1. /\ p \in PKey /\ p[1] = k /\ p # Invalid
      /\ ChunkAt(p) \in ChunksOf(s, k) /\ p = DBKey(k, ChunkAt(p))
  BY PrefixKeyFacts
<1>2. ASSUME NEW x \in PrefixKeys(s, k)
      PROVE  /\ ChunkAt(x) \in ChunksOf(s, k) /\ x = DBKey(k, ChunkAt(x))
             /\ IF Engine = Inverted THEN Below(x, p) <=> ChunkAt(x) \in S
                ELSE Below(p, x) <=> ChunkAt(x) \in S
  <2>1. ChunkAt(x) \in ChunksOf(s, k) /\ x = DBKey(k, ChunkAt(x))
    BY PrefixKeyFacts
  <2>2. ChunkAt(x) \in Index /\ ChunkAt(p) \in Index
    BY <1>1, <2>1 DEF ChunksOf
  <2>3. IF Engine = Inverted THEN Below(x, p) <=> ChunkAt(p) < ChunkAt(x)
        ELSE Below(p, x) <=> ChunkAt(p) < ChunkAt(x)
    BY <1>1, <2>1, <2>2, SuffixOrder
  <2> QED  BY <2>1, <2>3
<1>3. \A c \in S : DBKey(k, c) \in PrefixKeys(s, k) /\ ChunkAt(DBKey(k, c)) = c
  BY PrefixKeyFacts
<1>4. S \in SUBSET ChunksOf(s, k)
  OBVIOUS
<1>5. CASE Engine = Inverted
  <2>1. a = Within(SeekLT(s, p), k)
    BY <1>5 DEF Advance, PrevKey, Inverted
  <2>2. /\ a = Invalid => \A x \in PrefixKeys(s, k) : ~Below(x, p)
        /\ a # Invalid => /\ a \in PrefixKeys(s, k) /\ Below(a, p)
                          /\ \A x \in PrefixKeys(s, k) : Below(x, p) => a = x \/ Below(x, a)
    BY <1>1, <2>1, PrevWithin
  <2> HIDE DEF a, S
  <2>3. a = Invalid => S = {}
    BY <1>2, <1>3, <1>5, <2>2
  <2>4. a # Invalid => /\ a \in PrefixKeys(s, k) /\ ChunkAt(a) \in S
                       /\ \A c \in S : a = DBKey(k, c) \/ Below(DBKey(k, c), a)
    BY <1>2, <1>3, <1>5, <2>2
  <2>5. AtLeast(s, k, S, a)
    BY <1>4, <1>5, <2>3, <2>4, LastIs
  <2> QED  BY <2>5 DEF a, S
<1>6. CASE Engine # Inverted
  <2>1. /\ a = Invalid => \A x \in PrefixKeys(s, k) : ~Below(p, x)
        /\ a # Invalid => /\ a \in PrefixKeys(s, k) /\ Below(p, a)
                          /\ \A x \in PrefixKeys(s, k) : Below(p, x) => a = x \/ Below(a, x)
    <3>1. CASE Engine = "prefix_chunk_scan"
      <4> DEFINE T == {b \in PrefixKeys(s, k) : Below(p, b)}
      <4>1. a = Smallest(T)
        <5>1. a = NextInPrefix(s, p)
          BY <3>1 DEF Advance
        <5>2. T = {b \in DOMAIN s : b[1] = p[1] /\ Below(p, b)}
          BY <1>1 DEF PrefixKeys
        <5> QED  BY <5>1, <5>2 DEF NextInPrefix
      <4>2. T \in SUBSET PrefixKeys(s, k)
        OBVIOUS
      <4>3. /\ a = Invalid => T = {}
            /\ a # Invalid => a \in T /\ \A x \in T : a = x \/ Below(a, x)
        BY <4>1, <4>2, SmallestInPrefix
      <4> HIDE DEF a
      <4> QED  BY <4>3
    <3>2. CASE Engine = "chunk_scan"
      <4> DEFINE T == {b \in DOMAIN s : Below(p, b)}
      <4>1. a = Bounded(Smallest(T), k)
        BY <3>2 DEF Advance, NextKey
      <4>2. T \in SUBSET (DOMAIN s) /\ \A x \in T : k <= x[1]
        BY <1>1, KeysAreKeys, KeysAssumption DEF StateOK, Snapshot, PKey, Below
      <4>3. /\ a = Invalid => \A x \in PrefixKeys(s, k) : x \notin T
            /\ a # Invalid => /\ a \in PrefixKeys(s, k) /\ a \in T
                              /\ \A x \in PrefixKeys(s, k) : x \in T => a = x \/ Below(a, x)
        <5> HIDE DEF a, T
        <5> QED  BY <4>1, <4>2, FirstBounded
      <4> HIDE DEF a
      <4> QED  BY <4>3 DEF PrefixKeys
    <3> QED  BY <1>6, <3>1, <3>2, EngineAssumption DEF Engines, Inverted
  <2> HIDE DEF a, S
  <2>3. a = Invalid => S = {}
    BY <1>2, <1>3, <1>6, <2>1
  <2>4. a # Invalid => /\ a \in PrefixKeys(s, k) /\ ChunkAt(a) \in S
                       /\ \A c \in S : a = DBKey(k, c) \/ Below(a, DBKey(k, c))
    BY <1>2, <1>3, <1>6, <2>1
  <2>5. AtLeast(s, k, S, a)
    BY <1>4, <1>6, <2>3, <2>4, FirstIs
  <2> QED  BY <2>5 DEF a, S
<1> QED  BY <1>5, <1>6

\* ChunkStore goes back to the next older chunk.
LEMMA PrevFinds ==
  ASSUME NEW s, StateOK(s), NEW k \in Keys, NEW p \in PrefixKeys(s, k), Engine = "chunk"
  PROVE  AtGreatest(s, k, {c \in ChunksOf(s, k) : c < ChunkAt(p)}, Advance(s, k, p))
<1> DEFINE S == {c \in ChunksOf(s, k) : c < ChunkAt(p)}
           a == Advance(s, k, p)
<1>1. /\ p \in PKey /\ p[1] = k /\ Engine # Inverted
      /\ ChunkAt(p) \in ChunksOf(s, k) /\ p = DBKey(k, ChunkAt(p))
  BY PrefixKeyFacts DEF Inverted
<1>2. ASSUME NEW x \in PrefixKeys(s, k)
      PROVE  Below(x, p) <=> ChunkAt(x) \in S
  <2>1. ChunkAt(x) \in ChunksOf(s, k) /\ x = DBKey(k, ChunkAt(x))
    BY PrefixKeyFacts
  <2>2. ChunkAt(x) \in Index /\ ChunkAt(p) \in Index
    BY <1>1, <2>1 DEF ChunksOf
  <2>3. Below(x, p) <=> ChunkAt(x) < ChunkAt(p)
    BY <1>1, <2>1, <2>2, SuffixOrder
  <2> QED  BY <2>1, <2>3
<1>3. \A c \in S : DBKey(k, c) \in PrefixKeys(s, k) /\ ChunkAt(DBKey(k, c)) = c
  BY PrefixKeyFacts
<1>4. S \in SUBSET ChunksOf(s, k)
  OBVIOUS
<1>5. a = Within(SeekLT(s, p), k)
  BY <1>1 DEF Advance, PrevKey
<1>6. /\ a = Invalid => \A x \in PrefixKeys(s, k) : ~Below(x, p)
      /\ a # Invalid => /\ a \in PrefixKeys(s, k) /\ Below(a, p)
                        /\ \A x \in PrefixKeys(s, k) : Below(x, p) => a = x \/ Below(x, a)
  BY <1>1, <1>5, PrevWithin
<1> HIDE DEF a, S
<1>7. a = Invalid => S = {}
  BY <1>2, <1>3, <1>6
<1>8. a # Invalid => /\ a \in PrefixKeys(s, k) /\ ChunkAt(a) \in S
                     /\ \A c \in S : a = DBKey(k, c) \/ Below(DBKey(k, c), a)
  BY <1>2, <1>3, <1>6
<1>9. AtGreatest(s, k, S, a)
  BY <1>1, <1>4, <1>7, <1>8, LastIs
<1> QED  BY <1>9 DEF a, S

-----------------------------------------------------------------------------
(* What is left of a log from an index on.                                   *)

LEMMA FromFacts ==
  ASSUME NEW list \in Seq(Index), NEW n \in Nat
  PROVE  /\ From(list, n) \in Seq(Index)
         /\ n <= Len(list) => Len(From(list, n)) = Len(list) - n
         /\ \A i \in 1 .. Len(list) - n : From(list, n)[i] = list[n + i]
         /\ Len(list) <= n => From(list, n) = <<>>
<1>1. Len(list) \in Nat /\ \A i \in 1 .. Len(list) : list[i] \in Index
  BY LenProperties, ElementOfSeq
<1>2. \A i \in n + 1 .. Len(list) : list[i] \in Index
  BY <1>1
<1>3. n + 1 \in Int /\ Len(list) \in Int
  BY <1>1
<1>4. /\ From(list, n) \in Seq(Index)
      /\ Len(From(list, n)) = IF n + 1 <= Len(list) THEN Len(list) - (n + 1) + 1 ELSE 0
      /\ \A i \in 1 .. Len(list) - (n + 1) + 1 : From(list, n)[i] = list[(n + 1) + i - 1]
  BY <1>2, <1>3, SubSeqProperties DEF From
<1>5. n <= Len(list) => Len(From(list, n)) = Len(list) - n
  BY <1>1, <1>4
<1>6. ASSUME NEW i \in 1 .. Len(list) - n PROVE From(list, n)[i] = list[n + i]
  <2>1. i \in 1 .. Len(list) - (n + 1) + 1 /\ (n + 1) + i - 1 = n + i
    BY <1>1
  <2> QED  BY <1>4, <2>1
<1>7. Len(list) <= n => From(list, n) = <<>>
  BY <1>1, <1>3, SubSeqEmpty DEF From
<1> QED  BY <1>4, <1>5, <1>6, <1>7

LEMMA FromConcat ==
  ASSUME NEW a \in Seq(Index), NEW b \in Seq(Index), NEW n \in Nat, n <= Len(a)
  PROVE  From(a \o b, n) = From(a, n) \o b
<1> DEFINE ab == a \o b  l == From(ab, n)  f == From(a, n)  r == f \o b
<1>1. /\ ab \in Seq(Index) /\ Len(ab) = Len(a) + Len(b)
      /\ \A i \in 1 .. Len(a) + Len(b) : ab[i] = IF i <= Len(a) THEN a[i] ELSE b[i - Len(a)]
  BY ConcatProperties
<1>2. Len(a) \in Nat /\ Len(b) \in Nat
  BY LenProperties
<1> HIDE DEF ab
<1>3. /\ l \in Seq(Index) /\ Len(l) = Len(ab) - n
      /\ \A i \in 1 .. Len(ab) - n : l[i] = ab[n + i]
  <2>1. n <= Len(ab)
    BY <1>1, <1>2
  <2> QED  BY <1>1, <2>1, FromFacts
<1>4. /\ f \in Seq(Index) /\ Len(f) = Len(a) - n
      /\ \A i \in 1 .. Len(a) - n : f[i] = a[n + i]
  BY FromFacts
<1> HIDE DEF l, f
<1>5. /\ r \in Seq(Index) /\ Len(r) = Len(f) + Len(b)
      /\ \A i \in 1 .. Len(f) + Len(b) : r[i] = IF i <= Len(f) THEN f[i] ELSE b[i - Len(f)]
  BY <1>4, ConcatProperties
<1> HIDE DEF r
<1>6. Len(l) = Len(r)
  BY <1>1, <1>2, <1>3, <1>4, <1>5
<1>7. ASSUME NEW i \in 1 .. Len(l) PROVE l[i] = r[i]
  <2>1. i \in Nat /\ i \in 1 .. Len(ab) - n /\ n + i \in 1 .. Len(a) + Len(b)
    BY <1>1, <1>2, <1>3
  <2>2. l[i] = ab[n + i]
    BY <1>3, <2>1
  <2>3. CASE i <= Len(f)
    BY <1>1, <1>2, <1>4, <1>5, <1>6, <2>1, <2>2, <2>3
  <2>4. CASE ~(i <= Len(f))
    <3>1. ab[n + i] = b[(n + i) - Len(a)] /\ (n + i) - Len(a) = i - Len(f)
      BY <1>1, <1>2, <1>4, <2>1, <2>4
    <3>2. r[i] = b[i - Len(f)]
      BY <1>5, <1>6, <2>4
    <3> QED  BY <2>2, <3>1, <3>2
  <2> QED  BY <2>3, <2>4
<1>8. l = r
  BY <1>3, <1>5, <1>6, <1>7, SeqEqual
<1> QED  BY <1>8 DEF l, r, f, ab

LEMMA FromFrom ==
  ASSUME NEW list \in Seq(Index), NEW n \in Nat, NEW m \in Nat, n <= Len(list)
  PROVE  From(From(list, n), m) = From(list, n + m)
<1> DEFINE f == From(list, n)  l == From(f, m)  r == From(list, n + m)
<1>1. Len(list) \in Nat /\ n + m \in Nat
  BY LenProperties
<1>2. /\ f \in Seq(Index) /\ Len(f) = Len(list) - n
      /\ \A i \in 1 .. Len(list) - n : f[i] = list[n + i]
  BY FromFacts
<1> HIDE DEF f
<1>3. /\ l \in Seq(Index)
      /\ m <= Len(f) => Len(l) = Len(f) - m
      /\ \A i \in 1 .. Len(f) - m : l[i] = f[m + i]
      /\ Len(f) <= m => l = <<>>
  BY <1>2, FromFacts
<1>4. /\ r \in Seq(Index)
      /\ n + m <= Len(list) => Len(r) = Len(list) - (n + m)
      /\ \A i \in 1 .. Len(list) - (n + m) : r[i] = list[(n + m) + i]
      /\ Len(list) <= n + m => r = <<>>
  BY <1>1, FromFacts
<1> HIDE DEF l, r
<1>5. ASSUME Len(f) <= m PROVE l = r
  BY <1>1, <1>2, <1>3, <1>4, <1>5
<1>6. ASSUME ~(Len(f) <= m) PROVE l = r
  <2>1. Len(l) = Len(r) /\ Len(r) = Len(list) - (n + m)
    BY <1>1, <1>2, <1>3, <1>4, <1>6
  <2>2. ASSUME NEW i \in 1 .. Len(l) PROVE l[i] = r[i]
    <3>1. /\ i \in 1 .. Len(f) - m /\ m + i \in 1 .. Len(list) - n
          /\ i \in 1 .. Len(list) - (n + m) /\ n + (m + i) = (n + m) + i
      BY <1>1, <1>2, <1>3, <1>6, <2>1
    <3>2. l[i] = list[n + (m + i)]
      BY <1>2, <1>3, <3>1
    <3> QED  BY <1>4, <3>1, <3>2
  <2> QED  BY <1>3, <1>4, <2>1, <2>2, SeqEqual
<1>7. l = r
  BY <1>5, <1>6
<1> QED  BY <1>7 DEF l, r, f

-----------------------------------------------------------------------------
(* Logs without repetition.                                                  *)

LEMMA RisesConcat ==
  ASSUME NEW a \in Seq(Index), NEW b \in Seq(Index)
  PROVE  /\ Rises(a \o b) => Rises(a)
         /\ Rises(a) /\ Rises(b) /\ (\A i \in IndicesOf(b) : \A j \in IndicesOf(a) : j < i)
              => Rises(a \o b)
<1> DEFINE ab == a \o b
<1>1. /\ ab \in Seq(Index) /\ Len(ab) = Len(a) + Len(b)
      /\ \A i \in 1 .. Len(a) + Len(b) : ab[i] = IF i <= Len(a) THEN a[i] ELSE b[i - Len(a)]
  BY ConcatProperties
<1>2. Len(a) \in Nat /\ Len(b) \in Nat
  BY LenProperties
<1> HIDE DEF ab
<1>3. Rises(ab) => Rises(a)
  BY <1>1, <1>2 DEF Rises
<1>4. ASSUME Rises(a), Rises(b), \A i \in IndicesOf(b) : \A j \in IndicesOf(a) : j < i
      PROVE  Rises(ab)
  <2> SUFFICES ASSUME NEW i \in 1 .. Len(ab), NEW j \in 1 .. Len(ab), i < j
               PROVE  ab[i] < ab[j]
    BY DEF Rises
  <2>1. i \in Nat /\ j \in Nat
    BY <1>1, <1>2
  <2>2. CASE j <= Len(a)
    BY <1>1, <1>2, <1>4, <2>1, <2>2 DEF Rises
  <2>3. CASE ~(j <= Len(a)) /\ i <= Len(a)
    <3>1. ab[i] = a[i] /\ ab[j] = b[j - Len(a)] /\ i \in 1 .. Len(a) /\ j - Len(a) \in 1 .. Len(b)
      BY <1>1, <1>2, <2>1, <2>3
    <3>2. a[i] \in IndicesOf(a) /\ b[j - Len(a)] \in IndicesOf(b)
      BY <3>1 DEF IndicesOf
    <3> QED  BY <1>4, <3>1, <3>2
  <2>4. CASE ~(i <= Len(a))
    <3>1. /\ ab[i] = b[i - Len(a)] /\ ab[j] = b[j - Len(a)]
          /\ i - Len(a) \in 1 .. Len(b) /\ j - Len(a) \in 1 .. Len(b)
          /\ i - Len(a) < j - Len(a)
      BY <1>1, <1>2, <2>1, <2>4
    <3> QED  BY <1>4, <3>1 DEF Rises
  <2> QED  BY <2>2, <2>3, <2>4
<1> QED  BY <1>3, <1>4 DEF ab

\* A rising list of numbers below b has at most b of them.
LEMMA RisesShort ==
  ASSUME NEW list \in Seq(Nat), Rises(list), NEW b \in Nat,
         \A i \in 1 .. Len(list) : list[i] < b
  PROVE  Len(list) <= b
<1> DEFINE low == {i \in 1 .. Len(list) : list[i] < i - 1}
<1>1. Len(list) \in Nat /\ \A i \in 1 .. Len(list) : list[i] \in Nat
  BY LenProperties, ElementOfSeq
<1>2. low = {}
  <2> SUFFICES ASSUME low # {} PROVE FALSE
    OBVIOUS
  <2>1. low \in SUBSET Nat
    BY <1>1
  <2> HIDE DEF low
  <2>2. \E x \in low : \A y \in low : ~(<<y, x>> \in OpToRel(<, Nat))
    BY <2>1, NatLessThanWellFounded, WFMin
  <2>3. PICK x \in low : \A y \in low : ~(<<y, x>> \in OpToRel(<, Nat))
    BY <2>2
  <2>4. \A y \in Nat, z \in Nat : y < z => <<y, z>> \in OpToRel(<, Nat)
    BY Zenon DEF OpToRel
  <2>5. \A y \in low : ~(y < x)
    BY <2>1, <2>3, <2>4
  <2>6. x \in 1 .. Len(list) /\ list[x] < x - 1
    BY DEF low
  <2>7. x # 1
    BY <1>1, <2>6
  <2>8. x - 1 \in 1 .. Len(list) /\ x - 1 < x
    BY <1>1, <2>6, <2>7
  <2>9. list[x - 1] < list[x] /\ list[x - 1] \in Nat /\ list[x] \in Nat
    BY <1>1, <2>6, <2>8 DEF Rises
  <2>10. ~(list[x - 1] < (x - 1) - 1)
    BY <2>5, <2>8 DEF low
  <2> QED  BY <1>1, <2>6, <2>8, <2>9, <2>10
<1>3. CASE Len(list) = 0
  BY <1>3
<1>4. CASE Len(list) # 0
  <2>1. Len(list) \in 1 .. Len(list)
    BY <1>1, <1>4
  <2>2. ~(list[Len(list)] < Len(list) - 1) /\ list[Len(list)] < b /\ list[Len(list)] \in Nat
    BY <1>1, <1>2, <2>1
  <2> QED  BY <1>1, <2>2
<1> QED  BY <1>3, <1>4

LEMMA ChunkNumOf ==
  ASSUME NEW c \in Nat, NEW r \in Nat, r < ChunkSize
  PROVE  c * ChunkSize + r \in Nat /\ ChunkNum(c * ChunkSize + r) = c
BY SizeAssumption, Z3 DEF ChunkNum

LEMMA ChunkFacts ==
  ASSUME NEW s, StateOK(s), NEW k \in Keys, NEW c \in ChunksOf(s, k)
  PROVE  LET v == Chunk(s, k, c)
         IN  /\ v.range \in Seq(Index) /\ v.rel \in Seq(Rel)
             /\ AbsSeq(c, v.rel) \in Seq(Index) /\ Offsets(c, v.rel)
             /\ Folded(c, v) \in Seq(Index)
             /\ Folded(c, v) = v.range \o AbsSeq(c, v.rel)
<1>1. DBKey(k, c) \in DOMAIN s /\ c \in Nat /\ ChunkAt(DBKey(k, c)) = c
  BY DBKeyFacts, IndexIsNat DEF ChunksOf
<1> QED  BY <1>1, StateFacts, FoldedType DEF Chunk, Offsets, Folded

\* Up to the end of a chunk older than the one start belongs to, a key has no more
\* than start indices: why start \div ChunkSize is a safe chunk to begin with.
LEMMA ChunkShort ==
  ASSUME NEW s, StateOK(s), NEW k \in Keys, NEW c \in ChunksOf(s, k), Chain(s, k),
         Rises(Folded(c, Chunk(s, k, c))), NEW start \in Index, c < ChunkNum(start)
  PROVE  Len(Folded(c, Chunk(s, k, c))) <= start
<1> DEFINE v == Chunk(s, k, c)  A == AbsSeq(c, v.rel)  F == Folded(c, v)
           n == Len(v.rel)  m == Len(v.range)
<1>1. c \in Nat /\ start \in Nat /\ ChunkNum(start) \in Nat
  BY ChunkNumType, IndexIsNat DEF ChunksOf
<1>2. /\ v.range \in Seq(Index) /\ v.rel \in Seq(Rel) /\ Offsets(c, v.rel) /\ v.rel # <<>>
      /\ A \in Seq(Index) /\ F \in Seq(Index) /\ F = v.range \o A
  BY ChunkFacts DEF Chain
<1>3. n \in Nat /\ n > 0 /\ m \in Nat /\ Len(A) = n
  <2>1. Len(AbsSeq(c, v.rel)) = Len(v.rel)
    BY <1>1, <1>2, AbsSeqType
  <2> HIDE DEF v
  <2>2. Len(v.rel) \in Nat /\ Len(v.range) \in Nat
    BY <1>2, LenProperties
  <2>3. Len(v.rel) # 0
    BY <1>2, EmptySeq
  <2> QED  BY <2>1, <2>2, <2>3
<1>4. A[n] = c * ChunkSize + v.rel[n] /\ v.rel[n] \in Nat /\ v.rel[n] < ChunkSize
  <2>1. n \in 1 .. n
    BY <1>3
  <2>2. v.rel[n] \in Rel /\ v.rel[n] < ChunkSize
    BY <1>2, <1>3, <2>1, ElementOfSeq DEF Offsets
  <2>3. A[n] = c * ChunkSize + v.rel[n]
    BY <2>1 DEF AbsSeq
  <2> QED  BY <2>2, <2>3, SizeAssumption DEF Rel
<1>5. Len(F) = m + n /\ F[m + n] = A[n]
  <2> HIDE DEF A, n, m, F, v
  <2>1. /\ Len(v.range \o A) = Len(v.range) + Len(A)
        /\ \A x \in 1 .. Len(v.range) + Len(A) :
             (v.range \o A)[x] = IF x <= Len(v.range) THEN v.range[x] ELSE A[x - Len(v.range)]
    BY <1>2, ConcatProperties
  <2>2. Len(v.range) = m
    BY DEF m
  <2>3. m + n \in 1 .. m + n /\ ~(m + n <= m) /\ (m + n) - m = n
    BY <1>3
  <2> QED  BY <1>2, <1>3, <2>1, <2>2, <2>3
<1>6. A[n] \in Nat /\ A[n] < start
  <2>1. A[n] \in Nat /\ ChunkNum(A[n]) = c
    BY <1>1, <1>4, ChunkNumOf
  <2> HIDE DEF A, n
  <2>2. ~(start <= A[n])
    BY <1>1, <2>1, ChunkNumMonotonic
  <2> QED  BY <1>1, <2>1, <2>2
<1> HIDE DEF F, A, n, m
<1>7. F \in Seq(Nat) /\ Rises(F)
  BY <1>2, SeqMonotonic, IndexIsNat DEF F
<1>8. ASSUME NEW x \in 1 .. Len(F) PROVE F[x] < start
  <2>1. x = m + n \/ x < m + n
    BY <1>3, <1>5
  <2>2. F[x] \in Nat /\ F[m + n] \in Nat
    BY <1>5, <1>6, <1>7, ElementOfSeq
  <2>3. m + n \in 1 .. Len(F)
    BY <1>3, <1>5
  <2>4. x < m + n => F[x] < F[m + n]
    BY <1>7, <2>3 DEF Rises
  <2> QED  BY <1>1, <1>5, <1>6, <2>1, <2>2, <2>4
<1> QED  BY <1>1, <1>7, <1>8, RisesShort DEF F

-----------------------------------------------------------------------------
(* A Lookup follows its snapshot.                                            *)

\* The greatest of the chunks before c, if there are any, is what c's range folds in.
LEMMA RangeOf ==
  ASSUME NEW s, NEW k \in Keys, Chain(s, k), NEW c \in ChunksOf(s, k)
  PROVE  /\ (\A d \in ChunksOf(s, k) : ~(d < c)) => Chunk(s, k, c).range = <<>>
         /\ \A d \in ChunksOf(s, k) :
              d < c /\ (\A e \in ChunksOf(s, k) : e < c => e <= d)
                => Chunk(s, k, c).range = Folded(d, Chunk(s, k, d))
BY DEF Chain

LEMMA OlderHasGreatest ==
  ASSUME NEW s, StateOK(s), NEW k \in Keys, NEW S \in SUBSET ChunksOf(s, k), S # {}
  PROVE  \E c \in S : \A d \in S : d <= c
<1> DEFINE T == {DBKey(k, c) : c \in S}
<1>1. Extremal(DOMAIN s) /\ T # {} /\ T \in SUBSET (DOMAIN s)
  BY PrefixKeyFacts DEF StateOK, PrefixKeys
<1>2. ASSUME NEW c \in S, NEW d \in S
      PROVE  /\ c \in Nat /\ d \in Nat /\ (DBKey(k, c) = DBKey(k, d) <=> c = d)
             /\ IF Engine = Inverted THEN Below(DBKey(k, c), DBKey(k, d)) <=> d < c
                ELSE Below(DBKey(k, c), DBKey(k, d)) <=> c < d
  <2>1. c \in Index /\ d \in Index
    BY DEF ChunksOf
  <2> QED  BY <2>1, IndexIsNat, SuffixOrder, DBKeyFacts
<1>3. \E x \in T : \A y \in T : x = y \/ (IF Engine = Inverted THEN Below(x, y) ELSE Below(y, x))
  BY <1>1 DEF Extremal
<1>4. PICK c \in S : \A d \in S : DBKey(k, c) = DBKey(k, d)
                       \/ (IF Engine = Inverted THEN Below(DBKey(k, c), DBKey(k, d))
                           ELSE Below(DBKey(k, d), DBKey(k, c)))
  BY <1>3
<1>5. ASSUME NEW d \in S PROVE d <= c
  BY <1>2, <1>4
<1> QED  BY <1>5

\* Where a forward Lookup begins, the matches passed over do not reach beyond start.
LEMMA StartReached ==
  ASSUME NEW s, StateOK(s), NEW k \in Keys, NEW start \in Index, Chain(s, k),
         \A c \in ChunksOf(s, k) : Rises(Folded(c, Chunk(s, k, c)))
  PROVE  /\ (\A c \in ChunksOf(s, k) : ~(ChunkNum(start) <= c)) => Len(Contents(s, k)) <= start
         /\ \A c \in ChunksOf(s, k) :
              (\A d \in ChunksOf(s, k) : ChunkNum(start) <= d => c <= d)
                => Len(Chunk(s, k, c).range) <= start
<1> DEFINE n == ChunkNum(start)
<1>1. start \in Nat /\ n \in Nat /\ \A c \in ChunksOf(s, k) : c \in Nat
  BY ChunkNumType, IndexIsNat, PrefixKeyFacts
<1>2. Len(<<>>) = 0
  BY EmptySeq
<1>3. ASSUME \A c \in ChunksOf(s, k) : ~(n <= c)
      PROVE  Len(Contents(s, k)) <= start
  <2>1. CASE ChunksOf(s, k) = {}
    BY <1>1, <1>2, <2>1 DEF Contents
  <2>2. CASE \E c : IsLatest(s, k, c)
    <3>1. PICK c : IsLatest(s, k, c)
      BY <2>2
    <3>2. c \in ChunksOf(s, k) /\ c < n
      BY <1>1, <1>3, <3>1 DEF IsLatest
    <3> HIDE DEF n
    <3> QED  BY <3>1, <3>2, ContentsOfLatest, ChunkShort DEF n
  <2> QED  BY <2>1, <2>2, LatestExists
<1>4. ASSUME NEW c \in ChunksOf(s, k), \A d \in ChunksOf(s, k) : n <= d => c <= d
      PROVE  Len(Chunk(s, k, c).range) <= start
  <2> DEFINE S == {d \in ChunksOf(s, k) : d < c}
  <2>1. CASE S = {}
    BY <1>1, <1>2, <1>4, <2>1, RangeOf
  <2>2. CASE S # {}
    <3>1. PICK d \in S : \A e \in S : e <= d
      BY <2>2, OlderHasGreatest
    <3>2. d \in ChunksOf(s, k) /\ d < n /\ d < c
      BY <1>1, <1>4, <3>1
    <3>3. Chunk(s, k, c).range = Folded(d, Chunk(s, k, d))
      BY <1>4, <3>1, <3>2, RangeOf
    <3> QED  BY <3>2, <3>3, ChunkShort
  <2> QED  BY <2>1, <2>2
<1> QED  BY <1>3, <1>4

LEMMA ScanStarts ==
  ASSUME NEW s, StateOK(s), NEW k \in Keys, NEW start \in Index, Chain(s, k),
         Engine # "chunk" => \A c \in ChunksOf(s, k) : Rises(Folded(c, Chunk(s, k, c))),
         NEW q, q.snap = s, q.key = k, q.start = start,
         q.pos = SeekStart(s, k, ChunkNum(start)),
         q.skippedOffsetSet = FALSE, q.reconstructed = <<>>
  PROVE  ScanFollows(q)
<1> DEFINE n == ChunkNum(start)  a == q.pos
<1>1. start \in Nat /\ n \in Index /\ n \in Nat /\ \A c \in ChunksOf(s, k) : c \in Nat
  BY ChunkNumType, IndexIsNat, PrefixKeyFacts
<1>2. CASE Engine = "chunk"
  <2>1. a = SeekLatest(s, k)
    BY <1>2 DEF SeekStart, SeekLatest, Inverted
  <2>2. CASE a = Invalid
    <3>1. ChunksOf(s, k) = {}
      BY <2>1, <2>2, SeekLatestFinds
    <3>2. Contents(s, k) = <<>> /\ Len(<<>>) <= start
      BY <1>1, <3>1, EmptySeq DEF Contents
    <3> QED  BY <2>2, <3>2 DEF ScanFollows, Reached
  <2>3. CASE a # Invalid
    <3>1. a \in DOMAIN s /\ a = DBKey(k, ChunkAt(a)) /\ IsLatest(s, k, ChunkAt(a))
      BY <2>1, <2>3, SeekLatestFinds
    <3>2. Contents(s, k) = Folded(ChunkAt(a), s[a]) /\ a[1] = k
      BY <3>1, ContentsOfLatest, DBKeyFacts DEF Chunk, IsLatest, ChunksOf
    <3>3. Contents(s, k) \o <<>> = Contents(s, k)
      BY ContentsType, ConcatEmptySeq
    <3> QED  BY <1>2, <2>3, <3>2, <3>3 DEF ScanFollows
  <2> QED  BY <2>2, <2>3
<1>3. CASE Engine # "chunk"
  <2> DEFINE S == {c \in ChunksOf(s, k) : n <= c}
  <2>1. AtLeast(s, k, S, a)
    BY <1>1, <1>3, StartFinds
  <2>2. /\ (\A c \in ChunksOf(s, k) : ~(n <= c)) => Len(Contents(s, k)) <= start
        /\ \A c \in ChunksOf(s, k) :
             (\A d \in ChunksOf(s, k) : n <= d => c <= d) => Len(Chunk(s, k, c).range) <= start
    BY <1>3, StartReached
  <2> HIDE DEF n
  <2>3. CASE S = {}
    BY <2>1, <2>2, <2>3, <1>3 DEF AtLeast, ScanFollows, Reached
  <2>4. CASE S # {}
    <3>1. /\ a # Invalid /\ a \in PrefixKeys(s, k) /\ ChunkAt(a) \in ChunksOf(s, k)
          /\ \A d \in ChunksOf(s, k) : n <= d => ChunkAt(a) <= d
      BY <2>1, <2>4 DEF AtLeast
    <3>2. a = DBKey(k, ChunkAt(a)) /\ a[1] = k
      BY <3>1, PrefixKeyFacts
    <3>3. Len(s[a].range) <= start
      BY <2>2, <3>1, <3>2 DEF Chunk
    <3> QED  BY <1>3, <3>1, <3>2, <3>3 DEF ScanFollows, Reached
  <2> QED  BY <2>3, <2>4
<1> QED  BY <1>2, <1>3

-----------------------------------------------------------------------------
(* Each index once.                                                          *)

LEMMA ContentsRise ==
  ASSUME NEW s, StateOK(s), OnceOnly(s), NEW k \in Keys
  PROVE  Rises(Contents(s, k))
<1>1. CASE ChunksOf(s, k) = {}
  BY <1>1, EmptySeq DEF Contents, Rises
<1>2. CASE \E c : IsLatest(s, k, c)
  <2>1. PICK c : IsLatest(s, k, c)
    BY <1>2
  <2>2. c \in ChunksOf(s, k) /\ Contents(s, k) = Folded(c, Chunk(s, k, c))
    BY <2>1, ContentsOfLatest DEF IsLatest
  <2> QED  BY <2>2 DEF OnceOnly
<1> QED  BY <1>1, <1>2, LatestExists

\* The log of the key in hand rises, the list given for it does, and the contract
\* puts the one before the other.
LEMMA InHandRises ==
  ASSUME NoRepeats, GInv, Engine # "chunk", OnceOnly(db), wpc = "indices"
  PROVE  Rises(Folded(cur.chunkNum, cur))
<1> DEFINE k == cur.key  u == updates[k]  L == Contents(db, k)
           F == Folded(cur.chunkNum, cur)
<1>1. /\ k \in Keys /\ F \in Seq(Index) /\ pending \in Seq(Index) /\ StateOK(db)
  BY InHandTypes
<1>2. /\ k \in DOMAIN updates /\ Sorted(u) /\ F \o pending = L \o u
  BY DEF GInv, KeyInHand
<1>3. New(updates) /\ updates \in Updates
  BY <1>2 DEF GInv, CInv, Working, TInv, WriterTypes
<1>4. u \in Seq(Index) /\ L \in Seq(Index)
  BY <1>1, <1>2, <1>3, UpdatesAssumption, ContentsType
<1>5. Rises(L) /\ Rises(u)
  BY <1>1, <1>2, <1>3, ContentsRise DEF NoRepeats
<1>6. \A i \in IndicesOf(u) : \A j \in IndicesOf(L) : j < i
  BY <1>2, <1>3 DEF New
<1> HIDE DEF F, L, u
<1>7. Rises(F \o pending)
  BY <1>2, <1>4, <1>5, <1>6, RisesConcat
<1>8. Rises(F)
  BY <1>1, <1>7, RisesConcat
<1> QED  BY <1>8 DEF F

LEMMA WrittenOnce ==
  ASSUME GInv, wpc = "indices", OnceOnly(View), Rises(Folded(cur.chunkNum, cur)),
         NEW b, b = IF cur.modified THEN BatchWithCur ELSE batch
  PROVE  OnceOnly(Overlay(b, db))
<1> DEFINE k == cur.key  c == cur.chunkNum  v == Value(cur.range, cur.rel)
           t == Overlay(b, db)
<1>1. k \in Keys /\ c \in Index /\ StateOK(View)
  BY InHandTypes
<1>2. CASE ~cur.modified
  BY <1>2 DEF View
<1>3. CASE cur.modified
  <2>1. b = Overlay([a \in {DBKey(k, c)} |-> v], batch)
    BY <1>3 DEF BatchWithCur
  <2>2. t = Put(View, k, c, v)
    BY <2>1, OverlayAssociative DEF Put, View
  <2>3. Folded(c, v) = Folded(c, cur)
    BY DEF Folded, Value
  <2>4. ASSUME NEW m \in Keys, NEW d \in ChunksOf(t, m)
        PROVE  Rises(Folded(d, Chunk(t, m, d)))
    <3> HIDE DEF v
    <3>1. /\ ChunksOf(t, k) = ChunksOf(View, k) \cup {c}
          /\ Chunk(t, k, c) = v
          /\ \A e \in ChunksOf(View, k) : e # c => Chunk(t, k, e) = Chunk(View, k, e)
          /\ \A n \in Keys : n # k =>
               /\ ChunksOf(t, n) = ChunksOf(View, n)
               /\ \A e \in ChunksOf(View, n) : Chunk(t, n, e) = Chunk(View, n, e)
      BY <1>1, <2>2, PutFacts
    <3> HIDE DEF t
    <3>2. CASE m = k /\ d = c
      BY <2>3, <3>1, <3>2
    <3>3. CASE ~(m = k /\ d = c)
      BY <2>4, <3>1, <3>3 DEF OnceOnly
    <3> QED  BY <3>2, <3>3
  <2> QED  BY <2>4 DEF OnceOnly
<1> QED  BY <1>2, <1>3

Once == Engine # "chunk" => OnceOnly(db) /\ OnceOnly(View)

LEMMA InitOnce == Init => Once
<1> SUFFICES ASSUME Init PROVE Once
  OBVIOUS
<1>1. db = NoWrites /\ View = db
  BY OverlayNothing, NoWritesOK DEF Init, View, StateOK
<1>2. \A k : ChunksOf(NoWrites, k) = {}
  BY DEF NoWrites, ChunksOf
<1> QED  BY <1>1, <1>2 DEF Once, OnceOnly

\* Every way out of WriteBatch drops the batch, so the view is the database.
LEMMA ReturnedOnce ==
  ASSUME Once, GInv', Release, db' = db \/ db' = View
  PROVE  Once'
<1>1. batch' = NoWrites /\ StateOK(db')
  BY DEF Release, GInv, CInv, TInv, WriterTypes
<1>2. View' = db'
  BY <1>1, OverlayNothing DEF View, StateOK
<1> QED  BY <1>2 DEF Once

LEMMA StepOnce ==
  ASSUME NoRepeats, GInv, Once, [Next]_vars, GInv'
  PROVE  Once'
<1>1. CASE UNCHANGED <<db, batch>>
  BY <1>1 DEF Once, View
<1>2. CASE CrossBoundary \/ FlushKey
  <2>1. wpc = "indices" /\ db' = db /\ batch' = IF cur.modified THEN BatchWithCur ELSE batch
    BY <1>2 DEF CrossBoundary, FlushKey
  <2>2. View' = Overlay(batch', db)
    BY <2>1 DEF View
  <2>3. Engine # "chunk" => OnceOnly(View')
    BY <2>1, <2>2, InHandRises, WrittenOnce DEF Once
  <2> QED  BY <2>1, <2>3 DEF Once
<1>3. CASE (\E k \in todo : RejectKey(k)) \/ Commit \/ StorageError \/ Crash
  BY <1>3, ReturnedOnce DEF RejectKey, Commit, StorageError, Crash, View
<1>4. UNCHANGED <<db, batch>> \/ CrossBoundary \/ FlushKey
      \/ (\E k \in todo : RejectKey(k)) \/ Commit \/ StorageError \/ Crash
  BY DEF Next, vars, writer, WriteBatch, WriterStep, WriterProgress, SkipKey, LoadKey,
         AppendInChunk, WriteReturn, GetSubRoot, Lookup, ReaderStep, VisitForward,
         VisitBackward, FinishLookup, ReadReturn
<1> QED  BY <1>1, <1>2, <1>3, <1>4

-----------------------------------------------------------------------------
(* What a Lookup collects.                                                   *)

Becomes(r, q) == rd' = [rd EXCEPT ![r] = q] /\ UNCHANGED <<db, writer>>

\* One more chunk forwards.
LEMMA ReachedVisit ==
  ASSUME NEW R \in Seq(Index), NEW A \in Seq(Index), NEW q, NEW p,
         q.start \in Nat, q.skippedOffset \in Nat, Reached(q, R),
         p.start = q.start, p.skippedOffsetSet = TRUE,
         p.skippedOffset = (IF q.skippedOffsetSet THEN q.skippedOffset ELSE Len(R)),
         p.reconstructed = q.reconstructed \o A
  PROVE  Reached(p, R \o A)
<1> DEFINE n == p.skippedOffset
<1>1. /\ Len(R) \in Nat /\ Len(A) \in Nat /\ Len(R \o A) = Len(R) + Len(A)
  BY LenProperties, ConcatProperties
<1>2. n \in Nat /\ n <= q.start /\ n <= Len(R) /\ q.reconstructed = From(R, n)
  <2>1. CASE q.skippedOffsetSet
    BY <2>1 DEF Reached
  <2>2. CASE ~q.skippedOffsetSet
    <3>1. n = Len(R) /\ q.reconstructed = <<>> /\ Len(R) <= q.start
      BY <2>2 DEF Reached
    <3>2. From(R, Len(R)) = <<>>
      BY <1>1, FromFacts
    <3> HIDE DEF n
    <3> QED  BY <1>1, <3>1, <3>2
  <2> QED  BY <2>1, <2>2
<1>3. From(R \o A, n) = q.reconstructed \o A
  <2> HIDE DEF n
  <2> QED  BY <1>2, FromConcat
<1>4. n <= Len(R \o A)
  BY <1>1, <1>2
<1> QED  BY <1>2, <1>3, <1>4 DEF Reached

\* What a scan that follows its snapshot is about to visit.
LEMMA ScanFacts ==
  ASSUME GInv, NEW r \in Readers, rd[r].pc = "scan", ScanFollows(rd[r])
  PROVE  LET q == rd[r]
         IN  /\ q.key \in Keys /\ q.start \in Nat /\ q.skippedOffset \in Nat
             /\ q.skippedOffsetSet \in BOOLEAN /\ q.reconstructed \in Seq(Index)
             /\ StateOK(q.snap) /\ Chain(q.snap, q.key) /\ ScanOK(q)
             /\ q.pos # Invalid =>
                  /\ q.pos \in PrefixKeys(q.snap, q.key)
                  /\ ChunkAt(q.pos) \in ChunksOf(q.snap, q.key)
                  /\ q.snap[q.pos] = Chunk(q.snap, q.key, ChunkAt(q.pos))
<1> DEFINE q == rd[r]
<1>1. StateOK(q.snap) /\ ScanOK(q)
  BY DEF GInv, CInv, TInv, ReaderTypes, ReadType, NoRead
<1>2. /\ q.key \in Keys /\ q.start \in Nat /\ q.skippedOffset \in Nat
      /\ q.skippedOffsetSet \in BOOLEAN /\ q.reconstructed \in Seq(Index)
      /\ q.pos \in DOMAIN q.snap \cup {Invalid}
  BY <1>1, IndexIsNat DEF ScanOK
<1>3. Chain(q.snap, q.key) /\ (q.pos # Invalid => q.pos[1] = q.key)
  BY DEF ScanFollows
<1> HIDE DEF q
<1>4. ASSUME q.pos # Invalid
      PROVE  /\ q.pos \in PrefixKeys(q.snap, q.key)
             /\ ChunkAt(q.pos) \in ChunksOf(q.snap, q.key)
             /\ q.snap[q.pos] = Chunk(q.snap, q.key, ChunkAt(q.pos))
  <2>1. q.pos \in PrefixKeys(q.snap, q.key)
    BY <1>2, <1>3, <1>4 DEF PrefixKeys
  <2> QED  BY <1>1, <1>2, <2>1, PrefixKeyFacts DEF Chunk
<1> QED  BY <1>1, <1>2, <1>3, <1>4 DEF q

\* Forwards, the chunks visited are the range of the one to visit next; after the
\* last they are the whole log.
LEMMA ForwardFollows ==
  ASSUME GInv, NEW r \in Readers, ScanFollows(rd[r]), VisitForward(r)
  PROVE  \E p : /\ Becomes(r, p) /\ p.pc = "scan" /\ p.snap = rd[r].snap
                /\ p.key = rd[r].key /\ p.start = rd[r].start /\ ScanFollows(p)
<1> DEFINE q == rd[r]  s == q.snap  k == q.key
           c == ChunkAt(q.pos)  v == q.snap[q.pos]  F == Folded(c, v)
           p == [q EXCEPT !.skippedOffset =
                            IF q.skippedOffsetSet THEN @ ELSE Len(v.range),
                          !.skippedOffsetSet = TRUE,
                          !.reconstructed = @ \o AbsSeq(c, v.rel),
                          !.pos = Advance(q.snap, q.key, q.pos)]
<1>1. Becomes(r, p) /\ Engine # "chunk" /\ q.pc = "scan" /\ q.pos # Invalid
  BY DEF VisitForward, Becomes
<1>2. /\ k \in Keys /\ q.start \in Nat /\ q.skippedOffset \in Nat
      /\ q.skippedOffsetSet \in BOOLEAN /\ q.reconstructed \in Seq(Index)
      /\ StateOK(s) /\ Chain(s, k) /\ ScanOK(q)
      /\ q.pos \in PrefixKeys(s, k) /\ c \in ChunksOf(s, k) /\ v = Chunk(s, k, c)
  BY <1>1, ScanFacts
<1>3. /\ p.pc = "scan" /\ p.snap = s /\ p.key = k /\ p.start = q.start
      /\ p.skippedOffsetSet = TRUE /\ p.pos = Advance(s, k, q.pos)
      /\ p.skippedOffset = (IF q.skippedOffsetSet THEN q.skippedOffset ELSE Len(v.range))
      /\ p.reconstructed = q.reconstructed \o AbsSeq(c, v.rel)
  BY <1>1, <1>2 DEF ScanOK
<1> DEFINE S == {d \in ChunksOf(s, k) : c < d}  a == Advance(s, k, q.pos)
<1>4. AtLeast(s, k, S, a)
  BY <1>1, <1>2, NextFinds
<1>5. Reached(q, v.range)
  BY <1>1 DEF ScanFollows
<1> HIDE DEF p, q, s, k, c, v, a, S
<1>6. v.range \in Seq(Index) /\ AbsSeq(c, v.rel) \in Seq(Index) /\ F = v.range \o AbsSeq(c, v.rel)
  BY <1>2, ChunkFacts
<1> HIDE DEF F
<1>7. Reached(p, F)
  BY <1>2, <1>3, <1>5, <1>6, ReachedVisit
<1>8. c \in Nat /\ \A d \in ChunksOf(s, k) : d \in Nat
  BY <1>2, PrefixKeyFacts
<1>9. CASE S = {}
  <2>1. IsLatest(s, k, c)
    BY <1>2, <1>8, <1>9 DEF IsLatest, S
  <2>2. Contents(s, k) = F
    BY <1>2, <2>1, ContentsOfLatest DEF F
  <2>3. a = Invalid
    BY <1>4, <1>9 DEF AtLeast
  <2>4. ScanFollows(p)
    BY <1>2, <1>3, <1>7, <2>2, <2>3 DEF ScanFollows, a
  <2> QED  BY <1>1, <1>3, <2>4 DEF q, s, k
<1>10. CASE S # {}
  <2> DEFINE d == ChunkAt(a)
  <2>1. /\ a \in PrefixKeys(s, k) /\ a # Invalid /\ d \in S /\ \A e \in S : d <= e
    BY <1>4, <1>10 DEF AtLeast
  <2>2. a[1] = k /\ a = DBKey(k, d)
    BY <1>2, <2>1, PrefixKeyFacts
  <2>3. d \in ChunksOf(s, k) /\ c < d
    BY <2>1 DEF S
  <2>4. \A e \in ChunksOf(s, k) : e < d => e <= c
    <3> HIDE DEF d
    <3> QED  BY <1>8, <2>1, <2>3 DEF S
  <2> HIDE DEF d
  <2>5. Chunk(s, k, d).range = F
    BY <1>2, <2>3, <2>4, RangeOf DEF F
  <2>6. s[a].range = F
    BY <2>2, <2>5 DEF Chunk
  <2>7. p.pos = a /\ p.snap = s /\ p.key = k
    BY <1>3 DEF a
  <2>8. ScanFollows(p)
    BY <1>1, <1>2, <1>7, <2>1, <2>2, <2>6, <2>7 DEF ScanFollows
  <2> QED  BY <1>1, <1>3, <2>8 DEF q, s, k
<1> QED  BY <1>9, <1>10

\* The second of two lists is the two from the end of the first on.
LEMMA FromEnd ==
  ASSUME NEW a \in Seq(Index), NEW b \in Seq(Index)
  PROVE  /\ Len(a) \in Nat /\ Len(a) <= Len(a \o b)
         /\ From(a \o b, Len(a)) = b
<1>1. Len(a) \in Nat /\ Len(b) \in Nat /\ Len(a \o b) = Len(a) + Len(b)
  BY LenProperties, ConcatProperties
<1>2. Len(a) <= Len(a)
  BY <1>1
<1>3. From(a, Len(a)) = <<>>
  BY <1>1, FromFacts
<1>4. From(a \o b, Len(a)) = From(a, Len(a)) \o b
  BY <1>1, <1>2, FromConcat
<1>5. <<>> \o b = b
  BY ConcatEmptySeq
<1> QED  BY <1>1, <1>3, <1>4, <1>5

\* Backwards, the range of the chunk just visited is what the older ones hold.
LEMMA BackwardFollows ==
  ASSUME GInv, NEW r \in Readers, ScanFollows(rd[r]), VisitBackward(r)
  PROVE  \E p : /\ Becomes(r, p) /\ p.pc = "scan" /\ p.snap = rd[r].snap
                /\ p.key = rd[r].key /\ p.start = rd[r].start /\ ScanFollows(p)
<1> DEFINE q == rd[r]  s == q.snap  k == q.key
           c == ChunkAt(q.pos)  v == q.snap[q.pos]  F == Folded(c, v)
           A == AbsSeq(c, v.rel)  all == Contents(s, k)
           p == [q EXCEPT !.skippedOffset = Len(v.range),
                          !.skippedOffsetSet = TRUE,
                          !.reconstructed = AbsSeq(c, v.rel) \o @,
                          !.pos = IF Len(v.range) <= q.start THEN Invalid
                                  ELSE Advance(q.snap, q.key, q.pos)]
<1>1. Becomes(r, p) /\ Engine = "chunk" /\ q.pc = "scan" /\ q.pos # Invalid
  BY DEF VisitBackward, Becomes
<1>2. /\ k \in Keys /\ q.start \in Nat /\ q.reconstructed \in Seq(Index)
      /\ StateOK(s) /\ Chain(s, k) /\ ScanOK(q)
      /\ q.pos \in PrefixKeys(s, k) /\ c \in ChunksOf(s, k) /\ v = Chunk(s, k, c)
  BY <1>1, ScanFacts
<1>3. /\ p.pc = "scan" /\ p.snap = s /\ p.key = k /\ p.start = q.start
      /\ p.skippedOffsetSet = TRUE /\ p.skippedOffset = Len(v.range)
      /\ p.pos = (IF Len(v.range) <= q.start THEN Invalid ELSE Advance(s, k, q.pos))
      /\ p.reconstructed = A \o q.reconstructed
  BY <1>1, <1>2 DEF ScanOK
<1> DEFINE S == {d \in ChunksOf(s, k) : d < c}  a == Advance(s, k, q.pos)
<1>4. AtGreatest(s, k, S, a)
  BY <1>1, <1>2, PrevFinds
<1>5. F \o q.reconstructed = all
  BY <1>1 DEF ScanFollows
<1> HIDE DEF p, q, s, k, c, v, a, S, all
<1>6. v.range \in Seq(Index) /\ A \in Seq(Index) /\ F = v.range \o A
  BY <1>2, ChunkFacts
<1> HIDE DEF F, A
<1> DEFINE R == v.range  rec == q.reconstructed
<1> HIDE DEF R, rec
<1>7. p.reconstructed \in Seq(Index) /\ v.range \o p.reconstructed = all
  <2>1. /\ R \in Seq(Index) /\ A \in Seq(Index) /\ rec \in Seq(Index)
        /\ F = R \o A /\ F \o rec = all
    BY <1>2, <1>5, <1>6 DEF R, rec
  <2>2. (R \o A) \o rec = R \o (A \o rec)
    BY <2>1, ConcatThree
  <2>3. A \o rec \in Seq(Index)
    BY <2>1, ConcatProperties
  <2> QED  BY <1>3, <2>1, <2>2, <2>3 DEF R, rec
<1>8. /\ Len(v.range) \in Nat /\ Len(v.range) <= Len(all)
      /\ From(all, Len(v.range)) = p.reconstructed
  <2> DEFINE new == p.reconstructed
  <2>1. R \in Seq(Index) /\ new \in Seq(Index) /\ R \o new = all
    BY <1>6, <1>7 DEF R
  <2> HIDE DEF new
  <2>2. Len(R) \in Nat /\ Len(R) <= Len(R \o new) /\ From(R \o new, Len(R)) = new
    BY <2>1, FromEnd
  <2> QED  BY <2>1, <2>2 DEF R, new
<1>9. CASE Len(v.range) <= q.start
  <2>1. Reached(p, all)
    BY <1>3, <1>8, <1>9 DEF Reached
  <2>2. ScanFollows(p)
    BY <1>2, <1>3, <1>9, <2>1 DEF ScanFollows, all
  <2> QED  BY <1>1, <1>3, <2>2 DEF q, s, k
<1>10. CASE ~(Len(v.range) <= q.start)
  <2>1. S # {}
    <3>1. ASSUME S = {} PROVE v.range = <<>>
      BY <1>2, <3>1, RangeOf DEF S
    <3>2. v.range = <<>> => Len(v.range) = 0
      BY EmptySeq
    <3> QED  BY <1>2, <1>8, <1>10, <3>1, <3>2
  <2> DEFINE d == ChunkAt(a)
  <2>2. a \in PrefixKeys(s, k) /\ a # Invalid /\ d \in S /\ \A e \in S : e <= d
    BY <1>4, <2>1 DEF AtGreatest
  <2>3. a[1] = k /\ a = DBKey(k, d)
    BY <1>2, <2>2, PrefixKeyFacts
  <2>4. d \in ChunksOf(s, k) /\ d < c /\ \A e \in ChunksOf(s, k) : e < c => e <= d
    BY <2>2 DEF S
  <2> HIDE DEF d
  <2>5. v.range = Folded(d, Chunk(s, k, d))
    BY <1>2, <2>4, RangeOf
  <2>6. Folded(ChunkAt(a), s[a]) \o p.reconstructed = all
    BY <1>7, <2>3, <2>5 DEF Chunk, d
  <2>7. p.pos = a /\ p.snap = s /\ p.key = k
    BY <1>3, <1>10 DEF a
  <2>8. ScanFollows(p)
    BY <1>1, <1>2, <2>2, <2>3, <2>6, <2>7 DEF ScanFollows, all
  <2> QED  BY <1>1, <1>3, <2>8 DEF q, s, k
<1> QED  BY <1>9, <1>10

\* What FinishLookup returns is the log from start on, and no error.
LEMMA LookupAnswers ==
  ASSUME NEW all \in Seq(Index), NEW q, q.start \in Nat, q.skippedOffset \in Nat,
         q.skippedOffsetSet \in BOOLEAN, Reached(q, all)
  PROVE  LookupAnswer(q) = Answer(TRUE, From(all, q.start))
<1> DEFINE n == q.skippedOffset  rec == q.reconstructed  m == q.start - n
<1>1. Len(all) \in Nat
  BY LenProperties
<1>2. ASSUME ~q.skippedOffsetSet
      PROVE  LookupAnswer(q) = Answer(TRUE, From(all, q.start))
  <2>1. q.reconstructed = <<>> /\ Len(all) <= q.start
    BY <1>2 DEF Reached
  <2>2. From(all, q.start) = <<>>
    BY <2>1, FromFacts
  <2>3. NothingFound(q)
    BY <1>2, <2>1 DEF NothingFound
  <2> QED  BY <2>2, <2>3 DEF LookupAnswer
<1>3. ASSUME q.skippedOffsetSet
      PROVE  LookupAnswer(q) = Answer(TRUE, From(all, q.start))
  <2>1. n \in Nat /\ n <= q.start /\ n <= Len(all) /\ rec = From(all, n)
    BY <1>3 DEF Reached
  <2>2. m \in Nat /\ n + m = q.start /\ ~(q.start < n)
    <3> HIDE DEF n
    <3> QED  BY <2>1
  <2>3. LookupAnswer(q) = IF NothingFound(q) THEN Answer(TRUE, <<>>)
                          ELSE IF m >= Len(rec) THEN Answer(TRUE, <<>>)
                          ELSE Answer(TRUE, From(rec, m))
    BY <2>2 DEF LookupAnswer, From
  <2>10. NothingFound(q) => rec = <<>>
    BY <1>3 DEF NothingFound
  <2> HIDE DEF n, rec, m
  <2>4. rec \in Seq(Index)
    BY <2>1, FromFacts
  <2>5. Len(rec) \in Nat
    BY <2>4, LenProperties
  <2>6. From(all, q.start) = From(rec, m)
    BY <2>1, <2>2, FromFrom
  <2>7. Len(rec) <= m => From(rec, m) = <<>>
    BY <2>2, <2>4, FromFacts
  <2>8. rec = <<>> => Len(rec) = 0
    BY EmptySeq
  <2>9. rec = <<>> \/ m >= Len(rec) => Len(rec) <= m
    BY <2>2, <2>5, <2>8
  <2> QED  BY <2>3, <2>6, <2>7, <2>9, <2>10
<1> QED  BY <1>2, <1>3

LEMMA FinishAnswers ==
  ASSUME GInv, NEW r \in Readers, ScanFollows(rd[r]), FinishLookup(r)
  PROVE  Becomes(r, Answer(TRUE, From(Contents(rd[r].snap, rd[r].key), rd[r].start)))
<1> DEFINE q == rd[r]  all == Contents(q.snap, q.key)
<1>1. q.pc = "scan" /\ q.pos = Invalid /\ Becomes(r, LookupAnswer(q))
  BY DEF FinishLookup, Becomes
<1>2. /\ q.key \in Keys /\ q.start \in Nat /\ q.skippedOffset \in Nat
      /\ q.skippedOffsetSet \in BOOLEAN /\ StateOK(q.snap)
  BY <1>1, ScanFacts
<1>3. Reached(q, all)
  BY <1>1 DEF ScanFollows
<1> HIDE DEF q
<1>4. all \in Seq(Index)
  BY <1>2, ContentsType
<1> HIDE DEF all
<1>5. LookupAnswer(q) = Answer(TRUE, From(all, q.start))
  BY <1>2, <1>3, <1>4, LookupAnswers
<1> QED  BY <1>1, <1>5 DEF q, all

\* GetSubRoot answers with the root of the whole log.
LEMMA GetSubRootAnswers ==
  ASSUME GInv, NEW r \in Readers, NEW k \in Keys, GetSubRoot(r, k)
  PROVE  rd[r] = NoRead /\ Becomes(r, Answer(TRUE, Contents(db, k)))
<1> DEFINE a == SeekLatest(db, k)
<1>1. StateOK(db)
  BY DEF GInv, CInv, TInv, WriterTypes
<1>2. \/ a = Invalid /\ ChunksOf(db, k) = {}
      \/ /\ a \in DOMAIN db /\ a # Invalid
         /\ a = DBKey(k, ChunkAt(a)) /\ IsLatest(db, k, ChunkAt(a))
  BY <1>1, SeekLatestFinds
<1>3. CASE a = Invalid /\ ChunksOf(db, k) = {}
  BY <1>3 DEF GetSubRoot, SubRoot, Contents, Becomes
<1>4. CASE /\ a \in DOMAIN db /\ a # Invalid
           /\ a = DBKey(k, ChunkAt(a)) /\ IsLatest(db, k, ChunkAt(a))
  <2>1. Contents(db, k) = Folded(ChunkAt(a), Chunk(db, k, ChunkAt(a)))
    BY <1>1, <1>4, ContentsOfLatest
  <2>2. Chunk(db, k, ChunkAt(a)) = db[a]
    BY <1>4 DEF Chunk
  <2> QED  BY <1>4, <2>1, <2>2 DEF GetSubRoot, SubRoot, Becomes
<1> QED  BY <1>2, <1>3, <1>4

-----------------------------------------------------------------------------
(* The invariant of the readers.                                             *)

Follow == \A r \in Readers : ReaderFollows(rd[r])

LEMMA InitFollow == Init => Follow
BY DEF Init, Follow, ReaderFollows, NoRead

LEMMA BecomesFollow ==
  ASSUME Follow, GInv, NEW r \in Readers, NEW p, Becomes(r, p), ReaderFollows(p)
  PROVE  Follow'
<1>1. DOMAIN rd = Readers /\ rd' = [rd EXCEPT ![r] = p]
  BY DEF GInv, CInv, TInv, ReaderTypes, Becomes
<1>2. \A x \in Readers : rd'[x] = rd[x] \/ rd'[x] = p
  BY <1>1
<1>3. \A x \in Readers : ReaderFollows(rd'[x])
  BY <1>2 DEF Follow
<1> QED  BY <1>3 DEF Follow

LEMMA AnswerFollows == \A val : ReaderFollows(Answer(TRUE, val))
BY DEF ReaderFollows, Answer

LEMMA LookupFollows ==
  ASSUME GInv, Once, NEW r \in Readers, NEW k \in Keys, NEW start \in Index,
         Lookup(r, k, start)
  PROVE  \E p : /\ Becomes(r, p) /\ p.pc = "scan" /\ p.snap = db
                /\ p.key = k /\ p.start = start /\ ScanFollows(p)
<1> DEFINE p == [pc |-> "scan", key |-> k, start |-> start, snap |-> db,
                 pos |-> SeekStart(db, k, ChunkNum(start)),
                 skippedOffset |-> 0, skippedOffsetSet |-> FALSE, reconstructed |-> <<>>]
<1>1. Becomes(r, p)
  BY DEF Lookup, Becomes
<1>2. /\ p.pc = "scan" /\ p.snap = db /\ p.key = k /\ p.start = start
      /\ p.pos = SeekStart(db, k, ChunkNum(start))
      /\ p.skippedOffsetSet = FALSE /\ p.reconstructed = <<>>
  OBVIOUS
<1>3. StateOK(db) /\ Chain(db, k)
  BY DEF GInv, CInv, TInv, WriterTypes
<1>4. Engine # "chunk" => \A c \in ChunksOf(db, k) : Rises(Folded(c, Chunk(db, k, c)))
  BY DEF Once, OnceOnly
<1> HIDE DEF p
<1>5. ScanFollows(p)
  BY <1>2, <1>3, <1>4, ScanStarts
<1> QED  BY <1>1, <1>2, <1>5

LEMMA StepFollow ==
  ASSUME GInv, Once, Follow, [Next]_vars
  PROVE  Follow'
<1>1. ASSUME NEW r \in Readers, NEW p, Becomes(r, p), p.pc = "scan", ScanFollows(p)
      PROVE  Follow'
  BY <1>1, BecomesFollow DEF ReaderFollows
<1>2. ASSUME NEW r \in Readers, NEW k \in Keys, GetSubRoot(r, k) PROVE Follow'
  BY <1>2, GetSubRootAnswers, AnswerFollows, BecomesFollow
<1>3. ASSUME NEW r \in Readers, NEW k \in Keys, NEW start \in Index, Lookup(r, k, start)
      PROVE  Follow'
  BY <1>1, <1>3, LookupFollows
<1>4. ASSUME NEW r \in Readers, VisitForward(r) \/ VisitBackward(r) PROVE Follow'
  <2>1. rd[r].pc = "scan" /\ ScanFollows(rd[r])
    BY <1>4 DEF VisitForward, VisitBackward, Follow, ReaderFollows
  <2> QED  BY <1>1, <1>4, <2>1, ForwardFollows, BackwardFollows
<1>5. ASSUME NEW r \in Readers, FinishLookup(r) PROVE Follow'
  <2>1. ScanFollows(rd[r])
    BY <1>5 DEF FinishLookup, Follow, ReaderFollows
  <2> QED  BY <1>5, <2>1, FinishAnswers, AnswerFollows, BecomesFollow
<1>6. ASSUME NEW r \in Readers, ReadReturn(r) PROVE Follow'
  <2>1. Becomes(r, NoRead) /\ ReaderFollows(NoRead)
    BY <1>6 DEF ReadReturn, Becomes, ReaderFollows, NoRead
  <2> QED  BY <2>1, BecomesFollow
<1>7. CASE Crash
  BY <1>7 DEF Crash, Follow, ReaderFollows, NoRead
<1>8. CASE UNCHANGED rd
  BY <1>8 DEF Follow
<1>9. WriterStep \/ (\E u \in Updates : WriteBatch(u)) \/ UNCHANGED vars => UNCHANGED rd
  BY DEF vars, WriteBatch, WriterStep, WriterProgress, SkipKey, RejectKey, LoadKey,
         AppendInChunk, CrossBoundary, FlushKey, Commit, StorageError, WriteReturn
<1> QED
  BY <1>2, <1>3, <1>4, <1>5, <1>6, <1>7, <1>8, <1>9 DEF Next, ReaderStep

LEMMA RInvParts == RInv <=> GInv /\ Once /\ Follow
BY DEF RInv, Once, Follow

THEOREM ReaderInvariant == ASSUME NoRepeats PROVE Spec => []RInv
<1>1. Init => GInv /\ Once /\ Follow
  BY InitG, InitOnce, InitFollow
<1>2. GInv /\ Once /\ Follow /\ [Next]_vars => (GInv /\ Once /\ Follow)'
  BY StepG, StepOnce, StepFollow
<1>3. GInv /\ Once /\ Follow => RInv
  BY RInvParts
<1> QED  BY <1>1, <1>2, <1>3, PTL DEF Spec

\* No Lookup ends with "invariant violated: start < skippedOffset", if no list
\* accepted repeats an index: every chunk before start \div ChunkSize, the one the
\* iterator is put on, ends with at most start matches.
THEOREM LookupsSucceed == ASSUME NoRepeats PROVE Spec => []LookupNeverFails
<1>1. RInv => LookupNeverFails
  BY DEF RInv, ReaderFollows, LookupNeverFails
<1> QED  BY <1>1, ReaderInvariant, PTL

-----------------------------------------------------------------------------
(* The engines keep the promise of IndexStore.                               *)

LEMMA PhaseOf ==
  /\ wpc = "idle" => phase = "idle"
  /\ wpc \in {"keys", "indices"} => phase = "open"
  /\ wpc = "ack" => phase = "applied"
  /\ wpc = "failed" => phase = "rejected"
BY DEF phase

LEMMA PhaseOfNext ==
  /\ wpc' = "idle" => phase' = "idle"
  /\ wpc' \in {"keys", "indices"} => phase' = "open"
  /\ wpc' = "ack" => phase' = "applied"
  /\ wpc' = "failed" => phase' = "rejected"
BY DEF phase

LEMMA LogUnchanged == ASSUME UNCHANGED db PROVE UNCHANGED log
BY DEF log

LEMMA AnswerUnchanged == ASSUME UNCHANGED rd PROVE UNCHANGED answer
BY DEF answer

\* What a reader's call returns: a scan has its answer from the start.
AnswerOf(q) ==
  CASE q.pc = "idle" -> <<>>
    [] q.pc = "done" -> [ok |-> q.ok, val |-> q.val]
    [] q.pc = "scan" -> [ok |-> TRUE, val |-> From(Contents(q.snap, q.key), q.start)]

LEMMA AnswerIs ==
  /\ answer = [r \in Readers |-> AnswerOf(rd[r])]
  /\ answer' = [r \in Readers |-> AnswerOf(rd'[r])]
BY DEF answer, AnswerOf, From

LEMMA AnswersOf ==
  /\ AnswerOf(NoRead) = <<>>
  /\ \A val : AnswerOf(Answer(TRUE, val)) = [ok |-> TRUE, val |-> val]
  /\ \A q : q.pc = "scan" =>
       AnswerOf(q) = [ok |-> TRUE, val |-> From(Contents(q.snap, q.key), q.start)]
BY DEF AnswerOf, NoRead, Answer

LEMMA AnswerBecomes ==
  ASSUME GInv, NEW r \in Readers, NEW q, Becomes(r, q)
  PROVE  /\ answer' = [answer EXCEPT ![r] = AnswerOf(q)]
         /\ answer[r] = AnswerOf(rd[r])
         /\ UNCHANGED <<log, phase, updates>>
<1>1. rd' = [rd EXCEPT ![r] = q] /\ DOMAIN rd = Readers /\ UNCHANGED <<db, wpc, updates>>
  BY DEF Becomes, writer, GInv, CInv, TInv, ReaderTypes
<1>2. \A x \in Readers : rd'[x] = IF x = r THEN q ELSE rd[x]
  BY <1>1
<1>3. answer' = [answer EXCEPT ![r] = AnswerOf(q)] /\ answer[r] = AnswerOf(rd[r])
  BY <1>2, AnswerIs
<1>4. UNCHANGED phase
  BY <1>1 DEF phase
<1> QED  BY <1>1, <1>3, <1>4, LogUnchanged

LEMMA InitRefines == Init => Promise!Init
<1> SUFFICES ASSUME Init PROVE Promise!Init
  OBVIOUS
<1>1. \A k : ChunksOf(db, k) = {}
  BY DEF Init, NoWrites, ChunksOf
<1>2. log = [k \in Keys |-> <<>>]
  BY <1>1 DEF log, Contents
<1>3. answer = [r \in Readers |-> <<>>]
  BY AnswerIs, AnswersOf DEF Init
<1> QED  BY <1>2, <1>3, PhaseOf DEF Init, Promise!Init

\* The commit appends every list of the batch to the log of its key.
LEMMA CommitRefines ==
  ASSUME GInv, Commit
  PROVE  Promise!Apply
<1>1. /\ wpc = "keys" /\ wpc' = "ack" /\ todo = {} /\ db' = View
      /\ UNCHANGED <<updates, rd>>
  BY DEF Commit, View
<1>2. /\ DOMAIN updates \subseteq Keys /\ StateOK(db) /\ StateOK(batch)
      /\ \A a \in DOMAIN batch : a[1] \in DOMAIN updates
  <2>1. updates \in Updates \/ DOMAIN updates = {}
    BY DEF GInv, CInv, TInv, WriterTypes
  <2> QED  BY <1>1, <2>1, UpdatesAssumption DEF GInv, CInv, TInv, WriterTypes, Working
<1>3. ASSUME NEW k \in DOMAIN updates
      PROVE  Sorted(updates[k]) /\ Contents(View, k) = Contents(db, k) \o updates[k]
  BY <1>1 DEF GInv, Working, Done
<1>4. ASSUME NEW k \in Keys, k \notin DOMAIN updates
      PROVE  Contents(View, k) = Contents(db, k)
  <2>1. \A a \in DOMAIN batch : a[1] # k
    BY <1>2, <1>4
  <2>2. /\ ChunksOf(View, k) = ChunksOf(db, k)
        /\ \A c \in ChunksOf(db, k) : Chunk(View, k, c) = Chunk(db, k, c)
    BY <1>2, <2>1, ViewOfUntouched DEF View
  <2> QED  BY <1>2, <2>2, LatestExists, ContentsSame
<1>5. log' = [k \in Keys |-> IF k \in DOMAIN updates THEN log[k] \o updates[k] ELSE log[k]]
  <2>1. /\ log' = [k \in Keys |-> Contents(View, k)]
        /\ \A k \in Keys : log[k] = Contents(db, k)
    BY <1>1 DEF log
  <2> QED  BY <1>3, <1>4, <2>1
<1>6. \A k \in DOMAIN updates : Promise!Sorted(updates[k])
  BY <1>3 DEF Sorted, Promise!Sorted
<1> QED  BY <1>1, <1>5, <1>6, PhaseOf, PhaseOfNext, AnswerUnchanged DEF Promise!Apply

\* Lookup takes effect when it opens its iterator; its walk changes nothing.
LEMMA LookupRefines ==
  ASSUME RInv, NEW r \in Readers, NEW k \in Keys, NEW start \in Index, Lookup(r, k, start)
  PROVE  Promise!Lookup(r, k, start)
<1>1. GInv /\ Once /\ rd[r] = NoRead
  BY RInvParts DEF Lookup
<1>2. PICK q : /\ Becomes(r, q) /\ q.pc = "scan" /\ q.snap = db
               /\ q.key = k /\ q.start = start
  BY <1>1, LookupFollows
<1>3. AnswerOf(q) = [ok |-> TRUE, val |-> From(Contents(db, k), start)]
  BY <1>2, AnswersOf
<1>4. /\ answer' = [answer EXCEPT ![r] = AnswerOf(q)] /\ answer[r] = AnswerOf(rd[r])
      /\ UNCHANGED <<log, phase, updates>>
  BY <1>1, <1>2, AnswerBecomes
<1>5. log[k] = Contents(db, k) /\ answer[r] = <<>>
  BY <1>1, <1>4, AnswersOf DEF log
<1>6. From(Contents(db, k), start) = Promise!From(log[k], start)
  BY <1>5 DEF From, Promise!From
<1> QED  BY <1>3, <1>4, <1>5, <1>6 DEF Promise!Lookup

LEMMA GetSubRootRefines ==
  ASSUME GInv, NEW r \in Readers, NEW k \in Keys, GetSubRoot(r, k)
  PROVE  Promise!GetSubRoot(r, k)
<1>1. rd[r] = NoRead /\ Becomes(r, Answer(TRUE, Contents(db, k)))
  BY GetSubRootAnswers
<1>2. /\ answer' = [answer EXCEPT ![r] = AnswerOf(Answer(TRUE, Contents(db, k)))]
      /\ answer[r] = AnswerOf(rd[r])
      /\ UNCHANGED <<log, phase, updates>>
  BY <1>1, AnswerBecomes
<1>3. log[k] = Contents(db, k)
  BY DEF log
<1> QED  BY <1>1, <1>2, <1>3, AnswersOf DEF Promise!GetSubRoot

\* Visiting a chunk, and returning what was collected, leave the answer as the log
\* was when the iterator was opened.
LEMMA ScanRefines ==
  ASSUME RInv, NEW r \in Readers, VisitForward(r) \/ VisitBackward(r) \/ FinishLookup(r)
  PROVE  UNCHANGED Promise!vars
<1>1. GInv /\ rd[r].pc = "scan" /\ ScanFollows(rd[r])
  BY RInvParts DEF VisitForward, VisitBackward, FinishLookup, Follow, ReaderFollows
<1>2. ASSUME NEW q, Becomes(r, q), AnswerOf(q) = AnswerOf(rd[r])
      PROVE  UNCHANGED Promise!vars
  <2>1. /\ answer' = [answer EXCEPT ![r] = AnswerOf(q)] /\ answer[r] = AnswerOf(rd[r])
        /\ UNCHANGED <<log, phase, updates>>
    BY <1>1, <1>2, AnswerBecomes
  <2>2. answer' = answer
    BY <1>2, <2>1, AnswerIs
  <2> QED  BY <2>1, <2>2 DEF Promise!vars
<1>3. CASE VisitForward(r) \/ VisitBackward(r)
  <2>1. PICK q : /\ Becomes(r, q) /\ q.pc = "scan" /\ q.snap = rd[r].snap
                 /\ q.key = rd[r].key /\ q.start = rd[r].start
    BY <1>1, <1>3, ForwardFollows, BackwardFollows
  <2>2. AnswerOf(q) = AnswerOf(rd[r])
    BY <1>1, <2>1, AnswersOf
  <2> QED  BY <1>2, <2>1, <2>2
<1>4. CASE FinishLookup(r)
  <2> DEFINE val == From(Contents(rd[r].snap, rd[r].key), rd[r].start)
  <2>1. Becomes(r, Answer(TRUE, val))
    BY <1>1, <1>4, FinishAnswers
  <2>2. AnswerOf(Answer(TRUE, val)) = AnswerOf(rd[r])
    BY <1>1, AnswersOf
  <2> QED  BY <1>2, <2>1, <2>2
<1> QED  BY <1>3, <1>4

LEMMA ReadReturnRefines ==
  ASSUME GInv, NEW r \in Readers, ReadReturn(r)
  PROVE  Promise!ReadReturn(r)
<1>1. rd[r].pc = "done" /\ Becomes(r, NoRead)
  BY DEF ReadReturn, Becomes
<1>2. AnswerOf(rd[r]) # <<>>
  <2>1. AnswerOf(rd[r]) = [ok |-> rd[r].ok, val |-> rd[r].val]
    BY <1>1 DEF AnswerOf
  <2> QED  BY <2>1
<1>3. /\ answer' = [answer EXCEPT ![r] = AnswerOf(NoRead)] /\ answer[r] = AnswerOf(rd[r])
      /\ UNCHANGED <<log, phase, updates>>
  BY <1>1, AnswerBecomes
<1> QED  BY <1>2, <1>3, AnswersOf DEF Promise!ReadReturn

\* Every step is a step of IndexStore or leaves its state alone.
LEMMA StepRefines ==
  ASSUME RInv, [Next]_vars
  PROVE  [Promise!Next]_(Promise!vars)
<1>1. GInv
  BY RInvParts
<1>2. ASSUME NEW u \in Updates, WriteBatch(u) PROVE Promise!WriteBatch(u)
  BY <1>2, LogUnchanged, AnswerUnchanged, PhaseOf, PhaseOfNext
     DEF WriteBatch, Promise!WriteBatch
<1>3. CASE UNCHANGED <<db, updates, rd>> /\ \/ UNCHANGED wpc
                                            \/ {wpc, wpc'} \subseteq {"keys", "indices"}
  <2>1. UNCHANGED phase
    BY <1>3 DEF phase
  <2> QED  BY <1>3, <2>1, LogUnchanged, AnswerUnchanged DEF Promise!vars
<1>4. CASE (\E k \in todo : RejectKey(k)) \/ StorageError
  <2>1. Promise!Reject
    BY <1>4, LogUnchanged, AnswerUnchanged, PhaseOf, PhaseOfNext
       DEF RejectKey, StorageError, Promise!Reject
  <2> QED  BY <2>1 DEF Promise!Next
<1>5. CASE Commit
  BY <1>1, <1>5, CommitRefines DEF Promise!Next
<1>6. CASE WriteReturn
  <2>1. Promise!WriteReturn
    BY <1>6, LogUnchanged, AnswerUnchanged, PhaseOf, PhaseOfNext
       DEF WriteReturn, Promise!WriteReturn
  <2> QED  BY <2>1 DEF Promise!Next
<1>7. CASE \E r \in Readers, k \in Keys :
             GetSubRoot(r, k) \/ \E start \in Index : Lookup(r, k, start)
  BY <1>1, <1>7, GetSubRootRefines, LookupRefines DEF Promise!Next
<1>8. CASE \E r \in Readers : ReaderStep(r)
  BY <1>1, <1>8, ScanRefines, ReadReturnRefines DEF ReaderStep, Promise!Next
<1>9. CASE Crash
  <2>1. answer' = [r \in Readers |-> <<>>]
    BY <1>9, AnswerIs, AnswersOf DEF Crash
  <2>2. Promise!Crash
    BY <1>9, <2>1, LogUnchanged, PhaseOfNext DEF Crash, Promise!Crash
  <2> QED  BY <2>2 DEF Promise!Next
<1>10. (\E k \in todo : SkipKey(k) \/ LoadKey(k)) \/ AppendInChunk \/ CrossBoundary
       \/ FlushKey \/ UNCHANGED vars
         => UNCHANGED <<db, updates, rd>> /\ \/ UNCHANGED wpc
                                             \/ {wpc, wpc'} \subseteq {"keys", "indices"}
  BY DEF vars, writer, SkipKey, LoadKey, AppendInChunk, CrossBoundary, FlushKey
<1> QED
  BY <1>2, <1>3, <1>4, <1>5, <1>6, <1>7, <1>8, <1>9, <1>10
     DEF Next, WriterStep, WriterProgress, Promise!Next

\* If no list accepted repeats an index, every engine implements IndexStore for
\* every chunk size: a batch is applied in the one step of its commit or not at
\* all, and every Lookup and GetSubRoot, however its walk over the chunks
\* interleaves with commits, answers for the moment its iterator was opened.
THEOREM ChunksRefine == ASSUME NoRepeats PROVE Spec => RefinesIndexStore
<1> QED
  BY InitRefines, StepRefines, ReaderInvariant, PTL DEF Spec, RefinesIndexStore, Promise!Spec
=============================================================================
