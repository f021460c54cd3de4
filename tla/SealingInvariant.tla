-------------------------- MODULE SealingInvariant --------------------------
(***************************************************************************)
(* The inductive invariants behind the properties of SealingStore: the     *)
(* chunks of a key are a function of the list of its indices.  SealInv,    *)
(* about the writer, is behind SealedOnce and SealsAgree; ReadInv, about   *)
(* the readers, behind ReadsNeverFail and the refinement of IndexStore.    *)
(* They are proved in SealingStoreProofs, and TLC checks them on a small   *)
(* instance.                                                               *)
(***************************************************************************)
EXTENDS SealingStore

Ordered(list) == \A i, j \in 1 .. Len(list) : i < j => list[i] <= list[j]
Rises(list)   == \A i, j \in 1 .. Len(list) : i < j => list[i] < list[j]

\* The indices of list L from the (m+1)st to the n-th, as chunk c of key k: with the
\* chunk before linked, and all older indices in its range.
ChunkOf(e, k, c, L, m, n) ==
  [key |-> k, chunkNum |-> c,
   prev |-> IF e = "sealing_chunk" /\ m > 0 THEN Layout!ChunkNum(L[m]) ELSE 0,
   range |-> SubSeq(L, 1, m),
   rel |-> [j \in 1 .. n - m |-> Layout!RelIdx(L[m + j])],
   cum |-> n]

\* Those are all the indices of L that belong to chunk c, and there are some.
Segment(L, c, m, n) ==
  /\ m \in 0 .. Len(L) /\ n \in 0 .. Len(L) /\ m < n
  /\ \A i \in 1 .. Len(L) : Layout!ChunkNum(L[i]) = c <=> m < i /\ i <= n

\* Value v is chunk c of list L: the latest one if L ends in it, else a sealed one.
IsChunk(e, k, c, L, v) ==
  \E m, n \in 0 .. Len(L) :
    /\ Segment(L, c, m, n)
    /\ v = IF n = Len(L) THEN LatestValue(e, ChunkOf(e, k, c, L, m, n))
                         ELSE OlderValue(e, ChunkOf(e, k, c, L, m, n))

\* The chunks of key k in s are those of list L.
Holds(e, s, k, L) ==
  /\ L \in Seq(Index) /\ Ordered(L)
  /\ \A i \in 1 .. Len(L) : Layout!ChunkNum(L[i]) \in ChunksOf(s, k)
  /\ \A c \in ChunksOf(s, k) : IsChunk(e, k, c, L, Chunk(s, k, c))

Working == wpc \in {"keys", "indices"}

\* What the database would be if the batch were committed now.
View == Layout!Overlay(batch, db)

\* The writer between two keys: those it has done hold their lists, those it has
\* not reached are not in its batch.
KeysFollow ==
  IF ~Working THEN todo = {} /\ batch = NoWrites ELSE
    /\ updates \in Updates /\ New(updates) /\ snap = db
    /\ \A a \in DOMAIN batch : a[1] \in DOMAIN updates \ todo
    /\ \A k \in DOMAIN updates \ todo :
         ~(wpc = "indices" /\ k = cur.key) =>
           Holds(engine, View, k, Contents(db, k) \o updates[k])

\* The log of the key in hand, when its list is written.
Target == Contents(db, cur.key) \o updates[cur.key]

\* The chunk in hand is the last of the indices consumed so far, what is pending
\* follows, and all older chunks are sealed.  If it is empty, it is the key's
\* first, about to be filled.
KeyInHand ==
  LET k == cur.key
      c == cur.chunkNum
      m == Len(cur.range)
      n == cur.cum
  IN  /\ k \in DOMAIN updates \ todo
      /\ Ordered(Target)
      /\ m <= n /\ Len(Contents(db, k)) <= n /\ n <= Len(Target)
      /\ cur = ChunkOf(engine, k, c, Target, m, n)
      /\ pending = From(Target, n)
      /\ m = n => n = 0 /\ pending # <<>> /\ c = Layout!ChunkNum(Head(pending))
      /\ \A i \in 1 .. n : Layout!ChunkNum(Target[i]) = c <=> m < i
      /\ \A i \in 1 .. m : Layout!ChunkNum(Target[i]) \in ChunksOf(View, k)
      /\ \A d \in ChunksOf(View, k) \ {c} :
           \E x, y \in 0 .. m :
             /\ Segment(Target, d, x, y)
             /\ Chunk(View, k, d) = OlderValue(engine, ChunkOf(engine, k, d, Target, x, y))

\* SealInv: the committed chunks are those of the keys' logs, the batch completes
\* the chunks of the keys that WriteBatch has done, and the chunk in hand those of
\* the key it is at.
SealInv ==
  /\ SealingTypeOK
  /\ DOMAIN rd = Readers
  /\ \A k \in Keys : Holds(engine, db, k, Contents(db, k))
  /\ KeysFollow
  /\ wpc = "indices" => KeyInHand

-----------------------------------------------------------------------------
(* What a Lookup has found so far.                                           *)

\* No list that passes the validation repeats an index, and so no log does.
NoRepeats == \A u \in Updates : \A k \in DOMAIN u : Sorted(u[k]) => Rises(u[k])

\* The engine that scans needs it, to compute the chunk to start from.
StartIsSafe == Linked \/ NoRepeats

OnceOnly == \A k \in Keys : Rises(Contents(db, k))

IsWalk(q) ==
  q = [pc |-> "walk", key |-> q.key, start |-> q.start,
       latestKey |-> q.latestKey, latestVal |-> q.latestVal,
       prev |-> q.prev, cum |-> q.cum, relLen |-> q.relLen,
       reconstructed |-> q.reconstructed]

\* A walk has collected the end of the log that its latest chunk tells, from some
\* chunk on, and is linked to the chunk before; the log has only grown since.
WalkFollows(q) ==
  LET all == Folded(Layout!ChunkAt(q.latestKey), q.latestVal)
      now == Contents(db, q.key)
      m   == q.cum - q.relLen
  IN  /\ IsWalk(q) /\ q.key \in Keys /\ q.start \in Index /\ all \in Seq(Index)
      /\ q.cum \in Nat /\ q.relLen \in Nat \ {0} /\ q.relLen <= q.cum /\ m < Len(all)
      /\ Len(all) <= Len(now) /\ all = SubSeq(now, 1, Len(all))
      /\ q.reconstructed = From(all, m)
      /\ m > 0 => /\ q.prev = Layout!ChunkNum(all[m])
                  /\ q.prev # Layout!ChunkNum(all[m + 1])

IsScan(q) ==
  q = [pc |-> "scan", key |-> q.key, start |-> q.start, snap |-> q.snap,
       pos |-> q.pos, cum |-> q.cum, foundLatest |-> q.foundLatest,
       reconstructed |-> q.reconstructed]

\* A scan that started at the chunk of the (lo+1)st index of its log, which is not too
\* late, and has collected the chunks up to the hi-th.
ScanAt(q, L, lo, hi) ==
  /\ lo <= hi /\ lo <= q.start
  /\ q.reconstructed = SubSeq(L, lo + 1, hi)
  /\ q.foundLatest <=> lo < hi /\ hi = Len(L)
  /\ q.foundLatest => q.cum = Len(L)
  /\ IF hi = Len(L) THEN q.pos = Layout!Invalid
     ELSE /\ q.pos = Layout!DBKey(q.key, Layout!ChunkNum(L[hi + 1]))
          /\ hi > 0 => Layout!ChunkNum(L[hi]) < Layout!ChunkNum(L[hi + 1])

ScanFollows(q) ==
  LET all == Contents(q.snap, q.key)
  IN  /\ IsScan(q) /\ q.key \in Keys /\ q.start \in Index
      /\ Stored(engine, q.snap) /\ Holds(engine, q.snap, q.key, all)
      /\ \E lo, hi \in 0 .. Len(all) : ScanAt(q, all, lo, hi)

ReaderFollows(q) ==
  \/ q = NoRead
  \/ q \in [pc : {"done"}, ok : {TRUE}, val : Seq(Index)]
  \/ IF Linked THEN WalkFollows(q) ELSE ScanFollows(q)

\* ReadInv: whatever a Lookup has read so far, of its snapshot or of the live
\* database, is the part of the log it answers for that it should have read.
ReadInv ==
  /\ SealInv
  /\ Linked \/ OnceOnly
  /\ \A r \in Readers : ReaderFollows(rd[r])
=============================================================================
