-------------------------- MODULE NoSealInvariant --------------------------
(***************************************************************************)
(* The inductive invariants behind the properties of NoSealStore: CInv     *)
(* behind TypeOK and FrontierChain, GInv behind SealedImmutable, RInv      *)
(* behind LookupNeverFails and the refinement of IndexStore.  They are     *)
(* proved in NoSealStoreProofs, and TLC checks them on small instances.    *)
(***************************************************************************)
EXTENDS NoSealStore

\* The offsets of chunk c are those of indices that belong to it.
Offsets(c, rel) ==
  /\ \A j \in 1 .. Len(rel) : rel[j] < ChunkSize
  /\ AbsSeq(c, rel) \in Seq(Index)

StateOK(s) ==
  /\ Snapshot(s)
  /\ Extremal(DOMAIN s)
  /\ \A a \in DOMAIN s : Offsets(ChunkAt(a), s[a].rel)

WriterTypes ==
  /\ StateOK(db) /\ StateOK(snap) /\ StateOK(batch)
  /\ wpc \in {"idle", "keys", "indices", "ack", "failed"}
  /\ updates \in Updates \cup {<<>>}
  /\ todo \subseteq DOMAIN updates
  /\ wpc \notin {"keys", "indices"} => todo = {}
  /\ pending \in Seq(Index)
  /\ cur \in CurType
  /\ Offsets(cur.chunkNum, cur.rel)
  /\ wpc = "indices" => cur.key \in Keys

ReaderTypes ==
  /\ DOMAIN rd = Readers
  /\ \A r \in Readers : rd[r] \in ReadType \/ (ScanOK(rd[r]) /\ StateOK(rd[r].snap))

TInv == WriterTypes /\ ReaderTypes

Working == wpc \in {"keys", "indices"}

\* What the database would be if the batch were committed now.
View == Overlay(batch, db)

\* The chunk in hand is the key's first, or its latest with indices appended, or
\* a new one on top of the latest, whose indices its range has folded in.
InHand ==
  LET k == cur.key
      c == cur.chunkNum
  IN  \/ /\ ChunksOf(View, k) = {}
         /\ cur.range = <<>>
         /\ cur.modified
      \/ /\ IsLatest(View, k, c)
         /\ cur.range = Chunk(View, k, c).range
         /\ ~cur.modified => cur.rel = Chunk(View, k, c).rel
      \/ /\ cur.modified
         /\ \E d \in ChunksOf(View, k) : /\ IsLatest(View, k, d) /\ d < c
                                         /\ cur.range = Folded(d, Chunk(View, k, d))

\* The indices to come are in order, the next one belonging to the chunk in hand
\* or to a later one.
Coming ==
  /\ Sorted(pending)
  /\ pending # <<>> => cur.chunkNum <= ChunkNum(Head(pending))
  /\ cur.rel = <<>> => pending # <<>> /\ ChunkNum(Head(pending)) = cur.chunkNum

CInv ==
  /\ TInv
  /\ \A k \in Keys : Chain(db, k) /\ Chain(View, k)
  /\ ~Working => batch = NoWrites
  /\ Working => snap = db /\ New(updates)
  /\ \A a \in DOMAIN batch : a[1] \notin todo
  /\ wpc = "indices" => InHand /\ Coming /\ cur.key \notin todo

-----------------------------------------------------------------------------
(* What becomes of the chunks and of the logs.                               *)

\* Chunk v is chunk w after indices were appended to it, if any.
Extends(v, w) ==
  /\ v.range = w.range
  /\ Len(w.rel) <= Len(v.rel)
  /\ SubSeq(v.rel, 1, Len(w.rel)) = w.rel

\* From s to t key k loses no chunk, and of those it has the latest alone grows.
Kept(s, t, k) ==
  \A c \in ChunksOf(s, k) :
    /\ c \in ChunksOf(t, k)
    /\ IF IsLatest(s, k, c) THEN Extends(Chunk(t, k, c), Chunk(s, k, c))
                            ELSE Chunk(t, k, c) = Chunk(s, k, c)

\* The chunk in hand and the indices to come are the log of the key and the list
\* given for it, and no committed chunk of the key is newer.
KeyInHand ==
  LET k == cur.key
  IN  /\ k \in DOMAIN updates /\ Sorted(updates[k])
      /\ Folded(cur.chunkNum, cur) \o pending = Contents(db, k) \o updates[k]
      /\ \A c \in ChunksOf(db, k) :
           c <= cur.chunkNum /\ (c = cur.chunkNum => Extends(cur, Chunk(db, k, c)))

\* The keys whose lists are in the batch.
Done == {k \in DOMAIN updates \ todo : wpc = "indices" => k # cur.key}

GInv ==
  /\ CInv
  /\ \A k \in Keys : Kept(db, View, k)
  /\ Working =>
       /\ \A a \in DOMAIN batch : a[1] \in DOMAIN updates
       /\ \A k \in Done : /\ Sorted(updates[k])
                          /\ Contents(View, k) = Contents(db, k) \o updates[k]
  /\ wpc = "indices" => KeyInHand

-----------------------------------------------------------------------------
(* What a Lookup has found so far.                                           *)

Rises(list) == \A i, j \in 1 .. Len(list) : i < j => list[i] < list[j]

\* No list that passes the validation repeats an index.  The engines that compute
\* the chunk to start from need it, ChunkStore does not.
NoRepeats ==
  Engine # "chunk" =>
    \A u \in Updates : \A k \in DOMAIN u : Sorted(u[k]) => Rises(u[k])

\* Then every chunk holds each index once.
OnceOnly(s) ==
  \A k \in Keys : \A c \in ChunksOf(s, k) : Rises(Folded(c, Chunk(s, k, c)))

From(list, start) == SubSeq(list, start + 1, Len(list))

\* The chunks visited hold the list given but for the matches skipped, which do
\* not reach beyond start; if none was visited the whole list does not.
Reached(q, list) ==
  IF q.skippedOffsetSet
  THEN /\ q.skippedOffset <= q.start /\ q.skippedOffset <= Len(list)
       /\ q.reconstructed = From(list, q.skippedOffset)
  ELSE q.reconstructed = <<>> /\ Len(list) <= q.start

\* A walk is a walk over the chunks of its key in a chained snapshot.  Backwards,
\* the chunk to visit next completes what was collected; forwards, what was
\* collected is the range of that chunk.
ScanFollows(q) ==
  LET all == Contents(q.snap, q.key)
      c   == ChunkAt(q.pos)
      v   == q.snap[q.pos]
  IN  /\ Chain(q.snap, q.key)
      /\ q.pos = Invalid => Reached(q, all)
      /\ q.pos # Invalid =>
           /\ q.pos[1] = q.key
           /\ IF Engine = "chunk" THEN Folded(c, v) \o q.reconstructed = all
              ELSE Reached(q, v.range)

ReaderFollows(q) ==
  /\ q.pc = "done" => q.ok
  /\ q.pc = "scan" => ScanFollows(q)

RInv ==
  /\ GInv
  /\ Engine # "chunk" => OnceOnly(db) /\ OnceOnly(View)
  /\ \A r \in Readers : ReaderFollows(rd[r])
=============================================================================
