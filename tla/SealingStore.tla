---------------------------- MODULE SealingStore ----------------------------
(***************************************************************************)
(* The two sealing chunk stores behind the IndexStore interface.  Only the *)
(* latest chunk of a key carries a Merkle range; when an index opens a new *)
(* chunk, the one before it is written again under the same key, as Older  *)
(* and without the range.  A search for a range therefore has to land on   *)
(* the latest chunk, and a read that needs earlier ones                    *)
(*   follows the links stored in the chunks (SealingChunkStore), with      *)
(*     Get on the live database, or                                        *)
(*   scans them forward in its snapshot (SealingChunkScanStore).           *)
(* Concurrency, crashes and the representation of a range are those of     *)
(* NoSealStore.                                                            *)
(***************************************************************************)
EXTENDS Naturals, Sequences, FiniteSets

CONSTANTS
  ChunkSize, RelSpan, MaxUint,  \* as in ChunkLayout
  Keys, Readers, Updates        \* as in NoSealStore

\* Keys and offsets are laid out and sought as in ChunkScanStore.
Layout == INSTANCE ChunkLayout WITH Engine <- "chunk_scan"

Index == Layout!Index
Engines == {"sealing_chunk", "sealing_chunk_scan"}

\* As in ChunkLayout and NoSealStore; the constructors check the chunk size.
ASSUME SealingAssumption ==
  /\ ChunkSize \in Nat /\ ChunkSize > 0
  /\ RelSpan \in Nat /\ ChunkSize <= RelSpan
  /\ MaxUint \in Nat /\ Keys \subseteq Nat
  /\ \A u \in Updates : /\ DOMAIN u \subseteq Keys
                        /\ \A k \in DOMAIN u : u[k] \in Seq(Index)

VARIABLES
  engine,    \* which of the two stores the directory belongs to
  db,        \* what is committed
  wpc,       \* where WriteBatch stands: idle, keys, indices, ack or failed
  updates,   \* its argument
  todo,      \* the keys its key loop has yet to reach
  snap,      \* the snapshot its iterator reads
  pending,   \* the indices of the key in hand not consumed yet
  cur,       \* that key and its currChunkNum, currPrevChunkNum, currRange,
             \* currRelativeIndices and currCumulativeCount
  batch,     \* the writes collected so far
  rd         \* for each reader the call it is in, or its answer

writer == <<wpc, updates, todo, snap, pending, cur, batch>>
vars   == <<engine, db, writer, rd>>

Linked == engine = "sealing_chunk"

-----------------------------------------------------------------------------
(* Chunk values: the links, and the counts of older chunks, are only in the  *)
(* format of SealingChunkStore.                                              *)

\* Mutant: the sealed value is the latest one with another flag.
OlderWithRange(e, x) ==
  IF e = "sealing_chunk"
  THEN [flag |-> "older", prev |-> x.prev, cum |-> x.cum, range |-> x.range, rel |-> x.rel]
  ELSE [flag |-> "older", cum |-> x.cum, range |-> x.range, rel |-> x.rel]

OlderValue(e, x) ==
  IF e = "sealing_chunk"
  THEN [flag |-> "older", prev |-> x.prev, cum |-> x.cum, rel |-> x.rel]
  ELSE [flag |-> "older", rel |-> x.rel]

LatestValue(e, x) ==
  IF e = "sealing_chunk"
  THEN [flag |-> "latest", prev |-> x.prev, cum |-> x.cum, range |-> x.range, rel |-> x.rel]
  ELSE [flag |-> "latest", cum |-> x.cum, range |-> x.range, rel |-> x.rel]

IsLatestValue(v) == v.flag = "latest"

NoWrites == [a \in {} |-> 0]
NoCur == [key |-> 0, chunkNum |-> 0, prev |-> 0, range |-> <<>>, rel |-> <<>>, cum |-> 0]

Set(a, v, writes) == Layout!Overlay([b \in {a} |-> v], writes)

\* The leaf hashes of chunk c's indices appended to its range.
Folded(c, v) == v.range \o Layout!AbsSeq(c, v.rel)

IndicesOf(list) == {list[i] : i \in 1 .. Len(list)}
Sorted(list) == \A i \in 2 .. Len(list) : ~(list[i] < list[i-1])

\* The log of a key, as its latest chunk tells it.
Contents(s, k) ==
  LET a == Layout!ReverseSeekLatest(s, k)
  IN  IF a = Layout!Invalid THEN <<>> ELSE Folded(Layout!ChunkAt(a), s[a])

-----------------------------------------------------------------------------
(* WriteBatch.                                                               *)

\* The callers' side of the contract, as in NoSealStore.
New(u) == \A k \in DOMAIN u : \A i \in IndicesOf(u[k]) :
            \A j \in IndicesOf(Contents(db, k)) : j < i

WriteBatch(u) ==
  /\ wpc = "idle"
  /\ New(u)
  /\ updates' = u
  /\ IF DOMAIN u = {}
     THEN wpc' = "ack" /\ UNCHANGED <<todo, snap>>
     ELSE wpc' = "keys" /\ todo' = DOMAIN u /\ snap' = db
  /\ UNCHANGED <<engine, db, pending, cur, batch, rd>>

NextKeyToDo(k) == wpc = "keys" /\ k \in todo /\ \A other \in todo : k <= other

SkipKey(k) ==
  /\ NextKeyToDo(k)
  /\ updates[k] = <<>>
  /\ todo' = todo \ {k}
  /\ UNCHANGED <<engine, db, wpc, updates, snap, pending, cur, batch, rd>>

Release ==
  /\ todo' = {} /\ snap' = NoWrites
  /\ pending' = <<>> /\ cur' = NoCur /\ batch' = NoWrites

\* A list out of order fails the call.
RejectKey(k) ==
  /\ NextKeyToDo(k)
  /\ ~Sorted(updates[k])
  /\ wpc' = "failed"
  /\ Release
  /\ UNCHANGED <<engine, db, updates, rd>>

\* Mutant: the offsets of the latest chunk are not taken over.
InitialCurEmpty(k, list) ==
  LET a == Layout!ReverseSeekLatest(snap, k)
  IN  IF a = Layout!Invalid
      THEN [NoCur EXCEPT !.key = k, !.chunkNum = Layout!ChunkNum(Head(list))]
      ELSE [key |-> k, chunkNum |-> Layout!ChunkAt(a),
            prev |-> IF Linked THEN snap[a].prev ELSE 0,
            range |-> snap[a].range, rel |-> <<>>, cum |-> snap[a].cum]

InitialCur(k, list) ==
  LET a == Layout!ReverseSeekLatest(snap, k)
  IN  IF a = Layout!Invalid
      THEN [NoCur EXCEPT !.key = k, !.chunkNum = Layout!ChunkNum(Head(list))]
      ELSE [key |-> k, chunkNum |-> Layout!ChunkAt(a),
            prev |-> IF Linked THEN snap[a].prev ELSE 0,
            range |-> snap[a].range, rel |-> snap[a].rel, cum |-> snap[a].cum]

\* A latest chunk that does not decode as Latest fails the call too.
LoadKey(k) ==
  LET a == Layout!ReverseSeekLatest(snap, k)
  IN  /\ NextKeyToDo(k)
      /\ updates[k] # <<>> /\ Sorted(updates[k])
      /\ IF a # Layout!Invalid /\ ~IsLatestValue(snap[a])
         THEN wpc' = "failed" /\ Release
         ELSE /\ wpc' = "indices"
              /\ todo' = todo \ {k}
              /\ pending' = updates[k]
              /\ cur' = InitialCur(k, updates[k])
              /\ UNCHANGED <<snap, batch>>
      /\ UNCHANGED <<engine, db, updates, rd>>

AppendInChunk ==
  /\ wpc = "indices" /\ pending # <<>>
  /\ Layout!ChunkNum(Head(pending)) = cur.chunkNum
  /\ cur' = [cur EXCEPT !.rel = Append(@, Layout!RelIdx(Head(pending))), !.cum = @ + 1]
  /\ pending' = Tail(pending)
  /\ UNCHANGED <<engine, db, wpc, updates, todo, snap, batch, rd>>

\* Mutant: a chunk that this call did not change is not sealed.
SealIfGrown ==
  /\ wpc = "indices" /\ pending # <<>>
  /\ Layout!ChunkNum(Head(pending)) # cur.chunkNum
  /\ batch' = IF pending = updates[cur.key] THEN batch
              ELSE Set(Layout!DBKey(cur.key, cur.chunkNum), OlderValue(engine, cur), batch)
  /\ cur' = [cur EXCEPT !.chunkNum = Layout!ChunkNum(Head(pending)),
                        !.prev = IF Linked THEN cur.chunkNum ELSE 0,
                        !.range = Folded(cur.chunkNum, cur),
                        !.rel = <<Layout!RelIdx(Head(pending))>>,
                        !.cum = @ + 1]
  /\ pending' = Tail(pending)
  /\ UNCHANGED <<engine, db, wpc, updates, todo, snap, rd>>

\* Mutant: the chunk number moves on before the link is taken from it.
SealAndLinkToItself ==
  /\ wpc = "indices" /\ pending # <<>>
  /\ Layout!ChunkNum(Head(pending)) # cur.chunkNum
  /\ batch' = Set(Layout!DBKey(cur.key, cur.chunkNum), OlderValue(engine, cur), batch)
  /\ cur' = [cur EXCEPT !.chunkNum = Layout!ChunkNum(Head(pending)),
                        !.prev = IF Linked THEN Layout!ChunkNum(Head(pending)) ELSE 0,
                        !.range = Folded(cur.chunkNum, cur),
                        !.rel = <<Layout!RelIdx(Head(pending))>>,
                        !.cum = @ + 1]
  /\ pending' = Tail(pending)
  /\ UNCHANGED <<engine, db, wpc, updates, todo, snap, rd>>

\* An index of another chunk seals the one in hand, changed by this call or not,
\* and opens a new one on top of it.
SealAndCross ==
  /\ wpc = "indices" /\ pending # <<>>
  /\ Layout!ChunkNum(Head(pending)) # cur.chunkNum
  /\ batch' = Set(Layout!DBKey(cur.key, cur.chunkNum), OlderValue(engine, cur), batch)
  /\ cur' = [cur EXCEPT !.chunkNum = Layout!ChunkNum(Head(pending)),
                        !.prev = IF Linked THEN cur.chunkNum ELSE 0,
                        !.range = Folded(cur.chunkNum, cur),
                        !.rel = <<Layout!RelIdx(Head(pending))>>,
                        !.cum = @ + 1]
  /\ pending' = Tail(pending)
  /\ UNCHANGED <<engine, db, wpc, updates, todo, snap, rd>>

\* The final chunk is written as Latest.
FlushKey ==
  /\ wpc = "indices" /\ pending = <<>>
  /\ batch' = Set(Layout!DBKey(cur.key, cur.chunkNum), LatestValue(engine, cur), batch)
  /\ cur' = NoCur
  /\ wpc' = "keys"
  /\ UNCHANGED <<engine, db, updates, todo, snap, pending, rd>>

Commit ==
  /\ wpc = "keys" /\ todo = {}
  /\ db' = Layout!Overlay(batch, db)
  /\ wpc' = "ack"
  /\ Release
  /\ UNCHANGED <<engine, updates, rd>>

StorageError ==
  /\ wpc \in {"keys", "indices"}
  /\ wpc' = "failed"
  /\ Release
  /\ UNCHANGED <<engine, db, updates, rd>>

WriteReturn ==
  /\ wpc \in {"ack", "failed"}
  /\ wpc' = "idle" /\ updates' = <<>>
  /\ UNCHANGED <<engine, db, todo, snap, pending, cur, batch, rd>>

WriterProgress ==
  \/ \E k \in todo : SkipKey(k) \/ RejectKey(k) \/ LoadKey(k)
  \/ AppendInChunk \/ SealAndCross \/ FlushKey
  \/ Commit \/ WriteReturn

WriterStep == WriterProgress \/ StorageError

-----------------------------------------------------------------------------
(* Lookup and GetSubRoot.                                                    *)

NoRead == [pc |-> "idle"]
Answer(ok, val) == [pc |-> "done", ok |-> ok, val |-> val]

From(list, start) == SubSeq(list, start + 1, Len(list))

Becomes(r, q) == rd' = [rd EXCEPT ![r] = q] /\ UNCHANGED <<engine, db, writer>>

\* SealingChunkStore: the latest chunk is found in the iterator's snapshot.
\* prev, cum and relLen are those of the chunk read last.
LookupLinked(r, k, start) ==
  LET a == Layout!ReverseSeekLatest(db, k)
  IN  /\ Linked
      /\ rd[r] = NoRead
      /\ Becomes(r,
           IF a = Layout!Invalid THEN Answer(TRUE, <<>>)
           ELSE IF ~IsLatestValue(db[a]) THEN Answer(FALSE, <<>>)
           ELSE [pc |-> "walk", key |-> k, start |-> start,
                 latestKey |-> a, latestVal |-> db[a],
                 prev |-> db[a].prev, cum |-> db[a].cum, relLen |-> Len(db[a].rel),
                 reconstructed |-> Layout!AbsSeq(Layout!ChunkAt(a), db[a].rel)])

\* Mutant: the walk ends although the start-th match is the last of an earlier
\* chunk.
StartsEarlierByTwo(q) == q.cum < q.relLen \/ q.cum - q.relLen > q.start + 1

\* The loop's condition; the subtraction wraps around if the count is too small.
StartsEarlier(q) == q.cum < q.relLen \/ q.cum - q.relLen > q.start

\* Mutant: the older chunk's indices are put behind the newer ones.
GetPrevChunkLast(r) ==
  LET q == rd[r]
      a == Layout!DBKey(q.key, q.prev)
  IN  /\ q.pc = "walk" /\ StartsEarlier(q)
      /\ a \in DOMAIN db /\ ~IsLatestValue(db[a])
      /\ Becomes(r,
           [q EXCEPT !.prev = db[a].prev, !.cum = db[a].cum,
                     !.relLen = Len(db[a].rel),
                     !.reconstructed = @ \o Layout!AbsSeq(q.prev, db[a].rel)])

\* Mutant: the chunk is read again until no batch has come in since the walk began.
GetPrevChunkUndisturbed(r) ==
  LET q == rd[r]
      a == Layout!DBKey(q.key, q.prev)
  IN  /\ q.pc = "walk" /\ StartsEarlier(q)
      /\ Layout!ReverseSeekLatest(db, q.key) = q.latestKey /\ db[q.latestKey] = q.latestVal
      /\ Becomes(r,
           IF a \notin DOMAIN db \/ IsLatestValue(db[a]) THEN Answer(FALSE, <<>>)
           ELSE [q EXCEPT !.prev = db[a].prev, !.cum = db[a].cum,
                          !.relLen = Len(db[a].rel),
                          !.reconstructed = Layout!AbsSeq(q.prev, db[a].rel) \o @])

\* One round of the loop: Get of the chunk linked to, on the live database.
GetPrevChunk(r) ==
  LET q == rd[r]
      a == Layout!DBKey(q.key, q.prev)
  IN  /\ q.pc = "walk" /\ StartsEarlier(q)
      /\ Becomes(r,
           IF a \notin DOMAIN db \/ IsLatestValue(db[a]) THEN Answer(FALSE, <<>>)
           ELSE [q EXCEPT !.prev = db[a].prev, !.cum = db[a].cum,
                          !.relLen = Len(db[a].rel),
                          !.reconstructed = Layout!AbsSeq(q.prev, db[a].rel) \o @])

\* After the loop, with the two checks of the oldest chunk's count.
FinishWalk(r) ==
  LET q == rd[r]
  IN  /\ q.pc = "walk" /\ ~StartsEarlier(q)
      /\ Becomes(r,
           IF q.cum < q.relLen \/ q.start < q.cum - q.relLen THEN Answer(FALSE, <<>>)
           ELSE Answer(TRUE, From(q.reconstructed, q.start - (q.cum - q.relLen))))

\* SealingChunkScanStore: the bounded iterator is positioned.
LookupScan(r, k, start) ==
  /\ ~Linked
  /\ rd[r] = NoRead
  /\ Becomes(r, [pc |-> "scan", key |-> k, start |-> start, snap |-> db,
                 pos |-> Layout!SeekStart(db, k, Layout!ChunkNum(start)),
                 cum |-> 0, foundLatest |-> FALSE, reconstructed |-> <<>>])

\* One round of the loop: the count comes from the chunk flagged Latest.
VisitChunk(r) ==
  LET q == rd[r]
      v == q.snap[q.pos]
  IN  /\ q.pc = "scan" /\ q.pos # Layout!Invalid
      /\ Becomes(r,
           [q EXCEPT !.cum = IF IsLatestValue(v) THEN v.cum ELSE @,
                     !.foundLatest = @ \/ IsLatestValue(v),
                     !.reconstructed = @ \o Layout!AbsSeq(Layout!ChunkAt(q.pos), v.rel),
                     !.pos = Layout!Advance(q.snap, q.key, q.pos)])

\* What was not read is what was skipped.
FinishScan(r) ==
  LET q == rd[r]
      n == Len(q.reconstructed)
  IN  /\ q.pc = "scan" /\ q.pos = Layout!Invalid
      /\ Becomes(r,
           IF n = 0 THEN Answer(TRUE, <<>>)
           ELSE IF ~q.foundLatest \/ q.cum < n \/ q.start < q.cum - n
                THEN Answer(FALSE, <<>>)
           ELSE Answer(TRUE, From(q.reconstructed, q.start - (q.cum - n))))

GetSubRoot(r, k) ==
  LET a == Layout!ReverseSeekLatest(db, k)
  IN  /\ rd[r] = NoRead
      /\ Becomes(r,
           IF a = Layout!Invalid THEN Answer(TRUE, <<>>)
           ELSE IF ~IsLatestValue(db[a]) THEN Answer(FALSE, <<>>)
           ELSE Answer(TRUE, Folded(Layout!ChunkAt(a), db[a])))

ReadReturn(r) == rd[r].pc = "done" /\ Becomes(r, NoRead)

ReaderStep(r) ==
  GetPrevChunk(r) \/ FinishWalk(r) \/ VisitChunk(r) \/ FinishScan(r) \/ ReadReturn(r)

-----------------------------------------------------------------------------
Crash ==
  /\ wpc' = "idle" /\ updates' = <<>>
  /\ Release
  /\ rd' = [r \in Readers |-> NoRead]
  /\ UNCHANGED <<engine, db>>

Init ==
  /\ engine \in Engines
  /\ db = NoWrites
  /\ wpc = "idle" /\ updates = <<>> /\ todo = {} /\ snap = NoWrites
  /\ pending = <<>> /\ cur = NoCur /\ batch = NoWrites
  /\ rd = [r \in Readers |-> NoRead]

Next ==
  \/ \E u \in Updates : WriteBatch(u)
  \/ WriterStep
  \/ \E r \in Readers, k \in Keys :
       \/ GetSubRoot(r, k)
       \/ \E start \in Index : LookupLinked(r, k, start) \/ LookupScan(r, k, start)
  \/ \E r \in Readers : ReaderStep(r)
  \/ Crash

Spec == Init /\ [][Next]_vars

\* Goroutines are scheduled and pebble's calls return.
Fairness == /\ WF_vars(WriterProgress)
            /\ \A r \in Readers : WF_vars(ReaderStep(r))
FairSpec == Spec /\ Fairness

-----------------------------------------------------------------------------
(* Properties.                                                               *)

ChunksOf(s, k) == {c \in Index : Layout!DBKey(k, c) \in DOMAIN s}
Chunk(s, k, c) == s[Layout!DBKey(k, c)]
Below(s, k, c) == {d \in ChunksOf(s, k) : d < c}

\* The indices held by chunks D of a key.
Held(s, k, D) == UNION {IndicesOf(Layout!AbsSeq(d, Chunk(s, k, d).rel)) : d \in D}

\* What the linked format adds: the chunk before, and the matches up to here.
LinkAgrees(s, k, c) ==
  LET v == Chunk(s, k, c)
      older == Below(s, k, c)
  IN  /\ v.cum = Cardinality(Held(s, k, older \cup {c}))
      /\ older # {} => v.prev \in older /\ \A d \in older : d <= v.prev

\* The latest chunk's range commits to the indices of all sealed chunks, in order,
\* and its count to those and its own.
LatestAgrees(s, k, c) ==
  LET v == Chunk(s, k, c)
  IN  /\ IndicesOf(v.range) = Held(s, k, Below(s, k, c))
      /\ \A i \in 2 .. Len(v.range) : v.range[i-1] < v.range[i]
      /\ v.cum = Len(v.range) + Len(v.rel)

\* SealsAgree: of the chunks of a key the last one, and no other, is flagged
\* Latest; its range and count agree with the sealed chunks, which have neither in
\* the scan format; links and counts of the linked format agree with the chunks
\* that exist.  The writer keeps all of it from the latest chunk alone.
SealsAgree ==
  \A k \in Keys : \A c \in ChunksOf(db, k) :
    LET last == \A d \in ChunksOf(db, k) : d <= c
    IN  /\ Chunk(db, k, c).rel # <<>>
        /\ IsLatestValue(Chunk(db, k, c)) <=> last
        /\ last => LatestAgrees(db, k, c)
        /\ Linked => LinkAgrees(db, k, c)

\* SealingTypeOK: chunk numbers, counts, offsets and absolute indices stay in the
\* ranges of their Go types, and each value has the fields of its format.
ValueOK(e, v) ==
  /\ v.flag \in {"latest", "older"}
  /\ DOMAIN v = {"flag", "rel"}
                  \cup (IF e = "sealing_chunk" THEN {"prev", "cum"} ELSE {})
                  \cup (IF IsLatestValue(v) THEN {"cum", "range"} ELSE {})
  /\ v.rel \in Seq(Layout!Rel)
  /\ "cum" \in DOMAIN v => v.cum \in Nat
  /\ "prev" \in DOMAIN v => v.prev \in Index
  /\ "range" \in DOMAIN v => v.range \in Seq(Index)

Stored(e, s) ==
  DOMAIN s \subseteq Keys \X Index /\ \A a \in DOMAIN s : ValueOK(e, s[a])

InCall(q) == "pc" \in DOMAIN q /\ q.pc \in {"idle", "walk", "scan", "done"}

SealingTypeOK ==
  /\ engine \in Engines
  /\ Stored(engine, db) /\ Stored(engine, snap) /\ Stored(engine, batch)
  /\ wpc \in {"idle", "keys", "indices", "ack", "failed"}
  /\ updates \in Updates \cup {<<>>} /\ todo \subseteq DOMAIN updates
  /\ pending \in Seq(Index)
  /\ cur.chunkNum \in Index /\ cur.prev \in Index /\ cur.cum \in Nat
  /\ cur.range \in Seq(Index) /\ cur.rel \in Seq(Layout!Rel)
  /\ \A r \in Readers : InCall(rd[r])

\* ReadsNeverFail: no Lookup and no GetSubRoot returns an error: every link leads
\* to a chunk that exists and is sealed in the live database although it was found
\* in an older snapshot, the chunk a search lands on is the latest, and the
\* checks after the loops ("database corruption", "latest chunk not found",
\* "invariant violated") never trigger.
ReadsNeverFail == \A r \in Readers : rd[r].pc = "done" => rd[r].ok

Begins(s, t) == Len(s) <= Len(t) /\ SubSeq(t, 1, Len(s)) = s

\* SealedOnce: a chunk that is Older is never written differently again, and the
\* latest one keeps its offsets, in order, when it grows or is sealed.  This is
\* what makes Get on the live database safe for a reader with an older snapshot.
SealedOnce ==
  [][\A a \in DOMAIN db :
       /\ a \in DOMAIN db'
       /\ ~IsLatestValue(db[a]) => db'[a] = db[a]
       /\ Begins(db[a].rel, db'[a].rel)]_vars

\* WalkDescends: every link that a Lookup follows takes it to a chunk with a smaller
\* count, which still ends behind start, and from there, if the walk is to go on, to a
\* smaller chunk number: although each chunk is read from a database that has changed
\* meanwhile, the walk cannot come back to a chunk and ends after at most cum - start
\* rounds.
WalkDescends ==
  [][\A r \in Readers : rd[r].pc = "walk" /\ rd'[r].pc = "walk" /\ rd'[r] # rd[r] =>
       /\ rd[r].start < rd'[r].cum /\ rd'[r].cum < rd[r].cum
       /\ rd'[r].relLen < rd'[r].cum => rd'[r].prev < rd[r].prev]_vars

phase ==
  CASE wpc = "idle"                -> "idle"
    [] wpc \in {"keys", "indices"} -> "open"
    [] wpc = "ack"                 -> "applied"
    [] wpc = "failed"              -> "rejected"

log == [k \in Keys |-> Contents(db, k)]

\* A walk has the answer of the latest chunk it started from, a scan that of its
\* snapshot.
answer ==
  [r \in Readers |->
     LET q == rd[r]
     IN  CASE q.pc = "idle" -> <<>>
           [] q.pc = "done" -> [ok |-> q.ok, val |-> q.val]
           [] q.pc = "walk" ->
                [ok |-> TRUE, val |-> From(Folded(Layout!ChunkAt(q.latestKey),
                                                  q.latestVal), q.start)]
           [] q.pc = "scan" ->
                [ok |-> TRUE, val |-> From(Contents(q.snap, q.key), q.start)]]

Promise == INSTANCE IndexStore WITH log <- log, phase <- phase, answer <- answer

\* RefinesIndexStore: both stores keep the promise of the IndexStore interface;
\* in particular a Lookup that mixes a snapshot with the live database still
\* answers for the moment its iterator was opened.
RefinesIndexStore == Promise!Spec

\* CallsReturn: every WriteBatch and every read returns, however many batches come in
\* while a Lookup follows its links.
CallsReturn ==
  /\ wpc # "idle" ~> wpc = "idle"
  /\ \A r \in Readers : rd[r].pc # "idle" ~> rd[r].pc = "idle"
=============================================================================
