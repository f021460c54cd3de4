---------------------------- MODULE NoSealStore ----------------------------
(***************************************************************************)
(* The four no-seal chunk stores behind the IndexStore interface:          *)
(* ChunkStore, ChunkScanStore, PrefixChunkScanStore and                    *)
(* InvertedPrefixChunkScanStore.  Their WriteBatch is one algorithm with   *)
(* four layouts (ChunkLayout); their Lookup is a forward walk over chunks, *)
(* or, in ChunkStore, a backward one.                                      *)
(*                                                                         *)
(* One writer and any number of readers run concurrently.  Every call      *)
(* reads the snapshot its iterator was opened on; the writer changes the   *)
(* database in the single step of batch.Commit.  The process may crash at  *)
(* any point: memory is lost, committed data is kept (pebble.Sync).        *)
(*                                                                         *)
(* A compact.Range is represented by the sequence of the indices whose     *)
(* leaf hashes were appended to it: End() is its length, Append appends,   *)
(* and, hashes being collision-free, its root stands for the sequence.     *)
(***************************************************************************)
EXTENDS ChunkLayout, FiniteSets

CONSTANTS
  Keys,      \* map keys, as ranks in byte order
  Readers,   \* goroutines that call Lookup and GetSubRoot
  Updates    \* the maps a caller may pass to WriteBatch

ASSUME KeysAssumption == Keys \subseteq Nat
ASSUME UpdatesAssumption ==
  \A u \in Updates : /\ DOMAIN u \subseteq Keys
                     /\ \A k \in DOMAIN u : u[k] \in Seq(Index)

VARIABLES
  db,        \* what is committed
  wpc,       \* where WriteBatch stands: idle, keys, indices, ack or failed
  updates,   \* its argument
  todo,      \* the keys its key loop has yet to reach
  snap,      \* the snapshot its iterator reads
  pending,   \* the indices of the key in hand not consumed yet
  cur,       \* that key and its currChunkNum, currRange, currRelativeIndices,
             \* and modified
  batch,     \* the writes collected so far
  rd         \* for each reader the call it is in, or its answer

writer == <<wpc, updates, todo, snap, pending, cur, batch>>
vars   == <<db, writer, rd>>

ChunkValue == [range : Seq(Index), rel : Seq(Rel)]
Value(range, rel) == [range |-> range, rel |-> rel]

NoWrites == [a \in {} |-> Value(<<>>, <<>>)]
NoCur == [key |-> 0, chunkNum |-> 0, range |-> <<>>, rel |-> <<>>, modified |-> FALSE]

Sorted(list) == \A i \in 2 .. Len(list) : ~(list[i] < list[i-1])

-----------------------------------------------------------------------------
(* What a database state says about a key.                                   *)

ChunksOf(s, k) == {c \in Index : DBKey(k, c) \in DOMAIN s}
Chunk(s, k, c) == s[DBKey(k, c)]
IsLatest(s, k, c) == c \in ChunksOf(s, k) /\ \A d \in ChunksOf(s, k) : d <= c
LatestChunk(s, k) == CHOOSE c \in ChunksOf(s, k) : IsLatest(s, k, c)

\* The range a chunk would have if it were sealed now.
Folded(c, v) == v.range \o AbsSeq(c, v.rel)

Contents(s, k) ==
  IF ChunksOf(s, k) = {} THEN <<>>
  ELSE LET c == LatestChunk(s, k) IN Folded(c, Chunk(s, k, c))

IndicesOf(list) == {list[i] : i \in 1 .. Len(list)}

-----------------------------------------------------------------------------
(* WriteBatch.                                                               *)

\* The callers' side of the contract: one call at a time, and the indices given
\* for a key are new, larger than all it has (the log only grows).  That each
\* list is in order is left to the store to check.
New(u) == \A k \in DOMAIN u : \A i \in IndicesOf(u[k]) :
            \A j \in IndicesOf(Contents(db, k)) : j < i

\* An empty map returns at once; otherwise the batch and the iterator are opened.
WriteBatch(u) ==
  /\ wpc = "idle"
  /\ New(u)
  /\ updates' = u
  /\ IF DOMAIN u = {}
     THEN wpc' = "ack" /\ UNCHANGED <<todo, snap>>
     ELSE wpc' = "keys" /\ todo' = DOMAIN u /\ snap' = db
  /\ UNCHANGED <<db, pending, cur, batch, rd>>

\* sortedKeys: the next key is the smallest one left.
NextKeyToDo(k) == k \in todo /\ \A other \in todo : k <= other

\* A key with no indices is passed over.
SkipKey(k) ==
  /\ wpc = "keys"
  /\ NextKeyToDo(k)
  /\ updates[k] = <<>>
  /\ todo' = todo \ {k}
  /\ UNCHANGED <<db, wpc, updates, snap, pending, cur, batch, rd>>

\* Every return releases the iterator and drops the batch (the deferred Closes).
Release ==
  /\ todo' = {}
  /\ snap' = NoWrites
  /\ pending' = <<>>
  /\ cur' = NoCur
  /\ batch' = NoWrites

\* Mutant: the keys processed before the bad list are committed.
RejectKeyAndCommit(k) ==
  /\ wpc = "keys"
  /\ NextKeyToDo(k)
  /\ ~Sorted(updates[k])
  /\ db' = Overlay(batch, db)
  /\ wpc' = "failed"
  /\ Release
  /\ UNCHANGED <<updates, rd>>

\* A list out of order fails the call, the keys already processed included.
RejectKey(k) ==
  /\ wpc = "keys"
  /\ NextKeyToDo(k)
  /\ ~Sorted(updates[k])
  /\ wpc' = "failed"
  /\ Release
  /\ UNCHANGED <<db, updates, rd>>

\* The state the index loop starts from: the latest chunk, or an empty first one.
InitialCur(k, list) ==
  LET a == SeekLatest(snap, k)
  IN  IF a # Invalid
      THEN [key |-> k, chunkNum |-> ChunkAt(a), range |-> snap[a].range,
            rel |-> snap[a].rel, modified |-> FALSE]
      ELSE [key |-> k, chunkNum |-> ChunkNum(Head(list)), range |-> <<>>,
            rel |-> <<>>, modified |-> TRUE]

LoadKey(k) ==
  /\ wpc = "keys"
  /\ NextKeyToDo(k)
  /\ updates[k] # <<>>
  /\ Sorted(updates[k])
  /\ wpc' = "indices"
  /\ todo' = todo \ {k}
  /\ pending' = updates[k]
  /\ cur' = InitialCur(k, updates[k])
  /\ UNCHANGED <<db, updates, snap, batch, rd>>

\* batch.Set of the chunk in hand.
BatchWithCur ==
  Overlay([a \in {DBKey(cur.key, cur.chunkNum)} |-> Value(cur.range, cur.rel)], batch)

\* One round of the index loop, the index being in the chunk in hand.
AppendInChunk ==
  /\ wpc = "indices"
  /\ pending # <<>>
  /\ ChunkNum(Head(pending)) = cur.chunkNum
  /\ cur' = [cur EXCEPT !.rel = Append(@, RelIdx(Head(pending))),
                        !.modified = TRUE]
  /\ pending' = Tail(pending)
  /\ UNCHANGED <<db, wpc, updates, todo, snap, batch, rd>>

\* Mutant: the range is folded only when the chunk in hand is rewritten.
CrossBoundaryFoldModified ==
  /\ wpc = "indices"
  /\ pending # <<>>
  /\ ChunkNum(Head(pending)) # cur.chunkNum
  /\ batch' = IF cur.modified THEN BatchWithCur ELSE batch
  /\ cur' = [key      |-> cur.key,
             chunkNum |-> ChunkNum(Head(pending)),
             range    |-> IF cur.modified THEN Folded(cur.chunkNum, cur)
                          ELSE cur.range,
             rel      |-> <<RelIdx(Head(pending))>>,
             modified |-> TRUE]
  /\ pending' = Tail(pending)
  /\ UNCHANGED <<db, wpc, updates, todo, snap, rd>>

\* One round for an index of another chunk: the chunk in hand is written if this
\* call changed it, its indices are folded into the range either way, and the
\* new chunk starts with that range and the index.
CrossBoundary ==
  /\ wpc = "indices"
  /\ pending # <<>>
  /\ ChunkNum(Head(pending)) # cur.chunkNum
  /\ batch' = IF cur.modified THEN BatchWithCur ELSE batch
  /\ cur' = [key      |-> cur.key,
             chunkNum |-> ChunkNum(Head(pending)),
             range    |-> Folded(cur.chunkNum, cur),
             rel      |-> <<RelIdx(Head(pending))>>,
             modified |-> TRUE]
  /\ pending' = Tail(pending)
  /\ UNCHANGED <<db, wpc, updates, todo, snap, rd>>

\* After the index loop the chunk in hand is written, and the key is done.
FlushKey ==
  /\ wpc = "indices"
  /\ pending = <<>>
  /\ batch' = IF cur.modified THEN BatchWithCur ELSE batch
  /\ cur' = NoCur
  /\ wpc' = "keys"
  /\ UNCHANGED <<db, updates, todo, snap, pending, rd>>

\* batch.Commit(pebble.Sync) after the key loop.
Commit ==
  /\ wpc = "keys"
  /\ todo = {}
  /\ db' = Overlay(batch, db)
  /\ wpc' = "ack"
  /\ Release
  /\ UNCHANGED <<updates, rd>>

\* NewIter, batch.Set or Commit returns an error.
StorageError ==
  /\ wpc \in {"keys", "indices"}
  /\ wpc' = "failed"
  /\ Release
  /\ UNCHANGED <<db, updates, rd>>

\* The caller sees nil (ack) or the error (failed).
WriteReturn ==
  /\ wpc \in {"ack", "failed"}
  /\ wpc' = "idle"
  /\ updates' = <<>>
  /\ UNCHANGED <<db, todo, snap, pending, cur, batch, rd>>

WriterProgress ==
  \/ \E k \in todo : SkipKey(k) \/ RejectKey(k) \/ LoadKey(k)
  \/ AppendInChunk \/ CrossBoundary \/ FlushKey
  \/ Commit \/ WriteReturn

WriterStep == WriterProgress \/ StorageError

-----------------------------------------------------------------------------
(* Lookup and GetSubRoot.                                                    *)

NoRead == [pc |-> "idle"]
Answer(ok, val) == [pc |-> "done", ok |-> ok, val |-> val]

\* The iterator is opened and positioned.
Lookup(r, k, start) ==
  /\ rd[r] = NoRead
  /\ rd' = [rd EXCEPT ![r] =
       [pc |-> "scan", key |-> k, start |-> start, snap |-> db,
        pos |-> SeekStart(db, k, ChunkNum(start)),
        skippedOffset |-> 0, skippedOffsetSet |-> FALSE, reconstructed |-> <<>>]]
  /\ UNCHANGED <<db, writer>>

\* Mutant: a chunk that ends before start is passed over, without moving the
\* iterator (continue in a loop that calls Next at its end).
VisitForwardStays(r) ==
  LET q == rd[r]
      c == ChunkAt(q.pos)
      v == q.snap[q.pos]
  IN  /\ Engine # "chunk"
      /\ q.pc = "scan" /\ q.pos # Invalid
      /\ Len(v.range) + Len(v.rel) > q.start
      /\ rd' = [rd EXCEPT ![r] =
           [q EXCEPT !.skippedOffset =
                       IF q.skippedOffsetSet THEN @ ELSE Len(v.range),
                     !.skippedOffsetSet = TRUE,
                     !.reconstructed = @ \o AbsSeq(c, v.rel),
                     !.pos = Advance(q.snap, q.key, q.pos)]]
      /\ UNCHANGED <<db, writer>>

\* One round of the forward loop (all engines but ChunkStore): the range of the
\* first chunk visited says how many matches were skipped.
VisitForward(r) ==
  LET q == rd[r]
      c == ChunkAt(q.pos)
      v == q.snap[q.pos]
  IN  /\ Engine # "chunk"
      /\ q.pc = "scan" /\ q.pos # Invalid
      /\ rd' = [rd EXCEPT ![r] =
           [q EXCEPT !.skippedOffset =
                       IF q.skippedOffsetSet THEN @ ELSE Len(v.range),
                     !.skippedOffsetSet = TRUE,
                     !.reconstructed = @ \o AbsSeq(c, v.rel),
                     !.pos = Advance(q.snap, q.key, q.pos)]]
      /\ UNCHANGED <<db, writer>>

\* Mutant: the walk ends one chunk early when start is the last index before it.
VisitBackwardShort(r) ==
  LET q == rd[r]
      c == ChunkAt(q.pos)
      v == q.snap[q.pos]
  IN  /\ Engine = "chunk"
      /\ q.pc = "scan" /\ q.pos # Invalid
      /\ rd' = [rd EXCEPT ![r] =
           [q EXCEPT !.skippedOffset = Len(v.range),
                     !.skippedOffsetSet = TRUE,
                     !.reconstructed = AbsSeq(c, v.rel) \o @,
                     !.pos = IF Len(v.range) <= q.start + 1 THEN Invalid
                             ELSE Advance(q.snap, q.key, q.pos)]]
      /\ UNCHANGED <<db, writer>>

\* Mutant: a chunk that ends before start is passed over, without moving the
\* iterator.
VisitBackwardStays(r) ==
  LET q == rd[r]
      c == ChunkAt(q.pos)
      v == q.snap[q.pos]
  IN  /\ Engine = "chunk"
      /\ q.pc = "scan" /\ q.pos # Invalid
      /\ Len(v.range) + Len(v.rel) > q.start
      /\ rd' = [rd EXCEPT ![r] =
           [q EXCEPT !.skippedOffset = Len(v.range),
                     !.skippedOffsetSet = TRUE,
                     !.reconstructed = AbsSeq(c, v.rel) \o @,
                     !.pos = IF Len(v.range) <= q.start THEN Invalid
                             ELSE Advance(q.snap, q.key, q.pos)]]
      /\ UNCHANGED <<db, writer>>

\* One round of ChunkStore's backward loop: the chunk read last is the oldest,
\* and the walk ends at the first whose range holds no more than start indices.
VisitBackward(r) ==
  LET q == rd[r]
      c == ChunkAt(q.pos)
      v == q.snap[q.pos]
  IN  /\ Engine = "chunk"
      /\ q.pc = "scan" /\ q.pos # Invalid
      /\ rd' = [rd EXCEPT ![r] =
           [q EXCEPT !.skippedOffset = Len(v.range),
                     !.skippedOffsetSet = TRUE,
                     !.reconstructed = AbsSeq(c, v.rel) \o @,
                     !.pos = IF Len(v.range) <= q.start THEN Invalid
                             ELSE Advance(q.snap, q.key, q.pos)]]
      /\ UNCHANGED <<db, writer>>

\* Whether Lookup has nothing to cut: no chunk was visited (ChunkStore), or no
\* index was collected (the other engines).
NothingFound(q) ==
  IF Engine = "chunk" THEN ~q.skippedOffsetSet ELSE q.reconstructed = <<>>

\* What Lookup returns once the loop is over.
LookupAnswer(q) ==
  IF NothingFound(q) THEN Answer(TRUE, <<>>)
  ELSE IF q.start < q.skippedOffset THEN Answer(FALSE, <<>>)
  ELSE LET offset == q.start - q.skippedOffset
       IN  IF offset >= Len(q.reconstructed) THEN Answer(TRUE, <<>>)
           ELSE Answer(TRUE, SubSeq(q.reconstructed, offset + 1,
                                    Len(q.reconstructed)))

FinishLookup(r) ==
  /\ rd[r].pc = "scan" /\ rd[r].pos = Invalid
  /\ rd' = [rd EXCEPT ![r] = LookupAnswer(rd[r])]
  /\ UNCHANGED <<db, writer>>

\* The sequence the root of key k commits to: the latest chunk's range extended
\* by its own indices, or nothing (EmptyRoot).
SubRoot(s, k) ==
  LET a == SeekLatest(s, k)
  IN  IF a = Invalid THEN <<>> ELSE Folded(ChunkAt(a), s[a])

\* GetSubRoot reads one position of one snapshot.
GetSubRoot(r, k) ==
  /\ rd[r] = NoRead
  /\ rd' = [rd EXCEPT ![r] = Answer(TRUE, SubRoot(db, k))]
  /\ UNCHANGED <<db, writer>>

ReadReturn(r) ==
  /\ rd[r].pc = "done"
  /\ rd' = [rd EXCEPT ![r] = NoRead]
  /\ UNCHANGED <<db, writer>>

ReaderStep(r) ==
  VisitForward(r) \/ VisitBackward(r) \/ FinishLookup(r) \/ ReadReturn(r)

-----------------------------------------------------------------------------
\* The process stops and is started again on the same directory.
Crash ==
  /\ wpc' = "idle"
  /\ updates' = <<>>
  /\ Release
  /\ rd' = [r \in Readers |-> NoRead]
  /\ UNCHANGED db

Init ==
  /\ db = NoWrites
  /\ wpc = "idle" /\ updates = <<>> /\ todo = {} /\ snap = NoWrites
  /\ pending = <<>> /\ cur = NoCur /\ batch = NoWrites
  /\ rd = [r \in Readers |-> NoRead]

Next ==
  \/ \E u \in Updates : WriteBatch(u)
  \/ WriterStep
  \/ \E r \in Readers, k \in Keys :
       GetSubRoot(r, k) \/ \E start \in Index : Lookup(r, k, start)
  \/ \E r \in Readers : ReaderStep(r)
  \/ Crash

Spec == Init /\ [][Next]_vars

\* A call that was entered runs to its return: goroutines are scheduled.  No error
\* is needed for that.
Fairness == /\ WF_vars(WriterProgress)
            /\ \A r \in Readers : WF_vars(ReaderStep(r))
FairSpec == Spec /\ Fairness

-----------------------------------------------------------------------------
(* Properties.                                                               *)

\* The variables have the types the comments above give them.
Snapshot(s) ==
  /\ DOMAIN s \subseteq Keys \X Index
  /\ s \in [DOMAIN s -> ChunkValue]

CurType == [key : Nat, chunkNum : Index, range : Seq(Index), rel : Seq(Rel),
            modified : BOOLEAN]

ReadType ==
  {NoRead}
  \cup [pc : {"done"}, ok : BOOLEAN, val : Seq(Index)]

ScanOK(q) ==
  /\ DOMAIN q = {"pc", "key", "start", "snap", "pos", "skippedOffset",
                 "skippedOffsetSet", "reconstructed"}
  /\ q.pc = "scan" /\ q.key \in Keys /\ q.start \in Index
  /\ Snapshot(q.snap) /\ q.pos \in DOMAIN q.snap \cup {Invalid}
  /\ q.skippedOffset \in Nat /\ q.skippedOffsetSet \in BOOLEAN
  /\ q.reconstructed \in Seq(Index)

\* TypeOK: the state of WriteBatch and Lookup stays well formed; chunk numbers,
\* suffixes and reconstructed absolute indices stay in the uint64 range and
\* relative indices in the uint16 range, though the code computes them unchecked.
TypeOK ==
  /\ Snapshot(db) /\ Snapshot(snap) /\ Snapshot(batch)
  /\ wpc \in {"idle", "keys", "indices", "ack", "failed"}
  /\ updates \in Updates \cup {<<>>}
  /\ todo \subseteq DOMAIN updates
  /\ pending \in Seq(Index)
  /\ cur \in CurType
  /\ \A r \in Readers : rd[r] \in ReadType \/ ScanOK(rd[r])

\* FrontierChain: the range a chunk starts from is exactly what all older chunks
\* of its key hold, the first chunk starts from the empty range, and no stored
\* chunk is empty.  The writer computes it from the latest chunk alone, in memory,
\* whether or not it rewrites that chunk in the same batch.
Chain(s, k) ==
  \A c \in ChunksOf(s, k) :
    LET older == {d \in ChunksOf(s, k) : d < c}
    IN  /\ Chunk(s, k, c).rel # <<>>
        /\ older = {} => Chunk(s, k, c).range = <<>>
        /\ \A d \in older : (\A e \in older : e <= d) =>
             Chunk(s, k, c).range = Folded(d, Chunk(s, k, d))

FrontierChain == \A k \in Keys : Chain(db, k)

\* LookupNeverFails: "invariant violated: start < skippedOffset" is never
\* returned: start \div ChunkSize is a safe lower bound for the chunk that
\* holds the start-th match (inverted_prefix_chunk_scan.go:274, chunk_scan.go:186).
LookupNeverFails == \A r \in Readers : rd[r].pc = "done" => rd[r].ok

\* SealedImmutable: once a newer chunk exists a chunk is never changed, and the
\* latest one keeps its range and only grows (DESIGN.md:34, README.md:19).
SealedImmutable ==
  [][\A k \in Keys : \A c \in ChunksOf(db, k) :
       /\ c \in ChunksOf(db', k)
       /\ IF IsLatest(db, k, c)
          THEN /\ Chunk(db', k, c).range = Chunk(db, k, c).range
               /\ SubSeq(Chunk(db', k, c).rel, 1, Len(Chunk(db, k, c).rel))
                    = Chunk(db, k, c).rel
          ELSE Chunk(db', k, c) = Chunk(db, k, c)]_vars

\* The abstract state: a reader in its scan already has the answer its snapshot
\* determines.
phase ==
  CASE wpc = "idle"              -> "idle"
    [] wpc \in {"keys", "indices"} -> "open"
    [] wpc = "ack"               -> "applied"
    [] wpc = "failed"            -> "rejected"

log == [k \in Keys |-> Contents(db, k)]

answer ==
  [r \in Readers |->
     CASE rd[r].pc = "idle" -> <<>>
       [] rd[r].pc = "done" -> [ok |-> rd[r].ok, val |-> rd[r].val]
       [] rd[r].pc = "scan" ->
            [ok  |-> TRUE,
             val |-> LET all == Contents(rd[r].snap, rd[r].key)
                     IN  SubSeq(all, rd[r].start + 1, Len(all))]]

Promise == INSTANCE IndexStore WITH log <- log, phase <- phase, answer <- answer

\* RefinesIndexStore: the engine keeps the promise of the IndexStore interface:
\* batches are all or nothing, and every Lookup and GetSubRoot, however its walk
\* interleaves with commits, answers for the moment its iterator was opened.
RefinesIndexStore == Promise!Spec

\* CallsReturn: every WriteBatch and every read returns, whatever the other side
\* does meanwhile.
CallsReturn ==
  /\ wpc # "idle" ~> wpc = "idle"
  /\ \A r \in Readers : rd[r].pc # "idle" ~> rd[r].pc = "idle"
=============================================================================
