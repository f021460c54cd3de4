------------------------------ MODULE LogStore ------------------------------
(***************************************************************************)
(* LogStore behind the IndexStore interface.  Each index of a key has a    *)
(* record of its own; the record of the last one is flagged Latest and     *)
(* carries the Merkle range of the whole log, all others are Older and     *)
(* empty.  Unlike the chunk stores it does not look whether a list is in   *)
(* order: the place of the Latest record is the largest index only if the  *)
(* callers' lists ascend.                                                  *)
(*                                                                         *)
(* Concurrency, crashes and the representation of a range are those of     *)
(* NoSealStore; the suffix of a physical key is the index itself.          *)
(***************************************************************************)
EXTENDS PebbleKV, Sequences

CONSTANTS
  MaxIndex,  \* the largest index (2^64 - 1 in the code)
  Keys,      \* map keys, as ranks in byte order
  Readers,   \* goroutines that call Lookup and GetSubRoot
  Updates    \* the maps a caller may pass to WriteBatch

Index == 0 .. MaxIndex

ASSUME LogAssumption ==
  /\ MaxIndex \in Nat /\ Keys \subseteq Nat
  /\ \A u \in Updates : /\ DOMAIN u \subseteq Keys
                        /\ \A k \in DOMAIN u : u[k] \in Seq(Index)

VARIABLES
  db,        \* what is committed
  wpc,       \* where WriteBatch stands: idle, keys, indices, ack or failed
  updates,   \* its argument
  todo,      \* the keys its key loop has yet to reach
  snap,      \* the snapshot its iterator reads
  key,       \* the key in hand
  range,     \* its range r
  pending,   \* its indices not written yet
  batch,     \* the writes collected so far
  rd         \* for each reader the call it is in, or its answer

writer == <<wpc, updates, todo, snap, key, range, pending, batch>>
vars   == <<db, writer, rd>>

Older     == [flag |-> "older"]
Latest(r) == [flag |-> "latest", range |-> r]

NoWrites == [a \in {} |-> Older]
Set(a, v, writes) == Overlay([b \in {a} |-> v], writes)

IndicesOf(list) == {list[i] : i \in 1 .. Len(list)}

\* SeekLT to the end of the prefix: the record of the largest index.
SeekLatest(s, k) ==
  LET a == SeekLT(s, prefixUpperBound(k))
  IN  IF HasPrefix(a, k) THEN a ELSE Invalid

\* deserializeLatest refuses any other record.
Decodes(s, a) == s[a].flag = "latest"

-----------------------------------------------------------------------------
(* WriteBatch.                                                               *)

\* The log of a key as its records tell it, in the order of the keys.
Records(s, k) == {i \in Index : <<k, i>> \in DOMAIN s}

\* The callers' side of the contract: the indices of a key are "monotonically
\* increasing" (README.md:17), within a list and from batch to batch.
Ascends(list) == \A i \in 2 .. Len(list) : list[i-1] < list[i]
New(u) == \A k \in DOMAIN u :
            /\ Ascends(u[k])
            /\ \A i \in IndicesOf(u[k]) : \A j \in Records(db, k) : j < i

WriteBatch(u) ==
  /\ wpc = "idle"
  /\ New(u)
  /\ updates' = u
  /\ IF DOMAIN u = {}
     THEN wpc' = "ack" /\ UNCHANGED <<todo, snap>>
     ELSE wpc' = "keys" /\ todo' = DOMAIN u /\ snap' = db
  /\ UNCHANGED <<db, key, range, pending, batch, rd>>

NextKeyToDo(k) == wpc = "keys" /\ k \in todo /\ \A other \in todo : k <= other

SkipKey(k) ==
  /\ NextKeyToDo(k)
  /\ updates[k] = <<>>
  /\ todo' = todo \ {k}
  /\ UNCHANGED <<db, wpc, updates, snap, key, range, pending, batch, rd>>

\* Mutant: the iterator stays open.
ReleaseBatch ==
  /\ todo' = {} /\ UNCHANGED snap
  /\ key' = 0 /\ range' = <<>> /\ pending' = <<>> /\ batch' = NoWrites

\* Every return closes the iterator and the batch.
Release ==
  /\ todo' = {} /\ snap' = NoWrites
  /\ key' = 0 /\ range' = <<>> /\ pending' = <<>> /\ batch' = NoWrites

\* Mutant: the previous latest record keeps its range.
LoadKeyKeepLatest(k) ==
  LET a == SeekLatest(snap, k)
  IN  /\ NextKeyToDo(k)
      /\ updates[k] # <<>>
      /\ IF a # Invalid /\ ~Decodes(snap, a)
         THEN wpc' = "failed" /\ Release
         ELSE /\ wpc' = "indices" /\ key' = k
              /\ todo' = todo \ {k}
              /\ pending' = updates[k]
              /\ range' = IF a = Invalid THEN <<>> ELSE snap[a].range
              /\ UNCHANGED <<snap, batch>>
      /\ UNCHANGED <<db, updates, rd>>

\* The previous latest record gives its range away and becomes Older.  If the
\* record of the largest index is not the Latest one, the call fails.
LoadKey(k) ==
  LET a == SeekLatest(snap, k)
  IN  /\ NextKeyToDo(k)
      /\ updates[k] # <<>>
      /\ IF a # Invalid /\ ~Decodes(snap, a)
         THEN wpc' = "failed" /\ Release
         ELSE /\ wpc' = "indices" /\ key' = k
              /\ todo' = todo \ {k}
              /\ pending' = updates[k]
              /\ range' = IF a = Invalid THEN <<>> ELSE snap[a].range
              /\ batch' = IF a = Invalid THEN batch ELSE Set(a, Older, batch)
              /\ UNCHANGED snap
      /\ UNCHANGED <<db, updates, rd>>

\* An index that is not the last of its list.
SetIntermediate ==
  /\ wpc = "indices" /\ Len(pending) > 1
  /\ range' = Append(range, Head(pending))
  /\ batch' = Set(<<key, Head(pending)>>, Older, batch)
  /\ pending' = Tail(pending)
  /\ UNCHANGED <<db, wpc, updates, todo, snap, key, rd>>

SetLast ==
  /\ wpc = "indices" /\ Len(pending) = 1
  /\ batch' = Set(<<key, Head(pending)>>, Latest(Append(range, Head(pending))), batch)
  /\ wpc' = "keys"
  /\ key' = 0 /\ range' = <<>> /\ pending' = <<>>
  /\ UNCHANGED <<db, updates, todo, snap, rd>>

Commit ==
  /\ wpc = "keys" /\ todo = {}
  /\ db' = Overlay(batch, db)
  /\ wpc' = "ack"
  /\ Release
  /\ UNCHANGED <<updates, rd>>

StorageError ==
  /\ wpc \in {"keys", "indices"}
  /\ wpc' = "failed"
  /\ Release
  /\ UNCHANGED <<db, updates, rd>>

WriteReturn ==
  /\ wpc \in {"ack", "failed"}
  /\ wpc' = "idle" /\ updates' = <<>>
  /\ UNCHANGED <<db, todo, snap, key, range, pending, batch, rd>>

WriterStep ==
  \/ \E k \in todo : SkipKey(k) \/ LoadKey(k)
  \/ SetIntermediate \/ SetLast \/ Commit \/ StorageError \/ WriteReturn

-----------------------------------------------------------------------------
(* Lookup and GetSubRoot.                                                    *)

NoRead == [pc |-> "idle"]
Answer(ok, val) == [pc |-> "done", ok |-> ok, val |-> val]
From(list, start) == SubSeq(list, start + 1, Len(list))

Becomes(r, q) == rd' = [rd EXCEPT ![r] = q] /\ UNCHANGED <<db, writer>>

\* The iterator ends at prefixUpperBound, and the loop at the first key without
\* the prefix.
Bounded(a, k) == IF HasPrefix(a, k) THEN a ELSE Invalid

Lookup(r, k, start) ==
  /\ rd[r] = NoRead
  /\ Becomes(r, [pc |-> "scan", key |-> k, start |-> start, snap |-> db,
                 pos |-> Bounded(SeekGE(db, BarePrefix(k)), k), indices |-> <<>>])

\* Mutant: the records are read as the database has them now.
VisitLive(r) ==
  LET q == rd[r]
  IN  /\ q.pc = "scan" /\ q.pos # Invalid
      /\ Becomes(r, [q EXCEPT !.indices = Append(@, q.pos[2]),
                              !.pos = Bounded(NextKey(db, q.pos), q.key)])

Visit(r) ==
  LET q == rd[r]
  IN  /\ q.pc = "scan" /\ q.pos # Invalid
      /\ Becomes(r, [q EXCEPT !.indices = Append(@, q.pos[2]),
                              !.pos = Bounded(NextKey(q.snap, q.pos), q.key)])

FinishLookup(r) ==
  /\ rd[r].pc = "scan" /\ rd[r].pos = Invalid
  /\ Becomes(r, Answer(TRUE, From(rd[r].indices, rd[r].start)))

GetSubRoot(r, k) ==
  LET a == SeekLatest(db, k)
  IN  /\ rd[r] = NoRead
      /\ Becomes(r, IF a = Invalid THEN Answer(TRUE, <<>>)
                    ELSE IF Decodes(db, a) THEN Answer(TRUE, db[a].range)
                    ELSE Answer(FALSE, <<>>))

ReadReturn(r) == rd[r].pc = "done" /\ Becomes(r, NoRead)

ReaderStep(r) == Visit(r) \/ FinishLookup(r) \/ ReadReturn(r)

-----------------------------------------------------------------------------
Crash ==
  /\ wpc' = "idle" /\ updates' = <<>>
  /\ Release
  /\ rd' = [r \in Readers |-> NoRead]
  /\ UNCHANGED db

Init ==
  /\ db = NoWrites
  /\ wpc = "idle" /\ updates = <<>> /\ todo = {} /\ snap = NoWrites
  /\ key = 0 /\ range = <<>> /\ pending = <<>> /\ batch = NoWrites
  /\ rd = [r \in Readers |-> NoRead]

Next ==
  \/ \E u \in Updates : WriteBatch(u)
  \/ WriterStep
  \/ \E r \in Readers, k \in Keys :
       GetSubRoot(r, k) \/ \E start \in Index : Lookup(r, k, start)
  \/ \E r \in Readers : ReaderStep(r)
  \/ Crash

Spec == Init /\ [][Next]_vars

-----------------------------------------------------------------------------
(* Properties.                                                               *)

\* LogTypeOK: records and the writer's locals stay well formed, and no return,
\* successful or not, leaves the iterator or the batch open.
Stored(s) ==
  /\ DOMAIN s \subseteq Keys \X Index
  /\ \A a \in DOMAIN s : s[a] = Older \/ s[a].range \in Seq(Index)

LogTypeOK ==
  /\ Stored(db) /\ Stored(snap) /\ Stored(batch)
  /\ wpc \in {"idle", "keys", "indices", "ack", "failed"}
  /\ updates \in Updates \cup {<<>>} /\ todo \subseteq DOMAIN updates
  /\ wpc \notin {"keys", "indices"} => snap = NoWrites /\ batch = NoWrites
  /\ range \in Seq(Index) /\ pending \in Seq(Index)
  /\ \A r \in Readers : rd[r].pc \in {"idle", "scan", "done"}

\* LatestIsLast: of the records of a key exactly the one of the largest index is
\* flagged Latest, and its range commits to the indices of all of them in
\* ascending order: what Lookup counts up and what GetSubRoot hashes are the same
\* log.  A Latest flag left behind, or put on another record, would make every
\* later WriteBatch and GetSubRoot of the key fail.
LatestIsLast ==
  \A k \in Keys : \A i \in Records(db, k) :
    LET v == db[<<k, i>>]
    IN  /\ v.flag = "latest" <=> \A j \in Records(db, k) : j <= i
        /\ v.flag = "latest" => /\ IndicesOf(v.range) = Records(db, k)
                                /\ Ascends(v.range)

\* The abstract state.
phase ==
  CASE wpc = "idle"                -> "idle"
    [] wpc \in {"keys", "indices"} -> "open"
    [] wpc = "ack"                 -> "applied"
    [] wpc = "failed"              -> "rejected"

Contents(s, k) ==
  LET a == SeekLatest(s, k)
  IN  IF a = Invalid THEN <<>> ELSE IF Decodes(s, a) THEN s[a].range ELSE <<>>

log == [k \in Keys |-> Contents(db, k)]

answer ==
  [r \in Readers |->
     LET q == rd[r]
     IN  CASE q.pc = "idle" -> <<>>
           [] q.pc = "done" -> [ok |-> q.ok, val |-> q.val]
           [] q.pc = "scan" -> [ok |-> TRUE, val |-> From(Contents(q.snap, q.key), q.start)]]

Promise == INSTANCE IndexStore WITH log <- log, phase <- phase, answer <- answer

\* RefinesIndexStore: for ascending lists LogStore keeps the promise of the
\* IndexStore interface: the records Lookup collects one by one are the log that
\* the range in the last of them commits to.
RefinesIndexStore == Promise!Spec

-----------------------------------------------------------------------------
(* The inductive invariant behind these properties.                          *)

Increasing(list) == \A i, j \in 1 .. Len(list) : i < j => list[i] < list[j]

\* The records of key k in s are those of list: one for each index, the last one
\* flagged Latest and carrying the list, all others Older.
Holds(s, k, list) ==
  /\ list \in Seq(Index) /\ Increasing(list)
  /\ Records(s, k) = IndicesOf(list)
  /\ \A i \in 1 .. Len(list) :
       s[<<k, list[i]>>] = IF i = Len(list) THEN Latest(list) ELSE Older

IsMap(s) == s = [a \in DOMAIN s |-> s[a]]

LogState(s) ==
  /\ IsMap(s) /\ Stored(s) /\ Extremal(DOMAIN s)
  /\ \A k \in Keys : Holds(s, k, Contents(s, k))

\* What the database would be if the batch were committed now.
View == Overlay(batch, db)

\* The writer between two keys: those it has done hold their lists, those it has
\* not reached are not in its batch.
KeysFollow ==
  IF wpc \notin {"keys", "indices"} THEN todo = {} ELSE
    /\ updates \in Updates /\ New(updates) /\ snap = db
    /\ \A a \in DOMAIN batch : a[1] \in DOMAIN updates \ todo
    /\ \A k \in DOMAIN updates \ todo :
         ~(wpc = "indices" /\ k = key) => Holds(View, k, Contents(db, k) \o updates[k])

\* The key in hand: its records are those of its range, none of them Latest, and
\* what is pending is what is left of its list, above them all.
KeyInHand ==
  wpc = "indices" =>
    /\ key \in DOMAIN updates \ todo
    /\ pending # <<>> /\ Ascends(pending)
    /\ range \o pending = Contents(db, key) \o updates[key]
    /\ Increasing(range) /\ \A i \in 1 .. Len(range) : range[i] < Head(pending)
    /\ Records(View, key) = IndicesOf(range)
    /\ \A i \in IndicesOf(range) : View[<<key, i>>] = Older

\* A Lookup has collected the first of the log of its key, as its snapshot holds
\* it, and stands at the next.
ReaderFollows(q) ==
  \/ q = NoRead
  \/ q \in [pc : {"done"}, ok : {TRUE}, val : Seq(Index)]
  \/ /\ q = [pc |-> "scan", key |-> q.key, start |-> q.start, snap |-> q.snap,
             pos |-> q.pos, indices |-> q.indices]
     /\ q.key \in Keys /\ q.start \in Index /\ LogState(q.snap)
     /\ LET all == Contents(q.snap, q.key)
            n   == Len(q.indices)
        IN  /\ n \in 0 .. Len(all) /\ q.indices = SubSeq(all, 1, n)
            /\ q.pos = IF n = Len(all) THEN Invalid ELSE <<q.key, all[n + 1]>>

LogInv ==
  /\ LogTypeOK
  /\ IsMap(batch) /\ Extremal(DOMAIN batch)
  /\ LogState(db)
  /\ KeysFollow /\ KeyInHand
  /\ DOMAIN rd = Readers /\ \A r \in Readers : ReaderFollows(rd[r])
=============================================================================
