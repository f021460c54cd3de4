----------------------------- MODULE FlatStore -----------------------------
(***************************************************************************)
(* FlatStore behind the IndexStore interface.  One value per key holds all *)
(* its indices and the Merkle range over them; WriteBatch reads, extends   *)
(* and rewrites the value of each key of the batch.  It goes through the   *)
(* map in whatever order Go's range gives, reads the live database and not *)
(* a snapshot, looks neither at the order of a list nor whether it is      *)
(* empty, and commits a batch even for an empty map.                       *)
(*                                                                         *)
(* Concurrency, crashes and the representation of a range are those of     *)
(* NoSealStore.  A read is one Get and so a single step.                   *)
(***************************************************************************)
EXTENDS Naturals, Sequences

CONSTANTS
  Index,     \* the indices
  Keys,      \* the map keys
  Readers,   \* goroutines that call Lookup and GetSubRoot
  Updates,   \* the maps a caller may pass to WriteBatch
  MaxLog     \* bound: the number of indices a key is ever given

ASSUME IndexAssumption == Index \subseteq Nat
ASSUME FlatUpdatesAssumption ==
  \A u \in Updates : /\ DOMAIN u \subseteq Keys
                     /\ \A k \in DOMAIN u : u[k] \in Seq(Index)

VARIABLES
  db,        \* what is committed: for some keys a value
  wpc,       \* where WriteBatch stands: idle, keys, ack or failed
  updates,   \* its argument
  todo,      \* the keys its loop has yet to reach
  batch,     \* the writes collected so far
  rd         \* for each reader <<>>, or what its call returns

vars == <<db, wpc, updates, todo, batch, rd>>

FlatValue == [range : Seq(Index), indices : Seq(Index)]
NoWrites  == [k \in {} |-> 0]

\* A key that is not found starts with an empty range and no indices.
Loaded(s, k) ==
  IF k \in DOMAIN s THEN s[k] ELSE [range |-> <<>>, indices |-> <<>>]

\* Mutant: the leaf hashes of a list are appended to a fresh range.
ExtendedAnew(v, list) == [range |-> list, indices |-> v.indices \o list]

\* The loop over newIndices.
Extended(v, list) == [range |-> v.range \o list, indices |-> v.indices \o list]

\* batch.Set, and the batch applied to the database.
Set(k, v, writes) == [j \in {k} \cup DOMAIN writes |-> IF j = k THEN v ELSE writes[j]]
Applied(writes, s) ==
  [k \in DOMAIN writes \cup DOMAIN s |-> IF k \in DOMAIN writes THEN writes[k] ELSE s[k]]

-----------------------------------------------------------------------------
\* The callers' side of the contract: "sorted ascending" (store.go:15).
InOrder(list) == \A i \in 2 .. Len(list) : ~(list[i] < list[i-1])

WriteBatch(u) ==
  /\ wpc = "idle"
  /\ \A k \in DOMAIN u : /\ InOrder(u[k])
                         /\ Len(Loaded(db, k).indices) + Len(u[k]) <= MaxLog
  /\ updates' = u
  /\ wpc' = "keys" /\ todo' = DOMAIN u
  /\ UNCHANGED <<db, batch, rd>>

\* Mutant: a value is written as soon as it is ready.
CommitKey(k) ==
  /\ wpc = "keys" /\ k \in todo
  /\ db' = Set(k, Extended(Loaded(db, k), updates[k]), db)
  /\ todo' = todo \ {k}
  /\ UNCHANGED <<wpc, updates, batch, rd>>

\* One round of the loop over the map, for any key it has not yielded yet.
ExtendKey(k) ==
  /\ wpc = "keys" /\ k \in todo
  /\ batch' = Set(k, Extended(Loaded(db, k), updates[k]), batch)
  /\ todo' = todo \ {k}
  /\ UNCHANGED <<db, wpc, updates, rd>>

Commit ==
  /\ wpc = "keys" /\ todo = {}
  /\ db' = Applied(batch, db)
  /\ wpc' = "ack" /\ batch' = NoWrites
  /\ UNCHANGED <<updates, todo, rd>>

\* Get, Set or Commit returns an error.
StorageError ==
  /\ wpc = "keys"
  /\ wpc' = "failed" /\ todo' = {} /\ batch' = NoWrites
  /\ UNCHANGED <<db, updates, rd>>

WriteReturn ==
  /\ wpc \in {"ack", "failed"}
  /\ wpc' = "idle" /\ updates' = <<>>
  /\ UNCHANGED <<db, todo, batch, rd>>

-----------------------------------------------------------------------------
Answer(val) == [ok |-> TRUE, val |-> val]

From(list, start) == SubSeq(list, start + 1, Len(list))

Lookup(r, k, start) ==
  /\ rd[r] = <<>>
  /\ rd' = [rd EXCEPT ![r] = Answer(From(Loaded(db, k).indices, start))]
  /\ UNCHANGED <<db, wpc, updates, todo, batch>>

GetSubRoot(r, k) ==
  /\ rd[r] = <<>>
  /\ rd' = [rd EXCEPT ![r] = Answer(Loaded(db, k).range)]
  /\ UNCHANGED <<db, wpc, updates, todo, batch>>

ReadReturn(r) ==
  /\ rd[r] # <<>>
  /\ rd' = [rd EXCEPT ![r] = <<>>]
  /\ UNCHANGED <<db, wpc, updates, todo, batch>>

Crash ==
  /\ wpc' = "idle" /\ updates' = <<>> /\ todo' = {} /\ batch' = NoWrites
  /\ rd' = [r \in Readers |-> <<>>]
  /\ UNCHANGED db

Init ==
  /\ db = NoWrites
  /\ wpc = "idle" /\ updates = <<>> /\ todo = {} /\ batch = NoWrites
  /\ rd = [r \in Readers |-> <<>>]

Next ==
  \/ \E u \in Updates : WriteBatch(u)
  \/ \E k \in Keys : ExtendKey(k)
  \/ Commit \/ StorageError \/ WriteReturn
  \/ \E r \in Readers :
       \/ \E k \in Keys : GetSubRoot(r, k) \/ \E start \in Index : Lookup(r, k, start)
       \/ ReadReturn(r)
  \/ Crash

Spec == Init /\ [][Next]_vars

-----------------------------------------------------------------------------
(* Properties.                                                               *)

Stored(s) == DOMAIN s \subseteq Keys /\ s \in [DOMAIN s -> FlatValue]

\* FlatInv: types; the range of a value commits to exactly the indices beside it,
\* in the database and in the batch; and while the loop runs, the batch holds for
\* each key it has passed the database's value extended by the key's list, so
\* that the order of the keys makes no difference and nothing of an earlier call
\* is left in it.
FlatInv ==
  /\ Stored(db) /\ Stored(batch)
  /\ wpc \in {"idle", "keys", "ack", "failed"}
  /\ updates \in Updates \cup {<<>>} /\ todo \subseteq DOMAIN updates
  /\ DOMAIN rd = Readers
  /\ \A k \in DOMAIN db : db[k].range = db[k].indices
  /\ IF wpc = "keys"
     THEN /\ updates \in Updates
          /\ \A k \in DOMAIN updates : InOrder(updates[k])
          /\ DOMAIN batch = DOMAIN updates \ todo
          /\ \A k \in DOMAIN batch : batch[k] = Extended(Loaded(db, k), updates[k])
     ELSE batch = NoWrites /\ todo = {}

\* The abstract state.
phase ==
  CASE wpc = "idle"   -> "idle"
    [] wpc = "keys"   -> "open"
    [] wpc = "ack"    -> "applied"
    [] wpc = "failed" -> "rejected"

log == [k \in Keys |-> Loaded(db, k).indices]

Promise == INSTANCE IndexStore WITH log <- log, phase <- phase, answer <- rd

\* RefinesIndexStore: FlatStore keeps the promise of the IndexStore interface:
\* the lists of a batch appear together, and roots commit to the log.
RefinesIndexStore == Promise!Spec
=============================================================================
