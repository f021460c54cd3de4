--------------------------- MODULE FlatStoreProofs ---------------------------
(***************************************************************************)
(* FlatStore implements IndexStore, for every set of keys, readers,        *)
(* indices and batches and every bound on the logs.                        *)
(***************************************************************************)
EXTENDS FlatStore, TLAPS

-----------------------------------------------------------------------------
(* Values.                                                                   *)

\* What is loaded is a value, whether the key is there or not.
LEMMA LoadedType ==
  ASSUME NEW s, Stored(s), NEW k
  PROVE  Loaded(s, k) \in FlatValue
BY DEF Loaded, Stored, FlatValue

\* Extending a value by a list of indices gives a value.
LEMMA ExtendedType ==
  ASSUME NEW v \in FlatValue, NEW list \in Seq(Index)
  PROVE  Extended(v, list) \in FlatValue
BY DEF Extended, FlatValue

\* One more write in the batch.
LEMMA SetStored ==
  ASSUME NEW s, Stored(s), NEW k \in Keys, NEW v \in FlatValue
  PROVE  /\ Stored(Set(k, v, s))
         /\ DOMAIN Set(k, v, s) = {k} \cup DOMAIN s
         /\ Set(k, v, s)[k] = v
         /\ \A j \in DOMAIN s : j # k => Set(k, v, s)[j] = s[j]
BY DEF Stored, Set

\* The batch applied to the database.
LEMMA AppliedStored ==
  ASSUME NEW s, Stored(s), NEW writes, Stored(writes)
  PROVE  /\ Stored(Applied(writes, s))
         /\ \A k : Loaded(Applied(writes, s), k) =
                     IF k \in DOMAIN writes THEN writes[k] ELSE Loaded(s, k)
BY DEF Stored, Applied, Loaded

LEMMA NoWritesStored == Stored(NoWrites) /\ DOMAIN NoWrites = {}
BY DEF Stored, NoWrites

\* The parts of an extended value.
LEMMA ExtendedParts ==
  ASSUME NEW v, NEW list
  PROVE  /\ Extended(v, list).range = v.range \o list
         /\ Extended(v, list).indices = v.indices \o list
BY DEF Extended

-----------------------------------------------------------------------------
(* The invariant.                                                            *)

LEMMA InitInv == Init => FlatInv
BY NoWritesStored DEF Init, FlatInv

\* WriteBatch starts its loop with an empty batch.
LEMMA WriteBatchInv ==
  ASSUME FlatInv, NEW u \in Updates, WriteBatch(u)
  PROVE  FlatInv'
<1>1. batch' = NoWrites /\ todo' = DOMAIN u /\ updates' = u
  BY DEF FlatInv, WriteBatch
<1> QED
  BY <1>1, NoWritesStored DEF FlatInv, WriteBatch

\* A round of the loop adds the key's extended value to the batch.
LEMMA ExtendKeyInv ==
  ASSUME FlatInv, NEW k \in Keys, ExtendKey(k)
  PROVE  FlatInv'
<1> DEFINE v == Extended(Loaded(db, k), updates[k])
<1>1. /\ wpc = "keys" /\ k \in todo
      /\ batch' = Set(k, v, batch) /\ todo' = todo \ {k}
      /\ UNCHANGED <<db, wpc, updates, rd>>
  BY DEF ExtendKey
<1>2. /\ Stored(db) /\ Stored(batch) /\ k \in DOMAIN updates
      /\ updates \in Updates
      /\ DOMAIN batch = DOMAIN updates \ todo
      /\ \A j \in DOMAIN batch : batch[j] = Extended(Loaded(db, j), updates[j])
  BY <1>1 DEF FlatInv
<1>3. v \in FlatValue
  BY <1>2, LoadedType, ExtendedType, FlatUpdatesAssumption
<1> HIDE DEF v
<1>4. /\ Stored(batch')
      /\ DOMAIN batch' = {k} \cup DOMAIN batch
      /\ batch'[k] = v
      /\ \A j \in DOMAIN batch : j # k => batch'[j] = batch[j]
  <2>1. batch' = Set(k, v, batch) /\ Stored(batch)
    BY <1>1, <1>2
  <2> QED
    BY <2>1, <1>3, SetStored, Zenon
<1>5. DOMAIN batch' = DOMAIN updates' \ todo'
  BY <1>1, <1>2, <1>4
<1>6. \A j \in DOMAIN batch' : batch'[j] = Extended(Loaded(db, j), updates[j])
  BY <1>2, <1>4 DEF v
<1> QED
  BY <1>1, <1>2, <1>4, <1>5, <1>6 DEF FlatInv

\* What Commit makes of a key: its value extended by its list.
LEMMA CommitLoads ==
  ASSUME FlatInv, Commit
  PROVE  /\ Stored(db')
         /\ \A k : Loaded(db', k) =
              IF k \in DOMAIN updates THEN Extended(Loaded(db, k), updates[k])
              ELSE Loaded(db, k)
<1>1. wpc = "keys" /\ todo = {} /\ db' = Applied(batch, db)
  BY DEF Commit
<1>2. /\ Stored(db) /\ Stored(batch) /\ DOMAIN batch = DOMAIN updates
      /\ \A k \in DOMAIN batch : batch[k] = Extended(Loaded(db, k), updates[k])
  BY <1>1 DEF FlatInv
<1> QED
  BY <1>1, <1>2, AppliedStored

LEMMA CommitInv ==
  ASSUME FlatInv, Commit
  PROVE  FlatInv'
<1>1. \A k \in DOMAIN db' : db'[k].range = db'[k].indices
  <2> SUFFICES ASSUME NEW k \in DOMAIN db'
               PROVE  db'[k].range = db'[k].indices
    OBVIOUS
  <2>1. Loaded(db', k) = db'[k]
    BY DEF Loaded
  <2>2. Loaded(db, k).range = Loaded(db, k).indices
    BY DEF Loaded, FlatInv
  <2>3. CASE k \in DOMAIN updates
    <3>1. Loaded(db', k) = Extended(Loaded(db, k), updates[k])
      BY <2>3, CommitLoads
    <3> DEFINE e == Extended(Loaded(db, k), updates[k])
    <3>2. db'[k] = e
      BY <2>1, <3>1
    <3>3. /\ e.range = Loaded(db, k).range \o updates[k]
          /\ e.indices = Loaded(db, k).indices \o updates[k]
      BY ExtendedParts
    <3>4. e.range = e.indices
      BY <2>2, <3>3
    <3> HIDE DEF e
    <3> QED
      BY <3>2, <3>4
  <2>4. CASE k \notin DOMAIN updates
    <3>1. Loaded(db', k) = Loaded(db, k)
      BY <2>4, CommitLoads
    <3> QED
      BY <2>1, <2>2, <3>1
  <2> QED
    BY <2>3, <2>4
<1>2. Stored(db') /\ batch' = NoWrites /\ wpc' = "ack"
  BY CommitLoads DEF Commit
<1> QED
  BY <1>1, <1>2, NoWritesStored DEF FlatInv, Commit

\* FlatInv is an invariant of FlatStore.
THEOREM FlatInvariant == Spec => []FlatInv
<1>1. FlatInv /\ [Next]_vars => FlatInv'
  <2> SUFFICES ASSUME FlatInv, [Next]_vars PROVE FlatInv'
    OBVIOUS
  <2>1. CASE \E u \in Updates : WriteBatch(u)
    BY <2>1, WriteBatchInv
  <2>2. CASE \E k \in Keys : ExtendKey(k)
    BY <2>2, ExtendKeyInv
  <2>3. CASE Commit
    BY <2>3, CommitInv
  <2>4. CASE StorageError
    BY <2>4, NoWritesStored DEF StorageError, FlatInv
  <2>5. CASE WriteReturn
    BY <2>5, NoWritesStored DEF WriteReturn, FlatInv
  <2>6. CASE \E r \in Readers :
               \/ \E k \in Keys : GetSubRoot(r, k) \/ \E start \in Index : Lookup(r, k, start)
               \/ ReadReturn(r)
    BY <2>6 DEF GetSubRoot, Lookup, ReadReturn, FlatInv
  <2>7. CASE Crash
    BY <2>7, NoWritesStored DEF Crash, FlatInv
  <2>8. CASE UNCHANGED vars
    BY <2>8 DEF vars, FlatInv
  <2> QED
    BY <2>1, <2>2, <2>3, <2>4, <2>5, <2>6, <2>7, <2>8 DEF Next
<1> QED
  BY <1>1, InitInv, PTL DEF Spec

-----------------------------------------------------------------------------
(* The refinement.                                                           *)

\* The abstract phase for each place WriteBatch can be at.
LEMMA PhaseOf ==
  /\ wpc = "idle" => phase = "idle"
  /\ wpc = "keys" => phase = "open"
  /\ wpc = "ack" => phase = "applied"
  /\ wpc = "failed" => phase = "rejected"
BY DEF phase

LEMMA PhaseOfNext ==
  /\ wpc' = "idle" => phase' = "idle"
  /\ wpc' = "keys" => phase' = "open"
  /\ wpc' = "ack" => phase' = "applied"
  /\ wpc' = "failed" => phase' = "rejected"
BY DEF phase

LEMMA LogUnchanged == ASSUME UNCHANGED db PROVE UNCHANGED log
BY DEF log

LEMMA InitRefines == Init => Promise!Init
<1> SUFFICES ASSUME Init PROVE Promise!Init
  OBVIOUS
<1>1. log = [k \in Keys |-> <<>>]
  BY DEF Init, log, Loaded, NoWrites
<1> QED
  BY <1>1, PhaseOf DEF Init, Promise!Init

\* The commit appends every list of the batch to its key's log, and no other.
LEMMA CommitRefines ==
  ASSUME FlatInv, Commit
  PROVE  Promise!Apply
<1>1. /\ wpc = "keys" /\ wpc' = "ack" /\ UNCHANGED <<updates, rd>>
      /\ \A k \in DOMAIN updates : InOrder(updates[k])
  BY DEF Commit, FlatInv
<1>2. \A k \in DOMAIN updates : Promise!Sorted(updates[k])
  BY <1>1 DEF InOrder, Promise!Sorted
<1>3. log' = [k \in Keys |-> IF k \in DOMAIN updates THEN log[k] \o updates[k]
                                                     ELSE log[k]]
  <2>1. log' = [k \in Keys |-> Loaded(db', k).indices]
    BY DEF log
  <2>2. ASSUME NEW k \in Keys
        PROVE  Loaded(db', k).indices =
                 IF k \in DOMAIN updates THEN log[k] \o updates[k] ELSE log[k]
    <3>1. log[k] = Loaded(db, k).indices
      BY DEF log
    <3>2. Loaded(db', k) = IF k \in DOMAIN updates
                           THEN Extended(Loaded(db, k), updates[k]) ELSE Loaded(db, k)
      BY CommitLoads
    <3> QED
      BY <3>1, <3>2 DEF Extended
  <2> QED
    BY <2>1, <2>2
<1> QED
  BY <1>1, <1>2, <1>3, PhaseOf, PhaseOfNext DEF Promise!Apply

\* Roots are taken from the range, which is the log.
LEMMA ReadRefines ==
  ASSUME FlatInv, NEW r \in Readers,
         \/ \E k \in Keys : GetSubRoot(r, k) \/ \E start \in Index : Lookup(r, k, start)
         \/ ReadReturn(r)
  PROVE  \/ \E k \in Keys : \/ Promise!GetSubRoot(r, k)
                            \/ \E start \in Index : Promise!Lookup(r, k, start)
         \/ Promise!ReadReturn(r)
<1>1. CASE ReadReturn(r)
  <2>1. UNCHANGED <<log, phase>>
    BY <1>1 DEF ReadReturn, log, phase
  <2> QED
    BY <1>1, <2>1 DEF ReadReturn, Promise!ReadReturn
<1>2. ASSUME NEW k \in Keys, GetSubRoot(r, k) PROVE Promise!GetSubRoot(r, k)
  <2>1. UNCHANGED <<log, phase>>
    BY <1>2 DEF GetSubRoot, log, phase
  <2>2. Loaded(db, k).range = log[k]
    BY DEF Loaded, FlatInv, log
  <2> QED
    BY <1>2, <2>1, <2>2 DEF GetSubRoot, Answer, Promise!GetSubRoot
<1>3. ASSUME NEW k \in Keys, NEW start \in Index, Lookup(r, k, start)
      PROVE  Promise!Lookup(r, k, start)
  <2>1. UNCHANGED <<log, phase>>
    BY <1>3 DEF Lookup, log, phase
  <2>2. Loaded(db, k).indices = log[k]
    BY DEF log
  <2> QED
    BY <1>3, <2>1, <2>2 DEF Lookup, Answer, From, Promise!Lookup, Promise!From
<1> QED
  BY <1>1, <1>2, <1>3

\* Every step is a step of IndexStore or leaves its state alone.
LEMMA StepRefines ==
  ASSUME FlatInv, [Next]_vars
  PROVE  [Promise!Next]_(Promise!vars)
<1>1. CASE \E u \in Updates : WriteBatch(u)
  <2> PICK u \in Updates : WriteBatch(u)
    BY <1>1
  <2>1. Promise!WriteBatch(u)
    BY LogUnchanged, PhaseOf, PhaseOfNext DEF WriteBatch, Promise!WriteBatch
  <2> QED
    BY <2>1 DEF Promise!Next
<1>2. CASE \E k \in Keys : ExtendKey(k)
  BY <1>2, LogUnchanged DEF ExtendKey, phase, Promise!vars
<1>3. CASE Commit
  BY <1>3, CommitRefines DEF Promise!Next
<1>4. CASE StorageError
  <2>1. Promise!Reject
    BY <1>4, LogUnchanged, PhaseOf, PhaseOfNext DEF StorageError, Promise!Reject
  <2> QED
    BY <2>1 DEF Promise!Next
<1>5. CASE WriteReturn
  <2>1. Promise!WriteReturn
    BY <1>5, LogUnchanged, PhaseOf, PhaseOfNext DEF WriteReturn, Promise!WriteReturn
  <2> QED
    BY <2>1 DEF Promise!Next
<1>6. CASE \E r \in Readers :
             \/ \E k \in Keys : GetSubRoot(r, k) \/ \E start \in Index : Lookup(r, k, start)
             \/ ReadReturn(r)
  BY <1>6, ReadRefines DEF Promise!Next
<1>7. CASE Crash
  <2>1. Promise!Crash
    BY <1>7, LogUnchanged, PhaseOfNext DEF Crash, Promise!Crash
  <2> QED
    BY <2>1 DEF Promise!Next
<1>8. CASE UNCHANGED vars
  BY <1>8 DEF vars, log, phase, Promise!vars
<1> QED
  BY <1>1, <1>2, <1>3, <1>4, <1>5, <1>6, <1>7, <1>8 DEF Next

\* FlatStore keeps the promise of the IndexStore interface.
THEOREM FlatRefines == Spec => RefinesIndexStore
<1> QED
  BY InitRefines, StepRefines, FlatInvariant, PTL DEF Spec, RefinesIndexStore, Promise!Spec
=============================================================================
