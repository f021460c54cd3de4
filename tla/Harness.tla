------------------------------ MODULE Harness ------------------------------
(***************************************************************************)
(* harness.RunBenchmark: one goroutine writes the batches and publishes    *)
(* its progress, reader goroutines wait for a share of the writes, look    *)
(* keys up until they are cancelled, and leave their counts behind; then   *)
(* the store is closed, reopened, compacted and closed again.              *)
(*                                                                         *)
(* Of the store only the number of committed indices is kept: index i is   *)
(* found by a Lookup whose snapshot was taken when more than i indices     *)
(* were committed.  Batch b holds the indices from b * BatchSize on.       *)
(***************************************************************************)
EXTENDS Naturals

CONSTANTS
  Readers,     \* the reader goroutines (ReadConfig.NumReaders)
  NumBatches,
  BatchSize,
  TargetVal,   \* writes to wait for before reading (StartPct), 0 for none
  Limited,     \* whether there is a tokenBucket (ReadRate > 0)
  MaxReads     \* bound: Lookups a reader makes

ASSUME HarnessAssumption ==
  /\ NumBatches \in Nat \ {0} /\ BatchSize \in Nat \ {0}
  /\ TargetVal \in Nat /\ MaxReads \in Nat
  /\ Limited \in BOOLEAN

VARIABLES
  wpc,             \* where RunBenchmark stands
  failed,          \* whether it is to return an error
  i,               \* batches written
  committed,       \* indices in the store
  writerProgress,  \* the shared counter, read and written atomically
  cancelled,       \* readCtx is done
  store,           \* the store handle: none, open or closed
  rpc,             \* where each reader stands
  seen,            \* for a reader in Lookup: the limit its query was drawn
                   \* under, and the indices its snapshot holds
  local,           \* its counts so far: Lookups answered and failed
  stats            \* the counts it has handed over

bench == <<wpc, failed, i, committed, writerProgress, cancelled, store>>
vars  == <<bench, rpc, seen, local, stats>>

NoCounts == [latencies |-> 0, errors |-> 0]
Unseen   == [limit |-> 0, snapshot |-> 0]

Running(r) == rpc[r] \notin {"none", "exited"}

-----------------------------------------------------------------------------
(* RunBenchmark.                                                             *)

NewStoreFails ==
  /\ wpc = "start"
  /\ wpc' = "returned" /\ failed' = TRUE
  /\ UNCHANGED <<i, committed, writerProgress, cancelled, store, rpc, seen, local, stats>>

\* A ReadDist that names no distribution is found out after the store was opened.
RejectDist ==
  /\ wpc = "start"
  /\ Readers # {}
  /\ cancelled' = TRUE /\ store' = "closed"
  /\ wpc' = "returned" /\ failed' = TRUE
  /\ UNCHANGED <<i, committed, writerProgress, rpc, seen, local, stats>>

StartReaders ==
  /\ wpc = "start"
  /\ store' = "open"
  /\ rpc' = [r \in Readers |-> IF TargetVal > 0 THEN "await" ELSE "loop"]
  /\ wpc' = "write"
  /\ UNCHANGED <<failed, i, committed, writerProgress, cancelled, seen, local, stats>>

\* Mutant: one batch too many.
WriteBatchOnceMore ==
  /\ wpc = "write" /\ i <= NumBatches
  /\ committed' = committed + BatchSize
  /\ wpc' = "written"
  /\ UNCHANGED <<failed, i, writerProgress, cancelled, store, rpc, seen, local, stats>>

\* WriteBatch commits; its caller has not seen it return yet.
WriteBatch ==
  /\ wpc = "write" /\ i < NumBatches
  /\ committed' = committed + BatchSize
  /\ wpc' = "written"
  /\ UNCHANGED <<failed, i, writerProgress, cancelled, store, rpc, seen, local, stats>>

\* Mutant: the progress stored is that of the next batch.
StoreProgressAhead ==
  /\ wpc = "written"
  /\ writerProgress' = (i + 2) * BatchSize
  /\ i' = i + 1
  /\ wpc' = "write"
  /\ UNCHANGED <<failed, committed, cancelled, store, rpc, seen, local, stats>>

StoreProgress ==
  /\ wpc = "written"
  /\ writerProgress' = (i + 1) * BatchSize
  /\ i' = i + 1
  /\ wpc' = "write"
  /\ UNCHANGED <<failed, committed, cancelled, store, rpc, seen, local, stats>>

WriteFails ==
  /\ wpc = "write" /\ i < NumBatches
  /\ failed' = TRUE
  /\ cancelled' = TRUE
  /\ wpc' = "wait"
  /\ UNCHANGED <<i, committed, writerProgress, store, rpc, seen, local, stats>>

CancelReads ==
  /\ wpc = "write" /\ i = NumBatches
  /\ cancelled' = TRUE
  /\ wpc' = "wait"
  /\ UNCHANGED <<failed, i, committed, writerProgress, store, rpc, seen, local, stats>>

\* Mutant: the store is closed without waiting for the readers.
CloseAtOnce ==
  /\ wpc = "wait"
  /\ store' = "closed"
  /\ \/ ~failed /\ wpc' = "measure" /\ failed' = FALSE
     \/ wpc' = "returned" /\ failed' = TRUE
  /\ UNCHANGED <<i, committed, writerProgress, cancelled, rpc, seen, local, stats>>

\* wg.Wait, then the first Close, which may report an error.
WaitAndClose ==
  /\ wpc = "wait"
  /\ \A r \in Readers : ~Running(r)
  /\ store' = "closed"
  /\ \/ ~failed /\ wpc' = "measure" /\ failed' = FALSE
     \/ wpc' = "returned" /\ failed' = TRUE
  /\ UNCHANGED <<i, committed, writerProgress, cancelled, rpc, seen, local, stats>>

\* dirSize and the reopening for compaction, either of which may fail.
Reopen ==
  /\ wpc = "measure"
  /\ \/ wpc' = "compact" /\ store' = "open" /\ UNCHANGED failed
     \/ wpc' = "returned" /\ failed' = TRUE /\ UNCHANGED store
  /\ UNCHANGED <<i, committed, writerProgress, cancelled, rpc, seen, local, stats>>

\* Mutant: a failed compaction returns without closing the store.
CompactAndLeak ==
  /\ wpc = "compact"
  /\ \/ store' = "closed" /\ wpc' = "returned" /\ failed' \in BOOLEAN
     \/ store' = store /\ wpc' = "returned" /\ failed' = TRUE
  /\ UNCHANGED <<i, committed, writerProgress, cancelled, rpc, seen, local, stats>>

\* Compact and the last Close: the store is closed whether Compact fails or not.
\* The counts are summed up on the way to a successful return.
CompactAndClose ==
  /\ wpc = "compact"
  /\ store' = "closed"
  /\ wpc' = "returned" /\ failed' \in BOOLEAN
  /\ UNCHANGED <<i, committed, writerProgress, cancelled, rpc, seen, local, stats>>

\* The caller's context, from which readCtx derives, is cancelled.
ParentCancelled ==
  /\ wpc # "returned"
  /\ cancelled' = TRUE
  /\ UNCHANGED <<wpc, failed, i, committed, writerProgress, store, rpc, seen, local, stats>>

BenchStep ==
  \/ NewStoreFails \/ RejectDist \/ StartReaders
  \/ WriteBatch \/ StoreProgress \/ WriteFails \/ CancelReads
  \/ WaitAndClose \/ Reopen \/ CompactAndClose

-----------------------------------------------------------------------------
(* A reader.                                                                 *)

Goto(r, pc) == rpc' = [rpc EXCEPT ![r] = pc]

\* stats[id] is set on every way out of the read loop.
HandOver(r) ==
  /\ stats' = [stats EXCEPT ![r] = local[r]]
  /\ Goto(r, "exited")

TargetReached(r) ==
  /\ rpc[r] = "await" /\ writerProgress >= TargetVal
  /\ Goto(r, "loop")
  /\ UNCHANGED <<bench, seen, local, stats>>

\* Mutant: a reader that waits for its share of the writes is deaf to readCtx.
AwaitOnly(r) ==
  /\ rpc[r] = "await" /\ cancelled /\ writerProgress >= TargetVal
  /\ Goto(r, "exited")
  /\ UNCHANGED <<bench, seen, local, stats>>

AwaitCancelled(r) ==
  /\ rpc[r] = "await" /\ cancelled
  /\ Goto(r, "exited")
  /\ UNCHANGED <<bench, seen, local, stats>>

\* The select at the head of the loop.
LoopCancelled(r) ==
  /\ rpc[r] = "loop" /\ cancelled
  /\ HandOver(r)
  /\ UNCHANGED <<bench, seen, local>>

LoopOn(r) ==
  /\ rpc[r] = "loop" /\ ~cancelled
  /\ local[r].latencies + local[r].errors < MaxReads
  /\ Goto(r, IF Limited THEN "token" ELSE "query")
  /\ UNCHANGED <<bench, seen, local, stats>>

\* limiter.Wait: the timer and the context race.
TokenGranted(r) ==
  /\ rpc[r] = "token"
  /\ Goto(r, "query")
  /\ UNCHANGED <<bench, seen, local, stats>>

\* Mutant: the counts are not handed over when the limiter is interrupted.
TokenCancelledSilently(r) ==
  /\ rpc[r] = "token" /\ cancelled
  /\ Goto(r, "exited")
  /\ UNCHANGED <<bench, seen, local, stats>>

TokenCancelled(r) ==
  /\ rpc[r] = "token" /\ cancelled
  /\ HandOver(r)
  /\ UNCHANGED <<bench, seen, local>>

\* NextQuery: a recent index is drawn below the progress loaded here.
NextQuery(r) ==
  /\ rpc[r] = "query"
  /\ Goto(r, "begin")
  /\ seen' = [seen EXCEPT ![r].limit = writerProgress]
  /\ UNCHANGED <<bench, local, stats>>

\* Lookup opens its iterator.
LookupBegins(r) ==
  /\ rpc[r] = "begin"
  /\ Goto(r, "lookup")
  /\ seen' = [seen EXCEPT ![r].snapshot = committed]
  /\ UNCHANGED <<bench, local, stats>>

LookupAnswers(r) ==
  /\ rpc[r] = "lookup"
  /\ local' = [local EXCEPT ![r].latencies = @ + 1]
  /\ Goto(r, "loop")
  /\ seen' = [seen EXCEPT ![r] = Unseen]
  /\ UNCHANGED <<bench, stats>>

\* An error after the cancellation ends the reader and is not counted.
LookupFails(r) ==
  /\ rpc[r] = "lookup"
  /\ seen' = [seen EXCEPT ![r] = Unseen]
  /\ \/ cancelled /\ HandOver(r) /\ UNCHANGED local
     \/ /\ ~cancelled
        /\ local' = [local EXCEPT ![r].errors = @ + 1]
        /\ Goto(r, "loop") /\ UNCHANGED stats
  /\ UNCHANGED bench

ReaderStep(r) ==
  \/ TargetReached(r) \/ AwaitCancelled(r) \/ LoopCancelled(r) \/ LoopOn(r)
  \/ TokenGranted(r) \/ TokenCancelled(r) \/ NextQuery(r)
  \/ LookupBegins(r) \/ LookupAnswers(r) \/ LookupFails(r)

-----------------------------------------------------------------------------
Init ==
  /\ wpc = "start" /\ failed = FALSE /\ i = 0 /\ committed = 0
  /\ writerProgress = 0 /\ cancelled = FALSE /\ store = "none"
  /\ rpc = [r \in Readers |-> "none"]
  /\ seen = [r \in Readers |-> Unseen]
  /\ local = [r \in Readers |-> NoCounts]
  /\ stats = [r \in Readers |-> NoCounts]

Next ==
  \/ BenchStep \/ ParentCancelled
  \/ \E r \in Readers : ReaderStep(r)

Spec == Init /\ [][Next]_vars

-----------------------------------------------------------------------------
(* Properties.                                                               *)

Counts == [latencies : Nat, errors : Nat]

\* HarnessTypeOK: program counters and counters stay in their sets; in particular
\* no batch is timed past the end of the latencies slice.
HarnessTypeOK ==
  /\ wpc \in {"start", "write", "written", "wait", "measure", "compact", "returned"}
  /\ failed \in BOOLEAN /\ cancelled \in BOOLEAN
  /\ i \in 0 .. NumBatches
  /\ committed \in Nat /\ writerProgress \in Nat
  /\ store \in {"none", "open", "closed"}
  /\ rpc \in [Readers -> {"none", "await", "loop", "token", "query", "begin",
                          "lookup", "exited"}]
  /\ seen \in [Readers -> [limit : Nat, snapshot : Nat]]
  /\ local \in [Readers -> Counts] /\ stats \in [Readers -> Counts]

\* NoReadAfterClose: no reader is about to call Lookup, or is in it, on a store
\* that RunBenchmark has closed (pebble panics on a closed DB).
NoReadAfterClose ==
  \A r \in Readers : rpc[r] \in {"query", "begin", "lookup"} => store = "open"

\* RecentReadsHit: an index drawn below the published progress is found: the
\* snapshot of the Lookup it is drawn for already holds it (workload.go:124).
RecentReadsHit ==
  \A r \in Readers : rpc[r] = "lookup" => seen[r].limit <= seen[r].snapshot

\* CountsHandedOver: a reader that is gone has handed over all its counts, on
\* whichever of its four ways out it left, and it is gone when RunBenchmark has
\* passed wg.Wait and sums the counts up.
CountsHandedOver ==
  /\ \A r \in Readers : rpc[r] = "exited" => stats[r] = local[r]
  /\ wpc \in {"measure", "compact", "returned"} => \A r \in Readers : ~Running(r)

\* NothingLeftOpen: on every return, with an error or without, the store is
\* closed, readCtx is released and no reader runs.
NothingLeftOpen ==
  wpc = "returned" => /\ store # "open"
                      /\ store = "closed" => cancelled
                      /\ \A r \in Readers : ~Running(r)

-----------------------------------------------------------------------------
(* The inductive invariant behind these properties.                          *)

\* Batches written and batches published, whichever step of the writer is next.
ProgressPublished ==
  /\ writerProgress = i * BatchSize
  /\ committed = (IF wpc = "written" THEN i + 1 ELSE i) * BatchSize
  /\ wpc = "written" => i < NumBatches

\* Which handle RunBenchmark holds where, and from where on readCtx is done.
StoreFollows ==
  /\ wpc = "start" => store = "none"
  /\ wpc \in {"write", "written", "wait", "compact"} => store = "open"
  /\ wpc = "measure" => store = "closed"
  /\ wpc = "returned" => store # "open"
  /\ wpc \in {"wait", "measure", "compact"} => cancelled
  /\ wpc = "returned" /\ store = "closed" => cancelled

\* Readers run between their start and wg.Wait; one that has not begun to read, or
\* has left, has no counts but those it handed over.
ReadersFollow ==
  \A r \in Readers :
    /\ Running(r) => wpc \in {"write", "written", "wait"}
    /\ rpc[r] \in {"none", "await", "exited"} => stats[r] = local[r]

\* A query is drawn below what is committed, so below what its snapshot holds.
QueriesCovered ==
  \A r \in Readers :
    /\ rpc[r] = "begin" => seen[r].limit <= committed
    /\ rpc[r] = "lookup" => seen[r].limit <= seen[r].snapshot

\* RunInv: the parts together, which every step of a run preserves.
RunInv ==
  /\ HarnessTypeOK /\ ProgressPublished /\ StoreFollows
  /\ ReadersFollow /\ QueriesCovered
=============================================================================
