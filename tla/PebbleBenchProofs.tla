------------------------- MODULE PebbleBenchProofs -------------------------
(***************************************************************************)
(* Proofs about harness.RunBenchmark and the pebble-bench command around   *)
(* it, for every set of readers, number and size of batches, queue of      *)
(* directories and number of kills.                                        *)
(***************************************************************************)
EXTENDS PebbleBench, TLAPS

-----------------------------------------------------------------------------
(* A run: every step of RunBenchmark and of a reader preserves RunInv.        *)

LEMMA NewStoreFailsKeeps ==
  ASSUME RunInv, NewStoreFails PROVE RunInv'
  <1> USE HarnessAssumption DEF NewStoreFails
  <1>1. HarnessTypeOK'
    BY DEF RunInv, HarnessTypeOK
  <1>2. ProgressPublished'
    BY DEF RunInv, HarnessTypeOK, ProgressPublished, StoreFollows
  <1>3. StoreFollows'
    BY DEF RunInv, HarnessTypeOK, StoreFollows
  <1>4. ReadersFollow'
    BY DEF RunInv, HarnessTypeOK, ReadersFollow, Running
  <1>5. QueriesCovered'
    BY DEF RunInv, HarnessTypeOK, QueriesCovered
  <1>6. QED BY <1>1, <1>2, <1>3, <1>4, <1>5 DEF RunInv

LEMMA RejectDistKeeps ==
  ASSUME RunInv, RejectDist PROVE RunInv'
  <1> USE HarnessAssumption DEF RejectDist
  <1>1. HarnessTypeOK'
    BY DEF RunInv, HarnessTypeOK
  <1>2. ProgressPublished'
    BY DEF RunInv, HarnessTypeOK, ProgressPublished, StoreFollows
  <1>3. StoreFollows'
    BY DEF RunInv, HarnessTypeOK, StoreFollows
  <1>4. ReadersFollow'
    BY DEF RunInv, HarnessTypeOK, ReadersFollow, Running
  <1>5. QueriesCovered'
    BY DEF RunInv, HarnessTypeOK, QueriesCovered
  <1>6. QED BY <1>1, <1>2, <1>3, <1>4, <1>5 DEF RunInv

LEMMA StartReadersKeeps ==
  ASSUME RunInv, StartReaders PROVE RunInv'
  <1> USE HarnessAssumption DEF StartReaders
  <1>1. HarnessTypeOK'
    BY DEF RunInv, HarnessTypeOK
  <1>2. ProgressPublished'
    BY DEF RunInv, HarnessTypeOK, ProgressPublished, StoreFollows
  <1>3. StoreFollows'
    BY DEF RunInv, HarnessTypeOK, StoreFollows
  <1>4. ReadersFollow'
    BY DEF RunInv, HarnessTypeOK, ReadersFollow, Running
  <1>5. QueriesCovered'
    BY DEF RunInv, HarnessTypeOK, QueriesCovered
  <1>6. QED BY <1>1, <1>2, <1>3, <1>4, <1>5 DEF RunInv

LEMMA WriteBatchKeeps ==
  ASSUME RunInv, WriteBatch PROVE RunInv'
  <1> USE HarnessAssumption DEF WriteBatch
  <1>1. HarnessTypeOK'
    BY DEF RunInv, HarnessTypeOK
  <1>2. ProgressPublished'
    BY DEF RunInv, HarnessTypeOK, ProgressPublished, StoreFollows
  <1>3. StoreFollows'
    BY DEF RunInv, HarnessTypeOK, StoreFollows
  <1>4. ReadersFollow'
    BY DEF RunInv, HarnessTypeOK, ReadersFollow, Running
  <1>5. QueriesCovered'
    BY DEF RunInv, HarnessTypeOK, QueriesCovered
  <1>6. QED BY <1>1, <1>2, <1>3, <1>4, <1>5 DEF RunInv

LEMMA StoreProgressKeeps ==
  ASSUME RunInv, StoreProgress PROVE RunInv'
  <1> USE HarnessAssumption DEF StoreProgress
  <1>1. HarnessTypeOK'
    BY DEF RunInv, HarnessTypeOK, ProgressPublished
  <1>2. ProgressPublished'
    BY DEF RunInv, HarnessTypeOK, ProgressPublished, StoreFollows
  <1>3. StoreFollows'
    BY DEF RunInv, HarnessTypeOK, StoreFollows
  <1>4. ReadersFollow'
    BY DEF RunInv, HarnessTypeOK, ReadersFollow, Running
  <1>5. QueriesCovered'
    BY DEF RunInv, HarnessTypeOK, QueriesCovered
  <1>6. QED BY <1>1, <1>2, <1>3, <1>4, <1>5 DEF RunInv

LEMMA WriteFailsKeeps ==
  ASSUME RunInv, WriteFails PROVE RunInv'
  <1> USE HarnessAssumption DEF WriteFails
  <1>1. HarnessTypeOK'
    BY DEF RunInv, HarnessTypeOK
  <1>2. ProgressPublished'
    BY DEF RunInv, HarnessTypeOK, ProgressPublished, StoreFollows
  <1>3. StoreFollows'
    BY DEF RunInv, HarnessTypeOK, StoreFollows
  <1>4. ReadersFollow'
    BY DEF RunInv, HarnessTypeOK, ReadersFollow, Running
  <1>5. QueriesCovered'
    BY DEF RunInv, HarnessTypeOK, QueriesCovered
  <1>6. QED BY <1>1, <1>2, <1>3, <1>4, <1>5 DEF RunInv

LEMMA CancelReadsKeeps ==
  ASSUME RunInv, CancelReads PROVE RunInv'
  <1> USE HarnessAssumption DEF CancelReads
  <1>1. HarnessTypeOK'
    BY DEF RunInv, HarnessTypeOK
  <1>2. ProgressPublished'
    BY DEF RunInv, HarnessTypeOK, ProgressPublished, StoreFollows
  <1>3. StoreFollows'
    BY DEF RunInv, HarnessTypeOK, StoreFollows
  <1>4. ReadersFollow'
    BY DEF RunInv, HarnessTypeOK, ReadersFollow, Running
  <1>5. QueriesCovered'
    BY DEF RunInv, HarnessTypeOK, QueriesCovered
  <1>6. QED BY <1>1, <1>2, <1>3, <1>4, <1>5 DEF RunInv

LEMMA WaitAndCloseKeeps ==
  ASSUME RunInv, WaitAndClose PROVE RunInv'
  <1> USE HarnessAssumption DEF WaitAndClose
  <1>1. HarnessTypeOK'
    BY DEF RunInv, HarnessTypeOK
  <1>2. ProgressPublished'
    BY DEF RunInv, HarnessTypeOK, ProgressPublished, StoreFollows
  <1>3. StoreFollows'
    BY DEF RunInv, HarnessTypeOK, StoreFollows
  <1>4. ReadersFollow'
    BY DEF RunInv, HarnessTypeOK, ReadersFollow, Running
  <1>5. QueriesCovered'
    BY DEF RunInv, HarnessTypeOK, QueriesCovered
  <1>6. QED BY <1>1, <1>2, <1>3, <1>4, <1>5 DEF RunInv

LEMMA ReopenKeeps ==
  ASSUME RunInv, Reopen PROVE RunInv'
  <1> USE HarnessAssumption DEF Reopen
  <1>1. HarnessTypeOK'
    BY DEF RunInv, HarnessTypeOK
  <1>2. ProgressPublished'
    BY DEF RunInv, HarnessTypeOK, ProgressPublished, StoreFollows
  <1>3. StoreFollows'
    BY DEF RunInv, HarnessTypeOK, StoreFollows
  <1>4. ReadersFollow'
    BY DEF RunInv, HarnessTypeOK, ReadersFollow, Running
  <1>5. QueriesCovered'
    BY DEF RunInv, HarnessTypeOK, QueriesCovered
  <1>6. QED BY <1>1, <1>2, <1>3, <1>4, <1>5 DEF RunInv

LEMMA CompactAndCloseKeeps ==
  ASSUME RunInv, CompactAndClose PROVE RunInv'
  <1> USE HarnessAssumption DEF CompactAndClose
  <1>1. HarnessTypeOK'
    BY DEF RunInv, HarnessTypeOK
  <1>2. ProgressPublished'
    BY DEF RunInv, HarnessTypeOK, ProgressPublished, StoreFollows
  <1>3. StoreFollows'
    BY DEF RunInv, HarnessTypeOK, StoreFollows
  <1>4. ReadersFollow'
    BY DEF RunInv, HarnessTypeOK, ReadersFollow, Running
  <1>5. QueriesCovered'
    BY DEF RunInv, HarnessTypeOK, QueriesCovered
  <1>6. QED BY <1>1, <1>2, <1>3, <1>4, <1>5 DEF RunInv

LEMMA ParentCancelledKeeps ==
  ASSUME RunInv, ParentCancelled PROVE RunInv'
  <1> USE HarnessAssumption DEF ParentCancelled
  <1>1. HarnessTypeOK'
    BY DEF RunInv, HarnessTypeOK
  <1>2. ProgressPublished'
    BY DEF RunInv, HarnessTypeOK, ProgressPublished, StoreFollows
  <1>3. StoreFollows'
    BY DEF RunInv, HarnessTypeOK, StoreFollows
  <1>4. ReadersFollow'
    BY DEF RunInv, HarnessTypeOK, ReadersFollow, Running
  <1>5. QueriesCovered'
    BY DEF RunInv, HarnessTypeOK, QueriesCovered
  <1>6. QED BY <1>1, <1>2, <1>3, <1>4, <1>5 DEF RunInv

LEMMA TargetReachedKeeps ==
  ASSUME RunInv, NEW r \in Readers, TargetReached(r) PROVE RunInv'
  <1> USE HarnessAssumption DEF TargetReached, Goto, HandOver, bench
  <1>1. HarnessTypeOK'
    BY DEF RunInv, HarnessTypeOK, Counts, Unseen
  <1>2. ProgressPublished' /\ StoreFollows'
    BY DEF RunInv, ProgressPublished, StoreFollows
  <1>3. ReadersFollow'
    BY DEF RunInv, HarnessTypeOK, ReadersFollow, Running
  <1>4. QueriesCovered'
    BY DEF RunInv, HarnessTypeOK, QueriesCovered, ProgressPublished
  <1>5. QED BY <1>1, <1>2, <1>3, <1>4 DEF RunInv

LEMMA AwaitCancelledKeeps ==
  ASSUME RunInv, NEW r \in Readers, AwaitCancelled(r) PROVE RunInv'
  <1> USE HarnessAssumption DEF AwaitCancelled, Goto, HandOver, bench
  <1>1. HarnessTypeOK'
    BY DEF RunInv, HarnessTypeOK, Counts, Unseen
  <1>2. ProgressPublished' /\ StoreFollows'
    BY DEF RunInv, ProgressPublished, StoreFollows
  <1>3. ReadersFollow'
    BY DEF RunInv, HarnessTypeOK, ReadersFollow, Running
  <1>4. QueriesCovered'
    BY DEF RunInv, HarnessTypeOK, QueriesCovered, ProgressPublished
  <1>5. QED BY <1>1, <1>2, <1>3, <1>4 DEF RunInv

LEMMA LoopCancelledKeeps ==
  ASSUME RunInv, NEW r \in Readers, LoopCancelled(r) PROVE RunInv'
  <1> USE HarnessAssumption DEF LoopCancelled, Goto, HandOver, bench
  <1>1. HarnessTypeOK'
    BY DEF RunInv, HarnessTypeOK, Counts, Unseen
  <1>2. ProgressPublished' /\ StoreFollows'
    BY DEF RunInv, ProgressPublished, StoreFollows
  <1>3. ReadersFollow'
    BY DEF RunInv, HarnessTypeOK, ReadersFollow, Running
  <1>4. QueriesCovered'
    BY DEF RunInv, HarnessTypeOK, QueriesCovered, ProgressPublished
  <1>5. QED BY <1>1, <1>2, <1>3, <1>4 DEF RunInv

LEMMA LoopOnKeeps ==
  ASSUME RunInv, NEW r \in Readers, LoopOn(r) PROVE RunInv'
  <1> USE HarnessAssumption DEF LoopOn, Goto, HandOver, bench
  <1>1. HarnessTypeOK'
    BY DEF RunInv, HarnessTypeOK, Counts, Unseen
  <1>2. ProgressPublished' /\ StoreFollows'
    BY DEF RunInv, ProgressPublished, StoreFollows
  <1>3. ReadersFollow'
    BY DEF RunInv, HarnessTypeOK, ReadersFollow, Running
  <1>4. QueriesCovered'
    BY DEF RunInv, HarnessTypeOK, QueriesCovered, ProgressPublished
  <1>5. QED BY <1>1, <1>2, <1>3, <1>4 DEF RunInv

LEMMA TokenGrantedKeeps ==
  ASSUME RunInv, NEW r \in Readers, TokenGranted(r) PROVE RunInv'
  <1> USE HarnessAssumption DEF TokenGranted, Goto, HandOver, bench
  <1>1. HarnessTypeOK'
    BY DEF RunInv, HarnessTypeOK, Counts, Unseen
  <1>2. ProgressPublished' /\ StoreFollows'
    BY DEF RunInv, ProgressPublished, StoreFollows
  <1>3. ReadersFollow'
    BY DEF RunInv, HarnessTypeOK, ReadersFollow, Running
  <1>4. QueriesCovered'
    BY DEF RunInv, HarnessTypeOK, QueriesCovered, ProgressPublished
  <1>5. QED BY <1>1, <1>2, <1>3, <1>4 DEF RunInv

LEMMA TokenCancelledKeeps ==
  ASSUME RunInv, NEW r \in Readers, TokenCancelled(r) PROVE RunInv'
  <1> USE HarnessAssumption DEF TokenCancelled, Goto, HandOver, bench
  <1>1. HarnessTypeOK'
    BY DEF RunInv, HarnessTypeOK, Counts, Unseen
  <1>2. ProgressPublished' /\ StoreFollows'
    BY DEF RunInv, ProgressPublished, StoreFollows
  <1>3. ReadersFollow'
    BY DEF RunInv, HarnessTypeOK, ReadersFollow, Running
  <1>4. QueriesCovered'
    BY DEF RunInv, HarnessTypeOK, QueriesCovered, ProgressPublished
  <1>5. QED BY <1>1, <1>2, <1>3, <1>4 DEF RunInv

LEMMA NextQueryKeeps ==
  ASSUME RunInv, NEW r \in Readers, NextQuery(r) PROVE RunInv'
  <1> USE HarnessAssumption DEF NextQuery, Goto, HandOver, bench
  <1>1. HarnessTypeOK'
    BY DEF RunInv, HarnessTypeOK, Counts, Unseen
  <1>2. ProgressPublished' /\ StoreFollows'
    BY DEF RunInv, ProgressPublished, StoreFollows
  <1>3. ReadersFollow'
    BY DEF RunInv, HarnessTypeOK, ReadersFollow, Running
  <1>4. QueriesCovered'
    BY DEF RunInv, HarnessTypeOK, QueriesCovered, ProgressPublished
  <1>5. QED BY <1>1, <1>2, <1>3, <1>4 DEF RunInv

LEMMA LookupBeginsKeeps ==
  ASSUME RunInv, NEW r \in Readers, LookupBegins(r) PROVE RunInv'
  <1> USE HarnessAssumption DEF LookupBegins, Goto, HandOver, bench
  <1>1. HarnessTypeOK'
    BY DEF RunInv, HarnessTypeOK, Counts, Unseen
  <1>2. ProgressPublished' /\ StoreFollows'
    BY DEF RunInv, ProgressPublished, StoreFollows
  <1>3. ReadersFollow'
    BY DEF RunInv, HarnessTypeOK, ReadersFollow, Running
  <1>4. QueriesCovered'
    BY DEF RunInv, HarnessTypeOK, QueriesCovered, ProgressPublished
  <1>5. QED BY <1>1, <1>2, <1>3, <1>4 DEF RunInv

LEMMA LookupAnswersKeeps ==
  ASSUME RunInv, NEW r \in Readers, LookupAnswers(r) PROVE RunInv'
  <1> USE HarnessAssumption DEF LookupAnswers, Goto, HandOver, bench
  <1>1. HarnessTypeOK'
    BY DEF RunInv, HarnessTypeOK, Counts, Unseen
  <1>2. ProgressPublished' /\ StoreFollows'
    BY DEF RunInv, ProgressPublished, StoreFollows
  <1>3. ReadersFollow'
    BY DEF RunInv, HarnessTypeOK, ReadersFollow, Running
  <1>4. QueriesCovered'
    BY DEF RunInv, HarnessTypeOK, QueriesCovered, ProgressPublished
  <1>5. QED BY <1>1, <1>2, <1>3, <1>4 DEF RunInv

LEMMA LookupFailsKeeps ==
  ASSUME RunInv, NEW r \in Readers, LookupFails(r) PROVE RunInv'
  <1> USE HarnessAssumption DEF LookupFails, Goto, HandOver, bench
  <1>1. HarnessTypeOK'
    <2>1. /\ rpc' = [rpc EXCEPT ![r] = "exited"] \/ rpc' = [rpc EXCEPT ![r] = "loop"]
          /\ seen' = [seen EXCEPT ![r] = [limit |-> 0, snapshot |-> 0]]
          /\ stats' = stats \/ stats' = [stats EXCEPT ![r] = local[r]]
      BY DEF Unseen
    <2>2. local' = local \/ local' = [local EXCEPT ![r].errors = @ + 1]
      OBVIOUS
    <2>3. local' \in [Readers -> Counts]
      <3>1. local \in [Readers -> Counts] /\ local[r] \in Counts
        BY DEF RunInv, HarnessTypeOK
      <3>2. [local[r] EXCEPT !.errors = @ + 1] \in Counts
        BY <3>1 DEF Counts
      <3> HIDE DEF LookupFails
      <3>3. QED BY <2>2, <3>1, <3>2
    <2>4. stats' \in [Readers -> Counts]
      BY <2>1 DEF RunInv, HarnessTypeOK
    <2>5. seen' \in [Readers -> [limit : Nat, snapshot : Nat]]
      BY <2>1 DEF RunInv, HarnessTypeOK
    <2>6. rpc' \in [Readers -> {"none", "await", "loop", "token", "query", "begin",
                               "lookup", "exited"}]
      BY <2>1 DEF RunInv, HarnessTypeOK
    <2>7. UNCHANGED <<wpc, failed, i, committed, writerProgress, cancelled, store>>
      OBVIOUS
    <2>8. HarnessTypeOK
      BY DEF RunInv
    <2> HIDE DEF LookupFails
    <2>9. QED BY <2>3, <2>4, <2>5, <2>6, <2>7, <2>8 DEF HarnessTypeOK
  <1>2. ProgressPublished' /\ StoreFollows'
    BY DEF RunInv, ProgressPublished, StoreFollows
  <1>3. ReadersFollow'
    BY DEF RunInv, HarnessTypeOK, ReadersFollow, Running
  <1>4. QueriesCovered'
    BY DEF RunInv, HarnessTypeOK, QueriesCovered, ProgressPublished
  <1>5. QED BY <1>1, <1>2, <1>3, <1>4 DEF RunInv

LEMMA BenchKeeps ==
  ASSUME RunInv, BenchStep \/ ParentCancelled PROVE RunInv'
  BY NewStoreFailsKeeps, RejectDistKeeps, StartReadersKeeps, WriteBatchKeeps,
     StoreProgressKeeps, WriteFailsKeeps, CancelReadsKeeps, WaitAndCloseKeeps,
     ReopenKeeps, CompactAndCloseKeeps, ParentCancelledKeeps DEF BenchStep

LEMMA ReaderKeeps ==
  ASSUME RunInv, NEW r \in Readers, ReaderStep(r) PROVE RunInv'
  BY TargetReachedKeeps, AwaitCancelledKeeps, LoopCancelledKeeps, LoopOnKeeps,
     TokenGrantedKeeps, TokenCancelledKeeps, NextQueryKeeps, LookupBeginsKeeps,
     LookupAnswersKeeps, LookupFailsKeeps DEF ReaderStep

\* A run about to be called on an empty store.
LEMMA PreparedIsInv ==
  ASSUME Prepared(0) PROVE RunInv'
  <1> USE HarnessAssumption DEF Prepared
  <1>0. Unseen \in [limit : Nat, snapshot : Nat] /\ NoCounts \in Counts
    BY DEF NoCounts, Unseen, Counts
  <1>1. HarnessTypeOK'
    <2>1. /\ rpc' = [r \in Readers |-> "none"]
          /\ seen' \in [Readers -> [limit : Nat, snapshot : Nat]]
          /\ local' \in [Readers -> Counts] /\ stats' \in [Readers -> Counts]
      BY <1>0
    <2>2. i' \in 0 .. NumBatches /\ committed' \in Nat /\ writerProgress' \in Nat
      OBVIOUS
    <2>3. QED BY <2>1, <2>2 DEF HarnessTypeOK
  <1>2. QED
    BY <1>1 DEF RunInv, ProgressPublished, StoreFollows, ReadersFollow, Running,
                QueriesCovered

LEMMA RunUnchanged ==
  ASSUME RunInv, UNCHANGED vars PROVE RunInv'
  BY DEF vars, bench, RunInv, HarnessTypeOK, ProgressPublished, StoreFollows,
         ReadersFollow, Running, QueriesCovered

-----------------------------------------------------------------------------
(* The command around it.                                                    *)

LEMMA InitCommand == CommandInit => CommandInv
  <1> SUFFICES ASSUME CommandInit PROVE CommandInv
    OBVIOUS
  <1> USE HarnessAssumption, QueueAssumption DEF CommandInit, Init
  <1>0. Unseen \in [limit : Nat, snapshot : Nat] /\ NoCounts \in Counts
    BY DEF NoCounts, Unseen, Counts
  <1>1. HarnessTypeOK
    <2>1. /\ rpc = [r \in Readers |-> "none"]
          /\ seen \in [Readers -> [limit : Nat, snapshot : Nat]]
          /\ local \in [Readers -> Counts] /\ stats \in [Readers -> Counts]
      BY <1>0
    <2>2. i \in 0 .. NumBatches /\ committed \in Nat /\ writerProgress \in Nat
      OBVIOUS
    <2>3. QED BY <2>1, <2>2 DEF HarnessTypeOK
  <1>2. RunInv
    BY <1>1 DEF RunInv, ProgressPublished, StoreFollows, ReadersFollow, Running,
                QueriesCovered
  <1>3. CommandTypeOK
    BY DEF CommandTypeOK
  <1>4. QED BY <1>2, <1>3 DEF CommandInv

LEMMA DirIsKnown ==
  ASSUME CommandTypeOK PROVE Dir \in Dirs /\ disk[Dir] \in Nat
  BY DEF CommandTypeOK, Dir, Dirs

\* The directory follows what the run commits.
LEMMA InRunKeeps ==
  ASSUME CommandInv, RunInv', InRun PROVE CommandInv'
  <1>1. Dir \in Dirs /\ CommandTypeOK /\ Dir' = Dir
    BY DirIsKnown DEF CommandInv, InRun, Dir
  <1>2. committed' \in Nat
    BY DEF RunInv, HarnessTypeOK
  <1>3. disk' \in [Dirs -> Nat] /\ disk'[Dir] = committed'
    BY <1>1, <1>2 DEF InRun, CommandTypeOK
  <1>4. CommandTypeOK'
    BY <1>1, <1>3 DEF CommandTypeOK, InRun
  <1>5. QED BY <1>1, <1>3, <1>4 DEF CommandInv

LEMMA CleanKeeps ==
  ASSUME CommandInv, Clean PROVE CommandInv'
  <1>1. Dir \in Dirs /\ CommandTypeOK /\ Dir' = Dir
    BY DirIsKnown DEF CommandInv, Clean, Dir
  <1>2. RunInv' /\ committed' = 0
    BY PreparedIsInv DEF Clean, Prepared
  <1>3. disk' \in [Dirs -> Nat] /\ disk'[Dir] = 0
    BY <1>1 DEF Clean, CommandTypeOK
  <1>4. CommandTypeOK'
    BY <1>1, <1>3 DEF CommandTypeOK, Clean
  <1>5. QED BY <1>1, <1>2, <1>3, <1>4 DEF CommandInv

\* Going on to the next run leaves no run, so nothing to hold of its directory.
LEMMA ContinueKeeps ==
  ASSUME CommandInv, CleanFails \/ Leave PROVE CommandInv'
  <1>1. Dir \in Dirs /\ CommandTypeOK
    BY DirIsKnown DEF CommandInv
  <1>2. RunInv'
    BY RunUnchanged DEF CommandInv, CleanFails, Leave
  <1>3. disk' \in [Dirs -> Nat]
    BY <1>1 DEF CleanFails, Leave, CommandTypeOK
  <1>4. pos' \in 1 .. Len(Queue) /\ cpc' \in {"clean", "finished"}
    BY <1>1, QueueAssumption DEF CleanFails, Leave, Continue, CommandTypeOK
  <1>5. kills' = kills
    BY DEF CleanFails, Leave
  <1>6. QED BY <1>1, <1>2, <1>3, <1>4, <1>5 DEF CommandInv, CommandTypeOK

LEMMA KillOrRestartKeeps ==
  ASSUME CommandInv, Kill \/ Restart PROVE CommandInv'
  <1>1. RunInv'
    BY PreparedIsInv, RunUnchanged DEF CommandInv, Kill, Restart
  <1>2. kills' \in 0 .. MaxKills
    BY QueueAssumption DEF CommandInv, CommandTypeOK, Kill, Restart
  <1>3. cpc' \in {"down", "clean"} /\ pos' \in 1 .. Len(Queue) /\ disk' = disk
    BY QueueAssumption DEF CommandInv, CommandTypeOK, Kill, Restart
  <1>4. QED BY <1>1, <1>2, <1>3 DEF CommandInv, CommandTypeOK

LEMMA StepCommand == CommandInv /\ [CommandNext]_benchVars => CommandInv'
  <1> SUFFICES ASSUME CommandInv, [CommandNext]_benchVars
               PROVE  CommandInv'
    OBVIOUS
  <1>1. CASE Clean
    BY <1>1, CleanKeeps
  <1>2. CASE CleanFails \/ Leave
    BY <1>2, ContinueKeeps
  <1>3. CASE RunBenchStep \/ RunCancelled
    BY <1>3, BenchKeeps, InRunKeeps DEF RunBenchStep, RunCancelled, CommandInv
  <1>4. ASSUME NEW r \in Readers, RunReaderStep(r) PROVE CommandInv'
    BY <1>4, ReaderKeeps, InRunKeeps DEF RunReaderStep, CommandInv
  <1>5. CASE Kill \/ Restart
    BY <1>5, KillOrRestartKeeps
  <1>6. CASE UNCHANGED benchVars
    <2>1. RunInv'
      BY <1>6, RunUnchanged DEF benchVars, CommandInv
    <2>2. UNCHANGED <<cpc, pos, disk, kills, committed>>
      BY <1>6 DEF benchVars, vars, bench, command
    <2>3. QED BY <2>1, <2>2 DEF CommandInv, CommandTypeOK, Dir
  <1>7. QED
    BY <1>1, <1>2, <1>3, <1>4, <1>5, <1>6 DEF CommandNext, MainStep

LEMMA CommandInvariant == CommandSpec => []CommandInv
  BY InitCommand, StepCommand, PTL DEF CommandSpec

-----------------------------------------------------------------------------
(* The theorems.                                                             *)

\* No counter leaves its range; in particular no batch is timed past the end of
\* the latencies slice.
THEOREM HarnessTypesCorrect == CommandSpec => []HarnessTypeOK
  <1>1. CommandInv => HarnessTypeOK
    BY DEF CommandInv, RunInv
  <1>2. QED BY <1>1, CommandInvariant, PTL

\* No Lookup meets a store that RunBenchmark has closed, whenever the readers are
\* cancelled and however the writer ends.
THEOREM ReadersMeetOpenStore == CommandSpec => []NoReadAfterClose
  <1>1. CommandInv => NoReadAfterClose
    BY DEF CommandInv, RunInv, NoReadAfterClose, StoreFollows, ReadersFollow, Running
  <1>2. QED BY <1>1, CommandInvariant, PTL

\* A recent index that the generator draws has been committed when it is looked up.
THEOREM RecentReadsFound == CommandSpec => []RecentReadsHit
  <1>1. CommandInv => RecentReadsHit
    BY DEF CommandInv, RunInv, RecentReadsHit, QueriesCovered
  <1>2. QED BY <1>1, CommandInvariant, PTL

\* All counts are handed over, on each way out of a reader.
THEOREM AllCountsSummed == CommandSpec => []CountsHandedOver
  <1>1. CommandInv => CountsHandedOver
    BY DEF CommandInv, RunInv, CountsHandedOver, ReadersFollow
  <1>2. QED BY <1>1, CommandInvariant, PTL

\* RunBenchmark leaves neither an open store nor a running reader behind.
THEOREM ReturnsClean == CommandSpec => []NothingLeftOpen
  <1>1. CommandInv => NothingLeftOpen
    BY DEF CommandInv, RunInv, NothingLeftOpen, StoreFollows, ReadersFollow
  <1>2. QED BY <1>1, CommandInvariant, PTL

\* What the stores assume of their callers holds in the command: a batch to be
\* written is newer than all the directory holds, after any kills and failures.
THEOREM BatchesNew == CommandSpec => []BatchesAreNew
  <1>1. ASSUME CommandInv PROVE BatchesAreNew
    <2>1. ASSUME cpc = "bench", wpc = "write" PROVE disk[Dir] <= i * BatchSize
      <3>1. disk[Dir] = i * BatchSize
        BY <1>1, <2>1 DEF CommandInv, RunInv, ProgressPublished
      <3>2. i * BatchSize \in Nat
        BY <1>1, HarnessAssumption DEF CommandInv, RunInv, HarnessTypeOK
      <3>3. QED BY <3>1, <3>2
    <2>2. QED BY <2>1 DEF BatchesAreNew
  <1>2. QED BY <1>1, CommandInvariant, PTL
=============================================================================
