---------------------------- MODULE PebbleBench ----------------------------
(***************************************************************************)
(* The pebble-bench command around RunBenchmark: for each engine and chunk *)
(* size it removes the directory of that name, runs the benchmark in it    *)
(* and removes it again.  The process may be killed anywhere (the command  *)
(* catches no signal); what was committed stays in the directory, and the  *)
(* command is started again with the same flags.                           *)
(*                                                                         *)
(* Every benchmark numbers its indices from 0.  A directory is represented *)
(* by how many indices are committed in it.                                *)
(***************************************************************************)
EXTENDS Harness, Sequences

CONSTANTS
  Queue,     \* the directory names of the runs, in the order of the flags
  MaxKills   \* bound: how often the process is killed

ASSUME QueueAssumption == Len(Queue) \in Nat \ {0} /\ MaxKills \in Nat

VARIABLES
  cpc,       \* where main stands: clean, bench, finished, or down when killed
  pos,       \* the run it is at
  disk,      \* for each directory the indices committed in it
  kills      \* how often it was killed

command == <<cpc, pos, disk, kills>>
benchVars == <<vars, command>>

Dir == Queue[pos]
Dirs == {Queue[n] : n \in 1 .. Len(Queue)}

-----------------------------------------------------------------------------
\* RunBenchmark's locals as they are before it is called, on a store that holds
\* n indices.
Prepared(n) ==
  /\ wpc' = "start" /\ failed' = FALSE /\ i' = 0 /\ committed' = n
  /\ writerProgress' = 0 /\ cancelled' = FALSE /\ store' = "none"
  /\ rpc' = [r \in Readers |-> "none"]
  /\ seen' = [r \in Readers |-> Unseen]
  /\ local' = [r \in Readers |-> NoCounts]
  /\ stats' = [r \in Readers |-> NoCounts]

\* Mutant: the directory is only removed after a run.
CleanNothing ==
  /\ cpc = "clean"
  /\ Prepared(disk[Dir])
  /\ cpc' = "bench"
  /\ UNCHANGED <<pos, disk, kills>>

\* os.RemoveAll, NewGenerator (whose parameters main has checked), and the call.
Clean ==
  /\ cpc = "clean"
  /\ disk' = [disk EXCEPT ![Dir] = 0]
  /\ Prepared(0)
  /\ cpc' = "bench"
  /\ UNCHANGED <<pos, kills>>

\* The next engine or chunk size, or the printing of the results.
Continue ==
  IF pos < Len(Queue) THEN pos' = pos + 1 /\ cpc' = "clean"
                      ELSE pos' = pos /\ cpc' = "finished"

\* The directory cannot be removed: an error result, and no run.
CleanFails ==
  /\ cpc = "clean"
  /\ Continue
  /\ UNCHANGED <<vars, disk, kills>>

\* A step of RunBenchmark.  Its writes go to the directory.
InRun ==
  /\ cpc = "bench"
  /\ disk' = [disk EXCEPT ![Dir] = committed']
  /\ UNCHANGED <<cpc, pos, kills>>

RunBenchStep == BenchStep /\ InRun
RunReaderStep(r) == ReaderStep(r) /\ InRun

\* RunBenchmark accepts any context; the command itself passes Background, which
\* is never cancelled.
RunCancelled == ParentCancelled /\ InRun

\* RunBenchmark has returned; the deferred os.RemoveAll may fail unnoticed.
Leave ==
  /\ cpc = "bench" /\ wpc = "returned"
  /\ disk' \in {disk, [disk EXCEPT ![Dir] = 0]}
  /\ Continue
  /\ UNCHANGED <<vars, kills>>

Kill ==
  /\ cpc \in {"clean", "bench"}
  /\ kills < MaxKills
  /\ kills' = kills + 1
  /\ cpc' = "down"
  /\ Prepared(0)
  /\ UNCHANGED <<pos, disk>>

Restart ==
  /\ cpc = "down"
  /\ cpc' = "clean" /\ pos' = 1
  /\ UNCHANGED <<vars, disk, kills>>

CommandInit ==
  /\ Init
  /\ cpc = "clean" /\ pos = 1 /\ kills = 0
  /\ disk = [d \in Dirs |-> 0]

MainStep == Clean \/ CleanFails \/ RunBenchStep \/ Leave

CommandNext ==
  \/ MainStep \/ RunCancelled
  \/ \E r \in Readers : RunReaderStep(r)
  \/ Kill \/ Restart

\* Goroutines are scheduled, and store calls and timers complete.
\* Nobody has to start the command again.
CommandSpec ==
  /\ CommandInit /\ [][CommandNext]_benchVars
  /\ WF_benchVars(MainStep)
  /\ \A r \in Readers : WF_benchVars(RunReaderStep(r))

-----------------------------------------------------------------------------
(* Properties.                                                               *)

\* BatchesAreNew: whatever earlier runs, kills and failed removals left behind,
\* the indices of a batch about to be written, i * BatchSize and up, are larger
\* than all indices the directory holds.  This is what the stores assume of their
\* callers (New in NoSealStore, SealingStore and LogStore).
BatchesAreNew ==
  cpc = "bench" /\ wpc = "write" => disk[Dir] <= i * BatchSize

\* BenchmarkReturns: every RunBenchmark returns unless the process is killed, also
\* when a failed write leaves the readers' target out of reach, or when the
\* readers wait for the limiter.
BenchmarkReturns ==
  cpc = "bench" ~> wpc = "returned" \/ cpc = "down"

-----------------------------------------------------------------------------
(* The inductive invariant of the command: that of the run it is in, and that *)
(* the directory holds what the run has committed.                           *)

CommandTypeOK ==
  /\ cpc \in {"clean", "bench", "finished", "down"}
  /\ pos \in 1 .. Len(Queue)
  /\ disk \in [Dirs -> Nat]
  /\ kills \in 0 .. MaxKills

\* CommandInv: every run starts from an empty directory, whatever an earlier run,
\* a kill or a failed removal left there, and writes only what it commits.
CommandInv ==
  /\ RunInv
  /\ CommandTypeOK
  /\ cpc = "bench" => disk[Dir] = committed
=============================================================================
