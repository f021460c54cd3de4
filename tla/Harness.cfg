CONSTANTS
  Readers = {r1, r2}
  NumBatches = 3
  BatchSize = 2
  TargetVal = 2
  Limited = TRUE
  MaxReads = 2
  Queue <- MCQueue
  MaxKills = 1
SPECIFICATION CommandSpec
INVARIANTS HarnessTypeOK NoReadAfterClose RecentReadsHit CountsHandedOver NothingLeftOpen BatchesAreNew
PROPERTIES BenchmarkReturns
CHECK_DEADLOCK FALSE
