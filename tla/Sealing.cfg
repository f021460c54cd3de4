CONSTANTS
  ChunkSize = 2
  RelSpan = 2
  MaxUint = 4
  Keys = {0, 1}
  Readers = {r1}
  MaxList = 2
  Updates <- MCUpdates
SPECIFICATION FairSpec
INVARIANTS SealingTypeOK ReadInv SealsAgree ReadsNeverFail
PROPERTIES SealedOnce WalkDescends RefinesIndexStore CallsReturn
