CONSTANTS
  Engine = "chunk"
  ChunkSize = 2
  RelSpan = 2
  MaxUint = 4
  Keys = {0, 1}
  Readers = {r1}
  MaxList = 1
  Updates <- MCUpdates
SPECIFICATION FairSpec
INVARIANTS LookupNeverFails
PROPERTIES RefinesIndexStore CallsReturn
