CONSTANTS
  Engine = "chunk_scan"
  ChunkSize = 2
  RelSpan = 2
  MaxUint = 4
  Keys = {0}
  Readers = {r1}
  MaxList = 4
  Updates <- DuplicateUpdates
SPECIFICATION Spec
INVARIANTS LookupNeverFails
