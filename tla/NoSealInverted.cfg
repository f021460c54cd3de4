CONSTANTS
  Engine = "inverted_prefix_chunk_scan"
  ChunkSize = 2
  RelSpan = 4
  MaxUint = 4
  Keys = {0, 1}
  Readers = {r1}
  MaxList = 2
  Updates <- MCUpdates
SPECIFICATION Spec
INVARIANTS TypeOK FrontierChain LookupNeverFails
PROPERTIES SealedImmutable RefinesIndexStore
