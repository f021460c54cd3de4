CONSTANTS
  MaxIndex = 3
  Keys = {0, 1}
  Readers = {r1}
  MaxList = 3
  Updates <- MCUpdates
SPECIFICATION Spec
INVARIANTS LogTypeOK LatestIsLast
PROPERTIES RefinesIndexStore
