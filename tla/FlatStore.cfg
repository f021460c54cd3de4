CONSTANTS
  Index = {0, 1, 2}
  Keys = {0, 1}
  Readers = {r1}
  Updates <- MCUpdates
  MaxLog = 3
SPECIFICATION Spec
INVARIANTS FlatInv
PROPERTIES RefinesIndexStore
