SPECIFICATION Spec
CHECK_DEADLOCK FALSE
CONSTANTS
  Base = 8
  WordLen = 2
  OffLen = 2
  HashLen = 2
  Values <- MCValues
  Seeks <- MCSeeks
INVARIANTS DecodingInverts WrongFlagRefused CutRefusedOrPrefix BoundSeparates
