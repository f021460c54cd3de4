CONSTANTS
  Callers = {r1, r2, r3}
  Rate = 2
  Unit = 5
  Burst = 7
  MaxTime = 12
SPECIFICATION Spec
INVARIANTS BucketTypeOK WithinRate TimersApart WaitBounded
CHECK_DEADLOCK FALSE
