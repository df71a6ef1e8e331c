SPECIFICATION FairSpec
CONSTANTS
  T1 = 5
  T2 = 15
  Timeout = 25
  Deadline = 1
  MaxLag = 5
INVARIANTS TypeOK LoopCloses
PROPERTIES LateThenBrake RunEnds
