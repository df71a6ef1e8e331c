SPECIFICATION FairSpec
CONSTANTS
  Fed = {f1, f2, f3}
  Event = {1}
  Timeouts = {1, 9}
  FOREVER = 9
INVARIANTS TypeOK GrantAhead SameStopTag
PROPERTIES StopComes
CHECK_DEADLOCK FALSE
