CONSTANTS
  NEVER <- MCNever
  FOREVER = 9
  UINT_MAX = 3
  Token = {t1, t2, t3, t4}
  NULL = NULL
  Value = {v1, v2}
  out = out
  act = act
  Port = {out}
  Action = {act}
  Programs <- MCPrograms
  Delay = {1, 2}
  stop_tag <- MCStopTag
  BinLimit = 1
  MaxEvents = 3
SPECIFICATION Spec
SYMMETRY MCSymmetry
INVARIANTS Counted
PROPERTIES SharedUnchanged
CHECK_DEADLOCK FALSE
