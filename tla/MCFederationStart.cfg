SPECIFICATION Spec
CONSTANTS
  NEVER <- MCNever
  FOREVER = 9
  UINT_MAX = 1
  number_of_scheduling_nodes = 3
  StopTime = 2
  NULL = NULL
  Programs <- MCPipeline
INVARIANTS
  NoTardyMessage
CHECK_DEADLOCK FALSE
