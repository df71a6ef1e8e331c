SPECIFICATION Spec
CONSTANTS
  NEVER <- MCNever
  FOREVER = 9
  UINT_MAX = 1
  number_of_scheduling_nodes = 3
  StopTime = 2
  NULL = NULL
  Programs <- MCPrograms
INVARIANTS TypeOK NoTardyMessage NextEventSound InLevelOrder
PROPERTIES GrantKept InTagOrder AllResign
CHECK_DEADLOCK FALSE
