SPECIFICATION ControlledSpec
CONSTANTS
  Unit = 10000
  Timeout = 645
  Samples = 1499
  Track <- MCTrack
INVARIANTS ScriptedVerdicts RunsToTimeout
