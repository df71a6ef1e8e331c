SPECIFICATION FairSpec
CONSTANT MAX_TICKS = 3
INVARIANTS TypeOK Exclusion NoLostWakeup NoEarlyExit
PROPERTY ProgramEnds
