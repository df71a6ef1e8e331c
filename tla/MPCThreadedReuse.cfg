SPECIFICATION Spec
CONSTANT MAX_TICKS = 3
INVARIANT AppliesNewSolutions
