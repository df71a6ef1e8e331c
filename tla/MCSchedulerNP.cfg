SPECIFICATION FairSpec
CONSTANTS
  w1 = w1 w2 = w2 w3 = w3
  a = a b = b c = c d = d
  NULL = NULL
  Worker <- MCWorker
  Reaction <- MCReaction
  Level <- MCLevel
  Triggers <- MCTriggers
  MaxLevel = 2
  MaxTags = 2
INVARIANTS TypeOK InBounds AdvancesAlone ReadsCurrentLevel NeverFatal
PROPERTIES AllWorkersExit KeepsReactionOrder
