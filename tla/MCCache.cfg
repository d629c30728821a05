SPECIFICATION Spec
CONSTANTS
  x = x
  y = y
  z = z
  Blocks <- ThreeBlocks
  Offsets <- TwoWords
  NUM_WAY = 2
  MSHR_SIZE = 2
  PQ_SIZE = 1
  RQ_SIZE = 2
  WQ_SIZE = 1
  MAX_TAG = 2
  TAG_DEPTH = 2
  prefetch_as_load = FALSE
  MaxRequests = 4
  MaxPrefetches = 1
INVARIANTS OneAnswerPerMSHR EveryReadAnsweredOnce WrittenBlocksAreDirty NeverStuck
SYMMETRY Symmetry
CHECK_DEADLOCK FALSE
