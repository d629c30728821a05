SPECIFICATION Spec
CONSTANTS
  x = x
  y = y
  z = z
  Blocks <- TwoBlocks
  Offsets <- OneWord
  NUM_WAY = 1
  MSHR_SIZE = 2
  PQ_SIZE = 1
  RQ_SIZE = 2
  WQ_SIZE = 1
  MAX_TAG = 2
  TAG_DEPTH = 2
  prefetch_as_load = FALSE
  MaxRequests = 2
  MaxPrefetches = 0
INVARIANTS StoredBlocksAreDirty
CHECK_DEADLOCK FALSE
