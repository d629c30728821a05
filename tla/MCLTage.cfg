SPECIFICATION LoopSpec
CONSTANTS
  TAG_WIDTHS <- MCTagWidths
  HIST_LENS <- MCHistLens
  TAGE_INDEX_BITS <- MCIndexBits
  BIMODAL_INDEX_BITS = 0
  PHIST_BITS = 0
  GHIST_BITS = 1
  PRED_MAX = 3
  U_MAX = 1
  BIMODAL_MAX = 1
  USE_ALT_MAX = 1
  RESET_USEFUL_INTERVAL = 2
  NUM_SETS = 2
  NUM_WAYS = 1
  TAG_VALUES = 2
  ITER_MAX = 3
  INIT_AGE = 1
  Ips <- MCLoop
PROPERTY LearnsRegularLoops
