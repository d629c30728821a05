SPECIFICATION LearnSpec
CONSTANTS
  TAG_WIDTHS <- MCTagWidths
  HIST_LENS <- MCHistLens
  TAGE_INDEX_BITS <- MCIndexBits
  BIMODAL_INDEX_BITS = 0
  PHIST_BITS = 1
  GHIST_BITS = 2
  PRED_MAX = 3
  U_MAX = 3
  BIMODAL_MAX = 1
  USE_ALT_MAX = 1
  RESET_USEFUL_INTERVAL = 2
  Ips <- MCIps
PROPERTIES OnlyMatchingEntriesTrained AllocationDiscipline LearnsSettled
