SPECIFICATION FairHistSpec
CONSTANTS
  NUM_SETS = 1
  NUM_WAYS = 1
  TAG_VALUES = 4
  ITER_MAX = 3
  INIT_AGE = 1
  Ips <- MCOneLoop
  Watched <- MCOneLoop
  HistCap = 4
  TripsKept = 2
PROPERTY IdentifiesRegularLoops
