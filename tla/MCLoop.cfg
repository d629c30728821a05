SPECIFICATION HistSpec
CONSTANTS
  NUM_SETS = 1
  NUM_WAYS = 2
  TAG_VALUES = 4
  ITER_MAX = 2
  INIT_AGE = 1
  Ips <- MCLoops
  Watched <- MCWatched
  HistCap = 3
  TripsKept = 2
INVARIANTS TagsUnique ConfidentInStep ConfidentIsRegular
