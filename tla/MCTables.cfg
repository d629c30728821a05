SPECIFICATION TablesSpec
CONSTANTS
  \* Translation
  RADIX = 2
  SLOTS = 2
  WORDS = 2
  PPAGES = 7
  LEVELS = 2
  PSCL_WAYS = 1
  WALK_RQ_SIZE = 2
  PTE_RQ_SIZE = 2
  VPages <- Pages
  CORE_RQ_SIZE = 1
  MSHR_SIZE = 1
  MAX_TAG = 1
  TAG_DEPTH = 2
  MaxRequests = 3
  \* LruTable
  NUM_SET = 2
  NUM_WAY = 2
  Indices <- LruIndices
  Tags <- LruTags
  Values <- LruValues
  MaxAccesses = 4
  \* Replacement
  POLICY_SETS = 2
  POLICY_WAYS = 2
  maxRRPV = 2
  BIP_MAX = 2
  PSEL_MAX = 3
  SHCT_MAX = 1
  RandSets <- RawSets
  AccessIps <- AccessingIps
  Regions <- TwoRegions
  MaxUses = 3
  \* BasicBtb
  Sites <- Program
  BTB_SETS = 2
  BTB_WAYS = 2
  MAX_SIZE = 2
  TRACKERS = 4
  INDIRECT_SIZE = 2
  HISTORY_BITS = 1
  MaxDepth = 3
  \* TraceReader
  buffer_size = 4
  refresh_thresh = 1
  Lengths <- FileLengths
  \* Simulation
  Operables <- Machine
  Cpus <- Cores
  clock_period <- Periods
  Phases <- PhaseLengths
  TraceLengths <- Traces
  IN_QUEUE_SIZE = 1
  DEADLOCK_CYCLE = 2
  LIVELOCK_PERIOD = 3
  LIVELOCK_MIN = 0
  \* SignaturePath
  ST_WAY = 2
  PT_SET = 1
  PT_WAY = 2
  C_SIG_MAX = 3
  SIG_BIT = 3
  SIG_SHIFT = 1
  SIG_DELTA_BIT = 3
  QUOTIENTS = 2
  MAX_GHR_ENTRY = 2
  GLOBAL_COUNTER_MAX = 1
  PF_THRESHOLD = 25
  FILL_THRESHOLD = 60
  CANDIDATES = 12
  PAGE_BLOCKS = 4
  PathBlocks <- LearntBlocks
  MaxPathDemands = 6
  \* Prefetchers
  TRACKER_WAYS = 1
  STRIDE_DEGREE = 3
  REGION_WAYS = 2
  MAX_DISTANCE = 2
  AMPM_DEGREE = 1
  PAGE_LINES = 4
  DemandIps <- TrackedIps
  DemandLines <- TrackedLines
  MaxLineDemands = 5
INVARIANTS
  TranslatedToOwnPage PagesDistinct EveryWalkIsServed
  UsedBlocksStay PredictsWhatItSaw TraceInOrder ClocksAndPhases
  PathTablesConsistent PrefetchesAreNew PredictorsSettle
PROPERTIES RetriesFindTheSameVictim AllTranslated ImplementsRecency SimulationEnds
CHECK_DEADLOCK FALSE
