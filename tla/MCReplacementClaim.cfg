SPECIFICATION PolicySpec
CONSTANTS
  POLICY_SETS = 2
  POLICY_WAYS = 2
  maxRRPV = 2
  BIP_MAX = 2
  PSEL_MAX = 3
  SHCT_MAX = 1
  RandSets <- MCRandSets
  AccessIps = {"x"}
  Regions = {"a", "b"}
  MaxUses = 3
INVARIANT FillsAreReported
CHECK_DEADLOCK FALSE
