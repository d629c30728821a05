SPECIFICATION Spec
CONSTANTS
  CHANNEL_BITS = 0
  BANKGROUP_BITS = 1
  BANK_BITS = 0
  COLUMN_BITS = 0
  RANK_BITS = 0
  ROW_BITS = 1
  RQ_SIZE = 2
  WQ_SIZE = 2
  tRP = 1
  tRCD = 1
  tCAS = 2
  tRFC = 2
  tREF = 5
  TURN_AROUND = 1
  RETURN_TIME = 2
  BANKGROUP_STALL = 0
  Used <- ThreeAddresses
  MaxReads = 2
  MaxWrites = 3
INVARIANTS RequestsKept
PROPERTIES RefreshNotForgotten AllServed
CHECK_DEADLOCK FALSE
