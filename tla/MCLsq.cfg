SPECIFICATION FairSpec
CONSTANTS
  Addrs <- MCAddrs
  Block <- MCBlock
  Shapes <- MCShapes
  MaxInstrs = 4
  ROB_SIZE = 3
  LQ_SIZE = 3
  SQ_SIZE = 2
INVARIANTS LoadsSeeProgramOrder EveryOperationFinishesOnce QueuesConsistent
PROPERTIES AllComplete
CHECK_DEADLOCK FALSE
