SPECIFICATION FairSpec
CONSTANTS
  NUM_REGISTERS = 4
  RAT_SIZE = 4
  ArchRegs <- MCArchRegs
  MaxInstrs = 4
  ROB_SIZE = 3
  SCHEDULER_SIZE = 2
  DISPATCH_WIDTH = 2
  EXEC_WIDTH = 1
  RETIRE_WIDTH = 2
  SCHEDULING_LATENCY = 1
  EXEC_LATENCY = 1
  Ops <- MCOps
INVARIANTS RegistersPartitioned SourceIsLastWriter NeverOutOfRegisters
PROPERTIES DataflowOrder AllRetire
