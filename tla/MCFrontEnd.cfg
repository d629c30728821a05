SPECIFICATION MCSpec
CONSTANTS
  MaxInstrs = 4
  Blocks = {b1, b2}
  IFETCH_BUFFER_SIZE = 3
  DIB_HIT_BUFFER_SIZE = 2
  DECODE_BUFFER_SIZE = 2
  DISPATCH_BUFFER_SIZE = 2
INVARIANTS DispatchInOrder StalledByTheYoungest
PROPERTY TraceDispatched
