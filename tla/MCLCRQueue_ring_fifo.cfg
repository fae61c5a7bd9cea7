SPECIFICATION Spec
CONSTANTS
  a = a
  b = b
  EMPTY = EMPTY
  Producers = {0}
  Consumers = {1, 2}
  Threads = {0, 1, 2}
  Items = {a, b}
  RING_SIZE = 2
  CLOSE_TRIES = 2
  SPIN_LIMIT = 0
  SPIN_RELOAD = 1
  MaxNodes = 1
  MaxTicket = 3
  MaxCalls = 3
SYMMETRY Symmetry
\* a thread that has used up its calls, tickets or memory stops
CHECK_DEADLOCK FALSE
INVARIANTS
  FifoOrder
