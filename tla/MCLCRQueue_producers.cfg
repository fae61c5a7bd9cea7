SPECIFICATION Spec
CONSTANTS
  a = a
  b = b
  EMPTY = EMPTY
  Producers = {0, 1}
  Consumers = {2}
  Threads = {0, 1, 2}
  Items = {a, b}
  RING_SIZE = 1
  CLOSE_TRIES = 2
  SPIN_LIMIT = 1
  SPIN_RELOAD = 2
  MaxNodes = 2
  MaxTicket = 4
  MaxCalls = 2
SYMMETRY Symmetry
\* a thread that has used up its calls, tickets or memory stops
CHECK_DEADLOCK FALSE
INVARIANTS
  TypeOK
  NoItemLost
  EmptyIsHonest
  
