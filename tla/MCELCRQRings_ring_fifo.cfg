SPECIFICATION Spec
CONSTANTS
  p1 = p1
  c1 = c1
  c2 = c2
  a = a
  b = b
  c = c
  EMPTY = EMPTY
  Producers = {p1}
  Consumers = {c1, c2}
  Threads = {p1, c1, c2}
  Items = {a, b, c}
  RING_SIZE = 2
  CLOSE_TRIES = 2
  SPIN_LIMIT = 1
  SPIN_RELOAD = 2
  WORD = 64
  MaxRings = 1
  MaxTicket = 4
  MaxCalls = 3
SYMMETRY Symmetry
\* a thread that has used up its calls, tickets or memory stops
CHECK_DEADLOCK FALSE
INVARIANTS
  FifoInFirstRing
  NoItemStranded
