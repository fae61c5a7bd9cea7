SPECIFICATION Spec
CONSTANTS
  p1 = p1
  p2 = p2
  c1 = c1
  a = a
  b = b
  c = c
  EMPTY = EMPTY
  Producers = {p1, p2}
  Consumers = {c1}
  Threads = {p1, p2, c1}
  Items = {a, b, c}
  RING_SIZE = 1
  CLOSE_TRIES = 2
  SPIN_LIMIT = 0
  SPIN_RELOAD = 1
  WORD = 64
  MaxRings = 3
  MaxTicket = 3
  MaxCalls = 2
SYMMETRY Symmetry
\* a thread that has used up its calls, tickets or memory stops
CHECK_DEADLOCK FALSE
INVARIANTS
  TypeOK
  ExactlyOnce
  EmptyIsHonest
  SuccessorImpliesClosed
