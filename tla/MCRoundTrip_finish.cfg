SPECIFICATION RoundTripSpec
CONSTANTS
  s1 = s1
  i1 = i1
  r1 = r1
  queue12 = queue12
  queue23 = queue23
  queue32 = queue32
  queue21 = queue21
  Queues = {queue12, queue23, queue32, queue21}
  Senders = {s1}
  Intermediates = {i1}
  Receivers = {r1}
  Threads = {s1, i1, r1}
  Spinning = {}
  EPOCHS = 16
  WAITERS = 8
  MAX_PATIENCE = 1
  MaxSent = 8
  NUM_ITERS = 4
  NUM_RUNS = 1
\* the processes end, or wait for a message that does not come
CHECK_DEADLOCK FALSE
INVARIANTS
  RoundTripType
  SegmentOutlivesThreads
PROPERTIES
  SendersFinish
  RequestsArrive
