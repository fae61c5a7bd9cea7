SPECIFICATION Spec
CONSTANTS
  s1 = s1
  s2 = s2
  i1 = i1
  i2 = i2
  q12 = q12
  q21 = q21
  Queues = {q12, q21}
  Senders = {s1, s2}
  Intermediates = {i1, i2}
  Threads = {s1, s2, i1, i2}
  Timed = {i1}
  EPOCHS = 8
  WAITERS = 8
  MAX_PATIENCE = 4
  NUM_ITERS = 1
  NUM_RUNS = 2
INVARIANTS
  TypeOK
  DequeueNeverNull
  NoWaiterLeft
PROPERTIES
  BothProcessesFinish
