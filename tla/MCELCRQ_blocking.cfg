SPECIFICATION Spec
CONSTANTS
  t1 = t1
  t2 = t2
  t3 = t3
  q1 = q1
  q2 = q2
  Threads = {t1, t2, t3}
  Queues = {q1, q2}
  Spinning = {q2}
  EPOCHS = 4
  WAITERS = 4
  MAX_PATIENCE = 1
  MaxSent = 2
INVARIANTS
  TypeOK
  WaitersCounted
  NoLostWakeup
PROPERTIES
  IsBlockingQueue
