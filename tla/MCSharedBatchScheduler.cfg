SPECIFICATION MCSpec
CONSTANTS
  q1 = q1
  q2 = q2
  small1 = small1
  small2 = small2
  small3 = small3
  full = full
  big = big
  Queues = {q1, q2}
  Threads = {t1, t2}
  Tasks = {small1, small2, small3, full, big}
  QueueOf <- TaskQueue
  SizeOf <- TaskSize
  Asking = {q1}
  MaxBatchSize = 2
  MaxEnqueued = 2
  SizeBits = 3
  IntBits = 3
  End = End
CHECK_DEADLOCK FALSE
INVARIANTS
  KeptWhileUsed
  CloseCovers
  CapacityKept
PROPERTY
  TasksProcessed
