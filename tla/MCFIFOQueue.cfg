SPECIFICATION MCSpec
CONSTANTS
  e = e
  d = d
  c = c
  m1 = m1
  m2 = m2
  Enqueues = {e}
  Dequeues = {d}
  Closes = {c}
  Args <- MCArgs
  Managers = {m1, m2}
  Cancelled = {m1}
  Capacity = 1
  None = None
INVARIANTS
  AnsweredOnce
  ElementAccounting
PROPERTY
  GuaranteedCallback
