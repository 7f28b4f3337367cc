SPECIFICATION MCFairSpec
CONSTANTS
  s1 = s1
  s2 = s2
  r3 = r3
  Steps = {s1, s2}
  Remotes = {r1, r3}
  Locals = {l1}
  SameWorker = {}
  Aborters = {a1}
  StepOf <- MCStepOf
  Cancellable = {s1}
  MaxRetries = 1
  OK = OK
  Cancelled = Cancelled
  Unavailable = Unavailable
  Internal = Internal
  None = None
INVARIANTS
  CancelIsLocal
  AbortLeavesMark
PROPERTY
  AbortAnswersLocal
