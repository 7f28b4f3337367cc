SPECIFICATION MCSpec
CONSTANTS
  Cancellers = {t1, t2}
  Clients = {c1, c2}
  NoToken = NoToken
INVARIANT
  IsCancelledAsDocumented
