SPECIFICATION MCSpec
CONSTANTS
  Cancellers = {t1, t2}
  Clients = {c1, c2, c3}
  NoToken = NoToken
INVARIANTS
  TypeOK
  SafeToFree
  DeregisterResultExact
  CallbackAccounting
PROPERTY
  CancellationCompletes
