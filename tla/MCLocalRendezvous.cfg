SPECIFICATION MCSpec
CONSTANTS
  k1 = k1
  Keys = {k1}
  Sends = {s1, s2}
  Recvs = {r1, r2, r3}
  Aborters = {a1}
  Cancellers = {t1}
  KeyOf <- MCKeyOf
  Cancellable = {r1, r2}
  OK = OK
  Cancelled = Cancelled
  None = None
  NoToken = NoToken
INVARIANTS
  TypeOK
  ReceiverAccounting
  MessageAccounting
  Fifo
  CallbackReleased
PROPERTY
  EveryoneAnswered
