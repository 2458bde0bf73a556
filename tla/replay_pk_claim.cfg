\* One message sent twice around the end of its window, and another one.
CONSTANTS
  p1 = p1
  p2 = p2
  t1 = t1
  t2 = t2
  t3 = t3
  k1 = k1
  k2 = k2
  NoReq = NoReq
  Procs = {p1, p2}
  Threads = {t1, t2}
  ProcOf <- OneEach
  Messages <- TwoKeys
  Window = 1
  Durable = TRUE
  Faults = {}
  MaxClock = 2
SPECIFICATION Spec
INVARIANTS
  NeverInsertedTwice
