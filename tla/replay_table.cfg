\* Two processes on one table, a key sent with two timestamps, every fault.
CONSTANTS
  p1 = p1
  p2 = p2
  t1 = t1
  t2 = t2
  t3 = t3
  k1 = k1
  k2 = k2
  NoReq = NoReq
  Procs = {p1, p2}
  Threads = {t1, t2}
  ProcOf <- OneEach
  Messages <- OneKey
  Window = 1
  Durable = TRUE
  Faults = {"busy", "crash", "close"}
  MaxClock = 2
SPECIFICATION FairSpec
INVARIANTS
  TypeOK
  TableOncePerWindow
  LiveRowsKept
  ResidenceBounded
PROPERTIES
  TableGate
  LockReleased
