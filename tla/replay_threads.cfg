\* Two threads of one process and one of another; the table is closed under them, and processes die.
CONSTANTS
  p1 = p1
  p2 = p2
  t1 = t1
  t2 = t2
  t3 = t3
  k1 = k1
  k2 = k2
  NoReq = NoReq
  Procs = {p1, p2}
  Threads = {t1, t2, t3}
  ProcOf <- ThreadsOfTwo
  Messages <- OneKey
  Window = 1
  Durable = TRUE
  Faults = {"close", "crash"}
  MaxClock = 2
SPECIFICATION Spec
PROPERTIES
  ProcessGate
  RefusedOnlyIfRecorded
