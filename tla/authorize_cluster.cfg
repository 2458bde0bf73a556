\* Two verifiers, two messages that pass, one that fails the last test,
\* and restarts.
CONSTANTS
  p1 = p1
  p2 = p2
  t1 = t1
  t2 = t2
  c1 = c1
  k1 = k1
  k2 = k2
  alice = alice
  NoCall = NoCall
  Procs = {p1, p2}
  Threads = {t1, t2}
  ProcOf <- OneEach
  Caps = {c1}
  Grants <- OneCall
  Messages <- Mixed
  Window = 1
  Faults = {"crash"}
  MaxClock = 2
  MaxLog = 3
SPECIFICATION Spec
INVARIANTS
  TypeOK
  BudgetPerStore
  AcceptedOncePerWindow
PROPERTIES
  NothingLapsedIsAccepted
