\* A failed write by one process and a reload by another one.
CONSTANTS
  p1 = p1
  p2 = p2
  p3 = p3
  c1 = c1
  c2 = c2
  Bad = Bad
  NoCap = NoCap
  Procs = {p1, p2}
  Issuers = {p1}
  Verifiers = {p1, p2}
  Caps = {c1, c2}
  Faults = {"io"}
  MaxLines = 2
SPECIFICATION Spec
PROPERTIES
  KnownAndStoredStays
