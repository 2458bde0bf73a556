\* A write fails and revoke() is called again.
CONSTANTS
  p1 = p1
  p2 = p2
  p3 = p3
  c1 = c1
  c2 = c2
  Bad = Bad
  NoCap = NoCap
  Procs = {p1}
  Issuers = {p1}
  Verifiers = {p1}
  Caps = {c1}
  Faults = {"io"}
  MaxLines = 2
SPECIFICATION Spec
SYMMETRY CapSymmetry
INVARIANTS
  ReportedIsDurable
