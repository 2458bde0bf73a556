\* Two processes on one log, an issuer that can load and a verifier; processes
\* crash and writes fail.
CONSTANTS
  p1 = p1
  p2 = p2
  p3 = p3
  c1 = c1
  c2 = c2
  Bad = Bad
  NoCap = NoCap
  Procs = {p1, p2}
  Issuers = {p1}
  Verifiers = {p1, p2}
  Caps = {c1, c2}
  Faults = {"crash", "io"}
  MaxLines = 3
SPECIFICATION Spec
INVARIANTS
  TypeOK
  DurableUntilFailure
PROPERTIES
  KnownOnlyGrows
  ReloadSeesAll
  ImplementsView
