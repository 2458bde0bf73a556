\* Two clients; the bytes come in pieces of 3, of 6, or all at once.
CONSTANTS
  c1 = c1
  c2 = c2
  NoConn = NoConn
  Conns = {c1, c2}
  Script <- TwoAndNone
  Chunks = {3, 6}
  Losses = {c1}
SPECIFICATION FairSpec
INVARIANTS
  TypeOK
PROPERTIES
  ImplementsLocal
  AcceptServes
  SentArrives
  LoopsEnd
CHECK_DEADLOCK FALSE
