\* Two kids, of which one has no DID, three generated keys, two passphrases,
\* crashes and failed saves.
CONSTANTS
  k1 = k1
  k2 = k2
  alice = alice
  NoDid = NoDid
  NoFile = NoFile
  Absent = Absent
  Dids = {alice}
  Kids = {k1, k2}
  DidOf <- DidOfKids
  Passphrases = {"right", "wrong"}
  StoreFaults = {"crash", "save"}
  MaxKeys = 3
  MaxSent = 1
SPECIFICATION Spec
INVARIANTS
  TypeOK
  AddedIsDurable
  OldSignaturesVerify
PROPERTIES
  RevocationKept
