SPECIFICATION Spec
CONSTANTS
  owner = owner
  carol = carol
  k1 = k1
  k2 = k2
  ck = ck
  key1 = key1
  key2 = key2
  carolKey = carolKey
  Kids = {k1, k2, ck}
  DidOf <- DidOfKids
  Relationships = {"authentication", "assertionMethod"}
  KeyOf <- CarolKeys
  Missing = Missing
  BadKey = BadKey
  NoKey = NoKey
  Dids = {owner, carol}
  MethodOf <- Methods
  Documents <- DocumentsAt
  NoDoc = NoDoc
  Requests <- Asked
  Size = 8
  NoStatus = NoStatus
  None = None
  MaxTime = 1
  MaxSigned = 2
  MaxIssued = 1
  MaxRuns = 2
INVARIANTS
  TypeOK
  SeedIrrelevant
  AcceptedKeyWasPublished
  DateTellsContent
  RevokedBeforeDateIsRefused
