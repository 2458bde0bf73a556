SPECIFICATION Spec
CONSTANTS
  Contents = {"a", "b", "c", "d"}
  ParentsOf <- Diamond
  Signatures = {s1, s2}
  Damaged = Damaged
  MaxDamages = 1
INVARIANTS
  LineageIsHistory
  VerifiedIsGenuine
