SPECIFICATION Spec
CONSTANTS
  ASThread = {a1, a2}
  PGThread = {}
  Id = {1}
  Code = {c1}
  Access = {read}
  TTL = 1
  MaxTime = 3
  MaxFail = 1
  MaxCrash = 1
  MaxMint = 0
  None = None
  Empty = Empty
  Torn = Torn
INVARIANTS NeverTorn HeldByAWriter NoTokenAfterDenial
PROPERTIES StoreIsAtomic NothingUndone
SYMMETRY Symmetry
