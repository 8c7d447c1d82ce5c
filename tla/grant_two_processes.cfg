SPECIFICATION Spec
CONSTANTS
  ASThread = {a1}
  PGThread = {p1}
  Id = {1}
  Code = {c1, c2}
  Access = {read}
  TTL = 1
  MaxTime = 2
  MaxFail = 1
  MaxCrash = 1
  MaxMint = 0
  None = None
  Empty = Empty
  Torn = Torn
INVARIANTS TypeOK GrantConsistent VerifiedByItsCode NoTokenAfterExpiry
SYMMETRY Symmetry
