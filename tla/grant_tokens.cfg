SPECIFICATION SystemSpec
CONSTANTS
  ASThread = {a1, a2}
  PGThread = {}
  Id = {1}
  Code = {c1}
  Access = {read, write}
  TTL = 0
  MaxTime = 2
  MaxFail = 0
  MaxTokenFail = 1
  MaxCrash = 1
  MaxMint = 0
  None = None
  Empty = Empty
  Torn = Torn
  Token = {k1}
  RS = {rs1}
  Issuer = {as}
  ASGrantURL = as
  TokenTTL = 1
  Audience <- Anybody
  Asked <- Nothing
INVARIANTS ActiveWasGranted GivenWasRequested NoActiveAfterDenial
PROPERTY ServerIsAtomic
SYMMETRY Symmetry
CHECK_DEADLOCK FALSE
