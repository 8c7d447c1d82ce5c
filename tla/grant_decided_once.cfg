SPECIFICATION FairSpec
CONSTANTS
  ASThread = {a1, a2}
  PGThread = {}
  Id = {1}
  Code = {c1}
  Access = {read}
  TTL = 1
  MaxTime = 3
  MaxFail = 0
  MaxCrash = 0
  MaxMint = 0
  None = None
  Empty = Empty
  Torn = Torn
PROPERTY DecidedOnce
