SPECIFICATION SigSpec
CONSTANTS
  Tenant = {tenant}
  Ed25519 = {}
  P256 = {k1}
  P384 = {k2}
  P521 = {}
  OtherKey = {}
  Kid = {k2, quoted}
  MaxFail = 1
  MaxCrash = 0
  None = None
  Torn = Torn
  Thread = {t1}
  Method = {get, post}
  Url <- Urls
  Headers <- SomeHeaders
  Covers <- SomeCovers
  Quoted = {quoted}
  Skew = 1
  Drift = {0, 1}
  Written = {8}
  Half = 4
  MaxTime = 2
  MaxSent = 1
  MaxCalls = 2
  Uploads <- Public
SYMMETRY Symmetry
INVARIANTS AdmittedWasSigned SignedIsAdmitted
CHECK_DEADLOCK FALSE
