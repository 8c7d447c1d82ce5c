SPECIFICATION Spec
CONSTANTS
  Tenant = {t1}
  Ed25519 = {k1}
  P256 = {}
  P384 = {}
  P521 = {}
  OtherKey = {}
  Kid = {n1}
  MaxFail = 0
  MaxCrash = 0
  None = None
  Torn = Torn
INVARIANT ActiveKeysOnly
