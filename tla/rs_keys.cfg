SPECIFICATION Spec
CONSTANTS
  Tenant = {t1}
  Ed25519 = {}
  P256 = {k1}
  P384 = {k2}
  P521 = {}
  OtherKey = {}
  Kid = {n1, n2}
  MaxFail = 1
  MaxCrash = 2
  None = None
  Torn = Torn
INVARIANTS NoSurprise DeactivatedIsGone RegisteredIsFound
PROPERTY StoreIsRegister
SYMMETRY Symmetry
