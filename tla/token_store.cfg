SPECIFICATION Spec
CONSTANTS
  Token = {k1, k2}
  read = read
  write = write
  rs1 = rs1
  Access = {read, write}
  Approvals <- Everything
  Audience <- ForRS1
  Asked <- Write
  RS = {rs1}
  Issuer = {as, other}
  ASGrantURL = as
  TTL = 1
  MaxTime = 2
  Thread = {t1, t2}
  MaxFail = 1
  MaxCrash = 1
  None = None
  Torn = Torn
INVARIANTS GivenAreDurable HeldIsFound NoRevival LockedByAWriter
PROPERTIES StoreIsBook RevocationStops
SYMMETRY Symmetry
CHECK_DEADLOCK FALSE
