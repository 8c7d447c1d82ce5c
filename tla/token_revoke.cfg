SPECIFICATION FairSpec
CONSTANTS
  Token = {k1}
  read = read
  write = write
  rs1 = rs1
  Access = {read, write}
  Approvals <- Everything
  Audience <- ForRS1
  Asked <- Write
  RS = {rs1}
  Issuer = {as}
  ASGrantURL = as
  TTL = 1
  MaxTime = 2
  Thread = {t1}
  MaxFail = 0
  MaxCrash = 0
  None = None
  Torn = Torn
PROPERTY RevokeReturns
CHECK_DEADLOCK FALSE
