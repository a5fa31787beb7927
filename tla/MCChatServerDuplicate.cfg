SPECIFICATION Spec
CONSTANTS
  Sessions = {s1, s2, s3, s4}
  Accounts = {1}
  AuthAccounts = {}
  SECTOR_X_MAX = 1
  SECTOR_Y_MAX = 1
  JOBQ_MAX_SIZE = 10
  ID_SET_MAX = 1023
  MaxRecvs = 1
  FreedSetIsReused = FALSE
  None = None
SYMMETRY SessionSymmetry
CONSTRAINT Unhurried
INVARIANT OneSessionPerAccount
CHECK_DEADLOCK FALSE
