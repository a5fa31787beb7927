SPECIFICATION FairSpec
CONSTANTS
  Sessions = {s1, s2}
  Accounts = {1, 2}
  AuthAccounts = {2}
  SECTOR_X_MAX = 3
  SECTOR_Y_MAX = 1
  JOBQ_MAX_SIZE = 3
  ID_SET_MAX = 2
  MaxRecvs = 1
  FreedSetIsReused = TRUE
  None = None
INVARIANT TypeOK
INVARIANT SectorsMatchPlayers
INVARIANT HearingIsMutual
 
INVARIANT AnsweredIsAccepted
 
PROPERTY LeftIsForgotten
 
CHECK_DEADLOCK FALSE
