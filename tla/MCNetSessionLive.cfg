SPECIFICATION FairSpec
CONSTANTS
  Workers = {w1, w2}
  Acceptor = acc
  MaxSessions = 1
  MaxAccepts = 1
  MaxCalls = 3
  SendQMax = 1
  Signs = {g1}
  isSendIOPending = TRUE
  isLogicMultithreaded = TRUE
  SendsCompleteAtOnce = FALSE
  PendingSendsSucceed = TRUE
PROPERTY CanceledIsReleased
CHECK_DEADLOCK FALSE
