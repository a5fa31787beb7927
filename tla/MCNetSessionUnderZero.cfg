SPECIFICATION Spec
CONSTANTS
  Workers = {w1, w2}
  Acceptor = acc
  MaxSessions = 1
  MaxAccepts = 2
  MaxCalls = 2
  SendQMax = 1
  Signs = {g1, g2}
  isSendIOPending = FALSE
  isLogicMultithreaded = FALSE
  SendsCompleteAtOnce = TRUE
  PendingSendsSucceed = TRUE
SYMMETRY WorkerSymmetry
INVARIANT NoUnderZero
CHECK_DEADLOCK FALSE
