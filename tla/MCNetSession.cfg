SPECIFICATION Spec
CONSTANTS
  Workers = {w1, w2}
  Acceptor = acc
  MaxSessions = 1
  MaxAccepts = 2
  MaxCalls = 3
  SendQMax = 1
  Signs = {g1, g2}
  isSendIOPending = FALSE
  isLogicMultithreaded = FALSE
  SendsCompleteAtOnce = TRUE
  PendingSendsSucceed = FALSE
SYMMETRY WorkerSymmetry
INVARIANT TypeOK
INVARIANT CountMatchesReferences
INVARIANT ReferencedIsAlive
INVARIANT DeadSlotHasOneOwner
INVARIANT OneSendAtATime
INVARIANT OneRecvAtATime
INVARIANT LeaveOncePerSession
 
PROPERTY JobOrder
PROPERTY LeaveBeforeReuse
CHECK_DEADLOCK FALSE
