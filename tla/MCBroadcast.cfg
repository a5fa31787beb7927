SPECIFICATION FairSpec
CONSTANTS
  s1 = s1
  s2 = s2
  g1 = g1
  g2 = g2
  g3 = g3
  Sessions = {s1, s2, g1, g2, g3}
  Gone = {g1, g2, g3}
  Packets = {p1}
  Messages = {m1, m2}
  IDSets <- FiveIDs
  Workers = {w1, w2}
  waitingThreadNum_ = 2
  eNET_PACKET_SEND_Q_MAX_SIZE = 1
  MaxCalls = 2
  NULL = NULL
INVARIANT RefCountIsExact
INVARIANT EveryoneHearsOnce
PROPERTY EveryCopyArrives
CHECK_DEADLOCK FALSE
