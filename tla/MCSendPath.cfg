SPECIFICATION FairSpec
CONSTANTS
  Threads = {t1, t2}
  Packets = {p1, p2, p3}
  eNET_PACKET_SEND_Q_MAX_SIZE = 2
  NULL = NULL
INVARIANT PacketHasOneOwner
INVARIANT SentInOrder
PROPERTY EveryPacketLeaves
CHECK_DEADLOCK FALSE
