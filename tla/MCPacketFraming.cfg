SPECIFICATION FairSpec
CONSTANTS
  Roles = {"NetSession", "NetClient", "LanSession", "LanClient"}
  Buffers = {b1, b2}
  HEADER_SIZE = 2
  MSG_MAX_LEN = 1
  SET_MAX = 2
  CENTER = 3
  MASK = 9
  MaxPackets = 3
  NULL = NULL
INVARIANT RecvHasRoom
INVARIANT OnlyKnownQuits
INVARIANT BufferHasOneOwner
INVARIANT StreamIsKept
PROPERTY EveryPacketArrives
CHECK_DEADLOCK FALSE
