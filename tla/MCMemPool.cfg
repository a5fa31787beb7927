SPECIFICATION Spec
CONSTANTS
  Threads = {t1, t2}
  Blocks = {b1,b2,b3,b4}
  Headers = {h1,h2,h3}
  chunkSize = 2
  InitialChunks = 2
  STAMPS = 4
  MaxEnds = 2
  NULL = NULL
INVARIANT BlockHasOnePlace
INVARIANT StackIsSound
INVARIANT CountersAgree
SYMMETRY Symmetry
CHECK_DEADLOCK FALSE
