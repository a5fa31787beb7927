SPECIFICATION Spec
CONSTANTS
  Queues = {q1, q2}
  Producers = {p1, p2}
  Nodes = {n1, n2, n3, n4}
  MaxItems = 3
  QUEUE_MAX_SIZE = 2
  Reuse = "elsewhere"
  NULL = NULL
SYMMETRY Symmetry
INVARIANT SizeCountsContents
INVARIANT ListsAreApart
PROPERTY ImplementsFifo
