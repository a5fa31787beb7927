SPECIFICATION Spec
CONSTANTS
  Queues = {q1}
  Producers = {p1, p2}
  Nodes = {n1, n2, n3}
  MaxItems = 2
  QUEUE_MAX_SIZE = 2
  Reuse = "any"
  NULL = NULL
SYMMETRY Symmetry
INVARIANT DequeueFindsItem
