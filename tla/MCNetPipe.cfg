SPECIFICATION Spec
CONSTANTS
  a1 = a1  a2 = a2  b1 = b1  a = a  b = b
  Slots = {s1, s2}
  IDs = {i1, i2}
  Pipes = {a1, a2, b1}
  Codes = {a, b}
  PipeCode <- MCPipeCode
  SKIP_ROUNDS = 0
  DESTROY_ROUNDS = 1
  MOVE_ROUNDS = 1
  maxPipeUser = 1
  MaxJobs = 1
  NULL = NULL
 
 
INVARIANT StoppedPipeIsUnused
 
SYMMETRY Symmetry
