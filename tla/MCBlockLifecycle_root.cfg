CONSTANTS
  Executors = {e1, e2}
  Storage = Storage
  c1 = c1
  c2 = c2
  DAGContracts <- MCDAGContracts
  DAGSize <- MCDAGSize
SPECIFICATION Spec
INVARIANT OneRoot
CHECK_DEADLOCK FALSE
