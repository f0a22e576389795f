CONSTANTS
  Executors = {e1}
  Storage = Storage
  c1 = c1
  c2 = c2
  DAGContracts <- MCDAGContracts
  DAGSize <- MCDAGSize
SPECIFICATION Spec
INVARIANT MessagesStored
CHECK_DEADLOCK FALSE
