CONSTANTS
  Executors = {e1, e2}
  Storage = Storage
  c1 = c1
  c2 = c2
  DAGContracts <- MCDAGContracts
  DAGSize <- MCDAGSize
SPECIFICATION FairSpec
INVARIANTS TypeOK JoinsDeliverAll JoinsDeliverOnce JoinsDeliver ShortDAGStops RootComplete CommitAtomic CommittedWasAgreed
PROPERTIES ExecutionEnds CommitEnds
CHECK_DEADLOCK FALSE
