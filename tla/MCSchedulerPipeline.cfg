CONSTANTS
  Numbers = {1, 2, 3}
  Queries = {"sealers", "number", "hash"}
  MaxCommits = 2
SPECIFICATION FairSpec
INVARIANTS TypeOK Consecutive CommitsFront ExecutesLast ResultUnlessFailed CommittedOnce
PROPERTIES RefinesChain MutexesReleased
CHECK_DEADLOCK FALSE
