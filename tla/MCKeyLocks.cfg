CONSTANTS
  ContextIDs = {c1, c2, c3}
  Contracts = {contract1}
  Keys = {k1, k2, k3}
  Seqs = {0, 1}
  MaxEdges = 6
  NoOwner = NoOwner
CONSTRAINT Bounded
SYMMETRY Symmetry
SPECIFICATION SearchSpec
INVARIANTS KeyLockTypeOK MutualExclusion NoSelfWait SearchIsExact
PROPERTY TableSpec
