CONSTANTS
  Threads = {t1, t2}
  Contracts = {c1}
  Names = {e1, e2}
  None = None
SPECIFICATION Spec
INVARIANT SameExecutor
