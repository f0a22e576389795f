CONSTANTS
  Threads = {t1, t2}
  Contracts = {c1, c2}
  Names = {e1, e2, e3}
  None = None
SPECIFICATION Spec
INVARIANTS ManagerTypeOK DispatchesRegistered ExactUnlessRaced
PROPERTY Sticky
