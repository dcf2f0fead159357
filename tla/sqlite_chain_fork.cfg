SPECIFICATION Spec
CONSTANTS
  Runs = {r1}
  EventIds = {e1, e2, e3}
  Payloads = {p1}
  Times <- MCTimes
  Threads = {t1, t2}
  MaxRows = 3
SYMMETRY Symmetry
CHECK_DEADLOCK FALSE
INVARIANT ChainLinked
