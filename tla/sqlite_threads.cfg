SPECIFICATION Spec
CONSTANTS
  Runs = {r1}
  EventIds = {e1, e2, e3, e4}
  Payloads = {p1}
  Times <- MCTimes
  Threads = {t1, t2}
  MaxRows = 4
INVARIANT TypeOK
INVARIANT UniqueEventIds
INVARIANT AncestorLinked
INVARIANT WarningsByLink
INVARIANT ForkWidth
PROPERTY AppendOnly
SYMMETRY Symmetry
CHECK_DEADLOCK FALSE
