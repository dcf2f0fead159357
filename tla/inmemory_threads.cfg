SPECIFICATION Spec
CONSTANTS
  Runs = {r1}
  EventIds = {e1, e2}
  Payloads = {p1}
  Times <- MCTimes
  Threads = {t1, t2}
  MaxSequence = 2
  NoTime = NoTime
INVARIANT UniqueEventIds
SYMMETRY Symmetry
CHECK_DEADLOCK FALSE
