SPECIFICATION Spec
CONSTANTS
  Runs = {r1, r2}
  EventIds = {e1, e2, e3}
  Payloads = {p1}
  Times <- MCTimes
  Threads = {t1, t2}
  MaxSequence = 3
  NoTime = NoTime
INVARIANT TypeOK
INVARIANT IndexesAgree
PROPERTY ImplementsLedger
SYMMETRY Symmetry
CHECK_DEADLOCK FALSE
