SPECIFICATION AuditSpec
CONSTANTS
  Runs = {r1, r2}
  EventIds = {e1, e2, e3, e4}
  Payloads = {d1, none}
  NoDecision = none
  Times <- MCTimes
  MaxDamages = 0
  MaxEvents = 4
SYMMETRY Symmetry
CHECK_DEADLOCK FALSE
INVARIANT UntouchedChainVerifies
