SPECIFICATION AuditSpec
CONSTANTS
  Runs = {r1, r2}
  EventIds = {e1, e2, e3, e4}
  Payloads = {d1, none}
  NoDecision = none
  Times <- MCTimes
  MaxEvents = 4
  MaxDamages = 1
INVARIANT UniqueEventIds
INVARIANT ChainLinked
INVARIANT HashCommitsToHistory
INVARIANT WarningsExact
 
INVARIANT ExportedIffNoWarning
SYMMETRY Symmetry
CHECK_DEADLOCK FALSE
