SPECIFICATION Spec
CONSTANTS
  EventIds = {e1, e2}
  DecisionIds = {d1}
  None = None
  Events <- MCEvents
  MaxEvents = 5
INVARIANT TypeOK
INVARIANT RejectsExactlyIllFormed
INVARIANT ProjectionCorrect
INVARIANT PendingIffPaused
INVARIANT JournalTellsPending
CHECK_DEADLOCK FALSE
