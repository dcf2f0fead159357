SPECIFICATION WatchedSpec
CONSTANTS
  gate = gate
  second = second
  resume = resume
  complete = complete
  d1 = d1
  Runs = {r1}
  EventIds = {gate, second, resume, complete, s1, s2, s3, s4, s5}
  ClientIds = {gate, second, resume, complete}
  ServiceIds = {s1, s2, s3, s4, s5}
  DecisionIds = {d1}
  None = None
  Threads = {t1, t2}
  ClientEvents <- MCClientEvents
  IdPrefixes <- MCIdPrefixes
  DemoRun = r1
  DemoGate = gate
  ResumeId = resume
  CompleteId = complete
  MaxEvents = 4
INVARIANT ResolvedOnce
CHECK_DEADLOCK FALSE
