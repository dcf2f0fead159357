SPECIFICATION Spec
CONSTANTS
  Threads = {t1, t2}
  Texts <- MCTexts
  ValidTexts <- MCValidTexts
  Edits <- MCEdits
  NoText = NoText
  MaxEdits = 1
  Runs = {r1}
  EventIds = {s1, s2, s3, s4, s5, c1}
  ClientIds = {c1}
  ServiceIds = {s1, s2, s3, s4, s5}
  DecisionIds = {d1}
  None = None
  ClientEvents = {}
  IdPrefixes = {}
  DemoRun = DemoRun
  DemoGate = c1
  ResumeId = c1
  CompleteId = c1
  MaxEvents = 5
  Lists = {l1, l2}
  Posts = {p1, p2}
  MaxFaults = 1
  RulesOf <- Rules
  Purchases <- MCPurchases
  Fields = {"amount", "team"}
  AlwaysSent = {"amount"}
  BotRun = r1
  BotDecision = d1
  Ops = Ops
INVARIANTS
  TypeOK
  CachedRulesCurrent
  VerdictIsStrictestMatch
  AdvertisedFieldsSuffice
  BoughtByRulesOrPerson
  OneVerdictUnlessBroken
PROPERTIES
  BotEnds
  ResolvedLeavesPage
CHECK_DEADLOCK FALSE
