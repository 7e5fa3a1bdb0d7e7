SPECIFICATION HubSpec
CHECK_DEADLOCK FALSE
CONSTANTS
  Events = {e1}
  Workers = {w1, w2}
  Permits = {1}
  MaxRetries = 2
  Limit = 2
  MaxFaults = 1
  None = None
  Hellos = {"h1", "h2"}
  Creds <- TheCreds
  Admins = {"a1", "a2"}
  AdminAsks <- TheAdminAsks
  BootTokens = {1, 2}
  NoOne = "none"
  AuditEntries = {a1, a2, a3}
  AuditQueueCapacity = 1
  AuditBatchSize = 2
  Hubs = {"r1", "r2"}
  FeedEvents = {"e1", "e2", "e3"}
  EventHome <- TheHomes
  Dashboards = {"d1"}
  DashHub <- TheSockets
  FeedCapacity = 1
  MaxBreaks = 1
  Lower <- LowerDef
  Base64 <- Base64Def
  ApiCalls = {"c1", "c2"}
  ApiAsks <- TheApiAsks
  AsksOf <- TheAsksOf
  ApiUsers = {"u1", "u2"}
  JobUser = "u1"
  RateBurst = 1
  MaxRefills = 1
  MaxTurns = 1
  FileCeiling = 20000
  Large = {"AAA"}
  BadParts = {".."}
INVARIANTS
  NothingLost PromptWake ApiSound
PROPERTIES
  Settles  HubTells
