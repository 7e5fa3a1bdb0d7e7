SPECIFICATION ServicesSpec
CONSTANTS
  p1 = p1
  p2 = p2
  k = k
  NoJob = NoJob
  Posts = {p1, p2}
  Cids = {k}
  cid <- TheCids
  Streams = {1}
  StreamCapacity = 2
  Writers = {w1, w2}
  Finals = {w1, w2}
  Readers = {1}
  LastIds = {0, 1}
  Fresh = Fresh
  MaxHistory = 1
  Capacity = 1
  Lives = 2
  a2 = a2
  a3 = a3
  Appends = {a2, a3}
  Finishes = {a2, a3}
  replica <- TheReplicas
  Pollers = {1}
  ResumeIds = {1}
  NoResume = NoResume
  Errors = 1
  FileCalls = {1, 2}
  requestOf <- TheRequests
  BrowserCalls = {9}
  MaxConns = 2
  NoFileCall = NoFileCall
  Deliveries = {1, 2}
  callOf <- TheCalls
  MaxPermits = 1
  MaxRemembered = 3
  Total = 2
  ApprovalTimeout = 3
  MinExec = 1
  Grace = 2
  MaxRevision = 2
  NoCall = NoCall
  Installers = {"i1", "i2"}
  InstallAsks <- TheInstalls
  HostConfigs <- TheHosts
  StartTrees <- TheTrees
  FileRefs = {"r1"}
  SaveTargets = {"r1"}
  Contents = {1, 2}
  Modes = {"full", "ask"}
  MaxEdits = 1
CHECK_DEADLOCK FALSE
INVARIANTS
    PollersHonest CallsSound
PROPERTIES
   ReadersEnd FileCallsAnswered RuntimeHonest 
