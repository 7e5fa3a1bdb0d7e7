SPECIFICATION ComponentsSpec
CONSTANTS
  f1 = f1
  f2 = f2
  f3 = f3
  b1 = b1
  k1 = k1
  k2 = k2
  k3 = k3
  Files = {f1, f2, f3}
  Plain = {b1}
  Keys = {k1, k2, k3}
  key <- KeyOf
  Capacity = 2
  None = None
  FileRequests = {q1, q2}
  Names <- TheNames
  Inodes <- TheInodes
  InitTree <- TheTree
  Menu <- TheMenu
  FilePath <- ThePaths
  AllowDirs <- TheAllowed
  DenyPaths = {}
  DangerousPaths <- TheDangerous
  SwapAt <- TheDir
  SwapAside <- TheAside
  SwapLink = 9
  MaxSwaps = 1
  MaxLinks = 4
  GlobScanCap = 1
  Contents <- TheContents
  TextLimits <- TheTextLimits
  BinaryLimits <- TheBinaryLimits
  Budgets = {1, 2}
  NoBudget = NoBudget
  Qualities = {1, 10, 11, 35, 100}
  ImageSizes = {1, 2, 3}
  PageCounts = {0, 1, 3}
  PdfLimits <- ThePdfLimits
  MaxRead = 4
  NoTarget = NoTarget
  DirEntries = {1, 2, 3, 4, 5}
  Hidden = {3}
  Times = {1, 2}
  PageSizes = {1, 2, 3}
  Margin = 1
  RetainCap = 4
  WriteRequests = {1, 2}
  WriteMenu <- TheWrites
  InitFiles <- TheFiles
  Absent = Absent
  MaxWrite = 4
  ByteTop = 7
  Sessions = {m1, m2}
  NoSession = NoSession
  MaxLen = 2
  MaxIssued = 4
  Invocations <- TheInvocations
  ConfiguredId = 0
  BasePath <- TheBase
  NoOverride = NoOverride
  OutputCap = 2
  EventTail = 2
  MaxBackoff = 3
  MaxConns = 2
  MaxReads = 2
  BrowserCalls = {bc1, bc2}
  BrowserAsks <- TheAsks
  DeniedDomains <- DeniedHosts
  AllowedDomains <- AllowedHosts
  MaxSessions = 1
  MaxFiles = 2
  Pids = {1, 2}
  FirstPid = 1
  CtlAsks <- TheCommands
  Versions = {2}
  MaxRetries = 2
  MaxUpdates = 1
  Spawners = {1, 2, 3}
  ProcessOf <- TheProcesses
  AuthModes = 2
  MaxSpawns = 1
INVARIANTS
  TablesSound ReadsFaithful ListComplete BrowserSound
PROPERTIES
  OperationsSafe WritesFaithful MemoryKeepsContract 
   
