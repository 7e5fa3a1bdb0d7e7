CONSTANTS
    Loops = {l1}
    Ids = {a, b}
    Runs = {r1, r2, r3}
    None = None
    Modes = {"auto"}
    MaxConcurrent = 2
    MaxCompleted = 2
    MaxCancels = 1
    LocalConns = {"c1", "c2"}
    CallerOf <- TheCallers
    LocalJobs = {"j1"}
    JobConn <- TheJobConns
    LocalPages = {"b"}
    PageConn <- ThePageConns
    DefaultMode = "strict"
    ModesSet = {"trust"}
    MaxModeSets = 1
SPECIFICATION DaemonSpec
CHECK_DEADLOCK FALSE

    
    
PROPERTIES
    JobsLeave
    LocalSound
