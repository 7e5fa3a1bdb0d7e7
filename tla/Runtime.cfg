SPECIFICATION FairSpec
CONSTANTS
    j1 = j1
    r1 = r1
    r2 = r2
    None = None
    Jobs = {j1}
    Replicas = {r1}
    Clients = {r1}
    Reports = {"ok", "rejected"}
    MaxLinks = 2
    MaxFaults = 1
INVARIANTS
    ReportsAgree
PROPERTY
    JobsTerminate
CHECK_DEADLOCK FALSE
