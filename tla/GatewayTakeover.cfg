CONSTANTS
    c1 = c1
    c2 = c2
    c3 = c3
    r1 = r1
    r2 = r2
    r3 = r3
    NoSession = NoSession
    Sessions = {c1, c2, c3}
    Replicas = {r1, r2, r3}
    host <- SplitHosts
    Msgs = {}
    MaxSeq = 4
    MaxLen = 4
    MaxInFlight = 2
    Retries = 1
    Advertisers = {c1, c2}
    Faults = {}
    MaxFaults = 0
SPECIFICATION FairSpec
CHECK_DEADLOCK FALSE

    
PROPERTIES
    TakeoverSettles
