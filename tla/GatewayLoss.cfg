CONSTANTS
    c1 = c1
    c2 = c2
    c3 = c3
    r1 = r1
    r2 = r2
    r3 = r3
    NoSession = NoSession
    Sessions = {c1, c2}
    Replicas = {r1}
    host <- OneHost
    Msgs = {m1, m2}
    MaxSeq = 4
    MaxLen = 4
    MaxInFlight = 2
    Retries = 1
    Advertisers = {}
    Faults = {}
    MaxFaults = 0
SPECIFICATION Spec
SYMMETRY SendSymmetry
CHECK_DEADLOCK FALSE
INVARIANTS
    AcceptedNotLost
