CONSTANTS
    c1 = c1
    c2 = c2
    c3 = c3
    r1 = r1
    r2 = r2
    r3 = r3
    NoSession = NoSession
    Sessions = {c1, c2}
    Replicas = {r1, r2}
    host <- SplitHosts
    Msgs = {m1, m2}
    MaxSeq = 4
    MaxLen = 4
    MaxInFlight = 2
    Retries = 1
    Advertisers = {}
    Faults = {"accept", "admin", "crash", "flush", "redis", "stall"}
    MaxFaults = 1
SPECIFICATION Spec
SYMMETRY SendSymmetry
CHECK_DEADLOCK FALSE
INVARIANTS
    HolderWillDeliver
    NumbersAboveAck
PROPERTY
    KeepsContract
