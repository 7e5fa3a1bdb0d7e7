CONSTANTS
    Jobs = {j1}
    Beat = Beat
    MaxConn = 3
    MaxFrames = 2
    MaxBeats = 2
    MaxBuffer = 3
SPECIFICATION FairSpec
CHECK_DEADLOCK FALSE
INVARIANTS
    AckBehindHub
PROPERTIES
    ReconnectsEventually
    ReplayDelivers
