CONSTANTS
    Loops = {l1}
    Ids = {a, b}
    Runs = {r1, r2}
    None = None
    Modes = {"auto"}
    MaxConcurrent = 1
    MaxCompleted = 2
    MaxCancels = 2
SPECIFICATION FairSpec
CHECK_DEADLOCK FALSE
PROPERTY
    JobsLeave
