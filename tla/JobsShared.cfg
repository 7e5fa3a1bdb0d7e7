CONSTANTS
    Loops = {l1, l2}
    Ids = {a}
    Runs = {r1, r2}
    None = None
    Modes = {"inactive", "strict", "trust", "auto"}
    MaxConcurrent = 1
    MaxCompleted = 1
    MaxCancels = 2
SPECIFICATION Spec
CHECK_DEADLOCK FALSE
SYMMETRY JobsSymmetry
INVARIANTS
    WaiterReachable
