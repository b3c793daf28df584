SPECIFICATION Spec
CONSTANTS
    MaxTasks = 2
    RetentionMax = 1
    Params = {"p1"}
    Clients = {c1, c2}
    KindsUsed = {"design"}
    Sockets = {w1}
    MaxFaults = 0
    MaxCrashes = 1
INVARIANTS TypeOK ActiveHasExecutor
PROPERTIES RetentionKept
SYMMETRY Symmetry
