SPECIFICATION Spec
CONSTANTS
    MaxTasks = 2
    RetentionMax = 1
    Params = {"p1"}
    Clients = {c1, c2}
    KindsUsed = {"design"}
    Sockets = {}
    MaxFaults = 0
    MaxCrashes = 0
INVARIANTS OneExecutorPerRequest
SYMMETRY Symmetry
