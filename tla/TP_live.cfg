SPECIFICATION FairSpec
CONSTANTS
    MaxTasks = 2
    RetentionMax = 1
    Params = {"p1"}
    Clients = {c1}
    KindsUsed = {"design", "check"}
    Sockets = {}
    MaxFaults = 0
    MaxCrashes = 1
PROPERTIES EveryTaskEnds
