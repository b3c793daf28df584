SPECIFICATION Spec
CONSTANTS
    MaxTasks = 2
    RetentionMax = 1
    Params = {"p1"}
    Clients = {c1, c2}
    KindsUsed = {"design", "check"}
    Sockets = {}
    MaxFaults = 1
    MaxCrashes = 1
INVARIANTS Serialized NoLostWaiter RecordIntegrity TaskAgreesWithDesign
PROPERTIES LifecycleSpec
SYMMETRY Symmetry
