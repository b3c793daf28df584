SPECIFICATION CallsSpec
CONSTANTS
    Calls <- ThreeCalls
    NoCall = NoCall
    Bound = 2
    SharedWorkers = 1
    LongWorkers = 1
    h = h
    m = m
    b = b
INVARIANTS SlotsReturn
CHECK_DEADLOCK FALSE
