SPECIFICATION CallsSpec
CONSTANTS
    Calls <- ThreeCalls
    NoCall = NoCall
    Bound = 2
    SharedWorkers = 1
    LongWorkers = 1
    h = h
    m = m
    b = b
PROPERTIES EveryCallEnds
CHECK_DEADLOCK FALSE
INVARIANTS SlotsBalance
