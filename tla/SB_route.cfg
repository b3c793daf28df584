SPECIFICATION FairSpec
CONSTANTS
    Order <- TwoSources
    Routes = {r1}
    Probes = {h}
    Callers = {}
    Breadths = {}
    Threshold = 2
    Base = 2
    MaxCooldown = 6
    Overflow = 4
    MaxCall = 1
    MaxBreaks = 1
    PoolFull = FALSE
INVARIANTS BackoffMatches
PROPERTIES Recovers BlameEarned
