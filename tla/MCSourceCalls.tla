----------------------------- MODULE MCSourceCalls -----------------------------
(***************************************************************************)
(* The thread pool, and the breaker with the threads that run on the pool, *)
(* on small instances, checked side by side: "part" says which of them     *)
(* moves in a behaviour.  With two slots and one worker there is a running *)
(* call, a queued one and one that is refused or nested.                   *)
(***************************************************************************)
EXTENDS SubmitPool

CONSTANTS h, m, b       \* the probes, a caller of _call_with_cb, the breadth fetcher

VARIABLES failures, cycles, left, th, up, breaks, part

ThreeCalls == {"a", "b", "c"}

Breaker == INSTANCE SourceBreaker
    WITH Order <- <<"s1">>, Routes <- {}, Probes <- {h}, Callers <- {m}, Breadths <- {b},
         Threshold <- 2, Base <- 2, MaxCooldown <- 4, Overflow <- 3,
         MaxCall <- 1, MaxBreaks <- 1, PoolFull <- TRUE

breakerVars == <<failures, cycles, left, th, up, breaks>>

CallsInit == Init /\ Breaker!Init /\ part \in {"pool", "breaker"}

CallsNext == \/ part = "pool" /\ Next /\ UNCHANGED <<breakerVars, part>>
             \/ part = "breaker" /\ Breaker!Next /\ UNCHANGED <<vars, part>>

CallsSpec == CallsInit /\ [][CallsNext]_<<vars, breakerVars, part>> /\ Fairness
================================================================================
