---------------------------- MODULE SourceBreaker ----------------------------
(***************************************************************************)
(* The circuit breaker of the data sources (core/source_registry.py) with  *)
(* the threads that use it at the same time: routes over several sources,  *)
(* calls of one source (market_service._call_with_cb), the health probes   *)
(* (services/source_health.py) and the market-breadth fetcher, which does  *)
(* its own bookkeeping (fundamentals_fetcher.fetch_advance_decline_ratio). *)
(*                                                                         *)
(* Time is relative: `left` is cool_until minus the clock, `age` the clock *)
(* minus the `now` a thread once read, `dur` the time since its last step.  *)
(***************************************************************************)
EXTENDS Integers, Sequences

CONSTANTS
    Order,          \* the sources, in the order a route tries them
    Routes, Probes, Callers, Breadths,      \* threads of each kind
    Threshold,      \* failure_threshold
    Base,           \* base_cooldown, in ticks
    MaxCooldown,    \* max_cooldown
    Overflow,       \* last cycle whose power of two still converts to a float
    MaxCall,        \* ticks after which a call has timed out
    MaxBreaks,      \* bound on the times a source goes down
    PoolFull        \* whether the thread pool may refuse a probe

Sources == {Order[i] : i \in DOMAIN Order}

ASSUME BreakerAssumption ==
    /\ Order \in Seq(Sources) /\ Order # <<>>
    /\ {Threshold, Base, Overflow, MaxCall} \subseteq Nat \ {0}
    /\ MaxCooldown \in Nat /\ MaxCooldown >= Base /\ MaxBreaks \in Nat
    /\ PoolFull \in BOOLEAN

Threads == Routes \cup Probes \cup Callers \cup Breadths

VARIABLES
    failures, cycles, left,     \* SourceHealth of each source
    th,                         \* the threads
    up,                         \* the sources that work
    breaks

vars == <<failures, cycles, left, th, up, breaks>>
health == <<failures, cycles, left>>

MaxAge == 2 * Len(Order) * MaxCall
Ready  == -MaxAge               \* cool_until = 0: past for every `now` in use
Idle   == [at |-> "idle", i |-> 1, age |-> 0, dur |-> 0]
Lower(a, b) == IF a < b THEN a ELSE b
Higher(a, b) == IF a > b THEN a ELSE b

Cooldown(cycle) == Lower(Base * 2^(cycle - 1), MaxCooldown)

Src(t) == Order[th[t].i]

\* `now`: route, probes and _call_with_cb read the clock once, at their start;
\* the breadth fetcher reads it anew each time.
Age(t) == th[t].age

Available(t) == left[Src(t)] <= -Age(t)

Busy(t) == th[t].at \in {"check", "call", "fallback"}

-----------------------------------------------------------------------------
(* SourceHealth, each operation under its lock.                             *)

RecordSuccess(s) ==
    /\ failures' = [failures EXCEPT ![s] = 0]
    /\ cycles' = [cycles EXCEPT ![s] = 0]
    /\ left' = [left EXCEPT ![s] = Ready]

NextCycle(s) == Lower(cycles[s] + 1, Overflow + 1)
Raises(s) == NextCycle(s) > Overflow

\* A new cycle; when its power of two does not fit into a float the exception
\* leaves the cooldown as it was and the failure counted.
Cool(s, age, counted) ==
    /\ cycles' = [cycles EXCEPT ![s] = NextCycle(s)]
    /\ IF Raises(s)
       THEN /\ failures' = [failures EXCEPT ![s] = counted]
            /\ UNCHANGED left
       ELSE /\ left' = [left EXCEPT ![s] = Cooldown(NextCycle(s)) - age]
            /\ failures' = [failures EXCEPT ![s] = 0]

\* record_hard_failure; also what record_failure does after less than 500 ms.
Trips(s, hard) == hard \/ failures[s] + 1 >= Threshold

RecordFailure(s, age, hard) ==
    IF Trips(s, hard)
    THEN Cool(s, age, IF hard THEN failures[s] ELSE Lower(failures[s] + 1, Threshold))
    ELSE failures' = [failures EXCEPT ![s] = @ + 1] /\ UNCHANGED <<cycles, left>>

Escapes(s, hard) == Trips(s, hard) /\ Raises(s)

-----------------------------------------------------------------------------
(* Threads.                                                                 *)

\* A route goes on to its next source, the probes do so after every source.
Onward(t) ==
    th' = [th EXCEPT ![t] =
        IF t \in Routes \cup Probes /\ th[t].i < Len(Order)
        THEN [th[t] EXCEPT !.i = th[t].i + 1, !.dur = 0,
                           !.at = IF t \in Probes THEN "call" ELSE "check"]
        ELSE Idle]

Goto(t, at) == th' = [th EXCEPT ![t].at = at, ![t].dur = 0]

Leave(t) == IF t \in Probes THEN Onward(t) ELSE th' = [th EXCEPT ![t] = Idle]

Begin(t) ==
    /\ th[t].at = "idle"
    /\ \E i \in IF t \in Callers \cup Breadths THEN DOMAIN Order ELSE {1} :
          th' = [th EXCEPT ![t] = [Idle EXCEPT !.i = i,
                                   !.at = IF t \in Probes THEN "call" ELSE "check"]]
    /\ UNCHANGED <<health, up, breaks>>

\* Mutant: a skip starts the cooldown anew.
CheckSlidesCooldown(t) ==
    /\ th[t].at = "check" /\ t \notin Breadths
    /\ IF Available(t) THEN Goto(t, "call") /\ UNCHANGED left
       ELSE Onward(t) /\ left' = [left EXCEPT ![Src(t)] = Base]
    /\ UNCHANGED <<failures, cycles, up, breaks>>

\* A source in cooldown is skipped.
Check(t) ==
    /\ th[t].at = "check" /\ t \notin Breadths
    /\ IF Available(t) THEN Goto(t, "call") ELSE Onward(t)
    /\ UNCHANGED <<health, up, breaks>>

\* The breadth fetcher reports a failure when it skips, then asks its fallback.
CheckBreadth(t) ==
    /\ th[t].at = "check"
    /\ \/ Available(t) /\ Goto(t, "call") /\ UNCHANGED health
       \/ /\ ~Available(t)
          /\ RecordFailure(Src(t), 0, FALSE)
          /\ Goto(t, IF Escapes(Src(t), FALSE) THEN "raised" ELSE "fallback")
    /\ UNCHANGED <<up, breaks>>

\* The call gave data.
Data(t) ==
    /\ th[t].at = "call"
    /\ RecordSuccess(Src(t))
    /\ Leave(t)
    /\ UNCHANGED <<up, breaks>>

\* A failure within 500 ms (the call took no tick), or a slower one.
Failing(t) == IF th[t].dur = 0 THEN BOOLEAN ELSE {FALSE}

\* Probes run on the shared pool, whose refusal looks like a failure; what they ask
\* for is there as long as the source works.
Faulty(t) == Src(t) \notin up \/ (PoolFull /\ t \in Probes)

\* Mutant: a route counts a miss as a failure.
EmptyCounts(t) ==
    /\ th[t].at = "call"
    /\ \E hard \in Failing(t) :
          /\ RecordFailure(Src(t), Age(t), hard)
          /\ IF Escapes(Src(t), hard) THEN Goto(t, "handler") ELSE Onward(t)
    /\ UNCHANGED <<up, breaks>>

\* No data: no failure for a route (record_miss), none for the breadth fetcher
\* either, but one for probes and for _call_with_cb.  That takes every None for a
\* failure of the source: a symbol that a working source does not know, and whatever
\* _call turns into None, every exception and the pool's refusal included.
Empty(t) ==
    /\ th[t].at = "call"
    /\ \/ t \in Routes /\ Onward(t) /\ UNCHANGED health
       \/ t \in Breadths /\ Goto(t, "fallback") /\ UNCHANGED health
       \/ /\ t \in Callers \/ (t \in Probes /\ Faulty(t))
          /\ \E hard \in Failing(t) :
                /\ RecordFailure(Src(t), Age(t), hard)
                /\ IF Escapes(Src(t), hard) THEN Goto(t, "handler") ELSE Onward(t)
    /\ UNCHANGED <<up, breaks>>

\* An HTTP error, which only routes look at.
HttpError(t) ==
    /\ th[t].at = "call" /\ t \in Routes /\ Src(t) \notin up
    /\ RecordFailure(Src(t), Age(t), TRUE)
    /\ IF Escapes(Src(t), TRUE)
       THEN th' = [th EXCEPT ![t].at = "handler"] ELSE Onward(t)
    /\ UNCHANGED <<up, breaks>>

\* The call raises (a timeout does, too).
Raise(t) ==
    /\ th[t].at = "call" /\ t \notin Callers /\ Faulty(t)
    /\ th' = [th EXCEPT ![t].at = "handler"]
    /\ UNCHANGED <<health, up, breaks>>

\* The `except` clause; an exception of its own leaves the thread's function.
Handler(t) ==
    /\ th[t].at = "handler"
    /\ \E hard \in IF t \in Breadths THEN {FALSE} ELSE Failing(t) :
          /\ RecordFailure(Src(t), Age(t), hard)
          /\ IF Escapes(Src(t), hard) THEN Goto(t, "raised")
             ELSE IF t \in Breadths THEN Goto(t, "fallback") ELSE Onward(t)
    /\ UNCHANGED <<up, breaks>>

\* _advance_decline_fallback asks another source, in the name of the first.
Fallback(t) ==
    /\ th[t].at = "fallback"
    /\ \/ RecordSuccess(Src(t)) /\ Leave(t)
       \/ /\ RecordFailure(Src(t), 0, FALSE)
          /\ IF Escapes(Src(t), FALSE) THEN Goto(t, "raised") ELSE Leave(t)
    /\ UNCHANGED <<up, breaks>>

\* A caller sees the exception; the loop of the probes ends with it.
Propagate(t) ==
    /\ th[t].at = "raised" /\ t \notin Probes
    /\ th' = [th EXCEPT ![t] = Idle]
    /\ UNCHANGED <<health, up, breaks>>

-----------------------------------------------------------------------------
\* No thread stays longer than MaxCall with a call, or between two calls.
Tick ==
    /\ \A t \in Threads : th[t].at # "handler" /\ (Busy(t) => th[t].dur < MaxCall)
    /\ left' = [s \in Sources |-> Higher(left[s] - 1, Ready)]
    /\ th' = [t \in Threads |->
          IF Busy(t) THEN [th[t] EXCEPT !.age = IF t \in Breadths THEN 0 ELSE @ + 1, !.dur = @ + 1]
          ELSE th[t]]
    /\ UNCHANGED <<failures, cycles, up, breaks>>

Break(s) ==
    /\ s \in up /\ breaks < MaxBreaks
    /\ up' = up \ {s} /\ breaks' = breaks + 1
    /\ UNCHANGED <<health, th>>

Repair(s) ==
    /\ s \notin up
    /\ up' = up \cup {s}
    /\ UNCHANGED <<health, th, breaks>>

\* Mutant: the reset leaves the cooldown.
ResetSourceKeepsCooldown(s) ==
    /\ failures' = [failures EXCEPT ![s] = 0]
    /\ cycles' = [cycles EXCEPT ![s] = 0]
    /\ UNCHANGED <<left, th, up, breaks>>

\* reset_source: by hand, at any time.
ResetSource(s) ==
    /\ RecordSuccess(s)
    /\ UNCHANGED <<th, up, breaks>>

Init ==
    /\ failures = [s \in Sources |-> 0] /\ cycles = [s \in Sources |-> 0]
    /\ left = [s \in Sources |-> Ready]
    /\ th = [t \in Threads |-> Idle]
    /\ up = Sources /\ breaks = 0

Run(t) ==
    \/ Check(t) \/ Data(t) \/ Empty(t) \/ HttpError(t) \/ Raise(t)
    \/ Handler(t) \/ Propagate(t)

RunBreadth(t) == CheckBreadth(t) \/ Fallback(t)

Next ==
    \/ \E t \in Threads : Begin(t) \/ Run(t)
    \/ \E t \in Breadths : RunBreadth(t)
    \/ \E s \in Sources : Break(s) \/ Repair(s) \/ ResetSource(s)
    \/ Tick

Spec == Init /\ [][Next]_vars

\* Threads run, calls end, time passes.
Fairness ==
    /\ SF_vars(Tick)
    /\ \A t \in Threads : WF_vars(Run(t))
    /\ \A t \in Breadths : WF_vars(RunBreadth(t))

FairSpec == Spec /\ Fairness

-----------------------------------------------------------------------------
TypeOK ==
    /\ failures \in [Sources -> 0..Threshold]
    /\ cycles \in [Sources -> 0..(Overflow + 1)]
    /\ left \in [Sources -> Ready..MaxCooldown]
    /\ th \in [Threads -> [at : {"idle", "check", "call", "handler", "fallback", "raised"},
                           i : DOMAIN Order, age : 0..MaxAge, dur : 0..MaxCall]]
    /\ up \subseteq Sources /\ breaks \in 0..MaxBreaks

\* No cooldown is longer than the one its cycle allows (60 s doubled up to 600 s),
\* whoever trips the source while others succeed, reset it or count an overflow, and
\* a source that was not tripped since its last success is free.
BackoffMatches ==
    \A s \in Sources :
        left[s] > 0 => cycles[s] > 0 /\ left[s] <= Cooldown(Lower(cycles[s], Overflow))

\* The record of a source that works gets worse only on account of a call of it
\* that failed before it was repaired: neither a symbol it does not know
\* (source_registry.py 259) nor a skip nor another source's failure counts.
BlameEarned ==
    [][\A s \in up : failures'[s] > failures[s] \/ cycles'[s] > cycles[s]
          => \E t \in Threads : th[t].at = "handler" /\ Src(t) = s]_vars

\* A source that stays up becomes available again.
Recovers == \A s \in Sources : (s \in up) ~> (left[s] <= 0 \/ s \notin up)

-----------------------------------------------------------------------------
(* What a comment of the code claims; the code disagrees.                   *)

\* source_registry.py 264: the exceptions of a source are isolated, so that
\* neither the routes nor the loop of the probes end with one.
NothingEscapes == \A t \in Threads : th[t].at # "raised"
=============================================================================
