---------------------------- MODULE LLMQuotaGate ----------------------------
(***************************************************************************)
(* LLMQuotaGate of analysis/llm/gates.py: every call acquires it before    *)
(* its first request.  acquire computes its wait once, sleeps it off and   *)
(* only then notes the time, so callers that sleep together do not see     *)
(* each other.  Clock values are kept as the time that is left.            *)
(***************************************************************************)
EXTENDS Integers

CONSTANTS Callers,
          Gap,       \* inter_call_cooldown
          Pause      \* quota_cooldown

ASSUME GateAssumption == {Gap, Pause} \subseteq Nat \ {0} /\ Gap < Pause

VARIABLES gapLeft,     \* what is left of _last + gap
          pauseLeft,   \* what is left of _exhausted_until
          caller,      \* the callers; wait is what is left of their sleep
          owed,        \* history: pause left of those marked before the caller came
          overtaken,   \* history: somebody passed while the caller slept
          latest       \* history: the last caller to pass, and the time since, up to Gap

gateVars == <<gapLeft, pauseLeft, caller, owed, overtaken, latest>>

GateInit ==
    /\ gapLeft = 0 /\ pauseLeft = 0
    /\ caller = [c \in Callers |-> [pc |-> "out", wait |-> 0]]
    /\ owed = [c \in Callers |-> 0]
    /\ overtaken = [c \in Callers |-> FALSE]
    /\ latest = [by |-> "none", since |-> Gap]

Longer(a, b) == IF a >= b THEN a ELSE b

\* Mutant: a caller that goes through does not note the time.
PassUnnoted(c) ==
    /\ caller' = [caller EXCEPT ![c] = [pc |-> "out", wait |-> 0]]
    /\ overtaken' = [d \in Callers |-> d # c /\ (overtaken[d] \/ caller[d].pc = "asleep")]
    /\ latest' = [by |-> c, since |-> 0]
    /\ UNCHANGED <<gapLeft, pauseLeft>>

Pass(c) ==
    /\ caller' = [caller EXCEPT ![c] = [pc |-> "out", wait |-> 0]]
    /\ gapLeft' = Gap
    /\ overtaken' = [d \in Callers |-> d # c /\ (overtaken[d] \/ caller[d].pc = "asleep")]
    /\ latest' = [by |-> c, since |-> 0]
    /\ UNCHANGED pauseLeft

\* Mutant: the pause is looked at only when there is no gap to wait for.
AcquireInTurn(c) ==
    LET wait == IF gapLeft > 0 THEN gapLeft ELSE pauseLeft
    IN  /\ caller[c].pc = "out"
        /\ owed' = [owed EXCEPT ![c] = pauseLeft]
        /\ \/ wait = 0 /\ Pass(c)
           \/ /\ wait > 0
              /\ caller' = [caller EXCEPT ![c] = [pc |-> "asleep", wait |-> wait]]
              /\ UNCHANGED <<gapLeft, pauseLeft, overtaken, latest>>

\* acquire up to its sleep, or to its end when there is nothing to wait for.
Acquire(c) ==
    LET wait == Longer(gapLeft, pauseLeft)
    IN  /\ caller[c].pc = "out"
        /\ owed' = [owed EXCEPT ![c] = pauseLeft]
        /\ \/ wait = 0 /\ Pass(c)
           \/ /\ wait > 0
              /\ caller' = [caller EXCEPT ![c] = [pc |-> "asleep", wait |-> wait]]
              /\ UNCHANGED <<gapLeft, pauseLeft, overtaken, latest>>

Wake(c) ==
    /\ caller[c].pc = "asleep" /\ caller[c].wait = 0
    /\ Pass(c)
    /\ UNCHANGED owed

mark_exhausted ==
    /\ pauseLeft' = Pause
    /\ UNCHANGED <<gapLeft, caller, owed, overtaken, latest>>

\* Mutant: the time left is not cut off at zero.
LessUnclamped(n) == n - 1

Less(n) == IF n > 0 THEN n - 1 ELSE 0

TimePasses ==
    /\ gapLeft' = Less(gapLeft) /\ pauseLeft' = Less(pauseLeft)
    /\ caller' = [c \in Callers |-> [caller[c] EXCEPT !.wait = Less(@)]]
    /\ owed' = [c \in Callers |-> Less(owed[c])]
    /\ latest' = [latest EXCEPT !.since = IF @ < Gap THEN @ + 1 ELSE Gap]
    /\ UNCHANGED overtaken

GateNext == \/ \E c \in Callers : Acquire(c) \/ Wake(c)
            \/ mark_exhausted
            \/ TimePasses

GateSpec == GateInit /\ [][GateNext]_gateVars

\* Time passes and a sleep that is over ends.
GateFairness == WF_gateVars(TimePasses) /\ \A c \in Callers : WF_gateVars(Wake(c))
-----------------------------------------------------------------------------
GateTypeOK ==
    /\ gapLeft \in 0..Gap /\ pauseLeft \in 0..Pause
    /\ caller \in [Callers -> [pc: {"out", "asleep"}, wait: 0..Pause]]
    /\ owed \in [Callers -> 0..Pause] /\ overtaken \in [Callers -> BOOLEAN]
    /\ latest \in [by: Callers \cup {"none"}, since: 0..Gap]

\* A caller that slept goes through.
Passes(c) == caller[c].pc = "asleep" /\ caller'[c].pc = "out"

\* A pause that was on when a caller came is over when it passes: the sleep
\* covers it, whatever else lengthened or shortened the wait.
PauseCovered ==
    [][\A c \in Callers : Passes(c) => owed[c] = 0]_gateVars

\* Caller c goes through, at once or after its sleep.
Goes(c) == latest' = [by |-> c, since |-> 0] /\ latest' # latest

\* Two calls come closer than the gap only when one of them slept while the
\* other passed; everybody else keeps the distance.
SpacedUnlessOvertaken ==
    [][\A c \in Callers : Goes(c) /\ ~overtaken[c] => latest.since = Gap]_gateVars

\* Any two calls keep their distance (the comment on inter_call_cooldown).
AlwaysSpaced ==
    [][\A c \in Callers : Goes(c) => latest.since = Gap]_gateVars

\* No caller sleeps for ever: it sleeps once, so a pause that is renewed again
\* and again holds back newcomers, never those who wait already.
EverySleeperPasses == \A c \in Callers : caller[c].pc = "asleep" ~> caller[c].pc = "out"
=============================================================================
