------------------------------ MODULE LLMGates ------------------------------
(***************************************************************************)
(* The gates in front of the LLM providers: the circuit breaker and the    *)
(* long cooldown of analysis/llm/gates.py, kept per candidate (a model of  *)
(* a provider), the exclusion list of analysis/llm/model_catalog.py, and   *)
(* the breaker for repeated 403 answers of analysis/llm/client.py, kept    *)
(* per provider.  All of it is module state of one event loop.             *)
(*                                                                         *)
(* Time is counted in ticks of the short circuit window (300 s).  A 403    *)
(* block (60 s) expires between two ticks.                                 *)
(***************************************************************************)
EXTENDS Integers, Sequences, FiniteSets

CONSTANTS Candidates,      \* models that can be asked
          ProviderIds,
          Deployments,     \* the possible maps of a candidate to its provider
          Pooled,          \* providers whose chain is drawn from a catalog pool
          ShortTTL, QuotaTTL, BanTTL,   \* 300 s, 1800 s and 6 h, in ticks
          FailThreshold,   \* _CIRCUIT_FAIL_THRESHOLD
          ForbiddenThreshold   \* R05_403_THRESHOLD

ASSUME GatesAssumption ==
    /\ IsFiniteSet(Candidates) /\ Deployments \subseteq [Candidates -> ProviderIds]
    /\ Pooled \subseteq ProviderIds
    /\ {ShortTTL, QuotaTTL, BanTTL} \subseteq Nat \ {0}
    /\ ShortTTL < QuotaTTL /\ QuotaTTL < BanTTL
    /\ FailThreshold \in Nat \ {0} /\ ForbiddenThreshold \in Nat \ {0}

VARIABLES providerOf,   \* the deployment
          circuit,      \* _circuit
          cooldown,     \* _long_cooldown, in ticks left
          excluded,     \* ModelCatalog._exclusions
          streak,       \* _r05_403_streak
          blocked       \* _r05_403_blocked_until

gatesVars == <<providerOf, circuit, cooldown, excluded, streak, blocked>>

\* An entry of _circuit; "age" is the time since opened_at, kept while OPEN.
Entry == [state: {"CLOSED", "OPEN", "HALF_OPEN"}, fails: 0..FailThreshold,
          age: 0..QuotaTTL, quota: BOOLEAN]

Fresh == [state |-> "CLOSED", fails |-> 0, age |-> 0, quota |-> FALSE]

\* What a provider can answer.  "gated" is a 403 whose text or headers show a
\* permanent refusal, "forbidden" a bare 403, "rejected" a permanent 400 or 401.
Answers == {"text", "empty", "quota", "transient", "forbidden", "gated", "rejected"}

Is403(o) == o \in {"forbidden", "gated"}
_classify_permanent_error(o) == o \in {"gated", "rejected"}

GatesInit ==
    /\ providerOf \in Deployments
    /\ circuit = [m \in Candidates |-> Fresh]
    /\ cooldown = [m \in Candidates |-> 0]
    /\ excluded = {}
    /\ streak = [p \in ProviderIds |-> 0]
    /\ blocked = [p \in ProviderIds |-> "no"]

\* Mutant: every window is the short one.
TTLAlwaysShort(e) == ShortTTL

TTLOf(e) == IF e.quota THEN QuotaTTL ELSE ShortTTL

\* Mutant: the long cooldown is not asked.
AllowDuringBan(e, banned) == e.state = "OPEN" => e.age >= TTLOf(e)

\* _circuit_allow: whether a candidate may be asked, and what asking does to it.
_circuit_allow(e, banned) ==
    banned = 0 /\ (e.state = "OPEN" => e.age >= TTLOf(e))

AfterAsking(e, banned) ==
    IF e.state = "OPEN" /\ _circuit_allow(e, banned)
    THEN [e EXCEPT !.state = "HALF_OPEN", !.age = 0] ELSE e

OpenOnQuota(e) == [state |-> "OPEN", fails |-> 0, age |-> 0, quota |-> TRUE]

\* _circuit_record_failure, the entry of the candidate that failed.
_circuit_record_failure(e, o) ==
    LET n == IF e.fails < FailThreshold THEN e.fails + 1 ELSE FailThreshold
    IN  CASE o = "quota" \/ _classify_permanent_error(o) -> OpenOnQuota(e)
          [] OTHER -> IF n >= FailThreshold
                      THEN [state |-> "OPEN", fails |-> n, age |-> 0, quota |-> FALSE]
                      ELSE [e EXCEPT !.fails = n]

_circuit_record_success(e) == [e EXCEPT !.state = "CLOSED", !.fails = 0, !.age = 0]

\* _r05_403_allow: an expired block is dropped together with its streak.
_r05_403_allow(b) == b # "active"
StreakAfterAsking(b, s) == IF b = "expired" THEN 0 ELSE s

\* _r05_403_record: the streak of a provider after an answer, and its block.
_r05_403_record(s, is403) ==
    IF ~is403 THEN 0 ELSE IF s < ForbiddenThreshold THEN s + 1 ELSE s
BlockAfter(b, s, is403) ==
    IF is403 /\ _r05_403_record(s, is403) >= ForbiddenThreshold THEN "active" ELSE b

\* A 403 block runs out (60 s): noticed by the next _r05_403_allow.
BlockExpires ==
    /\ \E p \in ProviderIds : blocked[p] = "active"
    /\ blocked' = [p \in ProviderIds |->
                      IF blocked[p] = "active" THEN "expired" ELSE blocked[p]]
    /\ UNCHANGED <<providerOf, circuit, cooldown, excluded, streak>>

\* 300 s pass.
WindowPasses ==
    /\ circuit' = [m \in Candidates |->
           IF circuit[m].state = "OPEN" /\ circuit[m].age < TTLOf(circuit[m])
           THEN [circuit[m] EXCEPT !.age = @ + 1] ELSE circuit[m]]
    /\ cooldown' = [m \in Candidates |-> IF cooldown[m] > 0 THEN cooldown[m] - 1 ELSE 0]
    /\ blocked' = [p \in ProviderIds |->
                      IF blocked[p] = "active" THEN "expired" ELSE blocked[p]]
    /\ <<circuit, cooldown, blocked>>' # <<circuit, cooldown, blocked>>
    /\ UNCHANGED <<providerOf, excluded, streak>>

GatesTypeOK ==
    /\ providerOf \in Deployments
    /\ circuit \in [Candidates -> Entry]
    /\ cooldown \in [Candidates -> 0..BanTTL]
    /\ excluded \subseteq Candidates
    /\ streak \in [ProviderIds -> 0..ForbiddenThreshold]
    /\ blocked \in [ProviderIds -> {"no", "active", "expired"}]
=============================================================================
