----------------------------- MODULE LLMClient -----------------------------
(***************************************************************************)
(* Calls to the LLM providers with failover and retry: llm_complete,       *)
(* llm_complete_with_system and llm_complete_stream of                     *)
(* analysis/llm/client.py.  Several calls run on one event loop and share  *)
(* the gates.  What runs between two awaits is one step: a request is      *)
(* answered, the answer is entered in the gates, and the loop goes on to   *)
(* the next candidate that may be asked, to a backoff or to the end.       *)
(***************************************************************************)
EXTENDS LLMGates

CONSTANTS Calls,
          Loads,           \* a deployment, the entry point each call uses, and the
                           \* answers the providers give in a behaviour
          MaxRetries       \* LLM_MAX_RETRIES

Kinds == {"complete", "system", "stream"}

ASSUME ClientAssumption ==
    /\ Loads \subseteq [deployment: Deployments, kinds: [Calls -> Kinds],
                  answers: SUBSET Answers]
    /\ MaxRetries \in Nat

VARIABLES load,
          calls,      \* the local state of a call
          allOpenSeen,  \* LLMQuotaGate.mark_exhausted was called
          quotaAge,   \* history: ticks since a candidate's last 429, QuotaTTL if none
          late,       \* history: its failures of other kinds since that 429
          refused     \* history: 403 answers of a provider to a stream or system call

clientVars == <<load, calls, allOpenSeen, quotaAge, late, refused>>
llmVars == <<gatesVars, clientVars>>

\* todo is the rest of the current round, its head the candidate being asked;
\* tokens counts the token events of the current stream, first the candidate
\* whose token went out first.
NoCall == [pc |-> "idle", chain |-> <<>>, todo |-> <<>>,
           attempt |-> 0, tried |-> FALSE, saw429 |-> FALSE, sawEmpty |-> FALSE,
           failed |-> FALSE, tokens |-> 0, first |-> "none", result |-> "none"]

Current(c) == Head(calls[c].todo)
Reads403(k) == k \in {"system", "stream"}

ClientInit ==
    /\ load \in Loads /\ load.deployment = providerOf
    /\ calls = [c \in Calls |-> NoCall]
    /\ allOpenSeen = FALSE
    /\ quotaAge = [m \in Candidates |-> QuotaTTL] /\ late = [m \in Candidates |-> 0]
    /\ refused = [p \in ProviderIds |-> 0]

\* Whether a call of kind k may ask candidate m, and whether the circuit of m
\* is consulted: llm_complete_with_system asks the 403 block first, the stream
\* the circuit first.
MayAsk(k, m, circ, cool, blk) ==
    /\ _circuit_allow(circ[m], cool[m])
    /\ Reads403(k) => _r05_403_allow(blk[providerOf[m]])
ConsultsCircuit(k, m, blk) ==
    k = "system" => _r05_403_allow(blk[providerOf[m]])

\* What is left of a call that is over.
Ended(call, r) == [NoCall EXCEPT !.pc = "done", !.tried = call.failed \/ r = "text",
                                 !.saw429 = call.saw429, !.result = r,
                                 !.chain = IF r = "all_403" THEN call.chain ELSE <<>>]

OtherVerdict(k, call) ==
    IF k # "system" /\ call.saw429 THEN "rate_limited"
    ELSE IF k = "complete" /\ call.sawEmpty THEN "empty"
    ELSE IF ~call.failed THEN "no_provider" ELSE "error"

\* Mutant: one blocked provider is taken for all.
VerdictOfAny(k, call, blk) ==
    IF k = "system" /\ \E i \in DOMAIN call.chain : blk[providerOf[call.chain[i]]] = "active"
    THEN "all_403" ELSE OtherVerdict(k, call)

\* The message a call ends with when it has no text.
Verdict(k, call, blk) ==
    IF /\ k = "system" /\ call.chain # <<>>
       /\ \A i \in DOMAIN call.chain : blk[providerOf[call.chain[i]]] = "active"
    THEN "all_403" ELSE OtherVerdict(k, call)

\* The loop from the head of todo to the next await.  circ, cool, stk and blk
\* are the gates after the answer that was just entered.
Proceed(c, call, circ, cool, stk, blk) ==
    LET T == call.todo
        k == load.kinds[c]
        free == {i \in DOMAIN T : MayAsk(k, T[i], circ, cool, blk)}
        next == CHOOSE i \in free : \A j \in free : i <= j
        upTo == IF free = {} THEN DOMAIN T ELSE 1..next
        looked == {T[i] : i \in {i \in upTo : ConsultsCircuit(k, T[i], blk)}}
        asked403 == IF Reads403(k)
                    THEN {providerOf[T[i]] : i \in {i \in upTo :
                             k = "system" \/ _circuit_allow(circ[T[i]], cool[T[i]])}}
                    ELSE {}
        circ2 == [m \in Candidates |->
                     IF m \in looked THEN AfterAsking(circ[m], cool[m]) ELSE circ[m]]
        last403 == k = "system" /\ free = {}
        cleared == IF last403 THEN asked403 \cup {providerOf[call.chain[i]] : i \in DOMAIN call.chain}
                   ELSE asked403
        allOpen == \A i \in DOMAIN call.chain : circ2[call.chain[i]].state = "OPEN"
        over == ~call.tried \/ allOpen \/ call.attempt = MaxRetries
    IN  /\ circuit' = circ2
        /\ streak' = [p \in ProviderIds |->
                         IF p \in cleared THEN StreakAfterAsking(blk[p], stk[p]) ELSE stk[p]]
        /\ blocked' = [p \in ProviderIds |->
                         IF p \in cleared /\ blk[p] = "expired" THEN "no" ELSE blk[p]]
        /\ \/ /\ free # {}
              /\ calls' = [calls EXCEPT ![c] = [call EXCEPT !.pc = "asking", !.tried = TRUE,
                               !.tokens = 0, !.todo = SubSeq(T, next, Len(T))]]
              /\ UNCHANGED allOpenSeen
           \/ /\ free = {} /\ over
              /\ calls' = [calls EXCEPT ![c] = Ended(call, Verdict(k, call, blk))]
              /\ allOpenSeen' = (allOpenSeen \/ (call.tried /\ allOpen))
           \/ /\ free = {} /\ ~over
              /\ calls' = [calls EXCEPT ![c] = [call EXCEPT !.pc = "backoff", !.todo = <<>>]]
              /\ UNCHANGED allOpenSeen

\* The call passes the key check and waits at the quota gate.
Enter(c) ==
    /\ calls[c].pc = "idle"
    /\ calls' = [calls EXCEPT ![c].pc = "gate"]
    /\ UNCHANGED <<gatesVars, load, allOpenSeen, quotaAge, late, refused>>

\* get_configured_providers: excluded models are left out; a pooled provider
\* also leaves out the models its circuit blocks, and asking the circuit counts.
Chains ==
    LET in == {m \in Candidates \ excluded :
                  providerOf[m] \in Pooled => _circuit_allow(circuit[m], cooldown[m])}
    IN  {s \in [1..Cardinality(in) -> in] :
            /\ \A i, j \in DOMAIN s : i # j => s[i] # s[j]
            /\ \A i, j \in DOMAIN s : providerOf[s[i]] \in Pooled
                                      /\ providerOf[s[j]] \notin Pooled => i < j}
AfterChain ==
    [m \in Candidates |-> IF m \notin excluded /\ providerOf[m] \in Pooled
                          THEN AfterAsking(circuit[m], cooldown[m]) ELSE circuit[m]]

Begin(c) ==
    /\ calls[c].pc = "gate"
    /\ \E s \in Chains :
          Proceed(c, [calls[c] EXCEPT !.chain = s, !.todo = s],
                  AfterChain, cooldown, streak, blocked)
    /\ UNCHANGED <<providerOf, cooldown, excluded, load, quotaAge, late, refused>>

\* Enter answer o of the current candidate in the gates, then go on.  A stream
\* that has given tokens out ends with the error instead (the except branch).
Answered(c, o) ==
    LET m == Current(c)
        p == providerOf[m]
        k == load.kinds[c]
        ok == o = "text"
        circ == [circuit EXCEPT ![m] = IF ok THEN _circuit_record_success(@)
                                       ELSE _circuit_record_failure(@, o)]
        cool == [cooldown EXCEPT ![m] = IF _classify_permanent_error(o) THEN BanTTL ELSE @]
        writes403 == Reads403(k) /\ ~(k = "system" /\ o = "empty")
        stk == [streak EXCEPT ![p] = IF writes403 THEN _r05_403_record(@, Is403(o)) ELSE @]
        blk == [blocked EXCEPT ![p] = IF writes403 THEN BlockAfter(@, streak[p], Is403(o)) ELSE @]
        call == [calls[c] EXCEPT !.todo = Tail(@), !.failed = TRUE,
                     !.saw429 = @ \/ o = "quota",
                     !.sawEmpty = @ \/ (o = "empty" /\ k = "complete")]
        dropout == ok /\ k = "stream" /\ calls[c].tokens < 2
        ends == (ok /\ ~dropout) \/ (~ok /\ calls[c].tokens > 0)
        waits == dropout /\ calls[c].attempt < MaxRetries
    IN  /\ cooldown' = cool
        /\ excluded' = IF _classify_permanent_error(o) THEN excluded \cup {m} ELSE excluded
        /\ quotaAge' = [quotaAge EXCEPT ![m] = IF o = "quota" THEN 0 ELSE IF ok THEN QuotaTTL ELSE @]
        /\ late' = [late EXCEPT ![m] = IF o = "quota" \/ ok THEN 0
                                      ELSE IF @ < FailThreshold THEN @ + 1 ELSE @]
        /\ refused' = [refused EXCEPT ![p] =
                          IF Is403(o) /\ writes403 /\ @ < ForbiddenThreshold THEN @ + 1 ELSE @]
        /\ UNCHANGED <<providerOf, load>>
        /\ \/ /\ ends \/ waits
              /\ calls' = [calls EXCEPT ![c] =
                     IF ends THEN Ended(calls[c], IF ok THEN "text" ELSE "error")
                     ELSE [call EXCEPT !.pc = "dropped", !.tokens = 0]]
              /\ circuit' = circ /\ streak' = stk /\ blocked' = blk
              /\ UNCHANGED allOpenSeen
           \/ ~ends /\ ~waits /\ Proceed(c, call, circ, cool, stk, blk)

\* A token event of a stream reaches the reader.
StreamToken(c) ==
    /\ calls[c].pc = "asking" /\ load.kinds[c] = "stream" /\ calls[c].tokens < 2
    /\ calls' = [calls EXCEPT ![c].tokens = @ + 1,
                              ![c].first = IF @ = "none" THEN Current(c) ELSE @]
    /\ UNCHANGED <<gatesVars, load, allOpenSeen, quotaAge, late, refused>>

\* The request ends: with text (the end of a stream that gave tokens out), with
\* an empty text, or with an exception, which can also cut a stream short.
Reply(c, o) ==
    /\ calls[c].pc = "asking"
    /\ load.kinds[c] = "stream" /\ o = "text" => calls[c].tokens > 0
    /\ calls[c].tokens > 0 => o \in {"text", "transient"}
    /\ Answered(c, o)

\* The pause after a dropped stream is over: the for loop takes the next candidate.
AfterDropout(c) ==
    /\ calls[c].pc = "dropped"
    /\ Proceed(c, calls[c], circuit, cooldown, streak, blocked)
    /\ UNCHANGED <<providerOf, cooldown, excluded, load, quotaAge, late, refused>>

\* Mutant: the rounds are not counted.
NextRoundUncounted(c) ==
    /\ calls[c].pc = "backoff"
    /\ Proceed(c, [calls[c] EXCEPT !.todo = calls[c].chain, !.tried = FALSE],
               circuit, cooldown, streak, blocked)
    /\ UNCHANGED <<providerOf, cooldown, excluded, load, quotaAge, late, refused>>

\* The backoff is over: the next round asks the whole chain again.
NextRound(c) ==
    /\ calls[c].pc = "backoff"
    /\ Proceed(c, [calls[c] EXCEPT !.todo = calls[c].chain, !.attempt = @ + 1, !.tried = FALSE],
               circuit, cooldown, streak, blocked)
    /\ UNCHANGED <<providerOf, cooldown, excluded, load, quotaAge, late, refused>>

Tick ==
    /\ \/ BlockExpires /\ UNCHANGED quotaAge
       \/ /\ WindowPasses
          /\ quotaAge' = [m \in Candidates |->
                             IF quotaAge[m] < QuotaTTL THEN quotaAge[m] + 1 ELSE QuotaTTL]
    /\ UNCHANGED <<load, calls, allOpenSeen, late, refused>>

CallStep(c) == \/ Begin(c)
               \/ StreamToken(c)
               \/ \E o \in load.answers : Reply(c, o)
               \/ AfterDropout(c)
               \/ NextRound(c)

LLMInit == GatesInit /\ ClientInit
LLMNext == \/ \E c \in Calls : Enter(c) \/ CallStep(c)
           \/ Tick

LLMSpec == LLMInit /\ [][LLMNext]_llmVars

\* Requests have timeouts and sleeps end, so a call under way goes on: weak
\* fairness of CallStep, with its enabling condition spelled out.
InFlight(c) == calls[c].pc \notin {"idle", "done"}
LLMFairness == \A c \in Calls :
    []<>~InFlight(c) \/ []<><<calls'[c] # calls[c]>>_llmVars
-----------------------------------------------------------------------------
CallRecord == [pc: {"idle", "gate", "asking", "dropped", "backoff", "done"},
               chain: Seq(Candidates), todo: Seq(Candidates), attempt: 0..MaxRetries,
               tried: BOOLEAN, saw429: BOOLEAN, sawEmpty: BOOLEAN, failed: BOOLEAN,
               tokens: 0..2, first: Candidates \cup {"none"},
               result: {"none", "text", "empty", "error", "rate_limited",
                        "all_403", "no_provider"}]

\* The gates and the calls keep their types; a call asks somebody exactly while
\* its round has a candidate in hand.
LLMTypeOK ==
    /\ GatesTypeOK
    /\ load \in Loads /\ allOpenSeen \in BOOLEAN
    /\ calls \in [Calls -> CallRecord]
    /\ quotaAge \in [Candidates -> 0..QuotaTTL] /\ late \in [Candidates -> 0..FailThreshold]
    /\ refused \in [ProviderIds -> 0..ForbiddenThreshold]
    /\ \A c \in Calls : calls[c].pc = "asking" => calls[c].todo # <<>>

\* A request of call c leaves for candidate m in this step.
Sends(c, m) ==
    /\ calls'[c].pc = "asking" /\ calls'[c].todo # calls[c].todo
    /\ Head(calls'[c].todo) = m

\* A candidate that refused for good is asked by nobody while its long cooldown
\* runs, although calls hold it in chains they built before, and although a late
\* answer of an older request can have closed its circuit meanwhile.
RefusedIsLeftAlone ==
    [][\A c \in Calls, m \in Candidates : Sends(c, m) => cooldown'[m] = 0]_llmVars

\* After a 429 nobody asks the candidate for the whole quota window (30 min),
\* unless an answer with text came after it or as many requests that were under
\* way failed in another way as open a circuit by themselves: that reopens it for
\* 5 min only.  Fewer of them leave the window as it is.
QuotaWindowUnlessLate ==
    [][\A c \in Calls, m \in Candidates :
          Sends(c, m) => quotaAge'[m] = QuotaTTL \/ late'[m] >= FailThreshold]_llmVars

\* "quota (429): 30 min, aligned with the window of the free models' quota, to
\* avoid probing it like a sawtooth" (gates.py 14): whatever else happens.
QuotaWindowHonoured ==
    [][\A c \in Calls, m \in Candidates : Sends(c, m) => quotaAge'[m] = QuotaTTL]_llmVars

\* "All LLM providers returned 403" is said only when every provider in the
\* chain of the call has answered 403 often enough: an answer of another kind, a
\* circuit opened by something else or an empty chain is no such proof.
ForbiddenVerdictEarned ==
    \A c \in Calls : calls[c].result = "all_403" =>
        /\ calls[c].chain # <<>>
        /\ \A i \in DOMAIN calls[c].chain :
               refused[providerOf[calls[c].chain[i]]] = ForbiddenThreshold

\* The same of every provider of the deployment that is not excluded, as the
\* text of the message has it.
AllForbiddenMeansAll ==
    \A c \in Calls : calls[c].result = "all_403" =>
        \A m \in Candidates \ excluded : refused[providerOf[m]] = ForbiddenThreshold

\* A half-open candidate that fails its probe is open again at once
\* (scripts/llm_excluded_review.py tells the operator so).
FailedProbeReopens ==
    [][\A m \in Candidates :
          (circuit[m].state = "HALF_OPEN" /\ circuit'[m].fails > circuit[m].fails)
              => circuit'[m].state = "OPEN"]_llmVars

\* "Once a token has been yielded, commits to that provider" (docstring of
\* llm_complete_stream): nobody else is asked once a token went out.
StreamCommits ==
    [][\A c \in Calls, m \in Candidates :
          Sends(c, m) => calls[c].first \in {"none", m}]_llmVars

\* Every call that passed the key check ends with a text or a verdict.
EveryLlmCallEnds == \A c \in Calls : calls[c].pc = "gate" ~> calls[c].pc = "done"
=============================================================================
