------------------------------ MODULE MCServices ------------------------------
(***************************************************************************)
(* The provider calls with their gates, the quota gate, the stored         *)
(* configuration and the end of the lifespan on small instances.  They     *)
(* share no variable, so they are checked side by side: "part" says which  *)
(* of them moves in a behaviour.  FourCompletions is the load that shows   *)
(* the shrunken quota window: after a 429 as many calls fail late as it    *)
(* takes to open the circuit of their model anew, and one comes after them.*)
(***************************************************************************)
EXTENDS LLMClient, LLMQuotaGate, ConfigStore, LifespanShutdown, TLC

CONSTANTS m1, m2, zen, deepseek, c1, c2, c3, c4, Parts

VARIABLE part

vars == <<llmVars, gateVars, configVars, shutdownVars, part>>

OnePool == m1 :> zen @@ m2 :> zen
TwoProviders == m1 :> zen @@ m2 :> deepseek
MCDeployments == {OnePool, TwoProviders}
MCLoads ==
    {[deployment |-> TwoProviders, kinds |-> (c1 :> "system" @@ c2 :> "system"),
      answers |-> {"text", "forbidden", "quota"}],
     [deployment |-> OnePool, kinds |-> (c1 :> "stream" @@ c2 :> "complete"),
      answers |-> {"empty", "quota"}],
     [deployment |-> TwoProviders, kinds |-> (c1 :> "stream" @@ c2 :> "system"),
      answers |-> {"text", "gated", "transient"}]}

OneModel == {m1 :> deepseek}
FourCompletions ==
    {[deployment |-> m1 :> deepseek, answers |-> {"quota", "transient"},
      kinds |-> (c1 :> "complete" @@ c2 :> "complete" @@ c3 :> "complete" @@ c4 :> "complete")]}

Init == /\ part \in Parts
        /\ LLMInit /\ (part # "llm" => load = CHOOSE l \in Loads : l.deployment = providerOf)
        /\ GateInit /\ ConfigInit /\ ShutdownInit

OthersThanLlm == <<gateVars, configVars, shutdownVars, part>>
OthersThanGate == <<llmVars, configVars, shutdownVars, part>>
OthersThanShutdown == <<llmVars, gateVars, configVars, part>>

Next ==
    \/ part = "llm" /\ LLMNext /\ UNCHANGED OthersThanLlm
    \/ part = "gate" /\ GateNext /\ UNCHANGED OthersThanGate
    \/ part = "config" /\ ConfigNext /\ UNCHANGED <<llmVars, gateVars, shutdownVars, part>>
    \/ part = "shutdown" /\ ShutdownNext /\ UNCHANGED OthersThanShutdown

\* GateFairness and ShutdownFairness, for the behaviours in which those parts move.
FairGate ==
    /\ WF_vars(part = "gate" /\ TimePasses /\ UNCHANGED OthersThanGate)
    /\ \A c \in Callers : WF_vars(part = "gate" /\ Wake(c) /\ UNCHANGED OthersThanGate)
FairShutdown ==
    LET Lifted(A) == part = "shutdown" /\ A /\ UNCHANGED OthersThanShutdown
    IN  /\ \A s \in Stores : WF_vars(Lifted(Working(s)))
        /\ WF_vars(Lifted(WaitIsOver))
        /\ WF_vars(Lifted(StopStores))

Spec == Init /\ [][Next]_vars /\ LLMFairness /\ FairGate /\ FairShutdown

\* Every variable of the components keeps its type.
ServicesTypeOK == LLMTypeOK /\ GateTypeOK /\ ConfigTypeOK /\ ShutdownTypeOK
===============================================================================
