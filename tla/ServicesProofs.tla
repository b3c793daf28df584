----------------------------- MODULE ServicesProofs -----------------------------
(***************************************************************************)
(* What the services guarantee for any number of callers, candidates,      *)
(* models, tasks and records, of MCServices' four parts: the gate of the   *)
(* quota, the persisted exclusions, the stores of usage and source events  *)
(* with the end of the process, and the calls of the LLM client.           *)
(***************************************************************************)
EXTENDS LLMClient, LLMQuotaGate, ConfigStore, LifespanShutdown,
        FiniteSetTheorems, SequenceTheorems, WellFoundedInduction, TLAPS

-------------------------------------------------------------------------------
(***************************************************************************)
(* The quota gate: a sleep covers the pause that was on when it began, and *)
(* two calls come too close only when one slept while the other passed.    *)
(***************************************************************************)

\* The time since the last passage is what the gap has lost of its length.
ClockAgrees == latest.since = Gap - gapLeft

\* A sleep is as long as the pause its caller owes.
SleepCoversPause == \A c \in Callers : caller[c].pc = "asleep" => owed[c] <= caller[c].wait

\* A sleep is as long as the gap unless somebody passed meanwhile, and only a
\* sleeper counts as overtaken.
SleepCoversGap ==
    /\ \A c \in Callers : caller[c].pc = "asleep" /\ ~overtaken[c] => gapLeft <= caller[c].wait
    /\ \A c \in Callers : caller[c].pc = "out" => overtaken[c] = FALSE

\* The inductive invariant of the gate.
GateInv == GateTypeOK /\ ClockAgrees /\ SleepCoversPause /\ SleepCoversGap

\* A clock that runs down stays within its range.
LEMMA LessInRange ==
    ASSUME NEW M \in Nat, NEW n \in 0..M
    PROVE  Less(n) \in 0..M /\ (n > 0 => Less(n) = n - 1) /\ (n = 0 => Less(n) = 0)
  BY DEF Less

\* The gate opens with nobody in it.
LEMMA GateStarts == GateInit => GateInv
  BY GateAssumption
     DEF GateInit, GateInv, GateTypeOK, ClockAgrees, SleepCoversPause, SleepCoversGap

\* A caller that goes through sets the gap anew and overtakes every sleeper.
LEMMA PassKeeps ==
    ASSUME GateInv, NEW c \in Callers, Pass(c),
           owed' \in [Callers -> 0..Pause], \A d \in Callers \ {c} : owed'[d] = owed[d]
    PROVE  GateInv'
<1> USE DEF GateInv
<1>1. GateTypeOK'
  <2>1. Gap \in Nat \ {0} /\ Pause \in Nat \ {0}
    BY GateAssumption
  <2>2. gapLeft' \in 0..Gap /\ pauseLeft' \in 0..Pause
    BY <2>1 DEF GateTypeOK, Pass
  <2>3. caller' \in [Callers -> [pc: {"out", "asleep"}, wait: 0..Pause]]
    BY <2>1 DEF GateTypeOK, Pass
  <2>4. overtaken' \in [Callers -> BOOLEAN]
    BY Zenon DEF GateTypeOK, Pass
  <2>5. latest' \in [by: Callers \cup {"none"}, since: 0..Gap]
    BY <2>1 DEF GateTypeOK, Pass
  <2> QED BY <2>2, <2>3, <2>4, <2>5 DEF GateTypeOK
<1>2. ClockAgrees'
  BY GateAssumption DEF GateTypeOK, Pass, ClockAgrees
<1>3. SleepCoversPause'
  BY DEF GateTypeOK, Pass, SleepCoversPause
<1>4. ASSUME NEW d \in Callers, (caller[d].pc = "asleep")', ~overtaken'[d]
      PROVE  FALSE
  BY <1>4 DEF GateTypeOK, Pass
<1>5. ASSUME NEW d \in Callers, (caller[d].pc = "out")'
      PROVE  overtaken'[d] = FALSE
  <2>1. CASE d = c
    BY <2>1 DEF Pass
  <2>2. CASE d # c
    <3>1. caller[d].pc = "out"
      BY <2>2, <1>5 DEF GateTypeOK, Pass
    <3> QED BY <3>1, <2>2 DEF Pass, SleepCoversGap
  <2> QED BY <2>1, <2>2
<1> QED BY <1>1, <1>2, <1>3, <1>4, <1>5 DEF SleepCoversGap

\* A caller that falls asleep sleeps off both the gap and the pause.
LEMMA FallAsleepKeeps ==
    ASSUME GateInv, NEW c \in Callers, caller[c].pc = "out",
           owed' = [owed EXCEPT ![c] = pauseLeft],
           caller' = [caller EXCEPT ![c] = [pc |-> "asleep", wait |-> Longer(gapLeft, pauseLeft)]],
           UNCHANGED <<gapLeft, pauseLeft, overtaken, latest>>
    PROVE  GateInv'
<1> USE DEF GateInv
<1>1. Longer(gapLeft, pauseLeft) \in 0..Pause /\ gapLeft <= Longer(gapLeft, pauseLeft)
      /\ pauseLeft <= Longer(gapLeft, pauseLeft)
  BY GateAssumption DEF GateTypeOK, Longer
<1>2. GateTypeOK'
  BY <1>1 DEF GateTypeOK
<1>3. ClockAgrees'
  BY DEF ClockAgrees
<1>4. SleepCoversPause'
  BY <1>1 DEF GateTypeOK, SleepCoversPause
<1>5. SleepCoversGap'
  <2>1. \A d \in Callers :
            (caller[d].pc = "asleep")' /\ ~overtaken'[d] => gapLeft' <= caller'[d].wait
    BY <1>1 DEF GateTypeOK, SleepCoversGap
  <2>2. \A d \in Callers : (caller[d].pc = "out")' => overtaken'[d] = FALSE
    BY DEF GateTypeOK, SleepCoversGap
  <2> QED BY <2>1, <2>2 DEF SleepCoversGap
<1> QED BY <1>2, <1>3, <1>4, <1>5

\* acquire up to its sleep or its end.
LEMMA AcquireKeeps == ASSUME GateInv, NEW c \in Callers, Acquire(c) PROVE GateInv'
<1>1. CASE Longer(gapLeft, pauseLeft) = 0 /\ Pass(c)
  BY <1>1, PassKeeps DEF Acquire, GateInv, GateTypeOK
<1>2. CASE /\ caller' = [caller EXCEPT ![c] =
                            [pc |-> "asleep", wait |-> Longer(gapLeft, pauseLeft)]]
           /\ UNCHANGED <<gapLeft, pauseLeft, overtaken, latest>>
  BY <1>2, FallAsleepKeeps DEF Acquire
<1> QED BY <1>1, <1>2 DEF Acquire

\* Time runs down every clock alike.
LEMMA TimeKeeps == ASSUME GateInv, TimePasses PROVE GateInv'
<1> USE DEF GateInv
<1>1. Gap \in Nat \ {0} /\ Pause \in Nat \ {0}
  BY GateAssumption
<1>2. /\ gapLeft' \in 0..Gap /\ pauseLeft' \in 0..Pause /\ owed' \in [Callers -> 0..Pause]
      /\ overtaken' \in [Callers -> BOOLEAN]
  BY <1>1, LessInRange DEF GateTypeOK, TimePasses
<1>3. caller' \in [Callers -> [pc: {"out", "asleep"}, wait: 0..Pause]]
  BY <1>1, LessInRange DEF GateTypeOK, TimePasses
<1>4. latest' \in [by: Callers \cup {"none"}, since: 0..Gap]
  <2>1. latest.since \in 0..Gap /\ latest.by \in Callers \cup {"none"}
    BY DEF GateTypeOK
  <2>2. latest' = [by |-> latest.by,
                   since |-> IF latest.since < Gap THEN latest.since + 1 ELSE Gap]
    BY DEF GateTypeOK, TimePasses
  <2>3. (IF latest.since < Gap THEN latest.since + 1 ELSE Gap) \in 0..Gap
    BY <1>1, <2>1
  <2> QED BY <2>1, <2>2, <2>3
<1>5. GateTypeOK'
  BY <1>2, <1>3, <1>4 DEF GateTypeOK
<1>6. ClockAgrees'
  BY <1>1 DEF GateTypeOK, TimePasses, ClockAgrees, Less
<1>7. \A c \in Callers : /\ caller'[c].pc = caller[c].pc /\ caller'[c].wait = Less(caller[c].wait)
                         /\ caller[c].wait \in Nat /\ owed'[c] = Less(owed[c]) /\ owed[c] \in Nat
                         /\ overtaken'[c] = overtaken[c]
  BY DEF GateTypeOK, TimePasses
<1>8. SleepCoversPause'
  BY <1>7 DEF SleepCoversPause, Less
<1>9. SleepCoversGap'
  <2>1. gapLeft \in Nat /\ gapLeft' = Less(gapLeft)
    BY <1>1 DEF GateTypeOK, TimePasses
  <2> QED BY <2>1, <1>7 DEF SleepCoversGap, Less
<1> QED BY <1>5, <1>6, <1>8, <1>9

\* Every step of the gate keeps the invariant.
LEMMA GateKeeps == GateInv /\ [GateNext]_gateVars => GateInv'
<1> SUFFICES ASSUME GateInv, [GateNext]_gateVars PROVE GateInv'
  OBVIOUS
<1>1. ASSUME NEW c \in Callers, Acquire(c) PROVE GateInv'
  BY <1>1, AcquireKeeps
<1>2. ASSUME NEW c \in Callers, Wake(c) PROVE GateInv'
  BY <1>2, PassKeeps DEF Wake, GateInv, GateTypeOK
<1>3. CASE mark_exhausted
  BY <1>3, GateAssumption
     DEF mark_exhausted, GateInv, GateTypeOK, ClockAgrees, SleepCoversPause, SleepCoversGap
<1>4. CASE TimePasses
  BY <1>4, TimeKeeps
<1>5. CASE UNCHANGED gateVars
  BY <1>5 DEF gateVars, GateInv, GateTypeOK, ClockAgrees, SleepCoversPause, SleepCoversGap
<1> QED BY <1>1, <1>2, <1>3, <1>4, <1>5 DEF GateNext

\* The clocks and the callers keep their types.
THEOREM GateTypeCorrect == GateSpec => []GateTypeOK
<1>1. GateInv => GateTypeOK
  BY DEF GateInv
<1> QED BY <1>1, GateStarts, GateKeeps, PTL DEF GateSpec

\* A pause that was on when a caller came is over when it passes.
THEOREM PausesCovered == GateSpec => PauseCovered
<1>1. GateInv /\ [GateNext]_gateVars
        => [\A c \in Callers : Passes(c) => owed[c] = 0]_gateVars
  <2> SUFFICES ASSUME GateInv, GateNext, NEW c \in Callers, Passes(c) PROVE owed[c] = 0
    BY DEF gateVars
  <2>1. caller[c].pc = "asleep" /\ caller'[c].pc = "out"
    BY DEF Passes
  <2>2. ASSUME NEW d \in Callers, Acquire(d) PROVE FALSE
    BY <2>1, <2>2 DEF Acquire, Pass, GateInv, GateTypeOK
  <2>3. ASSUME NEW d \in Callers, Wake(d) PROVE d = c /\ caller[c].wait = 0
    BY <2>1, <2>3 DEF Wake, Pass, GateInv, GateTypeOK
  <2>4. ~mark_exhausted /\ ~TimePasses
    BY <2>1 DEF mark_exhausted, TimePasses, GateInv, GateTypeOK
  <2>5. caller[c].wait = 0
    BY <2>2, <2>3, <2>4 DEF GateNext
  <2> QED BY <2>1, <2>5 DEF GateInv, GateTypeOK, SleepCoversPause
<1> QED BY <1>1, GateStarts, GateKeeps, PTL DEF GateSpec, PauseCovered

\* Two calls keep the gap unless one slept while the other passed.
THEOREM Spaced == GateSpec => SpacedUnlessOvertaken
<1>1. GateInv /\ [GateNext]_gateVars
        => [\A c \in Callers : Goes(c) /\ ~overtaken[c] => latest.since = Gap]_gateVars
  <2> SUFFICES ASSUME GateInv, GateNext, NEW c \in Callers, Goes(c), ~overtaken[c]
               PROVE  latest.since = Gap
    BY DEF gateVars
  <2>1. latest' = [by |-> c, since |-> 0] /\ latest' # latest
    BY DEF Goes
  <2>2. ASSUME NEW d \in Callers, Acquire(d) PROVE gapLeft = 0
    <3>1. Longer(gapLeft, pauseLeft) = 0
      BY <2>1, <2>2 DEF Acquire
    <3> QED BY <3>1 DEF Longer, GateInv, GateTypeOK
  <2>3. ASSUME NEW d \in Callers, Wake(d) PROVE gapLeft = 0
    <3>1. d = c /\ caller[c].pc = "asleep" /\ caller[c].wait = 0
      BY <2>1, <2>3 DEF Wake, Pass
    <3> QED BY <3>1, GateAssumption DEF GateInv, GateTypeOK, SleepCoversGap
  <2>4. ~mark_exhausted
    BY <2>1 DEF mark_exhausted
  <2>5. ~TimePasses
    <3> SUFFICES ASSUME TimePasses PROVE FALSE
      OBVIOUS
    <3>1. latest'.since = IF latest.since < Gap THEN latest.since + 1 ELSE Gap
      BY DEF TimePasses, GateInv, GateTypeOK
    <3>2. latest'.since # 0
      BY <3>1, GateAssumption DEF GateInv, GateTypeOK
    <3> QED BY <3>2, <2>1
  <2>6. gapLeft = 0
    BY <2>2, <2>3, <2>4, <2>5 DEF GateNext
  <2> QED BY <2>6, GateAssumption DEF GateInv, GateTypeOK, ClockAgrees
<1> QED BY <1>1, GateStarts, GateKeeps, PTL DEF GateSpec, SpacedUnlessOvertaken

-------------------------------------------------------------------------------
(***************************************************************************)
(* The settings: an exclusion whose storing was confirmed is never lost.   *)
(***************************************************************************)

\* No removal is under way of an exclusion that was confirmed while none was.
NoneLeaving ==
    \A m \in acked \ passedBy : \A a \in Admins : requests[a] # Removing(m)

\* The inductive invariant: without NoneLeaving a removal that was asked for before
\* the exclusion was confirmed could still take it out of the table.
ConfigInv == ConfigTypeOK /\ AckedExclusionStays /\ NoneLeaving

\* The request an admin may have under way.
Request == {NoRequest} \cup [op: {"add", "remove"}, model: Models]

\* Types of the settings, apart from the exclusions.
LEMMA SettingsTyped ==
    ASSUME ConfigTypeOK, [ConfigNext]_configVars
    PROVE  /\ overrides' \in [ConfigKeys -> Values \cup {NoRow}]
           /\ settings' \in [ConfigKeys -> {Env} \cup Values]
<1> USE DEF ConfigTypeOK
<1>1. ASSUME NEW k \in ConfigKeys, NEW v \in Values, update_config(k, v)
      PROVE  /\ overrides' \in [ConfigKeys -> Values \cup {NoRow}]
             /\ settings' \in [ConfigKeys -> {Env} \cup Values]
  BY <1>1 DEF update_config
<1>2. ASSUME NEW k \in ConfigKeys, delete_override(k)
      PROVE  /\ overrides' \in [ConfigKeys -> Values \cup {NoRow}]
             /\ settings' \in [ConfigKeys -> {Env} \cup Values]
  BY <1>2 DEF delete_override
<1>3. CASE Restart
  BY <1>3 DEF Restart
<1>4. CASE UNCHANGED <<overrides, settings>>
  BY <1>4
<1> QED BY <1>1, <1>2, <1>3, <1>4
       DEF ConfigNext, configVars, AddExclusion, RemoveExclusion, mark_excluded,
           FinishAdd, FinishRemove

\* What the steps of the exclusions keep.
Kept == /\ inMemory' \subseteq Models /\ saved' \subseteq Models
        /\ acked' \subseteq Models /\ passedBy' \subseteq acked'
        /\ requests' \in [Admins -> Request]
        /\ AckedExclusionStays' /\ NoneLeaving'

\* Requests of the two kinds are told apart, and by their models.
LEMMA RequestsApart ==
    ASSUME NEW m \in Models, NEW n
    PROVE  /\ Adding(m) \in Request /\ Removing(m) \in Request /\ NoRequest \in Request
           /\ NoRequest # Removing(n) /\ Adding(m) # Removing(n)
           /\ Removing(m) = Removing(n) => m = n
<1>1. NoRequest.op # Removing(n).op /\ Adding(m).op # Removing(n).op
  BY DEF NoRequest, Adding, Removing
<1>2. Removing(m).model = m /\ Removing(n).model = n
  BY DEF Removing
<1>3. Adding(m) \in Request /\ Removing(m) \in Request /\ NoRequest \in Request
  BY DEF Adding, Removing, NoRequest, Request
<1> QED BY <1>1, <1>2, <1>3

\* A confirmation needs the row written, and either no removal is under way or the
\* model counts as overtaken.
LEMMA FinishAddKeeps ==
    ASSUME ConfigInv, NEW a \in Admins, NEW m \in Models, FinishAdd(a, m)
    PROVE  Kept
<1> USE DEF ConfigInv, ConfigTypeOK
<1>1. /\ inMemory' = inMemory
      /\ requests' \in [Admins -> Request]
      /\ \A b \in Admins : requests'[b] = requests[b] \/ requests'[b] = NoRequest
  BY RequestsApart DEF FinishAdd, Leaves, Request
<1>2. CASE UNCHANGED <<saved, acked, passedBy>>
  BY <1>1, <1>2, RequestsApart DEF Kept, AckedExclusionStays, NoneLeaving
<1>3. CASE saved' = saved \cup {m} /\ Confirms(m)
  <2>1. CASE m \notin inMemory
    BY <1>1, <1>3, <2>1, RequestsApart DEF Kept, Confirms, AckedExclusionStays, NoneLeaving
  <2>2. CASE m \in inMemory
    <3>1. acked' = acked \cup {m} /\ passedBy' \in {passedBy \cup {m}, passedBy \ {m}}
      BY <1>3, <2>2 DEF Confirms
    <3>2. m \notin passedBy' => \A b \in Admins : requests[b] # Removing(m)
      BY <1>3, <2>2 DEF Confirms
    <3>3. \A n \in acked' \ passedBy' : n = m \/ n \in acked \ passedBy
      BY <3>1
    <3>4. AckedExclusionStays'
      BY <3>3, <1>3 DEF AckedExclusionStays
    <3>5. NoneLeaving'
      BY <3>2, <3>3, <1>1, RequestsApart DEF NoneLeaving
    <3> QED BY <1>1, <1>3, <3>1, <3>4, <3>5 DEF Kept
  <2> QED BY <2>1, <2>2
<1> QED BY <1>2, <1>3 DEF FinishAdd

\* Each administrator's step, and a restart, keep confirmed exclusions in the table.
LEMMA ConfigKeeps == ConfigInv /\ [ConfigNext]_configVars => ConfigInv'
<1> SUFFICES ASSUME ConfigInv, [ConfigNext]_configVars PROVE ConfigInv'
  OBVIOUS
<1> USE DEF ConfigInv, ConfigTypeOK
<1>1. ASSUME NEW a \in Admins, NEW m \in Models, AddExclusion(a, m) PROVE Kept
  <2>1. /\ requests' \in [Admins -> Request]
        /\ \A b \in Admins : requests'[b] = requests[b] \/ requests'[b] = Adding(m)
    BY <1>1, RequestsApart DEF AddExclusion, Asks, Request
  <2> QED BY <1>1, <2>1, RequestsApart
          DEF AddExclusion, Kept, AckedExclusionStays, NoneLeaving
<1>2. ASSUME NEW a \in Admins, NEW m \in Models, RemoveExclusion(a, m) PROVE Kept
  <2>1. /\ requests' \in [Admins -> Request]
        /\ \A b \in Admins : requests'[b] = requests[b] \/ requests'[b] = Removing(m)
    BY <1>2, RequestsApart DEF RemoveExclusion, Asks, Request
  <2> QED BY <1>2, <2>1, RequestsApart
          DEF RemoveExclusion, Kept, AckedExclusionStays, NoneLeaving
<1>3. ASSUME NEW m \in Models, mark_excluded(m) PROVE Kept
  BY <1>3 DEF mark_excluded, Kept, AckedExclusionStays, NoneLeaving, Request
<1>4. ASSUME NEW a \in Admins, NEW m \in Models, FinishAdd(a, m) PROVE Kept
  BY <1>4, FinishAddKeeps
<1>5. ASSUME NEW a \in Admins, NEW m \in Models, FinishRemove(a, m) PROVE Kept
  <2>1. /\ requests' \in [Admins -> Request]
        /\ \A b \in Admins : requests'[b] = requests[b] \/ requests'[b] = NoRequest
    BY <1>5, RequestsApart DEF FinishRemove, Leaves, Request
  <2>2. m \notin acked \ passedBy
    BY <1>5 DEF FinishRemove, NoneLeaving
  <2> QED BY <1>5, <2>1, <2>2, RequestsApart
          DEF FinishRemove, Kept, AckedExclusionStays, NoneLeaving
<1>6. ASSUME NEW k \in ConfigKeys, NEW v \in Values, update_config(k, v) PROVE Kept
  BY <1>6 DEF update_config, Kept, AckedExclusionStays, NoneLeaving, Request
<1>7. ASSUME NEW k \in ConfigKeys, delete_override(k) PROVE Kept
  BY <1>7 DEF delete_override, Kept, AckedExclusionStays, NoneLeaving, Request
<1>8. ASSUME Restart PROVE Kept
  <2>1. requests' = [b \in Admins |-> NoRequest]
    BY <1>8 DEF Restart, AdminIdle
  <2> QED BY <1>8, <2>1, RequestsApart
          DEF Restart, Kept, AckedExclusionStays, NoneLeaving, Request
<1>9. ASSUME UNCHANGED configVars PROVE Kept
  BY <1>9 DEF configVars, Kept, AckedExclusionStays, NoneLeaving, Request
<1>10. Kept
  BY <1>1, <1>2, <1>3, <1>4, <1>5, <1>6, <1>7, <1>8, <1>9 DEF ConfigNext
<1> QED BY <1>10, SettingsTyped DEF Kept, Request

\* A confirmed exclusion stays in the table until its removal is asked for, unless it
\* was confirmed while an older removal was still on its way.
THEOREM AckedExclusionsStay == ConfigSpec => []AckedExclusionStays
<1>1. ConfigInit => ConfigInv
  BY DEF ConfigInit, ConfigInv, ConfigTypeOK, AckedExclusionStays, NoneLeaving, AdminIdle
<1>2. ConfigInv => AckedExclusionStays
  BY DEF ConfigInv
<1> QED BY <1>1, <1>2, ConfigKeeps, PTL DEF ConfigSpec

-------------------------------------------------------------------------------
(***************************************************************************)
(* The stores: each record is in one of five places, and the end of the    *)
(* process leaves none in the queue.                                       *)
(***************************************************************************)

\* No entry is queued twice.
Distinct(q) == \A i, j \in DOMAIN q : q[i] = q[j] => i = j

\* n records over the five places of a store: queue, batch, table, failed flushes and
\* the query that drains.
Split(Q, B, D, L, G, n) ==
    /\ Q \cup B \cup D \cup L \cup G = 1..n
    /\ Q \cap (B \cup D \cup L \cup G) = {} /\ B \cap (D \cup L \cup G) = {}
    /\ D \cap (L \cup G) = {} /\ L \cap G = {}

Drained(s) == IF s = "usage" THEN Elements(query.got) ELSE {}
IsSplit(s) == Split(Elements(queue[s]), Elements(batch[s]), db[s], lost[s], Drained(s), count[s])

\* The inductive invariant of the stores: an entry that is taken is in the queue no more.
StoresInv ==
    /\ StoresTypeOK /\ \A s \in Stores : Distinct(queue[s]) /\ IsSplit(s)
    /\ \A s \in Stores : Len(queue[s]) + Len(batch[s]) <= count[s]
    /\ query.pc = "none" => query.got = <<>>

LEMMA AppendAdds ==
    ASSUME NEW T, NEW q \in Seq(T), NEW x \in T
    PROVE  /\ Append(q, x) \in Seq(T) /\ Len(Append(q, x)) = Len(q) + 1
           /\ Elements(Append(q, x)) = Elements(q) \cup {x}
           /\ Distinct(q) /\ x \notin Elements(q) => Distinct(Append(q, x))
<1>1. /\ Append(q, x) \in Seq(T) /\ Len(Append(q, x)) = Len(q) + 1
      /\ DOMAIN Append(q, x) = 1..(Len(q) + 1) /\ DOMAIN q = 1..Len(q)
      /\ \A i \in 1..Len(q) : Append(q, x)[i] = q[i]
      /\ Append(q, x)[Len(q) + 1] = x
  OBVIOUS
<1>2. Elements(Append(q, x)) = Elements(q) \cup {x}
  BY <1>1 DEF Elements
<1>3. Distinct(q) /\ x \notin Elements(q) => Distinct(Append(q, x))
  BY <1>1 DEF Distinct, Elements
<1> QED BY <1>1, <1>2, <1>3

LEMMA TailTakes ==
    ASSUME NEW T, NEW q \in Seq(T), q # <<>>, Distinct(q)
    PROVE  /\ Tail(q) \in Seq(T) /\ Len(Tail(q)) = Len(q) - 1 /\ Distinct(Tail(q))
           /\ Head(q) \in T /\ Head(q) \in Elements(q)
           /\ Elements(Tail(q)) = Elements(q) \ {Head(q)}
<1>1. /\ Tail(q) \in Seq(T) /\ Len(Tail(q)) = Len(q) - 1 /\ Len(q) \in Nat /\ Len(q) > 0
      /\ DOMAIN Tail(q) = 1..(Len(q) - 1) /\ DOMAIN q = 1..Len(q)
      /\ \A i \in 1..(Len(q) - 1) : Tail(q)[i] = q[i + 1]
      /\ Head(q) = q[1] /\ Head(q) \in T
  OBVIOUS
<1>2. Distinct(Tail(q))
  BY <1>1 DEF Distinct
<1>3. ASSUME NEW x \in Elements(q) \ {Head(q)} PROVE x \in Elements(Tail(q))
  <2>1. PICK i \in 1..Len(q) : x = q[i]
    BY <1>1 DEF Elements
  <2>2. i - 1 \in 1..(Len(q) - 1) /\ Tail(q)[i - 1] = x
    BY <1>1, <2>1
  <2> QED BY <1>1, <2>2 DEF Elements
<1>4. ASSUME NEW x \in Elements(Tail(q)) PROVE x \in Elements(q) \ {Head(q)}
  <2>1. PICK i \in 1..(Len(q) - 1) : x = q[i + 1]
    BY <1>1 DEF Elements
  <2>2. i + 1 \in 1..Len(q) /\ i + 1 # 1
    BY <1>1, <2>1
  <2> QED BY <1>1, <2>1, <2>2 DEF Elements, Distinct
<1> QED BY <1>1, <1>2, <1>3, <1>4 DEF Elements

LEMMA ElementsIn == ASSUME NEW T, NEW q \in Seq(T) PROVE Elements(q) \subseteq T
<1>1. \A i \in DOMAIN q : q[i] \in T
  OBVIOUS
<1> QED BY <1>1 DEF Elements

LEMMA LenSum ==
    ASSUME NEW a \in Nat, NEW b \in Nat, NEW c \in Nat, a + b <= c,
           NEW a1, NEW b1, NEW c1,
           \/ a1 = a + 1 /\ b1 = b /\ c1 = c + 1
           \/ a1 \in Nat /\ a1 <= a /\ b1 = 0 /\ c1 = c
    PROVE  a1 + b1 <= c1
OBVIOUS

LEMMA NoneIsEmpty == Elements(<<>>) = {} /\ Distinct(<<>>)
BY DEF Elements, Distinct

\* What the property says of five places, as one partition.
LEMMA PlacesSplit ==
    ASSUME NEW Q, NEW B, NEW D, NEW L, NEW G, NEW n
    PROVE  (/\ UNION Elements(<<Q, B, D, L, G>>) = 1..n
            /\ \A i, j \in 1..5 : i # j => <<Q, B, D, L, G>>[i] \cap <<Q, B, D, L, G>>[j] = {})
           <=> Split(Q, B, D, L, G, n)
<1> DEFINE P == <<Q, B, D, L, G>>
<1>1. DOMAIN P = 1..5 /\ P[1] = Q /\ P[2] = B /\ P[3] = D /\ P[4] = L /\ P[5] = G
  OBVIOUS
<1>2. 1..5 = {1, 2, 3, 4, 5}
  OBVIOUS
<1> HIDE DEF P
<1>3. Elements(P) = {Q, B, D, L, G}
  BY <1>1, <1>2 DEF Elements
<1>4. UNION Elements(P) = Q \cup B \cup D \cup L \cup G
  BY <1>3
<1>5. (\A i, j \in 1..5 : i # j => P[i] \cap P[j] = {})
      <=> /\ Q \cap (B \cup D \cup L \cup G) = {} /\ B \cap (D \cup L \cup G) = {}
          /\ D \cap (L \cup G) = {} /\ L \cap G = {}
  <2>1. ASSUME \A i, j \in 1..5 : i # j => P[i] \cap P[j] = {}
        PROVE  /\ Q \cap B = {} /\ Q \cap D = {} /\ Q \cap L = {} /\ Q \cap G = {}
               /\ B \cap D = {} /\ B \cap L = {} /\ B \cap G = {}
               /\ D \cap L = {} /\ D \cap G = {} /\ L \cap G = {}
    BY <2>1, <1>1
  <2>2. ASSUME /\ Q \cap B = {} /\ Q \cap D = {} /\ Q \cap L = {} /\ Q \cap G = {}
               /\ B \cap D = {} /\ B \cap L = {} /\ B \cap G = {}
               /\ D \cap L = {} /\ D \cap G = {} /\ L \cap G = {},
               NEW i \in 1..5, NEW j \in 1..5, i # j
        PROVE  P[i] \cap P[j] = {}
    BY <2>2, <1>1, <1>2
  <2> QED BY <2>1, <2>2
<1> QED BY <1>4, <1>5 DEF Split, P

LEMMA InvGivesOnce == StoresInv => EachRecordOnce
BY PlacesSplit DEF StoresInv, EachRecordOnce, IsSplit, Places, Drained

\* What a flush leaves behind: its entries are in the table or counted as failed.
LEMMA Flushed ==
    ASSUME StoresTypeOK, NEW s \in Stores, NEW es \in Seq(1..MaxRecords),
           FlushOk(s, es) \/ FlushFails(s, es)
    PROVE  /\ db' \in [Stores -> SUBSET (1..MaxRecords)]
           /\ lost' \in [Stores -> SUBSET (1..MaxRecords)]
           /\ failures' \in 0..MaxFailures
           /\ \/ db'[s] = db[s] \cup Elements(es) /\ lost'[s] = lost[s]
              \/ db'[s] = db[s] /\ lost'[s] = lost[s] \cup Elements(es)
           /\ \A t \in Stores \ {s} : db'[t] = db[t] /\ lost'[t] = lost[t]
<1>1. Elements(es) \subseteq 1..MaxRecords
  BY ElementsIn
<1>2. CASE FlushOk(s, es)
  BY <1>1, <1>2 DEF FlushOk, StoresTypeOK
<1>3. CASE FlushFails(s, es)
  BY <1>1, <1>3, StoresAssumption DEF FlushFails, StoresTypeOK
<1> QED BY <1>2, <1>3

\* A step of one store leaves the other alone.
Alone(s) ==
    /\ \A t \in Stores \ {s} : /\ queue'[t] = queue[t] /\ batch'[t] = batch[t]
                              /\ db'[t] = db[t] /\ lost'[t] = lost[t] /\ count'[t] = count[t]
    /\ s # "usage" => query' = query

LEMMA OneStoreMoves ==
    ASSUME StoresInv, StoresTypeOK', NEW s \in Stores, Alone(s),
           Distinct(queue'[s]), IsSplit(s)', Len(queue'[s]) + Len(batch'[s]) <= count'[s],
           query'.pc = "none" => query'.got = <<>>
    PROVE  StoresInv'
<1>1. ASSUME NEW t \in Stores \ {s} PROVE IsSplit(t)'
  BY <1>1 DEF StoresInv, IsSplit, Drained, Stores, Alone
<1>2. \A t \in Stores : (Distinct(queue[t]) /\ IsSplit(t))'
  BY <1>1 DEF StoresInv, Alone
<1>3. \A t \in Stores : (Len(queue[t]) + Len(batch[t]) <= count[t])'
  BY DEF StoresInv, Alone
<1> QED BY <1>2, <1>3 DEF StoresInv

LEMMA StoresStart == StoresInit => StoresInv
<1> SUFFICES ASSUME StoresInit PROVE StoresInv
  OBVIOUS
<1>1. StoresTypeOK
  BY StoresAssumption DEF StoresInit, StoresTypeOK
<1>2. ASSUME NEW s \in Stores
      PROVE  /\ Distinct(queue[s]) /\ IsSplit(s) /\ Len(queue[s]) + Len(batch[s]) <= count[s]
  BY NoneIsEmpty DEF StoresInit, IsSplit, Split, Drained
<1> QED BY <1>1, <1>2 DEF StoresInv, StoresInit

\* A new record is in the queue alone.
LEMMA RecordOnce == ASSUME StoresInv, NEW s \in Stores, record(s) PROVE StoresInv'
<1> DEFINE n == count[s] + 1
           q == queue[s]
<1>1. /\ q \in Seq(1..MaxRecords) /\ count[s] \in Nat /\ n \in 1..MaxRecords
      /\ Distinct(q) /\ IsSplit(s) /\ Len(q) + Len(batch[s]) <= count[s]
      /\ Len(q) \in Nat /\ Len(batch[s]) \in Nat
  BY StoresAssumption DEF StoresInv, StoresTypeOK, record
<1>2. n \notin Elements(q)
  BY <1>1 DEF IsSplit, Split
<1>3. /\ Append(q, n) \in Seq(1..MaxRecords) /\ Len(Append(q, n)) = Len(q) + 1
      /\ Elements(Append(q, n)) = Elements(q) \cup {n} /\ Distinct(Append(q, n))
  BY <1>1, <1>2, AppendAdds
<1>4. /\ count' = [count EXCEPT ![s] = n] /\ queue' = [queue EXCEPT ![s] = Append(q, n)]
      /\ UNCHANGED <<batch, db, query, lost, failures>>
  BY DEF record
<1>5. StoresTypeOK'
  BY <1>1, <1>3, <1>4 DEF StoresInv, StoresTypeOK, record
<1>6. IsSplit(s)'
  <2>1. /\ Drained(s)' = Drained(s) /\ batch'[s] = batch[s] /\ db'[s] = db[s] /\ lost'[s] = lost[s]
        /\ queue'[s] = Append(q, n) /\ count'[s] = n
    BY <1>4 DEF Drained, StoresInv, StoresTypeOK
  <2>2. 1..n = (1..count[s]) \cup {n} /\ n \notin 1..count[s]
    BY <1>1
  <2> HIDE DEF n, q
  <2>3. Split(Elements(queue[s]), Elements(batch[s]), db[s], lost[s], Drained(s), count[s])
    BY <1>1 DEF IsSplit
  <2>4. Split(Elements(q) \cup {n}, Elements(batch[s]), db[s], lost[s], Drained(s), n)
    BY <2>2, <2>3 DEF Split, q
  <2> QED BY <2>1, <2>4, <1>3 DEF IsSplit
<1>7. /\ queue'[s] = Append(q, n) /\ batch' = batch /\ count'[s] = n
      /\ \A t \in Stores \ {s} : queue'[t] = queue[t] /\ count'[t] = count[t]
  BY <1>4 DEF StoresInv, StoresTypeOK
<1>8. Distinct(queue'[s])
  BY <1>3, <1>7
<1>9. Len(queue'[s]) + Len(batch'[s]) <= count'[s]
  <2>1. Len(queue'[s]) = Len(q) + 1 /\ Len(batch'[s]) = Len(batch[s]) /\ count'[s] = count[s] + 1
    BY <1>3, <1>7
  <2> HIDE DEF q, n
  <2> QED BY <1>1, <2>1, LenSum
<1>10. Alone(s) /\ (query'.pc = "none" => query'.got = <<>>)
  BY <1>4, <1>7 DEF Alone, StoresInv
<1> QED BY <1>5, <1>6, <1>8, <1>9, <1>10, OneStoreMoves

\* A flush of a batch, be it the worker's or the one of a cancelled worker: what was in
\* hand is in the table, or counted as failed.
LEMMA SplitFlushed ==
    ASSUME NEW Q, NEW B, NEW D, NEW L, NEW G, NEW n, NEW x, NEW D1, NEW L1,
           Split(Q, B, D, L, G, n), x \subseteq Q,
           \/ D1 = D \cup (B \cup x) /\ L1 = L
           \/ D1 = D /\ L1 = L \cup (B \cup x)
    PROVE  Split(Q \ x, {}, D1, L1, G, n)
BY DEF Split

LEMMA SplitTaken ==
    ASSUME NEW Q, NEW B, NEW D, NEW L, NEW G, NEW n, NEW x,
           Split(Q, B, D, L, G, n), x \subseteq Q
    PROVE  /\ Split(Q \ x, B \cup x, D, L, G, n)
           /\ Split(Q \ x, B, D, L, G \cup x, n)
BY DEF Split

LEMMA SplitAnswered ==
    ASSUME NEW Q, NEW B, NEW D, NEW L, NEW G, NEW n, NEW D1, NEW L1,
           Split(Q, B, D, L, G, n),
           \/ D1 = D \cup G /\ L1 = L
           \/ D1 = D /\ L1 = L \cup G
    PROVE  Split(Q, B, D1, L1, {}, n)
BY DEF Split

\* The worker flushes what it has in hand, with the entry it just took or without.
HandsOver(s, x, es, q) ==
    /\ x \subseteq Elements(queue[s])
    /\ es \in Seq(1..MaxRecords) /\ Elements(es) = Elements(batch[s]) \cup x
    /\ q \in Seq(1..MaxRecords) /\ Distinct(q) /\ Elements(q) = Elements(queue[s]) \ x
    /\ Len(q) <= Len(queue[s])
    /\ queue' = [queue EXCEPT ![s] = q] /\ batch' = [batch EXCEPT ![s] = <<>>]
    /\ FlushOk(s, es) \/ FlushFails(s, es)
    /\ worker' \in [Stores -> {"none", "alive", "dead", "cancelled"}]
    /\ UNCHANGED <<count, query>>

LEMMA WorkerOnce ==
    ASSUME StoresInv, NEW s \in Stores, NEW x, NEW es, NEW q, HandsOver(s, x, es, q)
    PROVE  StoresInv'
<1> USE DEF HandsOver
<1>1. /\ \A t \in Stores \ {s} : queue'[t] = queue[t] /\ batch'[t] = batch[t]
                                 /\ count'[t] = count[t]
      /\ queue'[s] = q /\ batch'[s] = <<>> /\ count' = count /\ query' = query
      /\ count[s] \in Nat /\ Len(queue[s]) \in Nat /\ Len(batch[s]) \in Nat /\ Len(q) \in Nat
      /\ Len(queue[s]) + Len(batch[s]) <= count[s] /\ IsSplit(s)
  BY DEF StoresInv, StoresTypeOK
<1>2. /\ db' \in [Stores -> SUBSET (1..MaxRecords)]
      /\ lost' \in [Stores -> SUBSET (1..MaxRecords)]
      /\ failures' \in 0..MaxFailures
      /\ \/ db'[s] = db[s] \cup Elements(es) /\ lost'[s] = lost[s]
         \/ db'[s] = db[s] /\ lost'[s] = lost[s] \cup Elements(es)
      /\ \A t \in Stores \ {s} : db'[t] = db[t] /\ lost'[t] = lost[t]
  BY Flushed DEF StoresInv
<1>3. StoresTypeOK'
  <2>1. /\ count' \in [Stores -> 0..MaxRecords]
        /\ query' \in [pc: {"none", "draining"}, got: Seq(1..MaxRecords), since: 0..MaxRecords]
    BY DEF StoresInv, StoresTypeOK
  <2>2. queue' \in [Stores -> Seq(1..MaxRecords)]
    BY DEF StoresInv, StoresTypeOK
  <2>3. batch' \in [Stores -> Seq(1..MaxRecords)]
    BY DEF StoresInv, StoresTypeOK
  <2> QED BY <1>2, <2>1, <2>2, <2>3 DEF StoresTypeOK
<1>4. Split(Elements(q), {}, db'[s], lost'[s], Drained(s), count[s])
  <2>1. Split(Elements(queue[s]), Elements(batch[s]), db[s], lost[s], Drained(s), count[s])
    BY <1>1 DEF IsSplit
  <2>2. \/ db'[s] = db[s] \cup (Elements(batch[s]) \cup x) /\ lost'[s] = lost[s]
        \/ db'[s] = db[s] /\ lost'[s] = lost[s] \cup (Elements(batch[s]) \cup x)
    BY <1>2
  <2>3. Split(Elements(queue[s]) \ x, {}, db'[s], lost'[s], Drained(s), count[s])
    BY <2>1, <2>2, SplitFlushed, Zenon
  <2> QED BY <2>3
<1>5. IsSplit(s)'
  BY <1>1, <1>4, NoneIsEmpty DEF IsSplit, Drained
<1>6. Len(queue'[s]) + Len(batch'[s]) <= count'[s]
  <2>1. Len(queue'[s]) = Len(q) /\ Len(batch'[s]) = 0 /\ count'[s] = count[s]
    BY <1>1
  <2> QED BY <1>1, <2>1, LenSum
<1>7. Distinct(queue'[s])
  BY <1>1
<1>8. Alone(s) /\ (query'.pc = "none" => query'.got = <<>>)
  BY <1>1, <1>2 DEF Alone, StoresInv
<1> QED BY <1>1, <1>2, <1>3, <1>5, <1>6, <1>7, <1>8, OneStoreMoves

LEMMA TakeOnce == ASSUME StoresInv, NEW s \in Stores, Take(s) PROVE StoresInv'
<1> DEFINE q == queue[s]
           b == Append(batch[s], Head(q))
<1>1. /\ q \in Seq(1..MaxRecords) /\ q # <<>> /\ Distinct(q) /\ batch[s] \in Seq(1..MaxRecords)
      /\ IsSplit(s) /\ count[s] \in Nat /\ Len(q) \in Nat /\ Len(batch[s]) \in Nat
      /\ Len(q) + Len(batch[s]) <= count[s]
  BY DEF StoresInv, StoresTypeOK, Take
<1>2. /\ Tail(q) \in Seq(1..MaxRecords) /\ Len(Tail(q)) = Len(q) - 1 /\ Distinct(Tail(q))
      /\ Head(q) \in 1..MaxRecords /\ Head(q) \in Elements(q)
      /\ Elements(Tail(q)) = Elements(q) \ {Head(q)}
  BY <1>1, TailTakes
<1>3. /\ b \in Seq(1..MaxRecords) /\ Len(b) = Len(batch[s]) + 1
      /\ Elements(b) = Elements(batch[s]) \cup {Head(q)}
  BY <1>1, <1>2, AppendAdds
<1>4. queue' = [queue EXCEPT ![s] = Tail(q)] /\ UNCHANGED <<count, query>>
  BY DEF Take
<1>5. CASE WorkerFlush(s, b)
  <2>1. /\ batch' = [batch EXCEPT ![s] = <<>>]
        /\ FlushOk(s, b) \/ FlushFails(s, b)
        /\ worker' \in [Stores -> {"none", "alive", "dead", "cancelled"}]
    BY <1>5 DEF WorkerFlush, StoresInv, StoresTypeOK
  <2> DEFINE x == {Head(q)}
             q1 == Tail(q)
  <2>2. /\ x \subseteq Elements(queue[s]) /\ Elements(b) = Elements(batch[s]) \cup x
        /\ q1 \in Seq(1..MaxRecords) /\ Distinct(q1) /\ Elements(q1) = Elements(queue[s]) \ x
        /\ Len(q1) <= Len(queue[s]) /\ queue' = [queue EXCEPT ![s] = q1]
        /\ b \in Seq(1..MaxRecords)
    BY <1>1, <1>2, <1>3, <1>4
  <2> HIDE DEF x, q1, b, q
  <2>3. HandsOver(s, x, b, q1)
    BY <2>1, <2>2, <1>4, Zenon DEF HandsOver
  <2> QED BY <2>3, WorkerOnce
<1>6. CASE batch' = [batch EXCEPT ![s] = b] /\ UNCHANGED <<worker, db, lost, failures>>
  <2> HIDE DEF b
  <2>1. /\ \A t \in Stores \ {s} : queue'[t] = queue[t] /\ batch'[t] = batch[t]
                                   /\ count'[t] = count[t] /\ db'[t] = db[t] /\ lost'[t] = lost[t]
        /\ queue'[s] = Tail(q) /\ batch'[s] = b /\ count' = count /\ query' = query
        /\ db'[s] = db[s] /\ lost'[s] = lost[s]
    BY <1>4, <1>6 DEF StoresInv, StoresTypeOK
  <2>2. StoresTypeOK'
    BY <1>2, <1>3, <1>4, <1>6 DEF StoresInv, StoresTypeOK
  <2> HIDE DEF q
  <2>3. Split(Elements(Tail(q)), Elements(b), db[s], lost[s], Drained(s), count[s])
    <3>1. Split(Elements(q), Elements(batch[s]), db[s], lost[s], Drained(s), count[s])
      BY <1>1 DEF IsSplit, q
    <3>2. {Head(q)} \subseteq Elements(q)
      BY <1>2
    <3>3. Split(Elements(q) \ {Head(q)}, Elements(batch[s]) \cup {Head(q)}, db[s], lost[s],
                Drained(s), count[s])
      BY <3>1, <3>2, SplitTaken, Zenon
    <3> QED BY <1>2, <1>3, <3>3
  <2>4. IsSplit(s)'
    BY <2>1, <2>3 DEF IsSplit, Drained
  <2>5. Len(queue'[s]) + Len(batch'[s]) <= count'[s]
    BY <1>1, <1>2, <1>3, <2>1
  <2>6. Alone(s) /\ (query'.pc = "none" => query'.got = <<>>)
    BY <2>1 DEF Alone, StoresInv
  <2>7. Distinct(queue'[s])
    BY <1>2, <2>1
  <2> QED BY <2>2, <2>4, <2>5, <2>6, <2>7, OneStoreMoves
<1> QED BY <1>5, <1>6 DEF Take

LEMMA TimeoutOnce == ASSUME StoresInv, NEW s \in Stores, FlushOnTimeout(s) PROVE StoresInv'
<1> DEFINE x == {}
           q == queue[s]
<1>1. /\ batch' = [batch EXCEPT ![s] = <<>>]
      /\ FlushOk(s, batch[s]) \/ FlushFails(s, batch[s])
      /\ UNCHANGED <<count, query>>
      /\ worker' \in [Stores -> {"none", "alive", "dead", "cancelled"}]
  BY DEF FlushOnTimeout, WorkerFlush, StoresInv, StoresTypeOK
<1>2. /\ q \in Seq(1..MaxRecords) /\ batch[s] \in Seq(1..MaxRecords) /\ Distinct(q)
      /\ Len(q) <= Len(queue[s])
  BY DEF StoresInv, StoresTypeOK
<1>3. queue' = [queue EXCEPT ![s] = q]
  BY DEF FlushOnTimeout, StoresInv, StoresTypeOK
<1>4. /\ x \subseteq Elements(queue[s]) /\ Elements(batch[s]) = Elements(batch[s]) \cup x
      /\ Elements(q) = Elements(queue[s]) \ x
  OBVIOUS
<1> HIDE DEF x, q
<1>5. HandsOver(s, x, batch[s], q)
  BY <1>1, <1>2, <1>3, <1>4, Zenon DEF HandsOver
<1> QED BY <1>5, WorkerOnce

\* A usage query: it drains the queue next to the worker.
LEMMA DrainOnce == ASSUME StoresInv, DrainOne PROVE StoresInv'
<1> DEFINE s == "usage"
           q == queue[s]
           g == Append(query.got, Head(q))
<1>1. /\ s \in Stores /\ q \in Seq(1..MaxRecords) /\ q # <<>> /\ Distinct(q)
      /\ IsSplit(s) /\ count[s] \in Nat /\ Len(q) \in Nat /\ Len(batch[s]) \in Nat
      /\ Len(q) + Len(batch[s]) <= count[s] /\ query.got \in Seq(1..MaxRecords)
  BY DEF StoresInv, StoresTypeOK, DrainOne, Stores
<1>2. /\ Tail(q) \in Seq(1..MaxRecords) /\ Len(Tail(q)) = Len(q) - 1 /\ Distinct(Tail(q))
      /\ Head(q) \in 1..MaxRecords /\ Head(q) \in Elements(q)
      /\ Elements(Tail(q)) = Elements(q) \ {Head(q)}
  BY <1>1, TailTakes
<1>3. g \in Seq(1..MaxRecords) /\ Elements(g) = Elements(query.got) \cup {Head(q)}
  BY <1>1, <1>2, AppendAdds
<1>4. /\ queue' = [queue EXCEPT !["usage"] = Tail(q)] /\ query' = [query EXCEPT !.got = g]
      /\ UNCHANGED <<count, batch, worker, db, lost, failures>>
  BY DEF DrainOne
<1> HIDE DEF g
<1>5. /\ \A t \in Stores \ {s} : queue'[t] = queue[t]
      /\ queue'[s] = Tail(q) /\ query'.got = g
  BY <1>1, <1>4 DEF StoresInv, StoresTypeOK
<1>6. StoresTypeOK'
  BY <1>2, <1>3, <1>4 DEF StoresInv, StoresTypeOK
<1>7. Split(Elements(Tail(q)), Elements(batch[s]), db[s], lost[s], Elements(g), count[s])
  <2>1. Split(Elements(q), Elements(batch[s]), db[s], lost[s], Elements(query.got), count[s])
    BY <1>1 DEF IsSplit, Drained
  <2>2. {Head(q)} \subseteq Elements(q)
    BY <1>2
  <2>3. Split(Elements(q) \ {Head(q)}, Elements(batch[s]), db[s], lost[s],
              Elements(query.got) \cup {Head(q)}, count[s])
    BY <2>1, <2>2, SplitTaken, Zenon
  <2> QED BY <1>2, <1>3, <2>3
<1>8. IsSplit(s)'
  BY <1>4, <1>5, <1>7 DEF IsSplit, Drained
<1>9. Len(queue'[s]) + Len(batch'[s]) <= count'[s]
  <2>1. /\ Len(queue'[s]) = Len(q) - 1 /\ Len(batch'[s]) = Len(batch[s])
        /\ count'[s] = count[s]
    BY <1>2, <1>4, <1>5
  <2> HIDE DEF q
  <2> QED BY <1>1, <2>1
<1>10. Distinct(queue'[s])
  BY <1>2, <1>5
<1>11. Alone(s) /\ (query'.pc = "none" => query'.got = <<>>)
  BY <1>4, <1>5 DEF Alone, DrainOne, StoresInv, StoresTypeOK
<1> HIDE DEF s
<1> QED BY <1>1, <1>6, <1>8, <1>9, <1>10, <1>11, OneStoreMoves

LEMMA QueryStartsOnce == ASSUME StoresInv, QueryStarts PROVE StoresInv'
<1>1. /\ query' = [pc |-> "draining", got |-> <<>>, since |-> count["usage"]]
      /\ UNCHANGED <<count, queue, batch, worker, db, lost, failures>>
  BY DEF QueryStarts
<1>2. StoresTypeOK'
  BY <1>1 DEF StoresInv, StoresTypeOK, Stores
<1>3. ASSUME NEW s \in Stores PROVE IsSplit(s)'
  <2>1. query'.got = query.got
    BY <1>1 DEF QueryStarts, StoresInv
  <2> QED BY <1>1, <2>1 DEF StoresInv, IsSplit, Drained
<1> QED BY <1>1, <1>2, <1>3 DEF StoresInv

\* What a query drained is flushed at its end.
LEMMA QueryEndsOnce == ASSUME StoresInv, QueryEnds PROVE StoresInv'
<1> DEFINE s == "usage"
           g == query.got
<1>1. /\ s \in Stores /\ IsSplit(s) /\ g \in Seq(1..MaxRecords)
      /\ Len(queue[s]) + Len(batch[s]) <= count[s]
      /\ Distinct(queue[s])
  BY DEF StoresInv, StoresTypeOK, Stores
<1>2. /\ query' = [pc |-> "none", got |-> <<>>, since |-> 0]
      /\ FlushOk(s, g) \/ FlushFails(s, g)
      /\ UNCHANGED <<count, queue, batch, worker>>
  BY DEF QueryEnds
<1>3. /\ db' \in [Stores -> SUBSET (1..MaxRecords)]
      /\ lost' \in [Stores -> SUBSET (1..MaxRecords)]
      /\ failures' \in 0..MaxFailures
      /\ \/ db'[s] = db[s] \cup Elements(g) /\ lost'[s] = lost[s]
         \/ db'[s] = db[s] /\ lost'[s] = lost[s] \cup Elements(g)
      /\ \A t \in Stores \ {s} : db'[t] = db[t] /\ lost'[t] = lost[t]
  BY <1>1, <1>2, Flushed DEF StoresInv
<1>4. StoresTypeOK'
  BY <1>2, <1>3, StoresAssumption DEF StoresInv, StoresTypeOK
<1>5. Split(Elements(queue[s]), Elements(batch[s]), db'[s], lost'[s], {}, count[s])
  <2>1. Split(Elements(queue[s]), Elements(batch[s]), db[s], lost[s], Elements(g), count[s])
    BY <1>1 DEF IsSplit, Drained
  <2> QED BY <2>1, <1>3, SplitAnswered, Zenon
<1>6. IsSplit(s)'
  BY <1>2, <1>5, NoneIsEmpty DEF IsSplit, Drained
<1>7. Alone(s) /\ (query'.pc = "none" => query'.got = <<>>)
  BY <1>2, <1>3 DEF Alone
<1>8. Distinct(queue'[s]) /\ Len(queue'[s]) + Len(batch'[s]) <= count'[s]
  BY <1>1, <1>2
<1> HIDE DEF s
<1> QED BY <1>1, <1>4, <1>6, <1>7, <1>8, OneStoreMoves

LEMMA StoresStepOnce == StoresInv /\ StoresStep => StoresInv'
BY TakeOnce, TimeoutOnce, DrainOnce, QueryStartsOnce, QueryEndsOnce DEF StoresStep

\* The worker of the event store begins and is cancelled with nothing in hand; when the
\* lifespan is over, nothing is left in the queue either.
EventsInv ==
    /\ worker["events"] \in {"none", "cancelled"} => batch["events"] = <<>>
    /\ stage = "down" => worker["events"] = "cancelled" /\ queue["events"] = <<>>
ShutdownInv == StoresInv /\ EventsInv

LEMMA WorkingKeepsEvents ==
    ASSUME StoresInv, EventsInv, StoresStep, Running, stage' = stage
    PROVE  EventsInv'
<1> USE DEF StoresInv, StoresTypeOK, EventsInv, Running
<1>1. ASSUME NEW s \in Stores, Take(s) PROVE EventsInv'
  BY <1>1 DEF Take, WorkerFlush, Stores
<1>2. ASSUME NEW s \in Stores, FlushOnTimeout(s) PROVE EventsInv'
  BY <1>2 DEF FlushOnTimeout, WorkerFlush, Stores
<1>3. CASE QueryStarts \/ DrainOne \/ QueryEnds
  BY <1>3 DEF QueryStarts, DrainOne, QueryEnds, Stores
<1> QED BY <1>1, <1>2, <1>3 DEF StoresStep

LEMMA CancelOnce ==
    ASSUME ShutdownInv, NEW s \in Stores, NEW next \in {"events"}, CancelWorker(s, next),
           UNCHANGED <<count, queue, query>>, stage \in {"usage", "events"}
    PROVE  ShutdownInv'
<1> DEFINE x == {}
           q == queue[s]
<1>1. /\ batch' = [batch EXCEPT ![s] = <<>>]
      /\ FlushOk(s, batch[s]) \/ FlushFails(s, batch[s])
      /\ UNCHANGED <<count, query>>
      /\ worker' = [worker EXCEPT ![s] = "cancelled"]
      /\ stage' \in {"events", "raised"}
  BY DEF CancelWorker
<1>2. /\ q \in Seq(1..MaxRecords) /\ batch[s] \in Seq(1..MaxRecords) /\ Distinct(q)
      /\ Len(q) <= Len(queue[s])
      /\ worker' \in [Stores -> {"none", "alive", "dead", "cancelled"}]
  BY <1>1 DEF ShutdownInv, StoresInv, StoresTypeOK
<1>3. queue' = [queue EXCEPT ![s] = q]
  BY DEF ShutdownInv, StoresInv, StoresTypeOK
<1>4. /\ x \subseteq Elements(queue[s]) /\ Elements(batch[s]) = Elements(batch[s]) \cup x
      /\ Elements(q) = Elements(queue[s]) \ x
  OBVIOUS
<1> HIDE DEF x, q
<1>5. HandsOver(s, x, batch[s], q)
  BY <1>1, <1>2, <1>3, <1>4, Zenon DEF HandsOver
<1>6. StoresInv'
  BY <1>5, WorkerOnce DEF ShutdownInv
<1>7. EventsInv'
  BY <1>1 DEF ShutdownInv, StoresInv, StoresTypeOK, EventsInv, Stores
<1> QED BY <1>6, <1>7 DEF ShutdownInv

LEMMA FinalFlushOnce == ASSUME ShutdownInv, FinalFlush PROVE ShutdownInv'
<1> DEFINE s == "events"
           q == queue[s]
<1>1. /\ s \in Stores /\ q \in Seq(1..MaxRecords) /\ IsSplit(s) /\ count[s] \in Nat
      /\ batch[s] = <<>> /\ worker[s] = "cancelled"
      /\ <<>> \in Seq(1..MaxRecords)
  BY DEF ShutdownInv, StoresInv, StoresTypeOK, EventsInv, Stores, FinalFlush
<1>2. /\ queue' = [queue EXCEPT !["events"] = <<>>] /\ stage' = "down"
      /\ FlushOk(s, q) \/ FlushFails(s, q)
      /\ UNCHANGED <<count, batch, worker, query>>
  BY DEF FinalFlush
<1> DEFINE x == Elements(q)
           e == <<>>
<1>3. /\ x \subseteq Elements(queue[s]) /\ Elements(q) = Elements(batch[s]) \cup x
      /\ Elements(e) = Elements(queue[s]) \ x /\ Distinct(e) /\ e \in Seq(1..MaxRecords)
      /\ Len(e) <= Len(queue[s])
  BY <1>1, NoneIsEmpty
<1>4. /\ queue' = [queue EXCEPT ![s] = e] /\ batch' = [batch EXCEPT ![s] = <<>>]
      /\ worker' \in [Stores -> {"none", "alive", "dead", "cancelled"}]
  BY <1>1, <1>2 DEF ShutdownInv, StoresInv, StoresTypeOK
<1>5. HandsOver(s, x, q, e)
  <2> HIDE DEF x, e, q, s
  <2> QED BY <1>1, <1>2, <1>3, <1>4, Zenon DEF HandsOver
<1>6. StoresInv'
  <2> HIDE DEF x, e, q, s
  <2> QED BY <1>1, <1>5, WorkerOnce DEF ShutdownInv
<1>7. EventsInv'
  BY <1>1, <1>2 DEF EventsInv, ShutdownInv, StoresInv, StoresTypeOK
<1> QED BY <1>6, <1>7 DEF ShutdownInv

LEMMA ShutdownStarts == ShutdownInit => ShutdownInv
BY StoresStart DEF ShutdownInit, ShutdownInv, EventsInv, StoresInit, Stores

LEMMA ShutdownKeeps == ShutdownInv /\ [ShutdownNext]_shutdownVars => ShutdownInv'
<1> SUFFICES ASSUME ShutdownInv, [ShutdownNext]_shutdownVars PROVE ShutdownInv'
  OBVIOUS
<1>1. ASSUME NEW s \in Stores, Record(s) PROVE ShutdownInv'
  <2>1. StoresInv'
    BY <1>1, RecordOnce DEF Record, ShutdownInv
  <2>2. stage # "down" /\ stage' = stage
    BY <1>1 DEF Record, MayWork, Running
  <2>3. EventsInv'
    BY <1>1, <2>2 DEF Record, record, ShutdownInv, StoresInv, StoresTypeOK, EventsInv, Stores
  <2> QED BY <2>1, <2>3 DEF ShutdownInv
<1>2. CASE UNCHANGED <<storeVars, stage>>
  BY <1>2 DEF ShutdownInv, StoresInv, StoresTypeOK, EventsInv, IsSplit, Split, Drained, storeVars
<1>3. CASE Running /\ StoresStep /\ UNCHANGED <<bgVars, stage>>
  BY <1>3, StoresStepOnce, WorkingKeepsEvents DEF ShutdownInv
<1>4. CASE StopTasks
  <2>1. UNCHANGED storeVars /\ stage # "down" /\ stage' # "down"
    BY <1>4 DEF StopTasks
  <2>2. StoresInv'
    BY <2>1 DEF ShutdownInv, StoresInv, StoresTypeOK, IsSplit, Split, Drained, storeVars
  <2> QED BY <2>1, <2>2 DEF ShutdownInv, EventsInv, storeVars
<1>5. CASE ShutdownUsage
  <2>1. CASE worker["usage"] = "alive" /\ CancelWorker("usage", "events")
    BY <1>5, <2>1, CancelOnce DEF ShutdownUsage, Stores
  <2>2. CASE ~(worker["usage"] = "alive" /\ CancelWorker("usage", "events"))
    <3>1. UNCHANGED storeVars /\ stage # "down" /\ stage' # "down"
      BY <1>5, <2>2 DEF ShutdownUsage, storeVars
    <3>2. StoresInv'
      BY <3>1 DEF ShutdownInv, StoresInv, StoresTypeOK, IsSplit, Split, Drained, storeVars
    <3> QED BY <3>1, <3>2 DEF ShutdownInv, EventsInv, storeVars
  <2> QED BY <2>1, <2>2
<1>6. CASE ShutdownEvents
  <2>1. CASE worker["events"] = "alive" /\ CancelWorker("events", "events")
    BY <1>6, <2>1, CancelOnce DEF ShutdownEvents, Stores
  <2>2. CASE ~(worker["events"] = "alive" /\ CancelWorker("events", "events"))
    <3>1. /\ worker["events"] = "none" /\ worker' = [worker EXCEPT !["events"] = "cancelled"]
          /\ UNCHANGED <<count, queue, batch, db, lost, query, failures, stage>>
          /\ stage = "events"
      BY <1>6, <2>2 DEF ShutdownEvents
    <3>2. StoresTypeOK'
      BY <3>1 DEF ShutdownInv, StoresInv, StoresTypeOK
    <3>3. StoresInv'
      BY <3>1, <3>2 DEF ShutdownInv, StoresInv, IsSplit, Split, Drained
    <3>4. worker'["events"] = "cancelled" /\ batch'["events"] = <<>>
      BY <3>1 DEF ShutdownInv, EventsInv, StoresInv, StoresTypeOK, Stores
    <3> QED BY <3>1, <3>3, <3>4 DEF ShutdownInv, EventsInv
  <2> QED BY <2>1, <2>2
<1>7. CASE FinalFlush
  BY <1>7, FinalFlushOnce
<1>8. ASSUME NEW t \in Tasks, Spawn(t) PROVE ShutdownInv'
  BY <1>8, <1>2 DEF Spawn
<1> QED BY <1>1, <1>2, <1>3, <1>4, <1>5, <1>6, <1>7, <1>8 DEF ShutdownNext, StopStores, shutdownVars

\* Every record that was handed to a store is in exactly one of five places (the queue,
\* the worker's batch, the table, the failed flushes, the query that drains), whatever
\* the workers, their timeouts, the queries and the end of the process do.
THEOREM EveryRecordOnce == ShutdownSpec => []EachRecordOnce
<1>1. ShutdownInv => EachRecordOnce
  BY InvGivesOnce DEF ShutdownInv
<1> QED BY <1>1, ShutdownStarts, ShutdownKeeps, PTL DEF ShutdownSpec

\* Once the process is down and every task ended, each source event is in the table or was
\* lost by its own failed flush: cancelling the worker leaves it no batch, and the last
\* flush takes what is queued.
THEOREM NoEventLost == ShutdownSpec => []EventsSurviveShutdown
<1>1. ShutdownInv => EventsSurviveShutdown
  BY NoneIsEmpty DEF ShutdownInv, StoresInv, EventsInv, EventsSurviveShutdown, IsSplit, Split,
                     Drained, Stores
<1> QED BY <1>1, ShutdownStarts, ShutdownKeeps, PTL DEF ShutdownSpec

\* Tasks: who runs is registered until shutdown_all is over, and nobody it waits for was
\* not begun.
TasksInv ==
    /\ BgTypeOK /\ RunningIsReferenced
    /\ \A t \in waited : task[t] # "new"
    /\ stage \in {"usage", "events", "down", "raised"} => stopping \in {"over", "gave_up"}
    /\ stage = "up" => stopping \in {"no", "waiting"}
    /\ stopping = "over" => \A t \in waited : task[t] = "done"

LEMMA TasksStart == ShutdownInit => TasksInv
BY DEF ShutdownInit, BgInit, TasksInv, BgTypeOK, RunningIsReferenced, Unfinished

LEMMA TasksKeep == TasksInv /\ [ShutdownNext]_shutdownVars => TasksInv'
<1> SUFFICES ASSUME TasksInv, [ShutdownNext]_shutdownVars PROVE TasksInv'
  OBVIOUS
<1> USE DEF TasksInv, BgTypeOK, RunningIsReferenced, Unfinished
<1>1. ASSUME NEW s \in Stores, Record(s) PROVE TasksInv'
  BY <1>1 DEF Record, bgVars
<1>2. ASSUME NEW t \in Tasks, Spawn(t) PROVE TasksInv'
  BY <1>2 DEF Spawn, spawn
<1>3. ASSUME NEW t \in Tasks, Finish(t), UNCHANGED <<storeVars, stage>> PROVE TasksInv'
  BY <1>3 DEF Finish
<1>4. CASE StopTasks
  <2>1. CASE CancelAll
    BY <1>4, <2>1 DEF StopTasks, CancelAll
  <2>2. CASE WaitEnds
    BY <1>4, <2>2 DEF StopTasks, WaitEnds
  <2> QED BY <1>4, <2>1, <2>2 DEF StopTasks
<1>5. CASE StopStores
  <2>1. UNCHANGED bgVars /\ stage \in {"usage", "events"} /\ stage' \in {"events", "down", "raised"}
    BY <1>5 DEF StopStores, ShutdownUsage, ShutdownEvents, FinalFlush, CancelWorker
  <2> QED BY <2>1 DEF bgVars
<1>6. CASE UNCHANGED <<bgVars, stage>>
  BY <1>6 DEF bgVars
<1> QED BY <1>1, <1>2, <1>3, <1>4, <1>5, <1>6 DEF ShutdownNext, shutdownVars

\* A running background task is strongly referenced until shutdown_all is over, and when
\* that did not give up, the tasks it cancelled have ended before a store stops.
THEOREM TasksFirst == ShutdownSpec => [](RunningIsReferenced /\ TasksEndBeforeStores)
<1>1. TasksInv => RunningIsReferenced /\ TasksEndBeforeStores
  BY DEF TasksInv, TasksEndBeforeStores
<1> QED BY <1>1, TasksStart, TasksKeep, PTL DEF ShutdownSpec

-------------------------------------------------------------------------------
(***************************************************************************)
(* The client: what a call was refused, and whom it may ask.               *)
(***************************************************************************)

\* Some element of a set of numbers is the least.
LEMMA LeastOf == ASSUME NEW S \in SUBSET Nat, S # {} PROVE \E x \in S : \A y \in S : x <= y
<1> DEFINE R == OpToRel(<, Nat)
<1>1. IsWellFoundedOn(R, Nat)
  BY NatLessThanWellFounded
<1>2. \A m, n \in Nat : <<m, n>> \in R <=> m < n
  BY DEF OpToRel
<1> HIDE DEF R
<1>3. PICK x \in S : \A y \in S : ~(<<y, x>> \in R)
  BY <1>1, WFMin
<1>4. ASSUME NEW y \in S PROVE x <= y
  <2>1. ~(<<y, x>> \in R)
    BY <1>3
  <2>2. y \in Nat /\ x \in Nat
    OBVIOUS
  <2>3. ~(y < x)
    BY <2>1, <2>2, <1>2, Zenon
  <2> QED BY <2>2, <2>3
<1> QED BY <1>4

\* The entries of the circuits keep their type.
LEMMA EntryTyped ==
    ASSUME NEW e \in Entry, NEW banned, NEW o
    PROVE  /\ AfterAsking(e, banned) \in Entry /\ _circuit_record_success(e) \in Entry
           /\ _circuit_record_failure(e, o) \in Entry /\ Fresh \in Entry
<1>0. 0 \in 0..QuotaTTL /\ 0 \in 0..FailThreshold
  BY GatesAssumption
<1>1. AfterAsking(e, banned) \in Entry
  <2>1. [e EXCEPT !.state = "HALF_OPEN", !.age = 0] \in Entry
    BY <1>0 DEF Entry
  <2> QED BY <2>1 DEF AfterAsking
<1>2. _circuit_record_success(e) \in Entry
  BY <1>0 DEF Entry, _circuit_record_success
<1>3. _circuit_record_failure(e, o) \in Entry
  <2> DEFINE n == IF e.fails < FailThreshold THEN e.fails + 1 ELSE FailThreshold
  <2>1. n \in 0..FailThreshold
    BY GatesAssumption DEF Entry
  <2> HIDE DEF n
  <2>2. OpenOnQuota(e) \in Entry
    BY <1>0 DEF OpenOnQuota, Entry
  <2>3. [state |-> "OPEN", fails |-> n, age |-> 0, quota |-> FALSE] \in Entry
        /\ [e EXCEPT !.fails = n] \in Entry
    BY <1>0, <2>1 DEF Entry
  <2>4. \/ _circuit_record_failure(e, o) = OpenOnQuota(e)
        \/ _circuit_record_failure(e, o)
              = [state |-> "OPEN", fails |-> n, age |-> 0, quota |-> FALSE]
        \/ _circuit_record_failure(e, o) = [e EXCEPT !.fails = n]
    BY DEF _circuit_record_failure, n
  <2> QED BY <2>2, <2>3, <2>4
<1>4. Fresh \in Entry
  BY <1>0 DEF Fresh, Entry
<1> QED BY <1>1, <1>2, <1>3, <1>4

LEMMA NoCallTyped == NoCall \in CallRecord
BY ClientAssumption DEF NoCall, CallRecord

Results == {"none", "text", "empty", "error", "rate_limited", "all_403", "no_provider"}

LEMMA EndedTyped ==
    ASSUME NEW call \in CallRecord, NEW r \in Results
    PROVE  /\ Ended(call, r) \in CallRecord
           /\ Ended(call, r).pc = "done" /\ Ended(call, r).result = r
           /\ r = "all_403" => Ended(call, r).chain = call.chain
<1> DEFINE chain == IF r = "all_403" THEN call.chain ELSE <<>>
           tried == call.failed \/ r = "text"
<1>1. chain \in Seq(Candidates) /\ (r = "all_403" => chain = call.chain)
  BY DEF CallRecord
<1>2. tried \in BOOLEAN
  OBVIOUS
<1>3. Ended(call, r) = [pc |-> "done", chain |-> chain, todo |-> <<>>, attempt |-> 0,
                        tried |-> tried, saw429 |-> call.saw429, sawEmpty |-> FALSE,
                        failed |-> FALSE, tokens |-> 0, first |-> "none", result |-> r]
  <2>1. Ended(call, r) = [NoCall EXCEPT !.pc = "done", !.tried = tried, !.saw429 = call.saw429,
                                        !.result = r, !.chain = chain]
    BY DEF Ended
  <2> HIDE DEF chain, tried
  <2> QED BY <2>1 DEF NoCall
<1>4. call.saw429 \in BOOLEAN
  BY DEF CallRecord
<1> HIDE DEF chain, tried
<1>5. Ended(call, r) \in CallRecord
  BY <1>1, <1>2, <1>3, <1>4, ClientAssumption DEF CallRecord, Results
<1> QED BY <1>1, <1>3, <1>5

LEMMA VerdictTyped ==
    ASSUME NEW k, NEW call \in CallRecord, NEW blk
    PROVE  /\ Verdict(k, call, blk) \in Results
           /\ Verdict(k, call, blk) = "all_403" =>
                 /\ call.chain # <<>>
                 /\ \A i \in DOMAIN call.chain : blk[providerOf[call.chain[i]]] = "active"
BY DEF Verdict, OtherVerdict, Results

\* What a call is after a step of its own: it asks a candidate whose circuit allows it,
\* waits for the gate, the end of a pause or the next round, or is over.
GoesWith(call, circ, cool, blk) ==
    \/ /\ call.pc = "asking" /\ call.todo # <<>> /\ call.result = "none"
       /\ _circuit_allow(circ[Head(call.todo)], cool[Head(call.todo)])
    \/ call.pc = "backoff" /\ call.attempt < MaxRetries /\ call.result = "none"
    \/ call.pc \in {"gate", "dropped"} /\ call.result = "none"
    \/ /\ call.pc = "done"
       /\ call.result = "all_403" =>
             /\ call.chain # <<>>
             /\ \A i \in DOMAIN call.chain : blk[providerOf[call.chain[i]]] = "active"

GatesOf(circ, stk, blk) ==
    /\ circ \in [Candidates -> Entry] /\ stk \in [ProviderIds -> 0..ForbiddenThreshold]
    /\ blk \in [ProviderIds -> {"no", "active", "expired"}]

Outcome(c, circ, cool, stk, blk) ==
    /\ GatesOf(circuit', streak', blocked') /\ allOpenSeen' \in BOOLEAN
    /\ \A m \in Candidates : \/ circuit'[m] = circ[m]
                             \/ circuit'[m] = AfterAsking(circ[m], cool[m])
    /\ \A p \in ProviderIds : /\ streak'[p] <= stk[p]
                              /\ blocked'[p] = "active" => blk[p] = "active"
    /\ \E call \in CallRecord : /\ calls' = [calls EXCEPT ![c] = call]
                                /\ GoesWith(call, circ, cool, blk)

\* What is left of a sequence from its n-th element on.
LEMMA RestOf ==
    ASSUME NEW S, NEW T \in Seq(S), NEW n \in 1..Len(T)
    PROVE  /\ SubSeq(T, n, Len(T)) \in Seq(S) /\ SubSeq(T, n, Len(T)) # <<>>
           /\ Head(SubSeq(T, n, Len(T))) = T[n]
<1>1. n \in Int /\ Len(T) \in Int /\ n <= Len(T)
  OBVIOUS
<1>2. ASSUME NEW i \in n .. Len(T) PROVE T[i] \in S
  <2>1. i \in 1..Len(T)
    BY <1>1
  <2> QED BY <2>1
<1> DEFINE rest == SubSeq(T, n, Len(T))
<1>3. rest \in Seq(S)
  BY <1>1, <1>2, SubSeqProperties, Zenon
<1>4. Len(rest) = Len(T) - n + 1 
  <2>1. Len(rest) = IF n <= Len(T) THEN Len(T)-n+1 ELSE 0
    BY <1>1, <1>2, SubSeqProperties, Zenon
  <2> QED BY <2>1, <1>1
<1>6. Len(rest) # 0
  BY <1>1, <1>4
<1>7. rest # <<>>
  <2>1. \A q \in Seq(S) : q = <<>> => Len(q) = 0
    OBVIOUS
  <2> QED BY <1>3, <1>6, <2>1, Zenon
<1>8. Head(rest) = T[n]
  <2>1. Len(T) \in n .. Len(T)
    OBVIOUS
  <2> QED BY <2>1, HeadTailOfSubSeq, Zenon
<1> QED BY <1>3, <1>7, <1>8

\* The first candidate that may be asked, and what is left to ask from it on.
LEMMA FirstFree ==
    ASSUME NEW T \in Seq(Candidates), NEW free \in SUBSET DOMAIN T, free # {},
           NEW next, next = CHOOSE i \in free : \A j \in free : i <= j
    PROVE  /\ next \in free /\ SubSeq(T, next, Len(T)) \in Seq(Candidates)
           /\ SubSeq(T, next, Len(T)) # <<>> /\ Head(SubSeq(T, next, Len(T))) = T[next]
<1>1. free \in SUBSET Nat
  OBVIOUS
<1>2. \E i \in free : \A j \in free : i <= j
  BY <1>1, LeastOf
<1>3. next \in free
  BY <1>2
<1>4. next \in 1..Len(T)
  BY <1>3
<1> QED BY <1>3, <1>4, RestOf

LEMMA CallMoves ==
    ASSUME NEW call \in CallRecord, NEW todo \in Seq(Candidates)
    PROVE  /\ [call EXCEPT !.pc = "asking", !.tried = TRUE, !.tokens = 0,
                           !.todo = todo] \in CallRecord
           /\ [call EXCEPT !.pc = "backoff", !.todo = todo] \in CallRecord
<1>1. 0 \in 0..2 /\ TRUE \in BOOLEAN
  OBVIOUS
<1> QED BY <1>1 DEF CallRecord

LEMMA ProceedGoes ==
    ASSUME NEW c \in Calls, NEW call \in CallRecord, call.result = "none",
           NEW circ, NEW cool, NEW stk, NEW blk, GatesOf(circ, stk, blk),
           allOpenSeen \in BOOLEAN, Proceed(c, call, circ, cool, stk, blk)
    PROVE  Outcome(c, circ, cool, stk, blk)
<1> DEFINE T == call.todo
           k == load.kinds[c]
           free == {i \in DOMAIN T : MayAsk(k, T[i], circ, cool, blk)}
           next == CHOOSE i \in free : \A j \in free : i <= j
           upTo == IF free = {} THEN DOMAIN T ELSE 1..next
           looked == {T[i] : i \in {i \in upTo : ConsultsCircuit(k, T[i], blk)}}
           asked403 == IF Reads403(k)
                       THEN {providerOf[T[i]] : i \in {i \in upTo :
                                k = "system" \/ _circuit_allow(circ[T[i]], cool[T[i]])}}
                       ELSE {}
           circ2 == [m \in Candidates |->
                        IF m \in looked THEN AfterAsking(circ[m], cool[m]) ELSE circ[m]]
           last403 == k = "system" /\ free = {}
           cleared == IF last403
                      THEN asked403 \cup {providerOf[call.chain[i]] : i \in DOMAIN call.chain}
                      ELSE asked403
           allOpen == \A i \in DOMAIN call.chain : circ2[call.chain[i]].state = "OPEN"
           over == ~call.tried \/ allOpen \/ call.attempt = MaxRetries
           asks == [call EXCEPT !.pc = "asking", !.tried = TRUE, !.tokens = 0,
                                !.todo = SubSeq(T, next, Len(T))]
           waits == [call EXCEPT !.pc = "backoff", !.todo = <<>>]
           ends == Ended(call, Verdict(k, call, blk))
<1>1. /\ circuit' = circ2
      /\ streak' = [p \in ProviderIds |->
                       IF p \in cleared THEN StreakAfterAsking(blk[p], stk[p]) ELSE stk[p]]
      /\ blocked' = [p \in ProviderIds |->
                       IF p \in cleared /\ blk[p] = "expired" THEN "no" ELSE blk[p]]
      /\ \/ free # {} /\ calls' = [calls EXCEPT ![c] = asks] /\ allOpenSeen' = allOpenSeen
         \/ /\ free = {} /\ over /\ calls' = [calls EXCEPT ![c] = ends]
            /\ allOpenSeen' = (allOpenSeen \/ (call.tried /\ allOpen))
         \/ /\ free = {} /\ ~over /\ calls' = [calls EXCEPT ![c] = waits]
            /\ allOpenSeen' = allOpenSeen
  BY Zenon DEF Proceed
<1>2. T \in Seq(Candidates) /\ free \in SUBSET DOMAIN T
  BY DEF CallRecord
<1> HIDE DEF cleared, looked
<1>3. /\ circuit' \in [Candidates -> Entry]
      /\ \A m \in Candidates : \/ circuit'[m] = circ[m]
                               \/ circuit'[m] = AfterAsking(circ[m], cool[m])
  <2>1. circ \in [Candidates -> Entry]
    BY DEF GatesOf
  <2>2. \A m \in Candidates :
            circ2[m] \in Entry /\ circ2[m] \in {circ[m], AfterAsking(circ[m], cool[m])}
    BY <2>1, EntryTyped
  <2>3. circuit' \in [Candidates -> Entry]
    BY <1>1, <2>2
  <2> HIDE DEF circ2
  <2> QED BY <1>1, <2>2, <2>3
<1>4. /\ streak' \in [ProviderIds -> 0..ForbiddenThreshold]
      /\ \A p \in ProviderIds : streak'[p] <= stk[p]
  <2>1. stk \in [ProviderIds -> 0..ForbiddenThreshold] /\ ForbiddenThreshold \in Nat
    BY GatesAssumption DEF GatesOf
  <2>2. \A p \in ProviderIds : StreakAfterAsking(blk[p], stk[p]) \in {0, stk[p]}
    BY DEF StreakAfterAsking
  <2>3. \A p \in ProviderIds : streak'[p] \in {0, stk[p]}
    BY <1>1, <2>2
  <2>4. streak' = [p \in ProviderIds |-> streak'[p]]
    BY <1>1
  <2> QED BY <2>1, <2>3, <2>4
<1>5. /\ blocked' \in [ProviderIds -> {"no", "active", "expired"}]
      /\ \A p \in ProviderIds : blocked'[p] = "active" => blk[p] = "active"
  BY <1>1 DEF GatesOf
<1> HIDE DEF circ2
<1>6. allOpenSeen' \in BOOLEAN
  <2> HIDE DEF allOpen, over, free
  <2> QED BY <1>1, Zenon
<1>7. \E new \in CallRecord : calls' = [calls EXCEPT ![c] = new] /\ GoesWith(new, circ, cool, blk)
  <2>1. CASE free # {}
    <3>1. /\ next \in free /\ SubSeq(T, next, Len(T)) \in Seq(Candidates)
          /\ SubSeq(T, next, Len(T)) # <<>> /\ Head(SubSeq(T, next, Len(T))) = T[next]
      BY <1>2, <2>1, FirstFree
    <3>2. _circuit_allow(circ[T[next]], cool[T[next]])
      BY <3>1 DEF MayAsk
    <3>3. calls' = [calls EXCEPT ![c] = asks]
      BY <1>1, <2>1
    <3> DEFINE rest == SubSeq(T, next, Len(T))
    <3> HIDE DEF next, free, rest, T
    <3>4. asks \in CallRecord
      BY <3>1, CallMoves DEF rest
    <3>5. asks.pc = "asking" /\ asks.todo = rest /\ asks.result = "none"
      BY DEF CallRecord, rest
    <3> QED BY <3>1, <3>2, <3>3, <3>4, <3>5 DEF GoesWith, rest
  <2>2. CASE free = {} /\ over
    <3>1. calls' = [calls EXCEPT ![c] = ends]
      BY <1>1, <2>2
    <3> DEFINE r == Verdict(k, call, blk)
    <3>2. /\ r \in Results
          /\ r = "all_403" =>
                /\ call.chain # <<>>
                /\ \A i \in DOMAIN call.chain : blk[providerOf[call.chain[i]]] = "active"
      BY VerdictTyped
    <3> HIDE DEF r
    <3>3. /\ Ended(call, r) \in CallRecord /\ Ended(call, r).pc = "done"
          /\ Ended(call, r).result = r /\ (r = "all_403" => Ended(call, r).chain = call.chain)
      BY <3>2, EndedTyped
    <3>4. ends \in CallRecord /\ GoesWith(ends, circ, cool, blk)
      BY <3>2, <3>3 DEF GoesWith, r
    <3> QED BY <3>1, <3>4
  <2>3. CASE free = {} /\ ~over
    <3>1. calls' = [calls EXCEPT ![c] = waits]
      BY <1>1, <2>3
    <3>2. waits \in CallRecord
      <4>1. <<>> \in Seq(Candidates)
        OBVIOUS
      <4> QED BY <4>1, CallMoves
    <3>3. waits.pc = "backoff" /\ waits.attempt = call.attempt /\ waits.result = "none"
      BY DEF CallRecord
    <3>4. call.attempt < MaxRetries
      <4>1. call.attempt # MaxRetries
        BY <2>3
      <4> QED BY <4>1, ClientAssumption DEF CallRecord
    <3> QED BY <3>1, <3>2, <3>3, <3>4 DEF GoesWith
  <2> QED BY <2>1, <2>2, <2>3
<1> QED BY <1>3, <1>4, <1>5, <1>6, <1>7 DEF Outcome, GatesOf

\* A streak of 403 answers is as long as the answers that were counted, a block proves
\* that there were enough of them.
Refusals ==
    \A p \in ProviderIds : /\ streak[p] <= refused[p]
                           /\ blocked[p] = "active" => refused[p] = ForbiddenThreshold

\* Who is not over has no verdict; who waits for a round has one left.
Unended == \A c \in Calls : /\ calls[c].pc # "done" => calls[c].result = "none"
                            /\ calls[c].pc = "backoff" => calls[c].attempt < MaxRetries

\* A circuit that a 429 opened stays open for the window, unless enough requests failed
\* late: it is not older than the 429, and its failures are the late ones at most.
Windowed(circ, ages, lates) ==
    \A m \in Candidates : ages[m] < QuotaTTL /\ lates[m] < FailThreshold =>
        /\ circ[m].state = "OPEN" /\ circ[m].quota = TRUE
        /\ circ[m].age <= ages[m] /\ circ[m].fails <= lates[m]

LLMInv == /\ LLMTypeOK /\ Refusals /\ Unended /\ ForbiddenVerdictEarned
          /\ Windowed(circuit, quotaAge, late)

LeftAlone ==
    \A c \in Calls, m \in Candidates : Sends(c, m) =>
        cooldown'[m] = 0 /\ (quotaAge'[m] = QuotaTTL \/ late'[m] >= FailThreshold)

\* The histories after a step: nothing that was counted is forgotten, and the gates the
\* step goes on with rest on what is counted.
Counted(circ, stk, blk) ==
    /\ Windowed(circ, quotaAge', late')
    /\ quotaAge' \in [Candidates -> 0..QuotaTTL] /\ late' \in [Candidates -> 0..FailThreshold]
    /\ refused' \in [ProviderIds -> 0..ForbiddenThreshold]
    /\ \A p \in ProviderIds : /\ refused'[p] >= refused[p] /\ stk[p] <= refused'[p]
                              /\ blk[p] = "active" => refused'[p] = ForbiddenThreshold

\* A circuit within its window is not opened by asking.
LEMMA StaysOpen ==
    ASSUME NEW m \in Candidates, NEW circ \in [Candidates -> Entry], NEW banned,
           NEW ages \in [Candidates -> 0..QuotaTTL], NEW lates, Windowed(circ, ages, lates),
           ages[m] < QuotaTTL, lates[m] < FailThreshold
    PROVE  ~_circuit_allow(circ[m], banned) /\ AfterAsking(circ[m], banned) = circ[m]
<1>1. /\ circ[m].state = "OPEN" /\ circ[m].quota = TRUE /\ circ[m].age <= ages[m]
      /\ circ[m].age \in Nat /\ ages[m] \in Nat
  BY GatesAssumption DEF Windowed, Entry
<1>2. TTLOf(circ[m]) = QuotaTTL
  BY <1>1 DEF TTLOf
<1>3. ~(circ[m].age >= TTLOf(circ[m]))
  BY <1>1, <1>2, GatesAssumption
<1> QED BY <1>1, <1>3 DEF _circuit_allow, AfterAsking

\* Other calls keep the proof of their verdicts.
LEMMA VerdictsStay ==
    ASSUME LLMInv, NEW d \in Calls, calls'[d] = calls[d], UNCHANGED providerOf,
           refused' \in [ProviderIds -> 0..ForbiddenThreshold],
           \A p \in ProviderIds : refused'[p] >= refused[p],
           calls[d].result = "all_403"
    PROVE  /\ calls'[d].chain # <<>>
           /\ \A i \in DOMAIN calls'[d].chain :
                 refused'[providerOf'[calls'[d].chain[i]]] = ForbiddenThreshold
<1>1. /\ calls[d].chain \in Seq(Candidates) /\ calls[d].chain # <<>>
      /\ providerOf \in [Candidates -> ProviderIds]
      /\ refused \in [ProviderIds -> 0..ForbiddenThreshold]
      /\ \A i \in DOMAIN calls[d].chain :
            refused[providerOf[calls[d].chain[i]]] = ForbiddenThreshold
  BY GatesAssumption DEF LLMInv, LLMTypeOK, GatesTypeOK, CallRecord, ForbiddenVerdictEarned
<1>2. ASSUME NEW i \in DOMAIN calls[d].chain
      PROVE  refused'[providerOf[calls[d].chain[i]]] = ForbiddenThreshold
  <2>1. providerOf[calls[d].chain[i]] \in ProviderIds
    BY <1>1
  <2> QED BY <1>1, <2>1, GatesAssumption
<1> QED BY <1>1, <1>2

LEMMA GoesOn ==
    ASSUME LLMInv, NEW c \in Calls, NEW circ, NEW cool, NEW stk, NEW blk,
           GatesOf(circ, stk, blk), Outcome(c, circ, cool, stk, blk),
           cool \in [Candidates -> 0..BanTTL], cooldown' = cool, excluded' \subseteq Candidates,
           UNCHANGED <<providerOf, load>>, Counted(circ, stk, blk)
    PROVE  LLMInv' /\ LeftAlone
<1>1. PICK call \in CallRecord :
          calls' = [calls EXCEPT ![c] = call] /\ GoesWith(call, circ, cool, blk)
  BY DEF Outcome
<1>2. calls \in [Calls -> CallRecord]
  BY DEF LLMInv, LLMTypeOK
<1>3. calls'[c] = call /\ \A d \in Calls \ {c} : calls'[d] = calls[d]
  BY <1>1, <1>2
<1>4. LLMTypeOK'
  <2>1. GatesTypeOK'
    BY DEF Outcome, GatesOf, GatesTypeOK, LLMInv, LLMTypeOK
  <2>2. calls' \in [Calls -> CallRecord]
    BY <1>1, <1>2
  <2>3. \A d \in Calls : calls'[d].pc = "asking" => calls'[d].todo # <<>>
    BY <1>1, <1>3 DEF GoesWith, LLMInv, LLMTypeOK
  <2> QED BY <2>1, <2>2, <2>3 DEF Outcome, Counted, LLMInv, LLMTypeOK
<1>5. Refusals'
  <2>1. ASSUME NEW p \in ProviderIds
        PROVE  /\ streak'[p] <= refused'[p]
               /\ blocked'[p] = "active" => refused'[p] = ForbiddenThreshold
    <3>1. /\ streak'[p] \in 0..ForbiddenThreshold /\ stk[p] \in 0..ForbiddenThreshold
          /\ refused'[p] \in 0..ForbiddenThreshold /\ streak'[p] <= stk[p] /\ stk[p] <= refused'[p]
      BY DEF Outcome, GatesOf, Counted
    <3>2. blocked'[p] = "active" => refused'[p] = ForbiddenThreshold
      BY DEF Outcome, Counted
    <3> QED BY <3>1, <3>2, GatesAssumption
  <2> QED BY <2>1 DEF Refusals
<1>6. Unended'
  BY <1>1, <1>3 DEF GoesWith, LLMInv, Unended
<1>7. ForbiddenVerdictEarned'
  <2>1. ASSUME NEW d \in Calls, calls'[d].result = "all_403"
        PROVE  /\ calls'[d].chain # <<>>
               /\ \A i \in DOMAIN calls'[d].chain :
                     refused'[providerOf'[calls'[d].chain[i]]] = ForbiddenThreshold
    <3>1. CASE d # c
      BY <2>1, <3>1, <1>3, VerdictsStay DEF Counted
    <3>2. CASE d = c
      <4>1. call.result = "all_403"
        BY <2>1, <3>2, <1>3
      <4>2. /\ call.chain # <<>>
            /\ \A i \in DOMAIN call.chain : blk[providerOf[call.chain[i]]] = "active"
        BY <1>1, <4>1 DEF GoesWith
      <4>3. \A i \in DOMAIN call.chain : providerOf[call.chain[i]] \in ProviderIds
        BY GatesAssumption DEF CallRecord, LLMInv, LLMTypeOK, GatesTypeOK
      <4> QED BY <3>2, <1>3, <4>2, <4>3 DEF Counted
    <3> QED BY <3>1, <3>2
  <2> QED BY <2>1 DEF ForbiddenVerdictEarned
<1>8. ASSUME NEW m \in Candidates, quotaAge'[m] < QuotaTTL, late'[m] < FailThreshold
      PROVE  ~_circuit_allow(circ[m], cool[m]) /\ AfterAsking(circ[m], cool[m]) = circ[m]
  BY <1>8, StaysOpen DEF Counted, GatesOf
<1>9. Windowed(circuit, quotaAge, late)'
  <2>1. ASSUME NEW m \in Candidates, quotaAge'[m] < QuotaTTL, late'[m] < FailThreshold
        PROVE  circuit'[m] = circ[m]
    BY <1>8, <2>1 DEF Outcome
  <2> QED BY <2>1 DEF Counted, Windowed
<1>10. ASSUME NEW d \in Calls, NEW m \in Candidates, Sends(d, m)
       PROVE  cooldown'[m] = 0 /\ (quotaAge'[m] = QuotaTTL \/ late'[m] >= FailThreshold)
  <2>1. d = c /\ _circuit_allow(circ[m], cool[m])
    BY <1>1, <1>3, <1>10 DEF Sends, GoesWith
  <2>2. ~(quotaAge'[m] < QuotaTTL /\ late'[m] < FailThreshold)
    BY <1>8, <2>1
  <2>3. quotaAge'[m] \in 0..QuotaTTL /\ late'[m] \in 0..FailThreshold
    BY DEF Counted
  <2> QED BY <2>1, <2>2, <2>3, GatesAssumption DEF _circuit_allow
<1> QED BY <1>4, <1>5, <1>6, <1>7, <1>9, <1>10 DEF LLMInv, LeftAlone

\* What a step finds: the gates of the moment rest on what is counted.
LEMMA Found ==
    ASSUME LLMInv
    PROVE  /\ GatesOf(circuit, streak, blocked) /\ allOpenSeen \in BOOLEAN
           /\ cooldown \in [Candidates -> 0..BanTTL] /\ excluded \subseteq Candidates
           /\ calls \in [Calls -> CallRecord]
           /\ UNCHANGED <<quotaAge, late, refused>> => Counted(circuit, streak, blocked)
<1>1. \A p \in ProviderIds : refused[p] \in 0..ForbiddenThreshold
  BY DEF LLMInv, LLMTypeOK
<1>2. \A n \in 0..ForbiddenThreshold : n >= n
  BY GatesAssumption
<1>3. UNCHANGED <<quotaAge, late, refused>> => Counted(circuit, streak, blocked)
  BY <1>1, <1>2 DEF LLMInv, LLMTypeOK, Refusals, Counted, Windowed
<1> QED BY <1>3 DEF LLMInv, LLMTypeOK, GatesTypeOK, GatesOf

LEMMA EnterKeeps == ASSUME LLMInv, NEW c \in Calls, Enter(c) PROVE LLMInv' /\ LeftAlone
<1> DEFINE call == [calls[c] EXCEPT !.pc = "gate"]
<1>1. /\ calls' = [calls EXCEPT ![c] = call] /\ calls[c].pc = "idle"
      /\ UNCHANGED <<gatesVars, load, allOpenSeen, quotaAge, late, refused>>
  BY DEF Enter
<1>2. call \in CallRecord /\ call.pc = "gate" /\ call.result = "none"
  BY <1>1 DEF CallRecord, LLMInv, LLMTypeOK, Unended
<1> HIDE DEF call
<1>3. Outcome(c, circuit, cooldown, streak, blocked)
  <2>1. GoesWith(call, circuit, cooldown, blocked)
    BY <1>2 DEF GoesWith
  <2>2. \A p \in ProviderIds : streak[p] <= streak[p]
    BY Found, GatesAssumption DEF GatesOf
  <2> QED BY <1>1, <1>2, <2>1, <2>2, Found DEF Outcome, gatesVars
<1> QED BY <1>1, <1>3, Found, GoesOn DEF gatesVars

LEMMA TokenKeeps == ASSUME LLMInv, NEW c \in Calls, StreamToken(c) PROVE LLMInv' /\ LeftAlone
<1> DEFINE call == [calls[c] EXCEPT !.tokens = @ + 1,
                                    !.first = IF @ = "none" THEN Current(c) ELSE @]
<1>1. /\ calls' = [calls EXCEPT ![c] = call] /\ calls[c].pc = "asking" /\ calls[c].tokens < 2
      /\ UNCHANGED <<gatesVars, load, allOpenSeen, quotaAge, late, refused>>
  BY DEF StreamToken
<1>2. calls[c] \in CallRecord /\ calls[c].todo # <<>>
  BY <1>1 DEF LLMInv, LLMTypeOK
<1>3. /\ call \in CallRecord /\ call.pc = "asking" /\ call.todo = calls[c].todo
      /\ call.result = calls[c].result
  <2>1. Current(c) \in Candidates
    BY <1>2 DEF Current, CallRecord
  <2> DEFINE n == calls[c].tokens + 1
             first == IF calls[c].first = "none" THEN Current(c) ELSE calls[c].first
  <2>2. n \in 0..2
    BY <1>1, <1>2 DEF CallRecord
  <2>3. first \in Candidates \cup {"none"}
    BY <1>2, <2>1 DEF CallRecord
  <2>4. call = [calls[c] EXCEPT !.tokens = n, !.first = first]
    OBVIOUS
  <2> HIDE DEF n, first, call
  <2> QED BY <1>1, <1>2, <2>2, <2>3, <2>4 DEF CallRecord
<1> HIDE DEF call
<1>4. calls'[c] = call /\ \A d \in Calls \ {c} : calls'[d] = calls[d]
  BY <1>1 DEF LLMInv, LLMTypeOK
<1>5. LLMTypeOK'
  BY <1>1, <1>2, <1>3, <1>4 DEF LLMInv, LLMTypeOK, GatesTypeOK, gatesVars
<1>6. Refusals' /\ Windowed(circuit, quotaAge, late)'
  BY <1>1 DEF LLMInv, Refusals, Windowed, gatesVars
<1>7. Unended'
  BY <1>1, <1>3, <1>4 DEF LLMInv, Unended
<1>8. ForbiddenVerdictEarned'
  BY <1>1, <1>3, <1>4 DEF LLMInv, ForbiddenVerdictEarned, Unended, gatesVars
<1>9. LeftAlone
  BY <1>3, <1>4 DEF LeftAlone, Sends
<1> QED BY <1>5, <1>6, <1>7, <1>8, <1>9 DEF LLMInv

LEMMA TickKeeps == ASSUME LLMInv, Tick PROVE LLMInv' /\ LeftAlone
<1>1. UNCHANGED <<load, calls, allOpenSeen, late, refused, providerOf, excluded, streak>>
  BY DEF Tick, BlockExpires, WindowPasses
<1>2. /\ circuit' \in [Candidates -> Entry] /\ cooldown' \in [Candidates -> 0..BanTTL]
      /\ blocked' \in [ProviderIds -> {"no", "active", "expired"}]
      /\ \A p \in ProviderIds : blocked'[p] # "active"
      /\ quotaAge' \in [Candidates -> 0..QuotaTTL]
  <2>1. CASE BlockExpires /\ UNCHANGED quotaAge
    BY <2>1 DEF BlockExpires, LLMInv, LLMTypeOK, GatesTypeOK
  <2>2. CASE WindowPasses /\ quotaAge' = [m \in Candidates |->
                IF quotaAge[m] < QuotaTTL THEN quotaAge[m] + 1 ELSE QuotaTTL]
    <3>1. circuit' \in [Candidates -> Entry]
      <4>1. ASSUME NEW e \in Entry, e.age < TTLOf(e) PROVE [e EXCEPT !.age = @ + 1] \in Entry
        <5>1. e.age + 1 \in 0..QuotaTTL
          BY <4>1, GatesAssumption DEF Entry, TTLOf
        <5> QED BY <5>1 DEF Entry
      <4> QED BY <2>2, <4>1 DEF WindowPasses, LLMInv, LLMTypeOK, GatesTypeOK
    <3>2. cooldown' \in [Candidates -> 0..BanTTL]
      BY <2>2, GatesAssumption DEF WindowPasses, LLMInv, LLMTypeOK, GatesTypeOK
    <3>3. quotaAge' \in [Candidates -> 0..QuotaTTL]
      BY <2>2, GatesAssumption DEF LLMInv, LLMTypeOK
    <3> QED BY <2>2, <3>1, <3>2, <3>3 DEF WindowPasses, LLMInv, LLMTypeOK, GatesTypeOK
  <2> QED BY <2>1, <2>2 DEF Tick
<1>3. LLMTypeOK'
  BY <1>1, <1>2 DEF LLMInv, LLMTypeOK, GatesTypeOK
<1>4. Refusals' /\ Unended' /\ ForbiddenVerdictEarned' /\ LeftAlone
  BY <1>1, <1>2 DEF LLMInv, Refusals, Unended, ForbiddenVerdictEarned, LeftAlone, Sends
<1>5. Windowed(circuit, quotaAge, late)'
  <2>1. CASE BlockExpires /\ UNCHANGED quotaAge
    BY <1>1, <2>1 DEF BlockExpires, LLMInv, Windowed
  <2>2. CASE WindowPasses /\ quotaAge' = [m \in Candidates |->
                IF quotaAge[m] < QuotaTTL THEN quotaAge[m] + 1 ELSE QuotaTTL]
    <3>1. ASSUME NEW m \in Candidates, quotaAge'[m] < QuotaTTL, late'[m] < FailThreshold
          PROVE  /\ circuit'[m].state = "OPEN" /\ circuit'[m].quota = TRUE
                 /\ circuit'[m].age <= quotaAge'[m] /\ circuit'[m].fails <= late'[m]
      <4>1. quotaAge[m] \in Nat /\ quotaAge[m] < QuotaTTL /\ quotaAge'[m] = quotaAge[m] + 1
        BY <2>2, <3>1, GatesAssumption DEF LLMInv, LLMTypeOK
      <4>2. /\ circuit[m].state = "OPEN" /\ circuit[m].quota = TRUE /\ circuit[m] \in Entry
            /\ circuit[m].age <= quotaAge[m] /\ circuit[m].fails <= late[m]
        BY <1>1, <3>1, <4>1 DEF LLMInv, Windowed, LLMTypeOK, GatesTypeOK
      <4>3. circuit'[m] = circuit[m] \/ circuit'[m] = [circuit[m] EXCEPT !.age = @ + 1]
        BY <2>2 DEF WindowPasses
      <4>4. /\ circuit'[m].state = "OPEN" /\ circuit'[m].quota = TRUE
            /\ circuit'[m].fails = circuit[m].fails
            /\ circuit'[m].age \in {circuit[m].age, circuit[m].age + 1}
        BY <4>2, <4>3 DEF Entry
      <4> QED BY <1>1, <4>1, <4>2, <4>4 DEF Entry
    <3> QED BY <3>1 DEF Windowed
  <2> QED BY <2>1, <2>2 DEF Tick
<1> QED BY <1>3, <1>4, <1>5 DEF LLMInv

\* A step that goes on from the gates as they are, and enters nothing in them itself.
LEMMA ProceedKeeps ==
    ASSUME LLMInv, NEW c \in Calls, NEW call \in CallRecord, call.result = "none",
           NEW circ \in [Candidates -> Entry], Windowed(circ, quotaAge, late),
           Proceed(c, call, circ, cooldown, streak, blocked),
           UNCHANGED <<providerOf, cooldown, excluded, load, quotaAge, late, refused>>
    PROVE  LLMInv' /\ LeftAlone
<1>1. GatesOf(circ, streak, blocked)
  BY Found DEF GatesOf
<1>2. Outcome(c, circ, cooldown, streak, blocked)
  BY <1>1, Found, ProceedGoes
<1>3. Counted(circ, streak, blocked)
  BY Found DEF Counted, Windowed
<1> QED BY <1>1, <1>2, <1>3, Found, GoesOn

LEMMA BeginKeeps == ASSUME LLMInv, NEW c \in Calls, Begin(c) PROVE LLMInv' /\ LeftAlone
<1>1. PICK s \in Chains : Proceed(c, [calls[c] EXCEPT !.chain = s, !.todo = s],
                                  AfterChain, cooldown, streak, blocked)
  BY DEF Begin
<1>2. s \in Seq(Candidates)
  <2> DEFINE in == {m \in Candidates \ excluded :
                       providerOf[m] \in Pooled => _circuit_allow(circuit[m], cooldown[m])}
  <2>1. Cardinality(in) \in Nat
    BY FS_Subset, FS_CardinalityType, GatesAssumption
  <2>2. s \in [1..Cardinality(in) -> in]
    BY <1>1 DEF Chains
  <2> HIDE DEF in
  <2>3. s \in Seq(in)
    BY <2>1, <2>2
  <2> QED BY <2>2, <2>3 DEF in
<1>3. AfterChain \in [Candidates -> Entry]
  BY EntryTyped DEF AfterChain, LLMInv, LLMTypeOK, GatesTypeOK
<1>4. Windowed(AfterChain, quotaAge, late)
  <2>1. ASSUME NEW m \in Candidates, quotaAge[m] < QuotaTTL, late[m] < FailThreshold
        PROVE  AfterChain[m] = circuit[m]
    BY <2>1, StaysOpen DEF AfterChain, LLMInv, LLMTypeOK, GatesTypeOK
  <2> QED BY <2>1 DEF Windowed, LLMInv
<1>5. calls[c] \in CallRecord /\ calls[c].result = "none"
  BY DEF Begin, LLMInv, LLMTypeOK, Unended
<1> DEFINE call == [calls[c] EXCEPT !.chain = s, !.todo = s]
<1>6. call \in CallRecord /\ call.result = "none"
  BY <1>2, <1>5 DEF CallRecord
<1> HIDE DEF call
<1> QED BY <1>1, <1>3, <1>4, <1>6, ProceedKeeps DEF Begin, call

LEMMA DropoutKeeps == ASSUME LLMInv, NEW c \in Calls, AfterDropout(c) PROVE LLMInv' /\ LeftAlone
<1>1. /\ calls[c] \in CallRecord /\ calls[c].result = "none"
      /\ circuit \in [Candidates -> Entry]
  BY DEF AfterDropout, LLMInv, LLMTypeOK, GatesTypeOK, Unended
<1>2. Windowed(circuit, quotaAge, late)
  BY DEF LLMInv
<1> QED BY <1>1, <1>2, ProceedKeeps DEF AfterDropout

LEMMA RoundKeeps == ASSUME LLMInv, NEW c \in Calls, NextRound(c) PROVE LLMInv' /\ LeftAlone
<1>1. /\ calls[c] \in CallRecord /\ calls[c].result = "none" /\ calls[c].attempt < MaxRetries
      /\ circuit \in [Candidates -> Entry]
  BY DEF NextRound, LLMInv, LLMTypeOK, GatesTypeOK, Unended
<1> DEFINE n == calls[c].attempt + 1
           call == [calls[c] EXCEPT !.todo = calls[c].chain, !.attempt = n, !.tried = FALSE]
<1>2. n \in 0..MaxRetries /\ FALSE \in BOOLEAN
  BY <1>1, ClientAssumption DEF CallRecord
<1>3. Proceed(c, call, circuit, cooldown, streak, blocked)
  BY DEF NextRound
<1> HIDE DEF n
<1>4. call \in CallRecord /\ call.result = "none"
  BY <1>1, <1>2 DEF CallRecord
<1> HIDE DEF call
<1>5. Windowed(circuit, quotaAge, late)
  BY DEF LLMInv
<1> QED BY <1>1, <1>3, <1>4, <1>5, ProceedKeeps DEF NextRound

\* An answer: what it enters in the gates is counted.
LEMMA ReplyKeeps ==
    ASSUME LLMInv, NEW c \in Calls, NEW o \in Answers, Reply(c, o) PROVE LLMInv' /\ LeftAlone
<1> DEFINE m == Current(c)
           p == providerOf[m]
           k == load.kinds[c]
           ok == o = "text"
           circ == [circuit EXCEPT ![m] = IF ok THEN _circuit_record_success(@)
                                          ELSE _circuit_record_failure(@, o)]
           cool == [cooldown EXCEPT ![m] = IF _classify_permanent_error(o) THEN BanTTL ELSE @]
           writes403 == Reads403(k) /\ ~(k = "system" /\ o = "empty")
           stk == [streak EXCEPT ![p] = IF writes403 THEN _r05_403_record(@, Is403(o)) ELSE @]
           blk == [blocked EXCEPT ![p] =
                      IF writes403 THEN BlockAfter(@, streak[p], Is403(o)) ELSE @]
           call == [calls[c] EXCEPT !.todo = Tail(@), !.failed = TRUE,
                        !.saw429 = @ \/ o = "quota",
                        !.sawEmpty = @ \/ (o = "empty" /\ k = "complete")]
           dropped == [call EXCEPT !.pc = "dropped", !.tokens = 0]
           dropout == ok /\ k = "stream" /\ calls[c].tokens < 2
           ends == (ok /\ ~dropout) \/ (~ok /\ calls[c].tokens > 0)
           waits == dropout /\ calls[c].attempt < MaxRetries
<1>1. /\ cooldown' = cool
      /\ excluded' = IF _classify_permanent_error(o) THEN excluded \cup {m} ELSE excluded
      /\ quotaAge' = [quotaAge EXCEPT ![m] = IF o = "quota" THEN 0 ELSE IF ok THEN QuotaTTL ELSE @]
      /\ late' = [late EXCEPT ![m] = IF o = "quota" \/ ok THEN 0
                                     ELSE IF @ < FailThreshold THEN @ + 1 ELSE @]
      /\ refused' = [refused EXCEPT ![p] =
                        IF Is403(o) /\ writes403 /\ @ < ForbiddenThreshold THEN @ + 1 ELSE @]
      /\ UNCHANGED <<providerOf, load>>
      /\ \/ /\ calls' = [calls EXCEPT ![c] =
                            IF ends THEN Ended(calls[c], IF ok THEN "text" ELSE "error")
                                    ELSE dropped]
            /\ circuit' = circ /\ streak' = stk /\ blocked' = blk /\ allOpenSeen' = allOpenSeen
         \/ Proceed(c, call, circ, cool, stk, blk)
  BY Zenon DEF Reply, Answered
<1>2. /\ calls[c] \in CallRecord /\ calls[c].result = "none" /\ calls[c].todo # <<>>
      /\ m \in Candidates /\ providerOf \in [Candidates -> ProviderIds] /\ p \in ProviderIds
  <2> HIDE DEF m, p
  <2>1. LLMTypeOK /\ Unended /\ calls[c].pc = "asking"
    <3>1. LLMTypeOK /\ Unended
      BY DEF LLMInv
    <3>2. calls[c].pc = "asking"
      BY DEF Reply
    <3> QED BY <3>1, <3>2
  <2>2. /\ calls \in [Calls -> CallRecord] /\ providerOf \in [Candidates -> ProviderIds]
        /\ calls[c].todo # <<>>
    BY <2>1, GatesAssumption DEF LLMTypeOK, GatesTypeOK
  <2>3. calls[c] \in CallRecord /\ calls[c].result = "none"
    BY <2>1, <2>2 DEF Unended
  <2>4. m \in Candidates
    <3>1. calls[c].todo \in Seq(Candidates)
      BY <2>3 DEF CallRecord
    <3> QED BY <2>2, <3>1 DEF m, Current
  <2> QED BY <2>2, <2>3, <2>4 DEF p
<1> HIDE DEF m, p
<1>3. circ \in [Candidates -> Entry]
  BY <1>2, EntryTyped DEF LLMInv, LLMTypeOK, GatesTypeOK
<1>4. cool \in [Candidates -> 0..BanTTL]
  BY <1>2, GatesAssumption DEF LLMInv, LLMTypeOK, GatesTypeOK
<1>5. /\ stk \in [ProviderIds -> 0..ForbiddenThreshold]
      /\ blk \in [ProviderIds -> {"no", "active", "expired"}]
  <2>1. ASSUME NEW n \in 0..ForbiddenThreshold
        PROVE  _r05_403_record(n, Is403(o)) \in 0..ForbiddenThreshold
    BY GatesAssumption DEF _r05_403_record
  <2>2. streak \in [ProviderIds -> 0..ForbiddenThreshold]
        /\ blocked \in [ProviderIds -> {"no", "active", "expired"}]
    BY DEF LLMInv, LLMTypeOK, GatesTypeOK
  <2> HIDE DEF writes403
  <2> QED BY <1>2, <2>1, <2>2 DEF BlockAfter
<1>6. Counted(circ, stk, blk)
  <2>1. quotaAge' \in [Candidates -> 0..QuotaTTL] /\ late' \in [Candidates -> 0..FailThreshold]
    BY <1>1, <1>2, GatesAssumption DEF LLMInv, LLMTypeOK
  <2>2. refused' \in [ProviderIds -> 0..ForbiddenThreshold]
    BY <1>1, <1>2, GatesAssumption DEF LLMInv, LLMTypeOK
  <2>3. ASSUME NEW q \in ProviderIds
        PROVE  /\ refused'[q] >= refused[q] /\ stk[q] <= refused'[q]
               /\ blk[q] = "active" => refused'[q] = ForbiddenThreshold
    <3>1. /\ refused[q] \in 0..ForbiddenThreshold /\ streak[q] \in 0..ForbiddenThreshold
          /\ streak[q] <= refused[q] /\ (blocked[q] = "active" => refused[q] = ForbiddenThreshold)
          /\ refused \in [ProviderIds -> 0..ForbiddenThreshold]
          /\ streak \in [ProviderIds -> 0..ForbiddenThreshold]
          /\ blocked \in [ProviderIds -> {"no", "active", "expired"}]
      BY DEF LLMInv, LLMTypeOK, GatesTypeOK, Refusals
    <3>2. CASE q # p
      BY <1>1, <3>1, <3>2, GatesAssumption
    <3>3. CASE q = p /\ ~writes403
      BY <1>1, <3>1, <3>3, GatesAssumption
    <3>4. CASE q = p /\ writes403
      <4>1. /\ refused'[q] = IF Is403(o) /\ refused[q] < ForbiddenThreshold
                             THEN refused[q] + 1 ELSE refused[q]
            /\ stk[q] = _r05_403_record(streak[q], Is403(o))
            /\ blk[q] = BlockAfter(blocked[q], streak[q], Is403(o))
        BY <1>1, <3>1, <3>4
      <4> HIDE DEF stk, blk, writes403
      <4> QED BY <3>1, <4>1, GatesAssumption DEF _r05_403_record, BlockAfter
    <3> QED BY <3>2, <3>3, <3>4
  <2>4. Windowed(circ, quotaAge', late')
    <3>1. ASSUME NEW n \in Candidates, quotaAge'[n] < QuotaTTL, late'[n] < FailThreshold
          PROVE  /\ circ[n].state = "OPEN" /\ circ[n].quota = TRUE
                 /\ circ[n].age <= quotaAge'[n] /\ circ[n].fails <= late'[n]
      <4>1. /\ quotaAge[n] < QuotaTTL /\ late[n] < FailThreshold =>
                  /\ circuit[n].state = "OPEN" /\ circuit[n].quota = TRUE
                  /\ circuit[n].age <= quotaAge[n] /\ circuit[n].fails <= late[n]
            /\ circuit[n] \in Entry /\ circuit \in [Candidates -> Entry]
            /\ quotaAge \in [Candidates -> 0..QuotaTTL] /\ late \in [Candidates -> 0..FailThreshold]
            /\ quotaAge[n] \in Nat /\ late[n] \in Nat
        BY GatesAssumption DEF LLMInv, LLMTypeOK, GatesTypeOK, Windowed
      <4>2. CASE n # m
        BY <1>1, <3>1, <4>1, <4>2
      <4>3. CASE n = m
        <5>1. ~ok
          BY <1>1, <3>1, <4>1, <4>3, GatesAssumption
        <5>2. circ[n] = _circuit_record_failure(circuit[n], o)
          BY <4>1, <4>3, <5>1
        <5>3. CASE o = "quota"
          <6>1. circ[n] = OpenOnQuota(circuit[n]) /\ quotaAge'[n] = 0 /\ late'[n] = 0
            BY <1>1, <4>1, <4>3, <5>2, <5>3 DEF _circuit_record_failure
          <6> QED BY <6>1 DEF OpenOnQuota
        <5>4. CASE o # "quota"
          <6>1. /\ quotaAge'[n] = quotaAge[n]
                /\ late'[n] = IF late[n] < FailThreshold THEN late[n] + 1 ELSE late[n]
            BY <1>1, <4>1, <4>3, <5>1, <5>4
          <6>2. /\ late[n] + 1 = late'[n] /\ late[n] < FailThreshold /\ late[n] + 1 < FailThreshold
            BY <3>1, <4>1, <6>1, GatesAssumption
          <6>3. /\ circuit[n].state = "OPEN" /\ circuit[n].quota = TRUE
                /\ circuit[n].age <= quotaAge[n] /\ circuit[n].fails <= late[n]
            BY <3>1, <4>1, <6>1, <6>2
          <6>4. CASE _classify_permanent_error(o)
            <7>1. circ[n] = OpenOnQuota(circuit[n])
              BY <5>2, <6>4 DEF _circuit_record_failure
            <7> QED BY <4>1, <6>1, <6>2, <7>1 DEF OpenOnQuota
          <6>5. CASE ~_classify_permanent_error(o)
            <7>1. circuit[n].fails \in Nat /\ circuit[n].fails + 1 < FailThreshold
              BY <4>1, <6>2, <6>3, GatesAssumption DEF Entry
            <7> DEFINE f == circuit[n].fails + 1
            <7>2. circ[n] = [circuit[n] EXCEPT !.fails = f]
              <8>1. circuit[n].fails < FailThreshold /\ ~(f >= FailThreshold)
                BY <7>1, GatesAssumption
              <8> HIDE DEF circ
              <8> QED BY <5>2, <5>4, <6>5, <8>1 DEF _circuit_record_failure
            <7>3. /\ circ[n].state = circuit[n].state /\ circ[n].quota = circuit[n].quota
                  /\ circ[n].age = circuit[n].age /\ circ[n].fails = f
              BY <4>1, <7>2 DEF Entry
            <7> QED BY <4>1, <6>1, <6>2, <6>3, <7>1, <7>3
          <6> QED BY <6>4, <6>5
        <5> QED BY <5>3, <5>4
      <4> QED BY <4>2, <4>3
    <3> QED BY <3>1 DEF Windowed
  <2> QED BY <2>1, <2>2, <2>3, <2>4 DEF Counted
<1>7. call \in CallRecord /\ call.result = "none"
  <2> DEFINE saw429 == calls[c].saw429 \/ o = "quota"
             sawEmpty == calls[c].sawEmpty \/ (o = "empty" /\ k = "complete")
             todo == Tail(calls[c].todo)
  <2>1. saw429 \in BOOLEAN /\ sawEmpty \in BOOLEAN /\ TRUE \in BOOLEAN
    OBVIOUS
  <2>2. todo \in Seq(Candidates)
    BY <1>2 DEF CallRecord
  <2>3. call = [calls[c] EXCEPT !.todo = todo, !.failed = TRUE, !.saw429 = saw429,
                                !.sawEmpty = sawEmpty]
    OBVIOUS
  <2> HIDE DEF saw429, sawEmpty, todo, call
  <2> QED BY <1>2, <2>1, <2>2, <2>3 DEF CallRecord
<1>8. dropped \in CallRecord /\ dropped.pc = "dropped" /\ dropped.result = "none"
  <2> HIDE DEF call
  <2>1. 0 \in 0..2
    OBVIOUS
  <2> QED BY <1>7, <2>1 DEF CallRecord
<1> HIDE DEF circ, cool, stk, blk, call, dropped, ends
<1>9. GatesOf(circ, stk, blk)
  BY <1>3, <1>5 DEF GatesOf
<1>10. Outcome(c, circ, cool, stk, blk)
  <2>1. CASE Proceed(c, call, circ, cool, stk, blk)
    BY <1>7, <1>9, <2>1, Found, ProceedGoes
  <2>2. CASE ~Proceed(c, call, circ, cool, stk, blk)
    <3> DEFINE r == IF ok THEN "text" ELSE "error"
               new == IF ends THEN Ended(calls[c], r) ELSE dropped
    <3>1. /\ calls' = [calls EXCEPT ![c] = new]
          /\ circuit' = circ /\ streak' = stk /\ blocked' = blk /\ allOpenSeen' = allOpenSeen
      BY <1>1, <2>2
    <3>2. r \in Results /\ r # "all_403"
      BY DEF Results
    <3> HIDE DEF r
    <3>3. new \in CallRecord /\ GoesWith(new, circ, cool, blk)
      BY <1>2, <1>8, <3>2, EndedTyped DEF GoesWith
    <3>4. \A q \in ProviderIds : stk[q] <= stk[q]
      BY <1>5, GatesAssumption
    <3> HIDE DEF new
    <3> QED BY <1>9, <3>1, <3>3, <3>4, Found DEF Outcome
  <2> QED BY <2>1, <2>2
<1>11. excluded' \subseteq Candidates
  BY <1>1, <1>2, Found
<1> QED BY <1>1, <1>4, <1>6, <1>9, <1>10, <1>11, GoesOn

LEMMA LLMStarts == LLMInit => LLMInv
<1> SUFFICES ASSUME LLMInit PROVE LLMInv
  OBVIOUS
<1> USE DEF LLMInit, GatesInit, ClientInit
<1>1. /\ QuotaTTL \in 0..QuotaTTL /\ 0 \in 0..FailThreshold /\ 0 \in 0..ForbiddenThreshold
      /\ 0 \in 0..BanTTL /\ 0 <= 0
  BY GatesAssumption
<1>2. Fresh \in Entry
  BY <1>1, GatesAssumption DEF Fresh, Entry
<1>3. NoCall.pc = "idle" /\ NoCall.result = "none"
  BY DEF NoCall
<1>4. LLMTypeOK
  BY <1>1, <1>2, <1>3, NoCallTyped DEF LLMTypeOK, GatesTypeOK
<1>5. Refusals /\ Unended /\ ForbiddenVerdictEarned
  BY <1>1, <1>3 DEF Refusals, Unended, ForbiddenVerdictEarned
<1>6. Windowed(circuit, quotaAge, late)
  BY GatesAssumption DEF Windowed
<1> QED BY <1>4, <1>5, <1>6 DEF LLMInv

LEMMA LLMStepKeeps == ASSUME LLMInv, LLMNext PROVE LLMInv' /\ LeftAlone
<1>1. load.answers \subseteq Answers
  BY ClientAssumption DEF LLMInv, LLMTypeOK
<1> QED BY <1>1, EnterKeeps, TokenKeeps, TickKeeps, BeginKeeps, DropoutKeeps, RoundKeeps, ReplyKeeps
        DEF LLMNext, CallStep

LEMMA LLMKeeps == LLMInv /\ [LLMNext]_llmVars => LLMInv'
<1>1. ASSUME LLMInv, UNCHANGED llmVars PROVE LLMInv'
  BY <1>1 DEF llmVars, gatesVars, clientVars, LLMInv, LLMTypeOK, GatesTypeOK, Refusals, Unended,
              ForbiddenVerdictEarned, Windowed
<1> QED BY <1>1, LLMStepKeeps

\* The gates and the calls keep their types; a call that is asking has a candidate.
THEOREM CallsTyped == LLMSpec => []LLMTypeOK
<1>1. LLMInv => LLMTypeOK
  BY DEF LLMInv
<1> QED BY <1>1, LLMStarts, LLMKeeps, PTL DEF LLMSpec

\* A call that ends with "all providers returned 403" had a chain, and each provider of
\* it answered 403 as often as the threshold says.
THEOREM VerdictEarned == LLMSpec => []ForbiddenVerdictEarned
<1>1. LLMInv => ForbiddenVerdictEarned
  BY DEF LLMInv
<1> QED BY <1>1, LLMStarts, LLMKeeps, PTL DEF LLMSpec

\* A candidate that refused for good is asked by nobody while its cooldown runs.
THEOREM RefusedAlone == LLMSpec => RefusedIsLeftAlone
<1>1. LLMInv /\ [LLMNext]_llmVars
      => [\A c \in Calls, m \in Candidates : Sends(c, m) => cooldown'[m] = 0]_llmVars
  BY LLMStepKeeps DEF LeftAlone
<1> QED BY <1>1, LLMStarts, LLMKeeps, PTL DEF LLMSpec, RefusedIsLeftAlone

\* After a 429 the candidate is asked by nobody within the quota window, unless a text
\* came after it or enough requests that were under way failed to reopen its circuit.
THEOREM WindowKept == LLMSpec => QuotaWindowUnlessLate
<1>1. LLMInv /\ [LLMNext]_llmVars
      => [\A c \in Calls, m \in Candidates :
             Sends(c, m) => quotaAge'[m] = QuotaTTL \/ late'[m] >= FailThreshold]_llmVars
  BY LLMStepKeeps DEF LeftAlone
<1> QED BY <1>1, LLMStarts, LLMKeeps, PTL DEF LLMSpec, QuotaWindowUnlessLate
===============================================================================
