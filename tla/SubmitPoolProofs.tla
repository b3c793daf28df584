-------------------------- MODULE SubmitPoolProofs --------------------------
(***************************************************************************)
(* The slots of the shared thread pool are neither lost nor duplicated by  *)
(* the operations on them, for any number of calls, slots and workers.     *)
(***************************************************************************)
EXTENDS SubmitPool, FiniteSetTheorems, TLAPS

\* A queued work item is in the queue of its pool, once, and nothing that has
\* run or was refused is.
Enqueued(c, p) == \E i \in 1..Len(queue[p]) : queue[p][i] = c
QueueExact ==
    /\ \A c \in Calls, p \in Pools :
          Enqueued(c, p) <=> pool[c] = p /\ work[c] \in {"queued", "cancelled"}
    /\ \A p \in Pools : \A i, j \in 1..Len(queue[p]) : queue[p][i] = queue[p][j] => i = j

\* The inductive invariant: a worker only turns a work item that is queued or
\* cancelled into something else because the queue holds nothing else.
IInv == TypeOK /\ SlotsBalance /\ QueueExact

\* The calls that hold a slot are finitely many.
LEMMA HoldingFinite ==
    /\ IsFiniteSet(Holding) /\ Cardinality(Holding) \in Nat
  BY PoolAssumption, FS_Subset, FS_CardinalityType DEF Holding

\* What the balance of the slots needs of a step: the set of holders stays,
\* grows by one with a slot taken, or shrinks by one with a slot given back.
LEMMA BalanceKept ==
    ASSUME TypeOK, SlotsBalance, slots' \in Int,
           \/ Holding' = Holding /\ slots' = slots
           \/ \E c \in Calls \ Holding : Holding' = Holding \cup {c} /\ slots' = slots - 1
           \/ \E c \in Holding : Holding' = Holding \ {c} /\ slots' = slots + 1
    PROVE  SlotsBalance' /\ slots' <= Bound
<1>1. CASE Holding' = Holding /\ slots' = slots
  BY <1>1 DEF SlotsBalance, TypeOK
<1>2. CASE \E c \in Calls \ Holding : Holding' = Holding \cup {c} /\ slots' = slots - 1
  <2>1. PICK c \in Calls \ Holding : Holding' = Holding \cup {c} /\ slots' = slots - 1
    BY <1>2
  <2>2. Cardinality(Holding \cup {c}) = Cardinality(Holding) + 1
    BY <2>1, HoldingFinite, FS_AddElement
  <2> QED BY <2>1, <2>2, HoldingFinite, PoolAssumption DEF SlotsBalance, TypeOK
<1>3. CASE \E c \in Holding : Holding' = Holding \ {c} /\ slots' = slots + 1
  <2>1. PICK c \in Holding : Holding' = Holding \ {c} /\ slots' = slots + 1
    BY <1>3
  <2>2. Cardinality(Holding \ {c}) = Cardinality(Holding) - 1 /\ IsFiniteSet(Holding \ {c})
    BY <2>1, HoldingFinite, FS_RemoveElement
  <2>3. Cardinality(Holding \ {c}) \in Nat
    BY <2>2, FS_CardinalityType
  <2> QED BY <2>1, <2>2, <2>3, HoldingFinite, PoolAssumption DEF SlotsBalance, TypeOK
<1> QED BY <1>1, <1>2, <1>3

\* Submitting a call, from a request or from a running function.
LEMMA SubmitStep ==
    ASSUME IInv, NEW c \in Calls, NEW v \in {"sync", "thread"}, NEW p \in Pools,
           NEW up \in Calls \cup {NoCall}, Submit(c, v, p, up)
    PROVE  IInv'
<1>0. /\ work[c] = "idle"
      /\ pool' = [pool EXCEPT ![c] = p] /\ via' = [via EXCEPT ![c] = v]
      /\ parent' = [parent EXCEPT ![c] = up]
  BY DEF Submit
<1>t. /\ pool' \in [Calls -> Pools \cup {"none"}]
      /\ via' \in [Calls -> {"sync", "thread", "none"}]
      /\ parent' \in [Calls -> Calls \cup {NoCall}]
  BY <1>0 DEF IInv, TypeOK
<1>n. \A q \in Pools : ~Enqueued(c, q)
  BY <1>0 DEF IInv, QueueExact
<1>1. CASE /\ p = "shared" /\ slots = 0
           /\ work' = [work EXCEPT ![c] = "refused"]
           /\ caller' = [caller EXCEPT ![c] = "refused"]
           /\ UNCHANGED <<slots, queue>>
  <2>1. TypeOK'
    BY <1>1, <1>t DEF IInv, TypeOK, WorkStates
  <2>2. Holding' = Holding
    BY <1>0, <1>1 DEF IInv, TypeOK, Holding
  <2>3. SlotsBalance'
    BY <1>1, <2>2, BalanceKept DEF IInv, TypeOK
  <2>4. QueueExact'
    <3>1. ASSUME NEW d \in Calls, NEW q \in Pools
          PROVE  Enqueued(d, q)' <=> pool'[d] = q /\ work'[d] \in {"queued", "cancelled"}
      BY <1>0, <1>1, <1>n DEF IInv, TypeOK, QueueExact, Enqueued
    <3> QED BY <1>1, <3>1 DEF IInv, QueueExact
  <2> QED BY <2>1, <2>3, <2>4 DEF IInv
<1>2. CASE /\ p = "shared" => slots > 0
           /\ slots' = IF p = "shared" THEN slots - 1 ELSE slots
           /\ queue' = [queue EXCEPT ![p] = Append(@, c)]
           /\ work' = [work EXCEPT ![c] = "queued"]
           /\ caller' = [caller EXCEPT ![c] = "waiting"]
  <2>1. TypeOK'
    <3>1. slots' \in 0..Bound
      BY <1>2, PoolAssumption DEF IInv, TypeOK
    <3>2. queue' \in [Pools -> Seq(Calls)]
      BY <1>2 DEF IInv, TypeOK
    <3> QED BY <1>2, <1>t, <3>1, <3>2 DEF IInv, TypeOK, WorkStates
  <2>2. c \notin Holding /\ Holding' = IF p = "shared" THEN Holding \cup {c} ELSE Holding
    BY <1>0, <1>2 DEF IInv, TypeOK, Holding
  <2>3. SlotsBalance'
    BY <1>2, <2>1, <2>2, BalanceKept DEF IInv, TypeOK
  <2>q. /\ Len(queue'[p]) = Len(queue[p]) + 1 /\ Len(queue[p]) \in Nat
        /\ queue'[p][Len(queue[p]) + 1] = c
        /\ \A i \in 1..Len(queue[p]) : queue'[p][i] = queue[p][i]
        /\ \A q \in Pools : q # p => queue'[q] = queue[q]
    BY <1>2 DEF IInv, TypeOK
  <2>4. QueueExact'
    <3>1. ASSUME NEW d \in Calls, NEW q \in Pools
          PROVE  Enqueued(d, q)' <=> pool'[d] = q /\ work'[d] \in {"queued", "cancelled"}
      <4>1. CASE d = c /\ q = p
        BY <4>1, <1>0, <1>2, <2>q DEF IInv, TypeOK, Enqueued
      <4>2. CASE d = c /\ q # p
        BY <4>2, <1>0, <1>n, <2>q DEF IInv, TypeOK, Enqueued
      <4>3. CASE d # c
        <5>1. Enqueued(d, q)' <=> Enqueued(d, q)
          BY <4>3, <2>q DEF Enqueued
        <5>2. pool'[d] = pool[d] /\ work'[d] = work[d]
          BY <4>3, <1>0, <1>2 DEF IInv, TypeOK
        <5> QED BY <5>1, <5>2 DEF IInv, QueueExact
      <4> QED BY <4>1, <4>2, <4>3
    <3>2. ASSUME NEW q \in Pools, NEW i \in 1..Len(queue'[q]), NEW j \in 1..Len(queue'[q]),
                 queue'[q][i] = queue'[q][j]
          PROVE  i = j
      <4>1. CASE q # p
        BY <3>2, <4>1, <2>q DEF IInv, QueueExact
      <4>2. CASE q = p
        <5>1. \A k \in 1..Len(queue[p]) : queue[p][k] # c
          BY <1>n DEF Enqueued
        <5>2. \A k, l \in 1..Len(queue[p]) : queue[p][k] = queue[p][l] => k = l
          BY DEF IInv, QueueExact
        <5>3. i \in 1..(Len(queue[p]) + 1) /\ j \in 1..(Len(queue[p]) + 1)
          BY <3>2, <4>2, <2>q
        <5>4. CASE i = Len(queue[p]) + 1
          BY <3>2, <4>2, <5>1, <5>3, <5>4, <2>q
        <5>5. CASE j = Len(queue[p]) + 1
          BY <3>2, <4>2, <5>1, <5>3, <5>5, <2>q
        <5>6. CASE i # Len(queue[p]) + 1 /\ j # Len(queue[p]) + 1
          <6>1. i \in 1..Len(queue[p]) /\ j \in 1..Len(queue[p])
            BY <5>3, <5>6, <2>q
          <6> QED BY <3>2, <4>2, <5>2, <6>1, <2>q
        <5> QED BY <5>4, <5>5, <5>6
      <4> QED BY <4>1, <4>2
    <3> QED BY <3>1, <3>2 DEF QueueExact
  <2> QED BY <2>1, <2>3, <2>4 DEF IInv
<1> QED BY <1>1, <1>2 DEF Submit

\* A worker takes the next work item, or drops it.
LEMMA TakeStep == ASSUME IInv, NEW p \in Pools, Take(p) PROVE IInv'
<1>c. PICK c \in Calls :
         /\ Len(queue[p]) \in Nat /\ Len(queue[p]) >= 1 /\ c = queue[p][1]
         /\ work' = [work EXCEPT ![c] = IF @ = "queued" THEN "running" ELSE "dropped"]
  <2>1. queue[p] \in Seq(Calls) /\ queue[p] # <<>>
    BY DEF Take, IInv, TypeOK
  <2>2. /\ Head(queue[p]) \in Calls /\ Head(queue[p]) = queue[p][1]
        /\ Len(queue[p]) \in Nat /\ Len(queue[p]) >= 1
    BY <2>1
  <2> QED BY <2>2 DEF Take
<1>1. /\ queue[p] # <<>> /\ queue' = [queue EXCEPT ![p] = Tail(@)]
      /\ work' = [work EXCEPT ![c] = IF @ = "queued" THEN "running" ELSE "dropped"]
      /\ UNCHANGED <<slots, pool, via, parent, caller>>
  BY <1>c DEF Take
<1>2. c \in Calls /\ Len(queue[p]) \in Nat /\ Len(queue[p]) >= 1 /\ c = queue[p][1]
  BY <1>c
<1>3. pool[c] = p /\ work[c] \in {"queued", "cancelled"}
  BY <1>2 DEF IInv, QueueExact, Enqueued
<1>4. /\ work'[c] \in {"running", "dropped"}
      /\ \A d \in Calls : d # c => work'[d] = work[d]
  BY <1>1, <1>2 DEF IInv, TypeOK
<1>q. /\ Len(queue'[p]) = Len(queue[p]) - 1
      /\ \A i \in 1..Len(queue'[p]) : queue'[p][i] = queue[p][i + 1]
      /\ \A q \in Pools : q # p => queue'[q] = queue[q]
  BY <1>1, <1>2 DEF IInv, TypeOK
<1>5. TypeOK'
  <2>1. queue' \in [Pools -> Seq(Calls)]
    BY <1>1 DEF IInv, TypeOK
  <2> QED BY <1>1, <1>2, <2>1 DEF IInv, TypeOK, WorkStates
<1>6. SlotsBalance'
  <2>1. Holding' = Holding
    BY <1>1, <1>3, <1>4 DEF Holding
  <2> QED BY <1>1, <2>1, BalanceKept DEF IInv, TypeOK
<1>7. QueueExact'
  <2>1. ASSUME NEW d \in Calls, NEW q \in Pools
        PROVE  Enqueued(d, q)' <=> pool'[d] = q /\ work'[d] \in {"queued", "cancelled"}
    <3>1. CASE d = c
      <4>1. ~Enqueued(c, q)'
        <5>1. CASE q = p
          <6>1. \A i \in 1..Len(queue'[p]) : i + 1 \in 1..Len(queue[p]) /\ i + 1 # 1
            BY <1>2, <1>q
          <6> QED BY <5>1, <6>1, <1>2, <1>q DEF IInv, QueueExact, Enqueued
        <5>2. CASE q # p
          BY <5>2, <1>2, <1>3, <1>q DEF IInv, QueueExact, Enqueued
        <5> QED BY <5>1, <5>2
      <4> QED BY <3>1, <4>1, <1>4
    <3>2. CASE d # c
      <4>1. Enqueued(d, q)' <=> Enqueued(d, q)
        <5>1. CASE q # p
          BY <5>1, <1>q DEF Enqueued
        <5>2. CASE q = p
          <6>1. ASSUME Enqueued(d, p) PROVE Enqueued(d, p)'
            <7>1. PICK i \in 1..Len(queue[p]) : queue[p][i] = d
              BY <6>1 DEF Enqueued
            <7>2. i - 1 \in 1..Len(queue'[p]) /\ queue'[p][i - 1] = d
              BY <7>1, <3>2, <1>2, <1>q
            <7> QED BY <7>2 DEF Enqueued
          <6>2. ASSUME Enqueued(d, p)' PROVE Enqueued(d, p)
            <7>1. PICK i \in 1..Len(queue'[p]) : queue'[p][i] = d
              BY <6>2 DEF Enqueued
            <7>2. i + 1 \in 1..Len(queue[p]) /\ queue[p][i + 1] = d
              BY <7>1, <1>2, <1>q
            <7> QED BY <7>2 DEF Enqueued
          <6> QED BY <5>2, <6>1, <6>2
        <5> QED BY <5>1, <5>2
      <4> QED BY <4>1, <3>2, <1>1, <1>4 DEF IInv, QueueExact
    <3> QED BY <3>1, <3>2
  <2>2. ASSUME NEW q \in Pools, NEW i \in 1..Len(queue'[q]), NEW j \in 1..Len(queue'[q]),
               queue'[q][i] = queue'[q][j]
        PROVE  i = j
    <3>1. CASE q # p
      BY <2>2, <3>1, <1>q DEF IInv, QueueExact
    <3>2. CASE q = p
      <4>1. i + 1 \in 1..Len(queue[p]) /\ j + 1 \in 1..Len(queue[p])
        BY <3>2, <1>2, <1>q
      <4>2. queue[p][i + 1] = queue[p][j + 1]
        BY <2>2, <3>2, <1>q
      <4> QED BY <4>1, <4>2 DEF IInv, QueueExact
    <3> QED BY <3>1, <3>2
  <2> QED BY <2>1, <2>2 DEF QueueExact
<1> QED BY <1>5, <1>6, <1>7 DEF IInv

\* The end of a function, the answer it gives, and a caller that gives up.
LEMMA CallStep ==
    ASSUME IInv, NEW c \in Calls, Return(c) \/ Answer(c) \/ GiveUp(c)
    PROVE  IInv'
<1>1. CASE Return(c)
  <2>1. /\ work[c] = "running" /\ work' = [work EXCEPT ![c] = "finishing"]
        /\ slots' = IF pool[c] = "shared" THEN slots + 1 ELSE slots
        /\ UNCHANGED <<queue, pool, via, parent, caller>>
    BY <1>1 DEF Return
  <2>2. Holding' = (IF pool[c] = "shared" THEN Holding \ {c} ELSE Holding)
        /\ (pool[c] = "shared" => c \in Holding)
    BY <2>1 DEF IInv, TypeOK, Holding
  <2>3. SlotsBalance' /\ slots' <= Bound
    BY <2>1, <2>2, BalanceKept DEF IInv, TypeOK
  <2>4. TypeOK'
    BY <2>1, <2>3, PoolAssumption DEF IInv, TypeOK, WorkStates
  <2>5. QueueExact'
    BY <2>1 DEF IInv, TypeOK, QueueExact, Enqueued
  <2> QED BY <2>3, <2>4, <2>5 DEF IInv
<1>2. CASE Answer(c)
  <2>1. /\ work[c] = "finishing" /\ work' = [work EXCEPT ![c] = "ended"]
        /\ caller' = [caller EXCEPT ![c] = IF @ = "waiting" THEN "answer" ELSE @]
        /\ UNCHANGED <<slots, queue, pool, via, parent>>
    BY <1>2 DEF Answer
  <2>2. Holding' = Holding
    BY <2>1 DEF IInv, TypeOK, Holding
  <2>3. SlotsBalance'
    BY <2>1, <2>2, BalanceKept DEF IInv, TypeOK
  <2>4. TypeOK'
    BY <2>1 DEF IInv, TypeOK, WorkStates
  <2>5. QueueExact'
    BY <2>1 DEF IInv, TypeOK, QueueExact, Enqueued
  <2> QED BY <2>3, <2>4, <2>5 DEF IInv
<1>3. CASE GiveUp(c)
  <2>1. /\ work' = [work EXCEPT ![c] = IF via[c] = "sync" /\ @ = "queued" THEN "cancelled" ELSE @]
        /\ caller' = [caller EXCEPT ![c] = "timeout"]
        /\ UNCHANGED <<slots, queue, pool, via, parent>>
    BY <1>3 DEF GiveUp
  <2>2. Holding' = Holding
    BY <2>1 DEF IInv, TypeOK, Holding
  <2>3. SlotsBalance'
    BY <2>1, <2>2, BalanceKept DEF IInv, TypeOK
  <2>4. TypeOK'
    BY <2>1 DEF IInv, TypeOK, WorkStates
  <2>5. QueueExact'
    BY <2>1 DEF IInv, TypeOK, QueueExact, Enqueued
  <2> QED BY <2>3, <2>4, <2>5 DEF IInv
<1> QED BY <1>1, <1>2, <1>3

\* Before the first call all slots are free and the queues empty.
LEMMA InitIInv == Init => IInv
<1> SUFFICES ASSUME Init PROVE IInv
  OBVIOUS
<1>1. TypeOK
  BY PoolAssumption DEF Init, TypeOK, WorkStates
<1>2. SlotsBalance
  <2>1. Holding = {}
    BY DEF Init, Holding
  <2> QED BY <2>1, FS_EmptySet, PoolAssumption DEF Init, SlotsBalance
<1>3. QueueExact
  BY DEF Init, QueueExact, Enqueued
<1> QED BY <1>1, <1>2, <1>3 DEF IInv

\* The inductive invariant holds in every reachable state.
THEOREM Invariance == Spec => []IInv
<1>1. ASSUME IInv, [Next]_vars PROVE IInv'
  <2>1. CASE \E c \in Calls : Request(c)
    BY <1>1, <2>1, SubmitStep DEF Request
  <2>2. CASE \E c \in Calls : Return(c) \/ Answer(c) \/ GiveUp(c)
    BY <1>1, <2>2, CallStep
  <2>3. CASE \E c, d \in Calls : Nest(c, d)
    BY <1>1, <2>3, SubmitStep DEF Nest
  <2>4. CASE \E p \in Pools : Take(p)
    BY <1>1, <2>4, TakeStep
  <2>5. CASE UNCHANGED vars
    BY <1>1, <2>5 DEF vars, IInv, TypeOK, SlotsBalance, Holding, QueueExact, Enqueued
  <2> QED BY <1>1, <2>1, <2>2, <2>3, <2>4, <2>5 DEF Next
<1> QED BY InitIInv, <1>1, PTL DEF Spec

\* Slots, work items, callers and queues stay what async_utils.py and the executors
\* make of them; a nested call has a parent, a queued one stands in a queue once.
THEOREM PoolTypeCorrect == Spec => []TypeOK
  BY Invariance, PTL DEF IInv

\* _submit_slots: every slot is free or held by exactly one call, whatever is
\* cancelled, times out, raises or is refused.
THEOREM SlotsBalanced == Spec => []SlotsBalance
  BY Invariance, PTL DEF IInv
=============================================================================
