----------------------------- MODULE SubmitPool -----------------------------
(***************************************************************************)
(* The thread pools of backend/app/core/async_utils.py: calls submitted by *)
(* run_sync (a coroutine that cancels what it no longer waits for) and by  *)
(* run_in_thread (a thread that blocks until an answer or a timeout), the  *)
(* slots that bound the calls in flight on the shared pool, and functions  *)
(* that call run_in_thread themselves while they occupy a worker.          *)
(***************************************************************************)
EXTENDS Integers, Sequences, FiniteSets

CONSTANTS
    Calls,          \* the calls ever made
    NoCall,
    Bound,          \* _POOL_BOUND
    SharedWorkers, LongWorkers

ASSUME PoolAssumption ==
    /\ IsFiniteSet(Calls) /\ NoCall \notin Calls
    /\ Bound \in Nat \ {0}
    /\ SharedWorkers \in Nat \ {0} /\ LongWorkers \in Nat \ {0}

Pools == {"shared", "long"}
Workers(p) == IF p = "shared" THEN SharedWorkers ELSE LongWorkers

VARIABLES
    slots,      \* value of _submit_slots
    queue,      \* work queue of each executor
    pool, via,  \* where and by which of the two functions a call was submitted
    parent,     \* the call whose function made it
    work,       \* its work item (the concurrent Future)
    caller      \* what the caller has got

vars == <<slots, queue, pool, via, parent, work, caller>>

\* A function that waits in run_in_thread keeps its worker.
Blocked(c) == \E d \in Calls : parent[d] = c /\ caller[d] = "waiting"

Busy(p) == {c \in Calls : pool[c] = p /\ work[c] \in {"running", "finishing"}}

-----------------------------------------------------------------------------
\* A shared submission without a free slot is refused at once.
Submit(c, v, p, up) ==
    /\ work[c] = "idle"
    /\ pool' = [pool EXCEPT ![c] = p]
    /\ via' = [via EXCEPT ![c] = v]
    /\ parent' = [parent EXCEPT ![c] = up]
    /\ \/ /\ p = "shared" /\ slots = 0
          /\ work' = [work EXCEPT ![c] = "refused"]
          /\ caller' = [caller EXCEPT ![c] = "refused"]
          /\ UNCHANGED <<slots, queue>>
       \/ /\ p = "shared" => slots > 0
          /\ slots' = IF p = "shared" THEN slots - 1 ELSE slots
          /\ queue' = [queue EXCEPT ![p] = Append(@, c)]
          /\ work' = [work EXCEPT ![c] = "queued"]
          /\ caller' = [caller EXCEPT ![c] = "waiting"]

Request(c) == \E v \in {"sync", "thread"}, p \in Pools : Submit(c, v, p, NoCall)

Nest(c, d) ==
    /\ work[c] = "running" /\ ~Blocked(c)
    /\ \E p \in Pools : Submit(d, "thread", p, c)

\* A free worker takes the next work item; a cancelled one is dropped, and the
\* wrapper around its function, which gives the slot back, never runs.
Take(p) ==
    /\ queue[p] # <<>> /\ Cardinality(Busy(p)) < Workers(p)
    /\ queue' = [queue EXCEPT ![p] = Tail(@)]
    /\ LET c == Head(queue[p]) IN
       work' = [work EXCEPT ![c] = IF @ = "queued" THEN "running" ELSE "dropped"]
    /\ UNCHANGED <<slots, pool, via, parent, caller>>

\* Mutant: the slot is given back on success only.
ReturnOnSuccess(c) ==
    /\ work[c] = "running" /\ ~Blocked(c)
    /\ work' = [work EXCEPT ![c] = "finishing"]
    /\ slots' \in IF pool[c] = "shared" THEN {slots, slots + 1} ELSE {slots}
    /\ UNCHANGED <<queue, pool, via, parent, caller>>

\* The function returns or raises; `finally` gives the slot back.
Return(c) ==
    /\ work[c] = "running" /\ ~Blocked(c)
    /\ work' = [work EXCEPT ![c] = "finishing"]
    /\ slots' = IF pool[c] = "shared" THEN slots + 1 ELSE slots
    /\ UNCHANGED <<queue, pool, via, parent, caller>>

\* The future gets its result and whoever still waits for it an answer.
Answer(c) ==
    /\ work[c] = "finishing"
    /\ work' = [work EXCEPT ![c] = "ended"]
    /\ caller' = [caller EXCEPT ![c] = IF @ = "waiting" THEN "answer" ELSE @]
    /\ UNCHANGED <<slots, queue, pool, via, parent>>

\* Mutant: run_in_thread waits without a timeout.
GiveUpSync(c) ==
    /\ caller[c] = "waiting" /\ via[c] = "sync"
    /\ caller' = [caller EXCEPT ![c] = "timeout"]
    /\ work' = [work EXCEPT ![c] = IF @ = "queued" THEN "cancelled" ELSE @]
    /\ UNCHANGED <<slots, queue, pool, via, parent>>

\* The timeout; run_sync's wait_for (or the cancellation of its caller) cancels
\* the future, which only a future that is not running yet obeys.
GiveUp(c) ==
    /\ caller[c] = "waiting"
    /\ caller' = [caller EXCEPT ![c] = "timeout"]
    /\ work' = [work EXCEPT ![c] =
                    IF via[c] = "sync" /\ @ = "queued" THEN "cancelled" ELSE @]
    /\ UNCHANGED <<slots, queue, pool, via, parent>>

-----------------------------------------------------------------------------
Init ==
    /\ slots = Bound
    /\ queue = [p \in Pools |-> <<>>]
    /\ pool = [c \in Calls |-> "none"] /\ via = [c \in Calls |-> "none"]
    /\ parent = [c \in Calls |-> NoCall]
    /\ work = [c \in Calls |-> "idle"] /\ caller = [c \in Calls |-> "none"]

Next ==
    \/ \E c \in Calls : Request(c) \/ Return(c) \/ Answer(c) \/ GiveUp(c)
    \/ \E c, d \in Calls : Nest(c, d)
    \/ \E p \in Pools : Take(p)

Spec == Init /\ [][Next]_vars

\* Workers take what is queued, a function ends unless it waits for another one,
\* and every wait has a timeout.
Fairness ==
    /\ \A p \in Pools : WF_vars(Take(p))
    /\ \A c \in Calls : WF_vars(Return(c)) /\ WF_vars(Answer(c)) /\ WF_vars(GiveUp(c))

FairSpec == Spec /\ Fairness

-----------------------------------------------------------------------------
WorkStates == {"idle", "refused", "queued", "running", "finishing", "ended",
               "cancelled", "dropped"}

TypeOK ==
    /\ slots \in 0..Bound
    /\ queue \in [Pools -> Seq(Calls)]
    /\ pool \in [Calls -> Pools \cup {"none"}]
    /\ via \in [Calls -> {"sync", "thread", "none"}]
    /\ parent \in [Calls -> Calls \cup {NoCall}]
    /\ work \in [Calls -> WorkStates]
    /\ caller \in [Calls -> {"none", "refused", "waiting", "answer", "timeout"}]

\* The calls that took a slot and have not given it back.
Holding ==
    {c \in Calls : pool[c] = "shared" /\ work[c] \in {"queued", "running", "cancelled", "dropped"}}

\* No slot is taken or given back twice: those not free are held by one call
\* each.  In particular at most Bound calls are in flight on the shared pool.
SlotsBalance == slots + Cardinality(Holding) = Bound

\* Workers that wait for calls queued behind them are freed again: whatever is
\* queued is run to its end, or dropped if cancelled, although functions that
\* hold every worker may wait for each other's calls.
EveryCallEnds ==
    \A c \in Calls : (work[c] = "queued") ~> (work[c] \in {"ended", "dropped"})

\* async_utils.py 27: the worker thread returns the slot, a caller that gave up
\* makes no difference.  So once nothing is queued or runs, all slots are free.
SlotsReturn ==
    (\A c \in Calls : work[c] \notin {"queued", "running", "cancelled"}) => slots = Bound
=============================================================================
