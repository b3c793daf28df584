-------------------------- MODULE LifespanShutdown --------------------------
(***************************************************************************)
(* The end of the lifespan in main.py: the background tasks are shut down  *)
(* first, then the usage store, then the event store.  Background tasks    *)
(* make records while they run; one that outlives the wait still does.     *)
(***************************************************************************)
EXTENDS EventStores

\* core/background_tasks.py: spawn registers a task so that it is not garbage
\* collected, shutdown_all cancels what is registered and waits for it with a
\* timeout.
CONSTANT Tasks

VARIABLES task,       \* the state of each asyncio task
          registry,   \* _tasks
          stopping,   \* shutdown_all: its phase
          waited      \* the set shutdown_all waits for

bgVars == <<task, registry, stopping, waited>>

BgInit ==
    /\ task = [t \in Tasks |-> "new"]
    /\ registry = {} /\ waited = {}
    /\ stopping = "no"

Unfinished(t) == task[t] \in {"running", "cancelling"}

spawn(t) ==
    /\ task[t] = "new"
    /\ task' = [task EXCEPT ![t] = "running"]
    /\ registry' = registry \cup {t}
    /\ UNCHANGED <<stopping, waited>>

\* A task ends, by itself or because it was cancelled; its callback discards it.
Finish(t) ==
    /\ Unfinished(t)
    /\ task' = [task EXCEPT ![t] = "done"]
    /\ registry' = registry \ {t}
    /\ UNCHANGED <<stopping, waited>>

\* shutdown_all up to its wait.
CancelAll ==
    /\ stopping = "no"
    /\ task' = [t \in Tasks |-> IF t \in registry THEN "cancelling" ELSE task[t]]
    /\ waited' = registry
    /\ stopping' = IF registry = {} THEN "over" ELSE "waiting"
    /\ UNCHANGED registry

\* The wait ends: all are done and the registry is cleared, or the timeout
\* gives up on those that are not.
WaitEnds ==
    /\ stopping = "waiting"
    /\ \/ /\ \A t \in waited : ~Unfinished(t)
          /\ registry' = {} /\ stopping' = "over"
       \/ /\ \E t \in waited : Unfinished(t)
          /\ registry' = registry \ waited /\ stopping' = "gave_up"
    /\ UNCHANGED <<task, waited>>

BgTypeOK ==
    /\ task \in [Tasks -> {"new", "running", "cancelling", "done"}]
    /\ registry \subseteq Tasks /\ waited \subseteq Tasks
    /\ stopping \in {"no", "waiting", "over", "gave_up"}
-----------------------------------------------------------------------------

VARIABLE stage    \* "up", then the store being shut down, "down", or "raised"
                  \* when an exception ends the lifespan early

shutdownVars == <<storeVars, bgVars, stage>>

ShutdownInit == StoresInit /\ BgInit /\ stage = "up"

Running == stage \notin {"down", "raised"}

\* Requests come while the server is up; background tasks work until they end.
MayWork == \/ stage = "up" /\ stopping = "no"
           \/ Running /\ \E t \in Tasks : Unfinished(t)

\* A request or a background task makes a record.
Record(s) ==
    /\ MayWork
    /\ record(s)
    /\ UNCHANGED <<bgVars, stage>>

\* A request or a background task spawns a task.
Spawn(t) ==
    /\ MayWork
    /\ spawn(t)
    /\ UNCHANGED <<storeVars, stage>>

StopTasks ==
    /\ stage = "up"
    /\ CancelAll \/ WaitEnds
    /\ stage' = IF stopping' \in {"over", "gave_up"} THEN "usage" ELSE "up"
    /\ UNCHANGED storeVars

\* The cancelled worker flushes its batch and nothing else.
CancelWorker(s, next) ==
    /\ worker' = [worker EXCEPT ![s] = "cancelled"]
    /\ batch' = [batch EXCEPT ![s] = <<>>]
    /\ \/ FlushOk(s, batch[s]) /\ stage' = next
       \/ FlushFails(s, batch[s]) /\ stage' = (IF s = "usage" THEN "raised" ELSE next)

\* TokenUsageStore.shutdown: awaiting a worker that died, or one whose last
\* flush fails, raises, and the lifespan ends there.
ShutdownUsage ==
    /\ stage = "usage"
    /\ \/ worker["usage"] = "alive" /\ CancelWorker("usage", "events")
       \/ /\ worker["usage"] # "alive"
          /\ stage' = IF worker["usage"] = "dead" THEN "raised" ELSE "events"
          /\ UNCHANGED <<batch, worker, db, lost, failures>>
    /\ UNCHANGED <<count, queue, query, bgVars>>

\* SourceEventStore.shutdown: the worker, then what is left in the queue.
ShutdownEvents ==
    /\ stage = "events" /\ worker["events"] # "cancelled"
    /\ \/ worker["events"] = "alive" /\ CancelWorker("events", "events")
       \/ /\ worker["events"] = "none"
          /\ worker' = [worker EXCEPT !["events"] = "cancelled"]
          /\ UNCHANGED <<batch, db, lost, failures, stage>>
    /\ UNCHANGED <<count, queue, query, bgVars>>

\* Mutant: the shutdown ends with the worker, as the one of the usage store does.
EndWithoutFlush ==
    /\ stage = "events" /\ worker["events"] = "cancelled"
    /\ stage' = "down"
    /\ UNCHANGED <<storeVars, bgVars>>

FinalFlush ==
    /\ stage = "events" /\ worker["events"] = "cancelled"
    /\ queue' = [queue EXCEPT !["events"] = <<>>]
    /\ stage' = "down"
    /\ FlushOk("events", queue["events"]) \/ FlushFails("events", queue["events"])
    /\ UNCHANGED <<count, batch, worker, query, bgVars>>

StopStores == ShutdownUsage \/ ShutdownEvents \/ FinalFlush

ShutdownNext ==
    \/ \E s \in Stores : Record(s)
    \/ \E t \in Tasks : Spawn(t)
    \/ Running /\ StoresStep /\ UNCHANGED <<bgVars, stage>>
    \/ Running /\ (\E t \in Tasks : Finish(t)) /\ UNCHANGED <<storeVars, stage>>
    \/ StopTasks
    \/ StopStores

ShutdownSpec == ShutdownInit /\ [][ShutdownNext]_shutdownVars

\* A fair event loop: workers go on, and a shutdown that has begun; it need not begin.
Working(s) == Running /\ (Take(s) \/ FlushOnTimeout(s)) /\ UNCHANGED <<bgVars, stage>>
WaitIsOver == stopping = "waiting" /\ StopTasks
ShutdownFairness ==
    /\ \A s \in Stores : WF_shutdownVars(Working(s))
    /\ WF_shutdownVars(WaitIsOver)
    /\ WF_shutdownVars(StopStores)
-----------------------------------------------------------------------------
ShutdownTypeOK ==
    /\ StoresTypeOK /\ BgTypeOK
    /\ stage \in {"up", "usage", "events", "down", "raised"}

\* A task that still runs is strongly referenced, so it cannot be collected in
\* the middle, until shutdown_all is over.
RunningIsReferenced ==
    stopping \in {"no", "waiting"} => registry = {t \in Tasks : Unfinished(t)}

\* When shutdown_all did not give up, every task that was registered when it
\* cancelled has ended before a store is shut down.
TasksEndBeforeStores ==
    (stage # "up" /\ stopping = "over") => \A t \in waited : task[t] = "done"

\* A clean shutdown keeps every source event: each is in the table unless its
\* own flush failed, although the worker and the final flush share the queue, or
\* unless a task that outlived the wait made it.
EventsSurviveShutdown ==
    (stage = "down" /\ \A t \in Tasks : ~Unfinished(t)) =>
        1..count["events"] = db["events"] \cup lost["events"]

\* The same of the usage store ("flush the remaining queue on close", docstring
\* of TokenUsageStore.shutdown).
UsageSurvivesShutdown ==
    (stage = "down" /\ \A t \in Tasks : ~Unfinished(t)) =>
        1..count["usage"] = db["usage"] \cup lost["usage"]

\* A record does not stay in memory: it reaches the table or a failed flush,
\* unless the worker of the usage store died or the shutdown overtook it.
RecordsReachTheTable ==
    \A s \in Stores : \A r \in 1..MaxRecords :
        r \in Elements(queue[s]) \cup Elements(batch[s]) ~>
            r \notin Elements(queue[s]) \cup Elements(batch[s])
            \/ worker[s] \in {"dead", "cancelled"} \/ ~Running
=============================================================================
