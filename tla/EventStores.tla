---------------------------- MODULE EventStores ----------------------------
(***************************************************************************)
(* The two stores that keep records in memory and write them to SQLite in  *)
(* batches: TokenUsageStore (monitor/token_usage.py, "usage") and          *)
(* SourceEventStore (monitor/source_events.py, "events").  record puts an  *)
(* entry into a queue, a worker task collects a batch and flushes it when  *)
(* the queue is empty or the batch is full.  A usage query drains the      *)
(* queue itself, from a thread.  The stores differ in a failing flush: the *)
(* usage store lets it through, the event store swallows it.               *)
(***************************************************************************)
EXTENDS Naturals, Sequences, FiniteSets

CONSTANTS MaxRecords,   \* bound: records per store
          BatchSize,    \* records that make the worker flush (100)
          MaxFailures   \* bound: flushes that fail

ASSUME StoresAssumption ==
    BatchSize \in Nat \ {0} /\ {MaxRecords, MaxFailures} \subseteq Nat

Stores == {"usage", "events"}

VARIABLES count,      \* records made so far, numbered 1, 2, ...
          queue,      \* _flush_queue
          batch,      \* the local batch of _flush_worker
          worker,     \* _flush_task
          db,         \* the rows of the table
          query,      \* a usage query: its phase and the entries it drained
          lost,       \* history: entries of failed flushes
          failures    \* failed flushes so far

storeVars == <<count, queue, batch, worker, db, query, lost, failures>>

Elements(s) == {s[i] : i \in DOMAIN s}

StoresInit ==
    /\ count = [s \in Stores |-> 0]
    /\ queue = [s \in Stores |-> <<>>] /\ batch = [s \in Stores |-> <<>>]
    /\ worker = [s \in Stores |-> "none"]
    /\ db = [s \in Stores |-> {}] /\ lost = [s \in Stores |-> {}]
    /\ query = [pc |-> "none", got |-> <<>>, since |-> 0]
    /\ failures = 0

\* _flush_batch of the entries es: the transaction commits or fails as a whole.
FlushOk(s, es) ==
    /\ db' = [db EXCEPT ![s] = @ \cup Elements(es)]
    /\ UNCHANGED <<lost, failures>>
FlushFails(s, es) ==
    /\ es # <<>> /\ failures < MaxFailures
    /\ failures' = failures + 1
    /\ lost' = [lost EXCEPT ![s] = @ \cup Elements(es)]
    /\ UNCHANGED db

\* record: the worker is started once; one that died is never replaced.
record(s) ==
    /\ count[s] < MaxRecords
    /\ count' = [count EXCEPT ![s] = @ + 1]
    /\ queue' = [queue EXCEPT ![s] = Append(@, count[s] + 1)]
    /\ worker' = [worker EXCEPT ![s] = IF @ = "none" THEN "alive" ELSE @]
    /\ UNCHANGED <<batch, db, query, lost, failures>>

\* Mutant: the batch is kept after the flush.
WorkerFlushKeeps(s, b) ==
    /\ batch' = [batch EXCEPT ![s] = b]
    /\ \/ FlushOk(s, b) /\ UNCHANGED worker
       \/ /\ FlushFails(s, b)
          /\ worker' = [worker EXCEPT ![s] = IF s = "usage" THEN "dead" ELSE @]

\* The worker flushes b.  The exception of the usage store ends it.
WorkerFlush(s, b) ==
    /\ batch' = [batch EXCEPT ![s] = <<>>]
    /\ \/ FlushOk(s, b) /\ UNCHANGED worker
       \/ /\ FlushFails(s, b)
          /\ worker' = [worker EXCEPT ![s] = IF s = "usage" THEN "dead" ELSE @]

\* One turn of the worker: an entry, and the check whether to flush.
Take(s) ==
    LET b == Append(batch[s], Head(queue[s]))
        full == Len(b) >= BatchSize \/ Tail(queue[s]) = <<>>
    IN  /\ worker[s] = "alive" /\ queue[s] # <<>>
        /\ queue' = [queue EXCEPT ![s] = Tail(@)]
        /\ \/ full /\ WorkerFlush(s, b)
           \/ ~full /\ batch' = [batch EXCEPT ![s] = b]
              /\ UNCHANGED <<worker, db, lost, failures>>
        /\ UNCHANGED <<count, query>>

\* Mutant: the timeout flushes full batches only.
FlushFullOnTimeout(s) ==
    /\ worker[s] = "alive" /\ queue[s] = <<>> /\ Len(batch[s]) >= BatchSize
    /\ WorkerFlush(s, batch[s])
    /\ UNCHANGED <<count, queue, query>>

\* The 5 s timeout of the get with a batch in hand.
FlushOnTimeout(s) ==
    /\ worker[s] = "alive" /\ queue[s] = <<>> /\ batch[s] # <<>>
    /\ WorkerFlush(s, batch[s])
    /\ UNCHANGED <<count, queue, query>>

\* _load_all_from_db: _drain_pending takes the queue entry by entry in a thread,
\* next to the worker, flushes what it got and reads the table.
QueryStarts ==
    /\ query.pc = "none"
    /\ query' = [pc |-> "draining", got |-> <<>>, since |-> count["usage"]]
    /\ UNCHANGED <<count, queue, batch, worker, db, lost, failures>>

DrainOne ==
    /\ query.pc = "draining" /\ queue["usage"] # <<>>
    /\ query' = [query EXCEPT !.got = Append(@, Head(queue["usage"]))]
    /\ queue' = [queue EXCEPT !["usage"] = Tail(@)]
    /\ UNCHANGED <<count, batch, worker, db, lost, failures>>

QueryEnds ==
    /\ query.pc = "draining" /\ queue["usage"] = <<>>
    /\ query' = [pc |-> "none", got |-> <<>>, since |-> 0]
    /\ FlushOk("usage", query.got) \/ FlushFails("usage", query.got)
    /\ UNCHANGED <<count, queue, batch, worker>>

StoresStep == (\E s \in Stores : Take(s) \/ FlushOnTimeout(s))
              \/ QueryStarts \/ DrainOne \/ QueryEnds

StoresTypeOK ==
    /\ count \in [Stores -> 0..MaxRecords] /\ failures \in 0..MaxFailures
    /\ queue \in [Stores -> Seq(1..MaxRecords)] /\ batch \in [Stores -> Seq(1..MaxRecords)]
    /\ worker \in [Stores -> {"none", "alive", "dead", "cancelled"}]
    /\ db \in [Stores -> SUBSET (1..MaxRecords)] /\ lost \in [Stores -> SUBSET (1..MaxRecords)]
    /\ query \in [pc: {"none", "draining"}, got: Seq(1..MaxRecords), since: 0..MaxRecords]

\* Every record is at exactly one place: the queue, the worker's batch, a
\* draining query, the table or a failed flush.  No flush writes a row twice and
\* none drops one, whoever takes entries next to whom.
Places(s) == <<Elements(queue[s]), Elements(batch[s]), db[s], lost[s],
               IF s = "usage" THEN Elements(query.got) ELSE {}>>
EachRecordOnce ==
    \A s \in Stores :
        /\ UNION Elements(Places(s)) = 1..count[s]
        /\ \A i, j \in 1..5 : i # j => Places(s)[i] \cap Places(s)[j] = {}
        /\ Len(queue[s]) + Len(batch[s]) <= count[s]

\* A usage query sees every record made before it started that no flush failed
\* on (the docstring of _drain_pending).
QuerySeesAll ==
    [][query.pc = "draining" /\ query'.pc = "none" =>
          1..query.since \subseteq db'["usage"] \cup lost'["usage"]]_storeVars
=============================================================================
