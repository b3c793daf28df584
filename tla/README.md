# ETF Surge: TLA+ models, checks and proofs

ETF Surge is a FastAPI backend (`backend/app`) with a Vue frontend. It fetches
market data through many unreliable sources, computes factors and allocations,
asks LLM providers for text, and runs two long jobs for its users: the *design*
of a portfolio and the *check* of a strategy. This directory models its
concurrent and stateful parts and the rules its answers are made by, checks the
models with TLC and proves the main safety results with TLAPS. Paths below are
relative to the repository, and to `backend/app` where they begin with one of its
directories.

PROJECT.json lists every component with its status, the runs, the source lines of
every definition (`map`), the places where the code may go wrong with the
properties that cover them (`hazards`), and the theorems.

## 1. Inventory

"Hard" names what a unit test would hardly reach.

| component | state | operations | hard | correct when | modules |
|---|---|---|---|---|---|
| Task store, design and check pipelines, notifications (`tasks/task_manager.py`, `tasks/strategy_check_worker.py`) | tables `tasks`, `portfolio_designs`, `strategy_check_records`; a coroutine per task; one semaphore; a set of sockets | `create_task`, `update_task`, `list_tasks`, `prune_tasks`, the stages and handlers, `broadcast` | awaits between SELECT and INSERT, two transactions for one outcome, a timeout at any await, a crash | one pipeline at a time, every task ends, rows agree, retention keeps what it must | `TaskStore`, `TaskPipeline`, `TaskLifecycle` |
| Lifespan (`main.py`) | the process | recovery, shutdown | crash between any two steps, work under way at the signal | nothing interrupted stays active, nothing recorded is lost | `TaskPipeline`, `LifespanShutdown` |
| Background tasks (`core/background_tasks.py`) | registry of asyncio tasks | `spawn`, `shutdown_all` | spawns during the shutdown | tasks are awaited or cancelled before the stores close | `LifespanShutdown` |
| Thread pool guard (`core/async_utils.py`) | submit slots, two pools | `run_in_thread`, `run_sync` | a cancelled call that is still queued, nested calls | slots held = calls in flight | `SubmitPool` |
| Source circuit breaker (`core/source_registry.py`, `services/source_health.py`, `monitor/probes.py`) | health per source | `route`, `_call_with_cb`, probes | results of old calls, a stale `now` | back-offs stay bounded, a source that works is not blamed and comes back | `SourceBreaker` |
| LLM gates and failover (`analysis/llm/gates.py`, `client.py`) | circuit and long cooldown per model, 403 block per provider, quota gate | the three entry points of the client | calls that hold old chains, late answers | limits hold, verdicts are earned, calls end | `LLMGates`, `LLMClient`, `LLMQuotaGate` |
| Usage and source events (`monitor/*.py`) | queue, worker, tables | `record`, flush, drain, `shutdown` | a failing flush, a drain beside a worker | nothing recorded is lost or counted twice | `EventStores` |
| Configuration (`core/config_manager.py`, `routers/admin.py`) | a table and its copies in memory | add, remove, list, restart | a write that fails after the memory changed | what was acknowledged stays | `ConfigStore` |
| Chat sessions (`services/chat_session.py`, `routers/analysis.py`) | sessions in memory and in a table | three streaming endpoints | overlapping turns, eviction, restart | rows are prefixes, answers are on topic | `ChatSessions` |
| Candidate pool, allocation engine, strategy design (`engine/*.py`, `services/strategy_design.py`) | the rows of three plans | some fifteen passes over them | each pass keeps one rule and may break another | the finished plans keep all of them | `CandidatePool`, `AllocationEngine`, `DesignFinish` |
| Portfolio services (`services/portfolio/*.py`) | the holdings, the report cache | trades, edits, import, apply, valuation, check | overlapping trades, a cached report of other holdings | money is conserved, a report is what it says | `PortfolioBook`, `PortfolioValue`, `StrategyCheck` |
| Market data hub (`services/market_data_hub.py`, `services/hub/*.py`) | pool, bars, news, sentiment, files | refreshes | refreshes that overlap, failing sources, restart | the last good data are kept | `HubRefresh`, `HubCaches` |
| Market service and endpoints (`services/market_service.py`, `routers/market.py`) | quotes, index prices, caches | quotes of one, a batch, the portfolio; search; watchlist | caches behind caches | an unmarked quote is recent | `MarketQuotes`, `GlobalIndices`, `InstrumentSearch`, `Watchlist` |
| Sources (`fetchers/*.py`) | lists of whole markets | chains of sources, lookups | which symbol each source is asked for | a quote is of the instrument asked | `SourceChains`, `SpotLists`, `EtfScanner`, `MarketMood`, `MacroSectors`, `NewsFeeds` |
| Caches (`services/cache_service.py`) | Redis and memory | `cache_get`, `cache_set`, `SyncMemoryCache` | a tier that fails and comes back, overlapping writes | no reader is taken back in time | `CacheTiers` |
| Factors and IC tracking (`factors/*.py`, `main.py`) | the batch of coefficients, its table | computation, persistence loop, backfill | a backfill that replays through the live registry | the replay leaves no trace | `FactorIC`, `FactorScores` |
| Instrument and index sync, agentic runs, MCP servers, calendar and watchdog, LLM reports and prompts, frontend, scripts | | | | | section 10 |

How they interact: a router creates a task and spawns its pipeline through
`background_tasks.spawn`; a pipeline calls the services, which call the hub, the
fetchers behind the circuit breaker, the caches, and the LLM client behind its gates,
in threads of the pool guard; it writes `tasks` and its own table and awaits a
broadcast after most updates. The lifespan recovers the tables at startup and shuts
tasks and stores down at the end. What two components share is modelled in one
state: the pipelines with tables, sockets and lifespan; the breaker with its four
kinds of users; the gates with the calls; the stores with the background tasks that
record into them and the shutdown; the sessions with the endpoints; the pool with the
engine and the design that is made of it; loop, backfill and registry. Components
that share nothing are independent, and are checked side by side.

## 2. Structure

A component is one module, parameterised by CONSTANTS. Modules whose state belongs
together EXTEND each other: `TaskStore` - `TaskPipeline`; `LLMGates` - `LLMClient`;
`EventStores` - `LifespanShutdown`; `CandidatePool` - `AllocationEngine` -
`DesignFinish`. `TaskLifecycle` is an abstract specification, which `TaskPipeline`
instantiates with a refinement mapping. Theorems are in modules of their own:
`TaskPipelineProofs`, `TaskPathProofs`, `SubmitPoolProofs`, `ServicesProofs`,
`MarketProofs`, `AnalysisProofs`, `EngineProofs`, and, being few, in `HubRefresh` itself.

The MC modules put the components on small instances. `MCServices`, `MCAnalysis` and
`MCMarkets` hold several that share no variable, with a variable `part` that selects at
the start which of them moves; a behaviour of such a run is a behaviour of one
component beside others that stand still, so its properties, temporal ones included,
say of each component what a run of its own would say. Fairness is stated for the part
that moves.

Pure code (which source is asked for what, units, scores, rules, mood, news) is written
as operators, and what it promises as predicates over their inputs. `MCMarkets`
and `MCAnalysis` assert them over all inputs of small sets in named ASSUMEs,
which TLC evaluates on every run of those modules.

Modules that carry theorems, or are used by one that does, have no RECURSIVE operator;
the only one is the power of two of `SourceBreaker`.

| run | module | what is asked | distinct states |
|---|---|---|---|
| `tp_design` | `MCTaskPipeline` | designs, a socket, a crash: executors and retention | 305 000 |
| `tp_faults` | `MCTaskPipeline` | both pipelines, a failing transaction anywhere, a timeout, a crash: mutual exclusion, records, refinement of the life cycle | 543 000 |
| `tp_live` | `MCTaskPipeline` | every task ends | 46 000 |
| `source_calls` | `MCSourceCalls` | the thread pool; the breaker under the callers that run on it | 176 000 |
| `sb_route` | `MCSourceBreaker` | a route and the probes over two sources that break and recover | 113 000 |
| `services` | `MCServices` | LLM calls, quota gate, configuration, stores and shutdown | 179 000 |
| `analysis` | `MCAnalysis` | designs, chat sessions, holdings, strategy check, hub | 606 000 |
| `markets` | `MCMarkets` | quotes, indices, spot lists, caches, coefficients | 1 814 000 |
| `v_dedup`, `v_slots`, `v_window`, `v_snapshot` | | one claim of the repository each, and a behaviour of the code against it (section 9) | |

Deadlock checking is off where an instance does stop: all calls, records or edits used
up, everything ended. It is on in the `tp_` runs and in `sb_route`.

## 3. The task pipelines

### 3.1 Modules

`TaskStore.tla` is the table `tasks` as a function from ids to rows. `Merge` is the
field-by-field merge of `update_task` (None keeps a column), `Pruned` the single
DELETE of `prune_tasks`, `Updated` the whole `update_task` with its trailing prune,
`Duplicates` the deduplicating SELECT of `create_task`. A row's clock is abstracted
to one bit, `old`: past the retention window or not.

`TaskPipeline.tla` is the system around it. One action is what a coroutine does
between two awaits at which another coroutine can change something it looks at.

| variables | code |
|---|---|
| `tasks`, `nextTask`, `designs`, `nextDesign`, `nextCheck` | the three tables; of `strategy_check_records` only the ids matter |
| `creq` | each HTTP request inside `create_task`: after the SELECT (`insert`), after the INSERT (`prune`) |
| `pc`, `loc` | each pipeline's next await, its `design_id`/`record_id` and `report_quality` |
| `sem`, `semQ` | `_design_semaphore` and its FIFO of waiters |
| `conns`, `open`, `bc` | `TaskNotifyManager._connections`, live endpoints, the broadcast under way (what the iteration over the set has seen, its size at the start) |
| `boot` | the lifespan: recovery of designs, of tasks, serving, down |
| `faults`, `crashes` | history counters behind the bounds |

`Stage` is the table of all `await mgr.update_task(...)` calls with the arguments
each one passes and what follows; `Report` runs one of them with its broadcast,
`ReportFails` is a failing transaction (or a failing prune after the commit).
`Handler` says where an exception is caught. `Generate`, `SaveDesign`,
`WriteReport`, `SaveError` and `CollectCheck`, `SaveCheck`, `JudgeCheck`,
`CheckTimeout` are the work between the stages with each of its outcomes, failing
ones included. `Send` and `SendRaises` are the loop of `broadcast` over the live
set: Python raises RuntimeError when the set changed size, in the pipeline's own
coroutine. `Crash` drops everything but the tables; `Start`, `RecoverDesigns` and
`RecoverTasks` are the startup.

`TaskLifecycle.tla` is the abstract specification: what a client may rely on about
the status and the record_id of one task, whatever happens inside. `TaskPipeline`
instantiates it with the refinement mapping (ids not handed out yet are `unused`) as
`LifecycleSpec`. `TaskPipelineProofs.tla` holds the theorems.

### 3.2 Runs

`tp_design`: design tasks, 2 requests, 1 socket, 2 tasks, 1 crash, no failing
transaction. `tp_faults`: both kinds, 2 requests, no socket, 2 tasks, 1 failing
transaction, 1 crash. `tp_live`: both kinds, 1 request at a time, 2 tasks, 1 crash.

* `Serialized`, `NoLostWaiter` (`tp_faults`): the semaphore is handed on by every exit,
  exceptions raised inside an exception handler included. A pipeline that starts
  without it, or a release that wakes nobody, breaks them.
* `RecordIntegrity` (`tp_faults`): a task's record_id is a row of its own kind's table,
  and of no other task's, although the pipelines read ids back after a commit. It asks
  nothing of a task without one (section 9).
* `TaskAgreesWithDesign` (`tp_faults`): task and design row, written in separate
  transactions, agree on the quality of the report (unless a transaction failed) and
  on success.
* `LifecycleSpec` (`tp_faults`): the refinement. No guard of `update_task` keeps a
  terminal status terminal; only the order of the calls does.
* `ActiveHasExecutor` (`tp_design`): while the server serves, an active task has
  somebody who will end it. Deduplication relies on it: otherwise an identical request
  is answered with a task nobody works on.
* `RetentionKept` (`tp_design`): retention removes only terminal, old rows and keeps
  the newest.
* `EveryTaskEnds` (`tp_live`): through the queue for the semaphore, timeouts,
  exceptions, and a crash with its recovery.

### 3.3 Bounds

`MaxTasks = 2`: the interesting pairs are holder and waiter, two duplicates, and a
kept and a removed row; a third task only repeats the waiter. `RetentionMax = 1`
(100 in the code) so that retention acts within two rows. One parameter value, so
that requests collide. One socket is enough to leave while it is being sent to, and to
join between two sends, which is what makes the loop raise. `MaxFaults = 1`: the fault
may hit any transaction, that of a handler, a prune or a recovery included. The two
properties of `tp_design` excuse faults or do not depend on them, so it takes none.
The proofs of section 8 cover any numbers.

`DesignsAge` (five minutes) can happen at any time. `TasksAge` (the retention
window of days) happens only while nothing runs: a pipeline ends within minutes.
The second read of its row a pipeline takes is not an action: by `RetentionKept`
nothing can remove an active row.

### 3.4 Fairness

`FairSpec` assumes weak fairness of each pipeline's steps (the event loop runs every
ready coroutine, and every await of a pipeline is bounded: sends by 5 s, generation
and report by their `wait_for`, the check body by 150 s; database calls end with a
result or an error), of each request inside `create_task`, and of the lifespan (the
process manager restarts the backend, `docker-compose` / start scripts). No fairness
is assumed of clients, sockets, faults, crashes or time. The semaphore's FIFO is
what turns weak fairness into progress of every waiter.

## 4. Thread pools and circuit breaker

`SubmitPool.tla` models `core/async_utils.py`: `slots` is `_submit_slots`, `queue` the
work queues of the two executors, `work` the state of each call's work item and
`caller` what its submitter knows. `Submit` takes a slot or is refused, `Take` is an
executor's worker (external code, modelled as the library behaves: a future that is
cancelled while queued is dropped without running), `Return` the `finally` of
`_release_slot_on_done`, `Answer` the future's result, `GiveUp` a timeout. The two
ways to submit differ in what a timeout does: `run_sync` cancels the future,
`run_in_thread` does not. `Nest` is a function that calls `run_in_thread` while it
occupies a worker, as the fetchers do.

`SourceBreaker.tla` models `SourceHealth` and everybody who uses one at the same time:
routes over several sources (`SourceRegistry.route`), `_call_with_cb`, the probes
(`run_probes`) and the breadth fetcher (`fetch_advance_decline_ratio`), which reports
to the breaker by hand. `failures`, `cycles` and `left` (time to `cool_until`) are the
health, `th` the threads: `at` is where one stands (before the check, in the call, in
the `except` clause, in the fallback, or left with an exception), `age` how old the
`now` is that it will use, `dur` how long it has been there, which decides whether
its failure is a fast one. `Break` and `Repair` are the sources themselves. Time is a
`Tick`; clocks are relative so that the state space is finite.

* `source_calls`, the pool (3 calls, 2 slots, 1 worker per pool): `SlotsBalance`, no slot
  is taken or returned twice under timeouts, cancellations and nesting; `EveryCallEnds`, nested calls that wait behind
  their own parents do not starve the pool. A call is made once, so 3 calls cover a
  holder, a queued call and one that is refused or nested; one worker per pool makes
  every nested call a potential deadlock. Fairness: workers take what is queued,
  functions end unless they wait for a nested call, every wait times out.
* `source_calls` also runs the breaker under those of its users `sb_route` leaves out (1
  source, a caller, the breadth fetcher, the probes, a pool that may refuse), without a
  property of its own: what holds of every kind of user is proved (section 8).
* `sb_route` (2 sources, a route, the probes, 1 outage): `BackoffMatches`, whoever trips,
  resets and succeeds at the same time, a cooldown that is left belongs to a cycle and is
  not longer than that cycle allows; `BlameEarned`, the record of a source that works only
  gets worse by a call that had failed before; `Recovers`, late failures with their old
  `now` cannot keep a source that works away for ever.

`BlameEarned` and `Recovers` are asked of routes and probes only. The other users do blame
sources that work: `_call_with_cb` counts every None, also of a source that has no data for
the symbol (`market_service.py` 97) where a route counts a miss (`source_registry.py` 259)
and also when the pool refused the call; the probes count a refusal by the pool as a
failure; the breadth fetcher reports by hand. `Empty` lets a caller's source give nothing
at any time. The theorem `BlameHasAnAuthor` (section 8) says that these are all.

Bounds of the breaker: threshold 2 (3 in the code), base 2 and cap 6 or 4 ticks, so that
the cap is below the last doubling; calls of at most 1 tick, so that a route's second
source sees a `now` as old as the base cooldown; `Overflow` 4 or 3 cycles (1024 in the
code). Fairness: threads run, calls end (all have timeouts), time passes. Nothing is
assumed of sources.

The model shows two more things: calls that fail during a cooldown start further
cycles, so one outage can back off like several although `_consecutive_cycles` is
documented as the count of consecutive cooldown cycles; and a failure recorded with an
old `now` starts a cooldown that is over already (the timeouts of the eight probes add
up to 63 s, the first cooldown is 60 s). No property asks for a least length of a cooldown.

## 5. Services (`services`, `v_window`)

`LLMGates.tla` is the module state of `analysis/llm/gates.py` per candidate (a model of
a provider): the circuit (`fails`, open since when, quota or not), the long cooldown, the
exclusions, and the 403 block per provider of `client.py`. `LLMClient.tla` runs calls of
the three entry points over it: `calls` holds each one's chain, what is left of it, its
retries and its result. One step ends at an await: a request is answered in one of the
ways `Loads` allows (text, empty, 403, 429, gated, transient failure, a stream that
drops after some tokens), the answer enters the gates, and the loop goes on to the next
candidate that may be asked, to a backoff, or to the end. `providerOf` is the
deployment: models of one provider (whose 403 block they share) or of two.

* `ForbiddenVerdictEarned`: "all providers returned 403" is said only when every
  provider in the call's chain answered 403 often enough, although the verdict is
  formed after the loop from blocks other calls set and that expire meanwhile.
* `RefusedIsLeftAlone`: a candidate that refused for good is asked by nobody during its
  long cooldown, whatever chains calls hold and whatever late answers closed.
* `EveryLlmCallEnds`: a text or a verdict, under weak fairness of each call's step
  (requests have timeouts, backoffs are sleeps).

`LLMQuotaGate.tla` is the rate limit before each call: `gapLeft` and `pauseLeft` are what
is left of `_last + gap` and of the pause, a caller computes its sleep once and notes
the time after it. `PauseCovered`: nobody goes through before the pause it found is over.
`SpacedUnlessOvertaken`: two calls come closer than the gap only when one slept while the
other passed.

`ConfigStore.tla` holds settings and exclusions twice, in the table and in the process.
`requests` is, per administrator, the request that stands between its half in the memory
and its half in the table; requests of the same model overlap, writes fail, the process
restarts. `AckedExclusionStays`: what was answered as persisted is in the table until its
removal is asked for, with one exception, `passedBy`: DELETE takes the model out of the
memory, POST puts it back and is answered persisted=True, and the delete_kv that was asked
for first then deletes the row (`admin.py` 406-440). `AckedIsSaved` is the claim without the
exception, which the code does not keep.

`EventStores.tla` has the queues, workers, batches and tables of the usage store and the
event store, a draining query, and failing flushes; `LifespanShutdown.tla` adds the
background tasks that record into them (registry, callback of a task that ends, the two
waits of `shutdown_all`) and the end of the lifespan.

* `EachRecordOnce`: each record is at exactly one place: queue, batch, query, table or
  a failed flush.
* `EventsSurviveShutdown`: when the process ends, each event is in the table, unless its
  own flush failed or a task that outlived the wait made it.
* `RecordsReachTheTable` (liveness): a record leaves the memory for the table or a failed
  flush, unless the worker of the usage store died or the shutdown overtook it. Fairness
  is of the workers and, once a shutdown began, of its waits; that it begins is not
  assumed.

Bounds: 2 calls over 2 models in three loads, time to live 1, 2 and 3 ticks for the short window, the quota window
and the long cooldown, thresholds 2; 3 callers of the quota gate; 3 administrators
with a request each (one that removes, two that add); 2 records, batches of 2, 1 failing flush, 1 background task. `v_window` takes 4
calls of one model (`MCServices` with `Parts = {"llm"}`): a 429, two that fail late, and one that comes after.

## 6. Analysis (`analysis`, `v_snapshot`)

`CandidatePool.tla` is how a scan becomes the pool: the layer budgets of a regime
(`engine/budgets.py`), the layers, the injection of anchors, `engine/pool_balancing.py`.
`AllocationEngine.tla` builds the three strategies, one pass per action (selection,
softmax, caps, the core's and the satellites' passes, duplicates of an index, the
reconciliation). `DesignFinish.tla` goes on with what `generate_enhanced_design` does to
them: the risk controls, correlation cap, substitutes, rows without a quote, cash,
rounding, the final budgets, the check across the profiles. An instrument is a role the
engine tells apart (`Info`); weights are in 1/10000, scores in tenths, and the softmax is
its linear part, which orders and bounds the weights in the same way.

* `PlanFits`: the finished plan makes up the whole and no layer is above its budget by
  funds that were moved into it. `OneFundPerIndex`: no two funds of one index, whatever
  door they came by. `PairsStayCapped`: two rows that move together hold at most 25 % at
  the end, although passes run after the one that cut them. `AnchorsOutlivePasses`: after
  the engine an anchor leaves only for a month below -40 %, or as a defense row that
  `check_defense_effectiveness` cut below 2 % (section 8 says why the second).
* Each weight is rounded on its own, so sums are compared up to `Slack`.

`ChatSessions.tla` has the store (`sess`, what is alive, `stored`, the snapshot) and the
three streaming endpoints: a request resolves its session, collects, streams, records the
reply and upserts. `RowsArePrefixes`: a stored row is what the session held at some time.
`AnsweredOnTopic`: a request is answered about its own market or symbol. `ReplyAfterQuestion`:
a reply stands in its question's session and after it.

`PortfolioBook.tla` has the holdings with money as fractions, and `ledger`, what was paid
and received. A trade reads its row, waits for prices and writes back the columns it
changed. `MoneyConserved`: cost basis and reported gains agree with the ledger, unless
another request wrote the row between a trade's reading and its writing.
`ReplaceReplaces`: an import in mode "replace" leaves exactly the file's symbols of the
type of its first readable line.

`StrategyCheck.tla` is one check at a time beside changing holdings and capital, with the
cached report, after its pure rules; `PortfolioValue.tla` is the pure valuation.
`ReportIsWhatItSays`: a report of the model is of these holdings and of this capital (whole
yuan are the key) and not older than its time to live; one marked "fallback" says so, and
words of the model in it come from an answer to this very check; every holding gets
advice. An answer whose summary reads like an excuse counts as failed and is not cached,
but its advice and analysis stay in the report.

`HubRefresh.tla` is the refresh of the pool: time to live, cooldown, lock, protection of
the last good pool, snapshot. `PoolKept`: a pool gives way only to one for which at least
half of its funds were gathered before the anchors came in (scanned, injected for strong
sectors or opportunistic: the code counts them together), unless refreshes ran side by side or the process restarted.
`HubCaches.tla` is what the hub keeps beside it. `LastGoodKept`: bars, news, sentiment and
momentum outlive the failures of their sources.

Bounds: 14 instruments, one per role; four scans (one of them with anchors alone, so that
nobody can pay for their floor), two scorings and seven regimes, with four kinds of trouble (`MCUpsets`: stale data, crashes, missing quotes, look-alikes). Three
requests in three scripts, a store of 2 sessions, 1 restart; the constraint `InOrder`
numbers requests that ask the same in the order they come in, which loses no behaviour
up to renaming. 2 symbols, 3 rows, 2 edits; 3 books, 2 checks; 3 callers of the hub, scans of
0, 2 and 8 funds, clocks in half minutes. No fairness: these are safety properties.

Assumptions evaluated there: `BudgetsAlwaysClose`, `SignalsHold`, `CountsHold`,
`DecisionsHold`, `AdviceHolds`, `WarningsHold`, `ValuesHold`, `QuotesHold`.

## 7. Markets (`markets`)

Actions:

* `MarketQuotes.tla`: the quotes of one instrument, of a batch and of the portfolio, with
  the caches between them. A quote is the moment its source was asked. `UnmarkedIsRecent`:
  a price that does not say it is an estimate is moments old (a day for batch and
  portfolio), whatever caches it went through. Time passes only at sources.
* `GlobalIndices.tla`: `PricesOutliveOutages`, a price once remembered outlives every round
  without one, overlapping rounds and outages included.
* `SpotLists.tla`: lists of whole markets with their single flight (`OneSpotFetch`).
* `CacheTiers.tla`: Redis and the memory, written one after the other with time between the
  halves, so that their entries expire at different times; Redis comes and goes.
  `NeverBackInTime`: no reader is given a value older than one that had been read when it
  began, but for two steps back the code does take: while the tiers are `split` (two writes
  crossed, or Redis missed one, until the newest write is in both), and when the reader's
  own GET fails beside a write that has only Redis behind it. Neither exception can be left
  out of the property; expiry, an outage and its end alone take nobody back.
* `FactorIC.tla`: the batch of coefficients (a batch is the day of its prices), the loop
  that saves it, the backfill that replays the past through the live registry.
  `ReplayLeavesNoTrace`: outside the replay no replayed batch is in the registry or the
  snapshot, however it ended, and the replayed rows are of their days.

Operators, with what is asserted of them over bounded inputs:

* `SourceChains.tla` - `QuotesAreOfTheOneAsked`, `SourcesOnlyAdd`, `BarsAreOfTheOneAsked`
* `InstrumentSearch.tla` - `SearchIsClean`, `BuiltinStays`
* `Watchlist.tla` - `ListInTime`, `ClosesHold`, `HistoryHolds`
* `MarketMood.tla` - `MoodHolds`, `BreadthHolds`, `BreadthKept`, `PastKept`
* `MacroSectors.tla` - `PlatesHold`, `ConceptsHold`, `FlowsHold`
* `NewsFeeds.tla` - `HeadlinesHold`, `WeakenedHolds`, `ImportantHolds`
* `FactorScores.tla` - `ScoresInRange`, `RanksOnly`, `SignalUnlimited`
* `EtfScanner.tla` - `PipelineHolds`, `ListsHold`, `PagesHold`

Bounds: 2 callers and a symbol per market (the three markets share no entry), caches of 1
and 2 ticks; 2 indices, one of the mainland, 2 callers, 4 rounds; 3 threads at a spot list;
2 writers and 2 readers of a key, 3 writes, entries that live 1 tick
in 4, so that each expires in the run; 4 days, 2 starts. Overlap of two is what each
hazard needs; the third thread at a spot list arrives while the second waits.

## 8. Proofs

The theorems hold for every value of the constants that satisfies the named assumption
of the module, so for any number of tasks, calls, threads, sockets, faults and crashes.
Each safety theorem follows the same way: an invariant of the module that is inductive
(types, the property, and the facts about the rest of the state the property leans on)
holds at the start, is kept by every action, and implies the property; an action
property is shown for one step from a state that satisfies it. The invariants were
checked with TLC on the instances above before they were proved.

### Task pipelines (`TaskPipelineProofs`, `TaskPathProofs`)

Assumptions: `StoreAssumption` (there are ids, retention keeps at least one row) and
`PipelineAssumption` (the kinds are the two kinds, finitely many sockets, bounds are
naturals).

* `TypeCorrect`, `PipelinesSerialized`, `WaitersKept`, from `IInv`. Its part `LockInv` is
  `Serialized` and `NoLostWaiter` together: neither is inductive without the other, for a
  release hands the semaphore to the head of the queue, which must then be a suspended
  pipeline (else two would be inside), once in the queue (else it would be woken twice).
  `SpawnInv` says a request that is about to spawn owns a task with no pipeline yet and
  that no other request owns it: without it a spawn could reset the pc of a pipeline
  that holds the semaphore. `BcastInv` says that a pipeline awaiting a broadcast came
  from a stage. `DataOK` types the tables. `GotoKeepsLock` and `AcquireKeepsLock` carry
  the argument for all actions at once.
* `ImplementsLifecycle`: the pipelines implement `TaskLifecycle`. No guard of
  `update_task` protects a terminal status, so the proof says where each pipeline is
  when it calls it: `PInv` adds that the status of a row fits its pipeline's label
  (`PathInv`), so every stage writes along an edge of the life cycle.
* `RecordsIntact`: kinds agree with labels, ids of saved records are held by one
  pipeline, and a record stays in its table.
* `ActivesExecuted`: a pipeline only ends with a row that is not active, or by a fault.
* `StampsAreTerminal`: `completed_at` is set on the terminal rows and on no others.
* `DesignsAgree`: a task and its design are written in different transactions, so the
  proof carries along what a pipeline knows between its save and its last update
  (`Carries`: its design is completed and, unless a transaction failed, has the quality
  the task will announce), who writes to a saved design (`DesignFrame`: its own pipeline,
  and the recovery of a crash), and that an id is held once. A count closes it: a task
  saves once, so there are never more designs than tasks past their save, and the id of
  a saved design is a row of the table (`CountInv`).
* `RowsLeaveByRetention`: an action property that counts. What a prune takes is terminal,
  old and outside the `RetentionMax` newest terminal rows; `RetentionLeaves` shows that
  those newest ones stay and are newer: the last row that stays (`LastId`) has that many
  from itself upwards. Updates prune after they wrote, so the argument is made for the
  table the prune found (`UpdateRetains`); every other step takes no row (`NoneGone`).

### Thread pool (`SubmitPoolProofs`)

`SlotsBalanced`, `PoolTypeCorrect`, from `PoolAssumption`. `SlotsBalance` counts: slots
taken are the calls between their submission and their release. That the queues hold the
queued and cancelled items is part of the invariant.
`BalanceKept` is the argument about cardinalities (one call enters or leaves the set, and
one slot goes the same way).

### Gates, configuration, stores (`ServicesProofs`)

* Quota gate: `GateTypeCorrect`, `PausesCovered`, `Spaced`. What a sleeper still sleeps
  covers the pause and the gap it computed, unless it was overtaken.
* LLM calls: `CallsTyped`, `VerdictEarned`, `RefusedAlone`, `WindowKept`. A provider's streak of
  403 is at most what its answers to this call account for, and a block proves enough of
  them. `WindowKept` states what is true of the quota window: it lasts unless a transient
  failure was recorded while the circuit was open; `v_window` shows that the "unless" is
  needed.
* Configuration: `AckedExclusionsStay`. The invariant adds that a model acknowledged without
  an older removal under way has none under way now (a removal takes back the
  acknowledgement when it is asked for).
* Stores and shutdown: `EveryRecordOnce` (a queue without duplicates, and five places that
  partition the records made), `NoEventLost` (a worker that was cancelled, or never began,
  holds no batch; when the process is down the queue is empty), `TasksFirst` (no store
  closes before the background tasks were waited for).

### Market data (`MarketProofs`, `HubRefresh`)

* `CacheTiers`, `NeverBack`: while the tiers are not split, Redis has the newest value, and the
  memory the same or an older one that expires no later and that a write under way will
  replace (`TiersAgree`); what a reader that waits for the memory finds there is as new as
  what had been read when it began (`NoneOlder`).
* `MarketQuotes`, `UnmarkedRecent`: bounds on the age of each cached quote and of what each
  call under way holds. The attempt found that the bound first stated for a batch was
  too small (a last-good entry can be stored at the end of its call and read at the end of
  its life by another); the property states the bound that is true.
* `GlobalIndices`, `PricesStay`: an action property of the merge.
* `SourceBreaker`, `BlameHasAnAuthor`, `BlameIsEarned`, `BreakerTyped`, `BackoffStays`. A
  thread may compare with an old clock, so the proof carries how old: at most the longest
  call for each wait it has behind it. `BlameHasAnAuthor` covers every kind of thread: the
  record of a source that works gets worse only by a call that failed before, by the
  fallback the breadth fetcher does by hand, by a caller of `_call_with_cb` that was given
  nothing, for whatever reason, or by a probe the pool refused. `BlameIsEarned` is the
  property `sb_route` checks; its hypotheses (neither callers nor breadth fetchers, a pool
  that refuses nobody) are those of that run, and without them it is false.
* `FactorIC`, `NoTraceLeft`: outside of its replay neither the registry nor the snapshot
  holds a replayed batch. The replay walks from each trading day to the one before, so the
  proof needs that there is one: `LatestIs` shows it by well-foundedness.
* `HubRefresh`, `PoolIsKept`: a refresh that is alone has seen the pool it replaces. The
  proof is in the module itself.

### Analysis (`AnalysisProofs`)

* `ChatSessions`, `RowsPrefix`, `OnTopic`, `ReplyFollows`: the question of a request that
  streams is in its session where the session is known, ids are not given out twice, and
  a copy that is being written is a prefix of its session. The proof attempt found a CASE
  with two arms that can hold at once, which TLC had resolved by their order;
  such CASEs were rewritten with exclusive guards here and in five other modules.
* `StrategyCheck`, `ReportsHonest`: a cached report is of the holdings and the whole yuan of
  the capital of its key, and never one that reads like an excuse.
* `HubCaches`, `LastGoodStays`: the file of the day is covered by the memory while it is
  young, and a reader that fetches alone fetches beside the news it began with.
* `PortfolioBook`, `MoneyStays`: every row that is not overtaken holds what was put into it,
  and a row with a negative number of shares (a file may hold one) has no cost.
  `TradeConserves` is the arithmetic of the average, for a first purchase, a further one
  and a sale. What a weight becomes plays no part: the invariant leaves its type open.
* `PortfolioBook`, `ImportReplaces`: `Replaced` says what is true after k lines (which were
  read, what is shown of each type), `ReplacedStep` that a line keeps it. An import is a
  recursive function on the number of lines; `RunExists` shows that it has values, and
  `UpTo` carries a fact along it. It holds for any `MaxRows` and files of any length.

### Allocation engine and design (`EngineProofs`)

Assumptions: `PoolAssumption` (each instrument has its traits, the anchors are finitely many
instruments, and none is an anchor of two layers), `EngineAssumption` (a market has a scan of
instruments, scores and scales for them; gold is an anchor of the defense, the STAR 50 fund
is an instrument) and `FinishAssumption` (no anchor is a dividend fund). Nothing bounds the
number of instruments, the length of scans or the scores. Of weights nothing is assumed and
nothing is proved: `Typed` leaves them open, so the results hold however they are rounded.

* `EveryRowIsAnInstrument`, `NeverTwoFundsOfAnIndex`, `AnchorsLeaveForCause`, from
  `DesignInv`: pool and rows are typed (`Typed`), the three strategies are finished in
  their turn, each finished one is typed and has one fund per index (`IsPlans`), and so has
  the one in work once `_dedup_same_index` went over it. That last part is needed because
  three passes follow the deduplication before the strategy is finished.
* The proof has a lemma for each pass that says how its result relates to the rows it got:
  the same rows with other weights (`SameRows`), some of its rows (`From`), or all but those
  of some symbols (`Keeps`). One fund per index is kept by the first two, the anchors by the
  third. Passes before the deduplication need only be typed.
* A pass that goes on one row after the other is a recursive function of the number of rows
  it has gone through. The lemmas whose names end in `Run` show, from well-foundedness, that
  it has values and what its steps are, and `UpTo` carries a fact along them. Sorting by
  score is a list for every finite set because each element has a rank (`Ranks`,
  `RankExists`, `SortedIsList`).
* The attempt to prove `AnchorsOutlivePasses` as it stood first, with a month below -40 % as
  the only cause, failed for a good reason: `_consolidate_minnows` (`risk_controls.py`
  246-294) does not spare anchors. It takes a weak market and a plan where nobody can
  pay for the anchor's floor: `check_defense_effectiveness` halves the anchor, which falls
  below 2 %, and the merge removes its row. The scans of the run all had payers, so TLC could
  not meet it. The fourth scan was added for it, and the property says what the code does.

### What is only model-checked

* Liveness (`EveryTaskEnds`, `EveryCallEnds`, `Recovers`, `EveryLlmCallEnds`,
  `RecordsReachTheTable`): fairness and ENABLED are out of the prover's reach.
* `PlanFits`: it compares sums of weights that were each rounded on their own, up to the
  fixed `Slack`. Each sum is a fold, so what a pass does to it is an induction over data,
  and the statement is one about these constants: with other floors and budgets the
  anchors of a layer may reach its budget, and `_enforce_layer_budget_final` then leaves
  the other rows of the layer as they are.
* `PairsStayCapped` does not hold for every constant. What is cut from a pair is spread over
  rows in no pair, a merged family takes the weight of its members, and rounding is
  coarse, so a pair may be lifted again; two anchors are never cut. In the instance TLC
  finds that none of this lifts a pair above the cap.
* The ASSUMEs over bounded inputs. `BudgetsAlwaysClose` among them is complete: it covers
  every profile and regime there is.

## 9. Findings, and claims stated without a run

Each of four runs takes one claim of the repository and finds a behaviour of the code
against it:

* `v_dedup`: two identical requests can both pass the SELECT of `create_task` before either
  inserts, and two executors run (`api-contracts/portfolio/tasks.md:84` promises one).
* `v_slots`: a call that `run_sync` gives up while it is queued never returns its slot
  (`core/async_utils.py:27` says it does).
* `v_window`: a late transient failure turns the 30 minutes of a quota circuit into 5
  (`analysis/llm/gates.py:14`).
* `v_snapshot`: the snapshot a chat stores for follow-ups is a coroutine object that was
  awaited already (`api-contracts/analysis/llm-chat-session.md:68`).

The modules state more claims that the code does not keep, as named operators with the
line that makes them. They have no run of their own: most take one step to refute.

| module | claims |
|---|---|
| `TaskPipeline` | `NoZombie`: a prune that fails after the INSERT leaves a pending task without executor, on which later identical requests are deduplicated (`routers/portfolio.py` 427). `PendingMeansRunning`: a design saved within five minutes before a crash keeps `report_quality = pending` for ever (`report-quality.md` 22) |
| `SourceBreaker` | `NothingEscapes`: the power of two overflows after 1024 cycles (`source_registry.py` 60, 264). `BlameEarned` with callers: an empty result of a source that works is no failure (259), but counts in `_call_with_cb` (`market_service.py` 97) |
| `ConfigStore` | `AckedIsSaved` (`admin.py` 383), `ListedIsPersisted` (`admin.py` 381), `SavedKeyInUse` (`provider.py` 270) |
| `EventStores`, `LifespanShutdown` | `QuerySeesAll`; `UsageSurvivesShutdown` (`token_usage.py` 434) |
| `LLMClient`, `LLMQuotaGate` | `FailedProbeReopens`, `StreamCommits`, `AllForbiddenMeansAll`; `AlwaysSpaced` |
| `DesignFinish` | `InversionsReported` (`strategy_design.py` 736) |
| `PortfolioBook` | `NoOrphanCost` (`crud.py` 124) |
| `HubRefresh`, `HubCaches` | `OneRefresh`: the cooldown is checked before the lock (`market_data_hub.py` 143-145, 179-181); `RowsAreFresh` (`_kline.py` 254), `MomentumKept` (`market_data_hub.py` 659-664) |
| `MarketQuotes` | `StampsAreHonest`: quotes a day old are stamped now (`market_service.py` 1243-1247, 1376-1379); `MarkedForADay`, `SlowFillsIn` (1177-1179, 1242) |
| `GlobalIndices`, `SpotLists`, `CacheTiers` | `AvailableIsNew`, `NewestStays`; `RowsNotHidden`: a failure stores an empty list for an hour over fresh rows; `LastWriteIsRead`, `OnlyExpiredDropped` |
| `SourceChains` | `BatchLacksNothing`, `OldSharesKept` |
| `FactorIC`, `FactorScores` | `RowIsOfItsDay`, `LiveStays`: the loop may save a replayed batch under today's date, and the end of a replay may put an older batch over a newer one; `ReturnIsOfItsDay` (closes are expected newest first, and two of three callers pass them oldest first), `ConfirmedKeepsDirection`, `BiasOfOneUnit`, `BarsAreYoung`, `FailuresAdd` |
| `EtfScanner` | `ListIsRescanned`, `OneLayerEach` |
| `InstrumentSearch`, `Watchlist` | `BestIsFirst`: results are cut to 30 before they are ordered, `EverySymbolShown`; `EstimatesAreMarked` (`market.py` 1104, 1118) |
| `MarketMood` | `CalmIsNeutral`: neutral inputs give 60, `DefaultsAreSaid` (972, 1150, 1184), `ValuationIsOfToday` (248, 264) |
| `MacroSectors`, `NewsFeeds` | `CallerGetsHisLimit` (`sector_fetcher.py` 348-406), `LprIsOfAYearAgo` (`macro_fetcher.py` 597); `LevelsInRange`, `TelegraphOfLimit`, `ThreadsReturn` (`news_fetcher.py` 73) |

True, stated, and in no run because a theorem or a checked property says more:
`EverySleeperPasses`, `OneSpotFetch`, `OutageIsSaid`, `RunningIsReferenced`, `TasksEndBeforeStores`
(`TasksFirst`), `StampedIffTerminal`
(`StampsAreTerminal`), `QuotaWindowUnlessLate` (`WindowKept`).

Two divergences the models show as they are, without a claim: a check whose record could
not be saved is `completed` without the record_id that `api-contracts/portfolio/tasks.md:224`
calls mandatory (`SaveCheckFails`), and a design with a placeholder report is `completed`,
which line 184 defines as report included. Others are in the comments of the operators
they concern: which symbols the source chains ask for (`_tickflow_symbol` cuts "sh" from
SHOP, Sina is asked the Shanghai index for 000001), which requests a finnhub quota does not
count, which holdings an estimated cost basis leaves out.

## 10. Not modelled

* LLM prompts, the formatting and parsing of reports (`analysis/llm/reports.py` and what
  fills prompts): text; each call of a model is one of its outcomes. Agentic runs and MCP
  servers: processes of their own that share no state with the backend.
* Parsing of source answers, and within modelled parts: `market_trends`, support levels,
  the formulas of single factors, the rest of `global_markets_fetcher`, `RedisCacheSync`,
  valuation history, timeline and price channels, the choice of the middle layer.
* Warm-up and refresh jobs (they call what is modelled, on timers), instrument and index
  sync (upserts of fetched lists), calendar and watchdog, readiness probes, scripts,
  frontend. `compose_and_push_report` (`tasks/design_report.py`) has no caller.
* In the pipelines: the contents of plans and reports, texts of messages and errors, reading
  endpoints that change nothing (`GET /tasks`, which prunes, is modelled). Cancellation at
  shutdown is a crash there: none of the handlers catches `CancelledError`.
* `MarketQuotes` lets time pass only at sources; the life of locks and clocks of the loop itself is not modelled.

"partly" in PROJECT.json means that operations of this list belong to the component.
