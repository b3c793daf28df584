---------------------------- MODULE TaskPipeline ----------------------------
(***************************************************************************)
(* The asynchronous task pipelines of the backend: requests that create    *)
(* tasks, the design pipeline (tasks/task_manager.py) and the strategy     *)
(* check pipeline (tasks/strategy_check_worker.py) that run them one at a  *)
(* time under a shared semaphore, the WebSocket broadcast every stage      *)
(* awaits, the rows both write, and the crash and restart of the process   *)
(* (the recovery code of main.py).                                         *)
(*                                                                         *)
(* One action is what a coroutine does between two awaits at which another *)
(* coroutine can change something it looks at.  The second look at its row *)
(* each pipeline takes after it started cannot miss it (RetentionKept), so *)
(* only the first one is an action.                                        *)
(***************************************************************************)
EXTENDS TaskStore, Sequences

CONSTANTS
    Clients,        \* concurrent HTTP requests
    KindsUsed,      \* the task kinds this instance submits
    Sockets,        \* WebSockets of /ws/task-notifications
    MaxFaults,      \* bound on failing database transactions
    MaxCrashes      \* bound on crashes (and shutdowns) of the process

ASSUME PipelineAssumption ==
    /\ KindsUsed \subseteq Kinds
    /\ IsFiniteSet(Sockets)
    /\ MaxFaults \in Nat
    /\ MaxCrashes \in Nat

VARIABLES
    tasks,      \* table tasks
    nextTask,   \* its next id
    designs,    \* table portfolio_designs
    nextDesign,
    nextCheck,  \* next id of table strategy_check_records
    boot,       \* lifespan: "designs" and "tasks" recover, "up" serves, "down"
    creq,       \* where each HTTP request is in create_task
    pc,         \* where the pipeline of each task is
    loc,        \* its local variables design_id / record_id and report_quality
    sem,        \* holder of _design_semaphore
    semQ,       \* its waiters
    conns,      \* TaskNotifyManager._connections
    open,       \* sockets whose endpoint coroutine is alive
    bc,         \* the broadcast in progress
    faults, crashes

db   == <<tasks, nextTask, designs, nextDesign, nextCheck>>
net  == <<conns, open>>
env  == <<faults, crashes, boot>>
lock == <<sem, semQ>>
vars == <<tasks, nextTask, designs, nextDesign, nextCheck, boot, creq, pc, loc,
          sem, semQ, conns, open, bc, faults, crashes>>

NoTask == 0
Quiet  == [from |-> "none", size |-> 0, cur |-> NoStr, seen |-> {}, todo |-> {}, dead |-> {}]
Idle   == [at |-> "idle", kind |-> NoStr, params |-> NoStr, task |-> NoTask]
NoLoc  == [rec |-> NoInt, quality |-> NoStr]
NoDesign == [status |-> "absent", quality |-> NoStr, aged |-> FALSE]

-----------------------------------------------------------------------------
(* The stages of both pipelines that are `await mgr.update_task(...)`, most *)
(* of them followed by `await _notify(...)`: what the update writes (with   *)
(* record_id = the local variable when `links`) and the label that follows. *)

S(status, progress, result, links, notifies, next) ==
    [status |-> status, progress |-> progress, result |-> result,
     links |-> links, notifies |-> notifies, next |-> next]
Progress(p, next) == S(NoStr, p, NoStr, FALSE, TRUE, next)
Links(notifies, next) == S(NoStr, NoInt, NoStr, TRUE, notifies, next)

Stage ==
  [ \* design_pipeline
    begin      |-> S("running", 10, NoStr, FALSE, TRUE, "data"),
    degrade    |-> Progress(15, "retry"),
    static     |-> Progress(20, "quick"),
    reject     |-> S("failed", 0, NoStr, FALSE, TRUE, "exit"),
    allcash    |-> S("failed", 0, NoStr, FALSE, TRUE, "saveEmpty"),
    linkEmpty  |-> Links(TRUE, "exit"),
    quick      |-> S("quick_ready", 60, "quick", FALSE, TRUE, "stage3"),
    stage3     |-> Progress(65, "save"),
    unsaved    |-> S("completed_with_errors", 0, "plain", FALSE, TRUE, "exit"),
    link       |-> Links(FALSE, "saved"),
    saved      |-> Progress(75, "stage5"),
    stage5     |-> Progress(80, "llm"),
    llmFailed  |-> S("completed_with_errors", 100, "partial", TRUE, TRUE, "exit"),
    reported   |-> Progress(95, "finish"),
    finish     |-> S("completed", 100, "quality", TRUE, TRUE, "exit"),
    except     |-> S("failed", 0, NoStr, FALSE, TRUE, "exceptLink"),
    exceptLink |-> Links(FALSE, "saveError"),
    \* strategy_check_pipeline
    cBegin     |-> S("running", 5, NoStr, FALSE, TRUE, "cLoad"),
    cLoad      |-> Progress(10, "cData"),
    cCollected |-> Progress(40, "cAnalysed"),
    cAnalysed  |-> Progress(60, "cSaving"),
    cSaving    |-> Progress(80, "cSave"),
    cLink      |-> Links(FALSE, "cJudge"),
    cEmpty     |-> S("failed", NoInt, NoStr, FALSE, TRUE, "exit"),
    cFinish    |-> S("completed", 100, "report", TRUE, TRUE, "exit"),
    cFail      |-> S("failed", 100, "error", FALSE, TRUE, "exit") ]

StageLabels == DOMAIN Stage

\* The labels of _pipeline_body, which runs under wait_for(..., timeout=150).
CheckBody == {"cBegin", "cLoad", "cData", "cCollected", "cAnalysed", "cSaving",
              "cSave", "cLink", "cJudge", "cEmpty", "cComment", "cFinish"}

\* Labels at which a coroutine is inside `async with _design_semaphore`.
Inside == StageLabels \cup CheckBody \cup
          {"data", "retry", "save", "saveEmpty", "llm", "saveError", "cGuard", "bcast"}
Spawned == {"dSpawned", "cSpawned"}
Queued  == {"dQueued", "cQueued"}
Live    == Inside \cup Spawned \cup Queued
Labels  == Live \cup {"none", "done"}

StageUpd(t, l) ==
    [status   |-> Stage[l].status,
     progress |-> Stage[l].progress,
     result   |-> IF Stage[l].result = "quality" THEN loc[t].quality ELSE Stage[l].result,
     record   |-> IF Stage[l].links THEN loc[t].rec ELSE NoInt]

\* `if design_id:` guards what the exception handlers do after their notify.
After(t, l) ==
    IF l = "except" /\ loc[t].rec = NoInt THEN "exit" ELSE Stage[l].next

\* Where an exception raised at label l is caught; "exit" ends the coroutine.
Handler(l) ==
    IF l \in {"except", "exceptLink", "linkEmpty", "cFail", "cGuard"} THEN "exit"
    ELSE IF l = "cLink" THEN "cJudge"
    ELSE IF l \in CheckBody THEN "cFail"
    ELSE "except"

-----------------------------------------------------------------------------
(* asyncio.Semaphore(1): FIFO, and a release hands over to the first waiter *)

Acquire(t, inside, queued) ==
    IF sem = NoTask /\ semQ = <<>>
    THEN /\ sem' = t
         /\ pc' = [pc EXCEPT ![t] = inside]
         /\ UNCHANGED semQ
    ELSE /\ semQ' = Append(semQ, t)
         /\ pc' = [pc EXCEPT ![t] = queued]
         /\ UNCHANGED sem

Woken(l) == IF l = "dQueued" THEN "begin" ELSE "cGuard"

\* Mutant: the release frees the semaphore but wakes nobody.
ReleaseWakesNobody(t) ==
    sem' = NoTask /\ pc' = [pc EXCEPT ![t] = "done"] /\ UNCHANGED semQ

Release(t) ==
    IF semQ = <<>>
    THEN /\ sem' = NoTask
         /\ pc' = [pc EXCEPT ![t] = "done"]
         /\ UNCHANGED semQ
    ELSE LET u == Head(semQ) IN
         /\ sem' = u
         /\ semQ' = Tail(semQ)
         /\ pc' = [pc EXCEPT ![t] = "done", ![u] = Woken(pc[u])]

Goto(t, l) ==
    IF l = "exit" THEN Release(t)
    ELSE pc' = [pc EXCEPT ![t] = l] /\ UNCHANGED lock

Fault == faults < MaxFaults /\ faults' = faults + 1

-----------------------------------------------------------------------------
(* Requests: create_task and the endpoints that spawn the pipelines.        *)

\* The SELECT; a hit answers with the existing task and changes nothing.
Select(c) ==
    /\ boot = "up" /\ creq[c].at = "idle"
    /\ \E kind \in KindsUsed, par \in Params :
         /\ Duplicates(tasks, kind, par) = {}
         /\ creq' = [creq EXCEPT ![c] = [at |-> "insert", kind |-> kind,
                                         params |-> par, task |-> NoTask]]
    /\ UNCHANGED <<db, pc, loc, lock, net, bc, env>>

\* The INSERT and its commit.
Insert(c) ==
    /\ creq[c].at = "insert" /\ nextTask <= MaxTasks
    /\ tasks' = [tasks EXCEPT ![nextTask] = NewRow(creq[c].kind, creq[c].params)]
    /\ nextTask' = nextTask + 1
    /\ creq' = [creq EXCEPT ![c].at = "prune", ![c].task = nextTask]
    /\ UNCHANGED <<designs, nextDesign, nextCheck, pc, loc, lock, net, bc, env>>

\* prune_tasks, then back in the endpoint: spawn the pipeline, no await between.
PruneAndSpawn(c) ==
    /\ creq[c].at = "prune"
    /\ tasks' = Pruned(tasks)
    /\ pc' = [pc EXCEPT ![creq[c].task] =
                 IF creq[c].kind = "design" THEN "dSpawned" ELSE "cSpawned"]
    /\ creq' = [creq EXCEPT ![c] = Idle]
    /\ UNCHANGED <<nextTask, designs, nextDesign, nextCheck, loc, lock, net, bc, env>>

\* A failing INSERT or prune leaves create_task by an exception: no spawn.
CreateFails(c) ==
    /\ creq[c].at \in {"insert", "prune"} /\ Fault
    /\ creq' = [creq EXCEPT ![c] = Idle]
    /\ UNCHANGED <<db, pc, loc, lock, net, bc, boot, crashes>>

\* GET /tasks prunes before it lists.
ListTasks ==
    /\ boot = "up"
    /\ tasks' = Pruned(tasks)
    /\ UNCHANGED <<nextTask, designs, nextDesign, nextCheck, creq, pc, loc, lock,
                   net, bc, env>>

-----------------------------------------------------------------------------
(* Entering the pipelines.                                                  *)

\* Mutant: a check that starts without the semaphore.
StartCheckUnlocked(t) ==
    /\ pc[t] = "cSpawned"
    /\ pc' = [pc EXCEPT ![t] = "cGuard"]
    /\ UNCHANGED <<db, creq, loc, lock, net, bc, env>>

\* design_pipeline reads its task first, strategy_check_pipeline acquires first.
StartDesign(t) ==
    /\ pc[t] = "dSpawned"
    /\ IF tasks[t].status = "absent"
       THEN pc' = [pc EXCEPT ![t] = "done"] /\ UNCHANGED lock
       ELSE Acquire(t, "begin", "dQueued")
    /\ UNCHANGED <<db, creq, loc, net, bc, env>>

StartDesignFails(t) ==
    /\ pc[t] = "dSpawned" /\ Fault
    /\ pc' = [pc EXCEPT ![t] = "done"]
    /\ UNCHANGED <<db, creq, loc, lock, net, bc, boot, crashes>>

StartCheck(t) ==
    /\ pc[t] = "cSpawned"
    /\ Acquire(t, "cGuard", "cQueued")
    /\ UNCHANGED <<db, creq, loc, net, bc, env>>

GuardCheck(t) ==
    /\ pc[t] = "cGuard"
    /\ Goto(t, IF tasks[t].status = "absent" THEN "exit" ELSE "cBegin")
    /\ UNCHANGED <<db, creq, loc, net, bc, env>>

GuardCheckFails(t) ==
    /\ pc[t] = "cGuard" /\ Fault
    /\ Goto(t, Handler("cGuard"))
    /\ UNCHANGED <<db, creq, loc, net, bc, boot, crashes>>

-----------------------------------------------------------------------------
(* A stage: the update, then the broadcast.  broadcast returns at once when *)
(* nobody is connected; otherwise it picks the first socket and awaits.     *)

StartNotify(t, l) ==
    IF conns = {} \/ ~Stage[l].notifies
    THEN Goto(t, After(t, l)) /\ UNCHANGED bc
    ELSE /\ \E w \in conns :
              bc' = [from |-> l, size |-> Cardinality(conns), cur |-> w,
                     seen |-> {w}, todo |-> conns \ {w}, dead |-> {}]
         /\ Goto(t, "bcast")

Report(t) ==
    /\ pc[t] \in StageLabels
    /\ tasks' = Updated(tasks, t, StageUpd(t, pc[t]))
    /\ StartNotify(t, pc[t])
    /\ UNCHANGED <<nextTask, designs, nextDesign, nextCheck, creq, loc, net, env>>

\* The update of a final stage commits, but the prune after it is cut short.
CommitsOnly(t) ==
    /\ pc[t] \in StageLabels /\ Stage[pc[t]].status \in TerminalStatuses
    /\ tasks' = Written(tasks, t, StageUpd(t, pc[t]))

\* The update transaction fails, or the prune that follows its commit does.
ReportFails(t) ==
    /\ pc[t] \in StageLabels /\ Fault
    /\ UNCHANGED tasks \/ CommitsOnly(t)
    /\ Goto(t, Handler(pc[t]))
    /\ UNCHANGED <<nextTask, designs, nextDesign, nextCheck, creq, loc, net, bc,
                   boot, crashes>>

\* One send ends (delivered, or failed or timed out after 5 s) and the loop
\* over the live set takes another element, or ends and drops the dead ones.
Send(t) ==
    /\ pc[t] = "bcast" /\ Cardinality(conns) = bc.size
    /\ \E dead \in {bc.dead, bc.dead \cup {bc.cur}} :
         \/ /\ \E w \in conns \ bc.seen :
                 bc' = [bc EXCEPT !.cur = w, !.seen = @ \cup {w},
                                  !.todo = @ \ {w}, !.dead = dead]
            /\ UNCHANGED <<pc, lock, conns>>
         \/ /\ bc.todo \cap conns = {}
            /\ conns' = conns \ dead
            /\ bc' = Quiet
            /\ Goto(t, After(t, bc.from))
    /\ UNCHANGED <<db, creq, loc, open, env>>

\* "Set changed size during iteration": the loop has no guard against it.
SendRaises(t) ==
    /\ pc[t] = "bcast" /\ Cardinality(conns) # bc.size
    /\ bc' = Quiet
    /\ Goto(t, Handler(bc.from))
    /\ UNCHANGED <<db, creq, loc, net, env>>

-----------------------------------------------------------------------------
(* design_pipeline between its stages.                                      *)

\* generate_enhanced_design under wait_for, and the checks of its result: a
\* usable plan, an error or no strategy, only cash, an exception, a timeout.
Generate(t) ==
    /\ pc[t] \in {"data", "retry"}
    /\ \E l \in {"quick", "reject", "allcash", "except",
                 IF pc[t] = "data" THEN "degrade" ELSE "static"} : Goto(t, l)
    /\ UNCHANGED <<db, creq, loc, net, bc, env>>

\* INSERT INTO portfolio_designs, committed.
InsertDesign(t) ==
    /\ designs' = [designs EXCEPT ![nextDesign] =
           IF pc[t] = "save"
           THEN [status |-> "completed", quality |-> "pending", aged |-> FALSE]
           ELSE [status |-> "failed", quality |-> "empty", aged |-> FALSE]]
    /\ nextDesign' = nextDesign + 1

\* Mutant: the id is read before the row is refreshed.
SaveDesignStale(t) ==
    /\ pc[t] \in {"save", "saveEmpty"}
    /\ InsertDesign(t)
    /\ loc' = [loc EXCEPT ![t].rec = nextDesign - 1]
    /\ Goto(t, IF pc[t] = "save" THEN "link" ELSE "linkEmpty")
    /\ UNCHANGED <<tasks, nextTask, nextCheck, creq, net, bc, env>>

SaveDesign(t) ==
    /\ pc[t] \in {"save", "saveEmpty"}
    /\ InsertDesign(t)
    /\ loc' = [loc EXCEPT ![t].rec = nextDesign]
    /\ Goto(t, IF pc[t] = "save" THEN "link" ELSE "linkEmpty")
    /\ UNCHANGED <<tasks, nextTask, nextCheck, creq, net, bc, env>>

\* Mutant: a failing design save is taken for a completed one.
SaveDesignFailsUnnoticed(t) ==
    /\ pc[t] \in {"save", "saveEmpty"} /\ Fault
    /\ Goto(t, IF pc[t] = "save" THEN "saved" ELSE "exit")
    /\ UNCHANGED <<db, creq, loc, net, bc, boot, crashes>>

\* The transaction fails, or the refresh that reads the new id after its commit.
SaveDesignFails(t) ==
    /\ pc[t] \in {"save", "saveEmpty"} /\ Fault
    /\ UNCHANGED <<designs, nextDesign>> \/ InsertDesign(t)
    /\ Goto(t, IF pc[t] = "save" THEN "unsaved" ELSE "exit")
    /\ UNCHANGED <<tasks, nextTask, nextCheck, creq, loc, net, bc, boot, crashes>>

\* generate_design_report under wait_for: a report, an empty or placeholder
\* text, or an exception.  The update of the design row that follows is inside
\* a try of its own, so a failing one is only logged.
WriteReport(t) ==
    /\ pc[t] = "llm"
    /\ \E outcome \in {"report", "placeholder", "raised"} :
         LET quality == IF outcome = "report" THEN "full" ELSE "partial" IN
         /\ \/ /\ designs' = [designs EXCEPT ![loc[t].rec].quality = quality]
               /\ UNCHANGED faults
            \/ Fault /\ UNCHANGED designs
         /\ loc' = [loc EXCEPT ![t].quality = quality]
         /\ Goto(t, IF outcome = "raised" THEN "llmFailed" ELSE "reported")
    /\ UNCHANGED <<tasks, nextTask, nextDesign, nextCheck, creq, net, bc, boot, crashes>>

\* _save_design_error.
SaveError(t) ==
    /\ pc[t] = "saveError"
    /\ \/ /\ designs' = [designs EXCEPT ![loc[t].rec].status = "failed"]
          /\ UNCHANGED faults
       \/ Fault /\ UNCHANGED designs
    /\ Goto(t, "exit")
    /\ UNCHANGED <<tasks, nextTask, nextDesign, nextCheck, creq, loc, net, bc, boot, crashes>>

-----------------------------------------------------------------------------
(* strategy_check_pipeline between its stages.                              *)

CollectCheck(t) ==
    /\ pc[t] = "cData"
    /\ \E l \in {"cCollected", "cFail"} : Goto(t, l)
    /\ UNCHANGED <<db, creq, loc, net, bc, env>>

\* Mutant: the id is read before the row is refreshed.
SaveCheckStale(t) ==
    /\ pc[t] = "cSave"
    /\ nextCheck' = nextCheck + 1
    /\ loc' = [loc EXCEPT ![t].rec = nextCheck - 1]
    /\ Goto(t, "cLink")
    /\ UNCHANGED <<tasks, nextTask, designs, nextDesign, creq, net, bc, env>>

SaveCheck(t) ==
    /\ pc[t] = "cSave"
    /\ nextCheck' = nextCheck + 1
    /\ loc' = [loc EXCEPT ![t].rec = nextCheck]
    /\ Goto(t, "cLink")
    /\ UNCHANGED <<tasks, nextTask, designs, nextDesign, creq, net, bc, env>>

SaveCheckFails(t) ==
    /\ pc[t] = "cSave" /\ Fault
    /\ nextCheck' \in {nextCheck, nextCheck + 1}
    /\ Goto(t, Handler("cLink"))
    /\ UNCHANGED <<tasks, nextTask, designs, nextDesign, creq, loc, net, bc, boot, crashes>>

\* An empty report fails the task; otherwise the optional LLM comment follows.
JudgeCheck(t) ==
    /\ \/ pc[t] = "cJudge" /\ \E l \in {"cEmpty", "cComment"} : Goto(t, l)
       \/ pc[t] = "cComment" /\ Goto(t, "cFinish")
    /\ UNCHANGED <<db, creq, loc, net, bc, env>>

\* Mutant: the timeout is swallowed, the task keeps its status.
CheckTimeoutSwallowed(t) ==
    /\ \/ pc[t] \in CheckBody /\ UNCHANGED bc
       \/ pc[t] = "bcast" /\ bc.from \in CheckBody /\ bc' = Quiet
    /\ Goto(t, "exit")
    /\ UNCHANGED <<db, creq, loc, net, env>>

\* wait_for(_pipeline_body, 150) expires at whatever the body awaits.
CheckTimeout(t) ==
    /\ \/ pc[t] \in CheckBody /\ UNCHANGED <<tasks, bc>>
       \/ pc[t] \in CheckBody /\ CommitsOnly(t) /\ UNCHANGED bc
       \/ pc[t] = "bcast" /\ bc.from \in CheckBody /\ bc' = Quiet /\ UNCHANGED tasks
    /\ Goto(t, "cFail")
    /\ UNCHANGED <<nextTask, designs, nextDesign, nextCheck, creq, loc, net, env>>

-----------------------------------------------------------------------------
(* Sockets, time, crash and restart.                                        *)

Connect(w) ==
    /\ boot = "up" /\ w \notin open
    /\ open' = open \cup {w}
    /\ conns' = conns \cup {w}
    /\ UNCHANGED <<db, creq, pc, loc, lock, bc, env>>

\* Mutant: the endpoint ends without unregistering its socket.
DisconnectUnnoticed(w) ==
    /\ w \in open
    /\ open' = open \ {w}
    /\ UNCHANGED <<db, creq, pc, loc, lock, conns, bc, env>>

Disconnect(w) ==
    /\ w \in open
    /\ open' = open \ {w}
    /\ conns' = conns \ {w}
    /\ UNCHANGED <<db, creq, pc, loc, lock, bc, env>>

\* The five minutes after which recovery treats a pending report as lost.
DesignsAge ==
    /\ designs' = [d \in TaskIds |->
           IF designs[d].status = "absent" THEN designs[d]
           ELSE [designs[d] EXCEPT !.aged = TRUE]]
    /\ UNCHANGED <<tasks, nextTask, nextDesign, nextCheck, creq, pc, loc, lock, net, bc, env>>

\* The retention window, days long, only passes while nothing runs.
TasksAge ==
    /\ \A t \in TaskIds : pc[t] \notin Live
    /\ \A c \in Clients : creq[c].at = "idle"
    /\ tasks' = [t \in TaskIds |->
           IF tasks[t].status = "absent" THEN tasks[t] ELSE [tasks[t] EXCEPT !.old = TRUE]]
    /\ UNCHANGED <<nextTask, designs, nextDesign, nextCheck, creq, pc, loc, lock, net, bc, env>>

\* Everything in memory is gone; a shutdown cancels the pipelines to the same
\* effect, no handler of theirs catches CancelledError.
Crash ==
    /\ boot # "down" /\ crashes < MaxCrashes
    /\ crashes' = crashes + 1
    /\ boot' = "down"
    /\ creq' = [c \in Clients |-> Idle]
    /\ pc' = [t \in TaskIds |-> IF pc[t] = "none" THEN "none" ELSE "done"]
    /\ loc' = [t \in TaskIds |-> NoLoc]
    /\ sem' = NoTask /\ semQ' = <<>>
    /\ conns' = {} /\ open' = {}
    /\ bc' = Quiet
    /\ UNCHANGED <<db, faults>>

Start ==
    /\ boot = "down"
    /\ boot' = "designs"
    /\ UNCHANGED <<db, creq, pc, loc, lock, net, bc, faults, crashes>>

\* _recover_stale_designs; its failure is logged and startup goes on.
RecoverDesigns ==
    /\ boot = "designs"
    /\ boot' = "tasks"
    /\ \/ /\ designs' = [d \in TaskIds |->
                IF designs[d].quality = "pending" /\ designs[d].aged
                THEN [designs[d] EXCEPT !.quality = "fallback"] ELSE designs[d]]
          /\ UNCHANGED faults
       \/ Fault /\ UNCHANGED designs
    /\ UNCHANGED <<tasks, nextTask, nextDesign, nextCheck, creq, pc, loc, lock, net, bc, crashes>>

\* Mutants: the recovery overlooks tasks that never ran, or forgets completed_at.
Recovery(statuses, row(_)) ==
    /\ boot = "tasks"
    /\ boot' = "up"
    /\ tasks' = [t \in TaskIds |->
           IF tasks[t].status \in statuses THEN row(tasks[t]) ELSE tasks[t]]
    /\ UNCHANGED <<nextTask, designs, nextDesign, nextCheck, creq, pc, loc, lock, net, bc,
                   faults, crashes>>

RecoverRunning ==
    Recovery({"running"}, LAMBDA r : [r EXCEPT !.status = "failed", !.stamped = TRUE])
RecoverUnstamped == Recovery(ActiveStatuses, LAMBDA r : [r EXCEPT !.status = "failed"])

\* _cleanup_stuck_tasks, likewise.
RecoverTasks ==
    /\ boot = "tasks"
    /\ boot' = "up"
    /\ \/ /\ tasks' = [t \in TaskIds |->
                IF tasks[t].status \in ActiveStatuses
                THEN [tasks[t] EXCEPT !.status = "failed", !.stamped = TRUE] ELSE tasks[t]]
          /\ UNCHANGED faults
       \/ Fault /\ UNCHANGED tasks
    /\ UNCHANGED <<nextTask, designs, nextDesign, nextCheck, creq, pc, loc, lock, net, bc, crashes>>

-----------------------------------------------------------------------------
Init ==
    /\ tasks = [t \in TaskIds |-> NoRow] /\ nextTask = 1
    /\ designs = [d \in TaskIds |-> NoDesign] /\ nextDesign = 1
    /\ nextCheck = 1
    /\ boot = "down"
    /\ creq = [c \in Clients |-> Idle]
    /\ pc = [t \in TaskIds |-> "none"]
    /\ loc = [t \in TaskIds |-> NoLoc]
    /\ sem = NoTask /\ semQ = <<>>
    /\ conns = {} /\ open = {}
    /\ bc = Quiet
    /\ faults = 0 /\ crashes = 0

Request(c) == Select(c) \/ Insert(c) \/ PruneAndSpawn(c) \/ CreateFails(c)

Design(t) ==
    \/ StartDesign(t) \/ StartDesignFails(t) \/ Generate(t)
    \/ SaveDesign(t) \/ SaveDesignFails(t) \/ WriteReport(t) \/ SaveError(t)

Check(t) ==
    \/ StartCheck(t) \/ GuardCheck(t) \/ GuardCheckFails(t) \/ CollectCheck(t)
    \/ SaveCheck(t) \/ SaveCheckFails(t) \/ JudgeCheck(t) \/ CheckTimeout(t)

Pipeline(t) == Design(t) \/ Check(t) \/ Report(t) \/ ReportFails(t) \/ Send(t) \/ SendRaises(t)

Lifespan == Start \/ RecoverDesigns \/ RecoverTasks

Next ==
    \/ \E c \in Clients : Request(c)
    \/ \E t \in TaskIds : Pipeline(t)
    \/ ListTasks \/ DesignsAge \/ TasksAge \/ Crash \/ Lifespan
    \/ \E w \in Sockets : Connect(w) \/ Disconnect(w)

Spec == Init /\ [][Next]_vars

\* The event loop runs every ready coroutine, every await of a pipeline is
\* bounded by a timeout, and the process manager restarts the backend.
Fairness ==
    /\ \A t \in TaskIds : WF_vars(Pipeline(t))
    /\ \A c \in Clients : WF_vars(Insert(c) \/ PruneAndSpawn(c) \/ CreateFails(c))
    /\ WF_vars(Lifespan)

FairSpec == Spec /\ Fairness

-----------------------------------------------------------------------------
RowType == [kind : Kinds \cup {NoStr}, params : Params \cup {NoStr},
            status : ActiveStatuses \cup TerminalStatuses \cup {"absent"},
            progress : 0..100, result : Results,
            record : Nat \cup {NoInt}, stamped : BOOLEAN, old : BOOLEAN]

DesignType == [status : {"absent", "completed", "failed"},
               quality : {NoStr, "pending", "empty", "full", "partial", "fallback"},
               aged : BOOLEAN]

RequestType == [at : {"idle", "insert", "prune"}, kind : Kinds \cup {NoStr},
                params : Params \cup {NoStr}, task : TaskIds \cup {NoTask}]

LocalType == [rec : Nat \cup {NoInt}, quality : {NoStr, "full", "partial"}]

\* Every variable has the type the code gives it, and only an open socket is
\* registered for notifications (routers/ws.py unregisters in a finally).
TypeOK ==
    /\ tasks \in [TaskIds -> RowType] /\ nextTask \in 1..(MaxTasks + 1)
    /\ designs \in [TaskIds -> DesignType] /\ nextDesign \in Nat \ {0}
    /\ nextCheck \in Nat \ {0}
    /\ boot \in {"down", "designs", "tasks", "up"}
    /\ creq \in [Clients -> RequestType]
    /\ pc \in [TaskIds -> Labels]
    /\ loc \in [TaskIds -> LocalType]
    /\ sem \in TaskIds \cup {NoTask} /\ semQ \in Seq(TaskIds)
    /\ conns \subseteq open /\ open \subseteq Sockets
    /\ bc.from \in StageLabels \cup {"none"}
    /\ faults \in 0..MaxFaults /\ crashes \in 0..MaxCrashes

-----------------------------------------------------------------------------
(* Safety.                                                                  *)

\* One pipeline at a time: the holder of _design_semaphore, and nobody else, is
\* between `async with` and its end, through exceptions, timeouts and crashes.
Serialized == \A t \in TaskIds : (pc[t] \in Inside) <=> (sem = t)

\* No waiter is lost: the queue holds exactly the suspended pipelines, each
\* once, and the semaphore is never free while one of them waits.
NoLostWaiter ==
    /\ \A t \in TaskIds : (pc[t] \in Queued) <=> \E i \in 1..Len(semQ) : semQ[i] = t
    /\ \A i, j \in 1..Len(semQ) : semQ[i] = semQ[j] => i = j
    /\ sem = NoTask => semQ = <<>>

\* completed_at is set exactly on the terminal rows, whichever of the pipelines,
\* their handlers or the recovery at startup ended the task.
StampedIffTerminal ==
    \A t \in TaskIds : tasks[t].stamped <=> tasks[t].status \in TerminalStatuses

\* A record_id names a row of the table of the task's kind, and no two tasks of
\* a kind name the same row.
RecordIntegrity ==
    \A t \in Present(tasks) : tasks[t].record # NoInt =>
        /\ tasks[t].record \in 1..((IF tasks[t].kind = "design"
                                     THEN nextDesign ELSE nextCheck) - 1)
        /\ \A u \in Present(tasks) \ {t} :
              tasks[u].kind = tasks[t].kind => tasks[u].record # tasks[t].record

\* A design task that ended with a plan agrees with its design: either the save
\* failed and there is no record, or the record is a completed design whose
\* report_quality is the one the task announces (unless a transaction failed).
TaskAgreesWithDesign ==
    \A t \in TaskIds :
        tasks[t].kind = "design" /\ tasks[t].status \in {"completed", "completed_with_errors"} =>
            \/ tasks[t].result = "plain" /\ tasks[t].record = NoInt
            \/ /\ tasks[t].record # NoInt
               /\ designs[tasks[t].record].status = "completed"
               /\ faults = 0 => designs[tasks[t].record].quality = tasks[t].result

HasExecutor(t) ==
    \/ pc[t] \in Live
    \/ \E c \in Clients : creq[c].at = "prune" /\ creq[c].task = t

\* What a deduplicated request relies on (routers/portfolio.py 427): while the
\* server serves, an active task has a pipeline, or a request about to spawn it,
\* unless a transaction failed.  Hence no zombie survives a restart.
ActiveHasExecutor ==
    boot = "up" /\ faults = 0 => \A t \in Actives(tasks) : HasExecutor(t)

-----------------------------------------------------------------------------
(* Action properties and liveness.                                          *)

\* A row leaves the table only by retention: terminal, past the window, with at
\* least RetentionMax newer terminal rows that stay.
RetentionKept ==
    [][\A t \in Present(tasks) \ Present(tasks') :
          /\ tasks[t].status \in TerminalStatuses /\ tasks[t].old
          /\ Cardinality({u \in Terminals(tasks') : u > t}) >= RetentionMax]_vars

\* Every submitted task ends: through the queue for the semaphore, every timeout
\* and exception, dead sockets and restarts.
EveryTaskEnds ==
    \A t \in TaskIds :
        (tasks[t].status \in ActiveStatuses) ~> (tasks[t].status \notin ActiveStatuses)

-----------------------------------------------------------------------------
(* Refinement: an id that was not handed out yet is unused.                 *)

Lifecycle == INSTANCE TaskLifecycle
    WITH Ids <- TaskIds, NoRecord <- NoInt,
         status <- [t \in TaskIds |-> IF t >= nextTask THEN "unused" ELSE tasks[t].status],
         record <- [t \in TaskIds |-> tasks[t].record]

\* The pipelines implement the task life cycle: a status moves only along the
\* edges of the API contract, failed is final, and a record_id never changes.
LifecycleSpec == Lifecycle!Spec
-----------------------------------------------------------------------------
(* What documents and comments of the repository claim; the runs that check *)
(* these find the code's counterexamples.                                   *)

\* api-contracts/portfolio/tasks.md 84: repeated identical clicks produce one
\* executor, i.e. no two active tasks of the same type and parameters.
OneExecutorPerRequest ==
    \A t, u \in Actives(tasks) :
        tasks[t].kind = tasks[u].kind /\ tasks[t].params = tasks[u].params => t = u

\* api-contracts/portfolio/report-quality.md 22: report_quality `pending` means
\* that the pipeline is still running.
PendingMeansRunning ==
    boot = "up" => \A d \in TaskIds : designs[d].quality = "pending" =>
                       \E t \in TaskIds : pc[t] \in Live /\ loc[t].rec = d

\* routers/portfolio.py 427: a deduplicated request spawns nothing since the
\* existing executor still runs, i.e. no active task is a zombie without one.
NoZombie == boot = "up" => \A t \in Actives(tasks) : HasExecutor(t)
=============================================================================
