------------------------- MODULE TaskPipelineProofs -------------------------
(***************************************************************************)
(* Safety of the task pipelines, for any number of tasks, requests,        *)
(* sockets, failing transactions and crashes.  The argument: IInv holds    *)
(* initially (InitIInv) and every step keeps it (NextStep), which splits   *)
(* along Next into RequestStep, DesignStep, CheckStep, ReportStep,         *)
(* SendStep, EnvStep and CrashStep.  All steps inside the semaphore share  *)
(* GotoKeepsLock: they end in Goto, which stays inside or hands over.      *)
(***************************************************************************)
EXTENDS TaskPipeline, TLAPS

\* The labels of the stages, as a set: the keys of the table Stage.
LEMMA StageLabelsDef ==
    StageLabels = {"begin", "degrade", "static", "reject", "allcash", "linkEmpty", "quick",
                   "stage3", "unsaved", "link", "saved", "stage5", "llmFailed", "reported",
                   "finish", "except", "exceptLink", "cBegin", "cLoad", "cCollected",
                   "cAnalysed", "cSaving", "cLink", "cEmpty", "cFinish", "cFail"}
  BY DEF StageLabels, Stage

\* Every stage is followed by a step inside the semaphore or by its release.
LEMMA StageNext ==
    \A l \in StageLabels : Stage[l].next \in Inside \cup {"exit"} /\ Stage[l].next # "bcast"
  BY StageLabelsDef DEF Stage, S, Progress, Links, Inside, CheckBody

\* What a stage writes has the type of the columns update_task merges it into.
LEMMA StageType ==
    ASSUME NEW l \in StageLabels
    PROVE  /\ Stage[l].status \in ActiveStatuses \cup TerminalStatuses \cup {NoStr}
           /\ Stage[l].progress \in 0..100 \cup {NoInt}
           /\ Stage[l].result \in Results \cup {"quality"}
<1>1. Stage[l].status \in ActiveStatuses \cup TerminalStatuses \cup {NoStr}
  BY StageLabelsDef DEF Stage, S, Progress, Links, ActiveStatuses, TerminalStatuses
<1>2. Stage[l].progress \in 0..100 \cup {NoInt}
  BY StageLabelsDef DEF Stage, S, Progress, Links, NoInt
<1>3. Stage[l].result \in Results \cup {"quality"}
  BY StageLabelsDef DEF Stage, S, Progress, Links, Results
<1> QED BY <1>1, <1>2, <1>3

(***************************************************************************)
(* The semaphore: who holds it, who waits for it, and where they are.      *)
(***************************************************************************)
LockInv ==
    /\ pc \in [TaskIds -> Labels]
    /\ sem \in TaskIds \cup {NoTask}
    /\ semQ \in Seq(TaskIds)
    /\ Serialized
    /\ NoLostWaiter

\* How the groups of labels relate: before, waiting for, and inside the semaphore.
LEMMA LabelFacts ==
    /\ "exit" \notin Labels /\ "none" \notin Inside \cup Queued /\ "done" \notin Inside \cup Queued
    /\ Inside \cap Queued = {} /\ Inside \cap Spawned = {} /\ Queued \cap Spawned = {}
    /\ StageLabels \subseteq Inside /\ CheckBody \subseteq Inside /\ Inside \subseteq Labels
    /\ {"data", "retry", "save", "saveEmpty", "llm", "saveError", "cGuard", "bcast"} \subseteq Inside
    /\ "bcast" \notin StageLabels \cup CheckBody
    /\ Labels = Inside \cup Queued \cup Spawned \cup {"none", "done"}
  BY StageLabelsDef DEF Inside, Queued, Spawned, Live, Labels, CheckBody

\* An exception inside the semaphore is handled inside it, or releases it.
LEMMA HandlerFacts ==
    ASSUME NEW l \in Inside
    PROVE  Handler(l) \in {"exit", "cJudge", "cFail", "except"} /\ Handler(l) # "bcast"
  BY DEF Handler

\* A step of the pipeline inside the semaphore keeps it consistent; nobody but
\* that pipeline and the waiter it wakes moves.
LEMMA GotoKeepsLock ==
    ASSUME NEW t \in TaskIds, NEW l \in Inside \cup {"exit"},
           LockInv, pc[t] \in Inside, Goto(t, l)
    PROVE  /\ LockInv'
           /\ \A u \in TaskIds : pc[u] = "none" => pc'[u] = "none"
           /\ \A u \in TaskIds : pc'[u] = "bcast" => u = t /\ l = "bcast"
<1> USE LabelFacts
<1>1. CASE l # "exit"
  <2>1. pc' = [pc EXCEPT ![t] = l] /\ sem' = sem /\ semQ' = semQ /\ l \in Inside
    BY <1>1 DEF Goto, lock
  <2>2. \A u \in TaskIds : u # t => pc[u] # "bcast"
    BY DEF LockInv, Serialized, NoTask
  <2>3. pc' \in [TaskIds -> Labels] /\ sem' \in TaskIds \cup {NoTask} /\ semQ' \in Seq(TaskIds)
    BY <2>1 DEF LockInv
  <2>4. pc'[t] = l /\ \A u \in TaskIds : u # t => pc'[u] = pc[u]
    BY <2>1 DEF LockInv
  <2>5. pc[t] \notin Queued /\ l \notin Queued /\ pc[t] # "none"
    BY <2>1
  <2>6. Serialized'
    BY <2>1, <2>4 DEF LockInv, Serialized
  <2>7. NoLostWaiter'
    BY <2>1, <2>4, <2>5 DEF LockInv, NoLostWaiter
  <2> QED BY <2>2, <2>3, <2>4, <2>5, <2>6, <2>7 DEF LockInv
<1>2. CASE l = "exit" /\ semQ = <<>>
  <2>1. sem' = NoTask /\ pc' = [pc EXCEPT ![t] = "done"] /\ semQ' = semQ
    BY <1>2 DEF Goto, Release
  <2>2. pc' \in [TaskIds -> Labels] /\ sem' \in TaskIds \cup {NoTask} /\ semQ' \in Seq(TaskIds)
    BY <2>1 DEF LockInv
  <2>3. pc'[t] = "done" /\ \A u \in TaskIds : u # t => pc'[u] = pc[u]
    BY <2>1 DEF LockInv
  <2>4. sem = t /\ \A u \in TaskIds : u # t => pc[u] \notin Inside
    BY DEF LockInv, Serialized
  <2>5. Serialized'
    BY <2>1, <2>3, <2>4 DEF Serialized, NoTask, TaskIds
  <2>6. \A u \in TaskIds : pc[u] \notin Queued
    BY <1>2 DEF LockInv, NoLostWaiter
  <2>7. NoLostWaiter'
    BY <1>2, <2>1, <2>3, <2>6 DEF NoLostWaiter
  <2> QED BY <2>2, <2>3, <2>4, <2>5, <2>7 DEF LockInv
<1>3. CASE l = "exit" /\ semQ # <<>>
  <2> DEFINE u == Head(semQ)
  <2>1. /\ sem' = u /\ semQ' = Tail(semQ)
        /\ pc' = [pc EXCEPT ![t] = "done", ![u] = Woken(pc[u])]
    BY <1>3 DEF Goto, Release
  <2>2. u \in TaskIds /\ u = semQ[1] /\ pc[u] \in Queued /\ u # t /\ Len(semQ) >= 1
    BY <1>3 DEF LockInv, NoLostWaiter
  <2>3. Woken(pc[u]) \in {"begin", "cGuard"} /\ Woken(pc[u]) \in Inside
    BY StageLabelsDef DEF Woken
  <2> HIDE DEF u
  <2>4. pc' \in [TaskIds -> Labels] /\ pc'[t] = "done" /\ pc'[u] = Woken(pc[u])
    BY <2>1, <2>2, <2>3 DEF LockInv
  <2>5. \A v \in TaskIds : v # t /\ v # u => pc'[v] = pc[v]
    BY <2>1, <2>2, <2>3 DEF LockInv
  <2>6. semQ' \in Seq(TaskIds) /\ Len(semQ') = Len(semQ) - 1
        /\ \A i \in 1..Len(semQ') : semQ'[i] = semQ[i + 1]
    BY <1>3, <2>1 DEF LockInv
  <2>7. Serialized'
    <3>1. \A v \in TaskIds : v # t => pc[v] \notin Inside
      BY DEF LockInv, Serialized
    <3> QED BY <3>1, <2>1, <2>2, <2>3, <2>4, <2>5 DEF Serialized
  <2>8. NoLostWaiter'
    <3>1. ASSUME NEW v \in TaskIds
          PROVE  (pc'[v] \in Queued) <=> \E i \in 1..Len(semQ') : semQ'[i] = v
      <4>1. CASE v = t
        <5>1. \A i \in 1..Len(semQ) : semQ[i] # t
          BY DEF LockInv, NoLostWaiter
        <5>2. \A i \in 1..Len(semQ') : i + 1 \in 1..Len(semQ)
          BY <2>6 DEF LockInv
        <5> QED BY <4>1, <2>4, <2>6, <5>1, <5>2
      <4>2. CASE v = u
        BY <4>2, <2>2, <2>3, <2>4, <2>6 DEF LockInv, NoLostWaiter
      <4>3. CASE v # t /\ v # u
        <5>1. (pc[v] \in Queued) <=> \E i \in 1..Len(semQ) : semQ[i] = v
          BY DEF LockInv, NoLostWaiter
        <5>2. ASSUME NEW i \in 1..Len(semQ), semQ[i] = v
              PROVE  i - 1 \in 1..Len(semQ') /\ semQ'[i - 1] = v
          BY <4>3, <2>2, <2>6, <5>2 DEF LockInv
        <5> QED BY <4>3, <2>5, <2>6, <5>1, <5>2
      <4> QED BY <4>1, <4>2, <4>3
    <3>2. \A i, j \in 1..Len(semQ') : semQ'[i] = semQ'[j] => i = j
      BY <2>6 DEF LockInv, NoLostWaiter
    <3>3. sem' # NoTask
      BY <2>1, <2>2 DEF NoTask, TaskIds
    <3> QED BY <3>1, <3>2, <3>3 DEF NoLostWaiter
  <2>9. \A v \in TaskIds : pc[v] = "none" => pc'[v] = "none"
    <3>1. pc[t] # "none" /\ pc[u] # "none"
      BY <2>2
    <3> QED BY <2>5, <3>1
  <2>10. \A v \in TaskIds : pc'[v] = "bcast" => v = t /\ l = "bcast"
    BY <2>3, <2>4, <2>5 DEF LockInv, Serialized
  <2> QED BY <2>1, <2>2, <2>4, <2>6, <2>7, <2>8, <2>9, <2>10 DEF LockInv
<1> QED BY <1>1, <1>2, <1>3

\* Taking the semaphore, or queueing for it, keeps it consistent too.
LEMMA AcquireKeepsLock ==
    ASSUME NEW t \in TaskIds, LockInv, pc[t] \in Spawned,
           NEW in \in Inside \ {"bcast"}, NEW q \in Queued, Acquire(t, in, q)
    PROVE  /\ LockInv'
           /\ \A u \in TaskIds : pc[u] = "none" => pc'[u] = "none"
           /\ \A u \in TaskIds : pc'[u] = "bcast" => pc[u] = "bcast"
<1> USE LabelFacts
<1>1. pc[t] \notin Inside /\ pc[t] \notin Queued /\ pc[t] # "none" /\ sem # t
  <2>1. pc[t] \notin Inside /\ pc[t] \notin Queued
    OBVIOUS
  <2>2. pc[t] # "none"
    BY DEF Spawned
  <2> QED BY <2>1, <2>2 DEF LockInv, Serialized
<1>2. CASE sem = NoTask /\ semQ = <<>>
  <2>1. sem' = t /\ pc' = [pc EXCEPT ![t] = in] /\ semQ' = semQ
    BY <1>2 DEF Acquire
  <2>2. pc' \in [TaskIds -> Labels] /\ pc'[t] = in
        /\ \A u \in TaskIds : u # t => pc'[u] = pc[u]
    BY <2>1 DEF LockInv
  <2>3. \A u \in TaskIds : pc[u] \notin Inside
    BY <1>2 DEF LockInv, Serialized, NoTask, TaskIds
  <2>4. Serialized'
    BY <2>1, <2>2, <2>3 DEF Serialized
  <2>5. NoLostWaiter'
    BY <1>1, <1>2, <2>1, <2>2 DEF LockInv, NoLostWaiter, NoTask, TaskIds
  <2> QED BY <1>1, <2>1, <2>2, <2>4, <2>5 DEF LockInv
<1>3. CASE ~(sem = NoTask /\ semQ = <<>>)
  <2>1. sem' = sem /\ pc' = [pc EXCEPT ![t] = q] /\ semQ' = Append(semQ, t) /\ sem # NoTask
    BY <1>3 DEF Acquire, LockInv, NoLostWaiter
  <2>2. pc' \in [TaskIds -> Labels] /\ pc'[t] = q
        /\ \A u \in TaskIds : u # t => pc'[u] = pc[u]
    BY <2>1 DEF LockInv
  <2>3. Serialized'
    BY <1>1, <2>1, <2>2 DEF LockInv, Serialized
  <2>4. /\ semQ' \in Seq(TaskIds) /\ Len(semQ') = Len(semQ) + 1 /\ Len(semQ) \in Nat
        /\ \A i \in 1..Len(semQ) : semQ'[i] = semQ[i]
        /\ semQ'[Len(semQ')] = t
    BY <2>1 DEF LockInv
  <2>5. \A i \in 1..Len(semQ) : semQ[i] # t
    BY <1>1 DEF LockInv, NoLostWaiter
  <2>6. NoLostWaiter'
    <3>1. ASSUME NEW v \in TaskIds
          PROVE  (pc'[v] \in Queued) <=> \E i \in 1..Len(semQ') : semQ'[i] = v
      <4>1. CASE v = t
        BY <4>1, <2>2, <2>4
      <4>2. CASE v # t
        <5>1. (pc[v] \in Queued) <=> \E i \in 1..Len(semQ) : semQ[i] = v
          BY DEF LockInv, NoLostWaiter
        <5> QED BY <4>2, <2>2, <2>4, <5>1
      <4> QED BY <4>1, <4>2
    <3>2. \A i, j \in 1..Len(semQ') : semQ'[i] = semQ'[j] => i = j
      BY <2>4, <2>5 DEF LockInv, NoLostWaiter
    <3> QED BY <2>1, <3>1, <3>2 DEF NoLostWaiter
  <2> QED BY <1>1, <2>1, <2>2, <2>3, <2>4, <2>6 DEF LockInv
<1> QED BY <1>2, <1>3

(***************************************************************************)
(* The inductive invariant: types of the data, the semaphore, a request    *)
(* that is about to spawn owns a task nobody runs, and a broadcast belongs *)
(* to a stage.                                                             *)
(***************************************************************************)
DataOK ==
    /\ tasks \in [TaskIds -> RowType] /\ nextTask \in 1..(MaxTasks + 1)
    /\ designs \in [TaskIds -> DesignType] /\ nextDesign \in Nat \ {0}
    /\ nextCheck \in Nat \ {0}
    /\ boot \in {"down", "designs", "tasks", "up"}
    /\ creq \in [Clients -> RequestType]
    /\ loc \in [TaskIds -> LocalType]
    /\ conns \subseteq open /\ open \subseteq Sockets
    /\ bc.from \in StageLabels \cup {"none"}
    /\ faults \in 0..MaxFaults /\ crashes \in 0..MaxCrashes

SpawnInv ==
    /\ \A c \in Clients : creq[c].at = "prune" =>
          creq[c].task \in TaskIds /\ creq[c].task < nextTask /\ pc[creq[c].task] = "none"
    /\ \A c, d \in Clients :
          creq[c].at = "prune" /\ creq[d].at = "prune" /\ creq[c].task = creq[d].task => c = d
    /\ \A t \in TaskIds : t >= nextTask => pc[t] = "none"

\* A pipeline that awaits a broadcast left a stage to do so.
BcastInv == \A t \in TaskIds : pc[t] = "bcast" => bc.from \in StageLabels

\* The inductive invariant.
IInv == DataOK /\ LockInv /\ SpawnInv /\ BcastInv

\* The inductive invariant contains the type invariant.
LEMMA IInvTypeOK == IInv => TypeOK
  BY DEF IInv, DataOK, LockInv, TypeOK

\* The control half of the invariant, for a step inside the semaphore.
LEMMA InsideStep ==
    ASSUME IInv, NEW t \in TaskIds, NEW l \in Inside \cup {"exit"},
           pc[t] \in Inside, Goto(t, l), UNCHANGED <<creq, nextTask>>,
           l = "bcast" => bc'.from \in StageLabels
    PROVE  LockInv' /\ SpawnInv' /\ BcastInv'
<1>1. /\ LockInv'
      /\ \A u \in TaskIds : pc[u] = "none" => pc'[u] = "none"
      /\ \A u \in TaskIds : pc'[u] = "bcast" => u = t /\ l = "bcast"
  BY GotoKeepsLock DEF IInv
<1>2. SpawnInv'
  BY <1>1 DEF IInv, SpawnInv
<1>3. BcastInv'
  BY <1>1 DEF BcastInv
<1> QED BY <1>1, <1>2, <1>3

(***************************************************************************)
(* The operations on the tasks table keep it a table of rows.              *)
(***************************************************************************)
\* The arguments of update_task.
UpdType == [status : ActiveStatuses \cup TerminalStatuses \cup {NoStr},
            progress : 0..100 \cup {NoInt}, result : Results, record : Nat \cup {NoInt}]

\* An absent row is a row.
LEMMA NoRowType == NoRow \in RowType
  BY DEF NoRow, RowType, NoStr, NoInt, Results

\* Retention keeps the table a table of rows.
LEMMA PrunedType ==
    ASSUME NEW tab \in [TaskIds -> RowType]
    PROVE  Pruned(tab) \in [TaskIds -> RowType]
  BY NoRowType DEF Pruned

\* Merging an update into a row gives a row.
LEMMA MergeType ==
    ASSUME NEW row \in RowType, NEW upd \in UpdType, row.status # "absent"
    PROVE  Merge(row, upd) \in RowType
<1>1. (IF upd.status \in TerminalStatuses THEN TRUE ELSE row.stamped) \in BOOLEAN
  BY DEF RowType
<1>2. /\ Overwrite(upd.status, row.status, NoStr) \in ActiveStatuses \cup TerminalStatuses \cup {"absent"}
      /\ Overwrite(upd.progress, row.progress, NoInt) \in 0..100
      /\ Overwrite(upd.result, row.result, NoStr) \in Results
      /\ Overwrite(upd.record, row.record, NoInt) \in Nat \cup {NoInt}
  BY DEF RowType, UpdType, Overwrite
<1>3. ASSUME NEW s \in ActiveStatuses \cup TerminalStatuses \cup {"absent"}, NEW p \in 0..100,
             NEW r \in Results, NEW k \in Nat \cup {NoInt}, NEW b \in BOOLEAN
      PROVE  [row EXCEPT !.status = s, !.progress = p, !.result = r, !.record = k,
                         !.stamped = b] \in RowType
  BY ZenonT(40) DEF RowType
<1> QED BY <1>1, <1>2, <1>3, ZenonT(40) DEF Merge

\* Writing an update keeps the table a table of rows.
LEMMA WrittenType ==
    ASSUME NEW tab \in [TaskIds -> RowType], NEW t \in TaskIds, NEW upd \in UpdType
    PROVE  Written(tab, t, upd) \in [TaskIds -> RowType]
  BY MergeType DEF Written

\* The whole of update_task, its prune included, keeps it one too.
LEMMA UpdatedType ==
    ASSUME NEW tab \in [TaskIds -> RowType], NEW t \in TaskIds, NEW upd \in UpdType
    PROVE  Updated(tab, t, upd) \in [TaskIds -> RowType]
  BY WrittenType, PrunedType DEF Updated

\* The update of a stage has the type update_task takes.
LEMMA StageUpdType ==
    ASSUME DataOK, NEW t \in TaskIds, NEW l \in StageLabels
    PROVE  StageUpd(t, l) \in UpdType
<1>1. loc[t].rec \in Nat \cup {NoInt} /\ loc[t].quality \in {NoStr, "full", "partial"}
  BY DEF DataOK, LocalType
<1>2. (IF Stage[l].links THEN loc[t].rec ELSE NoInt) \in Nat \cup {NoInt}
  BY <1>1
<1>3. (IF Stage[l].result = "quality" THEN loc[t].quality ELSE Stage[l].result) \in Results
  BY <1>1, StageType DEF Results
<1> QED BY <1>2, <1>3, StageType DEF StageUpd, UpdType

\* An update that commits and is then cut off keeps the table one too.
LEMMA CommitsOnlyType ==
    ASSUME DataOK, NEW t \in TaskIds, UNCHANGED tasks \/ CommitsOnly(t)
    PROVE  tasks' \in [TaskIds -> RowType]
  BY WrittenType, StageUpdType DEF CommitsOnly, DataOK

\* What follows a stage is inside the semaphore, or releases it.
LEMMA AfterInside ==
    ASSUME NEW t \in TaskIds, NEW l \in StageLabels
    PROVE  After(t, l) \in Inside \cup {"exit"} /\ After(t, l) # "bcast"
  BY StageNext DEF After

(***************************************************************************)
(* Every step keeps the invariant: requests, pipelines, environment.       *)
(***************************************************************************)

\* create_task and the spawn of a pipeline keep the invariant: the new task has no
\* pipeline until the request that owns it starts one.
LEMMA RequestStep == ASSUME IInv, NEW c \in Clients, Request(c) PROVE IInv'
<1> USE StoreAssumption, PipelineAssumption DEF IInv
<1>1. CASE Select(c)
  <2>1. DataOK'
    BY <1>1 DEF Select, DataOK, db, net, env, TaskIds, NoTask, RequestType
  <2> QED BY <1>1, <2>1 DEF Select, db, net, env, lock, LockInv, Serialized, NoLostWaiter,
         SpawnInv, BcastInv
<1>2. CASE Insert(c)
  <2>1. NewRow(creq[c].kind, creq[c].params) \in RowType
    <3>1. creq[c].kind \in Kinds \cup {NoStr} /\ creq[c].params \in Params \cup {NoStr}
      BY DEF DataOK, RequestType
    <3> QED BY <3>1, NoRowType DEF NewRow, RowType, ActiveStatuses
  <2>2. DataOK'
    <3>1. tasks' \in [TaskIds -> RowType]
      BY <1>2, <2>1 DEF Insert, DataOK
    <3>2. nextTask' \in 1..(MaxTasks + 1) /\ nextTask \in TaskIds
      BY <1>2 DEF Insert, DataOK, TaskIds
    <3>3. creq' \in [Clients -> RequestType]
      <4>1. [creq[c] EXCEPT !.at = "prune", !.task = nextTask] \in RequestType
        BY <3>2 DEF DataOK, RequestType
      <4>2. creq' = [creq EXCEPT ![c] = [creq[c] EXCEPT !.at = "prune", !.task = nextTask]]
        BY <1>2 DEF Insert, DataOK
      <4> QED BY <4>1, <4>2 DEF DataOK
    <3>4. UNCHANGED <<designs, nextDesign, nextCheck, loc, bc, conns, open, faults, crashes, boot>>
      BY <1>2 DEF Insert, net, env
    <3> QED BY <3>1, <3>2, <3>3, <3>4 DEF DataOK
  <2>3. SpawnInv'
    BY <1>2 DEF Insert, DataOK, SpawnInv, TaskIds, NoTask
  <2> QED BY <1>2, <2>2, <2>3 DEF Insert, net, env, lock, LockInv, Serialized, NoLostWaiter, BcastInv
<1>3. CASE PruneAndSpawn(c)
  <2> DEFINE t == creq[c].task
  <2>1. t \in TaskIds /\ pc[t] = "none"
    BY <1>3 DEF PruneAndSpawn, SpawnInv
  <2>2. PICK l \in Spawned : pc' = [pc EXCEPT ![t] = l]
    BY <1>3 DEF PruneAndSpawn, Spawned
  <2>3. DataOK'
    BY <1>3, PrunedType DEF PruneAndSpawn, DataOK, net, env, TaskIds, NoTask, NoStr, Idle, RequestType
  <2>4. LockInv'
    BY <1>3, <2>1, <2>2, LabelFacts DEF PruneAndSpawn, lock, LockInv, Serialized, NoLostWaiter
  <2>5. SpawnInv'
    <3>1. \A d \in Clients \ {c} : creq'[d] = creq[d]
      BY <1>3 DEF PruneAndSpawn, DataOK
    <3>2. creq'[c].at = "idle" /\ nextTask' = nextTask
      BY <1>3 DEF PruneAndSpawn, DataOK, Idle
    <3>3. \A u \in TaskIds \ {t} : pc'[u] = pc[u]
      BY <2>2 DEF LockInv
    <3>4. \A d \in Clients \ {c} : creq[d].at = "prune" => creq[d].task # t
      BY <1>3 DEF PruneAndSpawn, SpawnInv
    <3>5. t < nextTask /\ nextTask \in Int
      BY <1>3 DEF PruneAndSpawn, SpawnInv, DataOK
    <3>6. \A d \in Clients : creq'[d].at = "prune" =>
              d # c /\ creq[d].at = "prune" /\ creq'[d].task = creq[d].task
      BY <3>1, <3>2
    <3>7. \A u \in TaskIds : u >= nextTask' => pc'[u] = "none"
      BY <3>2, <3>3, <3>5, <2>1 DEF SpawnInv, TaskIds
    <3> QED BY <3>2, <3>3, <3>4, <3>6, <3>7 DEF SpawnInv
  <2>6. BcastInv'
    BY <1>3, <2>1, <2>2, LabelFacts DEF PruneAndSpawn, LockInv, BcastInv, Spawned
  <2> QED BY <2>3, <2>4, <2>5, <2>6
<1>4. CASE CreateFails(c)
  <2>1. DataOK'
    BY <1>4 DEF CreateFails, Fault, DataOK, db, net, TaskIds, NoTask, NoStr, Idle, RequestType
  <2> QED BY <1>4, <2>1 DEF CreateFails, db, net, lock, LockInv, Serialized, NoLostWaiter,
         SpawnInv, BcastInv, Idle, DataOK
<1> QED BY <1>1, <1>2, <1>3, <1>4 DEF Request

(***************************************************************************)
(* A stage of a pipeline: the update, and the start of its broadcast.      *)
(***************************************************************************)

\* Where a stage goes next keeps the control half of the invariant.
LEMMA NotifyStep ==
    ASSUME IInv, NEW t \in TaskIds, pc[t] \in StageLabels, StartNotify(t, pc[t]),
           UNCHANGED <<creq, nextTask>>
    PROVE  LockInv' /\ SpawnInv' /\ BcastInv' /\ bc'.from \in StageLabels \cup {"none"}
<1> DEFINE l == pc[t]
<1>1. pc[t] \in Inside
  BY LabelFacts
<1>2. CASE conns = {} \/ ~Stage[l].notifies
  <2>1. Goto(t, After(t, l)) /\ bc' = bc
    BY <1>2 DEF StartNotify
  <2>2. After(t, l) \in Inside \cup {"exit"} /\ After(t, l) # "bcast"
    BY AfterInside
  <2>3. LockInv' /\ SpawnInv' /\ BcastInv'
    BY <1>1, <2>1, <2>2, InsideStep
  <2> QED BY <2>1, <2>3 DEF IInv, DataOK
<1>3. CASE ~(conns = {} \/ ~Stage[l].notifies)
  <2>1. bc'.from = l /\ Goto(t, "bcast")
    BY <1>3 DEF StartNotify
  <2>2. LockInv' /\ SpawnInv' /\ BcastInv'
    BY <1>1, <2>1, InsideStep, LabelFacts
  <2> QED BY <2>1, <2>2
<1> QED BY <1>2, <1>3

\* A stage, failing or not, keeps the invariant.
LEMMA ReportStep == ASSUME IInv, NEW t \in TaskIds, Report(t) \/ ReportFails(t) PROVE IInv'
<1> USE StoreAssumption, PipelineAssumption
<1>1. pc[t] \in StageLabels /\ pc[t] \in Inside /\ StageUpd(t, pc[t]) \in UpdType
      /\ tasks \in [TaskIds -> RowType]
  BY StageUpdType, LabelFacts DEF Report, ReportFails, IInv, DataOK
<1>2. CASE Report(t)
  <2>1. LockInv' /\ SpawnInv' /\ BcastInv' /\ bc'.from \in StageLabels \cup {"none"}
    BY <1>1, <1>2, NotifyStep DEF Report
  <2>2. tasks' \in [TaskIds -> RowType]
    BY <1>1, <1>2, UpdatedType DEF Report
  <2>3. UNCHANGED <<nextTask, designs, nextDesign, nextCheck, creq, loc, conns, open,
                    faults, crashes, boot>>
    BY <1>2 DEF Report, net, env
  <2>4. DataOK'
    BY <2>1, <2>2, <2>3 DEF IInv, DataOK
  <2> QED BY <2>1, <2>4 DEF IInv
<1>3. CASE ReportFails(t)
  <2>1. Goto(t, Handler(pc[t])) /\ bc' = bc /\ UNCHANGED <<creq, nextTask>>
    BY <1>3 DEF ReportFails
  <2>2. Handler(pc[t]) \in Inside \cup {"exit"} /\ Handler(pc[t]) # "bcast"
    BY <1>1, HandlerFacts, LabelFacts, StageLabelsDef DEF CheckBody
  <2>3. LockInv' /\ SpawnInv' /\ BcastInv'
    BY <1>1, <2>1, <2>2, InsideStep
  <2>4. tasks' \in [TaskIds -> RowType]
    BY <1>1, <1>3, CommitsOnlyType DEF ReportFails, IInv
  <2>5. UNCHANGED <<nextTask, designs, nextDesign, nextCheck, creq, loc, conns, open,
                    bc, crashes, boot>> /\ faults' \in 0..MaxFaults
    BY <1>3 DEF ReportFails, net, env, Fault, IInv, DataOK
  <2>6. DataOK'
    BY <2>4, <2>5 DEF IInv, DataOK
  <2> QED BY <2>3, <2>6 DEF IInv
<1> QED BY <1>2, <1>3

\* A send of the broadcast, and the exception its loop may raise, keep the invariant.
LEMMA SendStep == ASSUME IInv, NEW t \in TaskIds, Send(t) \/ SendRaises(t) PROVE IInv'
<1> USE StoreAssumption, PipelineAssumption
<1>1. pc[t] = "bcast" /\ pc[t] \in Inside /\ bc.from \in StageLabels
  BY LabelFacts DEF Send, SendRaises, IInv, BcastInv
<1>2. CASE Send(t)
  <2>1. UNCHANGED <<tasks, nextTask, designs, nextDesign, nextCheck, creq, loc, open,
                    faults, crashes, boot>>
    BY <1>2 DEF Send, db, env
  <2>2. PICK dead \in {bc.dead, bc.dead \cup {bc.cur}} :
         \/ /\ \E w \in conns \ bc.seen :
                 bc' = [bc EXCEPT !.cur = w, !.seen = @ \cup {w},
                                  !.todo = @ \ {w}, !.dead = dead]
            /\ UNCHANGED <<pc, lock, conns>>
         \/ /\ bc.todo \cap conns = {}
            /\ conns' = conns \ dead
            /\ bc' = Quiet
            /\ Goto(t, After(t, bc.from))
    BY <1>2 DEF Send
  <2>3. CASE /\ \E w \in conns \ bc.seen :
                  bc' = [bc EXCEPT !.cur = w, !.seen = @ \cup {w},
                                   !.todo = @ \ {w}, !.dead = dead]
             /\ UNCHANGED <<pc, lock, conns>>
    <3>1. bc'.from = bc.from
      BY <2>3
    <3>2. DataOK'
      BY <2>1, <2>3, <3>1 DEF IInv, DataOK
    <3>3. LockInv' /\ SpawnInv' /\ BcastInv'
      BY <2>1, <2>3, <3>1 DEF IInv, LockInv, Serialized, NoLostWaiter, SpawnInv, BcastInv, lock
    <3> QED BY <3>2, <3>3 DEF IInv
  <2>4. CASE /\ bc.todo \cap conns = {} /\ conns' = conns \ dead /\ bc' = Quiet
             /\ Goto(t, After(t, bc.from))
    <3>1. After(t, bc.from) \in Inside \cup {"exit"} /\ After(t, bc.from) # "bcast"
      BY <1>1, AfterInside
    <3>2. LockInv' /\ SpawnInv' /\ BcastInv'
      BY <1>1, <2>1, <2>4, <3>1, InsideStep
    <3>3. bc'.from = "none"
      BY <2>4 DEF Quiet
    <3>4. DataOK'
      BY <2>1, <2>4, <3>3 DEF IInv, DataOK
    <3> QED BY <3>2, <3>4 DEF IInv
  <2> QED BY <2>2, <2>3, <2>4
<1>3. CASE SendRaises(t)
  <2>1. Goto(t, Handler(bc.from)) /\ bc'.from = "none"
        /\ UNCHANGED <<tasks, nextTask, designs, nextDesign, nextCheck, creq, loc, conns, open,
                       faults, crashes, boot>>
    BY <1>3 DEF SendRaises, db, net, env, Quiet
  <2>2. Handler(bc.from) \in Inside \cup {"exit"} /\ Handler(bc.from) # "bcast"
    BY <1>1, HandlerFacts, LabelFacts, StageLabelsDef DEF CheckBody
  <2>3. LockInv' /\ SpawnInv' /\ BcastInv'
    BY <1>1, <2>1, <2>2, InsideStep
  <2>4. DataOK'
    BY <2>1 DEF IInv, DataOK
  <2> QED BY <2>3, <2>4 DEF IInv
<1> QED BY <1>2, <1>3

\* A new design row keeps the table of designs one.
LEMMA InsertDesignType ==
    ASSUME DataOK, NEW t \in TaskIds, InsertDesign(t)
    PROVE  designs' \in [TaskIds -> DesignType] /\ nextDesign' \in Nat \ {0}
<1>1. /\ [status |-> "completed", quality |-> "pending", aged |-> FALSE] \in DesignType
      /\ [status |-> "failed", quality |-> "empty", aged |-> FALSE] \in DesignType
  BY DEF DesignType
<1>2. \E row \in DesignType : designs' = [designs EXCEPT ![nextDesign] = row]
  BY <1>1 DEF InsertDesign
<1>3. nextDesign' = nextDesign + 1
  BY DEF InsertDesign
<1>4. designs \in [TaskIds -> DesignType] /\ nextDesign \in Nat \ {0}
  BY DEF DataOK
<1>5. designs' \in [TaskIds -> DesignType]
  BY <1>2, <1>4
<1> QED BY <1>3, <1>4, <1>5

\* A step inside the semaphore that leaves requests and broadcast alone.
LEMMA PlainStep ==
    ASSUME IInv, NEW t \in TaskIds, NEW l \in (Inside \ {"bcast"}) \cup {"exit"},
           pc[t] \in Inside, Goto(t, l), UNCHANGED <<creq, nextTask>>, DataOK'
    PROVE  IInv'
<1>1. LockInv' /\ SpawnInv' /\ BcastInv'
  BY InsideStep, LabelFacts
<1> QED BY <1>1 DEF IInv

\* The design pipeline keeps the invariant.
LEMMA DesignStep == ASSUME IInv, NEW t \in TaskIds, Design(t) PROVE IInv'
<1> USE StoreAssumption, PipelineAssumption, LabelFacts, StageLabelsDef
<1> DEFINE Dst == (Inside \ {"bcast"}) \cup {"exit"}
<1>1. CASE StartDesign(t)
  <2>1. UNCHANGED <<tasks, nextTask, designs, nextDesign, nextCheck, boot, creq, loc,
                    conns, open, bc, faults, crashes>>
    BY <1>1 DEF StartDesign, db, net, env
  <2>2. DataOK'
    BY <2>1 DEF IInv, DataOK
  <2>3. pc[t] = "dSpawned" /\ pc[t] \in Spawned /\ t < nextTask
    BY <1>1 DEF StartDesign, Spawned, IInv, SpawnInv, DataOK, TaskIds
  <2>4. CASE tasks[t].status = "absent"
    <3>1. pc' = [pc EXCEPT ![t] = "done"] /\ UNCHANGED <<sem, semQ>>
      BY <1>1, <2>4 DEF StartDesign, lock
    <3>2. LockInv' /\ BcastInv'
      BY <2>1, <2>3, <3>1 DEF IInv, LockInv, Serialized, NoLostWaiter, BcastInv
    <3>3. SpawnInv'
      BY <2>1, <2>3, <3>1 DEF IInv, LockInv, SpawnInv
    <3> QED BY <2>2, <3>2, <3>3 DEF IInv
  <2>5. CASE tasks[t].status # "absent"
    <3>1. Acquire(t, "begin", "dQueued") /\ "begin" \in Inside \ {"bcast"} /\ "dQueued" \in Queued
      BY <1>1, <2>5 DEF StartDesign, Queued
    <3>2. /\ LockInv'
          /\ \A u \in TaskIds : pc[u] = "none" => pc'[u] = "none"
          /\ \A u \in TaskIds : pc'[u] = "bcast" => pc[u] = "bcast"
      BY <2>3, <3>1, AcquireKeepsLock DEF IInv
    <3> QED BY <2>1, <2>2, <3>2 DEF IInv, SpawnInv, BcastInv
  <2> QED BY <2>4, <2>5
<1>2. CASE StartDesignFails(t)
  <2>1. pc[t] = "dSpawned" /\ pc' = [pc EXCEPT ![t] = "done"]
        /\ UNCHANGED <<tasks, nextTask, designs, nextDesign, nextCheck, boot, creq, loc, sem, semQ,
                    conns, open, bc, crashes>> /\ faults' \in 0..MaxFaults
    BY <1>2 DEF StartDesignFails, Fault, db, net, lock, IInv, DataOK
  <2>2. DataOK'
    BY <2>1 DEF IInv, DataOK
  <2>3. LockInv' /\ BcastInv'
    BY <2>1 DEF IInv, LockInv, Serialized, NoLostWaiter, BcastInv, Spawned
  <2>4. SpawnInv'
    BY <2>1 DEF IInv, LockInv, SpawnInv
  <2> QED BY <2>2, <2>3, <2>4 DEF IInv
<1>3. CASE Generate(t)
  <2>1. pc[t] \in Inside /\ \E l \in Dst : Goto(t, l)
    BY <1>3 DEF Generate
  <2>2. UNCHANGED <<tasks, nextTask, designs, nextDesign, nextCheck, boot, creq, loc,
                    conns, open, bc, faults, crashes>>
    BY <1>3 DEF Generate, db, net, env
  <2>3. DataOK'
    BY <2>2 DEF IInv, DataOK
  <2> QED BY <2>1, <2>2, <2>3, PlainStep
<1>4. CASE SaveDesign(t)
  <2>1. pc[t] \in Inside /\ \E l \in Dst : Goto(t, l)
    BY <1>4 DEF SaveDesign
  <2>2. UNCHANGED <<tasks, nextTask, nextCheck, boot, creq, conns, open, bc, faults, crashes>>
    BY <1>4 DEF SaveDesign, net, env
  <2>3. designs' \in [TaskIds -> DesignType] /\ nextDesign' \in Nat \ {0}
    BY <1>4, InsertDesignType DEF SaveDesign, IInv
  <2>4. loc' \in [TaskIds -> LocalType]
    <3>1. [loc[t] EXCEPT !.rec = nextDesign] \in LocalType
      BY DEF IInv, DataOK, LocalType
    <3> QED BY <1>4, <3>1 DEF SaveDesign, IInv, DataOK
  <2>5. DataOK'
    BY <2>2, <2>3, <2>4 DEF IInv, DataOK
  <2> QED BY <2>1, <2>2, <2>5, PlainStep
<1>5. CASE SaveDesignFails(t)
  <2>1. pc[t] \in Inside /\ \E l \in Dst : Goto(t, l)
    BY <1>5 DEF SaveDesignFails
  <2>2. UNCHANGED <<tasks, nextTask, nextCheck, boot, creq, loc, conns, open, bc, crashes>>
        /\ faults' \in 0..MaxFaults
    BY <1>5 DEF SaveDesignFails, Fault, net, IInv, DataOK
  <2>3. designs' \in [TaskIds -> DesignType] /\ nextDesign' \in Nat \ {0}
    <3>1. CASE UNCHANGED <<designs, nextDesign>>
      BY <3>1 DEF IInv, DataOK
    <3>2. CASE InsertDesign(t)
      BY <3>2, InsertDesignType DEF IInv
    <3> QED BY <1>5, <3>1, <3>2 DEF SaveDesignFails
  <2>4. DataOK'
    BY <2>2, <2>3 DEF IInv, DataOK
  <2> QED BY <2>1, <2>2, <2>4, PlainStep
<1>6. CASE WriteReport(t)
  <2>1. PICK outcome \in {"report", "placeholder", "raised"} :
           LET quality == IF outcome = "report" THEN "full" ELSE "partial" IN
           /\ \/ /\ designs' = [designs EXCEPT ![loc[t].rec].quality = quality]
                 /\ UNCHANGED faults
              \/ Fault /\ UNCHANGED designs
           /\ loc' = [loc EXCEPT ![t].quality = quality]
           /\ Goto(t, IF outcome = "raised" THEN "llmFailed" ELSE "reported")
    BY <1>6 DEF WriteReport
  <2> DEFINE q == IF outcome = "report" THEN "full" ELSE "partial"
  <2>2. pc[t] \in Inside /\ \E l \in Dst : Goto(t, l)
    BY <1>6, <2>1 DEF WriteReport
  <2>3. UNCHANGED <<tasks, nextTask, nextDesign, nextCheck, boot, creq, conns, open, bc, crashes>>
    BY <1>6 DEF WriteReport, net
  <2>4. q \in {"full", "partial"}
    OBVIOUS
  <2>5. designs' \in [TaskIds -> DesignType] /\ faults' \in 0..MaxFaults
    <3>1. CASE designs' = [designs EXCEPT ![loc[t].rec].quality = q] /\ UNCHANGED faults
      <4>1. \A d \in TaskIds : [designs[d] EXCEPT !.quality = q] \in DesignType
        BY <2>4 DEF IInv, DataOK, DesignType
      <4>2. DOMAIN designs = TaskIds /\ \A d \in TaskIds : designs[d] \in DesignType
        BY DEF IInv, DataOK
      <4>3. designs' = [d \in TaskIds |-> IF d = loc[t].rec
                          THEN [designs[d] EXCEPT !.quality = q] ELSE designs[d]]
        BY <3>1, <4>2
      <4>4. \A d \in TaskIds : (IF d = loc[t].rec THEN [designs[d] EXCEPT !.quality = q] ELSE designs[d]) \in DesignType
        BY <4>1, <4>2
      <4>5. designs' \in [TaskIds -> DesignType]
        BY <4>3, <4>4
      <4> QED BY <3>1, <4>5 DEF IInv, DataOK
    <3>2. CASE Fault /\ UNCHANGED designs
      BY <3>2 DEF Fault, IInv, DataOK
    <3> QED BY <2>1, <3>1, <3>2
  <2>6. loc' \in [TaskIds -> LocalType]
    <3>1. [loc[t] EXCEPT !.quality = q] \in LocalType
      BY <2>4 DEF IInv, DataOK, LocalType
    <3> QED BY <2>1, <3>1 DEF IInv, DataOK
  <2>7. DataOK'
    BY <2>3, <2>5, <2>6 DEF IInv, DataOK
  <2> QED BY <2>2, <2>3, <2>7, PlainStep
<1>7. CASE SaveError(t)
  <2>1. pc[t] \in Inside /\ Goto(t, "exit")
    BY <1>7 DEF SaveError
  <2>2. UNCHANGED <<tasks, nextTask, nextDesign, nextCheck, boot, creq, loc, conns, open, bc, crashes>>
    BY <1>7 DEF SaveError, net
  <2>3. designs' \in [TaskIds -> DesignType] /\ faults' \in 0..MaxFaults
    <3>1. CASE designs' = [designs EXCEPT ![loc[t].rec].status = "failed"] /\ UNCHANGED faults
      <4>1. \A d \in TaskIds : [designs[d] EXCEPT !.status = "failed"] \in DesignType
        BY DEF IInv, DataOK, DesignType
      <4>2. DOMAIN designs = TaskIds /\ \A d \in TaskIds : designs[d] \in DesignType
        BY DEF IInv, DataOK
      <4>3. designs' = [d \in TaskIds |-> IF d = loc[t].rec
                          THEN [designs[d] EXCEPT !.status = "failed"] ELSE designs[d]]
        BY <3>1, <4>2
      <4>4. \A d \in TaskIds : (IF d = loc[t].rec THEN [designs[d] EXCEPT !.status = "failed"] ELSE designs[d]) \in DesignType
        BY <4>1, <4>2
      <4>5. designs' \in [TaskIds -> DesignType]
        BY <4>3, <4>4
      <4> QED BY <3>1, <4>5 DEF IInv, DataOK
    <3>2. CASE Fault /\ UNCHANGED designs
      BY <3>2 DEF Fault, IInv, DataOK
    <3> QED BY <1>7, <3>1, <3>2 DEF SaveError
  <2>4. DataOK'
    BY <2>2, <2>3 DEF IInv, DataOK
  <2> QED BY <2>1, <2>2, <2>4, PlainStep
<1> QED BY <1>1, <1>2, <1>3, <1>4, <1>5, <1>6, <1>7 DEF Design

\* The check pipeline, its timeout included, keeps the invariant.
LEMMA CheckStep == ASSUME IInv, NEW t \in TaskIds, Check(t) PROVE IInv'
<1> USE StoreAssumption, PipelineAssumption, LabelFacts, StageLabelsDef
<1> DEFINE Dst == (Inside \ {"bcast"}) \cup {"exit"}
<1>0. CheckBody \subseteq Inside /\ {"cFail", "cCollected", "cEmpty", "cFinish", "cComment",
         "cJudge", "cBegin", "cLink"} \subseteq Inside \ {"bcast"}
  BY DEF CheckBody
<1>1. CASE StartCheck(t)
  <2>1. UNCHANGED <<tasks, nextTask, designs, nextDesign, nextCheck, boot, creq, loc,
                    conns, open, bc, faults, crashes>>
    BY <1>1 DEF StartCheck, db, net, env
  <2>2. DataOK'
    BY <2>1 DEF IInv, DataOK
  <2>3. pc[t] \in Spawned /\ Acquire(t, "cGuard", "cQueued")
        /\ "cGuard" \in Inside \ {"bcast"} /\ "cQueued" \in Queued
    BY <1>1 DEF StartCheck, Spawned, Queued
  <2>4. /\ LockInv'
        /\ \A u \in TaskIds : pc[u] = "none" => pc'[u] = "none"
        /\ \A u \in TaskIds : pc'[u] = "bcast" => pc[u] = "bcast"
    BY <2>3, AcquireKeepsLock DEF IInv
  <2> QED BY <2>1, <2>2, <2>4 DEF IInv, SpawnInv, BcastInv
<1>2. CASE GuardCheck(t) \/ CollectCheck(t) \/ JudgeCheck(t)
  <2>1. pc[t] \in Inside /\ \E l \in Dst : Goto(t, l)
    BY <1>0, <1>2 DEF GuardCheck, CollectCheck, JudgeCheck, CheckBody
  <2>2. UNCHANGED <<tasks, nextTask, designs, nextDesign, nextCheck, boot, creq, loc,
                    conns, open, bc, faults, crashes>>
    BY <1>2 DEF GuardCheck, CollectCheck, JudgeCheck, db, net, env
  <2>3. DataOK'
    BY <2>2 DEF IInv, DataOK
  <2> QED BY <2>1, <2>2, <2>3, PlainStep
<1>3. CASE GuardCheckFails(t) \/ SaveCheckFails(t)
  <2>1. pc[t] \in Inside /\ \E l \in Dst : Goto(t, l)
    BY <1>0, <1>3 DEF GuardCheckFails, SaveCheckFails, Handler, CheckBody
  <2>2. UNCHANGED <<tasks, nextTask, designs, nextDesign, boot, creq, loc,
                    conns, open, bc, crashes>>
        /\ faults' \in 0..MaxFaults /\ nextCheck' \in Nat \ {0}
    BY <1>3 DEF GuardCheckFails, SaveCheckFails, Fault, db, net, IInv, DataOK
  <2>3. DataOK'
    BY <2>2 DEF IInv, DataOK
  <2> QED BY <2>1, <2>2, <2>3, PlainStep
<1>4. CASE SaveCheck(t)
  <2>1. pc[t] \in Inside /\ Goto(t, "cLink")
    BY <1>0, <1>4 DEF SaveCheck, CheckBody
  <2>2. UNCHANGED <<tasks, nextTask, designs, nextDesign, boot, creq, conns, open, bc, faults, crashes>>
    BY <1>4 DEF SaveCheck, net, env
  <2>3. loc' \in [TaskIds -> LocalType] /\ nextCheck' \in Nat \ {0}
    <3>1. [loc[t] EXCEPT !.rec = nextCheck] \in LocalType
      BY DEF IInv, DataOK, LocalType
    <3> QED BY <1>4, <3>1 DEF SaveCheck, IInv, DataOK
  <2>4. DataOK'
    BY <2>2, <2>3 DEF IInv, DataOK
  <2> QED BY <1>0, <2>1, <2>2, <2>4, PlainStep
<1>5. CASE CheckTimeout(t)
  <2>1. pc[t] \in Inside /\ Goto(t, "cFail")
    BY <1>0, <1>5 DEF CheckTimeout
  <2>2. UNCHANGED <<nextTask, designs, nextDesign, nextCheck, boot, creq, loc,
                    conns, open, faults, crashes>> /\ (bc' = bc \/ bc'.from = "none")
    BY <1>5 DEF CheckTimeout, net, env, Quiet
  <2>3. tasks' \in [TaskIds -> RowType]
    BY <1>5, CommitsOnlyType DEF CheckTimeout, IInv
  <2>4. DataOK'
    BY <2>2, <2>3 DEF IInv, DataOK
  <2> QED BY <1>0, <2>1, <2>2, <2>4, PlainStep
<1> QED BY <1>1, <1>2, <1>3, <1>4, <1>5 DEF Check

\* Listing, ageing, sockets and the recovery at startup keep the invariant.
LEMMA EnvStep ==
    ASSUME IInv, ListTasks \/ DesignsAge \/ TasksAge \/ Lifespan
                 \/ \E w \in Sockets : Connect(w) \/ Disconnect(w)
    PROVE  IInv'
<1> USE StoreAssumption, PipelineAssumption
<1>1. CASE ListTasks
  <2>1. tasks' \in [TaskIds -> RowType]
    BY <1>1, PrunedType DEF ListTasks, IInv, DataOK
  <2>2. DataOK'
    BY <1>1, <2>1 DEF ListTasks, IInv, DataOK, net, env
  <2> QED BY <1>1, <2>2 DEF ListTasks, IInv, LockInv, Serialized, NoLostWaiter, SpawnInv,
         BcastInv, lock
<1>2. CASE DesignsAge
  <2>1. \A d \in TaskIds : [designs[d] EXCEPT !.aged = TRUE] \in DesignType
    BY DEF IInv, DataOK, DesignType
  <2>2. designs' \in [TaskIds -> DesignType]
    BY <1>2, <2>1 DEF DesignsAge, IInv, DataOK
  <2>3. DataOK'
    BY <1>2, <2>2 DEF DesignsAge, IInv, DataOK, net, env
  <2> QED BY <1>2, <2>3 DEF DesignsAge, IInv, LockInv, Serialized, NoLostWaiter, SpawnInv,
         BcastInv, lock
<1>3. CASE TasksAge
  <2>1. \A t \in TaskIds : [tasks[t] EXCEPT !.old = TRUE] \in RowType
    <3>1. ASSUME NEW row \in RowType, NEW b \in BOOLEAN PROVE [row EXCEPT !.old = b] \in RowType
      BY DEF RowType
    <3> QED BY <3>1 DEF IInv, DataOK
  <2>2. tasks' \in [TaskIds -> RowType]
    BY <1>3, <2>1 DEF TasksAge, IInv, DataOK
  <2>3. DataOK'
    BY <1>3, <2>2 DEF TasksAge, IInv, DataOK, net, env
  <2> QED BY <1>3, <2>3 DEF TasksAge, IInv, LockInv, Serialized, NoLostWaiter, SpawnInv,
         BcastInv, lock
<1>4. CASE Lifespan
  <2>1. UNCHANGED <<nextTask, nextDesign, nextCheck, creq, pc, loc, sem, semQ,
                    conns, open, bc, crashes>>
        /\ boot' \in {"down", "designs", "tasks", "up"} /\ faults' \in 0..MaxFaults
    <3>1. UNCHANGED <<nextTask, nextDesign, nextCheck, creq, pc, loc, sem, semQ,
                      conns, open, bc, crashes>>
      BY <1>4 DEF Lifespan, Start, RecoverDesigns, RecoverTasks, db, lock, net
    <3>2. boot' \in {"down", "designs", "tasks", "up"}
      BY <1>4 DEF Lifespan, Start, RecoverDesigns, RecoverTasks
    <3>3. faults' = faults \/ Fault
      BY <1>4 DEF Lifespan, Start, RecoverDesigns, RecoverTasks
    <3> QED BY <3>1, <3>2, <3>3 DEF Fault, IInv, DataOK
  <2>2. designs' \in [TaskIds -> DesignType]
    <3>1. \A d \in TaskIds : [designs[d] EXCEPT !.quality = "fallback"] \in DesignType
      BY DEF IInv, DataOK, DesignType
    <3>2. designs' = designs \/ RecoverDesigns
      BY <1>4 DEF Lifespan, Start, RecoverTasks, db
    <3> QED BY <3>1, <3>2 DEF RecoverDesigns, IInv, DataOK
  <2>3. tasks' \in [TaskIds -> RowType]
    <3>1. \A t \in TaskIds : [tasks[t] EXCEPT !.status = "failed", !.stamped = TRUE] \in RowType
      <4>1. ASSUME NEW row \in RowType, NEW b \in BOOLEAN
            PROVE  [row EXCEPT !.status = "failed", !.stamped = b] \in RowType
        BY DEF RowType, TerminalStatuses
      <4> QED BY <4>1 DEF IInv, DataOK
    <3>2. tasks' = tasks \/ RecoverTasks
      BY <1>4 DEF Lifespan, Start, RecoverDesigns, db
    <3> QED BY <3>1, <3>2 DEF RecoverTasks, IInv, DataOK
  <2>4. DataOK'
    BY <2>1, <2>2, <2>3 DEF IInv, DataOK
  <2> QED BY <2>1, <2>4 DEF IInv, LockInv, Serialized, NoLostWaiter, SpawnInv, BcastInv
<1>5. CASE \E w \in Sockets : Connect(w) \/ Disconnect(w)
  <2>1. UNCHANGED <<tasks, nextTask, designs, nextDesign, nextCheck, boot, creq, pc, loc,
                    sem, semQ, bc, faults, crashes>> /\ conns' \subseteq open' /\ open' \subseteq Sockets
    BY <1>5 DEF Connect, Disconnect, db, lock, env, IInv, DataOK
  <2>2. DataOK'
    BY <2>1 DEF IInv, DataOK
  <2> QED BY <2>1, <2>2 DEF IInv, LockInv, Serialized, NoLostWaiter, SpawnInv, BcastInv
<1> QED BY <1>1, <1>2, <1>3, <1>4, <1>5

\* A crash keeps the invariant: it empties the semaphore, its queue and the pipelines.
LEMMA CrashStep == ASSUME IInv, Crash PROVE IInv'
<1> USE StoreAssumption, PipelineAssumption
<1>1. NoLoc \in LocalType /\ Idle \in RequestType
  BY DEF NoLoc, LocalType, Idle, RequestType
<1>2. DataOK'
  <2>1. UNCHANGED <<tasks, nextTask, designs, nextDesign, nextCheck, faults>>
    BY DEF Crash, db
  <2>2. creq' \in [Clients -> RequestType] /\ loc' \in [TaskIds -> LocalType]
        /\ conns' = {} /\ open' = {} /\ bc'.from = "none" /\ boot' = "down"
    BY <1>1 DEF Crash, Quiet
  <2>3. crashes' \in 0..MaxCrashes
    BY DEF Crash, IInv, DataOK
  <2> QED BY <2>1, <2>2, <2>3 DEF IInv, DataOK
<1>3. pc' \in [TaskIds -> Labels] /\ \A t \in TaskIds : pc'[t] \in {"none", "done"}
      /\ (pc[t] = "none" => pc'[t] = "none")
  BY LabelFacts DEF Crash
<1>4. sem' = NoTask /\ semQ' = <<>> /\ NoTask \notin TaskIds
  BY DEF Crash, NoTask, TaskIds
<1>5. Serialized'
  BY <1>3, <1>4, LabelFacts DEF Serialized
<1>6. NoLostWaiter'
  BY <1>3, <1>4, LabelFacts DEF NoLostWaiter
<1>7. SpawnInv'
  <2>1. \A c \in Clients : creq'[c].at = "idle"
    BY DEF Crash, Idle
  <2> QED BY <1>3, <2>1 DEF Crash, db, IInv, SpawnInv
<1>8. BcastInv'
  BY <1>3 DEF BcastInv
<1> QED BY <1>2, <1>3, <1>4, <1>5, <1>6, <1>7, <1>8 DEF IInv, LockInv

\* The invariant holds before the first start.
LEMMA InitIInv == Init => IInv
<1> SUFFICES ASSUME Init PROVE IInv
  OBVIOUS
<1> USE StoreAssumption, PipelineAssumption
<1>1. NoLoc \in LocalType /\ Idle \in RequestType /\ NoDesign \in DesignType /\ NoRow \in RowType
  BY NoRowType DEF NoLoc, LocalType, Idle, RequestType, NoDesign, DesignType
<1>2. DataOK
  BY <1>1 DEF Init, DataOK, Quiet
<1>3. LockInv
  BY LabelFacts DEF Init, LockInv, Serialized, NoLostWaiter, NoTask, TaskIds
<1>4. SpawnInv /\ BcastInv
  BY DEF Init, SpawnInv, BcastInv, Idle
<1> QED BY <1>2, <1>3, <1>4 DEF IInv

\* Every step keeps the invariant.
LEMMA NextStep == ASSUME IInv, [Next]_vars PROVE IInv'
<1>1. CASE Next
  <2>1. CASE \E c \in Clients : Request(c)
    BY <2>1, RequestStep
  <2>2. CASE \E t \in TaskIds : Pipeline(t)
    BY <2>2, DesignStep, CheckStep, ReportStep, SendStep DEF Pipeline
  <2>3. CASE ListTasks \/ DesignsAge \/ TasksAge \/ Lifespan
             \/ \E w \in Sockets : Connect(w) \/ Disconnect(w)
    BY <2>3, EnvStep
  <2>4. CASE Crash
    BY <2>4, CrashStep
  <2> QED BY <1>1, <2>1, <2>2, <2>3, <2>4 DEF Next
<1>2. CASE UNCHANGED vars
  BY <1>2 DEF vars, IInv, DataOK, LockInv, Serialized, NoLostWaiter, SpawnInv, BcastInv
<1> QED BY <1>1, <1>2

\* The inductive invariant holds in every reachable state.
THEOREM Invariance == Spec => []IInv
<1>1. Init => IInv
  BY InitIInv
<1>2. IInv /\ [Next]_vars => IInv'
  BY NextStep
<1> QED BY <1>1, <1>2, PTL DEF Spec

\* Every reachable state of the pipelines is well typed, and only open sockets are
\* registered with TaskNotifyManager.
THEOREM TypeCorrect == Spec => []TypeOK
  BY Invariance, IInvTypeOK, PTL

\* _design_semaphore serializes the pipelines: the one between `async with` and its
\* end is the holder, whatever exception, timeout or crash ends it.
THEOREM PipelinesSerialized == Spec => []Serialized
<1>1. IInv => Serialized
  BY DEF IInv, LockInv
<1> QED BY <1>1, Invariance, PTL

\* No pipeline that waits for _design_semaphore is forgotten: the queue is exactly
\* the suspended pipelines, and is empty when the semaphore is free.
THEOREM WaitersKept == Spec => []NoLostWaiter
<1>1. IInv => NoLostWaiter
  BY DEF IInv, LockInv
<1> QED BY <1>1, Invariance, PTL
=============================================================================
