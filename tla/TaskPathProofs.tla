--------------------------- MODULE TaskPathProofs ---------------------------
(***************************************************************************)
(* The task pipelines implement the life cycle of a task, keep its record  *)
(* and never lose its executor, for any number of tasks, requests,         *)
(* sockets, failing transactions and crashes.  The argument: while a       *)
(* pipeline is at a label, its row has the status that fits the label      *)
(* (PathInv), so every stage writes along an edge.  Each group of steps    *)
(* keeps PathInv and is Steady, that is a step of every row along the life *)
(* cycle (RequestPath, DesignPath, CheckPath, ReportPath, SendPath,        *)
(* EnvPath).  The rest follows from Steady and from where pipelines go     *)
(* (Onward): the kind of a task is the kind of its labels (KindStep), ids  *)
(* of saved records are held once (OwnStep), and a pipeline only ends with *)
(* a row that is not active, or by a fault (EndStep).  That a task agrees   *)
(* with its design (AgreeStep) follows from what pipelines carry from their *)
(* save to their last update, and from who writes to a saved design.        *)
(***************************************************************************)
EXTENDS TaskPipelineProofs, FiniteSetTheorems, WellFoundedInduction

\* The labels by the status of the row while the pipeline is there, by whether the
\* check has saved its record, and those where nothing is saved yet.
PendingAt == {"dSpawned", "dQueued", "begin", "cSpawned", "cQueued", "cGuard", "cBegin"}
RunningAt == {"data", "degrade", "retry", "static", "reject", "allcash", "quick"}
             \cup (CheckBody \ {"cBegin"})
ReadyAt   == {"stage3", "save", "unsaved", "link", "saved", "stage5", "llm", "llmFailed",
              "reported", "finish"}
FailedAt  == {"saveEmpty", "linkEmpty", "exceptLink", "saveError"}
SavedAt   == {"cLink", "cJudge", "cEmpty", "cComment", "cFinish"}
UnsavedAt == PendingAt \cup (RunningAt \ SavedAt) \cup {"stage3", "save", "saveEmpty"}

\* What the row of a task says while its pipeline is at a label.
StatusFits(l, s) ==
    /\ l \in PendingAt => s = "pending"
    /\ l \in RunningAt => s = "running"
    /\ l \in ReadyAt => s = "quick_ready"
    /\ l \in FailedAt => s = "failed"
    /\ s \in ActiveStatuses \cup TerminalStatuses

\* The status after the update of stage l, during its broadcast.
WrittenFits(l, s) == IF Stage[l].status = NoStr THEN StatusFits(l, s) ELSE s = Stage[l].status

\* The stage a pipeline broadcasts for, or the label it is at.
Place(t) == IF pc[t] = "bcast" THEN bc.from ELSE pc[t]

\* The row of a pipeline is young, it has the record its pipeline saved or none,
\* and the status that fits.
Fits(t) ==
    /\ ~tasks[t].old /\ tasks[t].record \in {NoInt, loc[t].rec}
    /\ IF pc[t] = "bcast" THEN WrittenFits(bc.from, tasks[t].status)
       ELSE StatusFits(pc[t], tasks[t].status)
    /\ Place(t) \in UnsavedAt => loc[t].rec = NoInt

\* Every pipeline fits its row, what has none is empty, and what a request is
\* about to spawn is pending.
PathInv ==
    /\ \A t \in TaskIds : pc[t] \in Live => Fits(t)
    /\ \A t \in TaskIds : pc[t] = "none" => loc[t].rec = NoInt
    /\ \A t \in TaskIds : t >= nextTask => tasks[t] = NoRow
    /\ \A c \in Clients : creq[c].at = "prune" =>
          LET row == tasks[creq[c].task]
          IN  row.status = "pending" /\ row.record = NoInt /\ ~row.old

-----------------------------------------------------------------------------
\* The groups of labels, as sets of labels.
LEMMA PathLabels ==
    /\ RunningAt = {"data", "degrade", "retry", "static", "reject", "allcash", "quick",
                    "cLoad", "cData", "cCollected", "cAnalysed", "cSaving", "cSave", "cLink",
                    "cJudge", "cEmpty", "cComment", "cFinish"}
    /\ UnsavedAt = {"dSpawned", "dQueued", "begin", "cSpawned", "cQueued", "cGuard", "cBegin",
                    "data", "degrade", "retry", "static", "reject", "allcash", "quick",
                    "cLoad", "cData", "cCollected", "cAnalysed", "cSaving", "cSave",
                    "stage3", "save", "saveEmpty"}
  BY DEF RunningAt, UnsavedAt, PendingAt, SavedAt, CheckBody

\* The status a stage leaves fits where the pipeline goes on, by either way.
LEMMA StageFits ==
    ASSUME NEW l \in StageLabels, NEW s, WrittenFits(l, s)
    PROVE  /\ Stage[l].next # "exit" => StatusFits(Stage[l].next, s)
           /\ Handler(l) # "exit" => StatusFits(Handler(l), s)
<1> USE StageLabelsDef, PathLabels
    DEF WrittenFits, StatusFits, PendingAt, ReadyAt, FailedAt, ActiveStatuses, TerminalStatuses, NoStr
<1>1. Stage[l].next # "exit" => StatusFits(Stage[l].next, s)
  BY DEF Stage, S, Progress, Links
<1>2. Handler(l) # "exit" => StatusFits(Handler(l), s)
  BY DEF Stage, S, Progress, Links, Handler, CheckBody
<1> QED BY <1>1, <1>2

\* So does the status it found, for the handler of its failure.
LEMMA FailureFits ==
    ASSUME NEW l \in StageLabels, NEW s, StatusFits(l, s), Handler(l) # "exit"
    PROVE  StatusFits(Handler(l), s)
  BY StageLabelsDef, PathLabels DEF StatusFits, PendingAt, ReadyAt, FailedAt, Handler, CheckBody

\* No stage and no handler goes back to where nothing is saved.
LEMMA SavedStays ==
    ASSUME NEW l \in StageLabels
    PROVE  /\ Stage[l].next \in UnsavedAt => l \in UnsavedAt
           /\ Handler(l) \notin UnsavedAt
<1>1. Stage[l].next \in UnsavedAt => l \in UnsavedAt
  BY StageLabelsDef, PathLabels DEF Stage, S, Progress, Links
<1>2. Handler(l) \notin UnsavedAt
  BY StageLabelsDef, PathLabels DEF Handler, CheckBody
<1> QED BY <1>1, <1>2

\* Every status a stage writes is an edge of the life cycle from where it finds the row.
LEMMA StageEdges ==
    ASSUME NEW l \in StageLabels, NEW s, StatusFits(l, s), Stage[l].status # NoStr
    PROVE  s = Stage[l].status \/ <<s, Stage[l].status>> \in Lifecycle!Edges
  BY StageLabelsDef, PathLabels
     DEF StatusFits, PendingAt, ReadyAt, FailedAt, ActiveStatuses, TerminalStatuses, NoStr,
         Stage, S, Progress, Links, Lifecycle!Edges

\* Where the others are after a step inside the semaphore.
LEMMA GotoMoves ==
    ASSUME NEW t \in TaskIds, NEW l \in Inside \cup {"exit"},
           LockInv, pc[t] \in Inside, Goto(t, l)
    PROVE  /\ pc'[t] = IF l = "exit" THEN "done" ELSE l
           /\ \A u \in TaskIds \ {t} : \/ pc'[u] = pc[u]
                                       \/ pc[u] = "dQueued" /\ pc'[u] = "begin"
                                       \/ pc[u] = "cQueued" /\ pc'[u] = "cGuard"
<1> USE LabelFacts
<1>1. CASE l # "exit" \/ semQ = <<>>
  BY <1>1 DEF Goto, Release, LockInv
<1>2. CASE l = "exit" /\ semQ # <<>>
  <2> DEFINE v == Head(semQ)
  <2>1. pc' = [pc EXCEPT ![t] = "done", ![v] = Woken(pc[v])]
    BY <1>2 DEF Goto, Release
  <2>2. v \in TaskIds /\ v = semQ[1] /\ pc[v] \in Queued /\ v # t
    BY <1>2 DEF LockInv, NoLostWaiter
  <2> HIDE DEF v
  <2> QED BY <1>2, <2>1, <2>2 DEF LockInv, Woken, Queued
<1> QED BY <1>1, <1>2

-----------------------------------------------------------------------------
\* What an update leaves of the columns of a row.
LEMMA MergeFields ==
    ASSUME NEW row \in RowType, NEW upd \in UpdType
    PROVE  /\ Merge(row, upd).status = Overwrite(upd.status, row.status, NoStr)
           /\ Merge(row, upd).record = Overwrite(upd.record, row.record, NoInt)
           /\ Merge(row, upd).old = row.old /\ Merge(row, upd).kind = row.kind
           /\ Merge(row, upd).stamped = IF upd.status \in TerminalStatuses THEN TRUE ELSE row.stamped
  BY DEF Merge, RowType

\* Row u of a table is what it was, or retention took it.
Kept(tab, new, u) ==
    \/ new[u] = tab[u]
    \/ tab[u].status \in TerminalStatuses /\ tab[u].old /\ new[u] = NoRow

\* Retention leaves a row alone or takes it.
LEMMA PrunedKeeps ==
    ASSUME NEW tab \in [TaskIds -> RowType], NEW u \in TaskIds
    PROVE  Kept(tab, Pruned(tab), u)
<1>1. tab[u].old \in BOOLEAN
  BY DEF RowType
<1> QED BY <1>1 DEF Kept, Pruned, Terminals

\* An update with its prune merges into its row and leaves the others to retention.
LEMMA UpdatedEffect ==
    ASSUME NEW tab \in [TaskIds -> RowType], NEW t \in TaskIds, NEW upd \in UpdType,
           tab[t].status # "absent", ~tab[t].old
    PROVE  /\ Updated(tab, t, upd)[t] = Merge(tab[t], upd)
           /\ \A u \in TaskIds \ {t} : Kept(tab, Updated(tab, t, upd), u)
<1> DEFINE w == Written(tab, t, upd)
<1>1. w = [tab EXCEPT ![t] = Merge(tab[t], upd)]
  BY DEF Written
<1>2. w[t] = Merge(tab[t], upd) /\ \A u \in TaskIds \ {t} : w[u] = tab[u]
  BY <1>1
<1>5. ~Merge(tab[t], upd).old /\ w \in [TaskIds -> RowType]
  <2>1. tab[t] \in RowType
    OBVIOUS
  <2>2. Merge(tab[t], upd).old = tab[t].old
    BY <2>1, MergeFields
  <2>3. w \in [TaskIds -> RowType]
    BY WrittenType DEF w
  <2> QED BY <2>2, <2>3
<1> HIDE DEF w
<1>3. CASE Updated(tab, t, upd) = w
  BY <1>2, <1>3 DEF Kept
<1>4. CASE Updated(tab, t, upd) = Pruned(w)
  <2>1. Pruned(w)[t] = w[t]
    BY <1>2, <1>5, PrunedKeeps DEF Kept
  <2> QED BY <1>2, <1>4, <1>5, <2>1, PrunedKeeps DEF Kept
<1> QED BY <1>3, <1>4 DEF Updated, w

\* A step inside the semaphore keeps the path, if its own pipeline still fits.
LEMMA PathStep ==
    ASSUME IInv, PathInv, NEW t \in TaskIds, NEW l \in Inside \cup {"exit"},
           pc[t] \in Inside, Goto(t, l), UNCHANGED <<creq, nextTask>>,
           \A u \in TaskIds \ {t} : Kept(tasks, tasks', u) /\ loc'[u] = loc[u],
           l # "exit" => Fits(t)'
    PROVE  PathInv'
<1> USE LabelFacts
<1>0. /\ LockInv' /\ pc'[t] = (IF l = "exit" THEN "done" ELSE l)
      /\ \A u \in TaskIds : pc[u] = "none" => pc'[u] = "none"
      /\ \A u \in TaskIds \ {t} : \/ pc'[u] = pc[u]
                                  \/ pc[u] = "dQueued" /\ pc'[u] = "begin"
                                  \/ pc[u] = "cQueued" /\ pc'[u] = "cGuard"
      /\ \A u \in TaskIds \ {t} : pc[u] # "bcast"
  <2>1. \A u \in TaskIds \ {t} : pc[u] # "bcast"
    BY DEF IInv, LockInv, Serialized
  <2> QED BY <2>1, GotoKeepsLock, GotoMoves DEF IInv
<1>1. ASSUME NEW u \in TaskIds, pc'[u] \in Live PROVE Fits(u)'
  <2>1. CASE u = t
    BY <1>0, <1>1, <2>1 DEF Live, Spawned
  <2>2. CASE u # t
    <3>1. pc[u] \in Live /\ Fits(u) /\ pc[u] # "bcast" /\ pc'[u] # "bcast"
      BY <1>0, <1>1, <2>2 DEF Live, Queued, PathInv
    <3>2. tasks'[u] = tasks[u] /\ loc'[u] = loc[u]
      BY <2>2, <3>1 DEF Fits, Kept
    <3>3. StatusFits(pc'[u], tasks[u].status) /\ (pc'[u] \in UnsavedAt => pc[u] \in UnsavedAt)
      BY <1>0, <2>2, <3>1, PathLabels DEF Fits, StatusFits, PendingAt, ReadyAt, FailedAt
    <3> QED BY <3>1, <3>2, <3>3 DEF Fits, Place
  <2> QED BY <2>1, <2>2
<1>2. ASSUME NEW u \in TaskIds, pc'[u] = "none" PROVE loc'[u].rec = NoInt
  <2>1. u # t /\ pc[u] = "none"
    BY <1>0, <1>2
  <2> QED BY <2>1 DEF PathInv
<1>3. ASSUME NEW u \in TaskIds, u >= nextTask' PROVE tasks'[u] = NoRow
  <2>1. pc[u] = "none" /\ u # t
    BY <1>3 DEF IInv, SpawnInv
  <2> QED BY <1>3, <2>1 DEF PathInv, Kept
<1>4. ASSUME NEW c \in Clients, creq'[c].at = "prune"
      PROVE  LET row == tasks'[creq'[c].task]
             IN  row.status = "pending" /\ row.record = NoInt /\ ~row.old
  <2>1. creq[c].at = "prune" /\ creq'[c].task = creq[c].task
    BY <1>4
  <2>2. creq[c].task \in TaskIds \ {t}
    BY <2>1 DEF IInv, SpawnInv
  <2>3. tasks'[creq[c].task] = tasks[creq[c].task]
    BY <2>1, <2>2 DEF PathInv, Kept
  <2> QED BY <2>1, <2>3 DEF PathInv
<1> QED BY <1>1, <1>2, <1>3, <1>4 DEF PathInv

\* A step of a pipeline that leaves its row and goes on where it fits, or ends.
LEMMA QuietStep ==
    ASSUME IInv, PathInv, NEW t \in TaskIds, NEW l \in (Inside \ {"bcast"}) \cup {"exit"},
           pc[t] \in Inside, Goto(t, l), UNCHANGED <<creq, nextTask, tasks>>,
           \A u \in TaskIds \ {t} : loc'[u] = loc[u],
           tasks[t].record \in {NoInt, loc'[t].rec},
           l # "exit" => StatusFits(l, tasks[t].status) /\ (l \in UnsavedAt => loc'[t].rec = NoInt)
    PROVE  PathInv'
<1>1. Fits(t)
  BY LabelFacts DEF PathInv, Live
<1>2. l # "exit" => pc'[t] = l
  BY GotoMoves, LabelFacts DEF IInv
<1>3. l # "exit" => Fits(t)'
  BY <1>1, <1>2 DEF Fits, Place
<1>4. \A u \in TaskIds : Kept(tasks, tasks', u)
  BY DEF Kept
<1> QED BY <1>3, <1>4, PathStep

-----------------------------------------------------------------------------
\* completed_at of a row says whether it is terminal.
StampFits(row) == row.stamped <=> row.status \in TerminalStatuses

\* A step of a row along the life cycle: its status takes an edge, its record stays
\* or is the one its pipeline saved, its kind and the meaning of completed_at stay.
Along(u) ==
    /\ tasks'[u].status = tasks[u].status \/ <<tasks[u].status, tasks'[u].status>> \in Lifecycle!Edges
    /\ tasks'[u].record = tasks[u].record \/ tasks[u].record = NoInt \/ tasks'[u].status = "absent"
    /\ tasks'[u].status # "absent" =>
          tasks'[u].kind = tasks[u].kind /\ tasks'[u].record \in {tasks[u].record, loc[u].rec}
    /\ StampFits(tasks[u]) => StampFits(tasks'[u])

\* No row is added, and every row steps along the life cycle.
Steady == nextTask' = nextTask /\ \A u \in TaskIds : Along(u)

\* Retention is a step along the life cycle.
LEMMA KeptIsAlong ==
    ASSUME NEW u \in TaskIds, Kept(tasks, tasks', u)
    PROVE  Along(u)
<1>1. CASE tasks'[u] = tasks[u]
  BY <1>1 DEF Along
<1>2. CASE tasks[u].status \in TerminalStatuses /\ tasks'[u] = NoRow
  BY <1>2 DEF Along, StampFits, NoRow, TerminalStatuses, Lifecycle!Edges
<1> QED BY <1>1, <1>2 DEF Kept

\* What an update at a stage does to its row: it stays where the pipeline is, it
\* moves along the life cycle, and its record is the one the pipeline saved.
LEMMA StageWrites ==
    ASSUME IInv, PathInv, NEW t \in TaskIds, NEW l \in StageLabels, pc[t] = l
    PROVE  LET new == Merge(tasks[t], StageUpd(t, l)) IN
           /\ tasks[t] \in RowType /\ tasks[t].status # "absent" /\ ~tasks[t].old /\ ~new.old
           /\ StageUpd(t, l) \in UpdType
           /\ StatusFits(l, tasks[t].status) /\ WrittenFits(l, new.status)
           /\ new.status = tasks[t].status \/ <<tasks[t].status, new.status>> \in Lifecycle!Edges
           /\ new.record = tasks[t].record \/ tasks[t].record = NoInt
           /\ new.record \in {NoInt, loc[t].rec} /\ new.record \in {tasks[t].record, loc[t].rec}
           /\ new.kind = tasks[t].kind
           /\ StampFits(tasks[t]) => StampFits(new)
           /\ l \in UnsavedAt => loc[t].rec = NoInt
<1> USE LabelFacts
<1> DEFINE new == Merge(tasks[t], StageUpd(t, l))
<1>1. /\ l # "bcast" /\ Fits(t)
      /\ ~tasks[t].old /\ tasks[t].record \in {NoInt, loc[t].rec}
      /\ StatusFits(l, tasks[t].status) /\ (l \in UnsavedAt => loc[t].rec = NoInt)
  BY DEF PathInv, Live, Fits, Place
<1>2. tasks[t] \in RowType /\ StageUpd(t, l) \in UpdType
  BY StageUpdType DEF IInv, DataOK
<1>3. tasks[t].status # "absent"
  BY <1>1 DEF StatusFits, ActiveStatuses, TerminalStatuses
<1>4. /\ new.status = Overwrite(Stage[l].status, tasks[t].status, NoStr)
      /\ new.record = Overwrite(IF Stage[l].links THEN loc[t].rec ELSE NoInt, tasks[t].record, NoInt)
      /\ new.old = tasks[t].old /\ new.kind = tasks[t].kind
      /\ new.stamped = IF Stage[l].status \in TerminalStatuses THEN TRUE ELSE tasks[t].stamped
  <2>1. StageUpd(t, l).status = Stage[l].status
        /\ StageUpd(t, l).record = (IF Stage[l].links THEN loc[t].rec ELSE NoInt)
    BY DEF StageUpd
  <2>2. /\ new.status = Overwrite(StageUpd(t, l).status, tasks[t].status, NoStr)
        /\ new.record = Overwrite(StageUpd(t, l).record, tasks[t].record, NoInt)
        /\ new.old = tasks[t].old /\ new.kind = tasks[t].kind
        /\ new.stamped = IF StageUpd(t, l).status \in TerminalStatuses THEN TRUE ELSE tasks[t].stamped
    BY <1>2, MergeFields, Zenon
  <2> QED BY <2>1, <2>2, Zenon
<1> HIDE DEF new
<1>5. WrittenFits(l, new.status)
  BY <1>1, <1>4 DEF WrittenFits, Overwrite
<1>6. new.status = tasks[t].status \/ <<tasks[t].status, new.status>> \in Lifecycle!Edges
  BY <1>1, <1>4, StageEdges DEF Overwrite
<1>7. /\ new.record = tasks[t].record \/ tasks[t].record = NoInt
      /\ new.record \in {NoInt, loc[t].rec} /\ new.record \in {tasks[t].record, loc[t].rec}
  BY <1>1, <1>4 DEF Overwrite
<1>8. ASSUME StampFits(tasks[t]) PROVE StampFits(new)
  <2>1. CASE Stage[l].status \in TerminalStatuses
    BY <1>4, <2>1 DEF StampFits, Overwrite, TerminalStatuses, NoStr
  <2>2. CASE Stage[l].status = NoStr
    BY <1>4, <1>8, <2>2 DEF StampFits, Overwrite, TerminalStatuses, NoStr
  <2>3. CASE Stage[l].status \in ActiveStatuses
    <3>1. tasks[t].status \notin TerminalStatuses /\ new.status \notin TerminalStatuses
      BY <1>1, <1>4, <2>3, StageLabelsDef, PathLabels
         DEF StatusFits, PendingAt, ReadyAt, FailedAt, ActiveStatuses, TerminalStatuses, Overwrite,
             Stage, S, Progress, Links, NoStr
    <3>2. Stage[l].status \notin TerminalStatuses
      BY <2>3 DEF ActiveStatuses, TerminalStatuses
    <3> QED BY <1>4, <1>8, <3>1, <3>2 DEF StampFits
  <2> QED BY <2>1, <2>2, <2>3, StageType
<1> QED BY <1>1, <1>2, <1>3, <1>4, <1>5, <1>6, <1>7, <1>8 DEF new

\* An update that commits without its prune.
LEMMA CommitsEffect ==
    ASSUME IInv, PathInv, NEW t \in TaskIds, CommitsOnly(t)
    PROVE  /\ tasks'[t] = Merge(tasks[t], StageUpd(t, pc[t]))
           /\ \A u \in TaskIds \ {t} : tasks'[u] = tasks[u]
  BY StageWrites DEF CommitsOnly, Written, IInv, DataOK

-----------------------------------------------------------------------------
\* A step that moves no pipeline and takes no row it needs keeps the path.
LEMMA StillStep ==
    ASSUME IInv, PathInv, UNCHANGED <<pc, loc, bc, nextTask>>,
           \A u \in TaskIds : Kept(tasks, tasks', u),
           \A c \in Clients : creq'[c].at = "prune" => creq'[c] = creq[c]
    PROVE  PathInv' /\ Steady
<1>1. ASSUME NEW u \in TaskIds, pc'[u] \in Live PROVE Fits(u)'
  <2>1. Fits(u)
    BY <1>1 DEF PathInv
  <2>2. tasks'[u] = tasks[u]
    BY <2>1 DEF Fits, Kept
  <2> QED BY <2>1, <2>2 DEF Fits, Place
<1>2. ASSUME NEW u \in TaskIds, u >= nextTask' PROVE tasks'[u] = NoRow
  BY <1>2 DEF PathInv, Kept
<1>3. ASSUME NEW c \in Clients, creq'[c].at = "prune"
      PROVE  LET row == tasks'[creq'[c].task]
             IN  row.status = "pending" /\ row.record = NoInt /\ ~row.old
  <2>1. creq'[c] = creq[c] /\ creq[c].task \in TaskIds
    BY <1>3 DEF IInv, SpawnInv
  <2>2. tasks'[creq[c].task] = tasks[creq[c].task]
    BY <1>3, <2>1 DEF PathInv, Kept
  <2> QED BY <1>3, <2>1, <2>2 DEF PathInv
<1>4. Steady
  BY KeptIsAlong DEF Steady
<1> QED BY <1>1, <1>2, <1>3, <1>4 DEF PathInv

\* A step that starts a pipeline, or ends it before it started.
LEMMA EnterStep ==
    ASSUME IInv, PathInv, NEW t \in TaskIds, NEW l \in {"begin", "dQueued", "cGuard", "cQueued", "done"},
           pc[t] \in Spawned, pc' = [pc EXCEPT ![t] = l],
           UNCHANGED <<tasks, nextTask, loc, bc, creq>>
    PROVE  PathInv' /\ Steady
<1> USE LabelFacts
<1>0. pc'[t] = l /\ \A u \in TaskIds \ {t} : pc'[u] = pc[u]
  BY DEF IInv, LockInv
<1>1. ASSUME NEW u \in TaskIds, pc'[u] \in Live PROVE Fits(u)'
  <2>1. Fits(u)
    BY <1>0, <1>1 DEF PathInv, Live
  <2>2. CASE u # t
    BY <1>0, <2>1, <2>2 DEF Fits, Place
  <2>3. CASE u = t
    <3>1. l # "done" /\ pc[t] # "bcast"
      BY <1>0, <1>1, <2>3 DEF Live, Spawned
    <3>2. StatusFits(pc[t], tasks[t].status) /\ Place(t) = pc[t]
      BY <2>1, <2>3, <3>1 DEF Fits, Place
    <3>3. pc[t] \in PendingAt /\ l \in PendingAt /\ pc[t] \in UnsavedAt
      BY <3>1, PathLabels DEF Spawned, PendingAt
    <3>4. StatusFits(l, tasks[t].status)
      BY <3>1, <3>2, <3>3, PathLabels DEF StatusFits, PendingAt, ReadyAt, FailedAt
    <3> QED BY <1>0, <2>1, <2>3, <3>1, <3>2, <3>3, <3>4 DEF Fits, Place, PendingAt
  <2> QED BY <2>2, <2>3
<1>2. ASSUME NEW u \in TaskIds, pc'[u] = "none" PROVE loc'[u].rec = NoInt
  <2>1. pc[u] = "none"
    BY <1>0, <1>2
  <2> QED BY <2>1 DEF PathInv
<1>3. Steady
  BY DEF Steady, Along
<1> QED BY <1>1, <1>2, <1>3 DEF PathInv

-----------------------------------------------------------------------------
(* The steps, group by group. *)

\* While the server is not up nobody runs.
BootInv ==
    boot # "up" =>
        (\A t \in TaskIds : pc[t] \in {"none", "done"}) /\ (\A c \in Clients : creq[c].at = "idle")

\* The invariant of the refinement.
PInv == IInv /\ BootInv /\ PathInv

\* A pipeline moves only while the server is up, which it does not change.
LEMMA PipelineIsLive ==
    ASSUME NEW t \in TaskIds, Pipeline(t)
    PROVE  pc[t] \in Live /\ UNCHANGED <<boot, creq, nextTask>>
<1> USE LabelFacts DEF Live, Spawned
<1>1. ASSUME Design(t) PROVE pc[t] \in Live /\ UNCHANGED <<boot, creq, nextTask>>
  BY <1>1 DEF Design, StartDesign, StartDesignFails, Generate, SaveDesign, SaveDesignFails,
              WriteReport, SaveError, db, env
<1>2. ASSUME Check(t) PROVE pc[t] \in Live /\ UNCHANGED <<boot, creq, nextTask>>
  BY <1>2 DEF Check, StartCheck, GuardCheck, GuardCheckFails, CollectCheck, SaveCheck,
              SaveCheckFails, JudgeCheck, CheckTimeout, db, env, CheckBody
<1>3. ASSUME Report(t) \/ ReportFails(t) \/ Send(t) \/ SendRaises(t)
      PROVE  pc[t] \in Live /\ UNCHANGED <<boot, creq, nextTask>>
  BY <1>3 DEF Report, ReportFails, Send, SendRaises, db, env
<1> QED BY <1>1, <1>2, <1>3 DEF Pipeline

\* Nothing runs before the server is up, nor after it went down.
LEMMA BootStep == ASSUME IInv, BootInv, [Next]_vars PROVE BootInv'
<1>1. CASE \E c \in Clients : Request(c)
  <2>1. PICK c \in Clients : Request(c)
    BY <1>1
  <2>2. boot = "up" \/ creq[c].at # "idle"
    BY <2>1 DEF Request, Select, Insert, PruneAndSpawn, CreateFails
  <2>3. boot' = boot
    BY <2>1 DEF Request, Select, Insert, PruneAndSpawn, CreateFails, env
  <2> QED BY <2>2, <2>3 DEF BootInv
<1>2. CASE \E t \in TaskIds : Pipeline(t)
  BY <1>2, PipelineIsLive, LabelFacts DEF BootInv, Live, Spawned
<1>3. CASE ListTasks \/ DesignsAge \/ TasksAge \/ \E w \in Sockets : Connect(w) \/ Disconnect(w)
  BY <1>3 DEF ListTasks, DesignsAge, TasksAge, Connect, Disconnect, env, BootInv
<1>4. CASE Lifespan
  BY <1>4 DEF Lifespan, Start, RecoverDesigns, RecoverTasks, BootInv
<1>5. CASE Crash
  BY <1>5 DEF Crash, BootInv, Idle
<1>6. CASE UNCHANGED vars
  BY <1>6 DEF vars, BootInv
<1> QED BY <1>1, <1>2, <1>3, <1>4, <1>5, <1>6 DEF Next

\* The INSERT of create_task: the next id gets a pending row.
LEMMA InsertKeepsPath ==
    ASSUME PInv, NEW c \in Clients, Insert(c)
    PROVE  /\ PathInv'
           /\ nextTask \in TaskIds /\ nextTask' = nextTask + 1
           /\ tasks'[nextTask].status = "pending" /\ tasks'[nextTask].record = NoInt
           /\ tasks'[nextTask].kind = creq[c].kind /\ StampFits(tasks'[nextTask])
           /\ pc[nextTask] = "none" /\ creq'[c].task = nextTask /\ creq'[c].at = "prune"
           /\ creq'[c].kind = creq[c].kind /\ \A d \in Clients \ {c} : creq'[d] = creq[d]
           /\ \A u \in TaskIds \ {nextTask} : tasks'[u] = tasks[u]
<1>0. nextTask \in TaskIds /\ nextTask \in Nat /\ pc[nextTask] = "none"
  BY StoreAssumption DEF Insert, PInv, IInv, DataOK, SpawnInv, TaskIds
<1>1. /\ tasks'[nextTask] = NewRow(creq[c].kind, creq[c].params)
      /\ \A u \in TaskIds \ {nextTask} : tasks'[u] = tasks[u]
      /\ nextTask' = nextTask + 1 /\ UNCHANGED <<pc, loc, bc>>
  BY <1>0 DEF Insert, PInv, IInv, DataOK
<1>2. LET row == tasks'[nextTask]
      IN  row.status = "pending" /\ row.record = NoInt /\ row.old = FALSE
          /\ row.kind = creq[c].kind /\ row.stamped = FALSE
  BY <1>1 DEF NewRow, NoRow
<1>3. ASSUME NEW u \in TaskIds, pc'[u] \in Live PROVE Fits(u)'
  <2>1. u # nextTask
    BY <1>0, <1>1, <1>3, LabelFacts DEF Live, Spawned
  <2> QED BY <1>1, <1>3, <2>1 DEF PInv, PathInv, Fits, Place
<1>4. ASSUME NEW u \in TaskIds, u >= nextTask' PROVE tasks'[u] = NoRow
  BY <1>0, <1>1, <1>4 DEF PInv, PathInv, TaskIds
<1>5. ASSUME NEW d \in Clients, creq'[d].at = "prune"
      PROVE  LET row == tasks'[creq'[d].task]
             IN  row.status = "pending" /\ row.record = NoInt /\ ~row.old
  <2>1. CASE d = c
    <3>1. creq'[c].task = nextTask
      BY DEF Insert, PInv, IInv, DataOK, RequestType
    <3> QED BY <1>2, <2>1, <3>1
  <2>2. CASE d # c
    <3>1. creq'[d] = creq[d]
      BY <2>2 DEF Insert, PInv, IInv, DataOK
    <3>2. creq[d].task \in TaskIds \ {nextTask}
      BY <1>0, <1>5, <3>1 DEF PInv, IInv, SpawnInv, TaskIds
    <3> QED BY <1>1, <1>5, <3>1, <3>2 DEF PInv, PathInv
  <2> QED BY <2>1, <2>2
<1>6. PathInv'
  BY <1>1, <1>3, <1>4, <1>5 DEF PInv, PathInv
<1>7. /\ creq'[c].task = nextTask /\ creq'[c].at = "prune" /\ creq'[c].kind = creq[c].kind
      /\ \A d \in Clients \ {c} : creq'[d] = creq[d]
  BY DEF Insert, PInv, IInv, DataOK, RequestType
<1>8. StampFits(tasks'[nextTask])
  BY <1>2 DEF StampFits, TerminalStatuses
<1> QED BY <1>0, <1>1, <1>2, <1>6, <1>7, <1>8

\* Back from create_task the pipeline is spawned where its row is pending.
LEMMA SpawnKeepsPath ==
    ASSUME PInv, NEW c \in Clients, PruneAndSpawn(c)
    PROVE  PathInv' /\ Steady
<1> DEFINE t == creq[c].task
<1>0. /\ t \in TaskIds /\ pc[t] = "none"
      /\ \A d \in Clients \ {c} : creq[d].at = "prune" => creq[d].task # t
  BY DEF PruneAndSpawn, PInv, IInv, SpawnInv
<1>1. tasks[t].status = "pending" /\ tasks[t].record = NoInt /\ ~tasks[t].old /\ loc[t].rec = NoInt
  BY <1>0 DEF PruneAndSpawn, PInv, PathInv
<1>2. /\ pc'[t] \in {"dSpawned", "cSpawned"} /\ \A u \in TaskIds \ {t} : pc'[u] = pc[u]
      /\ UNCHANGED <<nextTask, loc, bc>>
  BY <1>0 DEF PruneAndSpawn, PInv, IInv, LockInv
<1>3. \A u \in TaskIds : Kept(tasks, tasks', u)
  BY PrunedKeeps DEF PruneAndSpawn, PInv, IInv, DataOK
<1>4. tasks'[t] = tasks[t]
  BY <1>0, <1>1, <1>3 DEF Kept
<1>5. \A d \in Clients : creq'[d].at = "prune" => d # c /\ creq'[d] = creq[d]
  BY DEF PruneAndSpawn, Idle, PInv, IInv, DataOK
<1> HIDE DEF t
<1>6. ASSUME NEW u \in TaskIds, pc'[u] \in Live PROVE Fits(u)'
  <2>1. CASE u = t
    <3>1. StatusFits(pc'[t], "pending") /\ pc'[t] # "bcast"
      BY <1>2, PathLabels
         DEF StatusFits, PendingAt, ReadyAt, FailedAt, ActiveStatuses
    <3> QED BY <1>1, <1>2, <1>4, <2>1, <3>1 DEF Fits
  <2>2. CASE u # t
    <3>1. Fits(u) /\ pc'[u] = pc[u]
      BY <1>2, <1>6, <2>2 DEF PInv, PathInv
    <3>2. tasks'[u] = tasks[u]
      BY <1>3, <3>1 DEF Fits, Kept
    <3> QED BY <1>2, <3>1, <3>2 DEF Fits, Place
  <2> QED BY <2>1, <2>2
<1>7. ASSUME NEW u \in TaskIds, u >= nextTask' PROVE tasks'[u] = NoRow
  BY <1>2, <1>3, <1>7 DEF PInv, PathInv, Kept
<1>8. ASSUME NEW d \in Clients, creq'[d].at = "prune"
      PROVE  LET row == tasks'[creq'[d].task]
             IN  row.status = "pending" /\ row.record = NoInt /\ ~row.old
  <2>1. creq'[d] = creq[d] /\ creq[d].task \in TaskIds
    BY <1>5, <1>8 DEF PInv, IInv, SpawnInv
  <2>2. tasks'[creq[d].task] = tasks[creq[d].task]
    BY <1>3, <1>8, <2>1 DEF PInv, PathInv, Kept
  <2> QED BY <1>8, <2>1, <2>2 DEF PInv, PathInv
<1>9. \A u \in TaskIds : pc'[u] = "none" => loc'[u].rec = NoInt
  BY <1>1, <1>2 DEF PInv, PathInv
<1>10. Steady
  BY <1>2, <1>3, KeptIsAlong DEF Steady
<1> QED BY <1>6, <1>7, <1>8, <1>9, <1>10 DEF PathInv

\* Every step of a request.
LEMMA RequestPath ==
    ASSUME PInv, NEW c \in Clients, Request(c)
    PROVE  PathInv' /\ (Steady \/ Insert(c))
<1>1. CASE Insert(c)
  BY <1>1, InsertKeepsPath
<1>2. CASE PruneAndSpawn(c)
  BY <1>2, SpawnKeepsPath
<1>3. CASE Select(c) \/ CreateFails(c)
  <2>1. UNCHANGED <<tasks, nextTask, pc, loc, bc>>
    BY <1>3 DEF Select, CreateFails, db
  <2>2. \A d \in Clients : creq'[d].at = "prune" => creq'[d] = creq[d]
    BY <1>3 DEF Select, CreateFails, Idle, PInv, IInv, DataOK
  <2>3. \A u \in TaskIds : Kept(tasks, tasks', u)
    BY <2>1 DEF Kept
  <2> QED BY <2>1, <2>2, <2>3, StillStep DEF PInv
<1> QED BY <1>1, <1>2, <1>3 DEF Request

\* A step that touches no row.
LEMMA RowsAlone == ASSUME UNCHANGED <<tasks, nextTask>> PROVE Steady
  BY DEF Steady, Along

\* A step of the design pipeline between its stages.
LEMMA DesignPath ==
    ASSUME PInv, NEW t \in TaskIds, Design(t)
    PROVE  PathInv' /\ Steady
<1> USE LabelFacts
<1>0. /\ UNCHANGED <<tasks, nextTask, creq>>
      /\ IInv /\ PathInv /\ loc \in [TaskIds -> LocalType]
  BY DEF Design, StartDesign, StartDesignFails, Generate, SaveDesign, SaveDesignFails,
         WriteReport, SaveError, db, PInv, IInv, DataOK
<1>1. CASE StartDesign(t) \/ StartDesignFails(t)
  <2>1. \E l \in {"begin", "dQueued", "done"} : pc' = [pc EXCEPT ![t] = l]
    BY <1>1 DEF StartDesign, StartDesignFails, Acquire
  <2>2. pc[t] \in Spawned /\ UNCHANGED <<loc, bc>>
    BY <1>1 DEF StartDesign, StartDesignFails, Spawned
  <2> QED BY <1>0, <2>1, <2>2, EnterStep
<1>2. ASSUME pc[t] \in Inside \ {"bcast"}
      PROVE  /\ StatusFits(pc[t], tasks[t].status) /\ tasks[t].record \in {NoInt, loc[t].rec}
             /\ pc[t] \in UnsavedAt => loc[t].rec = NoInt
  BY <1>0, <1>2 DEF PathInv, Live, Fits, Place
<1>3. CASE Generate(t)
  <2>1. PICK l \in {"quick", "reject", "allcash", "except", "degrade", "static"} : Goto(t, l)
    BY <1>3 DEF Generate
  <2>2. l \in (Inside \ {"bcast"}) /\ pc[t] \in Inside \ {"bcast"} /\ UNCHANGED loc
    BY <1>3, StageLabelsDef DEF Generate
  <2>3. StatusFits(l, tasks[t].status) /\ loc[t].rec = NoInt
    BY <1>2, <1>3, <2>2, PathLabels DEF Generate, StatusFits, PendingAt, ReadyAt, FailedAt
  <2> QED BY <1>0, <1>2, <2>1, <2>2, <2>3, QuietStep, RowsAlone
<1>4. CASE SaveDesign(t)
  <2> DEFINE l == IF pc[t] = "save" THEN "link" ELSE "linkEmpty"
  <2>1. /\ pc[t] \in {"save", "saveEmpty"} /\ Goto(t, l) /\ l \in Inside \ {"bcast"}
        /\ l \notin UnsavedAt /\ pc[t] \in UnsavedAt
    BY <1>4, StageLabelsDef, PathLabels DEF SaveDesign
  <2>2. \A u \in TaskIds \ {t} : loc'[u] = loc[u]
    BY <1>0, <1>4 DEF SaveDesign
  <2>3. StatusFits(l, tasks[t].status) /\ tasks[t].record = NoInt
    BY <1>2, <2>1, PathLabels DEF StatusFits, PendingAt, ReadyAt, FailedAt
  <2> QED BY <1>0, <2>1, <2>2, <2>3, QuietStep, RowsAlone
<1>5. CASE SaveDesignFails(t)
  <2> DEFINE l == IF pc[t] = "save" THEN "unsaved" ELSE "exit"
  <2>1. /\ pc[t] \in {"save", "saveEmpty"} /\ Goto(t, l) /\ l \in (Inside \ {"bcast"}) \cup {"exit"}
        /\ UNCHANGED loc /\ pc[t] \in UnsavedAt
    BY <1>5, StageLabelsDef, PathLabels DEF SaveDesignFails
  <2>2. l # "exit" => StatusFits(l, tasks[t].status)
    BY <1>2, <2>1, PathLabels DEF StatusFits, PendingAt, ReadyAt, FailedAt
  <2> QED BY <1>0, <1>2, <2>1, <2>2, QuietStep, RowsAlone
<1>6. CASE WriteReport(t)
  <2>1. PICK l \in {"llmFailed", "reported"} : Goto(t, l)
    BY <1>6 DEF WriteReport
  <2>2. /\ pc[t] = "llm" /\ l \in Inside \ {"bcast"} /\ l \notin UnsavedAt
    BY <1>6, StageLabelsDef, PathLabels DEF WriteReport
  <2>3. (\A u \in TaskIds \ {t} : loc'[u] = loc[u]) /\ loc'[t].rec = loc[t].rec
    BY <1>0, <1>6 DEF WriteReport, LocalType
  <2>4. StatusFits(l, tasks[t].status)
    BY <1>2, <2>2, PathLabels DEF StatusFits, PendingAt, ReadyAt, FailedAt
  <2> QED BY <1>0, <1>2, <2>1, <2>2, <2>3, <2>4, QuietStep, RowsAlone
<1>7. CASE SaveError(t)
  <2>1. pc[t] = "saveError" /\ Goto(t, "exit") /\ UNCHANGED loc
    BY <1>7 DEF SaveError
  <2> QED BY <1>0, <1>2, <2>1, QuietStep, RowsAlone
<1> QED BY <1>1, <1>3, <1>4, <1>5, <1>6, <1>7 DEF Design

\* The timeout of the check body, wherever it awaits.
LEMMA TimeoutPath ==
    ASSUME PInv, NEW t \in TaskIds, CheckTimeout(t)
    PROVE  PathInv' /\ Steady
<1> USE LabelFacts
<1>0. /\ Goto(t, "cFail") /\ "cFail" \in Inside \ {"bcast"} /\ "cFail" \notin UnsavedAt
      /\ UNCHANGED <<nextTask, creq, loc>> /\ IInv /\ PathInv /\ pc[t] \in Inside
  BY StageLabelsDef, PathLabels DEF CheckTimeout, PInv
<1>1. pc'[t] = "cFail"
  BY <1>0, GotoMoves DEF IInv
<1>2. CASE UNCHANGED tasks
  <2>1. ~tasks[t].old /\ tasks[t].record \in {NoInt, loc[t].rec}
        /\ (StatusFits(pc[t], tasks[t].status) \/ WrittenFits(bc.from, tasks[t].status))
    BY <1>0 DEF PathInv, Live, Fits
  <2>2. tasks[t].status \in ActiveStatuses \cup TerminalStatuses
    <3>1. CASE pc[t] # "bcast"
      BY <1>0, <3>1 DEF PathInv, Live, Fits, StatusFits
    <3>2. CASE pc[t] = "bcast"
      <4>1. bc.from \in StageLabels /\ WrittenFits(bc.from, tasks[t].status)
        BY <1>0, <3>2 DEF IInv, BcastInv, PathInv, Live, Fits
      <4> QED BY <4>1, StageType DEF WrittenFits, StatusFits
    <3> QED BY <3>1, <3>2
  <2>3. StatusFits("cFail", tasks[t].status)
    BY <2>2, PathLabels DEF StatusFits, PendingAt, ReadyAt, FailedAt
  <2> QED BY <1>0, <1>2, <2>1, <2>3, QuietStep, RowsAlone
<1>3. CASE CommitsOnly(t)
  <2> DEFINE new == Merge(tasks[t], StageUpd(t, pc[t]))
  <2>1. tasks'[t] = new /\ \A u \in TaskIds \ {t} : tasks'[u] = tasks[u]
    BY <1>0, <1>3, CommitsEffect
  <2>2. /\ pc[t] \in StageLabels /\ Stage[pc[t]].status \in TerminalStatuses
        /\ ~new.old /\ WrittenFits(pc[t], new.status) /\ new.record \in {NoInt, loc[t].rec}
        /\ new.status = tasks[t].status \/ <<tasks[t].status, new.status>> \in Lifecycle!Edges
        /\ new.record = tasks[t].record \/ tasks[t].record = NoInt
        /\ new.record \in {tasks[t].record, loc[t].rec} /\ new.kind = tasks[t].kind
        /\ StampFits(tasks[t]) => StampFits(new)
    BY <1>0, <1>3, StageWrites DEF CommitsOnly
  <2> HIDE DEF new
  <2>3. StatusFits("cFail", new.status)
    BY <2>2, PathLabels
       DEF WrittenFits, StatusFits, PendingAt, ReadyAt, FailedAt, TerminalStatuses, NoStr
  <2>4. Fits(t)'
    BY <1>0, <1>1, <2>1, <2>2, <2>3 DEF Fits, Place
  <2>5. PathInv'
    BY <1>0, <2>1, <2>4, PathStep DEF Kept
  <2>6. Steady
    BY <1>0, <2>1, <2>2 DEF Steady, Along
  <2> QED BY <2>5, <2>6
<1> QED BY <1>2, <1>3 DEF CheckTimeout

\* A step of the strategy check pipeline between its stages.
LEMMA CheckPath ==
    ASSUME PInv, NEW t \in TaskIds, Check(t)
    PROVE  PathInv' /\ Steady
<1> USE LabelFacts
<1>0. IInv /\ PathInv /\ loc \in [TaskIds -> LocalType]
  BY DEF PInv, IInv, DataOK
<1>1. CASE StartCheck(t)
  <2>1. \E l \in {"cGuard", "cQueued"} : pc' = [pc EXCEPT ![t] = l]
    BY <1>1 DEF StartCheck, Acquire
  <2>2. pc[t] \in Spawned /\ UNCHANGED <<tasks, nextTask, creq, loc, bc>>
    BY <1>1 DEF StartCheck, Spawned, db
  <2> QED BY <1>0, <2>1, <2>2, EnterStep
<1>2. ASSUME pc[t] \in Inside \ {"bcast"}
      PROVE  /\ StatusFits(pc[t], tasks[t].status) /\ tasks[t].record \in {NoInt, loc[t].rec}
             /\ pc[t] \in UnsavedAt => loc[t].rec = NoInt
  BY <1>0, <1>2 DEF PathInv, Live, Fits, Place
<1>3. CASE GuardCheck(t) \/ GuardCheckFails(t)
  <2>1. PICK l \in {"exit", "cBegin"} : Goto(t, l)
    BY <1>3 DEF GuardCheck, GuardCheckFails, Handler
  <2>2. /\ pc[t] = "cGuard" /\ UNCHANGED <<tasks, nextTask, creq, loc>> /\ "cGuard" \in UnsavedAt
        /\ l \in (Inside \ {"bcast"}) \cup {"exit"}
    BY <1>3, StageLabelsDef, PathLabels DEF GuardCheck, GuardCheckFails, db
  <2>3. l # "exit" => StatusFits(l, tasks[t].status)
    BY <1>2, <2>1, <2>2, PathLabels DEF StatusFits, PendingAt, ReadyAt, FailedAt
  <2> QED BY <1>0, <1>2, <2>1, <2>2, <2>3, QuietStep, RowsAlone
<1>4. CASE CollectCheck(t)
  <2>1. PICK l \in {"cCollected", "cFail"} : Goto(t, l)
    BY <1>4 DEF CollectCheck
  <2>2. /\ pc[t] = "cData" /\ UNCHANGED <<tasks, nextTask, creq, loc>> /\ "cData" \in UnsavedAt
        /\ l \in Inside \ {"bcast"} /\ pc[t] \in Inside \ {"bcast"}
    BY <1>4, StageLabelsDef, PathLabels DEF CollectCheck, db, CheckBody
  <2>3. StatusFits(l, tasks[t].status)
    BY <1>2, <2>1, <2>2, PathLabels DEF StatusFits, PendingAt, ReadyAt, FailedAt
  <2> QED BY <1>0, <1>2, <2>1, <2>2, <2>3, QuietStep, RowsAlone
<1>5. CASE SaveCheck(t)
  <2>1. /\ pc[t] = "cSave" /\ Goto(t, "cLink") /\ UNCHANGED <<tasks, nextTask, creq>>
        /\ "cSave" \in UnsavedAt /\ "cLink" \notin UnsavedAt
        /\ {"cSave", "cLink"} \subseteq Inside \ {"bcast"}
    BY <1>5, StageLabelsDef, PathLabels DEF SaveCheck, CheckBody
  <2>2. \A u \in TaskIds \ {t} : loc'[u] = loc[u]
    BY <1>0, <1>5 DEF SaveCheck
  <2>3. StatusFits("cLink", tasks[t].status) /\ tasks[t].record = NoInt
    BY <1>2, <2>1, PathLabels DEF StatusFits, PendingAt, ReadyAt, FailedAt
  <2> QED BY <1>0, <2>1, <2>2, <2>3, QuietStep, RowsAlone
<1>6. CASE SaveCheckFails(t) \/ JudgeCheck(t)
  <2>1. PICK l \in {"cJudge", "cEmpty", "cComment", "cFinish"} : Goto(t, l)
    BY <1>6 DEF SaveCheckFails, JudgeCheck, Handler
  <2>2. /\ pc[t] \in {"cSave", "cJudge", "cComment"} /\ UNCHANGED <<tasks, nextTask, creq, loc>>
        /\ {l, pc[t]} \subseteq Inside \ {"bcast"} /\ l \notin UnsavedAt
    BY <1>6, StageLabelsDef, PathLabels DEF SaveCheckFails, JudgeCheck, db, CheckBody
  <2>3. StatusFits(l, tasks[t].status)
    BY <1>2, <2>1, <2>2, PathLabels DEF StatusFits, PendingAt, ReadyAt, FailedAt
  <2> QED BY <1>0, <1>2, <2>1, <2>2, <2>3, QuietStep, RowsAlone
<1> QED BY <1>1, <1>3, <1>4, <1>5, <1>6, TimeoutPath DEF Check

\* A stage: its update, the prune that trails it, and its broadcast.
LEMMA ReportPath ==
    ASSUME PInv, NEW t \in TaskIds, Report(t) \/ ReportFails(t)
    PROVE  PathInv' /\ Steady
<1> USE LabelFacts
<1> DEFINE l   == pc[t]
           new == Merge(tasks[t], StageUpd(t, l))
<1>0. /\ l \in StageLabels /\ UNCHANGED <<nextTask, creq, loc>> /\ IInv /\ PathInv
      /\ pc[t] \in Inside /\ loc \in [TaskIds -> LocalType]
  BY DEF Report, ReportFails, PInv, IInv, DataOK
<1>1. /\ tasks \in [TaskIds -> RowType] /\ tasks[t].status # "absent" /\ ~tasks[t].old /\ ~new.old
      /\ StageUpd(t, l) \in UpdType
      /\ StatusFits(l, tasks[t].status) /\ WrittenFits(l, new.status)
      /\ new.status = tasks[t].status \/ <<tasks[t].status, new.status>> \in Lifecycle!Edges
      /\ new.record = tasks[t].record \/ tasks[t].record = NoInt
      /\ new.record \in {NoInt, loc[t].rec} /\ new.record \in {tasks[t].record, loc[t].rec}
      /\ new.kind = tasks[t].kind /\ (StampFits(tasks[t]) => StampFits(new))
      /\ tasks[t].record \in {NoInt, loc[t].rec}
      /\ l \in UnsavedAt => loc[t].rec = NoInt
  BY <1>0, StageWrites DEF IInv, DataOK, PathInv, Live, Fits
<1>2. ASSUME tasks'[t] = new, \A u \in TaskIds \ {t} : Kept(tasks, tasks', u)
      PROVE  Steady
  BY <1>0, <1>1, <1>2, KeptIsAlong DEF Steady, Along
<1>3. Stage[l].next \in Inside \cup {"exit"} /\ Stage[l].next # "bcast"
      /\ (Handler(l) = "exit" \/ Handler(l) \in Inside \ {"bcast"})
  <2>1. Handler(l) \in {"exit", "cJudge", "cFail", "except"} /\ l # "bcast"
    BY <1>0, HandlerFacts
  <2> QED BY <1>0, <2>1, StageNext, StageLabelsDef DEF CheckBody
<1>4. CASE Report(t)
  <2>1. tasks'[t] = new /\ \A u \in TaskIds \ {t} : Kept(tasks, tasks', u)
    BY <1>1, <1>4, UpdatedEffect DEF Report
  <2> HIDE DEF new
  <2>2. CASE Goto(t, After(t, l))
    <3> DEFINE m == After(t, l)
    <3>1. m \in {"exit", Stage[l].next}
      BY DEF After
    <3>2. ASSUME m # "exit" PROVE Fits(t)'
      <4>1. StatusFits(m, new.status) /\ (m \in UnsavedAt => loc[t].rec = NoInt) /\ m # "bcast"
        BY <1>0, <1>1, <1>3, <3>1, <3>2, StageFits, SavedStays
      <4>2. pc'[t] = m
        BY <1>0, <1>3, <2>2, <3>1, <3>2, GotoMoves DEF IInv
      <4> HIDE DEF m
      <4> QED BY <1>0, <1>1, <2>1, <4>1, <4>2 DEF Fits, Place
    <3> HIDE DEF m
    <3>3. PathInv'
      BY <1>0, <1>3, <2>1, <2>2, <3>1, <3>2, PathStep DEF m
    <3> QED BY <1>2, <2>1, <3>3
  <2>3. CASE bc'.from = l /\ Goto(t, "bcast")
    <3>1. pc'[t] = "bcast"
      BY <1>0, <2>3, GotoMoves DEF IInv
    <3>2. Fits(t)'
      BY <1>0, <1>1, <2>1, <2>3, <3>1 DEF Fits, Place
    <3>3. PathInv'
      BY <1>0, <2>1, <2>3, <3>2, PathStep
    <3> QED BY <1>2, <2>1, <3>3
  <2> QED BY <1>4, <2>2, <2>3 DEF Report, StartNotify
<1>5. CASE ReportFails(t)
  <2> DEFINE m == Handler(l)
  <2>1. Goto(t, m)
    BY <1>5 DEF ReportFails
  <2>2. ASSUME UNCHANGED tasks PROVE PathInv' /\ Steady
    <3>1. m # "exit" => StatusFits(m, tasks[t].status) /\ m \notin UnsavedAt
      BY <1>0, <1>1, FailureFits, SavedStays
    <3> QED BY <1>0, <1>1, <1>3, <2>1, <2>2, <3>1, QuietStep, RowsAlone
  <2>3. ASSUME CommitsOnly(t) PROVE PathInv' /\ Steady
    <3>1. tasks'[t] = new /\ \A u \in TaskIds \ {t} : Kept(tasks, tasks', u)
      BY <1>0, <2>3, CommitsEffect DEF Kept
    <3> HIDE DEF new
    <3>2. ASSUME m # "exit" PROVE Fits(t)'
      <4>1. StatusFits(m, new.status) /\ m \notin UnsavedAt /\ m # "bcast"
        BY <1>0, <1>1, <1>3, <3>2, StageFits, SavedStays
      <4>2. pc'[t] = m
        BY <1>0, <1>3, <2>1, <3>2, GotoMoves DEF IInv
      <4> HIDE DEF m
      <4> QED BY <1>0, <1>1, <3>1, <4>1, <4>2 DEF Fits, Place
    <3> HIDE DEF m
    <3>3. PathInv'
      BY <1>0, <1>3, <2>1, <3>1, <3>2, PathStep DEF m
    <3> QED BY <1>2, <3>1, <3>3
  <2> QED BY <1>5, <2>2, <2>3 DEF ReportFails
<1> QED BY <1>4, <1>5

\* A broadcast that goes on, ends, or raises.
LEMMA SendPath ==
    ASSUME PInv, NEW t \in TaskIds, Send(t) \/ SendRaises(t)
    PROVE  PathInv' /\ Steady
<1> USE LabelFacts
<1> DEFINE l == bc.from
           s == tasks[t].status
<1>0. /\ pc[t] = "bcast" /\ UNCHANGED <<tasks, nextTask, creq, loc>> /\ IInv /\ PathInv
      /\ l \in StageLabels
  BY DEF Send, SendRaises, db, PInv, IInv, BcastInv
<1>1. /\ Fits(t) /\ WrittenFits(l, s) /\ tasks[t].record \in {NoInt, loc[t].rec}
      /\ l \in UnsavedAt => loc[t].rec = NoInt
  BY <1>0 DEF PathInv, Live, Fits, Place
<1>2. ASSUME NEW m \in {Handler(l), After(t, l)}, Goto(t, m) PROVE PathInv' /\ Steady
  <2>1. m \in {"exit", Stage[l].next, Handler(l)}
    BY DEF After
  <2>2. Stage[l].next \in Inside \cup {"exit"} /\ Stage[l].next # "bcast"
        /\ (Handler(l) = "exit" \/ Handler(l) \in Inside \ {"bcast"})
    <3>1. Handler(l) \in {"exit", "cJudge", "cFail", "except"} /\ l # "bcast"
      BY <1>0, HandlerFacts
    <3> QED BY <1>0, <3>1, StageNext, StageLabelsDef DEF CheckBody
  <2>3. m # "exit" => StatusFits(m, s) /\ (m \in UnsavedAt => loc[t].rec = NoInt)
    BY <1>0, <1>1, <2>1, StageFits, SavedStays
  <2> HIDE DEF l, s
  <2> QED BY <1>0, <1>1, <1>2, <2>1, <2>2, <2>3, QuietStep, RowsAlone DEF s
<1>3. CASE \E m \in {Handler(l), After(t, l)} : Goto(t, m)
  BY <1>2, <1>3
<1>4. CASE pc' = pc /\ bc'.from = bc.from
  <2>1. PathInv'
    BY <1>0, <1>4 DEF PathInv, Fits, Place
  <2> QED BY <1>0, <2>1, RowsAlone
<1>5. CASE Send(t)
  <2>1. PICK dead \in {bc.dead, bc.dead \cup {bc.cur}} :
         \/ /\ \E w \in conns \ bc.seen :
                 bc' = [bc EXCEPT !.cur = w, !.seen = @ \cup {w},
                                  !.todo = @ \ {w}, !.dead = dead]
            /\ UNCHANGED <<pc, lock, conns>>
         \/ Goto(t, After(t, bc.from))
    BY <1>5 DEF Send
  <2>2. CASE /\ \E w \in conns \ bc.seen :
                  bc' = [bc EXCEPT !.cur = w, !.seen = @ \cup {w},
                                   !.todo = @ \ {w}, !.dead = dead]
             /\ UNCHANGED <<pc, lock, conns>>
    <3>1. bc'.from = bc.from
      BY <2>2
    <3> QED BY <1>4, <2>2, <3>1
  <2> QED BY <1>3, <2>1, <2>2
<1>6. CASE SendRaises(t)
  BY <1>3, <1>6 DEF SendRaises
<1> QED BY <1>5, <1>6

\* Time, sockets, crash and restart.
LEMMA EnvPath ==
    ASSUME PInv, ListTasks \/ DesignsAge \/ TasksAge \/ Crash \/ Lifespan
                 \/ \E w \in Sockets : Connect(w) \/ Disconnect(w)
    PROVE  PathInv' /\ Steady
<1> USE LabelFacts
<1>0. IInv /\ BootInv /\ PathInv /\ tasks \in [TaskIds -> RowType]
  BY DEF PInv, IInv, DataOK
<1>1. CASE ListTasks
  BY <1>0, <1>1, PrunedKeeps, StillStep DEF ListTasks
<1>2. CASE \/ DesignsAge \/ Start \/ RecoverDesigns
           \/ \E w \in Sockets : Connect(w) \/ Disconnect(w)
  <2>1. UNCHANGED <<tasks, nextTask, pc, loc, bc, creq>>
    BY <1>2 DEF DesignsAge, Start, RecoverDesigns, Connect, Disconnect, db
  <2> QED BY <1>0, <2>1, StillStep DEF Kept
<1>3. ASSUME \A t \in TaskIds : pc'[t] \in {"none", "done"},
             \A t \in TaskIds : pc'[t] = "none" => loc'[t].rec = NoInt,
             \A c \in Clients : creq'[c].at = "idle",
             nextTask' = nextTask,
             \A t \in TaskIds : t >= nextTask => tasks'[t] = NoRow
      PROVE  PathInv'
  BY <1>3 DEF PathInv, Live, Spawned
<1>4. CASE TasksAge
  <2>1. \A t \in TaskIds : pc[t] \in {"none", "done"}
    BY <1>0, <1>4 DEF TasksAge, IInv, LockInv, Live
  <2>2. /\ \A c \in Clients : creq'[c].at = "idle"
        /\ UNCHANGED <<nextTask, pc, loc>>
    BY <1>4 DEF TasksAge
  <2>3. \A t \in TaskIds : /\ tasks'[t].status = tasks[t].status /\ tasks'[t].record = tasks[t].record
                           /\ tasks'[t].kind = tasks[t].kind /\ tasks'[t].stamped = tasks[t].stamped
    BY <1>0, <1>4 DEF TasksAge, RowType
  <2>4. ASSUME NEW t \in TaskIds, t >= nextTask PROVE tasks'[t] = NoRow
    <3>1. tasks[t] = NoRow /\ NoRow.status = "absent"
      BY <1>0, <2>4 DEF PathInv, NoRow
    <3> QED BY <1>4, <3>1 DEF TasksAge
  <2>5. PathInv'
    BY <1>0, <1>3, <2>1, <2>2, <2>4 DEF PathInv
  <2> QED BY <2>2, <2>3, <2>5 DEF Steady, Along, StampFits
<1>5. CASE Crash
  <2>1. \A t \in TaskIds : pc'[t] \in {"none", "done"}
    BY <1>5 DEF Crash
  <2>2. (\A c \in Clients : creq'[c].at = "idle") /\ (\A t \in TaskIds : loc'[t].rec = NoInt)
        /\ UNCHANGED <<tasks, nextTask>>
    BY <1>5 DEF Crash, Idle, NoLoc, db
  <2>3. PathInv'
    BY <1>0, <1>3, <2>1, <2>2 DEF PathInv
  <2> QED BY <2>2, <2>3, RowsAlone
<1>6. CASE RecoverTasks
  <2>1. (\A t \in TaskIds : pc'[t] \in {"none", "done"}) /\ (\A c \in Clients : creq'[c].at = "idle")
        /\ UNCHANGED <<nextTask, pc, loc>>
    BY <1>0, <1>6 DEF RecoverTasks, BootInv
  <2>2. ASSUME NEW t \in TaskIds PROVE Along(t) /\ (t >= nextTask => tasks'[t] = NoRow)
    <3>1. tasks[t] \in RowType
      BY <1>0
    <3>2. \/ tasks'[t] = tasks[t]
          \/ /\ tasks[t].status \in ActiveStatuses
             /\ tasks'[t] = [tasks[t] EXCEPT !.status = "failed", !.stamped = TRUE]
      BY <1>6 DEF RecoverTasks
    <3>3. CASE tasks'[t] = tasks[t]
      BY <1>0, <3>3 DEF Along, PathInv
    <3>4. CASE /\ tasks[t].status \in ActiveStatuses
               /\ tasks'[t] = [tasks[t] EXCEPT !.status = "failed", !.stamped = TRUE]
      <4>1. /\ tasks'[t].status = "failed" /\ tasks'[t].record = tasks[t].record
            /\ tasks'[t].kind = tasks[t].kind /\ tasks'[t].stamped = TRUE
        BY <3>1, <3>4 DEF RowType
      <4>2. <<tasks[t].status, "failed">> \in Lifecycle!Edges
        BY <3>4 DEF ActiveStatuses, Lifecycle!Edges
      <4>3. ~(t >= nextTask)
        BY <1>0, <3>4 DEF PathInv, NoRow, ActiveStatuses
      <4> QED BY <4>1, <4>2, <4>3 DEF Along, StampFits, TerminalStatuses
    <3> QED BY <3>2, <3>3, <3>4
  <2>3. PathInv'
    BY <1>0, <1>3, <2>1, <2>2 DEF PathInv
  <2> QED BY <2>1, <2>2, <2>3 DEF Steady
<1> QED BY <1>1, <1>2, <1>4, <1>5, <1>6 DEF Lifespan

\* Every step keeps the invariant, and is steady or inserts a row.
LEMMA PathNext ==
    ASSUME PInv, [Next]_vars
    PROVE  PInv' /\ (Steady \/ \E c \in Clients : Insert(c))
<1>1. IInv' /\ BootInv'
  BY NextStep, BootStep DEF PInv
<1>2. CASE \E c \in Clients : Request(c)
  BY <1>1, <1>2, RequestPath DEF PInv
<1>3. CASE \E t \in TaskIds : Pipeline(t)
  BY <1>1, <1>3, DesignPath, CheckPath, ReportPath, SendPath DEF Pipeline, PInv
<1>4. CASE \/ ListTasks \/ DesignsAge \/ TasksAge \/ Crash \/ Lifespan
           \/ \E w \in Sockets : Connect(w) \/ Disconnect(w)
  BY <1>1, <1>4, EnvPath DEF PInv
<1>5. CASE UNCHANGED vars
  BY <1>1, <1>5, StillStep DEF PInv, vars, Kept
<1> QED BY <1>2, <1>3, <1>4, <1>5 DEF Next

-----------------------------------------------------------------------------
\* The status the life cycle sees.
Stat(t) == IF t >= nextTask THEN "unused" ELSE tasks[t].status

\* The statuses of the life cycle are those of the table, and unused.
LEMMA LifecycleStatuses ==
    ActiveStatuses \cup TerminalStatuses \cup {"absent", "unused"} \subseteq Lifecycle!Statuses
<1>1. {<<"unused", "pending">>, <<"pending", "running">>, <<"running", "quick_ready">>,
       <<"quick_ready", "completed">>, <<"quick_ready", "completed_with_errors">>,
       <<"failed", "absent">>} \subseteq Lifecycle!Edges
  BY DEF Lifecycle!Edges
<1>2. \A e \in Lifecycle!Edges : e[1] \in Lifecycle!Statuses /\ e[2] \in Lifecycle!Statuses
  BY DEF Lifecycle!Statuses
<1> QED BY <1>1, <1>2 DEF ActiveStatuses, TerminalStatuses

\* A step of the pipelines is a step of the life cycle.
LEMMA LifecycleStep ==
    ASSUME PInv, [Next]_vars
    PROVE  Lifecycle!Next
<1>0. PInv' /\ (Steady \/ \E c \in Clients : Insert(c))
  BY PathNext
<1>1. /\ nextTask \in Nat /\ nextTask' \in Nat /\ TaskIds \subseteq Nat
      /\ tasks' \in [TaskIds -> RowType] /\ tasks \in [TaskIds -> RowType]
  BY <1>0, StoreAssumption DEF PInv, IInv, DataOK, TaskIds
<1>2. ASSUME NEW t \in TaskIds
      PROVE  /\ Stat(t)' = Stat(t) \/ <<Stat(t), Stat(t)'>> \in Lifecycle!Edges
             /\ tasks'[t].record = tasks[t].record \/ tasks[t].record = NoInt \/ Stat(t)' = "absent"
             /\ Stat(t)' \in Lifecycle!Statuses
  <2>0. t >= nextTask => tasks[t].record = NoInt
    BY DEF PInv, PathInv, NoRow
  <2>1. Stat(t)' \in Lifecycle!Statuses
    BY <1>1, LifecycleStatuses DEF Stat, RowType
  <2>2. CASE Steady
    BY <2>0, <2>1, <2>2 DEF Steady, Along, Stat
  <2>3. CASE \E c \in Clients : Insert(c)
    <3>1. /\ nextTask' = nextTask + 1 /\ tasks'[nextTask].status = "pending"
          /\ \A u \in TaskIds \ {nextTask} : tasks'[u] = tasks[u]
      BY <2>3, InsertKeepsPath
    <3>2. CASE t = nextTask
      <4>1. Stat(t) = "unused" /\ Stat(t)' = "pending"
        BY <1>1, <3>1, <3>2 DEF Stat
      <4>2. <<"unused", "pending">> \in Lifecycle!Edges
        BY DEF Lifecycle!Edges
      <4> QED BY <1>1, <2>0, <2>1, <3>2, <4>1, <4>2
    <3>3. CASE t # nextTask
      <4>1. Stat(t)' = Stat(t)
        BY <1>1, <3>1, <3>3 DEF Stat
      <4> QED BY <2>1, <3>1, <3>3, <4>1
    <3> QED BY <3>2, <3>3
  <2> QED BY <1>0, <2>2, <2>3
<1> QED BY <1>2 DEF Lifecycle!Next, Lifecycle!Row, Stat

\* The invariant of the refinement holds before the first start.
LEMMA InitPInv == Init => PInv
<1> SUFFICES ASSUME Init PROVE PInv
  OBVIOUS
<1>1. IInv
  BY InitIInv
<1>2. BootInv
  BY DEF Init, BootInv, Idle
<1>3. PathInv
  BY DEF Init, PathInv, Live, Inside, Spawned, Queued, StageLabels, Stage, CheckBody, NoLoc, Idle
<1> QED BY <1>1, <1>2, <1>3 DEF PInv

\* The task pipelines implement the life cycle of the API contract: whatever
\* fails, times out, crashes or restarts, a row moves only along its edges, failed
\* is final, and a record_id, once given, stays.
THEOREM ImplementsLifecycle == Spec => LifecycleSpec
<1>1. Init => PInv
  BY InitPInv
<1>2. PInv /\ [Next]_vars => PInv'
  BY PathNext
<1>3. Init => Lifecycle!Init
  BY StoreAssumption DEF Init, Lifecycle!Init, TaskIds, NoRow
<1>4. PInv /\ [Next]_vars => Lifecycle!Next
  BY LifecycleStep
<1> QED BY <1>1, <1>2, <1>3, <1>4, PTL DEF Spec, LifecycleSpec, Lifecycle!Spec

-----------------------------------------------------------------------------
(* Records and executors.  On top of the path: a pipeline keeps to the     *)
(* labels of its kind, ids that pipelines hold are handed out and held     *)
(* once, and a pipeline ends only with a terminal row or by a fault.       *)

\* The labels of the strategy check pipeline.
CheckAt == CheckBody \cup {"cSpawned", "cQueued", "cGuard", "cFail"}

KindAt(l) == IF l \in CheckAt THEN "check" ELSE "design"

\* A pipeline is at a label of its task's kind, a request spawns its own kind.
KindInv ==
    /\ \A t \in TaskIds : pc[t] \in Live => tasks[t].kind = KindAt(Place(t))
    /\ \A c \in Clients :
          /\ creq[c].at # "idle" => creq[c].kind \in Kinds
          /\ creq[c].at = "prune" => tasks[creq[c].task].kind = creq[c].kind

NextRecord(kind) == IF kind = "design" THEN nextDesign ELSE nextCheck

\* The ids a task holds: in its row, or in the local variable of its pipeline.
Holds(t) == {tasks[t].record, loc[t].rec} \ {NoInt}

\* Ids that are held were handed out, and no two tasks of a kind hold the same.
OwnInv ==
    \A t \in Present(tasks) :
        /\ Holds(t) \subseteq 1..(NextRecord(tasks[t].kind) - 1)
        /\ \A u \in Present(tasks) \ {t} :
              tasks[u].kind = tasks[t].kind => Holds(t) \cap Holds(u) = {}

\* Active tasks have executors, and completed_at is set on the terminal ones.
EndInv == ActiveHasExecutor /\ StampedIffTerminal

\* What the groups of check labels are, label by label.
LEMMA CheckLabels ==
    CheckAt = {"cSpawned", "cQueued", "cGuard", "cFail", "cBegin", "cLoad", "cData", "cCollected",
               "cAnalysed", "cSaving", "cSave", "cLink", "cJudge", "cEmpty", "cComment", "cFinish"}
  BY DEF CheckAt, CheckBody

\* A stage is followed, and its failure handled, in the pipeline it belongs to.
LEMMA StageKind ==
    ASSUME NEW l \in StageLabels
    PROVE  /\ Stage[l].next # "exit" => (Stage[l].next \in CheckAt <=> l \in CheckAt)
           /\ Handler(l) # "exit" => (Handler(l) \in CheckAt <=> l \in CheckAt)
<1>1. Stage[l].next # "exit" => (Stage[l].next \in CheckAt <=> l \in CheckAt)
  BY StageLabelsDef, CheckLabels DEF Stage, S, Progress, Links
<1>2. Handler(l) # "exit" => (Handler(l) \in CheckAt <=> l \in CheckAt)
  BY StageLabelsDef, CheckLabels DEF Handler, CheckBody
<1> QED BY <1>1, <1>2

\* A pipeline inside the semaphore goes on in its own code, or it ends with a
\* terminal row, without a row, or by a fault; the one it wakes stays in its own.
Onward(t) ==
    /\ \A u \in TaskIds : pc'[u] \in Live => pc[u] \in Live /\ KindAt(Place(u))' = KindAt(Place(u))
    /\ \A u \in TaskIds : pc[u] \in Live /\ pc'[u] \notin Live =>
          u = t /\ (faults' > 0 \/ tasks'[t].status \notin ActiveStatuses)

\* Every step inside the semaphore goes onward.
LEMMA GotoOnward ==
    ASSUME IInv, NEW t \in TaskIds, NEW l \in Inside \cup {"exit"},
           pc[t] \in Inside, Goto(t, l),
           l \in Inside \ {"bcast"} => (l \in CheckAt <=> Place(t) \in CheckAt),
           l = "bcast" => pc[t] # "bcast" /\ bc'.from = pc[t],
           l = "exit" => faults' > 0 \/ tasks'[t].status \notin ActiveStatuses
    PROVE  Onward(t)
<1> USE LabelFacts
<1>0. /\ pc'[t] = (IF l = "exit" THEN "done" ELSE l)
      /\ \A u \in TaskIds \ {t} : \/ pc'[u] = pc[u]
                                  \/ pc[u] = "dQueued" /\ pc'[u] = "begin"
                                  \/ pc[u] = "cQueued" /\ pc'[u] = "cGuard"
      /\ \A u \in TaskIds \ {t} : pc[u] # "bcast"
      /\ "begin" \in Live /\ "cGuard" \in Live /\ "done" \notin Live /\ Inside \subseteq Live
  <2>1. \A u \in TaskIds \ {t} : pc[u] # "bcast"
    BY DEF IInv, LockInv, Serialized
  <2> QED BY <2>1, GotoMoves, StageLabelsDef DEF IInv, Live, Spawned
<1>1. ASSUME NEW u \in TaskIds, pc'[u] \in Live
      PROVE  pc[u] \in Live /\ KindAt(Place(u))' = KindAt(Place(u))
  <2>1. CASE u = t
    <3>1. l \in Inside /\ pc'[t] = l
      BY <1>0, <1>1, <2>1
    <3>2. Place(t)' \in CheckAt <=> Place(t) \in CheckAt
      BY <3>1 DEF Place
    <3> QED BY <1>0, <2>1, <3>2 DEF KindAt
  <2>2. CASE u # t
    <3>1. pc[u] # "bcast" /\ pc'[u] # "bcast" /\ pc[u] \in Live
      BY <1>0, <1>1, <2>2 DEF Live, Queued
    <3>2. Place(u)' \in CheckAt <=> Place(u) \in CheckAt
      BY <1>0, <2>2, <3>1, CheckLabels DEF Place
    <3> QED BY <3>1, <3>2 DEF KindAt
  <2> QED BY <2>1, <2>2
<1>2. \A u \in TaskIds : pc[u] \in Live /\ pc'[u] \notin Live => u = t /\ l = "exit"
  BY <1>0
<1> QED BY <1>1, <1>2 DEF Onward

\* The design pipeline goes onward between its stages.
LEMMA DesignOnward ==
    ASSUME PInv, NEW t \in TaskIds, Design(t)
    PROVE  Onward(t)
<1> USE LabelFacts
<1>0. /\ IInv /\ PathInv /\ "done" \notin Live /\ faults \in Nat
      /\ pc[t] \in Inside \ {"bcast"} => Place(t) = pc[t] /\ StatusFits(pc[t], tasks[t].status)
  BY DEF PInv, IInv, DataOK, PathInv, Live, Spawned, Fits, Place
<1>1. CASE StartDesign(t) \/ StartDesignFails(t)
  <2>1. PICK l \in {"begin", "dQueued", "done"} :
           pc' = [pc EXCEPT ![t] = l]
           /\ (l = "done" => faults' > 0 \/ tasks'[t].status \notin ActiveStatuses)
    BY <1>0, <1>1 DEF StartDesign, StartDesignFails, Acquire, Fault, ActiveStatuses, db
  <2>2. pc[t] = "dSpawned" /\ UNCHANGED bc
    BY <1>1 DEF StartDesign, StartDesignFails
  <2>3. /\ pc'[t] = l /\ \A u \in TaskIds \ {t} : pc'[u] = pc[u]
        /\ pc[t] \in Live /\ {"begin", "dQueued"} \subseteq Live
    BY <1>0, <2>1, <2>2, StageLabelsDef DEF IInv, LockInv, Live, Spawned, Queued
  <2>4. KindAt("dSpawned") = "design" /\ KindAt("begin") = "design" /\ KindAt("dQueued") = "design"
    BY CheckLabels DEF KindAt
  <2> QED BY <1>0, <2>1, <2>2, <2>3, <2>4 DEF Onward, Place
<1>2. CASE Generate(t)
  <2>1. PICK l \in {"quick", "reject", "allcash", "except", "degrade", "static"} : Goto(t, l)
    BY <1>2 DEF Generate
  <2>2. /\ pc[t] \in Inside \ {"bcast"} /\ l \in Inside \ {"bcast"} /\ l # "exit"
        /\ l \notin CheckAt /\ pc[t] \notin CheckAt
    BY <1>2, StageLabelsDef, CheckLabels DEF Generate
  <2> QED BY <1>0, <2>1, <2>2, GotoOnward
<1>3. CASE SaveDesign(t) \/ SaveDesignFails(t)
  <2>1. PICK l \in {"link", "linkEmpty", "unsaved", "exit"} :
           Goto(t, l) /\ (l = "exit" => faults' > 0)
    BY <1>0, <1>3 DEF SaveDesign, SaveDesignFails, Fault
  <2>2. /\ pc[t] \in Inside \ {"bcast"} /\ l \in (Inside \ {"bcast"}) \cup {"exit"}
        /\ l \notin CheckAt /\ pc[t] \notin CheckAt
    BY <1>3, StageLabelsDef, CheckLabels DEF SaveDesign, SaveDesignFails
  <2> QED BY <1>0, <2>1, <2>2, GotoOnward
<1>4. CASE WriteReport(t)
  <2>1. PICK l \in {"llmFailed", "reported"} : Goto(t, l)
    BY <1>4 DEF WriteReport
  <2>2. /\ pc[t] \in Inside \ {"bcast"} /\ l \in Inside \ {"bcast"} /\ l # "exit"
        /\ l \notin CheckAt /\ pc[t] \notin CheckAt
    BY <1>4, StageLabelsDef, CheckLabels DEF WriteReport
  <2> QED BY <1>0, <2>1, <2>2, GotoOnward
<1>5. CASE SaveError(t)
  <2>1. Goto(t, "exit") /\ pc[t] = "saveError" /\ tasks' = tasks
    BY <1>5 DEF SaveError
  <2>2. tasks'[t].status \notin ActiveStatuses
    BY <1>0, <2>1 DEF StatusFits, FailedAt, ActiveStatuses
  <2> QED BY <1>0, <2>1, <2>2, GotoOnward
<1> QED BY <1>1, <1>2, <1>3, <1>4, <1>5 DEF Design

\* So does the strategy check pipeline, its timeout included.
LEMMA CheckOnward ==
    ASSUME PInv, NEW t \in TaskIds, Check(t)
    PROVE  Onward(t)
<1> USE LabelFacts
<1>0. /\ IInv /\ "done" \notin Live /\ faults \in Nat
      /\ pc[t] \in Inside \ {"bcast"} => Place(t) = pc[t]
  BY DEF PInv, IInv, DataOK, Live, Spawned, Place
<1>1. CASE StartCheck(t)
  <2>1. PICK l \in {"cGuard", "cQueued"} : pc' = [pc EXCEPT ![t] = l]
    BY <1>1 DEF StartCheck, Acquire
  <2>2. pc[t] = "cSpawned" /\ UNCHANGED bc
    BY <1>1 DEF StartCheck
  <2>3. /\ pc'[t] = l /\ \A u \in TaskIds \ {t} : pc'[u] = pc[u]
        /\ pc[t] \in Live /\ {"cGuard", "cQueued"} \subseteq Live
    BY <1>0, <2>1, <2>2 DEF IInv, LockInv, Live, Spawned, Queued
  <2>4. KindAt("cSpawned") = "check" /\ KindAt("cGuard") = "check" /\ KindAt("cQueued") = "check"
    BY CheckLabels DEF KindAt
  <2> QED BY <1>0, <2>1, <2>2, <2>3, <2>4 DEF Onward, Place
<1>2. CASE GuardCheck(t) \/ GuardCheckFails(t)
  <2>1. PICK l \in {"exit", "cBegin"} :
           Goto(t, l) /\ (l = "exit" => faults' > 0 \/ tasks'[t].status \notin ActiveStatuses)
    BY <1>0, <1>2 DEF GuardCheck, GuardCheckFails, Handler, Fault, ActiveStatuses, db
  <2>2. /\ pc[t] = "cGuard" /\ l \in (Inside \ {"bcast"}) \cup {"exit"}
        /\ pc[t] \in CheckAt /\ "cBegin" \in CheckAt
    BY <1>2, StageLabelsDef, CheckLabels DEF GuardCheck, GuardCheckFails
  <2> QED BY <1>0, <2>1, <2>2, GotoOnward
<1>3. CASE CollectCheck(t) \/ SaveCheck(t) \/ SaveCheckFails(t) \/ JudgeCheck(t)
  <2>1. PICK l \in {"cCollected", "cFail", "cLink", "cJudge", "cEmpty", "cComment", "cFinish"} : Goto(t, l)
    BY <1>3 DEF CollectCheck, SaveCheck, SaveCheckFails, JudgeCheck, Handler
  <2>2. /\ pc[t] \in Inside \ {"bcast"} /\ l \in Inside \ {"bcast"} /\ l # "exit"
        /\ l \in CheckAt /\ pc[t] \in CheckAt
    BY <1>3, StageLabelsDef, CheckLabels
       DEF CollectCheck, SaveCheck, SaveCheckFails, JudgeCheck, CheckBody
  <2> QED BY <1>0, <2>1, <2>2, GotoOnward
<1>4. CASE CheckTimeout(t)
  <2>1. Goto(t, "cFail") /\ pc[t] \in Inside /\ Place(t) \in CheckBody
    BY <1>4 DEF CheckTimeout, Place
  <2>2. "cFail" \in Inside \ {"bcast"} /\ "cFail" \in CheckAt /\ Place(t) \in CheckAt
    BY <2>1, StageLabelsDef, CheckLabels DEF CheckAt
  <2> QED BY <1>0, <2>1, <2>2, GotoOnward
<1> QED BY <1>1, <1>2, <1>3, <1>4 DEF Check

\* The status with which a stage ends a pipeline is terminal.
LEMMA LastStatus ==
    ASSUME NEW l \in StageLabels, NEW s, WrittenFits(l, s)
    PROVE  /\ Stage[l].next = "exit" \/ l = "except" => s \notin ActiveStatuses
           /\ Handler(l) = "exit" => s \notin ActiveStatuses
<1> USE StageLabelsDef, PathLabels DEF WrittenFits, StatusFits, FailedAt, ActiveStatuses, NoStr
<1>1. Stage[l].next = "exit" \/ l = "except" => s \notin ActiveStatuses
  BY DEF Stage, S, Progress, Links
<1>2. Handler(l) = "exit" => s \notin ActiveStatuses
  BY DEF Stage, S, Progress, Links, Handler, CheckBody
<1> QED BY <1>1, <1>2

\* So do the stages of both, and their broadcasts.
LEMMA ReportOnward ==
    ASSUME PInv, NEW t \in TaskIds, Report(t) \/ ReportFails(t) \/ Send(t) \/ SendRaises(t)
    PROVE  Onward(t)
<1> USE LabelFacts
<1>0. IInv /\ PathInv /\ faults \in Nat /\ tasks \in [TaskIds -> RowType]
  BY DEF PInv, IInv, DataOK
<1>1. ASSUME NEW l \in StageLabels, Place(t) = l, pc[t] \in Inside, NEW m \in {Handler(l), After(t, l)},
             Goto(t, m), faults' > 0 \/ WrittenFits(l, tasks'[t].status)
      PROVE  Onward(t)
  <2>1. m \in {"exit", Stage[l].next, Handler(l)}
    BY <1>1 DEF After
  <2>2. Stage[l].next \in Inside \cup {"exit"} /\ Stage[l].next # "bcast"
        /\ (Handler(l) = "exit" \/ Handler(l) \in Inside \ {"bcast"})
    <3>1. Handler(l) \in {"exit", "cJudge", "cFail", "except"} /\ l # "bcast"
      BY HandlerFacts
    <3> QED BY <3>1, StageNext, StageLabelsDef DEF CheckBody
  <2>3. m # "exit" => (m \in CheckAt <=> l \in CheckAt)
    BY <2>1, StageKind
  <2>4. m = "exit" => Stage[l].next = "exit" \/ l = "except" \/ Handler(l) = "exit"
    BY <1>1 DEF After
  <2>5. m = "exit" => faults' > 0 \/ tasks'[t].status \notin ActiveStatuses
    BY <1>1, <2>4, LastStatus
  <2>6. m \in (Inside \ {"bcast"}) \cup {"exit"}
    BY <2>1, <2>2
  <2> QED BY <1>0, <1>1, <2>3, <2>5, <2>6, GotoOnward
<1>2. CASE Report(t)
  <2>0. pc[t] \in StageLabels /\ Place(t) = pc[t] /\ tasks' = Updated(tasks, t, StageUpd(t, pc[t]))
    BY <1>2 DEF Report, Place
  <2>1. tasks'[t] = Merge(tasks[t], StageUpd(t, pc[t]))
    <3>1. tasks[t].status # "absent" /\ ~tasks[t].old /\ StageUpd(t, pc[t]) \in UpdType
      BY <1>0, <2>0, StageWrites
    <3> QED BY <1>0, <2>0, <3>1, UpdatedEffect
  <2>2. WrittenFits(pc[t], tasks'[t].status)
    BY <1>0, <2>0, <2>1, StageWrites
  <2>3. CASE Goto(t, After(t, pc[t]))
    BY <1>1, <2>0, <2>2, <2>3
  <2>4. CASE bc'.from = pc[t] /\ Goto(t, "bcast")
    BY <1>0, <2>0, <2>4, GotoOnward
  <2> QED BY <1>2, <2>3, <2>4 DEF Report, StartNotify
<1>3. CASE ReportFails(t)
  BY <1>0, <1>1, <1>3 DEF ReportFails, Fault, Place
<1>4. CASE Send(t) \/ SendRaises(t)
  <2>1. /\ pc[t] = "bcast" /\ bc.from \in StageLabels /\ Place(t) = bc.from /\ tasks' = tasks
        /\ WrittenFits(bc.from, tasks'[t].status)
    BY <1>0, <1>4 DEF Send, SendRaises, db, IInv, BcastInv, PathInv, Live, Fits, Place
  <2>2. CASE \E m \in {Handler(bc.from), After(t, bc.from)} : Goto(t, m)
    BY <1>1, <2>1, <2>2
  <2>3. CASE pc' = pc /\ bc'.from = bc.from
    BY <2>1, <2>3 DEF Onward, Place
  <2>4. CASE Send(t)
    <3>1. PICK dead \in {bc.dead, bc.dead \cup {bc.cur}} :
           \/ /\ \E w \in conns \ bc.seen :
                   bc' = [bc EXCEPT !.cur = w, !.seen = @ \cup {w},
                                    !.todo = @ \ {w}, !.dead = dead]
              /\ UNCHANGED <<pc, lock, conns>>
           \/ Goto(t, After(t, bc.from))
      BY <2>4 DEF Send
    <3>2. CASE /\ \E w \in conns \ bc.seen :
                    bc' = [bc EXCEPT !.cur = w, !.seen = @ \cup {w},
                                     !.todo = @ \ {w}, !.dead = dead]
               /\ UNCHANGED <<pc, lock, conns>>
      <4>1. bc'.from = bc.from
        BY <3>2
      <4> QED BY <2>3, <3>2, <4>1
    <3> QED BY <2>2, <3>1, <3>2
  <2>5. CASE SendRaises(t)
    BY <2>2, <2>5 DEF SendRaises
  <2> QED BY <1>4, <2>4, <2>5
<1> QED BY <1>2, <1>3, <1>4

-----------------------------------------------------------------------------
\* The row of a pipeline is there.
LEMMA LivePresent ==
    ASSUME IInv, PathInv, NEW t \in TaskIds, pc[t] \in Live
    PROVE  tasks[t].status \in ActiveStatuses \cup TerminalStatuses /\ tasks[t].status # "absent"
<1>1. CASE pc[t] # "bcast"
  BY <1>1 DEF PathInv, Fits, StatusFits, ActiveStatuses, TerminalStatuses
<1>2. CASE pc[t] = "bcast"
  <2>1. bc.from \in StageLabels /\ WrittenFits(bc.from, tasks[t].status)
    BY <1>2 DEF IInv, BcastInv, PathInv, Fits
  <2> QED BY <2>1, StageType DEF WrittenFits, StatusFits, ActiveStatuses, TerminalStatuses, NoStr
<1> QED BY <1>1, <1>2

\* The same for all pipelines, now and after a step.
LEMMA LivePresentAll ==
    IInv /\ PathInv => \A t \in TaskIds : pc[t] \in Live => tasks[t].status # "absent"
  BY LivePresent

\* LivePresentAll, primed.
LEMMA LivePresentNext ==
    (IInv /\ PathInv => \A t \in TaskIds : pc[t] \in Live => tasks[t].status # "absent")'
  BY LivePresentAll, PTL

\* Along the life cycle nothing comes back, and nothing that ended becomes active.
LEMMA EdgesForward ==
    ASSUME NEW s, NEW r, <<s, r>> \in Lifecycle!Edges
    PROVE  s # "absent" /\ (r \in ActiveStatuses => s \in ActiveStatuses \cup {"unused"})
  BY DEF Lifecycle!Edges, ActiveStatuses

\* The number of failed transactions never goes down.
LEMMA FaultsGrow == ASSUME IInv, [Next]_vars PROVE faults \in Nat /\ faults' \in Nat /\ faults' >= faults
<1>0. faults \in Nat
  BY DEF IInv, DataOK
<1>1. UNCHANGED faults \/ faults' = faults + 1
  <2>1. ASSUME NEW c \in Clients, Request(c) PROVE UNCHANGED faults \/ faults' = faults + 1
    BY <2>1 DEF Request, Select, Insert, PruneAndSpawn, CreateFails, Fault, env
  <2>2. ASSUME NEW t \in TaskIds, Design(t) PROVE UNCHANGED faults \/ faults' = faults + 1
    BY <2>2 DEF Design, StartDesign, StartDesignFails, Generate, SaveDesign, SaveDesignFails,
                WriteReport, SaveError, Fault, env
  <2>3. ASSUME NEW t \in TaskIds, Check(t) PROVE UNCHANGED faults \/ faults' = faults + 1
    BY <2>3 DEF Check, StartCheck, GuardCheck, GuardCheckFails, CollectCheck, SaveCheck,
                SaveCheckFails, JudgeCheck, CheckTimeout, Fault, env
  <2>4. ASSUME NEW t \in TaskIds, Report(t) \/ ReportFails(t) \/ Send(t) \/ SendRaises(t)
        PROVE  UNCHANGED faults \/ faults' = faults + 1
    BY <2>4 DEF Report, ReportFails, Send, SendRaises, Fault, env
  <2>5. ASSUME \/ ListTasks \/ DesignsAge \/ TasksAge \/ Crash \/ Lifespan
               \/ \E w \in Sockets : Connect(w) \/ Disconnect(w) \/ UNCHANGED vars
        PROVE  UNCHANGED faults \/ faults' = faults + 1
    BY <2>5 DEF ListTasks, DesignsAge, TasksAge, Crash, Lifespan, Start, RecoverDesigns,
                RecoverTasks, Connect, Disconnect, Fault, env, vars
  <2>6. ASSUME UNCHANGED vars PROVE UNCHANGED faults
    BY <2>6 DEF vars
  <2> QED BY <2>1, <2>2, <2>3, <2>4, <2>5, <2>6 DEF Next, Pipeline
<1> QED BY <1>0, <1>1

\* Where requests and pipelines are after a step that is no step of theirs.
LEMMA EnvStill ==
    ASSUME \/ ListTasks \/ DesignsAge \/ TasksAge \/ Crash \/ Lifespan \/ UNCHANGED vars
           \/ \E w \in Sockets : Connect(w) \/ Disconnect(w)
    PROVE  \/ UNCHANGED <<pc, creq, bc>>
           \/ /\ \A t \in TaskIds : pc'[t] \notin Live
              /\ \A c \in Clients : creq'[c] = Idle
              /\ boot' = "down"
<1>1. CASE Crash
  BY <1>1, LabelFacts DEF Crash, Live, Spawned
<1>2. CASE \/ ListTasks \/ DesignsAge \/ TasksAge \/ Lifespan \/ UNCHANGED vars
           \/ \E w \in Sockets : Connect(w) \/ Disconnect(w)
  BY <1>2 DEF ListTasks, DesignsAge, TasksAge, Lifespan, Start, RecoverDesigns, RecoverTasks,
              Connect, Disconnect, vars
<1> QED BY <1>1, <1>2

\* A pipeline step goes onward, and leaves the requests alone.
LEMMA PipelineOnward ==
    ASSUME PInv, NEW t \in TaskIds, Pipeline(t)
    PROVE  Onward(t) /\ UNCHANGED <<boot, creq, nextTask>>
  BY DesignOnward, CheckOnward, ReportOnward, PipelineIsLive DEF Pipeline

\* Every pipeline stays in the code of its task's kind.
LEMMA KindStep == ASSUME PInv, KindInv, [Next]_vars PROVE KindInv'
<1>0. /\ PInv' /\ (Steady \/ \E c \in Clients : Insert(c))
      /\ \A t \in TaskIds : pc'[t] \in Live => tasks'[t].status # "absent"
  <2>1. PInv' /\ (Steady \/ \E c \in Clients : Insert(c))
    BY PathNext
  <2>2. \A t \in TaskIds : pc'[t] \in Live => tasks'[t].status # "absent"
    BY <2>1, LivePresentNext DEF PInv
  <2> QED BY <2>1, <2>2
<1>1. ASSUME NEW c \in Clients, creq'[c].at = "prune"
      PROVE  creq'[c].task \in TaskIds /\ tasks'[creq'[c].task].status = "pending"
  BY <1>0, <1>1 DEF PInv, PathInv, IInv, SpawnInv
<1>2. ASSUME Steady,
             \A t \in TaskIds : pc'[t] \in Live => pc[t] \in Live /\ KindAt(Place(t))' = KindAt(Place(t)),
             \A c \in Clients : creq'[c] = creq[c] \/ creq'[c] = Idle
      PROVE  KindInv'
  <2>1. ASSUME NEW t \in TaskIds, pc'[t] \in Live PROVE tasks'[t].kind = KindAt(Place(t))'
    BY <1>0, <1>2, <2>1 DEF Steady, Along, KindInv
  <2>2. ASSUME NEW c \in Clients
        PROVE  /\ creq'[c].at # "idle" => creq'[c].kind \in Kinds
               /\ creq'[c].at = "prune" => tasks'[creq'[c].task].kind = creq'[c].kind
    <3>1. CASE creq'[c] = Idle
      BY <3>1 DEF Idle
    <3>2. CASE creq'[c] = creq[c]
      <4>1. creq[c].at = "prune" => tasks'[creq[c].task].kind = tasks[creq[c].task].kind
        BY <1>1, <1>2, <3>2 DEF Steady, Along
      <4> QED BY <3>2, <4>1 DEF KindInv
    <3> QED BY <1>2, <3>1, <3>2
  <2> QED BY <2>1, <2>2 DEF KindInv
<1>3. CASE \E c \in Clients : Insert(c)
  <2>1. PICK c \in Clients : Insert(c)
    BY <1>3
  <2>2. /\ tasks'[nextTask].kind = creq[c].kind /\ pc[nextTask] = "none"
        /\ creq'[c].task = nextTask /\ creq'[c].kind = creq[c].kind
        /\ \A d \in Clients \ {c} : creq'[d] = creq[d]
        /\ \A u \in TaskIds \ {nextTask} : tasks'[u] = tasks[u]
    BY <2>1, InsertKeepsPath
  <2>3. creq[c].kind \in Kinds /\ UNCHANGED <<pc, bc>> /\ "none" \notin Live
    BY <2>1, LabelFacts DEF Insert, KindInv, Live, Spawned
  <2>4. \A t \in TaskIds : pc'[t] \in Live => tasks'[t].kind = KindAt(Place(t))'
    BY <2>2, <2>3 DEF KindInv, Place
  <2>5. ASSUME NEW d \in Clients, d # c, creq'[d].at = "prune"
            PROVE tasks'[creq'[d].task].kind = creq'[d].kind
    <3>1. creq'[d] = creq[d] /\ creq[d].task \in TaskIds /\ creq[d].task # nextTask
      BY <2>2, <2>5, <1>1 DEF PInv, IInv, SpawnInv, DataOK, TaskIds
    <3> QED BY <2>2, <2>5, <3>1 DEF KindInv
  <2> QED BY <2>2, <2>3, <2>4, <2>5 DEF KindInv
<1>4. CASE \E c \in Clients : PruneAndSpawn(c)
  <2>1. PICK c \in Clients : PruneAndSpawn(c)
    BY <1>4
  <2>9. PICK t \in TaskIds : t = creq[c].task
    BY <2>1 DEF PruneAndSpawn, PInv, IInv, SpawnInv
  <2>2. /\ t \in TaskIds /\ creq[c].kind \in Kinds /\ tasks[t].kind = creq[c].kind /\ Steady
        /\ pc' = [pc EXCEPT ![t] = IF creq[c].kind = "design" THEN "dSpawned" ELSE "cSpawned"]
        /\ creq' = [creq EXCEPT ![c] = Idle] /\ bc' = bc
    BY <2>1, <2>9, SpawnKeepsPath DEF PruneAndSpawn, KindInv, PInv, IInv, SpawnInv
  <2>3. /\ pc'[t] = IF creq[c].kind = "design" THEN "dSpawned" ELSE "cSpawned"
        /\ \A u \in TaskIds \ {t} : pc'[u] = pc[u]
        /\ \A d \in Clients : creq'[d] = creq[d] \/ creq'[d] = Idle
    BY <2>2 DEF PInv, IInv, LockInv, DataOK
  <2>4. KindAt(Place(t))' = creq[c].kind
    BY <2>2, <2>3, CheckLabels DEF KindAt, Place, Kinds
  <2>5. pc'[t] \in Live
    BY <2>3 DEF Live, Spawned
  <2>6. ASSUME NEW u \in TaskIds, pc'[u] \in Live PROVE tasks'[u].kind = KindAt(Place(u))'
    <3>1. tasks'[u].kind = tasks[u].kind
      BY <1>0, <2>2, <2>6 DEF Steady, Along
    <3>2. CASE u = t
      BY <2>2, <2>4, <3>1, <3>2
    <3>3. CASE u # t
      BY <2>2, <2>3, <2>6, <3>1, <3>3 DEF KindInv, Place
    <3> QED BY <3>2, <3>3
  <2>7. ASSUME NEW d \in Clients
        PROVE  /\ creq'[d].at # "idle" => creq'[d].kind \in Kinds
               /\ creq'[d].at = "prune" => tasks'[creq'[d].task].kind = creq'[d].kind
    <3>1. CASE creq'[d] = Idle
      BY <3>1 DEF Idle
    <3>2. CASE creq'[d] = creq[d]
      <4>1. creq[d].at = "prune" => tasks'[creq[d].task].kind = tasks[creq[d].task].kind
        BY <1>1, <2>2, <3>2 DEF Steady, Along
      <4> QED BY <3>2, <4>1 DEF KindInv
    <3> QED BY <2>3, <3>1, <3>2
  <2> QED BY <2>6, <2>7 DEF KindInv
<1>5. CASE \E c \in Clients : Select(c) \/ CreateFails(c)
  <2>1. /\ UNCHANGED <<pc, bc, tasks, nextTask>>
        /\ \A c \in Clients : \/ creq'[c] = creq[c] \/ creq'[c] = Idle
                              \/ creq'[c].at = "insert" /\ creq'[c].kind \in Kinds
    BY <1>5, PipelineAssumption DEF Select, CreateFails, db, PInv, IInv, DataOK
  <2>2. \A c \in Clients : creq'[c].at = "prune" => creq'[c] = creq[c]
    BY <2>1 DEF Idle
  <2>3. \A c \in Clients : creq'[c].at # "idle" => creq'[c].kind \in Kinds
    BY <2>1 DEF Idle, KindInv
  <2> QED BY <2>1, <2>2, <2>3 DEF KindInv, Place
<1>6. CASE \E t \in TaskIds : Pipeline(t)
  <2>1. PICK t \in TaskIds : Pipeline(t)
    BY <1>6
  <2>2. Onward(t) /\ UNCHANGED <<boot, creq, nextTask>>
    BY <2>1, PipelineOnward
  <2>3. Steady
    BY <2>1, DesignPath, CheckPath, ReportPath, SendPath DEF Pipeline
  <2> QED BY <1>2, <2>2, <2>3 DEF Onward
<1>7. CASE \/ ListTasks \/ DesignsAge \/ TasksAge \/ Crash \/ Lifespan \/ UNCHANGED vars
           \/ \E w \in Sockets : Connect(w) \/ Disconnect(w)
  <2>1. Steady
    <3>1. CASE UNCHANGED vars
      BY <3>1, RowsAlone DEF vars
    <3> QED BY <1>7, <3>1, EnvPath
  <2> QED BY <1>2, <1>7, <2>1, EnvStill DEF Place
<1> QED BY <1>3, <1>4, <1>5, <1>6, <1>7 DEF Next, Request

\* Nothing hands out an id but the save of a design or of a check.
LEMMA SavesOnly ==
    ASSUME PInv, [Next]_vars
    PROVE  /\ nextDesign \in Nat /\ nextCheck \in Nat /\ nextDesign' \in Nat /\ nextCheck' \in Nat
           /\ nextDesign' >= nextDesign /\ nextCheck' >= nextCheck
           /\ \/ \A t \in TaskIds : loc'[t].rec \in {NoInt, loc[t].rec}
              \/ \E t \in TaskIds : SaveDesign(t) \/ SaveCheck(t)
<1>0. nextDesign \in Nat /\ nextCheck \in Nat /\ loc \in [TaskIds -> LocalType]
  BY DEF PInv, IInv, DataOK
<1>1. CASE \E c \in Clients : Request(c)
  BY <1>0, <1>1 DEF Request, Select, Insert, PruneAndSpawn, CreateFails, db
<1>2. ASSUME NEW t \in TaskIds, Pipeline(t)
      PROVE  /\ nextDesign' \in {nextDesign, nextDesign + 1} /\ nextCheck' \in {nextCheck, nextCheck + 1}
             /\ \/ \A u \in TaskIds : loc'[u].rec = loc[u].rec
                \/ SaveDesign(t) \/ SaveCheck(t)
  <2>1. CASE WriteReport(t)
    <3>1. \E q \in {"full", "partial"} : loc' = [loc EXCEPT ![t].quality = q]
      BY <2>1 DEF WriteReport
    <3>2. \A u \in TaskIds : loc'[u].rec = loc[u].rec
      BY <1>0, <3>1 DEF LocalType
    <3> QED BY <2>1, <3>2 DEF WriteReport
  <2>2. CASE Design(t) /\ ~WriteReport(t)
    BY <2>2 DEF Design, StartDesign, StartDesignFails, Generate, SaveDesign, SaveDesignFails,
                InsertDesign, SaveError, db
  <2>3. CASE Check(t)
    BY <2>3 DEF Check, StartCheck, GuardCheck, GuardCheckFails, CollectCheck, SaveCheck,
                SaveCheckFails, JudgeCheck, CheckTimeout, db
  <2>4. CASE Report(t) \/ ReportFails(t) \/ Send(t) \/ SendRaises(t)
    BY <2>4 DEF Report, ReportFails, Send, SendRaises, db
  <2> QED BY <1>2, <2>1, <2>2, <2>3, <2>4 DEF Pipeline
<1>3. CASE \/ ListTasks \/ DesignsAge \/ TasksAge \/ Lifespan
           \/ \E w \in Sockets : Connect(w) \/ Disconnect(w)
  <2>1. UNCHANGED <<nextDesign, nextCheck, loc>>
    BY <1>3 DEF ListTasks, DesignsAge, TasksAge, Lifespan, Start, RecoverDesigns,
                RecoverTasks, Connect, Disconnect, db
  <2> QED BY <1>0, <2>1
<1>5. CASE Crash
  BY <1>0, <1>5 DEF Crash, NoLoc, db
<1>4. CASE UNCHANGED vars
  BY <1>0, <1>4 DEF vars
<1> QED BY <1>0, <1>1, <1>2, <1>3, <1>4, <1>5 DEF Next

\* No id is ever held by two tasks of a kind, nor before it is handed out.
LEMMA OwnStep == ASSUME PInv, KindInv, OwnInv, [Next]_vars PROVE OwnInv'
<1>0. /\ nextDesign \in Nat /\ nextCheck \in Nat /\ nextDesign' \in Nat /\ nextCheck' \in Nat
      /\ nextDesign' >= nextDesign /\ nextCheck' >= nextCheck
      /\ tasks \in [TaskIds -> RowType] /\ loc \in [TaskIds -> LocalType] /\ NoInt \notin Nat
  BY SavesOnly DEF PInv, IInv, DataOK, NoInt
<1>1. ASSUME Steady, NEW u \in Present(tasks')
      PROVE  /\ u \in Present(tasks) /\ tasks'[u].kind = tasks[u].kind
             /\ tasks'[u].record \in {tasks[u].record, loc[u].rec}
  <2>1. tasks[u].status # "absent"
    BY <1>1, EdgesForward DEF Steady, Along, Present
  <2> QED BY <1>1, <2>1 DEF Steady, Along, Present
<1>6. \A k : 1..(NextRecord(k) - 1) \subseteq
             1..((IF k = "design" THEN nextDesign' ELSE nextCheck') - 1)
  <2>1. \A m, n \in Nat : n >= m => 1..(m - 1) \subseteq 1..(n - 1)
    OBVIOUS
  <2>2. /\ 1..(nextDesign - 1) \subseteq 1..(nextDesign' - 1)
        /\ 1..(nextCheck - 1) \subseteq 1..(nextCheck' - 1)
    BY <1>0, <2>1
  <2> QED BY <2>2, Zenon DEF NextRecord
<1>2. CASE Steady /\ \A t \in TaskIds : loc'[t].rec \in {NoInt, loc[t].rec}
  <2>1. ASSUME NEW u \in Present(tasks') PROVE Holds(u)' \subseteq Holds(u)
    BY <1>1, <1>2, <2>1 DEF Holds, Present
  <2>3. ASSUME NEW u \in Present(tasks)'
        PROVE  /\ Holds(u)' \subseteq 1..(NextRecord(tasks[u].kind)' - 1)
               /\ \A v \in Present(tasks)' \ {u} :
                    tasks'[v].kind = tasks'[u].kind => Holds(u)' \cap Holds(v)' = {}
    <3>1. u \in Present(tasks) /\ tasks'[u].kind = tasks[u].kind
          /\ \A v \in Present(tasks') : v \in Present(tasks) /\ tasks'[v].kind = tasks[v].kind
      BY <1>1, <1>2
    <3>2. Holds(u) \subseteq 1..(NextRecord(tasks[u].kind) - 1)
      BY <3>1 DEF OwnInv
    <3>3. Holds(u)' \subseteq 1..((IF tasks[u].kind = "design" THEN nextDesign' ELSE nextCheck') - 1)
      BY <1>6, <2>1, <3>2
    <3>4. Holds(u)' \subseteq 1..(NextRecord(tasks[u].kind)' - 1)
      BY <3>1, <3>3 DEF NextRecord
    <3>5. ASSUME NEW v \in Present(tasks') \ {u}, tasks'[v].kind = tasks'[u].kind
          PROVE  Holds(u)' \cap Holds(v)' = {}
      BY <2>1, <3>1, <3>5 DEF OwnInv
    <3> QED BY <3>4, <3>5
  <2> QED BY <2>3, Zenon DEF OwnInv
<1>3. CASE \E t \in TaskIds : SaveDesign(t) \/ SaveCheck(t)
  <2>1. PICK t \in TaskIds : SaveDesign(t) \/ SaveCheck(t)
    BY <1>3
  <2>2. /\ tasks' = tasks /\ pc[t] \in Live /\ pc[t] # "bcast" /\ tasks[t].status # "absent"
        /\ \A u \in TaskIds \ {t} : loc'[u] = loc[u]
    BY <2>1, <1>0, LivePresent, LabelFacts
       DEF SaveDesign, SaveCheck, PInv, Live, CheckBody
  <2>3. /\ tasks[t].record = NoInt /\ loc'[t].rec = NextRecord(tasks[t].kind)
        /\ NextRecord(tasks[t].kind)' = NextRecord(tasks[t].kind) + 1
        /\ NextRecord(tasks[t].kind) \in Nat \ {0}
    <3>1. Fits(t) /\ tasks[t].kind = KindAt(pc[t]) /\ Place(t) = pc[t]
      BY <2>2 DEF PInv, PathInv, KindInv, Place
    <3>2. pc[t] \in UnsavedAt
      BY <2>1, PathLabels DEF SaveDesign, SaveCheck
    <3>3. tasks[t].record = NoInt
      BY <3>1, <3>2 DEF Fits
    <3>4. CASE SaveDesign(t)
      <4>1. tasks[t].kind = "design"
        BY <3>1, <3>4, CheckLabels DEF SaveDesign, KindAt
      <4> QED BY <1>0, <3>3, <3>4, <4>1
              DEF SaveDesign, InsertDesign, NextRecord, PInv, IInv, DataOK, LocalType
    <3>5. CASE SaveCheck(t)
      <4>1. tasks[t].kind = "check"
        BY <3>1, <3>5, CheckLabels DEF SaveCheck, KindAt
      <4> QED BY <1>0, <3>3, <3>5, <4>1 DEF SaveCheck, NextRecord, PInv, IInv, DataOK, LocalType
    <3> QED BY <2>1, <3>4, <3>5
  <2>4. PICK n \in Nat \ {0} : n = NextRecord(tasks[t].kind)
    BY <2>3
  <2>5. Holds(t)' = {n} /\ \A u \in TaskIds \ {t} : Holds(u)' = Holds(u)
    BY <1>0, <2>2, <2>3, <2>4 DEF Holds
  <2>6. \A u \in Present(tasks) \ {t} : tasks[u].kind = tasks[t].kind => n \notin Holds(u)
    BY <2>4 DEF OwnInv
  <2>8. n \in 1..(NextRecord(tasks[t].kind)' - 1)
    BY <2>3, <2>4
  <2>9. ASSUME NEW u \in Present(tasks)
        PROVE  /\ Holds(u)' \subseteq 1..(NextRecord(tasks[u].kind)' - 1)
               /\ \A v \in Present(tasks) \ {u} :
                    tasks[v].kind = tasks[u].kind => Holds(u)' \cap Holds(v)' = {}
    <3>1. u \in TaskIds /\ Holds(u) \subseteq 1..(NextRecord(tasks[u].kind) - 1)
          /\ \A v \in Present(tasks) \ {u} : v \in TaskIds /\
                (tasks[v].kind = tasks[u].kind => Holds(u) \cap Holds(v) = {})
      BY DEF OwnInv, Present
    <3>2. CASE u = t
      BY <2>5, <2>6, <2>8, <3>1, <3>2
    <3>3. CASE u # t
      <4>1. Holds(u)' \subseteq 1..(NextRecord(tasks[u].kind)' - 1)
        <5>1. Holds(u)' \subseteq 1..((IF tasks[u].kind = "design" THEN nextDesign' ELSE nextCheck') - 1)
          BY <1>6, <2>5, <3>1, <3>3
        <5> QED BY <2>2, <5>1 DEF NextRecord
      <4>2. ASSUME NEW v \in Present(tasks) \ {u}, tasks[v].kind = tasks[u].kind
            PROVE  Holds(u)' \cap Holds(v)' = {}
        BY <2>5, <2>6, <3>1, <3>3, <4>2
      <4> QED BY <4>1, <4>2
    <3> QED BY <3>2, <3>3
  <2> QED BY <2>2, <2>9 DEF OwnInv, Present
<1>4. CASE /\ \E c \in Clients : Insert(c)
           /\ \A t \in TaskIds : loc'[t].rec \in {NoInt, loc[t].rec}
  <2>1. /\ nextTask \in TaskIds /\ tasks'[nextTask].record = NoInt /\ pc[nextTask] = "none"
        /\ \A u \in TaskIds \ {nextTask} : tasks'[u] = tasks[u]
    BY <1>4, InsertKeepsPath
  <2>2. PICK n \in TaskIds : n = nextTask
    BY <2>1
  <2>3. loc[n].rec = NoInt
    BY <2>1, <2>2 DEF PInv, PathInv
  <2>4. Holds(n)' = {} /\ \A u \in TaskIds \ {n} : Holds(u)' \subseteq Holds(u)
    BY <1>4, <2>1, <2>2, <2>3 DEF Holds
  <2>5. \A u \in Present(tasks') : u = n \/ (u \in Present(tasks) /\ tasks'[u] = tasks[u])
    BY <2>1, <2>2 DEF Present
  <2>7. ASSUME NEW u \in Present(tasks)'
        PROVE  /\ Holds(u)' \subseteq 1..(NextRecord(tasks[u].kind)' - 1)
               /\ \A v \in Present(tasks)' \ {u} :
                    tasks'[v].kind = tasks'[u].kind => Holds(u)' \cap Holds(v)' = {}
    <3>1. CASE u = n
      BY <2>4, <3>1
    <3>2. CASE u # n
      <4>1. u \in Present(tasks) /\ tasks'[u] = tasks[u] /\ u \in TaskIds
        BY <2>5, <3>2 DEF Present
      <4>2. Holds(u)' \subseteq 1..(NextRecord(tasks[u].kind)' - 1)
        <5>1. Holds(u)' \subseteq Holds(u) /\ Holds(u) \subseteq 1..(NextRecord(tasks[u].kind) - 1)
          BY <2>4, <3>2, <4>1 DEF OwnInv
        <5>2. Holds(u)' \subseteq 1..((IF tasks[u].kind = "design" THEN nextDesign' ELSE nextCheck') - 1)
          BY <1>6, <5>1
        <5> QED BY <4>1, <5>2 DEF NextRecord
      <4>3. ASSUME NEW v \in Present(tasks') \ {u}, tasks'[v].kind = tasks'[u].kind
            PROVE  Holds(u)' \cap Holds(v)' = {}
        BY <2>4, <2>5, <3>2, <4>1, <4>3 DEF OwnInv, Present
      <4> QED BY <4>2, <4>3
    <3> QED BY <3>1, <3>2
  <2> QED BY <2>7, Zenon DEF OwnInv
<1>5. Steady \/ \E c \in Clients : Insert(c)
  BY PathNext
<1> QED BY <1>2, <1>3, <1>4, <1>5, SavesOnly

\* An active task keeps its executor, unless a transaction failed.
LEMMA EndStep == ASSUME PInv, EndInv, [Next]_vars PROVE EndInv'
<1>0. /\ faults \in Nat /\ faults' \in Nat /\ faults' >= faults
      /\ Steady \/ \E c \in Clients : Insert(c)
      /\ tasks \in [TaskIds -> RowType]
  BY FaultsGrow, PathNext DEF PInv, IInv, DataOK
<1>1. StampedIffTerminal'
  <2>1. CASE Steady
    BY <2>1 DEF EndInv, StampedIffTerminal, Steady, Along, StampFits
  <2>2. CASE \E c \in Clients : Insert(c)
    <3>1. nextTask \in TaskIds /\ StampFits(tasks'[nextTask])
              /\ \A u \in TaskIds \ {nextTask} : tasks'[u] = tasks[u]
      BY <2>2, InsertKeepsPath
    <3> QED BY <3>1 DEF EndInv, StampedIffTerminal, StampFits
  <2> QED BY <1>0, <2>1, <2>2
<1>2. ASSUME Steady, NEW t \in TaskIds, tasks'[t].status \in ActiveStatuses
      PROVE  tasks[t].status \in ActiveStatuses
  <2>1. tasks[t].status # "unused"
    BY <1>0 DEF RowType, ActiveStatuses, TerminalStatuses
  <2> QED BY <1>2, <2>1, EdgesForward DEF Steady, Along
<1>3. ASSUME boot = "up", faults = 0, NEW t \in TaskIds, tasks[t].status \in ActiveStatuses
      PROVE  HasExecutor(t)
  BY <1>3 DEF EndInv, ActiveHasExecutor, Actives
<1>4. CASE \E c \in Clients : Insert(c)
  <2>1. PICK c \in Clients : Insert(c)
    BY <1>4
  <2>2. /\ nextTask \in TaskIds /\ creq'[c].task = nextTask /\ creq'[c].at = "prune"
        /\ \A d \in Clients \ {c} : creq'[d] = creq[d]
        /\ \A u \in TaskIds \ {nextTask} : tasks'[u] = tasks[u]
    BY <2>1, InsertKeepsPath
  <2>3. creq[c].at = "insert" /\ UNCHANGED <<pc, boot, faults>>
    BY <2>1 DEF Insert, env
  <2>4. ASSUME boot' = "up", faults' = 0, NEW t \in TaskIds, tasks'[t].status \in ActiveStatuses
        PROVE  HasExecutor(t)'
    <3>1. CASE t = nextTask
      BY <2>2, <3>1 DEF HasExecutor
    <3>2. CASE t # nextTask
      BY <1>3, <2>2, <2>3, <2>4, <3>2 DEF HasExecutor
    <3> QED BY <3>1, <3>2
  <2> QED BY <1>1, <2>4 DEF EndInv, ActiveHasExecutor, Actives
<1>5. CASE \E c \in Clients : PruneAndSpawn(c)
  <2>1. PICK c \in Clients : PruneAndSpawn(c)
    BY <1>5
  <2>2. PICK n \in TaskIds : n = creq[c].task
    BY <2>1 DEF PruneAndSpawn, PInv, IInv, SpawnInv
  <2>3. /\ pc'[n] \in Live /\ (\A u \in TaskIds \ {n} : pc'[u] = pc[u]) /\ UNCHANGED <<boot, faults>>
        /\ (\A d \in Clients \ {c} : creq'[d] = creq[d]) /\ Steady
    BY <2>1, <2>2, SpawnKeepsPath
       DEF PruneAndSpawn, PInv, IInv, LockInv, DataOK, Live, Spawned, env
  <2>4. ASSUME boot' = "up", faults' = 0, NEW t \in TaskIds, tasks'[t].status \in ActiveStatuses
        PROVE  HasExecutor(t)'
    <3>1. HasExecutor(t)
      BY <1>2, <1>3, <2>3, <2>4
    <3> QED BY <2>2, <2>3, <3>1 DEF HasExecutor
  <2> QED BY <1>1, <2>4 DEF EndInv, ActiveHasExecutor, Actives
<1>6. ASSUME Steady, boot' = "up" /\ faults' = 0 => boot = "up",
             \A t \in TaskIds : pc[t] \in Live /\ pc'[t] \notin Live =>
                 faults' > 0 \/ tasks'[t].status \notin ActiveStatuses,
             \A c \in Clients : creq[c].at = "prune" => creq'[c] = creq[c] \/ faults' > 0
      PROVE  EndInv'
  <2>1. ASSUME boot' = "up", faults' = 0, NEW t \in TaskIds, tasks'[t].status \in ActiveStatuses
        PROVE  HasExecutor(t)'
    <3>1. HasExecutor(t)
      BY <1>0, <1>2, <1>3, <1>6, <2>1
    <3> QED BY <1>6, <2>1, <3>1 DEF HasExecutor
  <2> QED BY <1>1, <2>1 DEF EndInv, ActiveHasExecutor, Actives
<1>7. CASE \E c \in Clients : Select(c) \/ CreateFails(c)
  <2>1. /\ UNCHANGED <<pc, tasks, nextTask, boot>>
        /\ \A c \in Clients : creq[c].at = "prune" => creq'[c] = creq[c] \/ faults' > 0
    BY <1>0, <1>7 DEF Select, CreateFails, Fault, db, env, PInv, IInv, DataOK
  <2> QED BY <1>6, <2>1, RowsAlone
<1>8. CASE \E t \in TaskIds : Pipeline(t)
  <2>1. PICK t \in TaskIds : Pipeline(t)
    BY <1>8
  <2>2. Onward(t) /\ UNCHANGED <<boot, creq, nextTask>> /\ Steady
    BY <2>1, PipelineOnward, DesignPath, CheckPath, ReportPath, SendPath DEF Pipeline
  <2> QED BY <1>6, <2>2 DEF Onward
<1>9. CASE RecoverTasks
  <2>1. faults' > 0 \/ \A t \in TaskIds : tasks'[t].status \notin ActiveStatuses
    <3>1. CASE tasks' = [t \in TaskIds |->
                IF tasks[t].status \in ActiveStatuses
                THEN [tasks[t] EXCEPT !.status = "failed", !.stamped = TRUE] ELSE tasks[t]]
      <4>1. ASSUME NEW t \in TaskIds PROVE tasks'[t].status \notin ActiveStatuses
        <5>1. tasks[t] \in RowType
          BY <1>0
        <5> QED BY <3>1, <5>1 DEF RowType, ActiveStatuses
      <4> QED BY <4>1
    <3>2. CASE Fault
      BY <1>0, <3>2 DEF Fault
    <3> QED BY <1>9, <3>1, <3>2 DEF RecoverTasks
  <2> QED BY <1>0, <1>1, <2>1 DEF EndInv, ActiveHasExecutor, Actives
<1>10. CASE \/ ListTasks \/ DesignsAge \/ TasksAge \/ Crash \/ Start \/ RecoverDesigns \/ UNCHANGED vars
            \/ \E w \in Sockets : Connect(w) \/ Disconnect(w)
  <2>1. Steady
    <3>1. CASE UNCHANGED vars
      BY <3>1, RowsAlone DEF vars
    <3> QED BY <1>10, <3>1, EnvPath DEF Lifespan
  <2>2. boot' # "up" \/ UNCHANGED <<boot, pc, creq>>
    BY <1>10 DEF ListTasks, DesignsAge, TasksAge, Crash, Start, RecoverDesigns, Connect, Disconnect,
                 env, vars
  <2>3. CASE boot' # "up"
    BY <1>1, <2>3 DEF EndInv, ActiveHasExecutor
  <2> QED BY <1>6, <2>1, <2>2, <2>3
<1> QED BY <1>4, <1>5, <1>7, <1>8, <1>9, <1>10 DEF Next, Request, Lifespan

\* The whole invariant, of every reachable state.
LEMMA WholeInvariance == Spec => [](PInv /\ KindInv /\ OwnInv /\ EndInv)
<1>1. Init => PInv /\ KindInv /\ OwnInv /\ EndInv
  <2> SUFFICES ASSUME Init PROVE PInv /\ KindInv /\ OwnInv /\ EndInv
    OBVIOUS
  <2>1. \A t \in TaskIds : tasks[t] = NoRow /\ pc[t] \notin Live
    BY LabelFacts DEF Init, Live, Spawned
  <2>2. NoRow.status = "absent" /\ NoRow.stamped = FALSE
    BY DEF NoRow
  <2>3. KindInv
    BY <2>1 DEF Init, KindInv, Idle
  <2>4. OwnInv
    BY <2>1, <2>2 DEF OwnInv, Present
  <2>5. EndInv
    BY <2>1, <2>2 DEF EndInv, ActiveHasExecutor, StampedIffTerminal, Actives, ActiveStatuses, TerminalStatuses
  <2> QED BY <2>3, <2>4, <2>5, InitPInv
<1>2. PInv /\ KindInv /\ OwnInv /\ EndInv /\ [Next]_vars => (PInv /\ KindInv /\ OwnInv /\ EndInv)'
  BY PathNext, KindStep, OwnStep, EndStep
<1> QED BY <1>1, <1>2, PTL DEF Spec

\* A record_id names a record that was saved, and no two tasks of a kind name the
\* same one, through failed saves, retried links, retention and crashes.
THEOREM RecordsIntact == Spec => []RecordIntegrity
<1>1. PInv /\ OwnInv => RecordIntegrity
  <2> SUFFICES ASSUME PInv, OwnInv, NEW t \in Present(tasks), tasks[t].record # NoInt
               PROVE  /\ tasks[t].record \in 1..((IF tasks[t].kind = "design"
                                                   THEN nextDesign ELSE nextCheck) - 1)
                      /\ \A u \in Present(tasks) \ {t} :
                            tasks[u].kind = tasks[t].kind => tasks[u].record # tasks[t].record
    BY DEF RecordIntegrity
  <2>1. tasks[t].record \in Holds(t)
    BY DEF Holds
  <2>2. ASSUME NEW u \in Present(tasks) \ {t}, tasks[u].kind = tasks[t].kind
        PROVE  tasks[u].record # tasks[t].record
    <3>1. Holds(t) \cap Holds(u) = {}
      BY <2>2 DEF OwnInv
    <3> QED BY <2>1, <3>1 DEF Holds
  <2> QED BY <2>1, <2>2 DEF OwnInv, NextRecord
<1> QED BY <1>1, WholeInvariance, PTL

\* While the server serves, and no transaction failed, every active task has a
\* pipeline or a request about to spawn one: no zombie, also after a restart.
THEOREM ActivesExecuted == Spec => []ActiveHasExecutor
<1>1. EndInv => ActiveHasExecutor
  BY DEF EndInv
<1> QED BY <1>1, WholeInvariance, PTL

\* completed_at is set exactly on the terminal rows, whoever ended the task.
THEOREM StampsAreTerminal == Spec => []StampedIffTerminal
<1>1. EndInv => StampedIffTerminal
  BY DEF EndInv
<1> QED BY <1>1, WholeInvariance, PTL

-----------------------------------------------------------------------------
(* Tasks and their designs.  A pipeline that saved its plan carries the id  *)
(* of a completed design until its last update announces it, and no other  *)
(* task writes to that design (OwnInv).  That its id is a row of the table *)
(* needs a count: a task saves once, so designs are at most as many as the *)
(* tasks that are past their save.                                         *)

\* The labels where the report was written, those where the plan is saved and not
\* announced yet, and those from where a task can still save.
RatedAt    == {"llmFailed", "reported", "finish"}
DesignedAt == {"link", "saved", "stage5", "llm"} \cup RatedAt
EarlyAt    == UnsavedAt \cup {"none"}

\* What the pipeline of a task carries towards its last update.
Carries(t) ==
    /\ Place(t) \in DesignedAt => loc[t].rec # NoInt /\ designs[loc[t].rec].status = "completed"
    /\ Place(t) \in RatedAt =>
          /\ loc[t].quality \in {"full", "partial"}
          /\ Place(t) = "llmFailed" => loc[t].quality = "partial"
          /\ faults = 0 => designs[loc[t].rec].quality = loc[t].quality
    /\ Place(t) = "unsaved" => loc[t].rec = NoInt

SavedTasks == {t \in TaskIds : Place(t) \notin EarlyAt}

\* Each design was saved by a task of its own.
CountInv == nextDesign - 1 <= Cardinality(SavedTasks)

AgreeInv == CountInv /\ (\A t \in TaskIds : Carries(t)) /\ TaskAgreesWithDesign

\* Where a pipeline can go: never back before its save, and along its stages after it.
Leads(a, b) ==
    /\ b \in EarlyAt => a \in EarlyAt
    /\ b \in DesignedAt => \/ a = b
                           \/ a = "save" /\ b = "link"
                           \/ a \in DesignedAt \ RatedAt /\ b \notin RatedAt
                           \/ a = "llm" /\ b \in RatedAt
                           \/ a = "reported" /\ b = "finish"
    /\ b = "unsaved" => a \in {"save", "unsaved"}

\* In a step of t every pipeline stays or goes where it leads; t saves and writes
\* its report by the steps of that name.
Moves(t) ==
    /\ \A u \in TaskIds : Leads(Place(u), Place(u)')
    /\ \A u \in TaskIds \ {t} : Place(u)' \in DesignedAt \cup {"unsaved"} => Place(u)' = Place(u)
    /\ Place(t) = "save" /\ Place(t)' = "link" => SaveDesign(t)
    /\ Place(t) = "llm" /\ Place(t)' \in RatedAt => WriteReport(t)

\* The groups, label by label.
LEMMA EarlyLabels ==
    /\ EarlyAt = {"none", "dSpawned", "dQueued", "begin", "cSpawned", "cQueued", "cGuard", "cBegin",
                  "data", "degrade", "retry", "static", "reject", "allcash", "quick",
                  "cLoad", "cData", "cCollected", "cAnalysed", "cSaving", "cSave",
                  "stage3", "save", "saveEmpty"}
    /\ DesignedAt = {"link", "saved", "stage5", "llm", "llmFailed", "reported", "finish"}
  BY PathLabels DEF EarlyAt, DesignedAt, RatedAt

\* A stage leads to the next one and to the handler of its failure.
LEMMA StageLeads ==
    ASSUME NEW l \in StageLabels
    PROVE  /\ Stage[l].next # "exit" => Leads(l, Stage[l].next)
           /\ Handler(l) # "exit" => Leads(l, Handler(l))
           /\ l \notin {"save", "llm"}
<1> USE StageLabelsDef, EarlyLabels DEF Leads, RatedAt
<1>1. Stage[l].next # "exit" => Leads(l, Stage[l].next)
  BY DEF Stage, S, Progress, Links
<1>2. Handler(l) # "exit" => Leads(l, Handler(l))
  BY DEF Handler, CheckBody
<1> QED BY <1>1, <1>2

\* A step inside the semaphore moves only its own pipeline, and wakes another.
LEMMA GotoLeads ==
    ASSUME IInv, NEW t \in TaskIds, NEW l \in Inside \cup {"exit"},
           pc[t] \in Inside, Goto(t, l),
           l \in Inside \ {"bcast"} => Leads(Place(t), l),
           l = "bcast" => pc[t] # "bcast" /\ bc'.from = pc[t]
    PROVE  /\ \A u \in TaskIds : Leads(Place(u), Place(u)')
           /\ \A u \in TaskIds \ {t} : Place(u)' \in DesignedAt \cup {"unsaved"} => Place(u)' = Place(u)
           /\ Place(t)' = IF l = "exit" THEN "done" ELSE IF l = "bcast" THEN Place(t) ELSE l
<1> USE LabelFacts
<1>0. /\ pc'[t] = (IF l = "exit" THEN "done" ELSE l)
      /\ \A u \in TaskIds \ {t} : \/ pc'[u] = pc[u]
                                  \/ pc[u] = "dQueued" /\ pc'[u] = "begin"
                                  \/ pc[u] = "cQueued" /\ pc'[u] = "cGuard"
      /\ \A u \in TaskIds \ {t} : pc[u] # "bcast"
  <2>1. \A u \in TaskIds \ {t} : pc[u] # "bcast"
    BY DEF IInv, LockInv, Serialized
  <2> QED BY <2>1, GotoMoves DEF IInv
<1>1. Place(t)' = IF l = "exit" THEN "done" ELSE IF l = "bcast" THEN Place(t) ELSE l
  BY <1>0 DEF Place
<1>2. Leads(Place(t), Place(t)')
  BY <1>1, EarlyLabels DEF Leads
<1>3. ASSUME NEW u \in TaskIds \ {t}
      PROVE  /\ Leads(Place(u), Place(u)')
             /\ Place(u)' \in DesignedAt \cup {"unsaved"} => Place(u)' = Place(u)
  <2>1. Place(u) = pc[u] /\ Place(u)' = pc'[u]
    BY <1>0 DEF Place
  <2> QED BY <1>0, <2>1, EarlyLabels DEF Leads
<1> QED BY <1>1, <1>2, <1>3

\* The design pipeline between its stages.
LEMMA DesignMoves ==
    ASSUME PInv, NEW t \in TaskIds, Design(t)
    PROVE  Moves(t)
<1> USE LabelFacts DEF RatedAt
<1>0. /\ IInv /\ "done" \notin EarlyAt \cup DesignedAt \cup {"unsaved"}
      /\ pc[t] # "bcast" => Place(t) = pc[t]
  BY EarlyLabels DEF PInv, Place
<1>1. CASE StartDesign(t) \/ StartDesignFails(t)
  <2>1. PICK l \in {"begin", "dQueued", "done"} : pc' = [pc EXCEPT ![t] = l]
    BY <1>1 DEF StartDesign, StartDesignFails, Acquire
  <2>2. pc[t] = "dSpawned" /\ UNCHANGED bc
    BY <1>1 DEF StartDesign, StartDesignFails
  <2>3. Place(t) = "dSpawned" /\ Place(t)' = l /\ \A u \in TaskIds \ {t} : Place(u)' = Place(u)
    BY <1>0, <2>1, <2>2 DEF IInv, LockInv, Place
  <2> QED BY <2>3, EarlyLabels DEF Moves, Leads
<1>2. CASE Generate(t)
  <2>1. PICK l \in {"quick", "reject", "allcash", "except", "degrade", "static"} : Goto(t, l)
    BY <1>2 DEF Generate
  <2>2. pc[t] \in {"data", "retry"} /\ pc[t] \in Inside /\ l \in Inside \ {"bcast"} /\ l # "exit"
    BY <1>2, StageLabelsDef DEF Generate
  <2>3. Leads(pc[t], l)
    BY <2>2, EarlyLabels DEF Leads
  <2> QED BY <1>0, <2>1, <2>2, <2>3, GotoLeads DEF Moves
<1>3. CASE SaveDesign(t) \/ SaveDesignFails(t)
  <2>1. PICK l \in {"link", "linkEmpty", "unsaved", "exit"} :
           Goto(t, l) /\ (l = "link" => SaveDesign(t)) /\ (l = "unsaved" => pc[t] = "save")
                      /\ (l = "link" => pc[t] = "save")
    BY <1>3 DEF SaveDesign, SaveDesignFails
  <2>2. pc[t] \in {"save", "saveEmpty"} /\ pc[t] \in Inside /\ l \in (Inside \ {"bcast"}) \cup {"exit"}
    BY <1>3, StageLabelsDef DEF SaveDesign, SaveDesignFails
  <2>3. l # "exit" => Leads(pc[t], l)
    BY <2>1, <2>2, EarlyLabels DEF Leads
  <2> QED BY <1>0, <2>1, <2>2, <2>3, GotoLeads DEF Moves
<1>4. CASE WriteReport(t)
  <2>1. PICK l \in {"llmFailed", "reported"} : Goto(t, l)
    BY <1>4 DEF WriteReport
  <2>2. pc[t] = "llm" /\ pc[t] \in Inside /\ l \in Inside \ {"bcast"} /\ l # "exit"
    BY <1>4, StageLabelsDef DEF WriteReport
  <2>3. Leads(pc[t], l)
    BY <2>2, EarlyLabels DEF Leads
  <2> QED BY <1>0, <1>4, <2>1, <2>2, <2>3, GotoLeads DEF Moves
<1>5. CASE SaveError(t)
  <2>1. Goto(t, "exit") /\ pc[t] = "saveError"
    BY <1>5 DEF SaveError
  <2> QED BY <1>0, <2>1, GotoLeads DEF Moves
<1> QED BY <1>1, <1>2, <1>3, <1>4, <1>5 DEF Design

\* The strategy check pipeline, its timeout included.
LEMMA CheckMoves ==
    ASSUME PInv, NEW t \in TaskIds, Check(t)
    PROVE  Moves(t)
<1> USE LabelFacts DEF RatedAt
<1>0. /\ IInv /\ "done" \notin EarlyAt \cup DesignedAt \cup {"unsaved"}
      /\ pc[t] # "bcast" => Place(t) = pc[t]
  BY EarlyLabels DEF PInv, Place
<1>1. CASE StartCheck(t)
  <2>1. PICK l \in {"cGuard", "cQueued"} : pc' = [pc EXCEPT ![t] = l]
    BY <1>1 DEF StartCheck, Acquire
  <2>2. pc[t] = "cSpawned" /\ UNCHANGED bc
    BY <1>1 DEF StartCheck
  <2>3. Place(t) = "cSpawned" /\ Place(t)' = l /\ \A u \in TaskIds \ {t} : Place(u)' = Place(u)
    BY <1>0, <2>1, <2>2 DEF IInv, LockInv, Place
  <2> QED BY <2>3, EarlyLabels DEF Moves, Leads
<1>2. CASE GuardCheck(t) \/ GuardCheckFails(t)
  <2>1. PICK l \in {"exit", "cBegin"} : Goto(t, l)
    BY <1>2 DEF GuardCheck, GuardCheckFails, Handler
  <2>2. pc[t] = "cGuard" /\ l \in (Inside \ {"bcast"}) \cup {"exit"}
    BY <1>2, StageLabelsDef DEF GuardCheck, GuardCheckFails
  <2>3. Leads(pc[t], "cBegin")
    BY <2>2, EarlyLabels DEF Leads
  <2> QED BY <1>0, <2>1, <2>2, <2>3, GotoLeads DEF Moves
<1>3. CASE CollectCheck(t) \/ SaveCheck(t) \/ SaveCheckFails(t) \/ JudgeCheck(t)
  <2>1. PICK l \in {"cCollected", "cFail", "cLink", "cJudge", "cEmpty", "cComment", "cFinish"} :
           Goto(t, l) /\ (l = "cCollected" => pc[t] = "cData")
    BY <1>3 DEF CollectCheck, SaveCheck, SaveCheckFails, JudgeCheck, Handler
  <2>2. /\ pc[t] \in {"cData", "cSave", "cJudge", "cComment"}
        /\ pc[t] \in Inside \ {"bcast"} /\ l \in Inside \ {"bcast"} /\ l # "exit"
    BY <1>3, StageLabelsDef DEF CollectCheck, SaveCheck, SaveCheckFails, JudgeCheck, CheckBody
  <2>3. Leads(pc[t], l)
    BY <2>1, <2>2, EarlyLabels DEF Leads
  <2> QED BY <1>0, <2>1, <2>2, <2>3, GotoLeads DEF Moves
<1>4. CASE CheckTimeout(t)
  <2>1. Goto(t, "cFail") /\ pc[t] \in Inside /\ "cFail" \in Inside \ {"bcast"} /\ Place(t) \in CheckBody
    BY <1>4, StageLabelsDef DEF CheckTimeout, Place
  <2>2. Leads(Place(t), "cFail") /\ "cFail" # "exit" /\ Place(t) \notin {"save", "llm"}
    BY <2>1, EarlyLabels DEF Leads, CheckBody
  <2> QED BY <1>0, <2>1, <2>2, GotoLeads DEF Moves
<1> QED BY <1>1, <1>2, <1>3, <1>4 DEF Check

\* The stages of both, and their broadcasts.
LEMMA ReportMoves ==
    ASSUME PInv, NEW t \in TaskIds, Report(t) \/ ReportFails(t) \/ Send(t) \/ SendRaises(t)
    PROVE  Moves(t)
<1> USE LabelFacts
<1>0. IInv
  BY DEF PInv
<1>1. ASSUME NEW l \in StageLabels, Place(t) = l, pc[t] \in Inside, NEW m \in {Handler(l), After(t, l)},
             Goto(t, m)
      PROVE  Moves(t)
  <2>1. m \in {"exit", Stage[l].next, Handler(l)}
    BY <1>1 DEF After
  <2>2. m \in (Inside \ {"bcast"}) \cup {"exit"}
    <3>1. Handler(l) \in {"exit", "cJudge", "cFail", "except"} /\ l # "bcast"
      BY HandlerFacts
    <3> QED BY <2>1, <3>1, StageNext, StageLabelsDef DEF CheckBody
  <2>3. (m # "exit" => Leads(l, m)) /\ l \notin {"save", "llm"}
    BY <2>1, StageLeads
  <2> QED BY <1>0, <1>1, <2>2, <2>3, GotoLeads DEF Moves
<1>2. CASE Report(t)
  <2>0. pc[t] \in StageLabels /\ Place(t) = pc[t] /\ Place(t) \notin {"save", "llm"}
    BY <1>2, StageLeads DEF Report, Place
  <2>1. CASE Goto(t, After(t, pc[t]))
    BY <1>1, <2>0, <2>1
  <2>2. CASE bc'.from = pc[t] /\ Goto(t, "bcast")
    BY <1>0, <2>0, <2>2, GotoLeads DEF Moves
  <2> QED BY <1>2, <2>1, <2>2 DEF Report, StartNotify
<1>3. CASE ReportFails(t)
  BY <1>1, <1>3 DEF ReportFails, Place
<1>4. CASE Send(t) \/ SendRaises(t)
  <2>1. pc[t] = "bcast" /\ bc.from \in StageLabels /\ Place(t) = bc.from
    BY <1>0, <1>4 DEF Send, SendRaises, IInv, BcastInv, Place
  <2>2. CASE \E m \in {Handler(bc.from), After(t, bc.from)} : Goto(t, m)
    BY <1>1, <2>1, <2>2
  <2>3. CASE pc' = pc /\ bc'.from = bc.from
    <3>1. \A u \in TaskIds : Place(u)' = Place(u)
      BY <2>3 DEF Place
    <3>2. Place(t) \notin {"save", "llm"}
      BY <2>1, StageLeads
    <3> QED BY <3>1, <3>2 DEF Moves, Leads
  <2>4. CASE Send(t)
    <3>1. PICK dead \in {bc.dead, bc.dead \cup {bc.cur}} :
           \/ /\ \E w \in conns \ bc.seen :
                   bc' = [bc EXCEPT !.cur = w, !.seen = @ \cup {w},
                                    !.todo = @ \ {w}, !.dead = dead]
              /\ UNCHANGED <<pc, lock, conns>>
           \/ Goto(t, After(t, bc.from))
      BY <2>4 DEF Send
    <3>2. CASE /\ \E w \in conns \ bc.seen :
                    bc' = [bc EXCEPT !.cur = w, !.seen = @ \cup {w},
                                     !.todo = @ \ {w}, !.dead = dead]
               /\ UNCHANGED <<pc, lock, conns>>
      <4>1. bc'.from = bc.from
        BY <3>2
      <4> QED BY <2>3, <3>2, <4>1
    <3> QED BY <2>2, <3>1, <3>2
  <2>5. CASE SendRaises(t)
    BY <2>2, <2>5 DEF SendRaises
  <2> QED BY <1>4, <2>4, <2>5
<1> QED BY <1>2, <1>3, <1>4

\* Every step: one pipeline moves, or none does and the carried ones stay.
LEMMA StepMoves ==
    ASSUME PInv, [Next]_vars
    PROVE  \/ \E t \in TaskIds : Pipeline(t) /\ Moves(t)
           \/ /\ \A u \in TaskIds : Leads(Place(u), Place(u)')
              /\ \A u \in TaskIds : Place(u)' \in DesignedAt \cup {"unsaved"} =>
                    Place(u)' = Place(u) /\ loc'[u] = loc[u]
<1>1. CASE \E t \in TaskIds : Pipeline(t)
  BY <1>1, DesignMoves, CheckMoves, ReportMoves DEF Pipeline
<1>2. CASE \E c \in Clients : PruneAndSpawn(c)
  <2>1. PICK c \in Clients : PruneAndSpawn(c)
    BY <1>2
  <2>2. PICK n \in TaskIds : n = creq[c].task /\ pc[n] = "none"
    BY <2>1 DEF PruneAndSpawn, PInv, IInv, SpawnInv
  <2>3. /\ pc'[n] \in {"dSpawned", "cSpawned"} /\ \A u \in TaskIds \ {n} : pc'[u] = pc[u]
        /\ UNCHANGED <<loc, bc>>
    BY <2>1, <2>2 DEF PruneAndSpawn, PInv, IInv, LockInv
  <2>4. Place(n) = "none" /\ Place(n)' \in {"dSpawned", "cSpawned"}
        /\ \A u \in TaskIds \ {n} : Place(u)' = Place(u)
    BY <2>2, <2>3 DEF Place
  <2> QED BY <2>3, <2>4, EarlyLabels DEF Leads
<1>3. CASE Crash
  <2>1. \A u \in TaskIds : pc'[u] = IF pc[u] = "none" THEN "none" ELSE "done"
    BY <1>3 DEF Crash
  <2>2. \A u \in TaskIds : Place(u)' \in {"none", "done"} /\ (Place(u)' = "none" => Place(u) = "none")
    BY <2>1 DEF Place
  <2> QED BY <2>2, EarlyLabels DEF Leads
<1>4. CASE UNCHANGED <<pc, bc, loc>>
  BY <1>4 DEF Leads, Place
<1>5. CASE \/ \E c \in Clients : Select(c) \/ Insert(c) \/ CreateFails(c)
           \/ ListTasks \/ DesignsAge \/ TasksAge \/ Lifespan \/ UNCHANGED vars
           \/ \E w \in Sockets : Connect(w) \/ Disconnect(w)
  BY <1>4, <1>5 DEF Select, Insert, CreateFails, ListTasks, DesignsAge, TasksAge, Lifespan, Start,
                    RecoverDesigns, RecoverTasks, Connect, Disconnect, vars
<1> QED BY <1>1, <1>2, <1>3, <1>5 DEF Next, Request

\* Who writes to a design that was saved: the report of the task that holds it, the
\* end of that task by an exception, and the recovery of one that is pending.
LEMMA DesignFrame ==
    ASSUME PInv, [Next]_vars, NEW d \in TaskIds, d < nextDesign
    PROVE  /\ \/ designs'[d].status = designs[d].status
              \/ \E t \in TaskIds : SaveError(t) /\ loc[t].rec = d
           /\ \/ designs'[d].quality = designs[d].quality
              \/ \E t \in TaskIds : WriteReport(t) /\ loc[t].rec = d
              \/ RecoverDesigns /\ designs[d].quality = "pending"
<1>0. designs \in [TaskIds -> DesignType] /\ designs[d] \in DesignType /\ d # nextDesign
  BY DEF PInv, IInv, DataOK
<1>1. CASE designs' = designs
  BY <1>1
<1>2. ASSUME NEW t \in TaskIds, InsertDesign(t) PROVE designs'[d] = designs[d]
  BY <1>0, <1>2 DEF InsertDesign
<1>3. CASE \E t \in TaskIds : SaveDesign(t) \/ SaveDesignFails(t)
  BY <1>1, <1>2, <1>3 DEF SaveDesign, SaveDesignFails
<1>4. CASE \E t \in TaskIds : WriteReport(t)
  <2>1. PICK t \in TaskIds : WriteReport(t)
    BY <1>4
  <2>2. designs' = designs \/ \E q \in {"full", "partial"} :
            designs' = [designs EXCEPT ![loc[t].rec].quality = q]
    BY <2>1 DEF WriteReport
  <2>3. designs'[d].status = designs[d].status /\ (designs'[d] # designs[d] => loc[t].rec = d)
    BY <1>0, <2>2 DEF DesignType
  <2> QED BY <2>1, <2>3
<1>5. CASE \E t \in TaskIds : SaveError(t)
  <2>1. PICK t \in TaskIds : SaveError(t)
    BY <1>5
  <2>2. designs' = designs \/ designs' = [designs EXCEPT ![loc[t].rec].status = "failed"]
    BY <2>1 DEF SaveError
  <2>3. designs'[d].quality = designs[d].quality /\ (designs'[d] # designs[d] => loc[t].rec = d)
    BY <1>0, <2>2 DEF DesignType
  <2> QED BY <2>1, <2>3
<1>6. CASE RecoverDesigns
  <2>1. designs' = designs \/ designs' = [e \in TaskIds |->
                IF designs[e].quality = "pending" /\ designs[e].aged
                THEN [designs[e] EXCEPT !.quality = "fallback"] ELSE designs[e]]
    BY <1>6 DEF RecoverDesigns
  <2>2. designs'[d].status = designs[d].status
        /\ (designs'[d] # designs[d] => designs[d].quality = "pending")
    BY <1>0, <2>1 DEF DesignType
  <2> QED BY <1>6, <2>2
<1>7. CASE DesignsAge
  BY <1>0, <1>7 DEF DesignsAge, DesignType
<1>8. CASE \E c \in Clients : Request(c)
  BY <1>1, <1>8 DEF Request, Select, Insert, PruneAndSpawn, CreateFails, db
<1>9. CASE \E t \in TaskIds : StartDesign(t) \/ StartDesignFails(t) \/ Generate(t)
  BY <1>1, <1>9 DEF StartDesign, StartDesignFails, Generate, db
<1>10. CASE \E t \in TaskIds : Check(t)
  BY <1>1, <1>10 DEF Check, StartCheck, GuardCheck, GuardCheckFails, CollectCheck, SaveCheck,
                     SaveCheckFails, JudgeCheck, CheckTimeout, db
<1>11. CASE \E t \in TaskIds : Report(t) \/ ReportFails(t) \/ Send(t) \/ SendRaises(t)
  BY <1>1, <1>11 DEF Report, ReportFails, Send, SendRaises, db
<1>12. CASE \/ ListTasks \/ TasksAge \/ Crash \/ Start \/ RecoverTasks \/ UNCHANGED vars
            \/ \E w \in Sockets : Connect(w) \/ Disconnect(w)
  BY <1>1, <1>12 DEF ListTasks, TasksAge, Crash, Start, RecoverTasks, Connect, Disconnect, db, vars
<1> QED BY <1>3, <1>4, <1>5, <1>6, <1>7, <1>8, <1>9, <1>10, <1>11, <1>12
        DEF Next, Pipeline, Design, Lifespan

\* Nothing hands out the id of a design but a save, failing ones included, and the
\* task that saved is past its save then.
LEMMA SavesCount ==
    ASSUME PInv, [Next]_vars
    PROVE  \/ nextDesign' = nextDesign
           \/ /\ nextDesign' = nextDesign + 1
              /\ \E t \in TaskIds : Place(t) \in EarlyAt /\ Place(t)' \notin EarlyAt
<1>1. CASE \E t \in TaskIds : SaveDesign(t) \/ SaveDesignFails(t)
  <2>1. PICK t \in TaskIds : SaveDesign(t) \/ SaveDesignFails(t)
    BY <1>1
  <2>2. nextDesign' = nextDesign \/ nextDesign' = nextDesign + 1
    BY <2>1 DEF SaveDesign, SaveDesignFails, InsertDesign
  <2>3. \E l \in {"link", "linkEmpty", "unsaved", "exit"} : Goto(t, l)
    BY <2>1 DEF SaveDesign, SaveDesignFails
  <2>4. Place(t) \in {"save", "saveEmpty"} /\ pc[t] \in {"save", "saveEmpty"}
    BY <2>1 DEF SaveDesign, SaveDesignFails, Place
  <2>5. pc'[t] \in {"link", "linkEmpty", "unsaved", "done"}
    BY <2>3, <2>4, GotoMoves, LabelFacts, StageLabelsDef DEF PInv, IInv
  <2>6. Place(t)' \in {"link", "linkEmpty", "unsaved", "done"}
    BY <2>5 DEF Place
  <2> QED BY <2>2, <2>4, <2>6, EarlyLabels
<1>2. CASE UNCHANGED nextDesign
  BY <1>2
<1>3. CASE \E c \in Clients : Request(c)
  BY <1>2, <1>3 DEF Request, Select, Insert, PruneAndSpawn, CreateFails, db
<1>4. CASE \E t \in TaskIds : StartDesign(t) \/ StartDesignFails(t) \/ Generate(t)
          \/ WriteReport(t) \/ SaveError(t)
  BY <1>2, <1>4 DEF StartDesign, StartDesignFails, Generate, WriteReport, SaveError, db
<1>5. CASE \E t \in TaskIds : Check(t)
  BY <1>2, <1>5 DEF Check, StartCheck, GuardCheck, GuardCheckFails, CollectCheck, SaveCheck,
                    SaveCheckFails, JudgeCheck, CheckTimeout, db
<1>6. CASE \E t \in TaskIds : Report(t) \/ ReportFails(t) \/ Send(t) \/ SendRaises(t)
  BY <1>2, <1>6 DEF Report, ReportFails, Send, SendRaises, db
<1>7. CASE \/ ListTasks \/ DesignsAge \/ TasksAge \/ Crash \/ Lifespan \/ UNCHANGED vars
           \/ \E w \in Sockets : Connect(w) \/ Disconnect(w)
  BY <1>2, <1>7 DEF ListTasks, DesignsAge, TasksAge, Crash, Lifespan, Start, RecoverDesigns,
                    RecoverTasks, Connect, Disconnect, db, vars
<1> QED BY <1>1, <1>3, <1>4, <1>5, <1>6, <1>7 DEF Next, Pipeline, Design

\* A task saves once, so the designs are never more than the tasks past their save,
\* and there is a row left for one that saves.
LEMMA CountStep ==
    ASSUME PInv, CountInv, [Next]_vars
    PROVE  CountInv'
<1>1. IsFiniteSet(TaskIds) /\ SavedTasks \in SUBSET TaskIds /\ SavedTasks' \in SUBSET TaskIds
  BY FS_Interval, StoreAssumption DEF TaskIds, SavedTasks
<1>2. IsFiniteSet(SavedTasks) /\ IsFiniteSet(SavedTasks') /\ Cardinality(SavedTasks) \in Nat
      /\ Cardinality(SavedTasks') \in Nat
  BY <1>1, FS_Subset, FS_CardinalityType
<1>3. \A u \in TaskIds : Leads(Place(u), Place(u)')
  BY StepMoves DEF Moves
<1>4. SavedTasks \in SUBSET SavedTasks'
  BY <1>3 DEF SavedTasks, Leads
<1>5. Cardinality(SavedTasks) <= Cardinality(SavedTasks')
  BY <1>2, <1>4, FS_Subset
<1>6. nextDesign \in Nat /\ nextDesign - 1 <= Cardinality(SavedTasks)
  BY DEF CountInv, PInv, IInv, DataOK
<1>7. CASE nextDesign' = nextDesign
  BY <1>2, <1>5, <1>6, <1>7 DEF CountInv
<1>8. CASE /\ nextDesign' = nextDesign + 1
           /\ \E t \in TaskIds : Place(t) \in EarlyAt /\ Place(t)' \notin EarlyAt
  <2>1. SavedTasks # SavedTasks'
    BY <1>8 DEF SavedTasks
  <2>2. Cardinality(SavedTasks) # Cardinality(SavedTasks')
    BY <1>2, <1>4, <2>1, FS_Subset
  <2> QED BY <1>2, <1>5, <1>6, <1>8, <2>2 DEF CountInv
<1> QED BY <1>7, <1>8, SavesCount

\* Every id that was handed out is a row of the table.
LEMMA DesignIds ==
    ASSUME PInv, CountInv
    PROVE  /\ 1..(nextDesign - 1) \subseteq TaskIds
           /\ (\E t \in TaskIds : Place(t) \in EarlyAt) => nextDesign \in TaskIds
<1>1. IsFiniteSet(TaskIds) /\ Cardinality(TaskIds) = MaxTasks /\ SavedTasks \in SUBSET TaskIds
  BY FS_Interval, StoreAssumption DEF TaskIds, SavedTasks
<1>2. IsFiniteSet(SavedTasks) /\ Cardinality(SavedTasks) \in Nat /\ Cardinality(SavedTasks) <= MaxTasks
  BY <1>1, FS_Subset, FS_CardinalityType
<1>3. nextDesign \in Nat \ {0} /\ nextDesign - 1 <= Cardinality(SavedTasks) /\ MaxTasks \in Nat
  BY StoreAssumption DEF CountInv, PInv, IInv, DataOK
<1>4. 1..(nextDesign - 1) \subseteq TaskIds
  BY <1>2, <1>3 DEF TaskIds
<1>5. ASSUME NEW t \in TaskIds, Place(t) \in EarlyAt PROVE nextDesign \in TaskIds
  <2>1. SavedTasks # TaskIds
    BY <1>5 DEF SavedTasks
  <2>2. Cardinality(SavedTasks) # MaxTasks
    BY <1>1, <2>1, FS_Subset
  <2> QED BY <1>2, <1>3, <2>2 DEF TaskIds
<1> QED BY <1>4, <1>5

\* What TaskAgreesWithDesign says of one task.
Announced(row) == row.kind = "design" /\ row.status \in {"completed", "completed_with_errors"}
Agrees(t) ==
    Announced(tasks[t]) =>
        \/ tasks[t].result = "plain" /\ tasks[t].record = NoInt
        \/ /\ tasks[t].record # NoInt
           /\ designs[tasks[t].record].status = "completed"
           /\ faults = 0 => designs[tasks[t].record].quality = tasks[t].result

\* A row that announces a design was there already, or its last stage announces it.
SameRow(new, row) ==
    new.kind = row.kind /\ new.status = row.status /\ new.result = row.result /\ new.record = row.record

\* A stage announces a design only at the end of the design pipeline.
LEMMA StageAnnounces ==
    ASSUME PInv, KindInv, NEW t \in TaskIds, pc[t] \in StageLabels,
           Announced(Merge(tasks[t], StageUpd(t, pc[t])))
    PROVE  LET new == Merge(tasks[t], StageUpd(t, pc[t])) IN
           \/ /\ pc[t] = "finish"
              /\ new.result = Overwrite(loc[t].quality, tasks[t].result, NoStr)
              /\ new.record = Overwrite(loc[t].rec, tasks[t].record, NoInt)
           \/ /\ pc[t] = "llmFailed"
              /\ new.result = "partial"
              /\ new.record = Overwrite(loc[t].rec, tasks[t].record, NoInt)
           \/ /\ pc[t] = "unsaved"
              /\ new.result = "plain"
              /\ new.record = tasks[t].record
<1> DEFINE new == Merge(tasks[t], StageUpd(t, pc[t]))
<1>0. IInv /\ PathInv /\ pc[t] # "bcast" /\ pc[t] \in Live /\ loc[t] \in LocalType
  BY LabelFacts DEF PInv, Live, IInv, DataOK
<1>1. /\ new.kind = tasks[t].kind /\ WrittenFits(pc[t], new.status)
      /\ StatusFits(pc[t], tasks[t].status) /\ tasks[t] \in RowType /\ StageUpd(t, pc[t]) \in UpdType
  BY <1>0, StageWrites
<1>2. /\ new.status = Overwrite(Stage[pc[t]].status, tasks[t].status, NoStr)
      /\ new.record = Overwrite(IF Stage[pc[t]].links THEN loc[t].rec ELSE NoInt, tasks[t].record, NoInt)
      /\ new.result = Overwrite(IF Stage[pc[t]].result = "quality" THEN loc[t].quality
                                ELSE Stage[pc[t]].result, tasks[t].result, NoStr)
  BY <1>1 DEF Merge, RowType, StageUpd
<1>3. new.kind = "design" /\ new.status \in {"completed", "completed_with_errors"}
  BY DEF Announced
<1> HIDE DEF new
<1>4. pc[t] \notin CheckAt
  BY <1>0, <1>1, <1>3 DEF KindInv, KindAt, Place
<1>5. pc[t] \in {"finish", "llmFailed", "unsaved"}
  BY <1>1, <1>2, <1>3, <1>4, StageLabelsDef, PathLabels, CheckLabels
     DEF StatusFits, PendingAt, ReadyAt, FailedAt, Overwrite, Stage, S, Progress, Links, NoStr
<1> QED BY <1>2, <1>5, StageLabelsDef DEF new, Stage, S, Links, Overwrite, NoStr

\* Every step leaves what a row announces, or is the last stage of its pipeline.
LEMMA RowAnnounces ==
    ASSUME PInv, KindInv, [Next]_vars, NEW t \in TaskIds, Announced(tasks'[t])
    PROVE  \/ SameRow(tasks'[t], tasks[t])
           \/ /\ pc[t] \in StageLabels /\ UNCHANGED designs
              /\ tasks'[t] = Merge(tasks[t], StageUpd(t, pc[t]))
<1>0. /\ IInv /\ PathInv /\ tasks \in [TaskIds -> RowType] /\ tasks[t] \in RowType
      /\ ~Announced(NoRow)
  BY DEF PInv, IInv, DataOK, Announced, NoRow
<1>1. CASE Kept(tasks, tasks', t)
  BY <1>0, <1>1 DEF Kept, SameRow
<1>2. CASE tasks' = tasks
  BY <1>2 DEF SameRow
<1>3. CASE tasks' = Pruned(tasks)
  BY <1>0, <1>1, <1>3, PrunedKeeps
<1>4. ASSUME NEW u \in TaskIds, CommitsOnly(u), UNCHANGED designs
      PROVE  \/ SameRow(tasks'[t], tasks[t])
             \/ /\ pc[t] \in StageLabels /\ UNCHANGED designs
                /\ tasks'[t] = Merge(tasks[t], StageUpd(t, pc[t]))
  <2>1. /\ tasks'[u] = Merge(tasks[u], StageUpd(u, pc[u]))
        /\ \A v \in TaskIds \ {u} : tasks'[v] = tasks[v]
    BY <1>0, <1>4, CommitsEffect
  <2> QED BY <1>4, <2>1 DEF CommitsOnly, SameRow
<1>5. CASE \E u \in TaskIds : Report(u)
  <2>1. PICK u \in TaskIds : Report(u)
    BY <1>5
  <2>2. pc[u] \in StageLabels /\ tasks' = Updated(tasks, u, StageUpd(u, pc[u])) /\ designs' = designs
    BY <2>1 DEF Report
  <2>3. tasks[u].status # "absent" /\ ~tasks[u].old /\ StageUpd(u, pc[u]) \in UpdType
    BY <1>0, <2>2, StageWrites
  <2>4. /\ tasks'[u] = Merge(tasks[u], StageUpd(u, pc[u]))
        /\ \A v \in TaskIds \ {u} : Kept(tasks, tasks', v)
    BY <1>0, <2>2, <2>3, UpdatedEffect
  <2> QED BY <1>1, <2>2, <2>4
<1>6. CASE \E u \in TaskIds : ReportFails(u) \/ CheckTimeout(u)
  BY <1>2, <1>4, <1>6 DEF ReportFails, CheckTimeout
<1>7. CASE \E c \in Clients : Insert(c)
  <2>1. /\ nextTask \in TaskIds /\ tasks'[nextTask].status = "pending"
        /\ \A u \in TaskIds \ {nextTask} : tasks'[u] = tasks[u]
    BY <1>7, InsertKeepsPath
  <2> QED BY <2>1 DEF Announced, SameRow
<1>8. CASE ListTasks \/ \E c \in Clients : PruneAndSpawn(c)
  BY <1>3, <1>8 DEF ListTasks, PruneAndSpawn
<1>9. CASE TasksAge
  BY <1>0, <1>9 DEF TasksAge, SameRow, RowType
<1>10. CASE RecoverTasks
  <2>1. tasks'[t] \in {tasks[t], [tasks[t] EXCEPT !.status = "failed", !.stamped = TRUE]}
    BY <1>0, <1>10 DEF RecoverTasks
  <2>2. [tasks[t] EXCEPT !.status = "failed", !.stamped = TRUE].status = "failed"
    BY <1>0 DEF RowType
  <2> QED BY <2>1, <2>2 DEF SameRow, Announced
<1>11. CASE \E c \in Clients : Select(c) \/ CreateFails(c)
  BY <1>2, <1>11 DEF Select, CreateFails, db
<1>12. CASE \E u \in TaskIds : Design(u)
  BY <1>2, <1>12 DEF Design, StartDesign, StartDesignFails, Generate, SaveDesign, SaveDesignFails,
                     WriteReport, SaveError, db
<1>13. CASE \E u \in TaskIds : \/ StartCheck(u) \/ GuardCheck(u) \/ GuardCheckFails(u)
                                \/ CollectCheck(u) \/ SaveCheck(u) \/ SaveCheckFails(u)
                                \/ JudgeCheck(u) \/ Send(u) \/ SendRaises(u)
  BY <1>2, <1>13 DEF StartCheck, GuardCheck, GuardCheckFails, CollectCheck, SaveCheck, SaveCheckFails,
                     JudgeCheck, Send, SendRaises, db
<1>14. CASE \/ DesignsAge \/ Crash \/ Start \/ RecoverDesigns \/ UNCHANGED vars
            \/ \E w \in Sockets : Connect(w) \/ Disconnect(w)
  BY <1>2, <1>14 DEF DesignsAge, Crash, Start, RecoverDesigns, Connect, Disconnect, db, vars
<1> QED BY <1>5, <1>6, <1>7, <1>8, <1>9, <1>10, <1>11, <1>12, <1>13, <1>14
        DEF Next, Request, Pipeline, Check, Lifespan

\* No other task of a kind holds the id that a present task holds.
LEMMA HeldAlone ==
    ASSUME PInv, KindInv, OwnInv, NEW t \in TaskIds, NEW u \in TaskIds, t # u,
           pc[u] \in Live, KindAt(Place(u)) = "design",
           tasks[t].status # "absent", tasks[t].kind = "design",
           NEW d, d \in Holds(t), d \in Holds(u)
    PROVE  FALSE
<1>1. tasks[u].status # "absent" /\ tasks[u].kind = "design"
  BY LivePresent DEF PInv, KindInv
<1> QED BY <1>1 DEF OwnInv, Present

\* What a task that announces a design announces stays true of the design.
LEMMA AgreesStep ==
    ASSUME PInv, KindInv, OwnInv, CountInv, [Next]_vars, NEW t \in TaskIds, Carries(t), Agrees(t)
    PROVE  Agrees(t)'
<1> USE LabelFacts
<1> SUFFICES ASSUME Announced(tasks'[t])
             PROVE  \/ tasks'[t].result = "plain" /\ tasks'[t].record = NoInt
                    \/ /\ tasks'[t].record # NoInt
                       /\ designs'[tasks'[t].record].status = "completed"
                       /\ faults' = 0 => designs'[tasks'[t].record].quality = tasks'[t].result
  BY DEF Agrees
<1>0. /\ tasks[t] \in RowType /\ loc[t] \in LocalType /\ NoInt \notin Nat /\ nextDesign \in Nat
      /\ faults' = 0 => faults = 0
  BY FaultsGrow DEF PInv, IInv, DataOK, NoInt
<1>1. CASE SameRow(tasks'[t], tasks[t]) /\ tasks[t].record = NoInt
  BY <1>1 DEF SameRow, Agrees, Announced
<1>2. CASE SameRow(tasks'[t], tasks[t]) /\ tasks[t].record # NoInt
  <2> DEFINE d == tasks[t].record
  <2>1. /\ Announced(tasks[t]) /\ tasks[t].status # "absent" /\ tasks[t].kind = "design"
        /\ d = tasks'[t].record /\ tasks'[t].result = tasks[t].result
    BY <1>2 DEF SameRow, Announced
  <2>2. designs[d].status = "completed" /\ (faults = 0 => designs[d].quality = tasks[t].result)
    BY <1>2, <2>1 DEF Agrees
  <2>3. d \in Holds(t) /\ d \in 1..(nextDesign - 1)
    BY <1>0, <1>2, <2>1 DEF Holds, OwnInv, Present, NextRecord
  <2>4. d \in TaskIds /\ d < nextDesign
    BY <1>0, <2>3, DesignIds
  <2>5. ASSUME NEW u \in TaskIds, SaveError(u) \/ WriteReport(u), loc[u].rec = d PROVE FALSE
    <3>1. pc[u] \in {"saveError", "llm"} /\ Place(u) = pc[u] /\ pc[u] \in Live
      BY <2>5 DEF SaveError, WriteReport, Place, Live
    <3>2. KindAt(Place(u)) = "design"
      BY <3>1, CheckLabels DEF KindAt
    <3>3. d \in Holds(u)
      BY <1>2, <2>5 DEF Holds
    <3>4. u = t
      BY <2>1, <2>3, <3>1, <3>2, <3>3, HeldAlone
    <3>5. StatusFits(pc[t], tasks[t].status)
      BY <3>1, <3>4 DEF PInv, PathInv, Fits
    <3> QED BY <2>1, <3>1, <3>4, <3>5 DEF StatusFits, FailedAt, ReadyAt, Announced
  <2>6. designs'[d].status = "completed"
    BY <2>2, <2>4, <2>5, DesignFrame
  <2>7. ASSUME faults' = 0 PROVE designs'[d].quality = tasks[t].result
    <3>1. tasks[t].result # "pending"
      BY <1>0 DEF RowType, Results, NoStr
    <3> QED BY <1>0, <2>2, <2>4, <2>5, <2>7, <3>1, DesignFrame
  <2> QED BY <1>2, <2>1, <2>6, <2>7
<1>3. CASE /\ pc[t] \in StageLabels /\ UNCHANGED designs
           /\ tasks'[t] = Merge(tasks[t], StageUpd(t, pc[t]))
  <2>1. \/ /\ pc[t] = "finish"
           /\ tasks'[t].result = Overwrite(loc[t].quality, tasks[t].result, NoStr)
           /\ tasks'[t].record = Overwrite(loc[t].rec, tasks[t].record, NoInt)
        \/ /\ pc[t] = "llmFailed"
           /\ tasks'[t].result = "partial"
           /\ tasks'[t].record = Overwrite(loc[t].rec, tasks[t].record, NoInt)
        \/ /\ pc[t] = "unsaved"
           /\ tasks'[t].result = "plain"
           /\ tasks'[t].record = tasks[t].record
    BY <1>3, StageAnnounces
  <2>2. Place(t) = pc[t] /\ pc[t] \in Live /\ Fits(t)
    BY <1>3 DEF Place, Live, PInv, PathInv
  <2>3. CASE pc[t] = "unsaved"
    BY <2>1, <2>2, <2>3 DEF Carries, Fits
  <2>4. CASE pc[t] \in {"finish", "llmFailed"}
    <3>1. /\ loc[t].rec # NoInt /\ designs[loc[t].rec].status = "completed"
          /\ loc[t].quality \in {"full", "partial"}
          /\ pc[t] = "llmFailed" => loc[t].quality = "partial"
          /\ faults = 0 => designs[loc[t].rec].quality = loc[t].quality
      BY <2>2, <2>4 DEF Carries, DesignedAt, RatedAt
    <3>2. tasks'[t].record = loc[t].rec /\ tasks'[t].result = loc[t].quality
      BY <2>1, <2>4, <3>1 DEF Overwrite, NoStr
    <3> QED BY <1>0, <1>3, <3>1, <3>2
  <2> QED BY <2>1, <2>3, <2>4
<1> QED BY <1>1, <1>2, <1>3, RowAnnounces

\* Where the steps that change local variables go.
LEMMA SaveGoes ==
    ASSUME IInv, NEW t \in TaskIds
    PROVE  /\ SaveDesign(t) => Place(t)' = IF pc[t] = "save" THEN "link" ELSE "linkEmpty"
           /\ SaveCheck(t) => Place(t)' = "cLink"
           /\ WriteReport(t) => Place(t)' \in RatedAt
<1> USE LabelFacts DEF RatedAt
<1>1. ASSUME NEW l \in Inside \ {"bcast"}, pc[t] \in Inside, Goto(t, l) PROVE Place(t)' = l
  BY <1>1, GotoMoves DEF IInv, Place
<1>2. ASSUME SaveDesign(t) PROVE Place(t)' = IF pc[t] = "save" THEN "link" ELSE "linkEmpty"
  <2>1. PICK l \in {"link", "linkEmpty"} : Goto(t, l) /\ l = IF pc[t] = "save" THEN "link" ELSE "linkEmpty"
    BY <1>2 DEF SaveDesign
  <2>2. pc[t] \in Inside /\ l \in Inside \ {"bcast"}
    BY <1>2, StageLabelsDef DEF SaveDesign
  <2> QED BY <1>1, <2>1, <2>2
<1>3. ASSUME SaveCheck(t) PROVE Place(t)' = "cLink"
  <2>1. Goto(t, "cLink") /\ pc[t] \in Inside /\ "cLink" \in Inside \ {"bcast"}
    BY <1>3, StageLabelsDef DEF SaveCheck, CheckBody
  <2> QED BY <1>1, <2>1
<1>4. ASSUME WriteReport(t) PROVE Place(t)' \in {"llmFailed", "reported"}
  <2>1. PICK l \in {"llmFailed", "reported"} : Goto(t, l)
    BY <1>4 DEF WriteReport
  <2>2. pc[t] \in Inside /\ l \in Inside \ {"bcast"}
    BY <1>4, StageLabelsDef DEF WriteReport
  <2> QED BY <1>1, <2>1, <2>2
<1> QED BY <1>2, <1>3, <1>4

\* Only a task's own save or report changes its local variables, until a crash.
LEMMA LocFrame ==
    ASSUME PInv, [Next]_vars, NEW t \in TaskIds
    PROVE  \/ loc'[t] = loc[t]
           \/ SaveDesign(t) /\ Place(t)' \in {"link", "linkEmpty"}
           \/ SaveCheck(t) /\ Place(t)' = "cLink"
           \/ WriteReport(t) /\ Place(t)' \in RatedAt
           \/ Place(t)' \in {"none", "done"}
<1> USE LabelFacts DEF RatedAt
<1>0. loc \in [TaskIds -> LocalType] /\ IInv
  BY DEF PInv, IInv, DataOK
<1>1. ASSUME NEW u \in TaskIds, SaveDesign(u) \/ SaveCheck(u) \/ WriteReport(u), u # t
      PROVE  loc'[t] = loc[t]
  <2>1. CASE WriteReport(u)
    <3>1. \E q \in {"full", "partial"} : loc' = [loc EXCEPT ![u].quality = q]
      BY <2>1 DEF WriteReport
    <3> QED BY <1>0, <1>1, <3>1
  <2> QED BY <1>0, <1>1, <2>1 DEF SaveDesign, SaveCheck
<1>2. CASE \E u \in TaskIds : SaveDesign(u) \/ SaveCheck(u) \/ WriteReport(u)
  BY <1>0, <1>1, <1>2, SaveGoes
<1>5. CASE Crash
  <2>1. pc'[t] \in {"none", "done"}
    BY <1>5 DEF Crash
  <2> QED BY <2>1 DEF Place
<1>6. CASE loc' = loc
  BY <1>6
<1>7. CASE \E c \in Clients : Request(c)
  BY <1>6, <1>7 DEF Request, Select, Insert, PruneAndSpawn, CreateFails
<1>8. CASE \E u \in TaskIds : \/ StartDesign(u) \/ StartDesignFails(u) \/ Generate(u)
                               \/ SaveDesignFails(u) \/ SaveError(u)
                               \/ StartCheck(u) \/ GuardCheck(u) \/ GuardCheckFails(u)
                               \/ CollectCheck(u) \/ SaveCheckFails(u) \/ JudgeCheck(u)
  BY <1>6, <1>8 DEF StartDesign, StartDesignFails, Generate, SaveDesignFails, SaveError, StartCheck,
                    GuardCheck, GuardCheckFails, CollectCheck, SaveCheckFails, JudgeCheck
<1>9. CASE \E u \in TaskIds : \/ CheckTimeout(u) \/ Report(u) \/ ReportFails(u)
                               \/ Send(u) \/ SendRaises(u)
  BY <1>6, <1>9 DEF CheckTimeout, Report, ReportFails, Send, SendRaises
<1>10. CASE \/ ListTasks \/ DesignsAge \/ TasksAge \/ Lifespan \/ UNCHANGED vars
            \/ \E w \in Sockets : Connect(w) \/ Disconnect(w)
  BY <1>6, <1>10 DEF ListTasks, DesignsAge, TasksAge, Lifespan, Start, RecoverDesigns, RecoverTasks,
                     Connect, Disconnect, vars
<1> QED BY <1>2, <1>5, <1>7, <1>8, <1>9, <1>10 DEF Next, Pipeline, Design, Check

\* What a pipeline carries it brings to its last update.
LEMMA CarriesStep ==
    ASSUME PInv, KindInv, OwnInv, CountInv, [Next]_vars, NEW t \in TaskIds, Carries(t)
    PROVE  Carries(t)'
<1> USE LabelFacts
<1> DEFINE a == Place(t)
           b == Place(t)'
<1>0. /\ loc[t] \in LocalType /\ designs \in [TaskIds -> DesignType] /\ NoInt \notin Nat
      /\ nextDesign \in Nat /\ (faults' = 0 => faults = 0) /\ faults \in Nat
      /\ loc \in [TaskIds -> LocalType]
  BY FaultsGrow DEF PInv, IInv, DataOK, NoInt
<1>1. ASSUME a \in DesignedAt
      PROVE  /\ pc[t] \in Live /\ KindAt(Place(t)) = "design" /\ boot = "up"
             /\ tasks[t].status # "absent" /\ tasks[t].kind = "design"
             /\ loc[t].rec \in TaskIds /\ loc[t].rec < nextDesign
  <2>1. pc[t] \notin {"none", "done"} /\ Place(t) \notin CheckAt
    BY <1>1, EarlyLabels, CheckLabels DEF Place
  <2>2. pc[t] \in Live /\ KindAt(Place(t)) = "design" /\ boot = "up"
    BY <2>1 DEF PInv, IInv, LockInv, BootInv, Labels, KindAt
  <2>3. tasks[t].status # "absent" /\ tasks[t].kind = "design"
    BY <2>2, LivePresent DEF PInv, KindInv
  <2>4. loc[t].rec # NoInt
    BY <1>1 DEF Carries
  <2>5. loc[t].rec \in 1..(nextDesign - 1)
    BY <1>0, <2>3, <2>4 DEF OwnInv, Present, Holds, NextRecord
  <2> QED BY <1>0, <2>2, <2>3, <2>5, DesignIds
<1>2. ASSUME b \in DesignedAt, loc'[t] = loc[t], ~WriteReport(t),
             a = b \/ (a \in DesignedAt \ RatedAt /\ b \notin RatedAt) \/ (a = "reported" /\ b = "finish")
      PROVE  Carries(t)'
  <2> DEFINE d == loc[t].rec
  <2>1. a \in DesignedAt /\ (b \in RatedAt => a \in RatedAt) /\ b # "unsaved"
        /\ (b = "llmFailed" => a = "llmFailed")
    BY <1>2, EarlyLabels DEF DesignedAt, RatedAt
  <2>2. ASSUME NEW u \in TaskIds, SaveError(u) \/ WriteReport(u), loc[u].rec = d PROVE FALSE
    <3>1. pc[u] \in {"saveError", "llm"} /\ Place(u) = pc[u] /\ pc[u] \in Live
      BY <2>2 DEF SaveError, WriteReport, Place, Live
    <3>2. KindAt(Place(u)) = "design"
      BY <3>1, CheckLabels DEF KindAt
    <3>3. d \in Holds(u) /\ d \in Holds(t)
      BY <1>0, <1>1, <2>1, <2>2 DEF Holds, NoInt, TaskIds
    <3>4. u = t
      BY <1>1, <2>1, <3>1, <3>2, <3>3, HeldAlone
    <3>5. pc[t] = "saveError"
      BY <1>2, <2>2, <3>4 DEF SaveError
    <3> QED BY <2>1, <3>1, <3>4, <3>5, EarlyLabels
  <2>3. ~RecoverDesigns
    BY <1>1, <2>1 DEF RecoverDesigns
  <2>4. designs'[d].status = designs[d].status /\ designs'[d].quality = designs[d].quality
    BY <1>1, <2>1, <2>2, <2>3, DesignFrame
  <2> HIDE DEF d
  <2>5. loc'[t].rec = d /\ loc'[t].quality = loc[t].quality
    BY <1>2 DEF d
  <2>6. /\ d # NoInt /\ designs[d].status = "completed"
        /\ b \in RatedAt => /\ loc[t].quality \in {"full", "partial"}
                            /\ b = "llmFailed" => loc[t].quality = "partial"
                            /\ faults = 0 => designs[d].quality = loc[t].quality
    BY <2>1 DEF Carries, d
  <2> QED BY <1>0, <2>1, <2>4, <2>5, <2>6 DEF Carries
<1>3. CASE SaveDesign(t) /\ b = "link"
  <2>1. nextDesign \in TaskIds
    <3>1. Place(t) \in EarlyAt
      BY <1>3, EarlyLabels DEF SaveDesign, Place
    <3> QED BY <3>1, DesignIds
  <2>2. pc[t] = "save"
    BY <1>3, SaveGoes DEF PInv
  <2>3. designs' = [designs EXCEPT ![nextDesign] = [status |-> "completed", quality |-> "pending",
            aged |-> FALSE]]
        /\ loc'[t].rec = nextDesign
    BY <1>0, <1>3, <2>2 DEF SaveDesign, InsertDesign, LocalType
  <2>4. designs'[nextDesign].status = "completed" /\ nextDesign # NoInt
    BY <1>0, <2>1, <2>3
  <2> QED BY <1>3, <2>3, <2>4, EarlyLabels DEF Carries, RatedAt
<1>4. CASE WriteReport(t) /\ b \in RatedAt
  <2>1. pc[t] = "llm" /\ a = "llm"
    BY <1>4 DEF WriteReport, Place
  <2>2. a \in DesignedAt
    BY <2>1, EarlyLabels
  <2>3. loc[t].rec \in TaskIds /\ designs[loc[t].rec].status = "completed" /\ loc[t].rec # NoInt
    BY <1>1, <2>2 DEF Carries
  <2>4. PICK q \in {"full", "partial"}, l \in {"llmFailed", "reported"} :
           /\ \/ designs' = [designs EXCEPT ![loc[t].rec].quality = q]
              \/ Fault /\ UNCHANGED designs
           /\ loc' = [loc EXCEPT ![t].quality = q]
           /\ Goto(t, l) /\ (l = "llmFailed" => q = "partial")
    BY <1>4 DEF WriteReport
  <2>5. b = l
    <3>1. pc'[t] = l
      BY <2>1, <2>4, GotoMoves, StageLabelsDef DEF PInv, IInv
    <3> QED BY <3>1 DEF Place
  <2>6. loc'[t].rec = loc[t].rec /\ loc'[t].quality = q
    BY <1>0, <2>4 DEF LocalType
  <2>7. designs'[loc[t].rec].status = "completed"
        /\ (faults' = 0 => designs'[loc[t].rec].quality = q)
    BY <1>0, <2>3, <2>4 DEF Fault, DesignType
  <2> QED BY <2>3, <2>4, <2>5, <2>6, <2>7 DEF Carries
<1>5. CASE b = "unsaved"
  <2>1. a \in {"save", "unsaved"}
    BY <1>5, StepMoves DEF Moves, Leads
  <2>2. loc'[t] = loc[t]
    BY <1>5, LocFrame DEF RatedAt
  <2>3. loc[t].rec = NoInt
    <3>1. CASE a = "save"
      <4>1. pc[t] \in Live /\ "save" \in UnsavedAt
        BY <3>1, PathLabels DEF Place, Live, PInv, IInv, BcastInv
      <4> QED BY <3>1, <4>1 DEF PInv, PathInv, Fits
    <3>2. CASE a = "unsaved"
      BY <3>2 DEF Carries
    <3> QED BY <2>1, <3>1, <3>2
  <2> QED BY <1>5, <2>2, <2>3, EarlyLabels DEF Carries, RatedAt
<1>6. CASE b \in DesignedAt /\ ~SaveDesign(t) /\ ~WriteReport(t)
  <2>1. loc'[t] = loc[t]
    BY <1>6, LocFrame, EarlyLabels
  <2>2. a = b \/ (a \in DesignedAt \ RatedAt /\ b \notin RatedAt) \/ (a = "reported" /\ b = "finish")
    BY <1>6, StepMoves DEF Moves, Leads
  <2> QED BY <1>2, <1>6, <2>1, <2>2
<1>7. CASE b \notin DesignedAt \cup {"unsaved"}
  BY <1>7 DEF Carries, DesignedAt
<1>8. b \in DesignedAt => (SaveDesign(t) => b = "link") /\ (WriteReport(t) => b \in RatedAt)
  BY SaveGoes, EarlyLabels DEF PInv
<1> QED BY <1>3, <1>4, <1>5, <1>6, <1>7, <1>8

\* The whole, with the agreement.
LEMMA AgreeStep ==
    ASSUME PInv, KindInv, OwnInv, AgreeInv, [Next]_vars
    PROVE  AgreeInv'
<1>1. CountInv' /\ \A t \in TaskIds : Carries(t)'
  BY CountStep, CarriesStep DEF AgreeInv
<1>2. \A t \in TaskIds : Agrees(t)
  BY DEF AgreeInv, TaskAgreesWithDesign, Agrees, Announced
<1>3. \A t \in TaskIds : Agrees(t)'
  BY <1>2, AgreesStep DEF AgreeInv
<1>4. TaskAgreesWithDesign'
  BY <1>3 DEF TaskAgreesWithDesign, Agrees, Announced
<1> QED BY <1>1, <1>4 DEF AgreeInv

\* A design task that ended with a plan agrees with its design, although two
\* transactions write them (task_manager.py): the design is completed and, unless a
\* transaction failed, has the report quality the task announces.
THEOREM DesignsAgree == Spec => []TaskAgreesWithDesign
<1>1. Init => AgreeInv
  <2> SUFFICES ASSUME Init PROVE AgreeInv
    OBVIOUS
  <2>1. \A t \in TaskIds : Place(t) = "none" /\ tasks[t].kind = NoStr
    BY DEF Init, Place, NoRow
  <2>2. nextDesign = 1 /\ IsFiniteSet(SavedTasks) /\ Cardinality(SavedTasks) \in Nat
    <3>1. SavedTasks = {}
      BY <2>1, EarlyLabels DEF SavedTasks
    <3> QED BY <3>1, FS_EmptySet DEF Init
  <2>3. CountInv
    BY <2>2 DEF CountInv
  <2>4. \A t \in TaskIds : Carries(t)
    BY <2>1, EarlyLabels DEF Carries, RatedAt
  <2>5. TaskAgreesWithDesign
    BY <2>1 DEF TaskAgreesWithDesign, NoStr
  <2> QED BY <2>3, <2>4, <2>5 DEF AgreeInv
<1>2. PInv /\ KindInv /\ OwnInv /\ AgreeInv /\ [Next]_vars => AgreeInv'
  BY AgreeStep
<1>3. AgreeInv => TaskAgreesWithDesign
  BY DEF AgreeInv
<1> QED BY <1>1, <1>2, <1>3, WholeInvariance, PTL DEF Spec
-----------------------------------------------------------------------------
\* A nonempty set of ids has a last one.
LEMMA LastId ==
    ASSUME NEW H \in SUBSET TaskIds, H # {}
    PROVE  \E h \in H : \A u \in H : u <= h
<1> USE StoreAssumption DEF TaskIds
<1> DEFINE R == {ss \in Nat \X Nat : ss[1] < ss[2]}  T == {MaxTasks - u : u \in H}
<1>1. IsWellFoundedOn(R, Nat)
  BY NatLessThanWellFounded DEF OpToRel
<1>2. T \subseteq Nat /\ T # {}
  <2>1. \A u \in H : MaxTasks - u \in Nat
    OBVIOUS
  <2> QED BY <2>1
<1>3. PICK m \in T : \A k \in T : ~ (<<k, m>> \in R)
  <2> HIDE DEF T, R
  <2> QED BY <1>1, <1>2, WFMin
<1>4. PICK h \in H : m = MaxTasks - h
  OBVIOUS
<1>5. ASSUME NEW u \in H PROVE u <= h
  <2>1. MaxTasks - u \in T /\ MaxTasks - u \in Nat /\ m \in Nat
    BY <1>2
  <2>2. ~ (<<MaxTasks - u, m>> \in R)
    <3> HIDE DEF T, R
    <3> QED BY <1>3, <2>1
  <2>3. ~ (MaxTasks - u < m)
    <3> HIDE DEF T
    <3> QED BY <2>1, <2>2
  <2> HIDE DEF T
  <2> QED BY <1>4, <2>3
<1> QED BY <1>5

\* Every set of ids is finite.
LEMMA IdsFinite == \A H \in SUBSET TaskIds : IsFiniteSet(H) /\ Cardinality(H) \in Nat
<1>1. IsFiniteSet(TaskIds)
  BY FS_Interval, StoreAssumption DEF TaskIds
<1> QED BY <1>1, FS_Subset, FS_CardinalityType

\* What retention takes is terminal, past the window and older than RetentionMax
\* terminal rows that stay: those after the last row that is not among the newest.
LEMMA RetentionLeaves ==
    ASSUME NEW tab \in [TaskIds -> RowType], NEW t \in TaskIds,
           tab[t].status # "absent", Pruned(tab)[t].status = "absent"
    PROVE  /\ tab[t].status \in TerminalStatuses /\ tab[t].old
           /\ Cardinality({u \in Terminals(Pruned(tab)) : u > t}) >= RetentionMax
<1> DEFINE H == Terminals(tab) \ Newest(tab)
           Later(m) == {u \in Terminals(tab) : u > m}
           Left == {u \in Terminals(Pruned(tab)) : u > t}
<1>1. t \in H /\ tab[t].old
  BY DEF Pruned
<1>2. H \in SUBSET TaskIds /\ H # {}
  BY <1>1 DEF Terminals
<1>3. PICK h \in H : \A u \in H : u <= h
  <2> HIDE DEF H
  <2> QED BY <1>2, LastId
<1>4. h \in TaskIds /\ t <= h
  BY <1>1, <1>2, <1>3
<1>5. ~ (Cardinality(Later(h)) < RetentionMax)
  BY <1>3 DEF Newest
<1>6. Later(h) \subseteq Left
  <2> SUFFICES ASSUME NEW u \in Later(h) PROVE u \in Left
    OBVIOUS
  <2>1. u \in TaskIds /\ u > h /\ tab[u].status \in TerminalStatuses /\ u > t
    BY <1>4, StoreAssumption DEF Terminals, TaskIds
  <2>2. u \notin H
    <3> HIDE DEF H
    <3> QED BY <1>3, <1>4, <2>1, StoreAssumption DEF TaskIds
  <2>3. Pruned(tab)[u] = tab[u]
    BY <2>1, <2>2 DEF Pruned
  <2> QED BY <2>1, <2>3 DEF Terminals
<1>7. Left \in SUBSET TaskIds /\ Later(h) \in SUBSET TaskIds
  BY DEF Terminals
<1> HIDE DEF Left, Later
<1>8. Cardinality(Later(h)) <= Cardinality(Left)
  BY <1>6, <1>7, IdsFinite, FS_Subset
<1>9. Cardinality(Left) >= RetentionMax
  BY <1>5, <1>7, <1>8, IdsFinite, StoreAssumption
<1> QED BY <1>1, <1>9 DEF Left, Terminals

\* What leaves the table at this step leaves it by retention.
Retained ==
    \A t \in Present(tasks) \ Present(tasks') :
        /\ tasks[t].status \in TerminalStatuses /\ tasks[t].old
        /\ Cardinality({u \in Terminals(tasks') : u > t}) >= RetentionMax

\* A step at which no row goes, and a prune.
LEMMA NoneGone ==
    ASSUME \A u \in TaskIds : tasks[u].status # "absent" => tasks'[u].status # "absent"
    PROVE  Retained
  BY DEF Retained, Present
LEMMA PruneRetains ==
    ASSUME tasks \in [TaskIds -> RowType], tasks' = Pruned(tasks)
    PROVE  Retained
  BY RetentionLeaves DEF Retained, Present

\* An update of a stage, with its prune and without.
LEMMA UpdateRetains ==
    ASSUME PInv, NEW t \in TaskIds, pc[t] \in StageLabels,
           \/ tasks' = Updated(tasks, t, StageUpd(t, pc[t]))
           \/ tasks' = Written(tasks, t, StageUpd(t, pc[t]))
    PROVE  Retained
<1> DEFINE upd == StageUpd(t, pc[t])  w == Written(tasks, t, upd)
<1>1. /\ tasks \in [TaskIds -> RowType] /\ upd \in UpdType
      /\ tasks[t].status # "absent" /\ ~tasks[t].old /\ ~Merge(tasks[t], upd).old
      /\ Merge(tasks[t], upd).status # "absent"
  <2>1. IInv /\ PathInv /\ tasks \in [TaskIds -> RowType]
    BY DEF PInv, IInv, DataOK
  <2>2. LET new == Merge(tasks[t], upd) IN
        /\ tasks[t].status # "absent" /\ ~tasks[t].old /\ ~new.old /\ upd \in UpdType
    BY <2>1, StageWrites
  <2>3. Merge(tasks[t], upd).status # "absent"
    <3>1. Merge(tasks[t], upd).status = Overwrite(upd.status, tasks[t].status, NoStr)
      BY <2>1, <2>2, MergeFields
    <3>2. upd.status # "absent"
      BY <2>2 DEF UpdType, ActiveStatuses, TerminalStatuses, NoStr
    <3> QED BY <2>2, <3>1, <3>2 DEF Overwrite
  <2> QED BY <2>1, <2>2, <2>3
<1>2. w = [tasks EXCEPT ![t] = Merge(tasks[t], upd)]
  BY <1>1 DEF Written
<1> HIDE DEF upd
<1>3. w[t] = Merge(tasks[t], upd) /\ \A u \in TaskIds \ {t} : w[u] = tasks[u]
  BY <1>1, <1>2
<1>4. w \in [TaskIds -> RowType]
  BY <1>1, WrittenType
<1> HIDE DEF w
<1>5. CASE tasks' = w
  BY <1>1, <1>3, <1>5, NoneGone
<1>6. CASE tasks' = Pruned(w)
  <2> SUFFICES ASSUME NEW u \in TaskIds, tasks[u].status # "absent", tasks'[u].status = "absent"
               PROVE  /\ tasks[u].status \in TerminalStatuses /\ tasks[u].old
                      /\ Cardinality({v \in Terminals(tasks') : v > u}) >= RetentionMax
    BY DEF Retained, Present
  <2>1. w[u].status # "absent" /\ Pruned(w)[u].status = "absent"
    BY <1>1, <1>3, <1>6
  <2>2. /\ w[u].status \in TerminalStatuses /\ w[u].old
        /\ Cardinality({v \in Terminals(Pruned(w)) : v > u}) >= RetentionMax
    BY <1>4, <2>1, RetentionLeaves
  <2>3. u # t
    BY <1>1, <1>3, <2>2
  <2> QED BY <1>3, <1>6, <2>2, <2>3
<1> QED BY <1>5, <1>6 DEF Updated, upd, w

\* The steps of a pipeline: the updates write, the others leave the table alone.
LEMMA PipelineRetains ==
    ASSUME PInv, NEW t \in TaskIds, Pipeline(t)
    PROVE  Retained
<1>1. CASE Design(t)
  <2>1. UNCHANGED tasks
    BY <1>1 DEF Design, StartDesign, StartDesignFails, Generate, SaveDesign, SaveDesignFails,
                WriteReport, SaveError, db
  <2> QED BY <2>1, NoneGone
<1>2. CASE Report(t)
  <2>1. pc[t] \in StageLabels /\ tasks' = Updated(tasks, t, StageUpd(t, pc[t]))
    BY <1>2 DEF Report
  <2> QED BY <2>1, UpdateRetains
<1>3. CASE CommitsOnly(t)
  <2>1. pc[t] \in StageLabels /\ tasks' = Written(tasks, t, StageUpd(t, pc[t]))
    BY <1>3 DEF CommitsOnly
  <2> QED BY <2>1, UpdateRetains
<1>4. Check(t) => UNCHANGED tasks \/ CommitsOnly(t)
  BY DEF Check, StartCheck, GuardCheck, GuardCheckFails, CollectCheck, SaveCheck,
         SaveCheckFails, JudgeCheck, CheckTimeout, db
<1>5. ReportFails(t) => UNCHANGED tasks \/ CommitsOnly(t)
  BY DEF ReportFails
<1>6. ASSUME Send(t) \/ SendRaises(t) PROVE tasks' = tasks
  <2>1. UNCHANGED db
    BY <1>6, Zenon DEF Send, SendRaises
  <2> QED BY <2>1 DEF db
<1> QED BY NoneGone, <1>1, <1>2, <1>3, <1>4, <1>5, <1>6 DEF Pipeline

\* The recovery at startup ends tasks, it takes none.
LEMMA RecoveryRetains ==
    ASSUME tasks \in [TaskIds -> RowType], RecoverTasks
    PROVE  Retained
<1> DEFINE failed(r) == [r EXCEPT !.status = "failed", !.stamped = TRUE]
<1>1. \/ tasks' = [t \in TaskIds |-> IF tasks[t].status \in ActiveStatuses
                                    THEN failed(tasks[t]) ELSE tasks[t]]
      \/ tasks' = tasks
  BY Zenon DEF RecoverTasks
<1>2. \A r \in RowType : failed(r).status = "failed"
  BY DEF RowType
<1> HIDE DEF failed
<1>3. \A u \in TaskIds : tasks'[u].status = tasks[u].status \/ tasks'[u].status = "failed"
  BY <1>1, <1>2
<1> QED BY <1>3, NoneGone

\* Which steps write to the table.
LEMMA StepRetains == ASSUME PInv, [Next]_vars PROVE Retained
<1>0. tasks \in [TaskIds -> RowType]
  BY DEF PInv, IInv, DataOK
<1>1. CASE UNCHANGED tasks
  BY <1>1, NoneGone
<1>2. ASSUME NEW c \in Clients, Request(c) PROVE Retained
  <2>1. CASE Insert(c)
    <3>1. tasks' = [tasks EXCEPT ![nextTask] = NewRow(creq[c].kind, creq[c].params)]
      BY <2>1 DEF Insert
    <3>2. NewRow(creq[c].kind, creq[c].params).status = "pending"
      BY DEF NewRow, NoRow
    <3> HIDE DEF NewRow
    <3>3. \A u \in TaskIds : tasks'[u] = tasks[u] \/ tasks'[u].status = "pending"
      BY <1>0, <3>1, <3>2
    <3> QED BY <3>3, NoneGone
  <2>2. CASE PruneAndSpawn(c)
    BY <1>0, <2>2, PruneRetains DEF PruneAndSpawn
  <2>3. CASE Select(c) \/ CreateFails(c)
    BY <1>1, <2>3 DEF Select, CreateFails, db
  <2> QED BY <1>2, <2>1, <2>2, <2>3 DEF Request
<1>3. ASSUME NEW t \in TaskIds, Pipeline(t) PROVE Retained
  BY <1>3, PipelineRetains
<1>4. CASE ListTasks
  BY <1>0, <1>4, PruneRetains DEF ListTasks
<1>5. CASE TasksAge
  <2>1. \A u \in TaskIds : tasks'[u].status = tasks[u].status
    <3> SUFFICES ASSUME NEW u \in TaskIds PROVE tasks'[u].status = tasks[u].status
      OBVIOUS
    <3>1. tasks'[u] \in {tasks[u], [tasks[u] EXCEPT !.old = TRUE]}
      BY <1>5 DEF TasksAge
    <3>2. tasks[u] \in RowType
      BY <1>0
    <3> QED BY <3>1, <3>2 DEF RowType
  <2> QED BY <2>1, NoneGone
<1>6. CASE RecoverTasks
  BY <1>0, <1>6, RecoveryRetains
<1>7. CASE \/ DesignsAge \/ Crash \/ Start \/ RecoverDesigns \/ UNCHANGED vars
           \/ \E w \in Sockets : Connect(w) \/ Disconnect(w)
  BY <1>1, <1>7 DEF DesignsAge, Crash, Start, RecoverDesigns, Connect, Disconnect, db, vars
<1> QED BY <1>2, <1>3, <1>4, <1>5, <1>6, <1>7 DEF Next, Lifespan

\* A row leaves the table only by retention, whoever prunes (task_manager.py: every
\* insert, listing and final update): it is terminal and past the window, and at least
\* RetentionMax newer terminal rows stay.
THEOREM RowsLeaveByRetention == Spec => RetentionKept
<1>1. PInv /\ [Next]_vars => [Retained]_vars
  BY StepRetains
<1> QED BY <1>1, WholeInvariance, PTL DEF Spec, RetentionKept, Retained
=============================================================================
