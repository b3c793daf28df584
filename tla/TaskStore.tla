------------------------------ MODULE TaskStore ------------------------------
(***************************************************************************)
(* The `tasks` table of the backend and the operations TaskManager runs on *)
(* it (backend/app/tasks/task_manager.py, models/task.py): the merge an    *)
(* update performs, the retention rule, and the lookup that deduplicates   *)
(* submissions.  The table is a function from task ids to rows; an id      *)
(* without a row maps to NoRow, and ids are never reused (autoincrement),  *)
(* so the order of ids is the order of created_at.                         *)
(***************************************************************************)
EXTENDS Integers, FiniteSets

CONSTANTS
    MaxTasks,       \* bound on the tasks ever created
    Params,         \* serialized request parameters
    RetentionMax    \* RETENTION_TERMINAL_MAX (100): terminal rows always kept

ASSUME StoreAssumption ==
    /\ MaxTasks \in Nat \ {0}
    /\ RetentionMax \in Nat \ {0}

TaskIds == 1..MaxTasks

TerminalStatuses == {"completed", "completed_with_errors", "failed"}
ActiveStatuses   == {"pending", "running", "quick_ready"}

\* Python's None, as an integer column and as a text column.
NoInt == -1
NoStr == "-"

\* The keys of TASK_TYPES that a caller of create_task uses; nobody creates a "report".
Kinds   == {"design", "check"}
Results == {NoStr, "quick", "plain", "full", "partial", "report", "error"}

NoRow == [kind |-> NoStr, params |-> NoStr, status |-> "absent", progress |-> 0,
          result |-> NoStr, record |-> NoInt, stamped |-> FALSE, old |-> FALSE]

NewRow(kind, par) ==
    [NoRow EXCEPT !.kind = kind, !.params = par, !.status = "pending"]

Present(tab)   == {t \in TaskIds : tab[t].status # "absent"}
Terminals(tab) == {t \in TaskIds : tab[t].status \in TerminalStatuses}
Actives(tab)   == {t \in TaskIds : tab[t].status \in ActiveStatuses}

-----------------------------------------------------------------------------
(* update_task: a column whose new value is None keeps its old value;       *)
(* completed_at (`stamped`) is written with the first terminal status.      *)

Overwrite(new, old, none) == IF new = none THEN old ELSE new

\* Mutant: a record_id of None overwrites the one the row has.
MergeForgets(row, upd) ==
    [row EXCEPT !.status   = Overwrite(upd.status, @, NoStr),
                !.progress = Overwrite(upd.progress, @, NoInt),
                !.result   = Overwrite(upd.result, @, NoStr),
                !.record   = upd.record,
                !.stamped  = IF upd.status \in TerminalStatuses THEN TRUE ELSE @]

Merge(row, upd) ==
    [row EXCEPT !.status   = Overwrite(upd.status, @, NoStr),
                !.progress = Overwrite(upd.progress, @, NoInt),
                !.result   = Overwrite(upd.result, @, NoStr),
                !.record   = Overwrite(upd.record, @, NoInt),
                !.stamped  = IF upd.status \in TerminalStatuses THEN TRUE ELSE @]

Written(tab, t, upd) ==
    IF tab[t].status = "absent" THEN tab ELSE [tab EXCEPT ![t] = Merge(@, upd)]

(* prune_tasks: one DELETE of the terminal rows that are past the retention *)
(* window (`old`) and not among the RetentionMax newest terminal rows.      *)

Newest(tab) ==
    {t \in Terminals(tab) :
        Cardinality({u \in Terminals(tab) : u > t}) < RetentionMax}

\* Mutant: age alone decides.
PrunedByAge(tab) ==
    [t \in TaskIds |->
        IF t \in Terminals(tab) /\ tab[t].old THEN NoRow ELSE tab[t]]

Pruned(tab) ==
    [t \in TaskIds |->
        IF t \in Terminals(tab) \ Newest(tab) /\ tab[t].old THEN NoRow ELSE tab[t]]

(* The whole of update_task, its trailing prune included. *)
Updated(tab, t, upd) ==
    IF upd.status \in TerminalStatuses /\ tab[t].status # "absent"
    THEN Pruned(Written(tab, t, upd)) ELSE Written(tab, t, upd)

(* The SELECT of create_task: active rows of the same type and parameters.  *)
Duplicates(tab, kind, par) ==
    {t \in Actives(tab) : tab[t].kind = kind /\ tab[t].params = par}
=============================================================================
