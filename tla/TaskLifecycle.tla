--------------------------- MODULE TaskLifecycle ---------------------------
(***************************************************************************)
(* What a client of the task API may rely on (api-contracts/portfolio/     *)
(* tasks.md 2.4.1), as the code keeps it: the life of one task row, seen   *)
(* through its status and record_id only.                                  *)
(***************************************************************************)
CONSTANTS Ids, NoRecord

VARIABLES status, record

\* unused: id not handed out yet; absent: removed by retention.  A terminal row
\* may still turn into failed, and nothing ever leaves failed but by retention.
Edges == { <<"unused", "pending">>,
           <<"pending", "running">>, <<"pending", "failed">>,
           <<"running", "quick_ready">>, <<"running", "completed">>, <<"running", "failed">>,
           <<"quick_ready", "completed">>, <<"quick_ready", "completed_with_errors">>,
           <<"quick_ready", "failed">>,
           <<"completed", "failed">>, <<"completed_with_errors", "failed">>,
           <<"completed", "absent">>, <<"completed_with_errors", "absent">>,
           <<"failed", "absent">> }

Statuses == UNION {{e[1], e[2]} : e \in Edges}

Init == status = [t \in Ids |-> "unused"] /\ record = [t \in Ids |-> NoRecord]

\* Along its edges a row keeps the record it was once given, until it goes.
Row(t) ==
    /\ status'[t] = status[t] \/ <<status[t], status'[t]>> \in Edges
    /\ record'[t] = record[t] \/ record[t] = NoRecord \/ status'[t] = "absent"

Next ==
    /\ status' \in [Ids -> Statuses] /\ DOMAIN record' = Ids
    /\ \A t \in Ids : Row(t)

Spec == Init /\ [][Next]_<<status, record>>
=============================================================================
