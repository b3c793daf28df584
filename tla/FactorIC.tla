------------------------------- MODULE FactorIC -------------------------------
(***************************************************************************)
(* The batch of information coefficients that every computation of the     *)
(* factors leaves in the registry (factors/factor_registry.py), the loop   *)
(* that saves it under the day's trade date, the backfill that replays the *)
(* past through the same registry (both in main.py), and the rows they     *)
(* leave (factors/ic_tracker.py).  A batch is the day of its prices.       *)
(***************************************************************************)
EXTENDS Integers, FiniteSets

CONSTANTS FirstDays,         \* the process first starts on day FirstDays + 1; K-lines begin on day 1
          LastDay,      \* bound: the calendar
          TradingDays,
          SkipGate,     \* rows of so many trade dates make a backfill needless
          MaxIcStarts   \* bound: starts of the process

ASSUME IcAssumption ==
    /\ {FirstDays, LastDay, SkipGate, MaxIcStarts} \subseteq Nat /\ LastDay > FirstDays
    /\ 1 .. FirstDays \subseteq TradingDays /\ FirstDays > 0 /\ TradingDays \subseteq Nat

VARIABLES day, batch,   \* _last_ic_batch
          icRows,         \* FactorICRecord: of each trade date, the day of the prices; 0: no row
          newest,       \* the trade date of the latest computed_at
          loop, held,   \* where _ic_persistence_loop is, the batch it saves
          back, snap, scored,   \* _backfill_ic_history_task; its snapshot, the days scored
          icStarts

icVars == <<day, batch, icRows, newest, loop, held, back, snap, scored, icStarts>>

Batch(of, by) == [of |-> of, by |-> by]
NoBatch == Batch(0, "none")
Days == 1 .. LastDay
Backfill(pc, i, last) == [pc |-> pc, i |-> i, last |-> last]
NoBackfill == Backfill("done", 0, 0)
Waiting == Backfill("waits", 0, 0)
Latest(ds) == CHOOSE d \in ds : \A e \in ds : e <= d

IcInit ==
    /\ day = FirstDays + 1 /\ batch = NoBatch /\ icRows = [d \in Days |-> 0] /\ newest = 0
    /\ loop = "rest" /\ held = NoBatch
    /\ back = Waiting /\ snap = NoBatch /\ scored = {} /\ icStarts = 1

SameBackfill == UNCHANGED <<back, snap, scored>>
SameLoop == UNCHANGED <<loop, held>>
SameIcRows == UNCHANGED <<icRows, newest>>

NextDay == /\ day < LastDay /\ day' = day + 1
           /\ UNCHANGED <<batch, icStarts>> /\ SameIcRows /\ SameLoop /\ SameBackfill

\* compute() for a design, a request or the loop: the batch of the day, when one of
\* its coefficients has a signal; otherwise, and when it was cut short, the old one.
LiveComputes == /\ batch' = Batch(day, "live")
                /\ UNCHANGED <<day, icStarts>> /\ SameIcRows /\ SameLoop /\ SameBackfill

-----------------------------------------------------------------------------
\* Every two minutes: what the registry has at that moment is saved, then the series
\* are read, then the factors are computed.
LoopTakes == /\ loop = "rest" /\ batch # NoBatch
             /\ loop' = "saves" /\ held' = batch
             /\ UNCHANGED <<day, batch, icStarts>> /\ SameIcRows /\ SameBackfill

\* save_ic_batch_to_db under today's date, one transaction, on trading days only.
Upserts(date, of) == icRows' = [icRows EXCEPT ![date] = of] /\ newest' = date
LoopSaves(works) ==
    /\ loop = "saves" /\ loop' = "computes" /\ held' = NoBatch
    /\ IF works /\ day \in TradingDays THEN Upserts(day, held.of) ELSE SameIcRows
    /\ UNCHANGED <<day, batch, icStarts>> /\ SameBackfill

LoopComputes(signal) ==
    /\ loop = "computes" /\ loop' = "rest"
    /\ batch' = IF signal THEN Batch(day, "live") ELSE batch
    /\ UNCHANGED <<day, held, icStarts>> /\ SameIcRows /\ SameBackfill

-----------------------------------------------------------------------------
\* The backfill, once per start, as soon as there are K-lines and a pool.  It gives
\* up without them, and with rows of enough trade dates.
KnownDates == Cardinality({d \in Days : icRows[d] # 0})
BackfillBegins(ready) ==
    /\ back.pc = "waits"
    /\ IF ready /\ KnownDates < SkipGate
       THEN /\ snap' = batch
            /\ \E last \in {Latest({d \in TradingDays : d <= day}), Latest({d \in TradingDays : d < day})} :
                  back' = Backfill("replays", last, last)
       ELSE back' = NoBackfill /\ UNCHANGED snap
    /\ scored' = {}
    /\ UNCHANGED <<day, batch, icStarts>> /\ SameIcRows /\ SameLoop

\* One past day, the newest first, by the same compute(); others run between two days.
Replays(signal, works) ==
    /\ back.pc = "replays" /\ back.i > 1
    /\ back' = [back EXCEPT !.i = Latest({d \in TradingDays : d < back.i})]
    /\ batch' = IF works /\ signal THEN Batch(back.i, "replay") ELSE batch
    /\ scored' = IF works THEN scored \cup {back.i} ELSE scored
    /\ UNCHANGED <<day, snap, icStarts>> /\ SameIcRows /\ SameLoop

\* `finally`: the end of the replay, a cancellation included, puts the snapshot back.
ForgetsSnapshot(cancelled) ==
    /\ back.pc = "replays" /\ (back.i = 1 \/ cancelled)
    /\ batch' = IF cancelled THEN batch ELSE snap
    /\ back' = IF cancelled THEN NoBackfill ELSE [back EXCEPT !.pc = "saves", !.i = 2]
    /\ snap' = NoBatch
    /\ UNCHANGED <<day, scored, icStarts>> /\ SameIcRows /\ SameLoop
EndsReplay(cancelled) ==
    /\ back.pc = "replays" /\ (back.i = 1 \/ cancelled)
    /\ batch' = snap
    /\ back' = IF cancelled THEN NoBackfill ELSE [back EXCEPT !.pc = "saves", !.i = 2]
    /\ snap' = NoBatch
    /\ UNCHANGED <<day, scored, icStarts>> /\ SameIcRows /\ SameLoop

\* backfill_ic_history: a transaction per day, in the order of the days.
SavesDay(works) ==
    /\ back.pc = "saves" /\ back.i <= back.last
    /\ back' = [back EXCEPT !.i = @ + 1]
    /\ IF works /\ back.i \in scored THEN Upserts(back.i, back.i) ELSE SameIcRows
    /\ UNCHANGED <<day, batch, snap, scored, icStarts>> /\ SameLoop
BackfillDone ==
    /\ back.pc = "saves" /\ back.i > back.last /\ back' = NoBackfill /\ scored' = {}
    /\ UNCHANGED <<day, batch, snap, icStarts>> /\ SameIcRows /\ SameLoop

-----------------------------------------------------------------------------
\* restore_ic_from_db at the start: the rows of the latest computed_at, if any of them
\* has a signal.
IcRestart(signal) ==
    /\ icStarts < MaxIcStarts /\ icStarts' = icStarts + 1
    /\ batch' = IF newest # 0 /\ signal THEN Batch(icRows[newest], "stored") ELSE NoBatch
    /\ loop' = "rest" /\ held' = NoBatch
    /\ back' = Waiting /\ snap' = NoBatch /\ scored' = {}
    /\ UNCHANGED day /\ SameIcRows

IcNext ==
    \/ NextDay \/ LiveComputes \/ LoopTakes \/ BackfillDone
    \/ \E yes \in BOOLEAN :
          \/ LoopSaves(yes) \/ LoopComputes(yes) \/ BackfillBegins(yes) \/ EndsReplay(yes)
          \/ SavesDay(yes) \/ IcRestart(yes)
          \/ \E works \in BOOLEAN : Replays(yes, works)

-----------------------------------------------------------------------------
\* Outside of its replay the backfill leaves no trace in the registry, however it
\* ended and whatever was computed meanwhile (main.py 802-804); rows are of trading
\* days only, and those of the days before the process holds prices of those days.
ReplayLeavesNoTrace ==
    /\ back.pc # "replays" => batch.by # "replay"
    /\ snap.by # "replay"
    /\ \A d \in Days : icRows[d] # 0 => d \in TradingDays
    /\ \A d \in 1 .. FirstDays : icRows[d] \in {0, d}

\* Claims false of the code.  The row of a trade date holds prices of that date
\* (ic_tracker.py 316-328): the loop may save a batch that was restored, or one the
\* replay has just left.  What is computed live stays (main.py 769-771 says the
\* snapshot protects it): the end of the replay puts an older batch over it.
RowIsOfItsDay == \A d \in Days : icRows[d] \in {0, d}
LiveStays == [][batch.by = "live" => batch'.by \in {"live", "replay"} \/ icStarts' # icStarts]_icVars
===============================================================================
