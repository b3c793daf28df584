------------------------------ MODULE Watchlist ------------------------------
(***************************************************************************)
(* The watchlist, the history and the charts behind it (routers/market.py, *)
(* services/market_service.py).  A quote is a record with a price (0: it   *)
(* has none), the flag that says it is an estimate, its source and its     *)
(* day; NoQuote is the answer without one.                                 *)
(***************************************************************************)
EXTENDS Integers, Sequences, FiniteSets

CONSTANTS Budget,    \* 8 s: what the closes of a whole list may take
          OneWait,   \* 3 s: what one of them may take
          LeastLeft, \* 0.3 s: with less left, none is asked for
          AtOnce,    \* 3 at a time
          LeastBars  \* 30 bars make an indicator

ASSUME WatchlistAssumption ==
    /\ {Budget, OneWait, LeastLeft, LeastBars} \subseteq Nat
    /\ AtOnce \in Nat \ {0}

NoQuote == [price |-> 0]
WatchQuote(price, estimated, source, day) ==
    [price |-> price, estimated |-> estimated, source |-> source, day |-> day]

\* _normalize_watchlist_realtime: a source of an estimate makes it one; a price without a
\* day is of today.
Normalized(q, today) ==
    IF q = NoQuote THEN NoQuote
    ELSE LET est == q.estimated \/ q.source \in {"last_close", "last_close_cache", "last_good"}
         IN  [price |-> q.price, estimated |-> est,
              source |-> IF q.source = "live" /\ est THEN "stale" ELSE q.source,
              day |-> IF q.day = 0 THEN today ELSE q.day]

\* _last_close_fallback: the last bar's close, as of its day.
LastClose(bars) ==
    IF bars = <<>> THEN NoQuote
    ELSE WatchQuote(bars[Len(bars)].close, TRUE, "last_close", bars[Len(bars)].day)

\* _watchlist_enrich_items.  The market of a row is asked for in one call; the rows it
\* lacks are asked for singly, unless the whole call failed.  Only price, change and
\* volume are passed on, so the quote counts as live and of today.
Passed(q, today) == IF q = NoQuote THEN NoQuote ELSE Normalized(WatchQuote(q.price, FALSE, "live", 0), today)
EnrichedQuote(sym, batch, single, kept, bars, today) ==
    LET q == IF DOMAIN batch = {} THEN NoQuote
             ELSE IF sym \in DOMAIN batch THEN batch[sym] ELSE single
    IN  IF q # NoQuote THEN Passed(q, today)
        ELSE IF kept # NoQuote /\ kept.price # 0 THEN Normalized(WatchQuote(kept.price, FALSE, "stale", 0), today)
        ELSE Normalized(LastClose(bars), today)

\* The row mends itself: a symbol that is no code is replaced by the code it resolves to,
\* an empty or a copied name by the name of the quote.
Healed(row, isCode, resolved, quoteName) ==
    IF ~isCode /\ resolved \notin {"", row.sym}
    THEN [row EXCEPT !.sym = resolved, !.name = IF quoteName = "" THEN row.name ELSE quoteName]
    ELSE IF row.name \in {"", row.sym} /\ quoteName # "" THEN [row EXCEPT !.name = quoteName]
    ELSE row

\* _watchlist_close_fallback, one row after the other: it starts when one of the AtOnce
\* lanes is free and takes what its source takes, its own limit or the rest of the budget.
\* lanes says from when each is free, took how long each source would take.
RECURSIVE CloseLanes(_, _)
CloseLanes(took, lanes) ==
    IF took = <<>> THEN lanes
    ELSE LET lane == CHOOSE l \in DOMAIN lanes : \A m \in DOMAIN lanes : lanes[l] <= lanes[m]
             left == Budget - lanes[lane]
             wait == IF OneWait < left THEN OneWait ELSE left
             spent == IF left <= LeastLeft THEN 0 ELSE IF took[1] < wait THEN took[1] ELSE wait
         IN  CloseLanes(Tail(took), [lanes EXCEPT ![lane] = @ + spent])
ClosesTake(took) == CloseLanes(took, [l \in 1 .. AtOnce |-> 0])
\* What the row shows: a last close kept from before, one just read (and then kept), any
\* quote kept from before, or the word that there is none.
ClosedQuote(kept, read, today) ==
    IF kept # NoQuote /\ kept.source = "last_close" THEN Normalized([kept EXCEPT !.source = "last_close_cache"], today)
    ELSE IF read # NoQuote THEN Normalized(read, today)
    ELSE IF kept # NoQuote /\ kept.price # 0 THEN Normalized([kept EXCEPT !.source = "last_good"], today)
    ELSE NoQuote
KeptAfterClose(kept, read) ==
    IF (kept # NoQuote /\ kept.source = "last_close") \/ read = NoQuote THEN kept ELSE read

\* watchlist_list: an answer is kept for three seconds whatever is added or removed; rows
\* that are late are those of the closes.
WatchlistList(items, answer, inTime, enriched, closed) ==
    IF answer # <<>> THEN answer[1]
    ELSE [i \in DOMAIN items |-> IF inTime THEN enriched[items[i]] ELSE closed[items[i]]]

\* watchlist_add: the name given, else the instrument's, else the quote's, else none; the
\* table takes a symbol once.  update, remove and batch remove are by id.
WatchlistAdd(rows, id, sym, isCode, given, quoteName, instrument) ==
    IF ~isCode THEN [says |-> 422, rows |-> rows]
    ELSE IF \E r \in rows : r.sym = sym THEN [says |-> 409, rows |-> rows]
    ELSE LET named == given \notin {"", sym}
             name == IF named THEN given
                     ELSE IF quoteName # "none" THEN quoteName
                     ELSE instrument
         IN  IF ~named /\ quoteName = "none" /\ instrument = "" THEN [says |-> 422, rows |-> rows]
             ELSE [says |-> 201,
                   rows |-> rows \cup {[id |-> id, sym |-> sym, name |-> IF name = "" THEN sym ELSE name]}]
WatchlistUpdate(rows, id, row) ==
    IF \E r \in rows : r.id = id THEN {IF r.id = id THEN row ELSE r : r \in rows} ELSE rows
WatchlistRemove(rows, ids) == {r \in rows : r.id \notin ids}

-----------------------------------------------------------------------------
\* get_history: the rows kept, else the source's (a Hong Kong one whose close and whose
\* highest price are both more than half off the quote is of another instrument), else
\* two more sources, else the stale rows with their mark.
FarOff(price, quote) == 2 * (IF price > quote THEN price - quote ELSE quote - price) > quote
Highest(bars) == CHOOSE h \in {bars[i].high : i \in DOMAIN bars} : \A i \in DOMAIN bars : bars[i].high <= h
GetHistory(type, kept, source, quote, more, tencent, old) ==
    LET other == /\ type = "HK" /\ quote # 0
                 /\ source[Len(source)].close # 0 /\ FarOff(source[Len(source)].close, quote)
                 /\ FarOff(Highest(source), quote)
    IN  IF kept # <<>> THEN [bars |-> kept, stale |-> FALSE]
        ELSE IF source # <<>> THEN [bars |-> IF other THEN <<>> ELSE source, stale |-> FALSE]
        ELSE IF more # <<>> THEN [bars |-> more, stale |-> FALSE]
        ELSE IF type = "HK" /\ tencent # <<>> THEN [bars |-> tencent, stale |-> FALSE]
        ELSE [bars |-> old, stale |-> old # <<>>]
\* indicators, signal: too few bars are no answer, old ones one with a mark.
IndicatorsOf(bars, staleMark) == [available |-> Len(bars) >= LeastBars, stale |-> staleMark]

\* industry_sectors, concept_sectors: the rows of now, else the table's.
SectorRows(live, table) == IF live # <<>> THEN live ELSE table
\* sectors_heat: the change of a plate by its code, else by its name, else its own when it
\* is one a day can have; with most of them missing the answer says so.  100 is "none".
HeatChange(plate, byCode, byName) ==
    IF plate.code \in DOMAIN byCode THEN byCode[plate.code]
    ELSE IF plate.name \in DOMAIN byName THEN byName[plate.name]
    ELSE IF plate.own \in -10 .. 10 THEN plate.own ELSE 100
HeatDegraded(plates, byCode, byName) ==
    LET known == {i \in DOMAIN plates : HeatChange(plates[i], byCode, byName) \notin {0, 100}}
    IN  2 * Cardinality(known) < Len(plates) \/ plates = <<>>

-----------------------------------------------------------------------------
\* However slow the sources, no lane of the closes works past the budget.
ClosesInTime(took) == \A l \in 1 .. AtOnce : ClosesTake(took)[l] <= Budget

\* A close never passes for a quote of now: what the second look shows is an estimate.
ClosesAreMarked(kept, read, today) ==
    LET shown == ClosedQuote(kept, read, today)
    IN  shown # NoQuote => shown.estimated
\* A kept close is never lost to a source that has none.
CloseOutlivesSource(kept, read) == kept # NoQuote => KeptAfterClose(kept, read) # NoQuote

\* Bars of another instrument are never shown for a Hong Kong share.
HistoryIsOfSymbol(source, quote) ==
    LET shown == GetHistory("HK", <<>>, source, quote, <<>>, <<>>, <<>>).bars
    IN  shown # <<>> /\ quote # 0 => ~FarOff(Highest(shown), quote) \/ ~FarOff(shown[Len(shown)].close, quote)

\* False of the code (market.py 1104 and 1118 pass on three fields only): an estimate, or
\* a quote of another day, in the first look keeps its mark and its day.
EstimatesAreMarked(sym, batch, single, kept, bars, today) ==
    LET shown == EnrichedQuote(sym, batch, single, kept, bars, today)
        q == IF sym \in DOMAIN batch THEN batch[sym] ELSE single
    IN  q # NoQuote /\ shown # NoQuote => shown.estimated = q.estimated /\ shown.day = q.day
===============================================================================
