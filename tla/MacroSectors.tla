---------------------------- MODULE MacroSectors -----------------------------
(***************************************************************************)
(* fetchers/macro_fetcher.py and fetchers/sector_fetcher.py: figures of    *)
(* the economy and lists of sectors.  A value that is missing is NoFigure, *)
(* a series is in the order of its source, a source that failed or was     *)
(* empty is <<>>; 4 % and the like are in hundredths.                      *)
(***************************************************************************)
EXTENDS Integers, Sequences, FiniteSets, SequencesExt, FiniteSetsExt

CONSTANTS StaleAfter,     \* three months
          HsgtFreshDays,  \* HSGT_FRESH_DAYS
          LeverageDays,   \* 20
          FewConcepts,    \* 60: fewer concepts are filled up
          MaxChange       \* 20 %, the most a sector moves in a day

ASSUME MacroAssumption ==
    {StaleAfter, HsgtFreshDays, LeverageDays, FewConcepts, MaxChange} \subseteq Nat

NoFigure == -9999
Known(x) == x # NoFigure
Sign(x, bound) == IF ~Known(x) THEN 0 ELSE IF x > bound THEN 1 ELSE IF x < -bound THEN -1 ELSE 0
Diff(x, y) == IF Known(x) /\ Known(y) THEN x - y ELSE NoFigure
FromEnd(s, n) == IF Len(s) >= n THEN s[Len(s) - n + 1] ELSE NoFigure
Figures(s) == SelectSeq(s, LAMBDA r : Known(r.value))

\* _stale_note: a date that cannot be read is stale, none at all is not.
IsStale(row, today) == row.dated = "unreadable" \/ (row.dated = "day" /\ today - row.day > StaleAfter)

\* fetch_lpr, fetch_bond_yields, _macro_last_row take the last row, fetch_money_supply and
\* fetch_cpi_ppi the row of the latest month (_latest_row).
LastRow(rows) == IF rows = <<>> THEN <<>> ELSE <<rows[Len(rows)]>>
LatestRow(rows) ==
    IF rows = <<>> THEN <<>>
    ELSE LET days == {rows[i].day : i \in DOMAIN rows}
         IN  <<CHOOSE r \in Range(rows) : r.day = Max(days)>>
MacroFigure(row, today) ==
    IF row = <<>> THEN [value |-> NoFigure, stale |-> FALSE, there |-> FALSE]
    ELSE [value |-> row[1].value, stale |-> IsStale(row[1], today), there |-> TRUE]
Spread(cn, us) == Diff(cn, us)
\* fetch_cpi_ppi: one figure of the two missing makes both stale; the day is the first's.
CpiPpi(cpi, ppi, today) ==
    LET c == MacroFigure(LatestRow(cpi), today)
        p == MacroFigure(LatestRow(ppi), today)
    IN  [cpi |-> c.value, ppi |-> p.value,
         stale |-> ~Known(c.value) \/ ~Known(p.value) \/ (IF c.there THEN c.stale ELSE p.stale)]

\* fetch_hsgt_history: rows with a net value, bought less sold when there is no column of
\* it; old ones are not shown at all, only the day they end on.
NetOf(row) == IF Known(row.net) THEN row.net ELSE Diff(row.buy, row.sell)
HsgtHistory(rows, days, today) ==
    LET net == SelectSeq(rows, LAMBDA r : Known(NetOf(r)))
        last == SubSeq(net, IF Len(net) > days THEN Len(net) - days + 1 ELSE 1, Len(net))
        age == today - net[Len(net)].day
    IN  IF net = <<>> THEN [rows |-> <<>>, stale |-> FALSE, end |-> 0]
        ELSE [rows |-> IF age <= HsgtFreshDays THEN last ELSE <<>>,
              stale |-> age > HsgtFreshDays, end |-> net[Len(net)].day]

\* fetch_margin_leverage_snapshot: the days both exchanges have, the last against the one
\* that stands n rows from the end.
LeverageSnapshot(sh, sz) ==
    LET common == SetToSortSeq(DOMAIN sh \cap DOMAIN sz, <)
        Total(d) == sh[d] + sz[d]
        n == IF Len(common) < LeverageDays THEN Len(common) - 1 ELSE LeverageDays
        now == Total(common[Len(common)])
        then == Total(common[Len(common) - n + 1])
        change == (100 * (now - then)) \div then
    IN  IF Len(common) < 2 THEN [there |-> FALSE, change |-> 0, direction |-> 0]
        ELSE [there |-> TRUE, change |-> change, direction |-> Sign(change, 5)]

\* fetch_macro_snapshot: M2 comes newest first and is turned round, its slope is over the
\* third value from the end; the LPR of a year ago is counted off in the rows with dates,
\* but looked up in the rows that have a value.
M2Slope(m2) == LET s == Reverse([i \in DOMAIN Figures(m2) |-> Figures(m2)[i].value])
               IN  Diff(FromEnd(s, 1), FromEnd(s, 3))
LprYearAgo(lpr, year) ==
    LET old == {i \in DOMAIN lpr : lpr[i].day <= lpr[Len(lpr)].day - year}
        vals == Figures(lpr)
    IN  IF vals = <<>> \/ old = {} \/ Max(old) > Len(vals) THEN NoFigure ELSE vals[Max(old)].value
MacroSnapshot(m2, pmi, lpr, year) ==
    LET lprNow == IF Figures(lpr) = <<>> THEN NoFigure ELSE Figures(lpr)[Len(Figures(lpr))].value
        pmiDirection == IF ~Known(pmi) THEN 0 ELSE IF pmi >= 50 THEN 1 ELSE -1
        total == Sign(M2Slope(m2), 10) + pmiDirection - Sign(Diff(lprNow, LprYearAgo(lpr, year)), 5)
        sources == {s \in {"M2", "PMI", "LPR"} : CASE s = "M2" -> Figures(m2) # <<>>
                                                   [] s = "PMI" -> Known(pmi)
                                                   [] OTHER -> Known(lprNow)}
    IN  [sources |-> sources, direction |-> Sign(total, 0)]
\* fetch_all_domestic_macro: five of the six have to be missing for "unavailable".
MacroUnavailable(there) == {"lpr", "bond", "money", "cpi", "pmi"} \cap there = {}

-----------------------------------------------------------------------------
\* _sector_change_pct: a change no day has is none.
SectorChange(x) == IF x > MaxChange \/ x < -MaxChange THEN NoFigure ELSE x

\* cached: what the producer gives is kept, whatever the caller asked for; the limit of
\* the first caller is in it where the producer cuts (rotation, hot plates, hot rank,
\* heat, US plates), and comes after it where it does not (industries, concepts).
Head10(rows, n) == SubSeq(rows, 1, IF n < Len(rows) THEN n ELSE Len(rows))
CutBeforeKept(kept, limit, rows) ==
    IF kept # <<>> THEN [rows |-> kept[1], kept |-> kept]
    ELSE [rows |-> Head10(rows, limit), kept |-> <<Head10(rows, limit)>>]
CutAfterKept(kept, limit, rows) ==
    LET all == IF kept # <<>> THEN kept[1] ELSE rows
    IN  [rows |-> Head10(all, limit), kept |-> <<all>>]
\* _try_two: the second source when the first has none.
TryTwo(first, second) == IF first # <<>> THEN first ELSE second
\* fetch_concept_sectors: a short list is filled up with names of a third source, and the
\* list that is kept grows with it.
Concepts(kept, limit, first, second, extra) ==
    LET rows == IF kept # <<>> THEN kept[1] ELSE TryTwo(first, second)
        codes == {rows[i].code : i \in DOMAIN rows}
        all == IF Len(rows) < FewConcepts
               THEN rows \o SelectSeq(extra, LAMBDA e : e.code # "" /\ e.code \notin codes)
               ELSE rows
    IN  [rows |-> Head10(all, limit), kept |-> <<all>>]
\* _ak_sector_stocks: the name of a code among industries before concepts; its members
\* likewise.
SectorStocks(industries, concepts, industryMembers, conceptMembers, code) ==
    LET name == IF code \in DOMAIN industries THEN industries[code]
                ELSE IF code \in DOMAIN concepts THEN concepts[code] ELSE code
    IN  IF name \in DOMAIN industryMembers THEN industryMembers[name]
        ELSE IF name \in DOMAIN conceptMembers THEN conceptMembers[name] ELSE {}
\* fetch_em_industry_sectors, fetch_em_concept_sectors: pages up to one that fails, is
\* empty or short; a list that broke off passes for the whole one.
RECURSIVE EmSectors(_, _)
EmSectors(pages, full) ==
    IF pages = <<>> \/ pages[1] = <<>> THEN <<>>
    ELSE IF Len(pages[1]) < full THEN pages[1] ELSE pages[1] \o EmSectors(Tail(pages), full)
\* fetch_sector_heat_em: by turnover, the largest first.
SectorHeatEm(em, ak, limit) ==
    Head10(SortSeq(TryTwo(em, ak), LAMBDA a, b : a.amount > b.amount), limit)
\* fetch_em_sector_changes, fetch_cls_plate_changes: the first source of a name counts.
FirstChange(answers, name) ==
    LET said == {i \in DOMAIN answers : name \in DOMAIN answers[i] /\ Known(SectorChange(answers[i][name]))}
    IN  IF said = {} THEN NoFigure ELSE answers[Min(said)][name]
\* _fetch_us_spot_rich, fetch_us_plates: the first host with rows; by industry, those
\* without one together.  A round without rows is not kept.
UsSpotRich(kept, fresh, answers) ==
    IF kept # <<>> /\ fresh THEN kept
    ELSE LET good == {i \in DOMAIN answers : answers[i] # <<>>} IN IF good = {} THEN <<>> ELSE answers[Min(good)]
UsPlate(rows, industry) ==
    LET own == SelectSeq(rows, LAMBDA r : r.industry = industry)
        Of0(r) == IF Known(r.change) THEN r.change ELSE 0
        sum == MapThenSumSet(LAMBDA i : Of0(own[i]), DOMAIN own)
    IN  [amount |-> MapThenSumSet(LAMBDA i : own[i].amount, DOMAIN own), count |-> Len(own),
         change |-> IF own = <<>> THEN 0 ELSE sum \div Len(own)]

-----------------------------------------------------------------------------
\* The money of the plates is the money of the shares, those without an industry too.
PlatesAddUp(rows, industries) ==
    MapThenSumSet(LAMBDA p : UsPlate(rows, p).amount, industries)
        = MapThenSumSet(LAMBDA i : rows[i].amount, DOMAIN rows)
\* However often a short list of concepts is read, no code is in it twice.
ConceptsOnce(first, extra) ==
    LET one == Concepts(<<>>, 9, first, <<>>, extra)
        two == Concepts(one.kept, 9, first, <<>>, extra)
    IN  IsInjective([i \in DOMAIN first |-> first[i].code]) /\ IsInjective([i \in DOMAIN extra |-> extra[i].code])
            => /\ IsInjective([i \in DOMAIN two.rows |-> two.rows[i].code])
               /\ two.rows = one.rows
\* Flows that ended long ago are never shown as rows.
OldFlowsHidden(rows, today) ==
    LET h == HsgtHistory(rows, 5, today) IN \A i \in DOMAIN h.rows : h.rows[Len(h.rows)].day >= today - HsgtFreshDays

\* False of the code: a later caller gets as many rows as he asks for (sector_fetcher.py
\* 348-406 and 713 cut before they keep); the LPR of a year ago is of a year ago
\* (macro_fetcher.py 597 counts the rows without a value); the balance of n days ago is
\* not today's (522: of two days n is 1).
CallerGetsHisLimit(rows, one, other) ==
    Len(CutBeforeKept(CutBeforeKept(<<>>, one, rows).kept, other, rows).rows) = Len(Head10(rows, other))
LprIsOfAYearAgo(lpr, year) ==
    \A r \in Range(lpr) : Known(LprYearAgo(lpr, year)) /\ r.value = LprYearAgo(lpr, year)
                              => r.day <= lpr[Len(lpr)].day - year
===============================================================================
