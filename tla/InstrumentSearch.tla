-------------------------- MODULE InstrumentSearch ---------------------------
(***************************************************************************)
(* How a word becomes a list of instruments (routers/market.py, the search *)
(* functions of services/market_service.py).  A symbol is a number, a row  *)
(* a symbol with its market and type and the ways in which the word fits   *)
(* it; a source answers with a sequence of rows, <<>> also when it fails.  *)
(***************************************************************************)
EXTENDS Integers, Sequences, FiniteSets, SequencesExt, FiniteSetsExt

CONSTANTS Stem,      \* _norm_symbol: the symbol up to its dot
          Shown,     \* 30 rows of an answer
          OfEach     \* 10 rows of each market, of sectors and of A stocks

ASSUME SearchAssumption ==
    /\ \A s \in DOMAIN Stem : s \in 0 .. 999
    /\ {Shown, OfEach} \subseteq Nat \ {0}

Hit(sym, market, type, ways) == [sym |-> sym, market |-> market, type |-> type, ways |-> ways]
Fits(rows, ways) == SelectSeq(rows, LAMBDA r : r.ways \cap ways # {})
First(rows, n) == SubSeq(rows, 1, IF Len(rows) < n THEN Len(rows) ELSE n)
Of(rows, market) == SelectSeq(rows, LAMBDA r : r.market = market)

\* Of the rows of one market whose symbols count as the same, the first stays.
BySym == [s \in DOMAIN Stem |-> s]
RowsOnce(rows, same) ==
    LET Key(r) == <<same[r.sym], r.market>>
        kept == {i \in DOMAIN rows : \A j \in 1 .. i - 1 : Key(rows[j]) # Key(rows[i])}
        at == SetToSortSeq(kept, <)
    IN  [i \in DOMAIN at |-> rows[at[i]]]

-----------------------------------------------------------------------------
\* _sort_search_results: how well the word fits, funds first, then the market.
WaysInOrder == <<"exact", "prefix", "name", "namePrefix", "inName", "initials">>
Tier(row) == LET fits == {i \in DOMAIN WaysInOrder : WaysInOrder[i] \in row.ways}
             IN  IF fits = {} THEN 7 ELSE Min(fits)
MarketRank(market) == CASE market = "A" -> 1 [] market = "HK" -> 2 [] market = "US" -> 3
                        [] market = "index" -> 4 [] OTHER -> 9
SearchRank(row) ==
    10000 * (10 * Tier(row) + (IF row.type = "etf" THEN 0 ELSE 1)) + 1000 * MarketRank(row.market) + row.sym
SortSearchResults(rows) == SortSeq(rows, LAMBDA a, b : SearchRank(a) < SearchRank(b))

\* search_etf: every active instrument of the table that fits passes as a fund; without
\* one, the list of funds.
SearchEtf(table, list) ==
    LET rows == First(Fits(table, {"symbol", "inName", "pinyin"}), Shown)
    IN  IF rows # <<>> THEN SortSearchResults([i \in DOMAIN rows |-> [rows[i] EXCEPT !.type = "etf"]])
        ELSE First(Fits(list, {"symbol", "inName"}), 2 * OfEach)

\* search_hk_us.  What the built-in list knows is enough for a word; otherwise the lists
\* of stocks, the table where such a list is empty, and Sina when no US row is there.
SearchHkUs(asked, stocks, market, static, spot, table, sina) ==
    LET known == IF asked THEN Fits(static, {"symbol", "inName"}) ELSE static
        base == SelectSeq(known, LAMBDA r : stocks \/ r.type = "etf")
        wide == stocks /\ ~(base # <<>> /\ asked)
        Found(rows) == IF asked THEN Fits(rows, {"symbol", "inName"}) ELSE rows
        InTable(m, ways) == First(IF asked THEN Fits(table[m], ways) ELSE table[m], Shown)
        listed == Found(spot["HK"]) \o Found(spot["US"])
                  \o (IF spot["HK"] = <<>> THEN InTable("HK", {"symbol", "inName", "pinyin"}) ELSE <<>>)
                  \o (IF spot["US"] = <<>> THEN InTable("US", {"symbol", "inName"}) ELSE <<>>)
        more == IF ~wide THEN <<>>
                ELSE IF asked /\ market \in {"all", "US"} /\ Of(listed, "US") = <<>> THEN listed \o sina
                ELSE listed
        merged == RowsOnce(base \o more, Stem)
    IN  First(IF market = "all" THEN merged ELSE Of(merged, market), Shown)

\* _us_suggest_fallback: an answer, none and a failed one alike, is kept for a minute.
UsSuggestFallback(kept, reply) ==
    IF kept # <<>> THEN [rows |-> kept[1], kept |-> kept]
    ELSE [rows |-> reply, kept |-> <<reply>>]

-----------------------------------------------------------------------------
\* _search_a_stocks: the table, else the list of all stocks in time, else the built-in one.
SearchAStocks(asked, table, all, static) ==
    LET ways == {"symbol", "inName", "pinyin"}
        rows == First(IF asked THEN Fits(table, ways) ELSE table, OfEach)
        found == First(IF asked THEN Fits(all, ways) ELSE all, OfEach)
        builtin == IF asked THEN Fits(static, {"symbol", "inName"}) ELSE <<>>
    IN  IF rows # <<>> THEN rows
        ELSE IF all # <<>> /\ (found # <<>> \/ ~asked) THEN found
        ELSE builtin

\* _search_sectors: nothing of other markets or without a word; ten of the lists end it,
\* fewer are filled up from the table.
SearchSectors(asked, market, lists, table) ==
    LET live == RowsOnce(Fits(lists, {"inName"}), BySym)
        stored == First(Fits(table, {"inName"}), OfEach)
    IN  IF ~asked \/ market \in {"HK", "US"} THEN <<>>
        ELSE IF Len(live) >= OfEach THEN First(live, OfEach)
        ELSE First(RowsOnce(live \o stored, BySym), OfEach)

\* _search_indices: the table, else what three lists of the library say, the built-in
\* extra ones of Hong Kong last.
SearchIndices(asked, market, table, lists, extra) ==
    LET Here(rows) == IF market = "all" THEN rows ELSE Of(rows, market)
        stored == First(Here(Fits(table, {"symbol", "inName", "pinyin"})), 2 * OfEach)
        fallback == RowsOnce(Here(Fits(lists \o Of(extra, "HK"), {"symbol", "inName"})), BySym)
    IN  IF ~asked THEN <<>> ELSE IF stored # <<>> THEN stored ELSE First(fallback, 2 * OfEach)

\* search.  HK and US rows come as they are; with no market asked, some of each, cut to
\* the length shown before they are put in order.
SearchA(stocksInTable, aStocks, etfs) ==
    IF stocksInTable # <<>> THEN SortSearchResults(First(stocksInTable, Shown))
    ELSE IF aStocks # <<>> THEN SortSearchResults(aStocks)
    ELSE SortSearchResults(etfs)
SearchAll(stocks, symbolsOnly, etfs, aStocks, hkUs, sectors, indices) ==
    LET funds == First(SelectSeq(etfs, LAMBDA r : r.type = "etf"), OfEach)
        merged == funds \o (IF stocks THEN aStocks ELSE <<>>)
                  \o First(Of(hkUs, "HK"), OfEach) \o First(Of(hkUs, "US"), OfEach)
                  \o (IF symbolsOnly THEN <<>> ELSE sectors \o indices)
    IN  SortSearchResults(First(RowsOnce(merged, BySym), Shown))

-----------------------------------------------------------------------------
\* infer_market_from_symbol, by the form of the symbol: a ticker with a dot in it, like
\* BRK.B, is not of letters only.
InferMarket(form) == CASE form \in {"endsHK", "fiveDigits0"} -> "HK"
                       [] form \in {"endsUS", "letters"} -> "US"
                       [] OTHER -> "A"
\* The routes of indicators, signal and chart ask for the market a symbol looks like.
MarketAsked(given, form) == IF given = "A" THEN InferMarket(form) ELSE given

\* resolve_symbol_to_code: the name itself among the indices, then among the instruments,
\* then part of a name, the shortest code; the same over the list of all stocks.
Shortest(rows, length) ==
    LET best == {i \in DOMAIN rows : \A j \in DOMAIN rows : length[rows[i].sym] <= length[rows[j].sym]}
    IN  rows[Min(best)].sym
ResolveSymbolToCode(indices, table, all, length) ==
    LET Named(rows) == Fits(rows, {"name"})
        Near(rows) == Fits(rows, {"inName"})
    IN  IF Named(indices) # <<>> THEN Named(indices)[1].sym
        ELSE IF Named(table) # <<>> THEN Named(table)[1].sym
        ELSE IF Near(table) # <<>> THEN Shortest(First(Near(table), 2 * OfEach), length)
        ELSE IF Named(all) # <<>> THEN Named(all)[1].sym
        ELSE IF Near(all) # <<>> THEN Shortest(Near(all), length)
        ELSE 0

-----------------------------------------------------------------------------
\* No instrument is shown twice, none of another market than the one asked for, and what
\* the built-in list knows of it is not lost to the lists of stocks.
HkUsIsClean(asked, stocks, market, static, spot, table, sina) ==
    LET rows == SearchHkUs(asked, stocks, market, static, spot, table, sina)
    IN  /\ IsInjective([i \in DOMAIN rows |-> <<Stem[rows[i].sym], rows[i].market>>])
        /\ market # "all" => \A i \in DOMAIN rows : rows[i].market = market
        /\ Len(static) <= Shown /\ asked =>
               \A r \in Range(Fits(static, {"symbol", "inName"})) :
                   (stocks \/ r.type = "etf") /\ market \in {"all", r.market} =>
                       \E q \in Range(rows) : Stem[q.sym] = Stem[r.sym] /\ q.market = r.market

\* With every source gone, a word the built-in list of A stocks knows still finds it.
BuiltinOutlivesSources(static, row) ==
    row \in Range(Fits(static, {"symbol", "inName"})) => row \in Range(SearchAStocks(TRUE, <<>>, <<>>, static))

\* False of the code (market_service.py 704 and 992; market.py 152, 205): the best match
\* is not shown first, or not at all, where the rows are cut before they are put in order;
\* two shares of one company, BRK.A and BRK.B, count as one.
BestIsFirst(rows, cut) == \A r \in Range(rows) : Tier(r) = 1 => cut # <<>> /\ Tier(cut[1]) = 1
EverySymbolShown(rows, shown) == {r.sym : r \in Range(rows)} = {r.sym : r \in Range(shown)}
===============================================================================
