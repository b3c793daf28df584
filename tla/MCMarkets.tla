------------------------------ MODULE MCMarkets ------------------------------
(***************************************************************************)
(* The market data on small instances, side by side: the quotes of three   *)
(* symbols, the indices, the spot lists, the two caches and the            *)
(* coefficients of the factors; "part" says which of them moves.  Below,   *)
(* on small inputs, what is asked of the sources and what becomes of their *)
(* answers: chains of sources, lookups, moods, figures, lists and news.    *)
(***************************************************************************)
EXTENDS SourceChains, InstrumentSearch, Watchlist, MarketMood, MacroSectors, NewsFeeds,
        MarketQuotes, GlobalIndices, SpotLists, CacheTiers, FactorIC, FactorScores, EtfScanner, TLC

VARIABLE part

marketVars == <<quoteVars, indexVars, spotVars, tierVars, icVars>>
vars == <<marketVars, part>>

QuotedIn(type) == {s \in QuotedSyms : TypeOf[s] = type}

Init == /\ part \in {"quotesA", "quotesHK", "quotesUS", "indices", "spot", "tiers", "sync", "ic"}
        /\ QuotesInit /\ IndicesInit /\ SpotInit /\ IcInit
        /\ TiersInit /\ (part # "tiers" => server)

Turn(p) == part = p /\ UNCHANGED part

Next == \/ /\ UNCHANGED <<indexVars, spotVars, tierVars, icVars>>
           /\ \/ Turn("quotesA") /\ QuotesNext(QuotedIn("A"))
              \/ Turn("quotesHK") /\ QuotesNext(QuotedIn("HK"))
              \/ Turn("quotesUS") /\ QuotesNext(QuotedIn("US"))
        \/ Turn("indices") /\ IndicesNext /\ UNCHANGED <<quoteVars, spotVars, tierVars, icVars>>
        \/ Turn("spot") /\ SpotNext /\ UNCHANGED <<quoteVars, indexVars, tierVars, icVars>>
        \/ /\ UNCHANGED <<quoteVars, indexVars, spotVars, icVars>>
           /\ \/ Turn("tiers") /\ TiersNext
              \/ Turn("sync") /\ SyncNext
        \/ Turn("ic") /\ IcNext /\ UNCHANGED <<quoteVars, indexVars, spotVars, tierVars>>

Spec == Init /\ [][Next]_vars

MCTypeOf == [a |-> "A", h |-> "HK", u |-> "US"]

-----------------------------------------------------------------------------
\* Coefficients and scores of a few symbols.
Three == {"a", "b", "c"}
ASSUME ScoresInRange ==
    \A values \in [Three -> {-2, 0, 4}], warm \in {<<>>, "a" :> -6, "a" :> 1 @@ "b" :> 8 @@ "c" :> -5} :
        \A rules \in [Three -> {[direction |-> -1, neutral |-> 0], [direction |-> -1, neutral |-> 50]}] :
            AggregateInRange(values, rules, warm)
ASSUME RanksOnly ==
    \A values \in [1..4 -> {-1, 1, 2}], returns \in [1..4 -> -1..1] : ICIsOfRanks(values, returns)
\* The limits of the signal are never reached (_compute_signal_overall).
ASSUME SignalUnlimited ==
    \A rsi \in {20, 35, 50, 65, 80}, macd \in -1..1, bias \in {-9, 0, 9} :
        SignalOverall(rsi, macd, bias) \in -7..7

-----------------------------------------------------------------------------
\* Lists of funds: an anchor that is hardly traded, funds of every layer, thin and
\* small ones, two of a theme.
MCFunds ==
    <<Fund("HS300", {"wide"}, "", 1, 9), Fund("c2", {"wide"}, "", 9, 1), Fund("c3", {"wide"}, "", 5, 5),
      Fund("GOLD", {"gold"}, "", 1, 3), Fund("d2", {"gold", "bonds"}, "", 9, 9),
      Fund("s1", {"tech", "drugs"}, "", 9, 9), Fund("s2", {"drugs"}, "", 0, 3),
      Fund("s3", {"banks"}, "", 1, 4), Fund("s4", {"chips"}, "", 8, 8)>>
MCFixed == [core |-> <<Fund("HS300", {"wide"}, "", 2, 9)>>,
            defense |-> <<Fund("GOLD", {"gold"}, "", 2, 4)>>]
MCRequired == [core |-> {"HS300"}, defense |-> {"GOLD"}]
MCIndexLength == [wide |-> 2, gold |-> 2]

ASSUME PipelineHolds ==
    \A S \in SUBSET (1..9), real \in {<<>>, "GOLD" :> 3, "GOLD" :> 3 @@ "s3" :> 2} :
        LET raw == SelectSeq([i \in 1..9 |-> <<i, MCFunds[i]>>], LAMBDA p : p[1] \in S)
        IN  PipelineKeepsItsWord([i \in DOMAIN raw |-> raw[i][2]], {"HS300"}, MCFixed, MCRequired,
                                 {"drugs", "banks"}, real)
ASSUME ListsHold ==
    \A file, last \in {NoList, [at |-> 1, size |-> 3]} :
        \A replies \in [1..3 -> {NoList, [at |-> 2, size |-> 1], [at |-> 2, size |-> 3]}] :
            ListOutlivesSources(Lists(NoList, file, last), replies)
ASSUME PagesHold ==
    \A pages \in [1..4 -> {"full", "failed", "empty"}], total \in 1..4 :
        pages[1] = "full" => Cardinality(EmPages(pages, total)) \in 1 .. total

-----------------------------------------------------------------------------
\* SourceChains on a small list: a fund and stocks of both exchanges, the codes
\* that are an index in Shanghai and a stock in Shenzhen, an index without a price
\* in every place, and a New York ticker that begins with the letters of an
\* exchange.
MCCatalogue ==
    {<<"sh", Plain(b)>> : b \in {"fund5", "star", "stock6", "twin"}}
    \cup {<<"sz", Plain(b)>> : b \in {"fund1", "stock0", "twin", "index3"}}
    \cup {<<"hk", Plain(b)>> : b \in {"hk5", "hsi"}}
    \cup {<<"us", Plain(b)>> : b \in {"abc", "op", "spx"}}
    \cup {<<"us", Text("sh", "op", "")>>}
MCPriced == MCCatalogue \ {<<"sz", Plain("fund1")>>}

QuoteUps == SUBSET {"mootdx", "tencent", "sina", "tickflow", "dongfang"}
BarSources == {"akshare", "mootdx", "sina", "netease", "baostock", "tickflow", "tencent",
               "alphavantage", "finnhub"}
BarUps == {{a, b} : a, b \in BarSources} \cup {BarSources}
Periods == {"daily", "weekly", "15m", "1h", "4h"}

ATexts == UNION {{Plain(b), Text(Exchange(Plain(b)), b, "")} :
                    b \in {"fund5", "star", "fund1", "stock6", "stock0", "twin"}}
HkTexts == {Plain("hk5"), Text("", "hk5", "HK")}
UsTexts == {Plain("abc"), Plain("op"), Text("sh", "op", "")}
Texts == [A |-> ATexts, HK |-> HkTexts, US |-> UsTexts]

ASSUME QuotesAreOfTheOneAsked ==
    \A up \in QuoteUps : /\ \A t \in ATexts : QuoteOfTheOneAsked(up, t, "A")
                         /\ \A t \in HkTexts : QuoteOfTheOneAsked(up, t, "HK")
ASSUME SourcesOnlyAdd ==
    \A more \in QuoteUps : \A less \in SUBSET more, t \in ATexts \cup HkTexts :
        MoreSourcesLoseNoQuote(less, more, t)
ASSUME BarsAreOfTheOneAsked ==
    \A up \in BarUps, type \in {"A", "HK", "US"}, period \in Periods : \A t \in Texts[type] :
        BarsOfTheOneAsked(up, t, type, period) /\ BarsAsLongAsAsked(up, t, type, period)

-----------------------------------------------------------------------------
\* What is looked up, on small inputs: instruments by a word, quotes and closes
\* of a watchlist.

\* 1 and 2 are shares of one company, 11 and 12 funds.
MCStem == (1 :> 1 @@ 2 :> 1 @@ 3 :> 3 @@ 11 :> 11 @@ 12 :> 12)
StaticRows == <<Hit(11, "HK", "etf", {"symbol", "prefix"}), Hit(12, "US", "etf", {"inName"}),
                Hit(1, "US", "stock", {"symbol", "exact"})>>
SpotRows == {<<>>, <<Hit(3, "HK", "stock", {})>>,
             <<Hit(3, "HK", "stock", {"inName"}), Hit(11, "HK", "stock", {"symbol"})>>}
UsRows == {<<>>, <<Hit(2, "US", "stock", {"symbol"}), Hit(1, "US", "stock", {"symbol", "exact"})>>}

ASSUME SearchIsClean ==
    \A funds, stocks \in BOOLEAN, market \in {"all", "HK", "US"} :
        \A hk \in SpotRows, us \in UsRows, n \in 0 .. 3 :
            HkUsIsClean(funds, stocks, market, SubSeq(StaticRows, 1, n), [HK |-> hk, US |-> us],
                        [HK |-> <<Hit(3, "HK", "stock", {"pinyin"})>>, US |-> <<>>],
                        <<Hit(12, "US", "stock", {"inName"})>>)
ASSUME BuiltinStays ==
    \A ways \in SUBSET {"symbol", "inName", "pinyin"} :
        BuiltinOutlivesSources(<<Hit(3, "A", "stock", ways)>>, Hit(3, "A", "stock", ways))

ASSUME ListInTime == \A took \in [1 .. 5 -> {1, 2, 9}] : ClosesInTime(took)
Kept == {NoQuote, WatchQuote(3, FALSE, "live", 1), WatchQuote(3, TRUE, "last_close", 1)}
ASSUME ClosesHold ==
    \A kept \in Kept : \A bars \in {<<>>, <<[close |-> 4, high |-> 5, day |-> 2]>>} :
        /\ ClosesAreMarked(kept, LastClose(bars), 3)
        /\ CloseOutlivesSource(kept, LastClose(bars))
ASSUME HistoryHolds ==
    \A close, high, quote \in {2, 5, 9} : HistoryIsOfSymbol(<<[close |-> close, high |-> high]>>, quote)

-----------------------------------------------------------------------------
\* What the sources of moods, figures and news become, on small inputs.

MCMoodWeights ==
    [none |-> [advance |-> 30, consensus |-> 20, volume |-> 20, margin |-> 30],
     bull_strong |-> [advance |-> 20, consensus |-> 35, volume |-> 25, margin |-> 20],
     bull_weakening |-> [advance |-> 25, consensus |-> 30, volume |-> 25, margin |-> 20],
     range_bound |-> [advance |-> 25, consensus |-> 20, volume |-> 25, margin |-> 30],
     correction |-> [advance |-> 30, consensus |-> 15, volume |-> 20, margin |-> 35],
     bear |-> [advance |-> 35, consensus |-> 15, volume |-> 15, margin |-> 35],
     panic |-> [advance |-> 40, consensus |-> 10, volume |-> 10, margin |-> 40],
     defensive_rotate |-> [advance |-> 30, consensus |-> 25, volume |-> 20, margin |-> 25]]
MCRegimeBias == [bull_strong |-> 70, bull_weakening |-> 55, range_bound |-> 50, correction |-> 30,
                 bear |-> 20, defensive_rotate |-> 35, panic |-> 10]

ASSUME MoodHolds ==
    \A history \in {<<>>, <<0>>, <<9000, 10000>>}, advance \in {0, 46, 50, 100}, margin \in {-100, 0, 100} :
        \A volume \in {0, 100, 300}, regime \in DOMAIN MCMoodWeights :
            MoodOnScale(history, advance, margin, volume, regime)
Rows == {<<>>} \cup [1 .. 2 -> [ok : BOOLEAN, n : {-1, 0, 1}]]
ASSUME BreadthHolds ==
    \A rows, fallback \in Rows : BreadthAddsUp(rows, fallback)
ASSUME BreadthKept ==
    \A rows \in Rows, at, now \in 0 .. 3 :
        BreadthIsRecent(MarketBreadth([at |-> 0, breadth |-> Breadth(<<>>, <<>>)], at, rows, <<>>).cache, at + now)
ASSUME PastKept ==
    \A rolling, file \in {<<>>, <<5000>>, <<4000, 5000>>}, n \in {0, 50, 100} :
        PastSurvivesRestart([history |-> <<>>, rolling |-> rolling, file |-> file], [ok |-> TRUE, n |-> n])

ASSUME PlatesHold ==
    \A rows \in [1 .. 3 -> [industry : {"chips", "other"}, amount : 0 .. 1, change : {NoFigure, 2}]] :
        PlatesAddUp(rows, {"chips", "other"})
Codes == {<<>>, <<[code |-> "a"]>>, <<[code |-> "a"], [code |-> "b"]>>, <<[code |-> "c"], [code |-> "a"]>>}
ASSUME ConceptsHold == \A first, extra \in Codes : ConceptsOnce(first, extra)
ASSUME FlowsHold ==
    \A days \in [1 .. 2 -> 1 .. 4], nets \in [1 .. 2 -> {NoFigure, 3}], today \in 4 .. 6 :
        days[1] < days[2] =>
            OldFlowsHidden([i \in 1 .. 2 |-> [day |-> days[i], net |-> nets[i], buy |-> NoFigure, sell |-> 2]], today)

MCWords == [zh : SUBSET {"major", "negative"}, en : {{}, {"risk"}}, latin : BOOLEAN, weak : BOOLEAN, topics : {{}}]
MCNews(titles, hours, words, said) ==
    {News(t, w, h, 0) @@ [said |-> s] : t \in titles, h \in hours, w \in words, s \in said}
PlainWords == [zh |-> {}, en |-> {}, latin |-> FALSE, weak |-> FALSE, topics |-> {}]
Said == {[text |-> FALSE, n |-> 0], [text |-> TRUE, n |-> 2]}
Items(n) == UNION {[1 .. m -> MCNews({"", "x", "y"}, {NoHour, 1, 3}, {PlainWords}, {[text |-> FALSE, n |-> 0]})] : m \in 0 .. n}
ASSUME HeadlinesHold ==
    \A telegraph \in Items(2), eastmoney \in Items(1) : HeadlinesInOrder(telegraph, eastmoney, 4)
ASSUME WeakenedHolds == \A words \in MCWords : WeakenedIsBetween(words)
Wire == UNION {[1 .. m -> MCNews({"", "x", "y"}, {1}, {PlainWords}, Said)] : m \in 0 .. 2}
ASSUME ImportantHolds == \A limit \in 1 .. 2, important, all \in Wire : ImportantFirst(limit, important, all)
===============================================================================
