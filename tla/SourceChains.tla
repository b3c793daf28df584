----------------------------- MODULE SourceChains -----------------------------
(***************************************************************************)
(* fetchers/china_market.py and fetchers/global_markets_fetcher.py: which  *)
(* instrument each source is asked for when it is handed a symbol, what a  *)
(* reply must hold to be taken, and in which order the sources follow each *)
(* other.  A symbol is a text: its first two letters when they read like   *)
(* an exchange, its body, its suffix.  An instrument is a place and the    *)
(* text it is quoted under there; a text spelled otherwise is in no list.  *)
(* "up" is the set of the sources that answer, a source without its key    *)
(* being down.  The breaker that skips sources is SourceBreaker.           *)
(***************************************************************************)
EXTENDS Integers, Sequences, FiniteSets

CONSTANTS Catalogue, Priced    \* the instruments there are; those with a price today

ASSUME ListsAssumption == Priced \subseteq Catalogue

Text(pre, body, suf) == [pre |-> pre, body |-> body, suf |-> suf]
Plain(body) == Text("", body, "")

\* Bodies by what the code looks at: leading digits, list membership, letters.
Shanghai == {"fund5", "star", "stock6"}     \* 5..., 588..., 6...
EtfBodies == {"fund5", "star", "fund1"}     \* 51..., 588..., 159...
ShIndexes == {"twin"}                       \* 000001: Ping An Bank, and the index
Digits == Shanghai \cup EtfBodies \cup ShIndexes \cup {"stock0", "index3", "hk5"}

NoBars == [of |-> {}, every |-> "none", form |-> "none"]
Bars(of, every, form) == [of |-> {of}, every |-> every, form |-> form]

\* The first reply of a sequence that holds anything, otherwise the last.
FirstOf(replies, nothing) ==
    IF \E i \in DOMAIN replies : replies[i] # nothing
    THEN replies[CHOOSE i \in DOMAIN replies :
                    replies[i] # nothing /\ \A j \in 1 .. i - 1 : replies[j] = nothing]
    ELSE nothing

-----------------------------------------------------------------------------
\* What a text is asked for as.
StripAPrefix(t) == [t EXCEPT !.pre = ""]
WithoutHK(t) == IF t.suf = "HK" THEN [t EXCEPT !.suf = ""] ELSE t
Exchange(t) == IF t.body \in Shanghai THEN "sh" ELSE "sz"

MootdxAsks(t) == <<Exchange(t), t>>
SinaAsks(t, type) ==
    IF type = "HK" THEN <<"hk", WithoutHK(t)>>
    ELSE <<IF t.body \in ShIndexes /\ t.pre = "" THEN "sh" ELSE Exchange(t), StripAPrefix(t)>>
TencentAsks(t, type) ==
    IF type = "HK" THEN <<"hk", WithoutHK(t)>> ELSE <<Exchange(t), StripAPrefix(t)>>
DongfangAsks(t) == <<"hk", WithoutHK(t)>>

\* _tickflow_symbol: the prefix goes before anything else is looked at.
Places == [HK |-> "hk", US |-> "us", SH |-> "sh", SS |-> "sh", SZ |-> "sz"]
TickflowAsks(t) == <<IF t.suf \in DOMAIN Places THEN Places[t.suf]
                     ELSE IF t.body \in Digits THEN Exchange(t) ELSE "us", Plain(t.body)>>

\* _to_ts_code: what starts with neither 0 nor 3 is of Shanghai.
TushareAsks(t) == <<IF t.suf \in {"SH", "SZ"} THEN Places[t.suf]
                    ELSE IF t.pre # "" THEN t.pre
                    ELSE IF t.body \in {"stock0", "twin", "index3", "hk5"} THEN "sz" ELSE "sh",
                    Plain(t.body)>>

-----------------------------------------------------------------------------
\* Quotes: of the instruments asked for, those a source knows.  A reply counts
\* when any of its rows has a price.
Answers(up, source, asked) == IF source \in up THEN asked \cap Catalogue ELSE {}
Filtered(found) == IF found \cap Priced # {} THEN found ELSE {}
Offered(up, source, asked) == Filtered(Answers(up, source, asked))

MootdxRealtime(up, ts) ==
    Offered(up, "mootdx", {MootdxAsks(t) : t \in {u \in ts : u.body # "star"}})
SinaRealtime(up, ts, type) == Offered(up, "sina", {SinaAsks(t, type) : t \in ts})
TencentRealtime(up, ts, type) == Offered(up, "tencent", {TencentAsks(t, type) : t \in ts})
EmHkRealtime(up, t) == Offered(up, "dongfang", {DongfangAsks(t)})
TickflowQuotes(up, t) == Offered(up, "tickflow", {TickflowAsks(t)})

FetchAStockRealtime(up, t) ==
    LET clean == StripAPrefix(t)
    IN  FirstOf(<<MootdxRealtime(up, {clean}), TencentRealtime(up, {clean}, "A"),
                  SinaRealtime(up, {clean}, "A"), TickflowQuotes(up, clean)>>, {})

\* A batch is answered by one source: what that one lacks stays without a row.
FetchAStockBatch(up, ts) ==
    LET clean == {StripAPrefix(t) : t \in ts}
    IN  FirstOf(<<MootdxRealtime(up, clean), TencentRealtime(up, clean, "A"),
                  SinaRealtime(up, clean, "A")>>, {})

FetchHkStockRealtime(up, t) ==
    FirstOf(<<SinaRealtime(up, {t}, "HK"), TencentRealtime(up, {t}, "HK"), EmHkRealtime(up, t),
              TickflowQuotes(up, [t EXCEPT !.suf = "HK"])>>, {})

\* The indices of the mainland: Sina must name one price above 100 among them,
\* the others any row.
FetchIndexRealtime(up, ts) ==
    FirstOf(<<SinaRealtime(up, ts, "index"),
              Answers(up, "mootdx", {<<IF t.body \in ShIndexes THEN "sh" ELSE "sz", t>> : t \in ts}),
              Answers(up, "tencent", {TencentAsks(t, "index") : t \in ts})>>, {})

\* _finnhub_quota_available and _request: fifty calls in the last minute.
FinnhubBudget == 50
QuotaAvailable(calls, now) == Cardinality({i \in DOMAIN calls : now - calls[i] < 60}) < FinnhubBudget

-----------------------------------------------------------------------------
\* Histories: one instrument, the length of a bar, and the names of its columns.
Served(up, source, asked, every, form) ==
    IF source \in up /\ asked \in Catalogue THEN Bars(asked, every, form) ELSE NoBars
LongPeriods == {"daily", "weekly", "monthly"}
OrDaily(period) == IF period \in LongPeriods THEN period ELSE "daily"

AkshareHist(up, t, period) ==
    IF period \in LongPeriods THEN Served(up, "akshare", <<Exchange(t), t>>, period, "zh") ELSE NoBars
MootdxHistory(up, t, period) ==
    FirstOf(<<Served(up, "mootdx", MootdxAsks(t), OrDaily(period), "both"),
              AkshareHist(up, t, period)>>, NoBars)
SinaHistory(up, t, period) ==
    Served(up, "sina", <<Exchange(t), t>>,
           IF period \in {"15m", "30m", "1h"} THEN period ELSE OrDaily(period), "en")
NeteaseHistory(up, t) == Served(up, "netease", <<Exchange(t), t>>, "daily", "en")
BaostockHistory(up, t, period) ==
    Served(up, "baostock", <<Exchange(t), StripAPrefix(t)>>, OrDaily(period), "zh")
TickflowKline(up, t, period, type) ==
    Served(up, "tickflow", IF type = "HK" THEN <<"hk", [t EXCEPT !.suf = ""]>>
                           ELSE IF type = "US" THEN <<"us", [t EXCEPT !.suf = ""]>>
                           ELSE TickflowAsks(t), OrDaily(period), "en")

\* _akshare_intraday_history is handed the figure before the unit: 1 for an hour.
Minutes(period) == IF period = "1h" THEN "1m" ELSE period
IntradayHistory(up, t, every) == Served(up, "akshare", <<Exchange(t), t>>, every, "zh")

\* Four bars to one, by the Chinese names of the columns.
FailsOnNames == [of |-> {}, every |-> "error", form |-> "none"]
Resample4h(bars) == IF bars = NoBars THEN NoBars
                    ELSE IF bars.form = "en" THEN FailsOnNames ELSE [bars EXCEPT !.every = "4h"]

\* Hong Kong at Tencent: "hk" and the text as it is; days, whatever was asked.
TencentHkHistory(up, t) == Served(up, "tencent", <<"hk", t>>, "daily", "en")
SinaUsDaily(up, t) == Served(up, "sina", <<"us", t>>, "daily", "zh")
AlphavantageAsks(t, type) == IF type = "HK" THEN <<"hk", WithoutHK(t)>> ELSE <<"us", t>>
FinnhubCandles(up, t, type) ==
    Served(up, "finnhub", <<IF type = "HK" THEN "hk" ELSE "us", t>>, "daily", "en")

AkshareHistory(up, t, type, period) ==
    FirstOf(<<IF period \in LongPeriods
              THEN Served(up, "akshare", <<IF type = "HK" THEN "hk" ELSE "us", t>>, period, "zh")
              ELSE NoBars,
              TickflowKline(up, t, period, type),
              Served(up, "alphavantage", AlphavantageAsks(t, type), "daily", "en")>>
            \o IF type = "US" THEN <<SinaUsDaily(up, t), FinnhubCandles(up, t, type)>>
               ELSE <<FinnhubCandles(up, t, type), TencentHkHistory(up, t)>>, NoBars)

\* An index: the three of New York, else letters are of Hong Kong, else the text
\* without its prefix is of Shanghai.
FetchIndexHistory(up, t, period) ==
    IF t.body = "spx" THEN Served(up, "akshare", <<"us", Plain("spx")>>, "daily", "zh")
    ELSE IF t.body \notin Digits THEN TencentHkHistory(up, t)
    ELSE LET asked == <<"sh", StripAPrefix(t)>>
         IN  FirstOf(<<Served(up, "akshare", asked, "daily", "zh"),
                       Served(up, "baostock", asked, OrDaily(period), "zh")>>, NoBars)

EtfHistory(up, t, period) ==
    FirstOf(<<SinaHistory(up, t, period)>>
            \o IF period = "daily"
               THEN <<NeteaseHistory(up, t), BaostockHistory(up, t, period),
                      TickflowKline(up, t, period, "A")>> ELSE <<>>, NoBars)

StockHistory(up, t, period) ==
    IF period \in {"15m", "30m", "1h"}
    THEN FirstOf(<<SinaHistory(up, t, period), IntradayHistory(up, t, Minutes(period))>>, NoBars)
    ELSE IF period = "4h"
    THEN Resample4h(FirstOf(<<SinaHistory(up, t, "1h"), IntradayHistory(up, t, "1h")>>, NoBars))
    ELSE FirstOf(<<MootdxHistory(up, t, period), SinaHistory(up, t, period)>>
                 \o IF period = "daily" THEN <<NeteaseHistory(up, t)>> ELSE <<>>, NoBars)

FetchHistory(up, t, type, period) ==
    LET s == IF type = "A" THEN StripAPrefix(t) ELSE t
    IN  CASE type = "index" -> FetchIndexHistory(up, s, period)
          [] type = "A" -> IF s.body \in EtfBodies THEN EtfHistory(up, s, period)
                           ELSE StockHistory(up, s, period)
          [] type = "HK" -> FirstOf(<<TencentHkHistory(up, s),
                                      AkshareHistory(up, s, type, period)>>, NoBars)
          [] type = "US" -> AkshareHistory(up, s, type, period)

-----------------------------------------------------------------------------
\* The net value of a fund: a caller that wants few rows asks eastmoney first;
\* an answer, not a failure, is kept for a day.
FundNav(up, few, kept) ==
    LET order == (IF few THEN <<"ttj">> ELSE <<>>) \o <<"akshare", "ttj", "fund_fetcher">>
    IN  IF kept # "none" THEN kept
        ELSE FirstOf([i \in DOMAIN order |-> IF order[i] \in up THEN order[i] ELSE "none"], "none")

\* The shares of the ETFs, all in one reply that is kept for an hour; a source
\* that fails answers like one that knows none.
SpotShares(kept, fresh, reply) == IF kept # {} /\ fresh THEN kept ELSE reply
EtfShares(t, history, kept, fresh, reply) ==
    IF t \in history THEN "history"
    ELSE IF t \in SpotShares(kept, fresh, reply) THEN "spot" ELSE "none"

-----------------------------------------------------------------------------
\* What the caller means by a text.
Meant(t, type) ==
    IF type \in {"HK", "US"} THEN <<IF type = "HK" THEN "hk" ELSE "us", [t EXCEPT !.suf = ""]>>
    ELSE <<IF type = "index" /\ t.body \in ShIndexes THEN "sh" ELSE Exchange(t), Plain(t.body)>>

\* A quote is of the instrument that was asked for, whichever source gave it, but for
\* the codes Sina is asked about as indices of Shanghai (china_market.py 491-503).
QuoteOfTheOneAsked(up, t, type) ==
    LET found == IF type = "A" THEN FetchAStockRealtime(up, t) ELSE FetchHkStockRealtime(up, t)
    IN  \/ found \subseteq {Meant(t, type)}
        \/ /\ type = "A" /\ t.body \in ShIndexes
           /\ found = SinaRealtime(up, {StripAPrefix(t)}, "A")

\* Another source that answers takes no quote away from a caller that asks for one.
MoreSourcesLoseNoQuote(less, more, t) ==
    /\ FetchAStockRealtime(less, t) # {} => FetchAStockRealtime(more, t) # {}
    /\ FetchHkStockRealtime(less, t) # {} => FetchHkStockRealtime(more, t) # {}

\* Bars are of the instrument that was asked for, from whichever source.
BarsOfTheOneAsked(up, t, type, period) ==
    FetchHistory(up, t, type, period).of \subseteq {Meant(t, type)}

\* A bar is as long as was asked or a day long.  Minutes stand for an hour where Sina
\* fails (_akshare_intraday_history gets int("1h"[:-1])), four hours fail where Sina
\* answers (_resample_4h wants the Chinese names).
BarsAsLongAsAsked(up, t, type, period) ==
    LET bars == FetchHistory(up, t, type, period)
    IN  bars = NoBars \/ bars.every \in {period, "daily"}
        \/ (period = "1h" /\ bars.every = "1m" /\ "sina" \notin up)
        \/ (period = "4h" /\ bars = FailsOnNames /\ "sina" \in up)

\* Claims false of the code.  One instrument of a batch that one source lacks is
\* asked of the next source (fetch_a_stock_batch); the map of the shares of the last
\* hour outlives a failure ("falls back to the old value", china_market.py 712).
BatchLacksNothing(up, ts) ==
    \A t \in ts : FetchAStockBatch(up, {t}) # {}
                  => FetchAStockBatch(up, {t}) \subseteq FetchAStockBatch(up, ts)
OldSharesKept(kept, reply) == SpotShares(kept, FALSE, reply) # {} \/ kept = {}
===============================================================================
