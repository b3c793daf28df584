----------------------------- MODULE FactorScores -----------------------------
(***************************************************************************)
(* factors/factor_registry.py, core/factor_aggregate.py and the statistics *)
(* of factors/ic_tracker.py: where the data of a factor comes from, in     *)
(* which unit its value ends up, the sign of a coefficient, and how the    *)
(* factors of a category become one score.                                 *)
(***************************************************************************)
EXTENDS Integers, Sequences, FiniteSets, FiniteSetsExt

Mag(n) == IF n < 0 THEN -n ELSE n
Larger(a, b) == IF a > b THEN a ELSE b
Smaller(a, b) == IF a < b THEN a ELSE b
Nil == "nil"

-----------------------------------------------------------------------------
\* The K-lines kept by the registry: one stamp for all symbols, renewed by whatever
\* is written.  "bars" maps a symbol to the moment its bars were fetched.
GetCachedKline(bars, stamp, now, ttl, syms) ==
    IF bars = <<>> \/ now - stamp > ttl \/ ~(syms \subseteq DOMAIN bars) THEN <<>>
    ELSE [s \in syms |-> bars[s]]
SetKlineCache(bars, fetched, failed, now) ==
    [s \in DOMAIN bars \cup (fetched \ failed) |-> IF s \in fetched \ failed THEN now ELSE bars[s]]

\* _fetch_market_data: each symbol that fails counts against "factor.history", then
\* the batch counts as a success, one that was cut short included.
FetchMarketData(failures, asked, failed, cut) ==
    [rows |-> IF cut THEN {} ELSE asked \ failed,
     counted |-> failures + Cardinality(failed), failures |-> 0]

\* The moment of a symbol's bars: the ones handed in, else the kept ones, else none.
DataOf(s, live, kept) ==
    IF s \in live THEN "live" ELSE IF s \in kept THEN "stale" ELSE "unavailable"

\* What the extra fields of a symbol fill in, never over what is there.
Bridged(data, extra) ==
    LET filled == [f \in DOMAIN data \cup DOMAIN extra |-> IF f \in DOMAIN data THEN data[f] ELSE extra[f]]
        scale == IF "fund_scale" \in DOMAIN extra THEN extra["fund_scale"] ELSE 0
        Lacks(f) == f \notin DOMAIN filled \/ filled[f] = 0
        more == {f \in {"total_mv", "float_mv"} : scale > 0 /\ Lacks(f)}
    IN  [f \in DOMAIN filled \cup more |->
            IF f \notin more THEN filled[f]
            ELSE IF f = "total_mv" THEN scale ELSE (scale * 85) \div 100]

\* The live net values: a source counts with three tenths of the symbols, the last
\* one with any; Sina's rows hold prices only.  Who is left without is asked for alone.
IopvChain(up, syms, known) ==
    LET Of(source) == IF source \in up /\ source # "sina" THEN known[source] \cap syms ELSE {}
        Enough(source) == source \in up /\ 10 * Cardinality(Of(source)) >= 3 * Cardinality(syms)
    IN  IF Enough("sina") THEN "sina" ELSE IF Enough("qq") THEN "qq"
        ELSE IF Of("em") # {} THEN "em" ELSE Nil
InjectNav(up, syms, known, daily) ==
    LET source == IopvChain(up, syms, known)
        live == IF source \in {"qq", "em"} THEN known[source] \cap syms ELSE {}
    IN  [s \in syms |-> IF s \in live THEN "live" ELSE IF s \in daily THEN "daily" ELSE Nil]

-----------------------------------------------------------------------------
\* The fewest bars an indicator needs, and what it gives without them.
BarsNeeded == [sma_5 |-> 5, sma_10 |-> 10, sma_20 |-> 20, sma_60 |-> 60, rsi_14 |-> 15,
               macd |-> 26, bandwidth |-> 20, vol_ratio |-> 20, atr_14 |-> 15, vwap |-> 1,
               kdj |-> 9, amount_stability |-> 5, change_pct |-> 2, return_1m |-> 2,
               return_3m |-> 2, price |-> 1]
Indicator(code, bars) == IF bars < BarsNeeded[code] THEN Nil ELSE "number"

\* The span of a return: what is asked for, or whatever there is.
ReturnSpan(bars, asked) == IF bars > asked THEN asked ELSE IF bars >= 2 THEN bars - 1 ELSE 0

\* A 0 that stands for "not known", of the factors that give one.
PremiumDiscount(nav, price) == IF nav > 0 /\ price # 0 THEN (100 * (price - nav)) \div nav ELSE 0
TrackingError(bars, benchmark) == IF bars < 5 \/ benchmark < 5 THEN 0 ELSE 1
StockDivergence(ad) == IF ad > 0 THEN Smaller(Larger(2 * (ad - 100), -100), 100) ELSE 0

\* The change of the institutions' share: told, else half the change of the shares,
\* else three tenths of the size of the fund.
InstitutionalChange(direct, shares, scale) ==
    IF direct # Nil THEN "change" ELSE IF shares # Nil THEN "change"
    ELSE IF scale # Nil THEN "size" ELSE "zero"

NewsDirection(positive, total) == IF total < 3 THEN Nil ELSE (100 * positive) \div total
MarginLeverage(direction, change) ==
    IF direction # Nil THEN direction ELSE IF change = Nil THEN 0
    ELSE IF change > 5 THEN 1 ELSE IF change < -5 THEN -1 ELSE 0

\* The alignment of a fund with the plan: by its industry, 30 where there is none; what
\* serves the home market by its industry or a concept.
FiveYearPlan(policy, industry) == IF industry \in DOMAIN policy THEN policy[industry] ELSE 30
DualCirculation(industry, home, concepts, consumption) ==
    IF industry \in home \/ concepts \cap consumption # {} THEN 1 ELSE 0
IndustryDiversification(weights, concepts) ==     \* in thousandths
    IF weights = <<>> THEN IF concepts = 0 THEN 0 ELSE 1000 \div (1 + concepts)
    ELSE LET total == MapThenSumSet(LAMBDA i : weights[i], DOMAIN weights)
         IN  IF total <= 0 THEN 0
             ELSE MapThenSumSet(LAMBDA i : (1000 * weights[i] * weights[i]) \div (total * total),
                                DOMAIN weights)

\* In tenths; the bias is in hundredths.
SignalOverall(rsi, macd, bias) ==
    LET score == (IF rsi < 30 THEN 4 ELSE IF rsi > 70 THEN -4
                  ELSE IF rsi < 40 THEN 2 ELSE IF rsi > 60 THEN -2 ELSE 0)
                 + (IF macd > 0 THEN 2 ELSE IF macd < 0 THEN -2 ELSE 0)
                 + (IF bias > 5 THEN -1 ELSE IF bias < -5 THEN 1 ELSE 0)
    IN  Larger(-10, Smaller(10, score))

-----------------------------------------------------------------------------
\* The unit a factor is left in: its own when fewer than two symbols have a number or
\* all numbers are the same; a score of some five either way, or a share of one.
UnitAfter(method, numbers) ==
    IF method \notin {"zscore", "zscore_large"} \/ Cardinality(numbers) < 2 THEN "own"
    ELSE IF method = "zscore" THEN "score" ELSE "share"

\* The bias that the signal looks at divides the price by what is left of the average.
BiasUnits(method, numbers) == <<"own", UnitAfter(method, numbers)>>

\* Which codes a batch names: three symbols or more with a value that means something
\* and with a return, neither all the same; the batch is kept for one that has a sign.
Common(values, returns) == {s \in DOMAIN values \cap DOMAIN returns : values[s] # 0}
Varied(f, syms) == Cardinality({f[s] : s \in syms}) > 1
HasIC(values, returns) ==
    LET syms == Common(values, returns)
    IN  Cardinality(syms) >= 3 /\ Varied(values, syms) /\ Varied(returns, syms)

\* Spearman: the ranks, twice, ties in the middle; the sign of their covariance.
Rank2(f, syms, s) == 2 * Cardinality({u \in syms : f[u] < f[s]})
                     + Cardinality({u \in syms : f[u] = f[s]}) + 1
ICNumerator(values, returns) ==
    LET syms == Common(values, returns)
        mid == Cardinality(syms) + 1
    IN  MapThenSumSet(LAMBDA s : (Rank2(values, syms, s) - mid) * (Rank2(returns, syms, s) - mid), syms)
ComputeIC(values, returns) == IF HasIC(values, returns) THEN ICNumerator(values, returns) ELSE 0

\* build_forward_returns reads closes from the newest to the oldest; the K-lines of the
\* hub and _slice_market_data_day run from the oldest to the newest.
ForwardReturn(close) == close[1] - close[2]
SliceMarketDataDay(close, i, window) == SubSeq(close, Larger(1, i - window + 1), i)

\* The standing of a factor, by the trade dates with a coefficient.
StatusOf(static, samples, t, ir) ==
    IF static THEN "static" ELSE IF samples < 250 \/ t = Nil \/ ir = Nil THEN "no_data"
    ELSE IF Mag(ir) >= 50 /\ t >= 200 THEN "valid" ELSE "warn"

-----------------------------------------------------------------------------
\* One score for a category: the values that mean something, each in the direction of
\* its definition, weighed by what is known of their coefficients (in hundredths,
\* of those with five batches or more).  The result is <<numerator, denominator>>.
Directional(v, rule) ==
    IF rule.neutral # 0 THEN (100 * (rule.neutral - v)) \div rule.neutral
    ELSE IF rule.direction = -1 THEN -v ELSE v

\* Twice the median of the magnitudes: the reference of the weights.
Reference(warm) ==
    LET n == Cardinality(DOMAIN warm)
        Below(m) == Cardinality({k \in DOMAIN warm : Mag(warm[k]) < m})
        Upto(m) == Cardinality({k \in DOMAIN warm : Mag(warm[k]) <= m})
        At(i) == CHOOSE m \in {Mag(warm[k]) : k \in DOMAIN warm} : Below(m) < i /\ i <= Upto(m)
    IN  IF n = 0 THEN 0 ELSE At((n + 1) \div 2) + At((n \div 2) + 1)

WeightInCategory(k, warm) == LET ref == Reference(warm)
                   IN  IF ref = 0 THEN 1 ELSE IF k \in DOMAIN warm THEN Larger(2 * Mag(warm[k]), ref) ELSE ref

Directed(k, v, rule, warm) ==
    IF k \in DOMAIN warm /\ warm[k] < -3 THEN -Directional(v, rule) ELSE Directional(v, rule)

AggregateFactorScores(values, rules, warm) ==
    LET keys == {k \in DOMAIN values : values[k] # 0}
        known == [k \in keys \cap DOMAIN warm |-> warm[k]]
    IN  <<MapThenSumSet(LAMBDA k : WeightInCategory(k, known) * Directed(k, values[k], rules[k], known), keys),
          MapThenSumSet(LAMBDA k : WeightInCategory(k, known), keys)>>

-----------------------------------------------------------------------------
\* A score lies between the directed values it is made of.
AggregateInRange(values, rules, warm) ==
    LET agg == AggregateFactorScores(values, rules, warm)
        keys == {k \in DOMAIN values : values[k] # 0}
        ds == {Directed(k, values[k], rules[k], warm) : k \in keys}
    IN  keys # {} => agg[2] > 0 /\ Min(ds) * agg[2] <= agg[1] /\ agg[1] <= Max(ds) * agg[2]

\* What turns the returns around turns the coefficient around; a monotone change of
\* unit, the standardization, leaves it.
ICIsOfRanks(values, returns) ==
    /\ ComputeIC(values, [s \in DOMAIN returns |-> -returns[s]]) = -ComputeIC(values, returns)
    /\ ComputeIC([s \in DOMAIN values |-> 3 * values[s]], returns) = ComputeIC(values, returns)

\* Claims false of the code.  The coefficient of day i is of the return of day i
\* (ic_tracker.py 413-420); a factor whose coefficient confirms its direction keeps it
\* (factor_aggregate.py 36: the coefficient is of the value before it is directed, so
\* a direction of -1 is undone); the signal compares prices with prices; bars are at
\* most five minutes old (KLINE_CACHE_TTL); a run of failures opens "factor.history".
ReturnIsOfItsDay(close, i) == ForwardReturn(SliceMarketDataDay(close, i, 60)) = close[i] - close[i - 1]
ConfirmedKeepsDirection(k, v, rule, warm) ==
    rule.direction = -1 /\ warm[k] < 0 => Directed(k, v, rule, warm) = Directional(v, rule)
BiasOfOneUnit(method, numbers) == BiasUnits(method, numbers)[2] = "own"
BarsAreYoung(bars, stamp, now, ttl, syms) ==
    \A s \in DOMAIN GetCachedKline(bars, stamp, now, ttl, syms) :
        now - GetCachedKline(bars, stamp, now, ttl, syms)[s] <= ttl
FailuresAdd(failures, asked, failed) ==
    FetchMarketData(failures, asked, failed, FALSE).failures >= Cardinality(failed)
===============================================================================
