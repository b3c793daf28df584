----------------------------- MODULE MarketMood ------------------------------
(***************************************************************************)
(* fetchers/fundamentals_fetcher.py: valuations, flows of money and the    *)
(* mood of the market.  Shares of one are in hundredths, a list of rows is *)
(* in the order of the source; a source that failed, was empty or could    *)
(* not be read is <<>>.  Whether a source may be asked is SourceBreaker.   *)
(***************************************************************************)
EXTENDS Integers, Sequences, FiniteSets, SequencesExt, Folds

CONSTANTS MoodWeights,  \* SENTIMENT_WEIGHTS and _REGIME_WEIGHTS by regime, in hundredths
          RegimeBias,   \* the mood of a regime when nothing is known, in hundredths
          RollingKept,  \* 20 moods of the past
          BreadthTTL, LongAverage, ShortAverage  \* 300 s; 20 and 5 days

ASSUME MoodAssumption ==
    /\ {RollingKept, BreadthTTL, LongAverage, ShortAverage} \subseteq Nat \ {0}
    /\ "none" \in DOMAIN MoodWeights /\ DOMAIN RegimeBias \subseteq DOMAIN MoodWeights

Clamp(x, low, high) == IF x < low THEN low ELSE IF x > high THEN high ELSE x
SumOf(s) == FoldLeft(+, 0, s)
Numbers(s) == SelectSeq(s, LAMBDA x : x.ok)
LastOr(s, none) == IF s = <<>> THEN none ELSE s[Len(s)]

-----------------------------------------------------------------------------
\* Valuations: [pe, pb], 0 for the one that is missing.
NoValuation == [pe |-> 0, pb |-> 0]
Positive(v) == [pe |-> IF v.pe > 0 THEN v.pe ELSE 0, pb |-> IF v.pb > 0 THEN v.pb ELSE 0]
\* S&P 500: its own page, else the fund that stands for it, as for the other indices.
UsIndexPePb(index, page, fund) ==
    IF index = "SPX" /\ Positive(page) # NoValuation THEN Positive(page) ELSE Positive(fund)
UsPePb(row) == [pe |-> IF row.pe > 0 THEN row.pe ELSE 0, pb |-> 0]
APePb(primary, fallback) == IF primary # NoValuation THEN primary ELSE fallback
\* fetch_current_pe_pb: an index's answer and its failure are both kept, of an A share
\* only the failure; a US share is looked up in the list each time.
PePb(kind, kept, failed, fresh) ==
    IF kind = "usIndex" /\ kept # NoValuation THEN [value |-> kept, kept |-> kept, failed |-> failed]
    ELSE IF kind \in {"usIndex", "A"} /\ failed
         THEN [value |-> NoValuation, kept |-> kept, failed |-> TRUE]
    ELSE IF kind = "other" THEN [value |-> NoValuation, kept |-> kept, failed |-> failed]
    ELSE [value |-> fresh, kept |-> IF kind = "usIndex" THEN fresh ELSE kept,
          failed |-> IF kind = "US" THEN failed ELSE fresh = NoValuation]

\* fetch_fund_scale, fetch_fund_flow, fetch_hist_avg_volume and their union: what one of
\* them lacks stays empty, funds outside the exchanges have none.
Fundamentals(isA, scale, flow, bars) ==
    IF ~isA THEN [scale |-> 0, flow |-> 0, volume |-> 0, pe |-> 0]
    ELSE LET head == SubSeq(bars, 1, IF Len(bars) < LongAverage THEN Len(bars) ELSE LongAverage)
             read == Numbers([i \in DOMAIN head |-> head[i].amount])
         IN  [scale |-> LastOr(scale, 0), flow |-> LastOr(flow, 0),
              volume |-> IF read = <<>> THEN 0 ELSE SumOf([i \in DOMAIN read |-> read[i].n]) \div Len(read),
              pe |-> IF bars = <<>> THEN 0 ELSE bars[1].pe]
\* fetch_fund_flow_detailed: the last column that fits and can be read; the name of the
\* largest orders contains the name of the large ones.
FlowOf(columns, who) ==
    LET fits == IF who = "large" THEN {"large", "superLarge"} ELSE {who}
        read == SelectSeq(columns, LAMBDA c : c.who \in fits /\ c.ok)
    IN  IF read = <<>> THEN 0 ELSE read[Len(read)].n

-----------------------------------------------------------------------------
\* fetch_margin_balance reads the last row of a source, Shenzhen before Shanghai;
\* fetch_margin_change compares the first with the second, or the balance with a fixed
\* one: far and near are its bounds.
MarginBalance(szse, sse) == IF szse # <<>> THEN LastOr(szse, 0) ELSE LastOr(sse, 0)
MarginChange(szse, sse, usual, spread) ==
    IF Len(szse) >= 2 /\ szse[2] > 0 THEN Clamp((500 * (szse[1] - szse[2])) \div szse[2], -100, 100)
    ELSE IF szse # <<>> /\ MarginBalance(szse, sse) > 0
         THEN Clamp((100 * (MarginBalance(szse, sse) - usual)) \div spread, -100, 100)
    ELSE 0
\* _fetch_volume_ratio: the mean of the last five days by that of the last twenty.
Mean(s, n) == SumOf(SubSeq(s, Len(s) - n + 1, Len(s))) \div n
VolumeRatio(volumes) ==
    IF Len(volumes) >= LongAverage /\ Mean(volumes, LongAverage) > 0
    THEN (100 * Mean(volumes, ShortAverage)) \div Mean(volumes, LongAverage)
    ELSE 100

\* fetch_advance_decline_ratio: a row that cannot be read fails the source.
AdvanceRatio(rows, fallback) ==
    LET Rising(s) == (100 * Len(SelectSeq(s, LAMBDA r : r.n > 0))) \div Len(s)
    IN  IF rows # <<>> /\ Numbers(rows) = rows THEN Rising(rows)
        ELSE IF fallback # <<>> THEN Rising(fallback) ELSE 50

\* fetch_market_breadth: there it counts as unchanged; the fallback leaves it out, knows
\* no turnover and says that it is one.
Breadth(rows, fallback) ==
    LET Count(s, all, degraded) ==
            [up |-> Len(SelectSeq(s, LAMBDA r : r.n > 0)), down |-> Len(SelectSeq(s, LAMBDA r : r.n < 0)),
             total |-> all, degraded |-> degraded]
    IN  IF rows # <<>> THEN Count(Numbers(rows), Len(rows), FALSE)
        ELSE IF Numbers(fallback) # <<>> THEN Count(Numbers(fallback), Len(Numbers(fallback)), TRUE)
        ELSE [up |-> 0, down |-> 0, total |-> 0, degraded |-> FALSE]
Flat(b) == b.total - b.up - b.down
MarketBreadth(cache, now, rows, fallback) ==
    IF cache.breadth.total > 0 /\ now - cache.at < BreadthTTL THEN [out |-> cache.breadth, cache |-> cache]
    ELSE LET b == Breadth(rows, fallback)
         IN  [out |-> b, cache |-> IF b.total > 0 THEN [at |-> now, breadth |-> b] ELSE cache]

-----------------------------------------------------------------------------
\* calc_sentiment_index, in hundredths of a hundredth of its scale of 100.
Halved(x) == (Clamp(x, -100, 100) + 100) \div 2
Unknown(advance, margin, volume) == advance \in 46 .. 54 /\ margin = 0 /\ volume = 100
RawMood(advance, margin, volume, regime) ==
    LET w == IF regime \in DOMAIN MoodWeights THEN MoodWeights[regime] ELSE MoodWeights["none"]
    IN  IF Unknown(advance, margin, volume) /\ regime \in DOMAIN RegimeBias THEN 100 * RegimeBias[regime]
        ELSE w.advance * advance + w.consensus * Halved(0) + w.volume * Halved(volume) + w.margin * Halved(margin)
\* _momentum_correction: of the last three raw moods, three tenths of the last change.
Corrected(history, raw) ==
    IF history = <<>> THEN raw ELSE Clamp(raw + (3 * (raw - history[Len(history)])) \div 10, 0, 10000)
Remembered(history, raw, n) ==
    LET all == Append(history, raw) IN IF Len(all) > n THEN Tail(all) ELSE all
MoodLabel(mood) ==
    1 + Cardinality({bound \in {2000, 3500, 4500, 5500, 6500, 8000} : mood >= bound})

\* fetch_market_sentiment: a source that is late or raises is replaced by its default and
\* said to be missing; the moods of the past are read from the file once, and written to
\* it with every new one (writes: the file can be written).
Late == [ok |-> FALSE, n |-> 0]
MarketSentiment(state, advance, volume, margin, writes) ==
    LET Or(x, default) == IF x.ok THEN x.n ELSE default
        raw == RawMood(Or(advance, 50), Or(margin, 0), Or(volume, 100), "none")
        mood == Corrected(state.history, raw)
        past == IF state.rolling = <<>> THEN state.file ELSE state.rolling
        rolling == Remembered(past, mood, RollingKept)
    IN  [mood |-> mood, degraded |-> ~(advance.ok /\ volume.ok /\ margin.ok),
         state |-> [history |-> Remembered(state.history, raw, 3), rolling |-> rolling,
                    file |-> IF writes THEN rolling ELSE state.file]]
MoodRestart(state) == [history |-> <<>>, rolling |-> <<>>, file |-> state.file]

-----------------------------------------------------------------------------
\* Whatever the weights of the regime, the mood stays on its scale.
MoodOnScale(history, advance, margin, volume, regime) ==
    Corrected(history, RawMood(advance, margin, volume, regime)) \in 0 .. 10000
\* The counts of a day add up, whichever source gave them.
BreadthAddsUp(rows, fallback) == Flat(Breadth(rows, fallback)) \in Nat
\* Counts that were kept are given out for their time only, failing sources or not.
BreadthIsRecent(cache, now) ==
    MarketBreadth(cache, now, <<>>, <<>>).out.total > 0 => now - cache.at < BreadthTTL
\* The moods of the past survive a restart, the one of the restart is appended.
PastSurvivesRestart(state, mood) ==
    LET before == MarketSentiment(state, mood, Late, Late, TRUE)
        after == MarketSentiment(MoodRestart(before.state), mood, Late, Late, TRUE)
    IN  Len(before.state.rolling) < RollingKept =>
            IsPrefix(before.state.rolling, after.state.rolling)

\* False of the code: nothing known is the middle of the scale (lines 896 and 911: a
\* volume as usual counts as the highest); a default of a source is said to be one (972,
\* 1150 and 1184 return it as a number); the averages and the valuation are of the last
\* days (248 and 264 read the first rows); both readings of the margin are of one end of
\* the rows (690, 1130); one row without a number does not fail the ratio (943).
CalmIsNeutral == RawMood(50, 0, 100, "none") = 5000
DefaultsAreSaid(state) == MarketSentiment(state, [ok |-> TRUE, n |-> AdvanceRatio(<<>>, <<>>)],
                              [ok |-> TRUE, n |-> VolumeRatio(<<>>)],
                              [ok |-> TRUE, n |-> MarginChange(<<>>, <<>>, 1, 1)], TRUE).degraded
ValuationIsOfToday(bars) == bars # <<>> => Fundamentals(TRUE, <<>>, <<>>, bars).pe = bars[Len(bars)].pe
===============================================================================
