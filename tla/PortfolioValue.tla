--------------------------- MODULE PortfolioValue ---------------------------
(***************************************************************************)
(* What services/portfolio computes from the holdings and their quotes:    *)
(* the map of prices, the allocation, the daily and the cumulative result  *)
(* and the drift of the weights.  Pure; money and percent are integers.    *)
(***************************************************************************)
EXTENDS Integers, Sequences, FiniteSets
LOCAL INSTANCE SequencesExt
LOCAL INSTANCE FiniteSetsExt

\* A holding is [sym, market, type, tracked, weight, cost, shares]; market is "A" with
\* a listed code, "fund" for a code that is not listed, "HK" or "US"; tracked is the
\* index or fund it follows, or NoIndex.  A quote is <<price, change in percent>>.
NoQuote == <<>>
NoIndex == "none"
Quoted(m, s) == s \in DOMAIN m /\ m[s] # NoQuote
Over(f, g) == [s \in DOMAIN f \cup DOMAIN g |-> IF s \in DOMAIN g THEN g[s] ELSE f[s]]
Only(f, S) == [s \in {s \in DOMAIN f \cap S : f[s] # NoQuote} |-> f[s]]
Total(F(_), hs) == FoldLeft(LAMBDA sum, h : sum + F(h), 0, hs)

\* _split_symbols: the codes asked of a market.  A tracked code is asked with the A
\* shares when it is listed.
_split_symbols(hs, market, listed) ==
    {hs[i].sym : i \in {i \in DOMAIN hs : hs[i].market = market}}
    \cup IF market = "A" THEN {hs[i].tracked : i \in DOMAIN hs} \cap listed ELSE {}

\* _build_price_map_async: feed answers per market what it quotes, nothing when it is
\* late or fails; the indices come whoever asks.  Tracked codes that are still missing
\* are asked of the funds, and a fund without a quote takes that of what it tracks.
_build_price_map_async(hs, feed, listed) ==
    LET asked(market) == Only(feed[market], _split_symbols(hs, market, listed))
        batch == Over(Over(Over(asked("A"), asked("HK")), asked("US")), feed["index"])
        tracked == {hs[i].tracked : i \in DOMAIN hs} \ {NoIndex}
        full(m) == Over(m, Only(feed["nav"], tracked \ DOMAIN m))
        follow(m) ==
            LET followers == {i \in DOMAIN hs : hs[i].tracked \in DOMAIN m
                                                /\ hs[i].sym \notin DOMAIN m}
            IN  Over(m, [s \in {hs[i].sym : i \in followers} |->
                          m[hs[CHOOSE i \in followers : hs[i].sym = s].tracked]])
    IN  follow(full(batch))

\* calculate_allocation: a fund's change is its index's; a missing quote stays missing.
calculate_allocation(hs, m, capital) ==
    LET row(h) ==
          LET follows == h.type = "off_exchange" /\ h.tracked # NoIndex
              own == IF Quoted(m, h.sym) THEN m[h.sym] ELSE NoQuote
              q == IF follows /\ Quoted(m, h.tracked) THEN m[h.tracked] ELSE own
          IN  [sym |-> h.sym, type |-> h.type, amount |-> (capital * h.weight) \div 100,
               price |-> own, change |-> q, estimated |-> follows,
               source |-> CASE follows /\ Quoted(m, h.tracked) -> "tracked_index"
                            [] follows /\ ~Quoted(m, h.tracked) -> "unavailable"
                            [] ~follows -> IF own = NoQuote THEN "unavailable" ELSE "quote"]
    IN  IF Total(LAMBDA h : h.weight, hs) = 0 THEN <<>>
        ELSE [i \in DOMAIN hs |-> row(hs[i])]

\* calculate_daily_pnl, in hundredths: a holding without a change has no result.
DailyItem(a) == IF a.change = NoQuote THEN 0 ELSE a.amount * a.change[2]
calculate_daily_pnl(hs, m, capital) ==
    LET items == calculate_allocation(hs, m, capital)
    IN  [total |-> Total(DailyItem, items),
         unknown |-> {items[i].sym : i \in {i \in DOMAIN items : items[i].change = NoQuote}}]

\* calculate_cumulative_pnl, of one holding: what was paid and what it is worth, whether
\* both are estimated and whether the estimate counts as one; -1 is a missing cost.
Counted(basis, value, est, counts) ==
    <<[basis |-> basis, value |-> value, est |-> est, counts |-> counts]>>
CumulativeItem(h, m, capital) ==
    LET price == IF Quoted(m, h.sym) THEN m[h.sym][1] ELSE 0
        change == IF Quoted(m, h.sym) THEN m[h.sym][2] ELSE 0
        target == (capital * h.weight) \div 100
    IN  CASE h.cost >= 0 /\ h.shares > 0 ->
               Counted(h.cost * h.shares, h.shares * price, FALSE, FALSE)
          [] h.cost >= 0 /\ h.shares = 0 /\ target > 0 /\ h.type = "off_exchange" ->
               Counted(target, IF h.cost > 0 THEN target + (target * change) \div 100 ELSE target,
                       TRUE, TRUE)
          [] h.cost >= 0 /\ h.shares = 0 /\ target > 0 /\ h.type # "off_exchange" /\ price > 0 ->
               Counted((target * h.cost) \div price, target, TRUE, TRUE)
          [] h.cost < 0 /\ target > 0 /\ price > 0 -> Counted(target, target, TRUE, FALSE)
          [] OTHER -> <<>>

\* calculate_cumulative_pnl, the summary of the holdings of some types.
CumulativeTotals(hs, m, capital, types) ==
    LET items == FlattenSeq([i \in DOMAIN hs |->
                    IF hs[i].type \in types THEN CumulativeItem(hs[i], m, capital) ELSE <<>>])
    IN  [basis |-> Total(LAMBDA x : x.basis, items),
         pnl |-> Total(LAMBDA x : x.value - x.basis, items),
         estimated |-> Total(LAMBDA x : IF x.counts THEN x.basis ELSE 0, items)]
HasRealData(hs) == \E i \in DOMAIN hs : hs[i].cost >= 0

\* calculate_weight_drift: the value the weights are measured against is added up in
\* the order of the rows; a row without shares adds its weight of the sum so far.
DriftBase(hs, m) ==
    FoldLeft(LAMBDA sum, h :
               IF h.shares > 0 THEN sum + h.shares * (IF Quoted(m, h.sym) THEN m[h.sym][1] ELSE 0)
               ELSE sum + (sum * h.weight) \div 100, 0, hs)
calculate_weight_drift(hs, m) ==
    LET actual(h) == IF DriftBase(hs, m) = 0 THEN 0
                     ELSE (100 * h.shares * (IF Quoted(m, h.sym) THEN m[h.sym][1] ELSE 0))
                          \div DriftBase(hs, m)
        off(h) == IF actual(h) > h.weight THEN actual(h) - h.weight ELSE h.weight - actual(h)
    IN  {hs[i].sym : i \in {i \in DOMAIN hs : hs[i].weight > 0 /\ 5 * off(hs[i]) > hs[i].weight}}

-----------------------------------------------------------------------------
(* What the checks ask of them *)

\* The two parts of the summary by type add up to the whole, and no more of the cost is
\* estimated than there is.
SummaryAddsUp(hs, m, capital) ==
    LET all == CumulativeTotals(hs, m, capital, {"on_exchange", "off_exchange"})
        on == CumulativeTotals(hs, m, capital, {"on_exchange"})
        off == CumulativeTotals(hs, m, capital, {"off_exchange"})
    IN  /\ all.basis = on.basis + off.basis /\ all.pnl = on.pnl + off.pnl
        /\ 0 <= all.estimated /\ all.estimated <= all.basis

\* A quote that is missing leaves the day's result as it is without the holding.
MissingIsNotZero(hs, m, capital) ==
    LET day == calculate_daily_pnl(hs, m, capital)
        known == SelectSeq(hs, LAMBDA h : h.sym \notin day.unknown)
    IN  day.total = calculate_daily_pnl(known, m, capital).total

\* More answers never take a quote away.
MoreAnswersMoreQuotes(hs, less, more, listed) ==
    (\A k \in DOMAIN less : \A s \in DOMAIN less[k] :
        less[k][s] # NoQuote => s \in DOMAIN more[k] /\ more[k][s] # NoQuote)
    => DOMAIN _build_price_map_async(hs, less, listed)
         \subseteq DOMAIN _build_price_map_async(hs, more, listed)
=============================================================================
