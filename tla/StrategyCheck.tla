---------------------------- MODULE StrategyCheck ----------------------------
(***************************************************************************)
(* strategy_check of services/portfolio/strategy_check.py: one check at a  *)
(* time reads the holdings, collects their data, asks the model or takes   *)
(* its last report from the cache, and fills every gap by rule.  Holdings  *)
(* and capital change between the checks and during them.                  *)
(* Before it stand the rules: the technical signal of a fund               *)
(* (analysis/signal.py), the composite decision with its gate, and the     *)
(* decision table that stands in for the model; scores in them are         *)
(* hundredths, the technical score is counted in halves.                   *)
(***************************************************************************)
EXTENDS Integers, Sequences, FiniteSets

Components == {"technical", "valuation", "momentum"}
Bounded(x, limit) == IF x > limit THEN limit ELSE IF x < -limit THEN -limit ELSE x
When(cond, points) == IF cond THEN points ELSE 0

-----------------------------------------------------------------------------
(* generate_signal *)

\* compute_td_sequential: how many days in a row the close lies on one side (below for
\* 1, above for -1) of the close four days earlier, counted up to nine.
Setup(close, side) ==
    LET count[i \in 0 .. Len(close)] ==
          IF i <= 4 THEN 0
          ELSE IF side * close[i] < side * close[i - 4]
               THEN (IF count[i - 1] = 9 THEN 9 ELSE count[i - 1] + 1) ELSE 0
    IN  count
compute_td_sequential(close) ==
    LET days == Len(close)
    IN  IF days < 8 THEN [buy |-> 0, sell |-> 0]
        ELSE [buy |-> Setup(close, 1)[days], sell |-> Setup(close, -1)[days]]

RsiPoints(rsi) ==
    When(rsi < 30, 4) + When(30 <= rsi /\ rsi < 40, 2)
    - When(60 < rsi /\ rsi <= 70, 2) - When(rsi > 70, 4) - When(rsi > 80, 4)
MacdPoints(dif, dea) ==
    CASE dif > dea -> IF dif > 0 THEN 2 ELSE 1
      [] dif < dea -> IF dif < 0 THEN -2 ELSE -1
      [] dif = dea -> 0
KdjPoints(k, d, j) ==
    When(k > d /\ k < 30, 2) - When(k < d /\ k > 70, 2) - When(j >= 80, 4)
TdPoints(td) ==
    When(td.buy = 9, 3) - When(td.buy # 9 /\ td.sell = 9, 3)
    + When(td.buy \in {7, 8}, 1) - When(td.sell \in {7, 8}, 1)

Overbought(ind) == ind.rsi > 80 \/ ind.j >= 80

\* Mutant: the overbought points are counted and the signal is left as it comes out.
SignalUndampened(ind) ==
    LET score == RsiPoints(ind.rsi) + MacdPoints(ind.dif, ind.dea)
                 + KdjPoints(ind.k, ind.d, ind.j) + When(ind.narrow, 1) + ind.ma + TdPoints(ind.td)
    IN  [score |-> score,
         signal |-> IF score >= 3 THEN "buy" ELSE IF score <= -3 THEN "sell" ELSE "hold"]

\* ma is 2, -2 or, without averages, 0.
generate_signal(ind) ==
    LET score == RsiPoints(ind.rsi) + MacdPoints(ind.dif, ind.dea)
                 + KdjPoints(ind.k, ind.d, ind.j) + When(ind.narrow, 1) + ind.ma + TdPoints(ind.td)
    IN  [score |-> score,
         signal |-> CASE score >= 3 -> IF Overbought(ind) THEN "hold" ELSE "buy"
                      [] score <= -3 -> "sell"
                      [] OTHER -> "hold"]

-----------------------------------------------------------------------------
(* composite_signal_with_gate and _attach_composite_decisions *)

FactorWeight(c) == IF c = "momentum" THEN 2 ELSE 4

\* have are the components with data, val their values; a missing one has no weight,
\* and with fewer than two of three there is no decision.
CompositeDecision(have, val) ==
    LET share(c) == IF c \in have THEN FactorWeight(c) * Bounded(val[c], 100) ELSE 0
        weights == (IF "technical" \in have THEN 4 ELSE 0)
                   + (IF "valuation" \in have THEN 4 ELSE 0)
                   + (IF "momentum" \in have THEN 2 ELSE 0)
        sum == share("technical") + share("valuation") + share("momentum")
        weak == val["technical"] < 0 /\ val["valuation"] < 0 /\ sum > 0
        score == IF weak THEN 0 ELSE sum
    IN  IF 10 * Cardinality(have) < 18 THEN [signal |-> "none", degraded |-> TRUE]
        ELSE [degraded |-> FALSE,
              signal |-> CASE score >= 50 * weights -> "buy"
                           [] score <= -50 * weights -> "sell"
                           [] OTHER -> "hold"]

-----------------------------------------------------------------------------
(* _rule_based_suggestion *)

\* confidence, from how many of the components are filled
Confidence(filled, total) ==
    CASE total = 0 -> "medium"
      [] total > 0 /\ 10 * filled >= 9 * total -> "high"
      [] total > 0 /\ 10 * filled < 9 * total /\ 10 * filled >= 7 * total -> "medium"
      [] total > 0 /\ 10 * filled < 7 * total -> "low"

\* The branch of the table; a weight is in thousandths, and current is the target when
\* the caller has no other.
Action(current, target, score, sig, bearish) ==
    LET gap == IF current > target THEN current - target ELSE target - current
    IN  CASE 5 * gap > target -> IF current < target THEN "return" ELSE "cut back"
          [] 5 * gap <= target /\ sig = "buy" /\ score > 50 /\ ~bearish -> "increase"
          [] 5 * gap <= target /\ sig = "sell" /\ score < -50 -> "decrease"
          [] OTHER -> "hold"

\* An increase ends at 30 % and never below what is held, a decrease never above it.
_rule_based_suggestion(current, target, score, sig, bearish) ==
    LET branch == Action(current, target, score, sig, bearish)
        wanted == CASE branch = "return" -> IF target > 300 THEN 300 ELSE target
                    [] branch = "cut back" -> target
                    [] branch = "increase" -> IF 12 * current > 3000 THEN 300
                                              ELSE (12 * current) \div 10
                    [] branch = "decrease" -> (7 * current) \div 10
                    [] branch = "hold" -> current
        action == CASE branch \in {"return", "increase"} -> "increase"
                    [] branch \in {"cut back", "decrease"} -> "decrease"
                    [] branch = "hold" -> "hold"
    IN  [action |-> action,
         weight |-> CASE action = "increase" -> IF wanted < current THEN current ELSE wanted
                      [] action = "decrease" -> IF wanted > current THEN current ELSE wanted
                      [] action = "hold" -> current]

-----------------------------------------------------------------------------
(* _compute_risk_warnings and _combine_risk_warnings *)

\* analysed are the holdings with their sector ("" when unknown) and weight in percent.
Warning(what, sym) == [what |-> what, about |-> sym]
Portfolio == "portfolio"
_compute_risk_warnings(analysed) ==
    LET sectors == {h.sector : h \in analysed}
        unknown == {h \in analysed : h.sector = "" /\ h.weight > 0}
        narrow == Cardinality(sectors) <= 2 /\ Cardinality(analysed) > 2
    IN  (IF narrow /\ unknown # {} THEN {Warning("sectors unknown", Portfolio)} ELSE {})
        \cup (IF narrow /\ unknown = {} THEN {Warning("concentrated", Portfolio)} ELSE {})
        \cup {Warning("heavy", h.sym) : h \in {h \in analysed : h.weight >= 25}}

_combine_risk_warnings(warnings, llmFailed, noData) ==
    CASE warnings = {} /\ noData -> {Warning("no data", Portfolio)}
      [] warnings = {} /\ ~noData /\ llmFailed -> {Warning("rules only", Portfolio)}
      [] warnings = {} /\ ~noData /\ ~llmFailed -> {Warning("normal", Portfolio)}
      [] warnings # {} ->
            warnings \cup (IF llmFailed THEN {Warning("rules only", Portfolio)} ELSE {})

-----------------------------------------------------------------------------
(* What the checks ask of them *)

\* A fund that is overbought is never a purchase, whatever else speaks for it.
OverboughtIsNoPurchase(ind) == Overbought(ind) => generate_signal(ind).signal # "buy"

\* The two counts of the nine days exclude each other, and a count of n needs n closes in
\* a row that lie on its side of the close four days before.
CountsExclude(close) ==
    LET td == compute_td_sequential(close)
        days == Len(close)
    IN  /\ td.buy = 0 \/ td.sell = 0
        /\ \A k \in 0 .. td.buy - 1 : close[days - k] < close[days - k - 4]
        /\ \A k \in 0 .. td.sell - 1 : close[days - k] > close[days - k - 4]

\* A component without data does not water the others down: when all that have data are
\* convinced, so is the decision.  Nor does momentum alone turn two weak ones round.
DecisionNotDiluted(have, val) ==
    LET d == CompositeDecision(have, val).signal
    IN  /\ Cardinality(have) >= 2 /\ (\A c \in have : val[c] >= 50)
              /\ ~(val["technical"] < 0 /\ val["valuation"] < 0) => d = "buy"
        /\ val["technical"] < 0 /\ val["valuation"] < 0 => d # "buy"

\* The advice goes the way it says, and only what was held before exceeds 30 %.
AdviceKeepsDirection(current, target, score, sig, bearish) ==
    LET s == _rule_based_suggestion(current, target, score, sig, bearish)
    IN  /\ s.action = "increase" => s.weight >= current
        /\ s.action = "decrease" => s.weight <= current
        /\ s.action = "hold" => s.weight = current
        /\ s.weight <= current \/ s.weight <= 300

\* A report without the model says so, and there is always something to read.
FailureIsSaid(warnings, llmFailed, noData) ==
    LET w == _combine_risk_warnings(warnings, llmFailed, noData)
    IN  /\ w # {}
        /\ Warning("normal", Portfolio) \in w => ~llmFailed /\ ~noData

-----------------------------------------------------------------------------
(* The check *)

CONSTANTS Funds,        \* what may be held
          Strange,      \* a code that only a model's report names
          Books,        \* the holdings there may be, fund -> target weight in thousandths
          Capitals,     \* total_capital, in tenths of a yuan
          Samples,      \* what the collections find, see Readings
          ReportTTL,    \* _LLM_REPORT_TTL in ticks; a tick is longer than a check
          MaxClock, MaxChecks   \* bounds

\* What one of the two collections finds of a fund: the technical signal needs the
\* indicators, the rest needs the factor scores.
Readings == {"up", "down", "missing"}

ASSUME CheckAssumption ==
    /\ Strange \notin Funds /\ ReportTTL \in Nat
    /\ \A b \in Books : DOMAIN b \subseteq Funds
    /\ Samples \subseteq [ind: [Funds -> Readings], fac: [Funds -> Readings]]

VARIABLES book,      \* portfolio_etfs: the active holdings and their weights
          reports,   \* _strategy_check_cache, the entries whose key starts with "llm:"
          chk,       \* the check that is under way
          shown,     \* what the last check returned
          wall, checks

checkVars == <<book, reports, chk, shown, wall, checks>>

Signal(ind) == CASE ind = "up" -> "buy" [] ind = "down" -> "sell" [] OTHER -> "hold"
Score(fac) == CASE fac = "up" -> 80 [] fac = "down" -> -80 [] OTHER -> 0
\* _has_real_factor_values
Filled(fac) == fac # "missing"

Unset == "unset"
NoCheck == [pc |-> "idle"]
NoReport == [quality |-> "none"]

CheckInit == /\ book \in Books
             /\ reports = <<>> /\ chk = NoCheck /\ shown = NoReport
             /\ wall = 0 /\ checks = 0

\* Mutant: the key of a report is what is held.
KeyOfHoldings(held, capital) == <<DOMAIN held, 0>>

\* The key of a report: what is held and the whole yuan of the capital (and the provider,
\* which does not change); the weights are not part of it.
WholeYuan(capital) == capital \div 10
Key(held, capital) == <<DOMAIN held, WholeYuan(capital)>>

\* list_etfs.  Nothing held: a report of its own kind, without the model.
Begins(capital) ==
    /\ chk.pc = "idle" /\ checks < MaxChecks
    /\ checks' = checks + 1
    /\ IF DOMAIN book = {}
       THEN /\ shown' = [quality |-> "empty", at |-> wall, held |-> book, capital |-> capital,
                         advice |-> {}, warnings |-> {}, source |-> NoReport]
            /\ UNCHANGED chk
       ELSE /\ chk' = [pc |-> "collects", held |-> book, capital |-> capital]
            /\ UNCHANGED shown
    /\ UNCHANGED <<book, reports, wall>>

\* The time a model has, see _llm_timeout_for: 15 s without data, 30 s or more with
\* some, 180 s with all.
_llm_timeout_for(held, fac) ==
    IF \A f \in DOMAIN held : ~Filled(fac[f]) THEN "short"
    ELSE IF \A f \in DOMAIN held : Filled(fac[f]) THEN "long" ELSE "measured"

\* _collect_strategy_data: a collection that is late or fails leaves nothing and spares
\* the other one.  The finished result is kept for 60 s as well, but never found: the
\* test for a failed result reads a field that it does not have.
Gathered(ind, fac) ==
    /\ chk.pc = "collects"
    /\ chk' = [pc |-> "asks", held |-> chk.held, capital |-> chk.capital, ind |-> ind, fac |-> fac,
               budget |-> _llm_timeout_for(chk.held, fac)]
    /\ UNCHANGED <<book, reports, shown, wall, checks>>

\* What a model may answer in time: it advises on some funds, perhaps on one that is not
\* held, and writes about some; the weight and the action of those are often left out.
\* Its summary may begin as the excuse for a failed call does (is_llm_fallback_summary).
Reports(held) ==
    {[says |-> s, at |-> wall, held |-> held, capital |-> chk.capital, advises |-> a,
      analysis |-> [f \in n |-> Unset]] :
        s \in {"report", "excuse"}, a \in {{}, {Strange}} \cup {{f} : f \in DOMAIN held},
        n \in {{}, DOMAIN held}}
\* A call that is late or fails: nothing but the excuse.
Failures == {[says |-> "nothing", at |-> wall, held |-> chk.held, capital |-> chk.capital,
              advises |-> {}, analysis |-> <<>>]}

\* The rule for a fund with the data of this check; weights other than the target are
\* not known to it.
Ruled(f) == _rule_based_suggestion(chk.held[f], chk.held[f], Score(chk.fac[f]), Signal(chk.ind[f]),
                                   FALSE).action

\* What strategy_check makes of a report (or of none): the analysis gets an action where
\* it has none, a rule advises where the model did not.  The analysis is the list of the
\* cached report itself, so what is filled in stays there.
Completed(report, failed, analysis) ==
    [quality |-> IF failed THEN "fallback" ELSE "full",
     at |-> wall, held |-> chk.held, capital |-> chk.capital, source |-> report,
     warnings |-> LET analysed == {[sym |-> f, sector |-> "", weight |-> chk.held[f] \div 10] :
                                     f \in DOMAIN analysis}
                  IN  _combine_risk_warnings(_compute_risk_warnings(analysed), failed,
                                             chk.budget = "short"),
     advice |-> {<<f, "llm">> : f \in report.advises}
                \cup {<<f, "rule">> : f \in DOMAIN chk.held \ report.advises}]
FilledIn(analysis) ==
    [f \in DOMAIN analysis |-> IF analysis[f] = Unset THEN Ruled(f) ELSE analysis[f]]
Skeleton == [f \in DOMAIN chk.held |-> Ruled(f)]

Stored(key, report) == [k \in DOMAIN reports \cup {key} |-> IF k = key THEN report ELSE reports[k]]

\* The skeleton of the rules takes the place of an analysis only where there is none.
Analysed(report, failed) ==
    IF failed /\ report.analysis = <<>> THEN Skeleton ELSE FilledIn(report.analysis)

\* Mutant: what came back is stored, whatever it is.
AnsweredAndStored(report) ==
    LET failed == report.says # "report"
        done == Analysed(report, failed)
    IN  /\ reports' = Stored(Key(chk.held, chk.capital), [report EXCEPT !.analysis = done])
        /\ shown' = Completed(report, failed, done)

\* A report of the model is stored and completed; after a failure the rules stand in.  A
\* report whose summary reads like an excuse counts as failed and is not stored, but what
\* it advises and analyses is kept.
Answered(report) ==
    LET failed == report.says # "report"
        done == Analysed(report, failed)
    IN  /\ reports' = IF failed THEN reports
                      ELSE Stored(Key(chk.held, chk.capital), [report EXCEPT !.analysis = done])
        /\ shown' = Completed(report, failed, done)

\* The cache is asked first; an entry of this key that is fresh ends the check.
Fresh(key) == key \in DOMAIN reports /\ wall - reports[key].at < ReportTTL

FromCache ==
    LET key == Key(chk.held, chk.capital)
    IN  /\ chk.pc = "asks" /\ Fresh(key)
        /\ LET done == FilledIn(reports[key].analysis)
           IN  /\ shown' = Completed(reports[key], FALSE, done)
               /\ reports' = [reports EXCEPT ![key].analysis = done]
        /\ chk' = NoCheck
        /\ UNCHANGED <<book, wall, checks>>

FromModel ==
    /\ chk.pc = "asks" /\ ~Fresh(Key(chk.held, chk.capital))
    /\ \E report \in Reports(chk.held) \cup Failures : Answered(report)
    /\ chk' = NoCheck
    /\ UNCHANGED <<book, wall, checks>>

BookChanges == /\ book' \in Books /\ book' # book
               /\ UNCHANGED <<reports, chk, shown, wall, checks>>
WallTicks == /\ wall < MaxClock /\ chk.pc = "idle" /\ wall' = wall + 1
             /\ UNCHANGED <<book, reports, chk, shown, checks>>

CheckNext ==
    \/ \E capital \in Capitals : Begins(capital)
    \/ \E x \in Samples : Gathered(x.ind, x.fac)
    \/ FromCache \/ FromModel
    \/ BookChanges \/ WallTicks

-----------------------------------------------------------------------------
(* Properties *)

\* What a check may claim: a report marked "full" carries the words of the model, written
\* for these very funds and this capital, to the yuan, less than five minutes ago; one
\* marked "fallback" warns of it, and words of the model in it come from an answer to this
\* very check that reads like an excuse, never from the cache and never from a call that
\* failed.  Every fund that is held is advised on, by the model or by a rule.
ReportIsWhatItSays ==
    /\ shown.quality = "full" =>
          /\ shown.source.says = "report"
          /\ DOMAIN shown.source.held = DOMAIN shown.held
          /\ WholeYuan(shown.source.capital) = WholeYuan(shown.capital)
          /\ shown.source.at = shown.at \/ shown.at - shown.source.at < ReportTTL
    /\ shown.quality = "fallback" =>
          /\ shown.source.says # "report"
          /\ shown.source.at = shown.at /\ shown.source.held = shown.held
          /\ shown.source.says = "nothing" => \A a \in shown.advice : a[2] = "rule"
          /\ \E w \in shown.warnings : w.what \in {"rules only", "no data"}
    /\ shown.quality \in {"full", "fallback"} =>
          \A f \in DOMAIN shown.held : \E a \in shown.advice : a[1] = f
=============================================================================
