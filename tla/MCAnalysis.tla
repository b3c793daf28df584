------------------------------ MODULE MCAnalysis ------------------------------
(***************************************************************************)
(* The strategy design, the chat sessions, the holdings, the strategy      *)
(* check and the hub on small instances, side by side: "part" says which   *)
(* of them moves in a behaviour.                                           *)
(***************************************************************************)
EXTENDS DesignFinish, PortfolioBook, PortfolioValue, StrategyCheck, HubRefresh, HubCaches,
        ChatSessions, TLC

CONSTANTS r1, r2, r3

VARIABLE part

holdVars == <<bookVars, checkVars, hubVars, cacheVars>>
vars == <<designVars, chatVars, holdVars, part>>

Asks(kind, topic, asks) == [kind |-> kind, topic |-> topic, asks |-> asks]
Script(a, b, c) == r1 :> a @@ r2 :> b @@ r3 :> c

\* Overlapping reports of two markets, an analysis that is followed up and named by
\* an advice, and an advice with two follow-ups.
MCScripts ==
    {Script(Asks("report", "A", TRUE), Asks("report", "A", TRUE), Asks("report", "HK", FALSE)),
     Script(Asks("symbol", "A", TRUE), Asks("symbol", "A", TRUE), Asks("advice", "A", TRUE)),
     Script(Asks("advice", "A", TRUE), Asks("advice", "A", TRUE), Asks("advice", "HK", TRUE))}

\* Requests that ask the same are numbered in the order in which they come in.
InOrder == \A q \in {<<r1, r2>>, <<r2, r3>>, <<r1, r3>>} :
              script[q[1]] = script[q[2]] /\ req[q[2]].pc # "new" => req[q[1]].pc # "new"

\* Nothing designed, in the parts without the design.
NoDesign ==
    /\ market = "none" /\ pool = "none" /\ turn = 0 /\ stage = "none" /\ rows = <<>>
    /\ segments = {} /\ used = {} /\ prevCore = {} /\ introduced = {} /\ strategies = <<>>
    /\ upset = "none" /\ design = 0 /\ at = "none" /\ cash = <<>> /\ inversions = {}

\* Each part takes one start of the others.
Init == /\ part \in {"design", "chat", "book", "check", "hub", "kline", "news", "mood"}
        /\ IF part = "design" THEN DesignInit ELSE NoDesign
        /\ ChatInit /\ (part # "chat" => script = CHOOSE q \in Scripts : TRUE)
        /\ CheckInit /\ (part # "check" => book = <<>>)
        /\ BookInit /\ HubInit /\ CachesInit

Turn(p) == part = p /\ UNCHANGED part

Next == \/ Turn("design") /\ DesignNext /\ UNCHANGED <<chatVars, holdVars>>
        \/ Turn("chat") /\ ChatNext /\ UNCHANGED <<designVars, holdVars>>
        \/ /\ UNCHANGED <<designVars, chatVars>>
           /\ \/ Turn("book") /\ BookNext /\ UNCHANGED <<checkVars, hubVars, cacheVars>>
              \/ Turn("check") /\ CheckNext /\ UNCHANGED <<bookVars, hubVars, cacheVars>>
              \/ Turn("hub") /\ HubNext /\ UNCHANGED <<bookVars, checkVars, cacheVars>>
              \/ /\ UNCHANGED <<bookVars, checkVars, hubVars>>
                 /\ \/ Turn("kline") /\ (KlineNext \/ CachesRestart)
                    \/ Turn("news") /\ (NewsNext \/ CachesRestart)
                    \/ Turn("mood") /\ (MoodNext \/ MomentumNext \/ CachesRestart)

Spec == Init /\ [][Next]_vars

-----------------------------------------------------------------------------
\* Fourteen instruments, one per role the engine tells apart: the four anchors
\* and a rival of one, growth funds of the core, two substitutes in electronics and
\* one next to them, a twin of STAR50, a dividend fund and one without any trait.
Fund(base, industry, index, flags) ==
    [base |-> base, industry |-> industry, index |-> index, segment |-> index,
     family |-> IF "twin" \in flags THEN "chips" ELSE "none",
     wide |-> "wide" \in flags, large |-> "large" \in flags, growth |-> "growth" \in flags,
     tech |-> "tech" \in flags, dividend |-> "dividend" \in flags,
     risky |-> "risky" \in flags, safe |-> "safe" \in flags]

MCInfo ==
    [HS300    |-> Fund("core", "broad", "hs300", {"wide", "large"}),
     A500     |-> Fund("core", "broad", "a500", {"wide", "large"}),
     A500B    |-> Fund("core", "broad", "a500", {"wide", "large"}),
     SSE50    |-> Fund("core", "broad", "sse50", {"wide", "large"}),
     CHINEXT  |-> Fund("core", "broad", "chinext", {"wide", "growth", "risky"}),
     STAR50   |-> Fund("core", "broad", "star50", {"wide", "growth", "tech", "risky"}),
     DIVIDEND |-> Fund("satellite", "other", "dividend", {"dividend", "safe"}),
     CHIP     |-> Fund("satellite", "electronics", "chip", {"tech", "twin", "risky"}),
     SEMI     |-> Fund("satellite", "electronics", "semi", {"tech", "twin", "risky"}),
     STAR50B  |-> Fund("core", "broad", "star50", {"wide", "growth", "tech", "risky"}),
     TELECOM  |-> Fund("satellite", "electronics", "telecom", {"risky"}),
     PHARMA   |-> Fund("satellite", "other", "pharma", {}),
     GOLD     |-> Fund("defense", "goods", "gold", {"safe"}),
     BOND     |-> Fund("defense", "other", "bond", {"safe"})]

MCInstruments == DOMAIN MCInfo
MCMaxPerLayer == [core |-> 4, satellite |-> 4, defense |-> 2]

Scan1 == <<"CHIP", "HS300", "CHINEXT", "SEMI", "A500B", "GOLD", "PHARMA", "SSE50", "STAR50",
           "DIVIDEND", "BOND", "TELECOM">>
Scan2 == <<"STAR50", "A500", "PHARMA", "CHINEXT", "A500B", "BOND", "DIVIDEND", "SSE50", "GOLD">>
Scan3 == <<"TELECOM", "HS300", "SSE50", "CHIP", "STAR50B", "GOLD">>
Scan4 == <<"GOLD", "BOND">>

Favour(up, down) ==
    [s \in MCInstruments |-> IF s \in up THEN 12 ELSE IF s \in down THEN -12 ELSE 0]
Scale == [s \in MCInstruments |-> IF s = "A500B" THEN 3 ELSE 2]

MCMarkets ==
    [regime: Regimes, scan: {Scan1, Scan2, Scan3, Scan4}, scale: {Scale},
     score: {Favour({"CHIP", "TELECOM", "STAR50"}, {"PHARMA"}),
             Favour({"DIVIDEND", "GOLD", "PHARMA"}, {"CHINEXT", "STAR50", "CHIP"})},
     valued: BOOLEAN, strong: {{"CHIP"}}]

Calm == [stale |-> {}, crashed |-> {}, fallen |-> {}, unquoted |-> {}, alike |-> {},
         matrix |-> FALSE, coarse |-> FALSE]
MCUpsets ==
    {Calm,
     [Calm EXCEPT !.stale = {"HS300", "CHIP"}, !.fallen = {"GOLD"}, !.coarse = TRUE],
     [Calm EXCEPT !.crashed = {"CHINEXT", "GOLD"}, !.unquoted = {"SSE50", "A500"}],
     [Calm EXCEPT !.matrix = TRUE,
                  !.alike = {{"CHIP", "SEMI"}, {"HS300", "SSE50"}, {"TELECOM", "STAR50"}}]}

\* The budgets of the layers make up the whole in every regime (engine/budgets.py).
ASSUME BudgetsAlwaysClose == \A r \in Regimes : BudgetsClose(r)

-----------------------------------------------------------------------------
\* Small holdings, small checks and a small hub. The rules and the values are
\* pure; they are looked at over bounded inputs, see the assumptions.

Line(s, t, sh, ok) == [sym |-> s, type |-> t, shares |-> sh, cost |-> Frac(2, 1), ok |-> ok]
MCDeltas == {1, -1}
MCFiles == {<<Line("s1", "on", 1, TRUE), Line("s2", "on", -1, TRUE)>>,
            <<Line("s2", "off", 1, FALSE), Line("s1", "off", 1, TRUE), Line("s1", "on", 1, TRUE)>>}

\* Thousandths of the portfolio; the data of all funds, of none, of one each.
MCBooks == {<<>>, "f1" :> 100, "f1" :> 300 @@ "f2" :> 100}
Found2(x, y) == "f1" :> x @@ "f2" :> y
MCSamples == {[ind |-> Found2("up", "up"), fac |-> Found2("up", "up")],
              [ind |-> Found2("missing", "missing"), fac |-> Found2("missing", "missing")],
              [ind |-> Found2("down", "up"), fac |-> Found2("down", "missing")]}

-----------------------------------------------------------------------------
\* Every branch of the indicators, closes of three and of nine days, components with
\* and without data.
Indicators == [rsi: {25, 35, 50, 65, 75, 85}, dif: {-1, 1}, dea: {-2, 0, 2}, ma: {-2, 0, 2},
               k: {10, 50, 90}, d: {20, 80}, j: {30, 80}, narrow: BOOLEAN,
               td: {[buy |-> b, sell |-> 0] : b \in {0, 7, 9}} \cup {[buy |-> 0, sell |-> 9]}]
Readable == [Components -> {-300, -60, 0, 60, 300}]
Weights == {0, 40, 100, 240, 280, 300, 500}

ASSUME SignalsHold == \A ind \in Indicators : OverboughtIsNoPurchase(ind)
ASSUME CountsHold == \A close \in [1 .. 9 -> 1 .. 2] \cup [1 .. 3 -> 1 .. 2] : CountsExclude(close)
ASSUME DecisionsHold ==
    \A have \in SUBSET Components : \A val \in Readable :
       (\A c \in Components \ have : val[c] = 0) => DecisionNotDiluted(have, val)
ASSUME AdviceHolds ==
    \A current, target \in Weights : \A score \in {-60, 0, 60} : \A sig \in {"buy", "sell", "hold"} :
       \A bearish \in BOOLEAN : AdviceKeepsDirection(current, target, score, sig, bearish)
ASSUME WarningsHold ==
    \A w \in SUBSET {Warning("heavy", "f1"), Warning("concentrated", Portfolio)} :
       \A llmFailed, noData \in BOOLEAN : FailureIsSaid(w, llmFailed, noData)

\* One or two holdings of the kinds the sums tell apart.
Holding(s, t, tracked, cost, shares) ==
    [sym |-> s, market |-> IF s = "x" THEN "fund" ELSE "A", type |-> t, tracked |-> tracked,
     weight |-> 30, cost |-> cost, shares |-> shares]
Kinds == {Holding("a", "on_exchange", NoIndex, 2, 10), Holding("a", "on_exchange", NoIndex, 2, 0),
          Holding("a", "on_exchange", NoIndex, -1, 10), Holding("x", "off_exchange", "i", 2, 10),
          Holding("x", "off_exchange", "i", 3, 0), Holding("x", "off_exchange", NoIndex, 0, 0),
          Holding("x", "off_exchange", "b", -1, 0)}
Quotes == {NoQuote, <<3, 5>>}
QuoteMaps == [{"a", "x", "i"} -> Quotes]
Feed(a, i, b) == [A |-> "a" :> a @@ "b" :> b, HK |-> <<>>, US |-> <<>>, index |-> "i" :> i,
                  fund |-> <<>>, nav |-> "b" :> b]
Feeds == {Feed(a, i, b) : a, i, b \in Quotes}

Pairs == {pair \in Kinds \X Kinds : pair[1].sym # pair[2].sym}

ASSUME ValuesHold ==
    \A hs \in Pairs : \A m \in QuoteMaps :
       SummaryAddsUp(hs, m, 100) /\ MissingIsNotZero(hs, m, 100)
ASSUME QuotesHold ==
    \A hs \in Pairs : \A less, more \in Feeds : MoreAnswersMoreQuotes(hs, less, more, {"b"})
===============================================================================
