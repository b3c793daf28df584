----------------------------- MODULE DesignFinish -----------------------------
(***************************************************************************)
(* What generate_enhanced_design (services/strategy_design.py) does to the *)
(* strategies of allocate: the risk controls of engine/risk_controls.py,   *)
(* the correlation and substitute passes of the engine, the rows without a *)
(* quote, the cash row, coarse rounding, the final layer budgets and the   *)
(* check across the profiles.  Each strategy goes through all passes       *)
(* before the next one; the last two actions work on all of them.          *)
(***************************************************************************)
EXTENDS AllocationEngine

CONSTANT Upsets   \* what the passes find in the data of the day, see UpsetRecord

\* No price and no return; a month below -40 %; a defense instrument that fell; no
\* change of the day; pairs with r >= 0.9; is there a correlation matrix; is the
\* data precision coarse.
UpsetRecord ==
    [stale: SUBSET Instruments, crashed: SUBSET Instruments, fallen: SUBSET Instruments,
     unquoted: SUBSET Instruments, alike: SUBSET SUBSET Instruments,
     matrix: BOOLEAN, coarse: BOOLEAN]

\* The anchors are funds of broad indices, gold and bonds.
ASSUME FinishAssumption ==
    Upsets \subseteq UpsetRecord /\ \A c \in MANDATORY_CODES : ~Info[c].dividend

VARIABLES upset,
          design,     \* the strategy in work
          at,         \* its next pass
          cash,       \* the cash row of each strategy, 0 if there is none
          inversions  \* structure_warnings of the check across the profiles

finishVars == <<upset, design, at, cash, inversions>>
designVars == <<engineVars, finishVars>>

BEARISH_REGIMES == {"bear", "correction", "panic"}
LayerBudget(d) == dynamic_layer_budget(Profiles[d], market.regime)

All(q) == Weight(q, DOMAIN q)

(* Risk controls ---------------------------------------------------------- *)
\* The rows I go, what they held is divided evenly among the others.
Evicted(q, I) ==
    LET kept == Pick(q, DOMAIN q \ I)
    IN  IF Weight(q, I) = 0 THEN kept
        ELSE Raised(kept, DOMAIN kept, Share(Weight(q, I), 1, Len(kept)))

\* Mutant: anchors without data go, too.
RemoveStaleAnchors(q) ==
    IF \A i \in DOMAIN q : q[i].sym \in upset.stale THEN q
    ELSE Evicted(q, {i \in DOMAIN q : q[i].sym \in upset.stale})

\* Rows without data go, anchors excepted; when nothing has data all stay.
remove_stale_candidates(q) ==
    IF \A i \in DOMAIN q : q[i].sym \in upset.stale THEN q
    ELSE Evicted(q, {i \in Free(q) : q[i].sym \in upset.stale})

filter_extreme_drawdown(q) == Evicted(q, {i \in DOMAIN q : q[i].sym \in upset.crashed})

check_defense_effectiveness(q) ==
    Scaled(q, {i \in In(q, "defense") : q[i].sym \in upset.fallen}, 1, 2)

\* Defense rows below 2 % are merged into the largest one.
_consolidate_minnows(q) ==
    LET D == In(q, "defense")
        big == CHOOSE i \in D : \A j \in D : q[i].w > q[j].w \/ (q[i].w = q[j].w /\ i <= j)
        minnows == {i \in D : q[i].w < 200} \ {big}
    IN  IF Cardinality(D) < 2 \/ Weight(q, minnows) = 0 THEN q
        ELSE Pick(Raised(q, {big}, Weight(q, minnows)), DOMAIN q \ minnows)

ScaledDown(q, I, cap) ==
    LET total == Weight(q, I)
    IN  IF total > cap THEN Scaled(q, I, cap, total) ELSE q

Capped(q) ==
    LET c == Clipped(q, DOMAIN q)
    IN  ScaledDown(c, {i \in DOMAIN c : Info[c[i].sym].dividend}, 1500)

\* A dividend satellite moves into the core while that has less than four rows, where it
\* is kept; it goes otherwise.  (The `continue` that drops it is in the else branch, and
\* test_dividend_layer_fix.py asks for both: one moved at lines 49-61, one gone at 63-75.)
DividendsInCore(q) ==
    LET misplaced == Ascending({i \in In(q, "satellite") : Info[q[i].sym].dividend})
        room == AtLeast(0, 4 - Cardinality(In(q, "core")))
        moved == {misplaced[k] : k \in 1..AtMost(room, Len(misplaced))}
        gone == Elems(misplaced) \ moved
    IN  Pick([i \in DOMAIN q |-> IF i \in moved THEN Row(q[i].sym, "core", q[i].w, q[i].score)
                                ELSE q[i]],
             DOMAIN q \ gone)

GrowthIn(q) == In(q, "core") \cap Growth(q)

\* In a bearish market growth funds with a negative score keep 1 %; the defense
\* takes up what they release.
apply_core_bear_growth_trim(q) ==
    LET trimmed == {i \in GrowthIn(q) \cap Free(q) : q[i].score < 0}
        released == Weight(q, trimmed) - MIN_WEIGHT * Cardinality(trimmed)
        cut == Reweighted(q, trimmed, LAMBDA w : MIN_WEIGHT)
    IN  IF market.regime \notin BEARISH_REGIMES THEN q
        ELSE IF released <= 0 THEN cut ELSE Spread(cut, In(cut, "defense"), released)

\* The industry of a row; anchors have none and count by layer.
Sector(r) == IF Anchor(r) THEN r.layer
             ELSE IF Info[r.sym].industry = "other" THEN Info[r.sym].segment
             ELSE Info[r.sym].industry

\* A concentration of 0.4 or more: the largest sector is cut to the root of it.
Dispersed(q) ==
    LET sectors == {Sector(q[i]) : i \in DOMAIN q}
        of(s) == {i \in DOMAIN q : Sector(q[i]) = s}
        hhi == SumOf([s \in sectors |-> Weight(q, of(s)) * Weight(q, of(s))])
        top == CHOOSE s \in sectors : \A t \in sectors : Weight(q, of(s)) >= Weight(q, of(t))
    IN  IF hhi >= 40000000 THEN ScaledDown(q, of(top), 6325) ELSE q

\* The layers of a plan, anchors included, are scaled to their budgets; then the
\* sectors; then the whole.
WithinBudgets(q, b) ==
    LET core == ScaledDown(q, In(q, "core"), b.core)
        sat == ScaledDown(core, In(core, "satellite"), b.satellite)
        def == ScaledDown(sat, In(sat, "defense"), b.defense)
    IN  ScaledTo(Dispersed(def), Whole)

(* Correlation, substitutes, quotes --------------------------------------- *)
Alike(q, i, j) == {q[i].sym, q[j].sym} \in upset.alike
PairsOf(q) == {p \in (DOMAIN q) \X (DOMAIN q) : p[1] < p[2] /\ Alike(q, p[1], p[2])}

\* Mutant: the lower row of every pair is brought to half of the cap only.
CutToHalf(q) ==
    LET lower == {IF q[p[1]].score <= q[p[2]].score THEN p[1] ELSE p[2] : p \in PairsOf(q)}
    IN  Reweighted(q, lower \cap Free(q), LAMBDA w : AtMost(w, 1250))

\* A pair that moves together holds at most 25 %: the row with the lower score is
\* cut, then the other one; anchors are not cut.  What was cut goes to rows that
\* are no part of a cut pair, and at the end every anchor has its 5 %.
CutPair(st, p) ==
    LET q == st.rows
        lowFirst == IF Anchor(q[p[1]]) THEN FALSE
                    ELSE Anchor(q[p[2]]) \/ q[p[1]].score <= q[p[2]].score
        lo == IF lowFirst THEN p[1] ELSE p[2]
        hi == IF lowFirst THEN p[2] ELSE p[1]
        target == AtLeast(MIN_WEIGHT, 2500 - q[hi].w)
        over == target + q[hi].w - 2500
        both == target = MIN_WEIGHT /\ ~Anchor(q[hi]) /\ over > 0
        low == Reweighted(q, {lo}, LAMBDA w : target)
    IN  IF Anchor(q[lo]) \/ q[lo].w + q[hi].w <= 2500 \/ q[lo].w <= target THEN st
        ELSE [rows |-> IF both THEN Reweighted(low, {hi}, LAMBDA w : AtLeast(MIN_WEIGHT, w - over))
                       ELSE low,
              cut |-> st.cut \cup (IF both THEN {lo, hi} ELSE {lo}),
              sum |-> st.sum + q[lo].w - target + (IF both THEN over ELSE 0)]

PairCuts(q, order) ==
    LET cut[k \in 0..Len(order)] ==
            IF k = 0 THEN [rows |-> q, cut |-> {}, sum |-> 0] ELSE CutPair(cut[k - 1], order[k])
    IN  cut

enforce_max_correlation(q) ==
    LET order == Sorted(PairsOf(q), LAMBDA p, r : p[1] < r[1] \/ (p[1] = r[1] /\ p[2] < r[2]))
        end == PairCuts(q, order)[Len(order)]
        partners == {i \in DOMAIN q : \E j \in end.cut : Alike(q, i, j)}
        others == DOMAIN q \ (end.cut \cup partners)
    IN  Reweighted(IF end.sum = 0 THEN q ELSE Spread(end.rows, others, end.sum), DOMAIN q \ Free(q),
                   LAMBDA w : AtLeast(w, MANDATORY_FLOOR))

\* Substitutes of one family become one row, the heaviest; anchors stay.
_merge_substitute_family(q) ==
    LET group(i) == {j \in DOMAIN q : Info[q[j].sym].family = Info[q[i].sym].family
                                      /\ Info[q[i].sym].family # "none"}
        heaviest(i) == i \in group(i) /\ \A j \in group(i) : q[i].w > q[j].w
                                                   \/ (q[i].w = q[j].w /\ i <= j)
        keeps(i) == heaviest(i) /\ \E j \in group(i) : ~Anchor(q[j])
        gone(i) == ~Anchor(q[i]) /\ group(i) # {} /\ ~heaviest(i)
    IN  Pick([i \in DOMAIN q |->
                 IF keeps(i) THEN Weighing(q[i], q[i].w + Weight(q, {j \in group(i) : gone(j)}))
                 ELSE q[i]],
             {i \in DOMAIN q : ~gone(i)})

\* P1-5: when at least half of the core has a quote, the core rows without one
\* lose their weight, anchors excepted.
Unquoted(q) ==
    LET core == In(q, "core")
        blind == {i \in core : q[i].sym \in upset.unquoted}
    IN  IF 2 * Cardinality(core \ blind) >= Cardinality(core)
        THEN Reweighted(q, blind \cap Free(q), LAMBDA w : 0) ELSE q

\* Weights in steps of 5 %, halves to the even step.
Coarse(w) ==
    LET k == w \div 500
        r == w % 500
    IN  500 * (IF r < 250 THEN k ELSE IF r > 250 THEN k + 1 ELSE k + (k % 2))

_apply_precision_bucketing(q) == Reweighted(q, DOMAIN q, Coarse)

(* The actions ------------------------------------------------------------ *)
FinishPass(from, to, new) ==
    /\ stage = "allocated" /\ at = from
    /\ at' = to
    /\ strategies' = [strategies EXCEPT ![design] = new]
    /\ UNCHANGED <<market, pool, turn, stage, rows, segments, used, prevCore, introduced, upset>>

Same == UNCHANGED <<design, cash, inversions>>
Plan == strategies[design]

\* The data the passes read is known when the engine is done.
MeetMarket ==
    /\ stage = "allocated" /\ at = "wait"
    /\ upset' \in Upsets
    /\ at' = "stale"
    /\ UNCHANGED <<engineVars, design, cash, inversions>>

RemoveStale == FinishPass("stale", "drawdown", remove_stale_candidates(Plan)) /\ Same
FilterDrawdown == FinishPass("drawdown", "defense", filter_extreme_drawdown(Plan)) /\ Same
CheckDefense ==
    FinishPass("defense", "caps", _consolidate_minnows(check_defense_effectiveness(Plan))) /\ Same
CapRows == FinishPass("caps", "growth", DividendsInCore(Capped(Plan))) /\ Same
CapCoreGrowth ==
    /\ FinishPass("growth", "layers",
           apply_core_bear_growth_trim(
               ScaledDown(Plan, GrowthIn(Plan), (LayerBudget(design).core * 40) \div 100)))
    /\ Same
ScaleLayers == FinishPass("layers", "pairs", WithinBudgets(Plan, LayerBudget(design))) /\ Same
LimitPairs ==
    FinishPass("pairs", "merge", IF upset.matrix THEN enforce_max_correlation(Plan) ELSE Plan) /\ Same
MergeSubstitutes ==
    FinishPass("merge", "quotes",
               IF Len(Plan) < 2 THEN Plan ELSE _merge_substitute_family(Plan)) /\ Same
DropUnquoted == FinishPass("quotes", "cash", Unquoted(Plan)) /\ Same

\* The cash row, then the rounding: the next strategy, or the end of the loop.
AddCash ==
    /\ FinishPass("cash", IF design = 3 THEN "enforce" ELSE "stale",
                  IF upset.coarse THEN _apply_precision_bucketing(Plan) ELSE Plan)
    /\ cash' = Append(cash, AtLeast(0, Whole - All(Plan)))
    /\ design' = IF design = 3 THEN 3 ELSE design + 1
    /\ UNCHANGED inversions

EnforceBudgets ==
    /\ stage = "allocated" /\ at = "enforce"
    /\ at' = "close"
    /\ strategies' = [d \in 1..3 |-> _enforce_layer_budget_final(strategies[d], LayerBudget(d))]
    /\ UNCHANGED <<market, pool, turn, stage, rows, segments, used, prevCore, introduced,
                   upset, design, cash, inversions>>

\* _validate_cross_profile_invariants, of plans in the order of the profiles.
Inversions(plans) ==
    LET n(d, l) == Cardinality(In(plans[d], l))
        inv3 == \/ ~(n(1, "satellite") <= n(2, "satellite") /\ n(2, "satellite") <= n(3, "satellite"))
                \/ ~(n(1, "defense") >= n(2, "defense") /\ n(2, "defense") >= n(3, "defense"))
        inv5 == ~(Len(plans[1]) <= Len(plans[2]) /\ Len(plans[2]) <= Len(plans[3]))
        idle == Whole - All(plans[3]) > 1000
        heavy == Weight(plans[3], In(plans[3], "defense")) > 500
    IN  (IF inv3 THEN {"inv3"} ELSE {}) \cup (IF inv5 THEN {"inv5"} ELSE {})
        \cup (IF idle THEN {"cash_over"} ELSE {}) \cup (IF heavy THEN {"defense_over"} ELSE {})

\* Mutant: the cash rows are not settled again.
CloseUnsettled ==
    /\ stage = "allocated" /\ at = "close"
    /\ at' = "closed"
    /\ inversions' = Inversions([d \in 1..3 |-> <<>>])
    /\ UNCHANGED <<engineVars, upset, design, cash>>

\* _reconcile_after_enforce, then the check across the profiles.  It reads the key
\* "allocations", which was popped from every strategy and put back as "etfs".
Close ==
    /\ stage = "allocated" /\ at = "close"
    /\ at' = "closed"
    /\ cash' = [d \in 1..3 |-> AtLeast(0, Whole - All(strategies[d]))]
    /\ inversions' = Inversions([d \in 1..3 |-> <<>>])
    /\ UNCHANGED <<engineVars, upset, design>>

DesignInit ==
    /\ EngineInit
    /\ upset = CHOOSE u \in Upsets : TRUE
    /\ design = 1 /\ at = "wait" /\ cash = <<>> /\ inversions = {}

DesignNext ==
    \/ EngineNext /\ UNCHANGED finishVars
    \/ MeetMarket
    \/ RemoveStale \/ FilterDrawdown \/ CheckDefense \/ CapRows \/ CapCoreGrowth
    \/ ScaleLayers \/ LimitPairs \/ MergeSubstitutes \/ DropUnquoted
    \/ AddCash \/ EnforceBudgets \/ Close

DesignSpec == DesignInit /\ [][DesignNext]_designVars
-----------------------------------------------------------------------------
(***************************************************************************)
(* What the finished designs promise.  Every weight is rounded on its own, *)
(* so sums may be off by Slack.                                            *)
(***************************************************************************)
Slack == 20

\* The rows of a finished strategy and its cash row make up the whole: fifteen
\* passes each take weight from some rows and hand it to others, rounding moves
\* it once more, and the last cash row settles what the budgets cut off
\* (generate_enhanced_design, _reconcile_after_enforce).
PlanAddsUp ==
    at = "closed" => \A d \in 1..3 :
        All(strategies[d]) + cash[d] \in (Whole - Slack)..(Whole + Slack)

\* A finished layer keeps to the budget of the regime, whatever the passes before
\* moved into it, unless its anchors alone exceed it (_enforce_layer_budget_final).
LayersWithinBudget ==
    at = "closed" => \A d \in 1..3 : \A l \in Layers :
        LET q == strategies[d]
        IN  Weight(q, In(q, l)) <= AtLeast(LayerBudget(d)[l], Weight(q, In(q, l) \ Free(q))) + Slack

\* A finished plan keeps to its whole and to its layers.
PlanFits == PlanAddsUp /\ LayersWithinBudget

\* No finished strategy holds two funds of one index, in whatever layers they came,
\* two anchors excepted (_dedup_same_index).
OneFundPerIndex ==
    \A d \in DOMAIN strategies : \A i, j \in DOMAIN strategies[d] :
        LET q == strategies[d]
        IN  i # j /\ Info[q[i].sym].index = Info[q[j].sym].index => Anchor(q[i]) /\ Anchor(q[j])

\* Once the engine is done an anchor leaves a plan only for a month below -40 % or,
\* cut in half and below 2 %, into the largest defense row: stale data, a merged
\* family, a dividend moved or a missing quote must not take one away
\* (remove_stale_candidates, _merge_substitute_family, P1-5).
Minnows(q) == {q[i].sym : i \in {j \in In(q, "defense") : q[j].w < 200}}
MayTake(q) ==
    IF at = "drawdown" THEN upset.crashed
    ELSE IF at = "defense" THEN Minnows(check_defense_effectiveness(q)) ELSE {}
AnchorsOutlivePasses ==
    [][stage = "allocated" => \A d \in 1..3 :
           (Symbols(strategies[d]) \cap MANDATORY_CODES) \ Symbols(strategies'[d])
               \subseteq MayTake(strategies[d])]_designVars

\* Two rows that move together hold at most 25 % when the design is finished,
\* although several passes run after the one that cut them (enforce_max_correlation).
PairsStayCapped ==
    at = "closed" /\ upset.matrix => \A d \in 1..3 : \A i, j \in DOMAIN strategies[d] :
        LET q == strategies[d]
        IN  i # j /\ Alike(q, i, j) => q[i].w + q[j].w <= 2500 + Slack

\* The warnings of a finished design are those its strategies deserve, as the comment
\* above the call of check_structure_reasonableness says.  It is not so.
InversionsReported == at = "closed" => inversions = Inversions(strategies)
=============================================================================
