--------------------------- MODULE AllocationEngine ---------------------------
(***************************************************************************)
(* allocate of engine/allocation_engine.py: three strategies built one     *)
(* after the other from one candidate pool, each by a chain of passes that *)
(* select, size, constrain and reconcile its rows.  One action is one      *)
(* pass.  Weights are in 1/10000, scores in tenths; the softmax            *)
(* exp(0.08 d) is replaced by its linear part, which orders and bounds the *)
(* weights in the same way.                                                *)
(***************************************************************************)
EXTENDS CandidatePool
LOCAL FinSets == INSTANCE FiniteSetsExt

CONSTANTS Markets,   \* what a run of the engine finds, see MarketRecord
          Gold,      \* 518880, the defense anchor of every profile
          Star50     \* 588000, put next to a concentration of technology

\* score and scale describe the instruments; valued: valuations or styles tell
\* them apart; strong: those of the strongest sectors of the day.
MarketRecord ==
    [regime: Regimes, scan: Seq(Instruments), scale: [Instruments -> Nat],
     score: [Instruments -> Int], valued: BOOLEAN, strong: SUBSET Instruments]

ASSUME EngineAssumption ==
    Markets \subseteq MarketRecord /\ Gold \in DefenseAnchors /\ Star50 \in Instruments

VARIABLES market, pool,
          turn,        \* the profile being built
          stage,       \* the next pass
          rows,        \* allocations of the strategy being built
          segments,    \* selected_segments
          used,        \* _used_core, _used_satellite, _used_defense
          prevCore,    \* _prev_core_used
          introduced,  \* history: the row U11 made for this strategy
          strategies   \* the finished strategies

engineVars == <<market, pool, turn, stage, rows, segments, used, prevCore,
                introduced, strategies>>

MIN_WEIGHT == 100
MAX_WEIGHT == 3000
MANDATORY_MIN_WEIGHT == 300
MANDATORY_FLOOR == 500

Profile == Profiles[turn]
Budget(l) == dynamic_layer_budget(Profile, market.regime)[l]
Count(l) == STRATEGY_META[Profile].count[l]

(* Rows ------------------------------------------------------------------- *)
Row(s, l, w, score) == [sym |-> s, layer |-> l, w |-> w, score |-> score]
Weighing(r, w) == Row(r.sym, r.layer, w, r.score)
Anchor(r) == r.sym \in MANDATORY_CODES

In(q, l) == {i \in DOMAIN q : q[i].layer = l}
Free(q) == {i \in DOMAIN q : ~Anchor(q[i])}
SumOf(f) == FinSets!MapThenSumSet(LAMBDA i : f[i], DOMAIN f)
Weight(q, I) == SumOf([i \in I |-> q[i].w])
Symbols(q) == {q[i].sym : i \in DOMAIN q}

\* x * part / whole, rounded.
Share(x, part, whole) == (2 * x * part + whole) \div (2 * whole)

Reweighted(q, I, new(_)) ==
    [i \in DOMAIN q |-> IF i \in I THEN Weighing(q[i], new(q[i].w)) ELSE q[i]]

Raised(q, I, x) == Reweighted(q, I, LAMBDA w : w + x)
Clipped(q, I) == Reweighted(q, I, LAMBDA w : AtMost(w, MAX_WEIGHT))
Scaled(q, I, part, whole) == Reweighted(q, I, LAMBDA w : Share(w, part, whole))

\* The amount is shared out over the rows I by their weights.
Spread(q, I, amount) ==
    LET total == Weight(q, I)
    IN  IF total = 0 THEN q ELSE Reweighted(q, I, LAMBDA w : w + Share(amount, w, total))

\* The amount is shared out by the room the rows have below MAX_WEIGHT; what does
\* not fit is left over.
WaterFilled(q, amount) ==
    LET room(w) == AtLeast(0, MAX_WEIGHT - w)
        total == SumOf([i \in DOMAIN q |-> room(q[i].w)])
    IN  IF total = 0 THEN q
        ELSE Reweighted(q, DOMAIN q, LAMBDA w : w + Share(AtMost(amount, total), room(w), total))

(* Selecting and sizing --------------------------------------------------- *)
\* The C2 correction, applied when valuations do not tell instruments apart.
C2(s, p) ==
    IF market.valued \/ p = "balanced" THEN 0
    ELSE IF p = "defensive" THEN IF Info[s].safe THEN 8 ELSE IF Info[s].risky THEN -15 ELSE 0
    ELSE IF s \in market.strong \/ Info[s].risky THEN 15 ELSE IF Info[s].safe THEN -3 ELSE 0

Composite(s, penalized) ==
    market.score[s] + C2(s, Profile) + (IF s \in penalized THEN -15 ELSE 0)

\* The positions of q with the best score of their concept, above the floor of the
\* satellites, by falling score.
ByScore(q, l, sc) ==
    LET same(i) == {j \in DOMAIN q : Info[q[j]].segment = Info[q[i]].segment}
        first(i) == CHOOSE j \in same(i) : \A k \in same(i) : j <= k
        best == {i \in DOMAIN q : \A j \in same(i) : sc[i] > sc[j] \/ (sc[i] = sc[j] /\ i <= j)}
        good == {i \in best : l = "satellite" => sc[i] > -20}
    IN  Sorted(good, LAMBDA i, j : sc[i] > sc[j] \/ (sc[i] = sc[j] /\ first(i) < first(j)))

Drafted(q, order, max, sc) ==
    [k \in 1..AtMost(max, Len(order)) |-> [sym |-> q[order[k]], score |-> sc[order[k]]]]

_select_draft(q, l, max, penalized) ==
    LET draft(sc) == Drafted(q, ByScore(q, l, sc), max, sc)
    IN  draft([i \in DOMAIN q |-> Composite(q[i], penalized)])

\* x[i] of the amount for each i, in proportion.
InProportion(x, amount) ==
    LET shared(total) == [i \in DOMAIN x |-> Share(amount, x[i], total)]
    IN  shared(SumOf(x))

_power_law_weights(scores, budget) ==
    LET rated(top) == [i \in DOMAIN scores |-> AtLeast(1, 1000 + 8 * (scores[i] - top))]
        floored(w) == [i \in DOMAIN w |-> AtLeast(MIN_WEIGHT, w[i])]
        capped(w) == [i \in DOMAIN w |-> AtMost(MAX_WEIGHT, w[i])]
        top == CHOOSE x \in Elems(scores) : \A y \in Elems(scores) : y <= x
    IN  capped(InProportion(floored(InProportion(rated(top), budget)), budget))

\* The best technology satellites, at most two, cut to what fits below the cap; the
\* rest of their weight goes to the others.
TwoBest(T, others, total, cap) ==
    LET kept(one, two) ==
            Spread(others, DOMAIN others, total - one - two)
            \o <<Weighing(T[1], one)>>
            \o (IF two > 0 THEN <<Weighing(T[2], two)>> ELSE <<>>)
        one == AtMost(T[1].w, cap)
    IN  kept(one, IF Len(T) > 1 THEN AtMost(T[2].w, cap - one) ELSE 0)

\* Technology takes 40 % or 50 % of the satellites' budget at most.
_constrain_satellite_tech_quota(q, budget) ==
    LET cap == (budget * (IF Profile = "defensive" THEN 40 ELSE 50)) \div 100
        settled(tech) ==
            IF tech = {} \/ (Weight(q, tech) <= cap /\ Cardinality(tech) <= 2) THEN q
            ELSE TwoBest(Pick(q, tech), Pick(q, DOMAIN q \ tech), Weight(q, tech), cap)
    IN  settled({i \in DOMAIN q : Info[q[i].sym].tech})

\* The draft shares the budget by its scores.
Sized(draft, l, budget) ==
    LET row(w) == [i \in DOMAIN draft |-> Row(draft[i].sym, l, w[i], draft[i].score)]
        all(rs) == IF l = "satellite" THEN _constrain_satellite_tech_quota(rs, budget) ELSE rs
    IN  all(row(_power_law_weights([i \in DOMAIN draft |-> draft[i].score], budget)))

\* The anchors among the candidates take 3 % each, the others share what is left.
_select_and_weight(q, budget, l, max, penalized, anchors) ==
    LET mandatory == Among(q, anchors)
        fixed == [i \in DOMAIN mandatory |->
                     Row(mandatory[i], l, MANDATORY_MIN_WEIGHT, market.score[mandatory[i]])]
        with(draft, left) ==
            IF left <= 0 \/ draft = <<>> THEN <<>> ELSE Sized(draft, l, left)
    IN  IF q = <<>> \/ budget <= 0 THEN <<>>
        ELSE fixed \o with(_select_draft(Among(q, Instruments \ anchors), l, max, penalized),
                           budget - MANDATORY_MIN_WEIGHT * Len(mandatory))

\* The candidates of a segment nobody took before, one per segment.
FirstOfSegment(q) ==
    Pick(q, {i \in DOMAIN q : /\ Info[q[i]].segment \notin segments
                              /\ \A j \in 1..(i - 1) : Info[q[j]].segment # Info[q[i]].segment})

(* The passes over the core ----------------------------------------------- *)
\* The first of q with the greatest raw score.
Best(q) ==
    CHOOSE s \in Elems(q) : \E i \in DOMAIN q : q[i] = s /\ \A j \in DOMAIN q :
        market.score[s] > market.score[q[j]] \/ (market.score[s] = market.score[q[j]] /\ i <= j)

\* Core candidates earlier strategies hold are left out when two others remain;
\* otherwise the best of those left out comes back.
CorePool ==
    LET all == FirstOfSegment(pool.core)
        fresh == Among(all, MANDATORY_CODES \cup (Instruments \ prevCore))
        rest == Among(all, Instruments \ Elems(fresh))
    IN  IF \/ prevCore = {} \/ rest = <<>>
           \/ Cardinality(Elems(fresh) \ MANDATORY_CODES) >= 2
        THEN fresh ELSE Append(fresh, Best(rest))

\* At most four large wide-basis funds, anchors included.
_constrain_core_wide_basis_cap(q) ==
    LET large == {i \in DOMAIN q : Info[q[i].sym].large}
        spare == large \cap Free(q)
        order == Sorted(spare, LAMBDA i, j :
                     q[i].score > q[j].score \/ (q[i].score = q[j].score /\ i < j))
        keep == AtLeast(0, 4 - Cardinality(large \ spare))
        excess == {order[k] : k \in (keep + 1)..Len(order)}
        kept == Pick(q, DOMAIN q \ excess)
    IN  IF Cardinality(large) <= 4 THEN q ELSE Spread(kept, DOMAIN kept, Weight(q, excess))

_reconcile_core_budget_topup(q, budget) ==
    LET now == Weight(q, DOMAIN q)
    IN  IF 0 < now /\ now < budget THEN WaterFilled(q, budget - now) ELSE q

\* Growth funds go, the lowest score first, while their weight as counted at the
\* start exceeds the cap and more than three rows are left; the others, growth
\* funds among them, take the weight up.
Growth(q) == {i \in DOMAIN q : Info[q[i].sym].growth}
OneLess(st, cap) ==
    LET q == st.rows
        low == CHOOSE i \in Growth(q) : \A j \in Growth(q) :
                   q[i].score < q[j].score \/ (q[i].score = q[j].score /\ i <= j)
    IN  IF Growth(q) = {} \/ st.growth <= cap \/ Len(q) <= 3 THEN st
        ELSE [rows |-> WaterFilled(Pick(q, DOMAIN q \ {low}), q[low].w),
              growth |-> st.growth - q[low].w]

GrowthRounds(q, cap) ==
    LET round[k \in 0..Len(q)] ==
            IF k = 0 THEN [rows |-> q, growth |-> Weight(q, Growth(q))]
            ELSE OneLess(round[k - 1], cap)
    IN  round

_cap_core_growth_wide_basis(q) ==
    LET cap == (Weight(q, DOMAIN q) * STRATEGY_META[Profile].growthCap) \div 100
    IN  GrowthRounds(q, cap)[Len(q)].rows

Pass(from, to, new) ==
    /\ stage = from /\ stage' = to
    /\ rows' = new
    /\ UNCHANGED <<market, pool, turn, strategies>>

Kept == UNCHANGED <<segments, used, prevCore, introduced>>

SelectCore ==
    /\ Pass("core", "wide", _select_and_weight(CorePool, Budget("core"), "core",
               AtLeast(1, Count("core") - Cardinality(Elems(pool.core) \cap MANDATORY_CODES)),
               used.core, CoreAnchors))
    /\ segments' = segments \cup {Info[s].segment : s \in Elems(pool.core)}
    /\ UNCHANGED <<used, prevCore, introduced>>

CapWideBasis == Pass("wide", "topup", _constrain_core_wide_basis_cap(rows)) /\ Kept

TopUpCore == Pass("topup", "growth", _reconcile_core_budget_topup(rows, Budget("core"))) /\ Kept

CapGrowth ==
    /\ Pass("growth", "diversify", _cap_core_growth_wide_basis(rows))
    /\ prevCore' = prevCore \cup (Symbols(rows') \ MANDATORY_CODES)
    /\ UNCHANGED <<segments, used, introduced>>

\* U11: a core of funds that are all used already makes room for a new one.  The
\* row is put on core_alloc after its rows went into allocations, so only the
\* room is made.
Diversify ==
    LET unused == Among(pool.core, {s \in Instruments \ used.core : ~Info[s].tech})
        applies == /\ used.core # {} /\ rows # <<>>
                   /\ Symbols(rows) \subseteq used.core /\ unused # <<>>
        cut == AtMost(500 \div Len(rows), 300)
    IN  /\ Pass("diversify", "satellite",
                IF applies
                THEN Reweighted(rows, DOMAIN rows, LAMBDA w : AtLeast(w - cut, MIN_WEIGHT))
                ELSE rows)
        /\ introduced' = IF applies THEN {Best(unused)} ELSE {}
        /\ UNCHANGED <<segments, used, prevCore>>

(* The passes over the satellites and the defense ------------------------- *)
\* _filter_satellite_by_profile: only the order of the candidates depends on the
\* profile; wide-basis funds are left out afterwards.
_filter_satellite_by_profile ==
    LET q == pool.satellite
        better(i, j) == LET a == market.score[q[i]]
                            b == market.score[q[j]]
                        IN  IF a = b THEN i < j ELSE (a < b) = (Profile = "defensive")
        order == Sorted(DOMAIN q, better)
    IN  Among([k \in DOMAIN order |-> q[order[k]]], {s \in Instruments : ~Info[s].wide})

\* R131: a layer above its budget is scaled down to it.
ScaledTo(q, budget) ==
    LET total == Weight(q, DOMAIN q)
    IN  IF total > budget THEN Scaled(q, DOMAIN q, budget, total) ELSE q

SelectSatellites ==
    LET q == FirstOfSegment(_filter_satellite_by_profile)
    IN  /\ Pass("satellite", "backup", rows \o
               ScaledTo(_select_and_weight(q, Budget("satellite"), "satellite",
                            Count("satellite"), used.satellite, {}), Budget("satellite")))
        /\ segments' = segments \cup {Info[s].segment : s \in Elems(q)}
        /\ UNCHANGED <<used, prevCore, introduced>>

\* Fewer than four satellites: core candidates that are no wide-basis funds fill
\* up what is left of the budget.
BackupSatellites ==
    LET sat == In(rows, "satellite")
        need == 4 - Cardinality(sat)
        spare == Among(pool.core, {s \in Instruments \ Symbols(rows) :
                     ~Info[s].wide /\ ~(Profile = "defensive" /\ Info[s].tech)})
        order == Sorted(DOMAIN spare, LAMBDA i, j :
                     \/ market.score[spare[i]] > market.score[spare[j]]
                     \/ market.score[spare[i]] = market.score[spare[j]] /\ i < j)
        backup == [k \in 1..AtMost(need, Len(order)) |-> spare[order[k]]]
        left == AtLeast(0, Budget("satellite") - Weight(rows, sat))
    IN  /\ Pass("backup", "tech",
               IF need > 0 /\ spare # <<>> /\ left > 0
               THEN rows \o ScaledTo(_select_and_weight(backup, left, "satellite", need,
                                                        used.satellite, {}), left)
               ELSE rows)
        /\ Kept

\* More than 60 % of the satellites in electronics: a cut for the STAR 50 fund.
InjectStar50 ==
    LET sat == In(rows, "satellite")
        b == Budget("satellite")
        tech == {i \in sat : Info[rows[i].sym].industry = "electronics"}
        w == AtMost(400, (b * 15) \div 100)
        applies == Weight(rows, tech) * 10 > b * 6 /\ Star50 \notin Symbols(rows)
    IN  /\ Pass("tech", "defense",
               IF applies
               THEN Append(Reweighted(rows, sat, LAMBDA x :
                               AtLeast(x - w \div Cardinality(sat), MIN_WEIGHT)),
                           Row(Star50, "satellite", w, 0))
               ELSE rows)
        /\ Kept

_defense_anchors_for(p) == IF STRATEGY_META[p].count.defense >= 2 THEN DefenseAnchors ELSE {Gold}

SelectDefense ==
    LET q == FirstOfSegment(pool.defense)
        anchors == _defense_anchors_for(Profile)
    IN  /\ Pass("defense", "dedup", rows \o
               _select_and_weight(q, Budget("defense"), "defense",
                   AtLeast(0, Count("defense") - Cardinality(anchors)), used.defense, anchors))
        /\ segments' = segments \cup {Info[s].segment : s \in Elems(q)}
        /\ UNCHANGED <<used, prevCore, introduced>>

(* The passes over all rows ----------------------------------------------- *)
\* Mutant: only neighbours are compared.
DedupNeighbours(q) ==
    Pick(q, {i \in DOMAIN q : i > 1 => Info[q[i].sym].index # Info[q[i - 1].sym].index})

\* One row per index: the anchors, or else the best; what goes is shared out in
\* its layer, one removed row after the other.
SameIndex(q, i) == {j \in DOMAIN q : Info[q[j].sym].index = Info[q[i].sym].index}
Stays(q, i) ==
    IF \E j \in SameIndex(q, i) : Anchor(q[j]) THEN Anchor(q[i])
    ELSE \A j \in SameIndex(q, i) :
             q[i].score > q[j].score \/ (q[i].score = q[j].score /\ i <= j)

ShareOuts(kept, removed) ==
    LET out[k \in 0..Len(removed)] ==
            IF k = 0 THEN kept
            ELSE Spread(out[k - 1], In(out[k - 1], removed[k].layer), removed[k].w)
    IN  out

_dedup_same_index(q) ==
    LET gone == {i \in DOMAIN q : ~Stays(q, i)}
        removed == Pick(q, gone)
    IN  ShareOuts(Pick(q, DOMAIN q \ gone), removed)[Len(removed)]

DedupSameIndex == Pass("dedup", "floor", _dedup_same_index(rows)) /\ Kept

\* Anchors below 5 % are lifted, one after the other, at the expense of the rows
\* above 1 % that are no anchors.
Lifted(a, i) ==
    LET payers == {j \in Free(a) : a[j].w > MIN_WEIGHT}
        need == MANDATORY_FLOOR - a[i].w
        total == Weight(a, payers)
        paid == Reweighted(a, payers, LAMBDA w : w - Share(need, w, total))
    IN  IF total = 0 THEN a ELSE Reweighted(paid, {i}, LAMBDA w : MANDATORY_FLOOR)

Lifts(q, low) ==
    LET lift[k \in 0..Len(low)] == IF k = 0 THEN q ELSE Lifted(lift[k - 1], low[k]) IN lift

_enforce_mandatory_floor(q) ==
    LET low == Ascending({i \in DOMAIN q : Anchor(q[i]) /\ q[i].w < MANDATORY_FLOOR})
    IN  Lifts(q, low)[Len(low)]

LiftAnchors == Pass("floor", "shortfall", _enforce_mandatory_floor(rows)) /\ Kept

\* What a layer has left of its budget goes to its rows that are no anchors, the
\* best first, none above 30 %: of the room, an equal part for each.
FillOne(st, i, room, part) ==
    LET x == AtLeast(0, AtMost(AtMost(part, room - st.filled), MAX_WEIGHT - st.rows[i].w))
    IN  [rows |-> Raised(st.rows, {i}, x), filled |-> st.filled + x]

Fills(q, order, room) ==
    LET fill[k \in 0..Len(order)] ==
            IF k = 0 THEN [rows |-> q, filled |-> 0]
            ELSE FillOne(fill[k - 1], order[k], room, Share(room, 1, Len(order)))
    IN  fill

FilledUp(q, l, budget) ==
    LET room == budget - Weight(q, In(q, l))
        order == Sorted(In(q, l) \cap Free(q), LAMBDA i, j :
                     q[i].score > q[j].score \/ (q[i].score = q[j].score /\ i < j))
    IN  IF room <= 10 \/ order = <<>> THEN q ELSE Fills(q, order, room)[Len(order)].rows

_reconcile_budget_shortfall(q, b) ==
    FilledUp(FilledUp(FilledUp(q, "core", b.core), "satellite", b.satellite), "defense", b.defense)

Reconcile ==
    Pass("shortfall", "budget",
         _reconcile_budget_shortfall(rows, dynamic_layer_budget(Profile, market.regime))) /\ Kept

\* Mutant: the budget is given to the free rows as if there were no anchors.
EnforceWithoutAnchors(q, b) ==
    LET settle(a, l) ==
            LET c == Clipped(a, In(a, l))
                I == In(c, l) \cap Free(c)
            IN  IF b[l] > 0 /\ Weight(c, I) > b[l]
                THEN Scaled(c, I, b[l], Weight(c, I)) ELSE c
    IN  settle(settle(settle(q, "core"), "satellite"), "defense")

\* No row above 30 %; a layer above its budget is scaled back, anchors excepted.
Settled(q, l, budget) ==
    LET c == Clipped(q, In(q, l))
        I == In(c, l) \cap Free(c)
        left == budget - Weight(c, In(c, l) \ I)
        flex == Weight(c, I)
    IN  IF budget <= 0 THEN q
        ELSE IF flex <= left \/ flex = 0 \/ left <= 0 THEN c
        ELSE Scaled(c, I, left, flex)

_enforce_layer_budget_final(q, b) ==
    Settled(Settled(Settled(q, "core", b.core), "satellite", b.satellite), "defense", b.defense)

\* The last pass, and the turn of the next profile.
FinishStrategy ==
    LET done == _enforce_layer_budget_final(rows, dynamic_layer_budget(Profile, market.regime))
    IN  /\ stage = "budget"
        /\ strategies' = Append(strategies, done)
        /\ used' = [l \in Layers |-> used[l] \cup {done[i].sym : i \in In(done, l)}]
        /\ turn' = turn + 1
        /\ stage' = IF turn = 3 THEN "allocated" ELSE "core"
        /\ rows' = <<>> /\ segments' = {} /\ introduced' = {}
        /\ UNCHANGED <<market, pool, prevCore>>

EngineInit ==
    /\ market \in Markets
    /\ pool \in Pools(market.scan, market.scale, market.score)
    /\ turn = 1 /\ stage = "core"
    /\ rows = <<>> /\ segments = {} /\ prevCore = {} /\ introduced = {}
    /\ used = [l \in Layers |-> {}]
    /\ strategies = <<>>

EngineNext ==
    \/ SelectCore \/ CapWideBasis \/ TopUpCore \/ CapGrowth \/ Diversify
    \/ SelectSatellites \/ BackupSatellites \/ InjectStar50 \/ SelectDefense
    \/ DedupSameIndex \/ LiftAnchors \/ Reconcile \/ FinishStrategy
=============================================================================
