--------------------------- MODULE CandidatePool ---------------------------
(***************************************************************************)
(* How a scan of the market becomes the candidate pool: steps 4 to 6b of   *)
(* MarketDataHub._refresh_impl with the helpers of engine/pool_balancing   *)
(* .py.  A pool is a list of instruments per layer.  The index concept and *)
(* the segment of an instrument are data (Info), every instrument has a    *)
(* tracked index, and layers without a budget are left out.                *)
(***************************************************************************)
EXTENDS Integers, Sequences, FiniteSets

\* engine/budgets.py: the three risk profiles, their layer budgets and how the
\* market regime shifts them. Shares are counted in units of 1/10000, the precision
\* the engine rounds weights to.
Profiles == <<"defensive", "balanced", "aggressive">>
Layers == {"core", "satellite", "defense"}
Regimes == {"bull_strong", "bull_weakening", "range_bound", "correction", "bear",
            "defensive_rotate", "panic"}

Whole == 10000                  \* a weight of 1.0

AtMost(a, b) == IF a <= b THEN a ELSE b
AtLeast(a, b) == IF a >= b THEN a ELSE b

\* STRATEGY_META: budgets and target counts per layer, cap of growth in the core.
STRATEGY_META ==
    [defensive  |-> [budget |-> [core |-> 5000, satellite |-> 2000, defense |-> 1500],
                     count |-> [core |-> 4, satellite |-> 4, defense |-> 2], growthCap |-> 20],
     balanced   |-> [budget |-> [core |-> 5000, satellite |-> 2000, defense |-> 1500],
                     count |-> [core |-> 5, satellite |-> 6, defense |-> 2], growthCap |-> 40],
     aggressive |-> [budget |-> [core |-> 6000, satellite |-> 3000, defense |-> 500],
                     count |-> [core |-> 6, satellite |-> 8, defense |-> 1], growthCap |-> 60]]

Sum(b) == b.core + b.satellite + b.defense

\* The stages of dynamic_layer_budget, in the order of the code.
Rotated(b, p) ==
    LET shift == [defensive |-> 1000, balanced |-> 800, aggressive |-> 500][p]
    IN  [core |-> AtLeast(b.core - shift \div 2, 3500),
         satellite |-> AtLeast(b.satellite - shift \div 2, 1000),
         defense |-> AtMost(b.defense + shift, 3000)]

Corrected(b, p) ==
    LET reduce == [defensive |-> 0, balanced |-> 300, aggressive |-> 800][p]
    IN  IF reduce = 0 THEN b
        ELSE [b EXCEPT !.satellite = AtLeast(@ - reduce, 800),
                       !.core = AtMost(@ + (2 * reduce) \div 5, 6000)]

Sheltered(b, p) ==
    LET boost == [defensive |-> 500, balanced |-> 500, aggressive |-> 1000][p]
    IN  [b EXCEPT !.core = AtLeast(@ - (3 * boost) \div 10, 3000),
                  !.satellite = AtLeast(@ - (3 * boost) \div 10, 500)]

Emboldened(b, p) ==
    LET shift == [defensive |-> 500, balanced |-> 800, aggressive |-> 1000][p]
    IN  [core |-> AtLeast(b.core - shift \div 2, 3500),
         satellite |-> AtMost(b.satellite + shift, 5000),
         defense |-> AtLeast(b.defense - (3 * shift) \div 10, 300)]

\* The aggressive profile keeps little cash and little defense in every regime.
Clamped(b, regime) ==
    LET d == AtMost(b.defense, 1000)
        cash == Whole - (b.core + b.satellite + d)
        clamp == IF regime = "bear" THEN 1500 ELSE 1000
    IN  [b EXCEPT !.defense = d,
                  !.core = IF cash > clamp THEN AtMost(@ + cash - clamp, 9500) ELSE @]

dynamic_layer_budget(p, regime) ==
    LET b == STRATEGY_META[p].budget
        shifted ==
            CASE regime = "defensive_rotate" -> Rotated(b, p)
              [] regime = "correction" -> Corrected(Rotated(b, p), p)
              [] regime = "bear" -> Sheltered(Corrected(Rotated(b, p), p), p)
              [] regime = "bull_strong" -> Emboldened(b, p)
              [] regime = "range_bound" /\ p = "balanced" ->
                     [b EXCEPT !.satellite = AtMost(@ + 200, 5000),
                               !.defense = AtLeast(@ - 200, 300)]
              [] OTHER -> b
    IN  IF p = "aggressive" THEN Clamped(shifted, regime) ELSE shifted
-----------------------------------------------------------------------------
\* INV-1 and INV-6 after the shifts: no regime overdraws a profile, and the
\* aggressive one never keeps more cash or defense than its clamps allow,
\* whatever the floors and caps of the stages do to each other.
BudgetsClose(regime) ==
    /\ \A i \in 1..3 : LET b == dynamic_layer_budget(Profiles[i], regime)
                       IN  Sum(b) <= Whole /\ \A l \in Layers : b[l] > 0
    /\ LET a == dynamic_layer_budget("aggressive", regime)
       IN  /\ a.defense <= 1000
           /\ Whole - Sum(a) <= IF regime = "bear" THEN 1500 ELSE 1000
-----------------------------------------------------------------------------

CONSTANTS Instruments,
          Info,           \* what is known of an instrument, see InfoRecord
          CoreAnchors, DefenseAnchors,   \* CORE_ANCHORS, DEFENSE_ANCHORS
          MaxPerLayer     \* MAX_PER_LAYER

MANDATORY_CODES == CoreAnchors \cup DefenseAnchors

\* base and industry decide the layer; index and segment identify what is tracked;
\* family names near substitutes; the flags are those of engine/taxonomy.py.
InfoRecord ==
    [base: Layers, industry: {"broad", "goods", "abroad", "electronics", "other"},
     index: STRING, segment: STRING, family: STRING,
     wide: BOOLEAN, large: BOOLEAN, growth: BOOLEAN, tech: BOOLEAN,
     dividend: BOOLEAN, risky: BOOLEAN, safe: BOOLEAN]

ASSUME PoolAssumption ==
    /\ Info \in [Instruments -> InfoRecord]
    /\ MANDATORY_CODES \subseteq Instruments /\ CoreAnchors \cap DefenseAnchors = {}
    /\ IsFiniteSet(MANDATORY_CODES)
    /\ MaxPerLayer \in [Layers -> Nat]

Elems(q) == {q[i] : i \in DOMAIN q}

\* The elements of S in the order lt, which is total on S.
Sorted(S, lt(_, _)) ==
    [i \in 1..Cardinality(S) |-> CHOOSE x \in S : Cardinality({y \in S : lt(y, x)}) = i - 1]

Ascending(S) == Sorted(S, LAMBDA i, j : i < j)

\* The elements of q at the positions in I, in their order.
Pick(q, I) == LET p == Ascending(I) IN [i \in DOMAIN p |-> q[p[i]]]
Among(q, S) == Pick(q, {i \in DOMAIN q : q[i] \in S})

assign_layer(s) ==
    IF Info[s].base = "core" \/ Info[s].industry = "broad" THEN "core"
    ELSE IF Info[s].base = "defense" \/ Info[s].industry = "goods" THEN "defense"
    ELSE "satellite"

Assigned(scan) ==
    [l \in Layers |-> Among(scan, {s \in Instruments : assign_layer(s) = l})]

\* One instrument per index and layer, the largest fund, where its index came first.
deduplicate_by_index(q, scale) ==
    LET same(i) == {j \in DOMAIN q : Info[q[j]].index = Info[q[i]].index}
        first == {i \in DOMAIN q : \A j \in same(i) : i <= j}
        largest(i) == CHOOSE j \in same(i) : \A k \in same(i) :
                          scale[q[j]] > scale[q[k]] \/ (scale[q[j]] = scale[q[k]] /\ j <= k)
        p == Ascending(first)
    IN  [i \in DOMAIN p |-> q[largest(p[i])]]

\* The layer an anchor that is not in the pool is put into.
HomeOf(c) == IF c \in CoreAnchors THEN "core" ELSE "defense"

Missing(pool) == MANDATORY_CODES \ UNION {Elems(pool[l]) : l \in Layers}

\* The anchors of a layer in some order: they come from a set.
InAnyOrder(S) == {q \in [1..Cardinality(S) -> S] : Elems(q) = S}

\* ensure_mandatory: an anchor the scan does not have is added from static data
\* when it is a core anchor.
ensure_mandatory(pool, scan) ==
    LET added(l) == {c \in Missing(pool) : HomeOf(c) = l /\ (c \in Elems(scan) \cup CoreAnchors)}
    IN  {[l \in Layers |-> pool[l] \o (IF l = "core" THEN f ELSE IF l = "defense" THEN g ELSE <<>>)]
            : f \in InAnyOrder(added("core")), g \in InAnyOrder(added("defense"))}

\* balance_by_industry: the best of each segment, then the best of the rest.
balance_by_industry(q, max, appeal) ==
    LET before(i, j) == appeal[q[i]] > appeal[q[j]] \/ (appeal[q[i]] = appeal[q[j]] /\ i < j)
        same(i) == {j \in DOMAIN q : Info[q[j]].segment = Info[q[i]].segment}
        first == Ascending({i \in DOMAIN q : \A j \in same(i) : i <= j})
        best(i) == CHOOSE j \in same(i) : \A k \in same(i) : k # j => before(j, k)
        tops == [i \in DOMAIN first |-> best(first[i])]
        all == tops \o Sorted(DOMAIN q \ Elems(tops), before)
    IN  IF Len(q) <= max THEN q
        ELSE [i \in 1..max |-> q[all[i]]]

\* truncate_with_mandatory_protection: anchors first, then as many others as fit.
truncate_with_mandatory_protection(q, max) ==
    LET rest == Among(q, Instruments \ MANDATORY_CODES)
    IN  Among(q, MANDATORY_CODES) \o SubSeq(rest, 1, AtMost(max, Len(rest)))

Truncated(pool, appeal) ==
    [l \in Layers |-> truncate_with_mandatory_protection(
                          balance_by_industry(pool[l], MaxPerLayer[l], appeal), MaxPerLayer[l])]

\* recheck_mandatory_after_truncate: in the order of the codes, taken as the order
\* CHOOSE gives; only anchors the scan has are found.
recheck_mandatory_after_truncate(pool, scan) ==
    LET lost(l) == {c \in Missing(pool) \cap Elems(scan) : HomeOf(c) = l}
        inOrder(S) == CHOOSE q \in InAnyOrder(S) : TRUE
    IN  [l \in Layers |-> pool[l] \o inOrder(lost(l))]

\* Steps 4 to 6b; a failed scan is empty and nothing is injected into it.
Pools(scan, scale, appeal) ==
    LET layered == Assigned(scan)
        deduped == [l \in Layers |-> deduplicate_by_index(layered[l], scale)]
    IN  IF scan = <<>> THEN {deduped}
        ELSE {recheck_mandatory_after_truncate(Truncated(p, appeal), scan)
                  : p \in ensure_mandatory(deduped, scan)}
=============================================================================
