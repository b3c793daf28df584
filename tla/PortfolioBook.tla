--------------------------- MODULE PortfolioBook ---------------------------
(***************************************************************************)
(* The holdings of services/portfolio: adding, editing, trading, removing, *)
(* importing a file and applying a design.  A trade reads its row, waits   *)
(* for prices and writes back only the columns it changed; everything else *)
(* is one step.  Money is kept as fractions, so that averages are exact.   *)
(***************************************************************************)
EXTENDS Integers, Sequences, FiniteSets
LOCAL INSTANCE FiniteSetsExt

CONSTANTS Holdables, BookTypes,   \* "on_exchange" and "off_exchange"
          Orders,               \* bound: the trades, numbered as they come in
          Prices, Deltas,       \* what a trade pays and how many shares it moves
          Files,                \* the files that may be imported
          MaxRows, MaxEdits     \* bounds: rows ever stored, steps other than trades

\* NULL shares count as none; an average cost may be missing; a file may hold
\* negative shares, the other ways in refuse them.
Frac(n, d) == [n |-> n, d |-> d]
NoCost == Frac(0, 0)
Money == [n : Int, d : Nat \ {0}]
Lines == [sym : Holdables, type : BookTypes, shares : Int, cost : Money \cup {NoCost}, ok : BOOLEAN]

ASSUME BookAssumption ==
    /\ Prices \subseteq Nat \ {0} /\ Deltas \subseteq Int \ {0} /\ Files \subseteq Seq(Lines)
    /\ Orders \subseteq Nat /\ MaxRows \in Nat /\ MaxEdits \in Nat

VARIABLES holdings,     \* portfolio_etfs, an id is a position
          order,    \* the trades
          ledger,   \* money put into a row minus money taken out plus gains reported
          overtaken,   \* rows that changed between a trade's reading and its writing
          edits

bookVars == <<holdings, order, ledger, overtaken, edits>>

Amount(f) == IF f.d = 0 THEN Frac(0, 1) ELSE f
Times(k, f) == Frac(k * f.n, f.d)
Plus(f, g) == Frac(f.n * g.d + g.n * f.d, f.d * g.d)
SameMoney(f, g) == f.n * g.d = g.n * f.d
Basis(r) == Times(r.shares, Amount(r.cost))

NoOrder == [pc |-> "new", row |-> 0, shares |-> 0, cost |-> NoCost, weight |-> 0,
            delta |-> 0, price |-> 0]

BookInit == /\ holdings = <<>> /\ ledger = <<>>
            /\ order = [q \in Orders |-> NoOrder]
            /\ overtaken = {} /\ edits = 0

\* list_etfs
Listed == {i \in DOMAIN holdings : holdings[i].active}
ListedAs(rs, t) == {i \in DOMAIN rs : rs[i].active /\ rs[i].type = t}
Found(s) == {i \in Listed : holdings[i].sym = s}

\* A cost without shares is not stored.
NewRow(s, t, w, sh, c) == [sym |-> s, type |-> t, weight |-> w, shares |-> sh,
                           cost |-> IF sh > 0 THEN c ELSE NoCost, active |-> TRUE]

Edited == edits < MaxEdits /\ edits' = edits + 1

\* add_etf: a second row of a symbol is not noticed.
AddEtf(s, t, sh, c) ==
    /\ Edited /\ Len(holdings) < MaxRows
    /\ holdings' = Append(holdings, NewRow(s, t, 5, sh, c))
    /\ ledger' = Append(ledger, Basis(holdings'[Len(holdings')]))
    /\ UNCHANGED <<order, overtaken>>

\* update_etf with shares or a cost (-1 and NoCost stand for a field that is not
\* given); several active rows of a symbol make the query fail.
SetHolding(s, sh, c) ==
    \E i \in Found(s) :
       LET r == holdings[i]
           left == IF sh >= 0 THEN sh ELSE r.shares
           cost == IF c # NoCost /\ left > 0 THEN c ELSE r.cost
       IN  /\ Edited /\ Cardinality(Found(s)) = 1
           /\ holdings' = [holdings EXCEPT ![i].shares = left,
                                   ![i].cost = IF sh = 0 THEN NoCost ELSE cost]
           /\ ledger' = [ledger EXCEPT ![i] = Basis(holdings'[i])]
           /\ UNCHANGED <<order, overtaken>>

\* remove_etf
RemoveEtf(s) ==
    \E i \in Found(s) :
       /\ Edited /\ Cardinality(Found(s)) = 1
       /\ holdings' = [holdings EXCEPT ![i].active = FALSE]
       /\ UNCHANGED <<order, ledger, overtaken>>

\* recompute_cost_after_trade, mutant: a sale averages its price into the cost.
TradedAtAverage(sh, c, delta, p) ==
    LET buys == [n |-> sh * c.n + delta * p * c.d, d |-> (sh + delta) * c.d]
    IN  [shares |-> sh + delta, gain |-> Frac(0, 1),
         cost |-> IF sh + delta = 0 THEN c ELSE Frac(buys.n, buys.d)]

\* recompute_cost_after_trade
Traded(sh, c, delta, p) ==
    CASE sh <= 0 -> [shares |-> delta, cost |-> Frac(p, 1), gain |-> Frac(0, 1)]
      [] sh > 0 /\ delta > 0 ->
            [shares |-> sh + delta, gain |-> Frac(0, 1),
             cost |-> Frac(sh * c.n + delta * p * c.d, (sh + delta) * c.d)]
      [] sh > 0 /\ delta < 0 ->
            [shares |-> sh + delta, cost |-> c,
             gain |-> Times(-delta, Plus(Frac(p, 1), Times(-1, c)))]

\* _recompute_target_weight, in percent: the value of the symbol among the active
\* rows, those whose price is known (the other rows are quoted at p as well).
Weighed(s, sh, p, old) ==
    LET value(i) == p * Max({0, IF holdings[i].sym = s THEN sh ELSE holdings[i].shares})
        total == FoldSet(LAMBDA i, sum : sum + value(i), 0, Listed)
    IN  IF total <= 0 THEN old ELSE (100 * sh * p) \div total

\* update_etf with delta_shares, up to the price: the row is read here.
TradeBegins(q, s, delta, price) ==
    /\ order[q].pc = "new" /\ \A p \in Orders : p < q => order[p].pc # "new"
    /\ \E i \in Found(s) :
          /\ Cardinality(Found(s)) = 1
          /\ order' = [order EXCEPT ![q] = [pc |-> "priced", row |-> i, delta |-> delta,
                         price |-> price, shares |-> holdings[i].shares, cost |-> holdings[i].cost,
                         weight |-> holdings[i].weight]]
    /\ UNCHANGED <<holdings, ledger, overtaken, edits>>

\* The price is not known, or more is sold than was there: the request is refused.
TradeRefused(q) ==
    /\ order[q].pc = "priced"
    /\ order' = [order EXCEPT ![q].pc = "done"]
    /\ UNCHANGED <<holdings, ledger, overtaken, edits>>

\* The rest of it: a column is written when its value differs from the one read.
TradeEnds(q) ==
    LET o == order[q]
        i == o.row
        r == holdings[i]
        done == Traded(o.shares, Amount(o.cost), o.delta, o.price)
        weight == Weighed(r.sym, done.shares, o.price, o.weight)
    IN  /\ o.pc = "priced" /\ (o.delta > 0 \/ o.shares + o.delta >= 0)
        /\ holdings' = [holdings EXCEPT
              ![i].shares = done.shares,      \* a trade always moves shares
              ![i].cost = IF o.cost # NoCost /\ SameMoney(o.cost, done.cost) THEN @ ELSE done.cost,
              ![i].weight = IF weight = o.weight THEN @ ELSE weight]
        /\ ledger' = [ledger EXCEPT
              ![i] = Plus(Plus(@, Frac(o.delta * o.price, 1)), done.gain)]
        /\ overtaken' = IF o.shares = r.shares /\ o.cost = r.cost THEN overtaken
                        ELSE overtaken \cup {i}
        /\ order' = [order EXCEPT ![q].pc = "done"]
        /\ UNCHANGED edits

\* A line of a file: a line that cannot be parsed changes nothing; the first that
\* can retires, in mode "replace", all rows of its type; then the row is written.
\* Mutant: each line retires the rows of its type.
ImportedEach(mode, st, line) ==
    IF ~line.ok THEN st
    ELSE LET old == IF mode = "replace" THEN ListedAs(st.rows, line.type) ELSE {}
             kept == [i \in DOMAIN st.rows |->
                        [st.rows[i] EXCEPT !.active = @ /\ i \notin old]]
         IN  [rows |-> Append(kept, NewRow(line.sym, line.type, 10, line.shares, line.cost)),
              count |-> st.count + 1]

Imported(mode, st, line) ==
    IF ~line.ok THEN st
    ELSE LET old == IF mode = "replace" /\ st.count = 0 THEN ListedAs(st.rows, line.type) ELSE {}
             kept == [i \in DOMAIN st.rows |->
                        [st.rows[i] EXCEPT !.active = @ /\ i \notin old]]
             new == NewRow(line.sym, line.type, 10, line.shares, line.cost)
             hits == {i \in ListedAs(kept, line.type) : kept[i].sym = line.sym}
         IN  [rows |-> IF hits = {} THEN Append(kept, new)
                       ELSE [kept EXCEPT ![CHOOSE i \in hits : \A j \in hits : j <= i] = new],
              count |-> st.count + 1]

\* import_portfolio: one commit for the whole file.
AfterLines(mode, file) ==
    LET st[k \in 0 .. Len(file)] == IF k = 0 THEN [rows |-> holdings, count |-> 0]
                                    ELSE Imported(mode, st[k - 1], file[k])
    IN  st
ImportRows(mode, file) ==
    /\ Edited
    /\ holdings' = AfterLines(mode, file)[Len(file)].rows
    /\ Len(holdings') <= MaxRows
    /\ ledger' = [i \in DOMAIN holdings' |->
                    IF i \in DOMAIN holdings /\ SameMoney(Basis(holdings[i]), Basis(holdings'[i]))
                    THEN ledger[i] ELSE Basis(holdings'[i])]
    /\ UNCHANGED <<order, overtaken>>

\* apply_portfolio_design: the newest active row of a symbol takes the weight, capped
\* at one half, and the type; a symbol without a row gets one without shares.
ApplyDesign(s, t, w) ==
    LET capped == IF w > 50 THEN 50 ELSE w
    IN  /\ Edited
        /\ IF Found(s) = {}
           THEN /\ Len(holdings) < MaxRows
                /\ holdings' = Append(holdings, NewRow(s, t, capped, 0, NoCost))
                /\ ledger' = Append(ledger, Frac(0, 1))
           ELSE /\ holdings' = [holdings EXCEPT ![CHOOSE i \in Found(s) : \A j \in Found(s) : j <= i]
                              = [@ EXCEPT !.weight = capped, !.type = t]]
                /\ UNCHANGED ledger
        /\ UNCHANGED <<order, overtaken>>

BookNext ==
    \/ \E s \in Holdables, t \in BookTypes, sh \in {0, 1}, p \in Prices : AddEtf(s, t, sh, Frac(p, 1))
    \/ \E s \in Holdables, sh \in {-1, 0, 1}, p \in Prices :
          SetHolding(s, sh, Frac(p, 1)) \/ (sh # -1 /\ SetHolding(s, sh, NoCost))
    \/ \E s \in Holdables : RemoveEtf(s)
    \/ \E q \in Orders, s \in Holdables, delta \in Deltas, p \in Prices : TradeBegins(q, s, delta, p)
    \/ \E q \in Orders : TradeEnds(q) \/ TradeRefused(q)
    \/ \E mode \in {"merge", "replace"}, f \in Files : ImportRows(mode, f)
    \/ \E s \in Holdables, t \in BookTypes : ApplyDesign(s, t, 60)

-----------------------------------------------------------------------------
(* Properties *)

\* The cost that a row shows is the money that went into it: whatever the sequence of
\* purchases and sales, the average cost times the shares is what was paid, less what
\* was received, plus the gains that were reported - unless another request wrote the
\* row between a trade's reading and its writing, when one of the two is lost.
MoneyConserved ==
    \A i \in DOMAIN holdings : i \notin overtaken => SameMoney(Basis(holdings[i]), ledger[i])

\* The lines up to the k-th that could be read, their symbols of a type, and the
\* symbols of a type that active rows have.
ReadLines(f, k) == {j \in 1 .. k : f[j].ok}
SymbolsIn(f, k, t) == {f[j].sym : j \in {j \in ReadLines(f, k) : f[j].type = t}}
ShownAs(rs, t) == {rs[i].sym : i \in ListedAs(rs, t)}

\* An import in mode "replace" leaves, of the type of the first line that could be
\* read, exactly the symbols of the file; the first line alone retires the old rows.
ReplaceReplaces ==
    [][\A f \in Files : ImportRows("replace", f) =>
          /\ \A t \in BookTypes : SymbolsIn(f, Len(f), t) \subseteq ShownAs(holdings', t)
          /\ \A k \in ReadLines(f, Len(f)) :
                (\A j \in ReadLines(f, Len(f)) : k <= j)
                => ShownAs(holdings', f[k].type) = SymbolsIn(f, Len(f), f[k].type)]_bookVars

\* What crud.py:124 says of a cost without shares, "有成本无份额不落库"; a sale of all
\* shares leaves the cost where it was.
NoOrphanCost == \A i \in DOMAIN holdings : holdings[i].cost # NoCost => holdings[i].shares > 0
=============================================================================
