------------------------------ MODULE EtfScanner ------------------------------
(***************************************************************************)
(* fetchers/etf_scanner.py: the list of all exchange traded funds and the  *)
(* three layers of candidates that are made of it.  A fund is its code, the *)
(* words of its name that the code looks for, the index it says it tracks, *)
(* its turnover and its size; 0 is "not known".  The breaker that routes   *)
(* between the sources is SourceBreaker.                                   *)
(***************************************************************************)
EXTENDS Integers, Sequences, FiniteSets

CONSTANTS EtfEnough,    \* 50: fewer rows are no list
          LeastAmount, LeastScale,  \* MIN_AVG_AMOUNT, MIN_FUND_SCALE
          TopN,         \* 25 of a layer
          CoreWords, DefenseWords,  \* CORE_KEYWORDS, DEFENSE_KEYWORDS
          IndexLength   \* INDEX_KEYWORDS, with their lengths

ASSUME ScannerAssumption ==
    /\ {EtfEnough, LeastAmount, LeastScale, TopN} \subseteq Nat
    /\ IndexLength \in [DOMAIN IndexLength -> Nat]

Fund(sym, words, index, amount, scale) ==
    [sym |-> sym, words |-> words, index |-> index, amount |-> amount, scale |-> scale]
SymsOf(rows) == {rows[i].sym : i \in DOMAIN rows}

-----------------------------------------------------------------------------
\* What a chunk of codes is asked for: all under the exchange of its first code.
GtimgChunk(chunk, place, quotes) ==
    {c \in {chunk[i] : i \in DOMAIN chunk} : place[c] = place[chunk[1]] /\ c \in quotes}
GtimgBatch(chunks, place, quotes) ==
    UNION {GtimgChunk(chunks[i], place, quotes) : i \in DOMAIN chunks}

\* Sina names the funds; what Tencent knows of them is put in, 0 for the rest; without
\* Tencent the names alone have to do.
SinaTencent(list, amounts, scales) ==
    [i \in DOMAIN list |->
        LET c == list[i].sym
        IN  IF DOMAIN amounts = {} THEN list[i]
            ELSE [list[i] EXCEPT !.amount = IF c \in DOMAIN amounts THEN amounts[c] ELSE 0,
                                 !.scale = IF c \in DOMAIN amounts THEN scales[c] ELSE 0]]

\* _fetch_em_etf_list: page by page until the total is there, a page is empty or has
\* failed twice: what was read up to an empty page counts, a page that failed is left out.
EmPages(pages, total) ==
    LET Read(n) == {i \in 1 .. n : pages[i] \notin {"failed", "empty"}}
        Stops(n) == pages[n] = "empty" \/ (1 \in Read(n) /\ Cardinality(Read(n)) >= total)
        last == IF \E n \in DOMAIN pages : Stops(n)
                THEN CHOOSE n \in DOMAIN pages : Stops(n) /\ \A m \in 1 .. n - 1 : ~Stops(m)
                ELSE Len(pages)
    IN  Read(last)

\* fetch_all_etfs_base.  A list of the memory is taken, else one of the file however old
\* it is, else the sources are asked in turn; when none has one, the last good one stays.
Lists(kept, file, lastGood) == [kept |-> kept, file |-> file, lastGood |-> lastGood]
NoList == [at |-> 0, size |-> 0]
FetchAllEtfsBase(lists, replies) ==
    LET good == {i \in DOMAIN replies :
                    replies[i].size > 0 /\ (i < 3 => replies[i].size >= EtfEnough)}
        first == CHOOSE i \in good : \A j \in good : i <= j
        got == replies[first]
    IN  IF lists.kept # NoList THEN [list |-> lists.kept, lists |-> lists]
        ELSE IF lists.file.size > EtfEnough
        THEN [list |-> lists.file, lists |-> [lists EXCEPT !.kept = lists.file]]
        ELSE IF good = {} THEN [list |-> lists.lastGood, lists |-> lists]
        ELSE [list |-> got, lists |-> Lists(got, got, got)]
ListExpires(lists) == [lists EXCEPT !.kept = NoList]

-----------------------------------------------------------------------------
\* filter_etfs: the first row of a code, no bonds and no money market, with the
\* turnover and the size there must be where they are known; anchors are let off.
Skips(f) == f.words \cap {"bonds", "money"} # {}
Thin(f, anchors) == f.amount > 0 /\ f.amount < LeastAmount /\ f.sym \notin anchors
Small(f, anchors) == f.scale > 0 /\ f.scale < LeastScale /\ f.sym \notin anchors
FirstOfCode(rows, i) == \A j \in 1 .. i - 1 : rows[j].sym # rows[i].sym

\* _real_amount_override: what is asked for is kept for half a minute, whoever asks next.
RealAmounts(asked, keptMap, fresh, source) ==
    LET map == IF fresh THEN keptMap ELSE [c \in asked \cap DOMAIN source |-> source[c]]
    IN  [c \in asked \cap DOMAIN map |-> map[c]]

\* The thin ones are asked for again and follow the others; what a fund says of
\* its index does not come through.
FilterEtfs(rows, anchors, keptMap, fresh, source) ==
    LET first == SelectSeq([i \in DOMAIN rows |-> <<i, rows[i]>>],
                           LAMBDA p : FirstOfCode(rows, p[1]) /\ ~Skips(p[2]))
        all == [i \in DOMAIN first |-> first[i][2]]
        thin == SelectSeq(all, LAMBDA f : Thin(f, anchors))
        real == RealAmounts(SymsOf(thin), keptMap, fresh, source)
        back == SelectSeq(thin, LAMBDA f : f.sym \in DOMAIN real /\ real[f.sym] >= LeastAmount
                                           /\ ~Small(f, {}))
        rest == SelectSeq(all, LAMBDA f : ~Thin(f, anchors) /\ ~Small(f, anchors))
    IN  [i \in DOMAIN rest |-> [rest[i] EXCEPT !.index = ""]]
        \o [i \in DOMAIN back |-> [back[i] EXCEPT !.amount = real[back[i].sym], !.index = ""]]

\* classify_etf, by the name and the index that the name tells: the longest word of it
\* that is an index.
ExtractIndexKeyword(f) ==
    LET words == f.words \cap DOMAIN IndexLength
    IN  IF words = {} THEN ""
        ELSE CHOOSE w \in words : \A v \in words : IndexLength[v] <= IndexLength[w]
Indexed(f) == IF f.index = "" THEN [f EXCEPT !.index = ExtractIndexKeyword(f)] ELSE f
ClassifyEtf(f) == IF (f.words \cup {f.index}) \cap CoreWords # {} THEN "core"
                  ELSE IF f.words \cap DefenseWords # {} THEN "defense" ELSE "satellite"

\* layer_ranking: three tenths by turnover and seven by size, by size alone when no
\* turnover is known; the places among the different values count.
Place(rows, Key(_), f) == Cardinality({Key(rows[j]) : j \in {i \in DOMAIN rows : Key(rows[i]) < Key(f)}})
Places01(rows, Key(_)) == LET n == Cardinality({Key(rows[j]) : j \in DOMAIN rows})
                        IN  IF n > 1 THEN n - 1 ELSE 1
Share(rows, Key(_), f) ==
    IF Places01(rows, Key) = 1 /\ \A i \in DOMAIN rows : Key(rows[i]) = Key(f) THEN 1 ELSE Place(rows, Key, f)
ByAmount(f) == f.amount
ByScale(f) == f.scale
Score(rows, f) ==
    7 * Share(rows, ByScale, f) * Places01(rows, ByAmount)
    + IF \E i \in DOMAIN rows : 100 * rows[i].amount > LeastAmount
      THEN 3 * Share(rows, ByAmount, f) * Places01(rows, ByScale) ELSE 0
RankIn(rows, i) == 1 + Cardinality({j \in DOMAIN rows : \/ Score(rows, rows[j]) > Score(rows, rows[i])
                                                        \/ Score(rows, rows[j]) = Score(rows, rows[i]) /\ j < i})
LayerRanking(rows, required) ==
    LET ranked == [k \in DOMAIN rows |-> rows[CHOOSE i \in DOMAIN rows : RankIn(rows, i) = k]]
        top == SubSeq(ranked, 1, IF Len(rows) < TopN THEN Len(rows) ELSE TopN)
    IN  top \o SelectSeq(rows, LAMBDA f : f.sym \in required \ SymsOf(top))

\* The largest fund of a theme joins when the satellites have none of it that is not a
\* technology fund; what one theme adds, another does not look at.
OfTheme(f, theme) == theme \in f.words /\ "tech" \notin f.words
InjectThemes(satellite, all, themes) ==
    LET Best(theme) == {i \in DOMAIN all : /\ OfTheme(all[i], theme)
                                           /\ \A j \in DOMAIN all : OfTheme(all[j], theme) =>
                                                 all[j].scale < all[i].scale \/ (all[j].scale = all[i].scale /\ i <= j)}
        lacking == {t \in themes : ~\E i \in DOMAIN satellite : OfTheme(satellite[i], t)}
        more == UNION {Best(t) : t \in lacking}
    IN  satellite \o SelectSeq([i \in DOMAIN all |-> all[i]],
                               LAMBDA f : /\ f.sym \notin SymsOf(satellite)
                                          /\ f.sym \in {all[i].sym : i \in more})

\* The wide funds of a fixed list that a layer lacks, with what the raw list says of them.
InjectStatic(rows, fixed, raw) ==
    LET FromRaw(f) == LET here == SelectSeq(raw, LAMBDA e : e.sym = f.sym)
                      IN  IF here = <<>> THEN f
                          ELSE [f EXCEPT !.amount = IF here[Len(here)].amount # 0 THEN here[Len(here)].amount ELSE @,
                                         !.scale = IF here[Len(here)].scale # 0 THEN here[Len(here)].scale ELSE @]
        more == SelectSeq(fixed, LAMBDA f : f.sym \notin SymsOf(rows))
    IN  rows \o [i \in DOMAIN more |-> FromRaw(more[i])]

\* full_pipeline: nothing at all without a list.
FullPipeline(raw, anchors, fixed, required, themes, source) ==
    LET good == FilterEtfs(raw, anchors, <<>>, FALSE, source)
        Of(layer) == SelectSeq(good, LAMBDA f : ClassifyEtf(Indexed(f)) = layer)
        Made(layer) == InjectStatic(LayerRanking(Of(layer), required[layer]), fixed[layer], raw)
    IN  IF raw = <<>> THEN [core |-> <<>>, satellite |-> <<>>, defense |-> <<>>]
        ELSE [core |-> Made("core"), defense |-> Made("defense"),
              satellite |-> InjectThemes(LayerRanking(Of("satellite"), {}), Of("satellite"), themes)]

\* enrich_tracked_indices: told, known from the file, or read from a page; the file is
\* written once, after all pages.
EnrichTracked(told, file, pages) ==
    [s \in DOMAIN told |-> IF told[s] # "" THEN told[s] ELSE IF s \in DOMAIN file THEN file[s]
                           ELSE IF s \in DOMAIN pages THEN pages[s] ELSE ""]

-----------------------------------------------------------------------------
\* However the list was filtered, the layers hold the mandatory anchors; a layer is
\* bounded; every theme that has a fund is in the satellites; a fund that is in none of
\* the fixed lists has the turnover and size it must have (full_pipeline).
PipelineKeepsItsWord(raw, anchors, fixed, required, themes, source) ==
    LET pool == FullPipeline(raw, anchors, fixed, required, themes, source)
        good == FilterEtfs(raw, anchors, <<>>, FALSE, source)
    IN  raw # <<>> =>
        /\ \A layer \in {"core", "defense"} :
              /\ required[layer] \subseteq SymsOf(pool[layer])
              /\ Len(pool[layer]) <= TopN + Cardinality(required[layer]) + Len(fixed[layer])
        /\ Len(pool.satellite) <= TopN + Cardinality(themes)
        /\ \A t \in themes, i \in DOMAIN good :
              ClassifyEtf(Indexed(good[i])) = "satellite" /\ OfTheme(good[i], t)
              => \E j \in DOMAIN pool.satellite : OfTheme(pool.satellite[j], t)
        /\ \A layer \in DOMAIN pool : \A i \in DOMAIN pool[layer] :
              LET f == pool[layer][i]
              IN  \/ f.sym \in anchors \/ (layer # "satellite" /\ f.sym \in SymsOf(fixed[layer]))
                  \/ ~Thin(f, {}) /\ ~Small(f, {}) /\ ~Skips(f)

\* A list once fetched outlives the sources: as long as the process runs, a caller is
\* given one.
ListOutlivesSources(lists, replies) ==
    lists.lastGood # NoList => FetchAllEtfsBase(ListExpires(lists), replies).list # NoList

\* Claims false of the code.  The list is asked for again once the memory has expired
\* (etf_scanner.py 443-447: the refresh loop keeps it fresh): the file answers first, for
\* good.  A fund is in one layer (a fixed one may be a satellite by its name as well).
ListIsRescanned(lists, replies) ==
    (\E i \in DOMAIN replies : replies[i].size > EtfEnough)
    => FetchAllEtfsBase(ListExpires(lists), replies).list \in {replies[i] : i \in DOMAIN replies}
OneLayerEach(pool) == \A a, b \in DOMAIN pool : a # b => SymsOf(pool[a]) \cap SymsOf(pool[b]) = {}
===============================================================================
