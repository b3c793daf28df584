------------------------------ MODULE NewsFeeds ------------------------------
(***************************************************************************)
(* fetchers/news_fetcher.py and fetchers/levistock_fetcher.py: how news    *)
(* are read, judged and put together.  A piece of news has a title, the    *)
(* classes of words in its title and content, the hour its source says     *)
(* ("none": it says none that can be read) and what level the source says. *)
(***************************************************************************)
EXTENDS Integers, Sequences, FiniteSets, SequencesExt, FiniteSetsExt

CONSTANTS NewsThreads, \* 4 threads of the pool of _ak
          FreshHours,  \* 48
          NewsShown    \* 25 or 30 of a list

ASSUME NewsAssumption == {NewsThreads, FreshHours, NewsShown} \subseteq Nat \ {0}

News(title, words, hour, level) == [title |-> title, words |-> words, hour |-> hour, level |-> level]
NoHour == -1
Top(rows, n) == SubSeq(rows, 1, IF n < Len(rows) THEN n ELSE Len(rows))

\* _ak: a call that is given up goes on in its thread; with every thread taken, a call
\* waits its time and comes back empty.
AkCall(stuck, answers) ==
    [rows |-> IF stuck < NewsThreads /\ answers # <<>> THEN answers[1] ELSE <<>>,
     stuck |-> IF answers = <<>> /\ stuck < NewsThreads THEN stuck + 1 ELSE stuck]

-----------------------------------------------------------------------------
\* classify_news: the first category one of whose words is in the text, the English words
\* only where no Chinese one is and the title has Latin letters; a title that weakens
\* takes a high level down by one.
Categories == <<"major", "risk", "positive", "negative", "neutral">>
LevelOf == [major |-> 5, risk |-> 4, positive |-> 4, negative |-> 3, neutral |-> 2, other |-> 1]
FirstHit(words) == LET hit == {i \in DOMAIN Categories : Categories[i] \in words}
                  IN  IF hit = {} THEN "other" ELSE Categories[Min(hit)]
Category(words) == IF FirstHit(words.zh) # "other" \/ ~words.latin THEN FirstHit(words.zh) ELSE FirstHit(words.en)
NewsLevel(words) ==
    LET level == LevelOf[Category(words)]
    IN  IF level >= 4 /\ words.weak THEN level - 1 ELSE level
\* _level_of: what the source says counts while it is next to one's own judgement.  A
\* number it gives as text is not bounded.
LevelSaid(said, own) ==
    LET ok == said.text \/ said.n \in 1 .. 5
    IN  IF ok /\ said.n - own \in -1 .. 1 THEN said.n ELSE own
\* _compute_stars, by the age in hours; news of the future are new.
Stars(level, hour, now) ==
    LET age == now - hour
    IN  IF hour = NoHour THEN (IF level < 1 THEN 1 ELSE IF level > 5 THEN 5 ELSE level)
        ELSE IF age < 1 THEN 5 ELSE IF age < 6 THEN 4 ELSE IF age < 24 THEN 3 ELSE IF age < 72 THEN 2 ELSE 1

\* _attach_level: the news themselves are marked, in the list that may be kept elsewhere;
\* a level they have stays.
Attached(items, now) ==
    [i \in DOMAIN items |->
        LET it == items[i]
            level == IF it.level = 0 THEN NewsLevel(it.words) ELSE it.level
        IN  [it EXCEPT !.level = level] @@ [stars |-> Stars(level, it.hour, now), category |-> Category(it.words)]]
SortTime(it) == IF it.hour = NoHour THEN 0 ELSE it.hour
\* _filter_fresh: news without a time stay.
Fresh(items, now) == SelectSeq(items, LAMBDA it : it.hour = NoHour \/ now - it.hour < FreshHours)
\* _dedupe: the first of a title; news without a title all stay.
Dedupe(items) ==
    LET first == {i \in DOMAIN items :
                    items[i].title = "" \/ \A j \in 1 .. i - 1 : items[j].title # items[i].title}
        at == SetToSortSeq(first, <)
    IN  [k \in DOMAIN at |-> items[at[k]]]

\* fetch_cailian_telegraph: the important ones first, each a level up but not above five,
\* then the rest up to the limit.  What is kept has the limit of the first caller.
Titled(items) == SelectSeq(items, LAMBDA it : it.title # "")
Telegraph(kept, limit, important, all) ==
    LET Raised(it) == [it EXCEPT !.level = LET l == LevelSaid(it.said, NewsLevel(it.words))
                                           IN  IF l + 1 > 5 THEN 5 ELSE l + 1]
        Plain(it) == [it EXCEPT !.level = LevelSaid(it.said, NewsLevel(it.words))]
        first == [i \in DOMAIN Titled(important) |-> Raised(Titled(important)[i])]
        seen == {first[i].title : i \in DOMAIN first}
        rest == SelectSeq([i \in DOMAIN Titled(all) |-> Plain(Titled(all)[i])], LAMBDA it : it.title \notin seen)
        rows == Top(first \o Dedupe(rest), limit)
    IN  IF kept # <<>> THEN [rows |-> kept[1], kept |-> kept] ELSE [rows |-> rows, kept |-> <<rows>>]

-----------------------------------------------------------------------------
\* fetch_news_headlines: fresh ones, the latest first, every title once.
Headlines(telegraph, eastmoney, now) ==
    Top(Dedupe(SortSeq(Fresh(Attached(telegraph \o eastmoney, now), now),
                       LAMBDA a, b : SortTime(a) > SortTime(b))), NewsShown)
\* fetch_macro_news: the first of three sources that has any; the words of advertisements,
\* of single shares and of funds rule news out before those of the economy let them in.
MacroRelevant(it) == /\ it.words.topics \cap {"marketing", "stock", "fund"} = {}
                     /\ "macro" \in it.words.topics
MacroNews(sina, economic, telegraph, now) ==
    LET items == IF sina # <<>> THEN sina ELSE IF economic # <<>> THEN economic ELSE telegraph
    IN  Attached(Top(Dedupe(SelectSeq(items, MacroRelevant)), NewsShown), now)
\* fetch_global_news, fetch_stock_news, fetch_research_reports: one source where the first
\* has none; eight entries of each feed.
GlobalNews(feeds, fallback, now) ==
    LET items == FlattenSeq([i \in DOMAIN feeds |-> Top(feeds[i], 8)])
    IN  Attached(Top(Dedupe(IF items # <<>> THEN items ELSE fallback), NewsShown), now)
StockNews(own, telegraph, now) ==
    Attached(Top(Dedupe(IF own # <<>> THEN own ELSE telegraph), NewsShown), now)
ResearchReports(reports, news, now) ==
    Attached(Top(Dedupe(IF reports # <<>> THEN reports ELSE news), NewsShown), now)

-----------------------------------------------------------------------------
\* What is shown as a headline is fresh or has no time, is there once, and nothing newer
\* stands below it.
HeadlinesInOrder(telegraph, eastmoney, now) ==
    LET rows == Headlines(telegraph, eastmoney, now)
    IN  /\ \A i, j \in DOMAIN rows : i < j => SortTime(rows[i]) >= SortTime(rows[j])
        /\ \A i, j \in DOMAIN rows : rows[i].title # "" /\ rows[i].title = rows[j].title => i = j
        /\ \A i \in DOMAIN rows : rows[i].hour = NoHour \/ now - rows[i].hour < FreshHours
\* A weakened title never ranks as high as the same without the weakening, and never falls
\* below an ordinary negative one.
WeakenedIsBetween(words) ==
    LET strong == NewsLevel([words EXCEPT !.weak = FALSE])
        weak == NewsLevel([words EXCEPT !.weak = TRUE])
    IN  strong >= 4 => weak < strong /\ weak >= LevelOf.negative
\* An important piece of news is not lost to the ordinary ones, and never counts less.
ImportantFirst(limit, important, all) ==
    LET rows == Telegraph(<<>>, limit, important, all).rows
    IN  \A i \in 1 .. (IF Len(rows) < Len(Titled(important)) THEN Len(rows) ELSE Len(Titled(important))) :
            rows[i].title = Titled(important)[i].title

\* False of the code: a level is one of five (levistock_fetcher.py 229: "6" next to a 5,
\* "0" next to a 1); a later caller of the telegraph gets as many as he asks for (296); a
\* thread of a call that was given up is free again (news_fetcher.py 73).
LevelsInRange(said, words) == LevelSaid(said, NewsLevel(words)) \in 1 .. 5
TelegraphOfLimit(one, other, all) ==
    Len(Telegraph(Telegraph(<<>>, one, <<>>, all).kept, other, <<>>, all).rows) = Len(Top(all, other))
ThreadsReturn(stuck, answers) == AkCall(stuck, answers).stuck <= stuck
===============================================================================
