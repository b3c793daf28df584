------------------------------ MODULE HubCaches ------------------------------
(***************************************************************************)
(* What services/hub keeps beside the pool: the price bars of _kline.py,   *)
(* the news of _news.py, the sentiment of _regime_sentiment.py and the     *)
(* sector momentum of _sector.py.  Each is to outlive the failures of the  *)
(* source it comes from.  A value is the number of the fetch it came with, *)
(* 0 where there is none.                                                  *)
(***************************************************************************)
EXTENDS Integers
LOCAL INSTANCE FiniteSetsExt

CONSTANTS Syms, Rounds,     \* refreshes of bars, each asked for once
          Buckets, Readers, \* "headlines", "macro", "global"; threads that read news
          Day,              \* how long bars on disk are taken up again
          MaxFetches        \* bound: fetches of anything, and of the clock

ASSUME CachesAssumption == Day \in Nat /\ MaxFetches \in Nat

VARIABLES fetches,       \* the clock: one fetch, restart or pause after another
          bars, barsAt, stale,    \* _kline_cache_rows, _kline_cache_ts, _kline_stale_flags
          disk,       \* kline_cache.json and its mtime
          round,      \* refresh_kline calls between fetching and storing
          news, newsLock, reader, \* the buckets, whose lock object is set, the threads
          mood, moodFile, moodStep,   \* the sentiment, its file, the one task's step
          momentum    \* the sector momentum

klineVars == <<bars, barsAt, stale, disk, round>>
newsVars == <<news, newsLock, reader>>
moodVars == <<mood, moodFile, moodStep>>
cacheVars == <<fetches, klineVars, newsVars, moodVars, momentum>>

NoRows == [s \in Syms |-> 0]
NoNews == [b \in Buckets |-> 0]
NoDisk == [rows |-> NoRows, at |-> 0, mtime |-> 0]
IdleRound == [pc |-> "new", asked |-> {}, got |-> {}, at |-> 0]
IdleReader == [pc |-> "idle", own |-> "none", prev |-> NoNews, doubled |-> FALSE]

CachesInit ==
    /\ fetches = 1
    /\ bars = NoRows /\ barsAt = 0 /\ stale = {} /\ disk = NoDisk
    /\ round = [r \in Rounds |-> IdleRound]
    /\ news = NoNews /\ newsLock = "none" /\ reader = [n \in Readers |-> IdleReader]
    /\ mood = 0 /\ moodFile = 0 /\ moodStep = "idle"
    /\ momentum = 0

Turns == fetches < MaxFetches /\ fetches' = fetches + 1

-----------------------------------------------------------------------------
\* refresh_kline: every symbol is fetched, then the lock is taken.
Fetches(r, asked, got) ==
    /\ Turns /\ round[r].pc = "new" /\ asked # {}
    /\ round' = [round EXCEPT ![r] = [pc |-> "fetched", asked |-> asked, got |-> got,
                                      at |-> fetches]]
    /\ UNCHANGED <<bars, barsAt, stale, disk, newsVars, moodVars, momentum>>

\* What came replaces what was there, what failed stays and is flagged; one
\* stamp serves all symbols.  The file is written whenever there are rows.
KeepFailed(had, asked, got, at) == [s \in Syms |-> IF s \in got THEN at ELSE had[s]]
DropFailed(had, asked, got, at) ==
    [s \in Syms |-> IF s \in got THEN at ELSE IF s \in asked THEN 0 ELSE had[s]]
Merged(had, asked, got, at) == KeepFailed(had, asked, got, at)

Stores(r, written) ==
    LET q == round[r]
        now == Merged(bars, q.asked, q.got, q.at)
    IN  /\ q.pc = "fetched"
        /\ round' = [round EXCEPT ![r] = [IdleRound EXCEPT !.pc = "done"]]
        /\ bars' = now
        /\ barsAt' = IF q.got = {} THEN barsAt ELSE fetches
        /\ stale' = (stale \ q.got) \cup {s \in q.asked \ q.got : bars[s] # 0}
        /\ disk' = IF written /\ now # NoRows
                   THEN [rows |-> now, at |-> barsAt', mtime |-> fetches] ELSE disk
        /\ UNCHANGED <<fetches, newsVars, moodVars, momentum>>

\* A read within max_age looks at the one stamp.
ReadAsFresh(s, maxAge) == bars[s] # 0 /\ fetches - barsAt < maxAge

-----------------------------------------------------------------------------
\* The lock of the news is made when it is first needed: two threads that find
\* none make one each, and the attribute keeps the second.
LooksForLock(n) ==
    /\ Turns /\ reader[n].pc = "idle" /\ newsLock = "none"
    /\ reader' = [reader EXCEPT ![n].pc = "makes"]
    /\ UNCHANGED <<news, newsLock, klineVars, moodVars, momentum>>

\* A refresh notes whether another was under way with it.
Fetching(n) == reader[n].pc = "fetching"
HoldsLock(n, own) ==
    LET others == {m \in Readers \ {n} : Fetching(m)}
    IN  reader' = [m \in Readers |->
           IF m = n THEN [pc |-> "fetching", own |-> own, prev |-> news, doubled |-> others # {}]
           ELSE [reader[m] EXCEPT !.doubled = @ \/ m \in others]]

MakesLock(n) ==
    /\ reader[n].pc = "makes"
    /\ newsLock' = n /\ HoldsLock(n, n)
    /\ UNCHANGED <<fetches, news, klineVars, moodVars, momentum>>

\* A lock that is taken is not waited for: the buckets as they are must do.
NewsBusy == \E m \in Readers : Fetching(m) /\ reader[m].own = newsLock

TakesLock(n) ==
    /\ Turns /\ reader[n].pc = "idle" /\ newsLock # "none" /\ ~NewsBusy
    /\ HoldsLock(n, newsLock)
    /\ UNCHANGED <<news, newsLock, klineVars, moodVars, momentum>>

\* _refresh_news_buckets_safe: an empty bucket keeps its news; an exception
\* keeps all of them.
FallsBack(b, got, prev) == IF b \in got THEN fetches ELSE prev[b]
Blanked(b, got, prev) == IF b \in got THEN fetches ELSE 0
Bucket(b, got, prev) == FallsBack(b, got, prev)

NewsArrives(n, got) ==
    /\ Fetching(n)
    /\ news' = [b \in Buckets |-> Bucket(b, got, reader[n].prev)]
    /\ reader' = [reader EXCEPT ![n] = IdleReader]
    /\ UNCHANGED <<fetches, newsLock, klineVars, moodVars, momentum>>

NewsFails(n) ==
    /\ Fetching(n)
    /\ news' = IF news = NoNews THEN reader[n].prev ELSE news
    /\ reader' = [reader EXCEPT ![n] = IdleReader]
    /\ UNCHANGED <<fetches, newsLock, klineVars, moodVars, momentum>>

-----------------------------------------------------------------------------
\* refresh_sentiment_cache: the value first, then its file.
MoodArrives ==
    /\ Turns /\ moodStep = "idle"
    /\ mood' = fetches /\ moodStep' = "writing"
    /\ UNCHANGED <<moodFile, klineVars, newsVars, momentum>>

MoodWritten ==
    /\ moodStep = "writing" /\ moodFile' = mood /\ moodStep' = "idle"
    /\ UNCHANGED <<fetches, mood, klineVars, newsVars, momentum>>

\* What the file holds, if it can be read, takes the place of the value: after
\* a failure to fetch, and after a failure to write as well.
FromFile == mood' = IF moodFile = 0 THEN mood ELSE moodFile

MoodFails ==
    /\ Turns /\ moodStep = "idle" /\ FromFile
    /\ UNCHANGED <<moodFile, moodStep, klineVars, newsVars, momentum>>

\* The write fails before the old file is cut short, or after.
WriteFails(cut) ==
    /\ moodStep = "writing" /\ moodStep' = "idle"
    /\ IF cut THEN moodFile' = 0 /\ UNCHANGED mood ELSE FromFile /\ UNCHANGED moodFile
    /\ UNCHANGED <<fetches, klineVars, newsVars, momentum>>

-----------------------------------------------------------------------------
\* update_sector_cache keeps the momentum when none comes; the snapshot task a
\* refresh of the pool spawns stores what came, nothing included.
MomentumUpdated(came) ==
    /\ Turns /\ momentum' = IF came THEN fetches ELSE momentum
    /\ UNCHANGED <<klineVars, newsVars, moodVars>>

MomentumStored(came) ==
    /\ Turns /\ momentum' = IF came THEN fetches ELSE 0
    /\ UNCHANGED <<klineVars, newsVars, moodVars>>

-----------------------------------------------------------------------------
\* _load_kline_cache_sync takes the bars up when the file is young enough; the
\* rest begins empty.
TakenUp == fetches - disk.mtime <= Day

CachesRestart ==
    /\ Turns
    /\ bars' = IF TakenUp THEN disk.rows ELSE NoRows
    /\ barsAt' = IF TakenUp THEN disk.at ELSE 0
    /\ stale' = {}
    /\ round' = [r \in Rounds |-> IF round[r].pc = "new" THEN round[r]
                                  ELSE [IdleRound EXCEPT !.pc = "done"]]
    /\ news' = NoNews /\ newsLock' = "none" /\ reader' = [n \in Readers |-> IdleReader]
    /\ mood' = 0 /\ moodStep' = "idle" /\ momentum' = 0
    /\ UNCHANGED <<disk, moodFile>>

KlineNext ==
    \E r \in Rounds : \/ \E asked \in SUBSET Syms : \E got \in SUBSET asked :
                            Fetches(r, asked, got)
                      \/ \E w \in BOOLEAN : Stores(r, w)

NewsNext ==
    \E n \in Readers : \/ LooksForLock(n) \/ MakesLock(n) \/ TakesLock(n) \/ NewsFails(n)
                       \/ \E got \in SUBSET Buckets : NewsArrives(n, got)

MoodNext == \/ MoodArrives \/ MoodWritten \/ MoodFails
            \/ \E cut \in BOOLEAN : WriteFails(cut)

MomentumNext == \E came \in BOOLEAN : MomentumUpdated(came) \/ MomentumStored(came)

CachesNext == KlineNext \/ NewsNext \/ MoodNext \/ MomentumNext \/ CachesRestart

-----------------------------------------------------------------------------
\* A restart is the step that takes the clock on and leaves every task behind.
Restarted == /\ fetches' # fetches /\ mood' = 0 /\ momentum' = 0 /\ newsLock' = "none"
             /\ news' = NoNews /\ stale' = {} /\ moodStep' = "idle"

\* What a cache has outlives a source that fails: bars are never lost, through
\* a restart either while their file is young; a bucket of news never runs
\* empty, but where two threads made a lock each; the sentiment never goes back to
\* an older one, unless its file could not be written.
LastGoodKept ==
    [][/\ \A s \in Syms : bars[s] # 0 /\ ~Restarted => bars'[s] # 0
       /\ Restarted /\ TakenUp => \A s \in Syms : disk.rows[s] # 0 => bars'[s] # 0
       /\ \A b \in Buckets : news[b] # 0 /\ ~Restarted => 
             news'[b] # 0 \/ \E n \in Readers : reader[n].doubled /\ ~Fetching(n)'
       /\ mood' < mood /\ ~Restarted => moodStep = "writing" \/ moodFile # mood]_cacheVars

\* get_kline_rows: "max_age: 缓存最大时效".  Not so of the code: the stamp is
\* that of the last refresh of any symbol.
RowsAreFresh == \A s \in Syms : ReadAsFresh(s, 2) => fetches - bars[s] < 3

\* The momentum of the last good fetch is kept.  Not so of the code, see
\* MomentumStored.
MomentumKept == [][momentum # 0 => momentum' # 0 \/ Restarted]_cacheVars
=============================================================================
