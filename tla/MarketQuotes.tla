----------------------------- MODULE MarketQuotes -----------------------------
(***************************************************************************)
(* services/market_service.py: the quotes of one instrument, of a batch    *)
(* and of the portfolio, with the caches between them and the sources.  A  *)
(* quote is the moment its source was asked; 0 is no quote.                *)
(***************************************************************************)
EXTENDS Integers

CONSTANTS Askers,       \* callers at a time
          QuotedSyms, TypeOf,       \* symbols, and the market each is asked for in
          MicroTTL, LastGoodTTL, PortfolioTTL, \* 3 s, 24 h, 15 s
          CallLimit,    \* how long a source is waited for: 8 to 15 s
          MaxQuoteClock \* bound: the clock

ASSUME QuotesAssumption ==
    /\ TypeOf \in [QuotedSyms -> {"A", "HK", "US"}]
    /\ {MicroTTL, LastGoodTTL, PortfolioTTL, CallLimit, MaxQuoteClock} \subseteq Nat
    /\ Askers \subseteq Nat

VARIABLES qclock,
          micro,        \* _asset_realtime_cache: what was answered, and when
          lastGood,     \* quote:<type>:<symbol> of the cache: the quote, until when
          folio,        \* portfolio:realtime: the quotes, with the funds or without, until when
          asker,        \* the calls under way
          late,         \* US routes that go on after their caller gave up
          told          \* what this step answered: for whom, a quote, with the funds or not

quoteVars == <<qclock, micro, lastGood, folio, asker, late, told>>

None == [at |-> 0, marked |-> FALSE]
Quote(at) == [at |-> at, marked |-> FALSE]
NoMicro == [quote |-> None, since |-> -1]
NoGood == [quote |-> None, until |-> 0]
NoFolio == [quotes |-> [s \in QuotedSyms |-> None], funds |-> FALSE, until |-> 0]
IdleAsker == [pc |-> "idle", kind |-> "none", syms |-> {}, got |-> [s \in QuotedSyms |-> None], began |-> 0]
Untold == [kind |-> "none", quote |-> None, funds |-> FALSE]

QuotesInit ==
    /\ qclock = 1
    /\ micro = [s \in QuotedSyms |-> NoMicro] /\ lastGood = [s \in QuotedSyms |-> NoGood]
    /\ folio = NoFolio /\ late = {} /\ told = Untold
    /\ asker = [c \in Askers |-> IdleAsker]

Answer(kind, q, funds) == told' = [kind |-> kind, quote |-> q, funds |-> funds]
Silent == told' = Untold

MicroFresh(s, now) == micro[s].since >= 0 /\ now - micro[s].since < MicroTTL

\* Time passes at the sources, none of which is waited for beyond its limit; what
\* lies between two awaits of a call takes none.  What expired is as good as gone.
QuoteTick ==
    /\ qclock < MaxQuoteClock
    /\ \A c \in Askers : \/ asker[c].pc = "idle"
                        \/ (asker[c].pc = "source" /\ qclock < asker[c].began + CallLimit)
    /\ qclock' = qclock + 1
    /\ micro' = [s \in QuotedSyms |-> IF MicroFresh(s, qclock + 1) THEN micro[s] ELSE NoMicro]
    /\ lastGood' = [s \in QuotedSyms |-> IF lastGood[s].until > qclock THEN lastGood[s] ELSE NoGood]
    /\ folio' = IF folio.until > qclock THEN folio ELSE NoFolio
    /\ Silent /\ UNCHANGED <<asker, late>>

\* Callers are alike: the first that is idle is the next to ask.
Comes(c) == asker[c].pc = "idle" /\ \A d \in Askers : d < c => asker[d].pc # "idle"
Goes(c, pc) == asker' = [asker EXCEPT ![c].pc = pc]
EndsAsk(c) == asker' = [asker EXCEPT ![c] = IdleAsker]

-----------------------------------------------------------------------------
\* get_asset_realtime.
AsksAsset(c, s) ==
    /\ Comes(c)
    /\ IF MicroFresh(s, qclock) THEN Answer("asset", micro[s].quote, FALSE) /\ UNCHANGED asker
       ELSE /\ asker' = [asker EXCEPT ![c] = [IdleAsker EXCEPT !.pc = "source", !.kind = "asset",
                                              !.syms = {s}, !.began = qclock]]
            /\ Silent
    /\ UNCHANGED <<qclock, micro, lastGood, folio, late>>

SymOf(c) == CHOOSE s \in asker[c].syms : TRUE
Waits(c, kind) == asker[c].pc = "source" /\ asker[c].kind = kind

SourceAnswersAsset(c) ==
    /\ Waits(c, "asset")
    /\ asker' = [asker EXCEPT ![c].got[SymOf(c)] = Quote(asker[c].began), ![c].pc = "keeps"]
    /\ Silent /\ UNCHANGED <<qclock, micro, lastGood, folio, late>>

\* No answer: in Hong Kong the last good quote steps in, marked; a US route that is
\* only slow goes on without its caller.
Good(s) == lastGood[s].quote
Marked(q) == [q EXCEPT !.marked = TRUE]
Unmarked(q) == q
Estimated(q) == Marked(q)

SourceFailsAsset(c, slow) ==
    /\ Waits(c, "asset") /\ (slow => TypeOf[SymOf(c)] = "US")
    /\ LET s == SymOf(c)
           step == TypeOf[s] = "HK" /\ Good(s) # None
       IN  asker' = [asker EXCEPT ![c].got[s] = IF step THEN Estimated(Good(s)) ELSE None,
                                  ![c].pc = IF step THEN "keeps" ELSE "remembers"]
    /\ late' = IF slow THEN late \cup {<<SymOf(c), asker[c].began>>} ELSE late
    /\ Silent /\ UNCHANGED <<qclock, micro, lastGood, folio>>

\* What has a price is kept as the last good one from now on, an estimate like the rest.
Keeps(s, q) == [lastGood EXCEPT ![s] = [quote |-> q, until |-> qclock + LastGoodTTL]]
KeepsAsset(c) ==
    /\ asker[c].pc = "keeps" /\ asker[c].kind = "asset"
    /\ lastGood' = Keeps(SymOf(c), asker[c].got[SymOf(c)])
    /\ Goes(c, "remembers")
    /\ Silent /\ UNCHANGED <<qclock, micro, folio, late>>

RemembersAsset(c) ==
    /\ asker[c].pc = "remembers"
    /\ LET s == SymOf(c)
       IN  /\ micro' = [micro EXCEPT ![s] = [quote |-> asker[c].got[s], since |-> qclock]]
           /\ Answer("asset", asker[c].got[s], FALSE)
    /\ EndsAsk(c)
    /\ UNCHANGED <<qclock, lastGood, folio, late>>

\* _write_us_last_good_later, for a route that came to an end after all.
LateRouteEnds(r, answered) ==
    /\ r \in late /\ late' = late \ {r}
    /\ lastGood' = IF answered THEN Keeps(r[1], Quote(r[2])) ELSE lastGood
    /\ Silent /\ UNCHANGED <<qclock, micro, folio, asker>>

-----------------------------------------------------------------------------
\* get_realtime_batch of the mainland, alone or for the portfolio: what the cache
\* holds is taken whatever its age, the rest is one call.
ASyms == {s \in QuotedSyms : TypeOf[s] = "A"}
Cached == [s \in QuotedSyms |-> IF s \in ASyms THEN Good(s) ELSE None]

AsksBatch(c, kind) ==
    /\ Comes(c)
    /\ kind # "batch" => folio = NoFolio
    /\ LET misses == {s \in ASyms : Cached[s] = None}
       IN  asker' = [asker EXCEPT ![c] = [pc |-> IF misses = {} THEN "composes" ELSE "source",
                                          kind |-> kind, syms |-> misses, got |-> Cached,
                                          began |-> qclock]]
    /\ Silent /\ UNCHANGED <<qclock, micro, lastGood, folio, late>>

\* Found, kept for a day each, and put beside the ones of the cache.
SourceAnswersBatch(c, found) ==
    LET q == asker[c]
    IN  /\ q.pc = "source" /\ q.kind # "asset" /\ found \subseteq q.syms
        /\ asker' = [asker EXCEPT ![c].got = [s \in QuotedSyms |-> IF s \in found THEN Quote(q.began)
                                                              ELSE q.got[s]],
                                  ![c].pc = "composes"]
        /\ lastGood' = [s \in QuotedSyms |-> IF s \in found
                                         THEN [quote |-> Quote(q.began),
                                               until |-> qclock + LastGoodTTL]
                                         ELSE lastGood[s]]
        /\ Silent /\ UNCHANGED <<qclock, micro, folio, late>>

AnswersBatch(c) ==
    /\ asker[c].pc = "composes" /\ asker[c].kind = "batch"
    /\ \E s \in ASyms : Answer("batch", asker[c].got[s], FALSE)
    /\ EndsAsk(c)
    /\ UNCHANGED <<qclock, micro, lastGood, folio, late>>

\* get_portfolio_realtime: whoever asks, in whichever phase, is given what is kept;
\* otherwise "fast" leaves the funds without an exchange out.
ReadsPortfolio(c, phase) ==
    /\ Comes(c) /\ folio # NoFolio
    /\ \E s \in ASyms : Answer(phase, folio.quotes[s], folio.funds)
    /\ UNCHANGED <<qclock, micro, lastGood, folio, asker, late>>

ComposesPortfolio(c) ==
    LET phase == asker[c].kind
    IN  /\ asker[c].pc = "composes" /\ phase \in {"fast", "slow"}
        /\ folio' = [quotes |-> asker[c].got, funds |-> phase = "slow",
                     until |-> qclock + PortfolioTTL]
        /\ \E s \in ASyms : Answer(phase, asker[c].got[s], phase = "slow")
        /\ EndsAsk(c)
        /\ UNCHANGED <<qclock, micro, lastGood, late>>

-----------------------------------------------------------------------------
\* Calls about the symbols "about"; the batch is of all symbols of the mainland.
QuotesNext(about) ==
    \/ QuoteTick
    \/ \E c \in Askers :
          \/ \E s \in about : AsksAsset(c, s)
          \/ SourceAnswersAsset(c) \/ KeepsAsset(c) \/ RemembersAsset(c)
          \/ \E slow \in BOOLEAN : SourceFailsAsset(c, slow)
          \/ /\ about \cap ASyms # {}
             /\ \/ \E kind \in {"batch", "fast", "slow"} : AsksBatch(c, kind)
                \/ \E found \in SUBSET ASyms : SourceAnswersBatch(c, found)
                \/ AnswersBatch(c) \/ ComposesPortfolio(c)
                \/ \E phase \in {"fast", "slow"} : ReadsPortfolio(c, phase)
    \/ \E r \in late, answered \in BOOLEAN : LateRouteEnds(r, answered)

-----------------------------------------------------------------------------
\* How old the price of an answer is at most that does not say it is an estimate:
\* moments for one instrument, a day for the batch and the portfolio, whatever
\* caches it went through (CACHE_TTL and _LAST_GOOD_TTL).  A batch waits for what it
\* misses while the quotes it took from the cache grow older.
Oldest == [asset |-> CallLimit + MicroTTL, batch |-> 2 * CallLimit + LastGoodTTL,
           fast |-> 2 * CallLimit + LastGoodTTL + PortfolioTTL,
           slow |-> 2 * CallLimit + LastGoodTTL + PortfolioTTL]
UnmarkedIsRecent ==
    told.quote # None /\ ~told.quote.marked => qclock - told.quote.at <= Oldest[told.kind]

\* Claims false of the code.  An as_of is of the moment the source was asked
\* (market_service.py 1243 and 1613); a price is marked last good for a day at most
\* (_LAST_GOOD_TTL); once the slow phase ran the portfolio has its funds
\* (tasks/market_refresh.py 29-31).
AsOf(s) == lastGood[s].until - LastGoodTTL
StampsAreHonest ==
    \A s \in QuotedSyms : lastGood[s].quote # None => AsOf(s) - lastGood[s].quote.at <= CallLimit
MarkedForADay == told.quote.marked => qclock - told.quote.at <= CallLimit + LastGoodTTL
SlowFillsIn == told.kind = "slow" => told.funds
===============================================================================
