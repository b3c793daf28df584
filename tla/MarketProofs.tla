---------------------------- MODULE MarketProofs ----------------------------
(***************************************************************************)
(* Proofs about the market data: the two tiers of the cache, the ages of   *)
(* quotes, the prices of the global indices, the coefficients of the       *)
(* factors and the breaker of the sources all of it comes from.            *)
(***************************************************************************)
EXTENDS CacheTiers, MarketQuotes, GlobalIndices, SourceBreaker, FactorIC,
        FiniteSetTheorems, WellFoundedInduction, TLAPS

-----------------------------------------------------------------------------
(* CacheTiers *)

TiersSpec == TiersInit /\ [][TiersNext]_tierVars

Slot == [value : Nat, until : Nat]

TiersTyped ==
    /\ cclock \in Nat /\ writes \in Nat /\ newestRead \in Nat /\ split \in BOOLEAN
    /\ redis \in Slot /\ memory \in Slot /\ writing \in [Writers -> Nat]
    /\ reading \in [CacheReaders -> {NotReading} \cup [floor : Nat, blind : BOOLEAN]]

\* No value is newer than the last write that began, and none lives longer than it may.
NoneAhead ==
    /\ memory.value <= writes /\ redis.value <= writes /\ newestRead <= writes
    /\ \A w \in Writers : writing[w] <= writes
    /\ \A r \in CacheReaders : reading[r].floor <= newestRead
    /\ memory.until <= cclock + Ttl /\ redis.until <= cclock + Ttl

\* Tiers that are not split: Redis has the newest, and the memory has the same, or an
\* older value that expires no later and that a write under way will replace.
TiersAgree ==
    ~split =>
        /\ newestRead <= redis.value /\ memory.value <= redis.value
        /\ memory.value < redis.value /\ memory # NoEntry =>
              /\ memory.until <= redis.until
              /\ \E w \in Writers : writing[w] = redis.value

\* What a reader that waits for the memory may find there is as new as what had been
\* read when it began.
NoneOlder ==
    ~split /\ Alive(memory) /\ memory.value # 0 =>
        \A r \in CacheReaders : ~reading[r].blind => memory.value >= reading[r].floor

TiersInv == TiersTyped /\ NoneAhead /\ TiersAgree /\ NoneOlder /\ NeverBackInTime

LEMMA NoEntryIsEmpty == NoEntry \in Slot /\ NoEntry.value = 0 /\ NoEntry.until = 0
BY DEF NoEntry, Held, Slot

LEMMA NotReadingIs == NotReading.floor = -1 /\ NotReading.blind = FALSE
<1>1. NotReading = [floor |-> -1, blind |-> FALSE]
  BY DEF NotReading, Awaits
<1>2. NotReading.floor = -1
  BY <1>1
<1>3. NotReading.blind = FALSE
  BY <1>1
<1> QED BY <1>2, <1>3

LEMMA TiersStart == TiersInit => TiersInv
<1> SUFFICES ASSUME TiersInit PROVE TiersInv
  OBVIOUS
<1> USE NoEntryIsEmpty, NotReadingIs, TiersAssumption DEF TiersInit
<1>1. TiersTyped
  BY DEF TiersTyped
<1>2. NoneAhead
  BY DEF NoneAhead
<1>3. TiersAgree /\ NoneOlder
  BY DEF TiersAgree, NoneOlder
<1>4. NeverBackInTime
  BY DEF NeverBackInTime, Read
<1> QED BY <1>1, <1>2, <1>3, <1>4 DEF TiersInv

\* A write's first half: Redis takes the lead, or misses it.
LEMMA WritesRedisOK == ASSUME TiersInv, NEW w \in Writers, WritesRedis(w) PROVE TiersInv'
<1> USE TiersAssumption DEF TiersInv, TiersTyped, NoneAhead, Slot
<1>1. /\ writes' = writes + 1 /\ writing' = [writing EXCEPT ![w] = writes + 1]
      /\ writing[w] = 0
      /\ redis' = redis \/ redis' = [value |-> writes + 1, until |-> cclock + Ttl]
      /\ UNCHANGED <<cclock, memory, reading, split, newestRead, readOut>>
  BY DEF WritesRedis, HistorySame, Held
<1>2. TiersTyped' /\ NoneAhead'
  BY <1>1
<1>3. TiersAgree'
  <2>1. CASE redis' = redis
    BY <1>1, <2>1 DEF TiersAgree
  <2>2. CASE redis' = [value |-> writes + 1, until |-> cclock + Ttl]
    <3>1. writing'[w] = redis'.value
      BY <1>1, <2>2
    <3> QED BY <1>1, <2>2, <3>1 DEF TiersAgree
  <2> QED BY <1>1, <2>1, <2>2
<1>4. NoneOlder' /\ NeverBackInTime'
  BY <1>1 DEF NoneOlder, NeverBackInTime, Alive
<1> QED BY <1>2, <1>3, <1>4

\* A write's second half: the tiers agree, or count as split.
LEMMA WritesMemoryOK == ASSUME TiersInv, NEW w \in Writers, WritesMemory(w) PROVE TiersInv'
<1> USE TiersAssumption DEF TiersInv, TiersTyped, NoneAhead, Slot
<1>1. /\ memory' = [value |-> writing[w], until |-> cclock + Ttl]
      /\ writing' = [writing EXCEPT ![w] = 0]
      /\ ~split' => writing[w] = redis.value /\ (~split \/ writing[w] = writes)
      /\ split' \in BOOLEAN
      /\ UNCHANGED <<cclock, writes, redis, reading, newestRead, readOut>>
  BY DEF WritesMemory, Held
<1>2. TiersTyped' /\ NoneAhead'
  BY <1>1
<1>3. ~split' => memory'.value = redis.value /\ newestRead <= redis.value
  BY <1>1 DEF TiersAgree
<1>4. TiersAgree' /\ NoneOlder' /\ NeverBackInTime'
  <2>1. \A r \in CacheReaders : reading[r].floor \in Int
    BY NotReadingIs
  <2> QED BY <1>1, <1>3, <2>1 DEF TiersAgree, NoneOlder, NeverBackInTime
<1> QED BY <1>2, <1>4

\* A read's first half.  Where Redis has nothing the memory has nothing older, unless
\* the GET failed beside a write that is half done.
LEMMA ReadsRedisOK == ASSUME TiersInv, NEW r \in CacheReaders, ReadsRedis(r) PROVE TiersInv'
<1> USE TiersAssumption DEF TiersInv, TiersTyped, NoneAhead, Slot
<1>1. UNCHANGED <<cclock, writes, redis, memory, writing, split>>
  BY DEF ReadsRedis
<1> DEFINE blind == ~Reaches /\ \E w \in Writers : writing[w] # 0
           found == Reaches /\ redis.value # 0 /\ Alive(redis)
<1>2. CASE found
  <2>1. /\ readOut' = [value |-> redis.value, floor |-> newestRead, excused |-> split]
        /\ newestRead' = IF redis.value > newestRead THEN redis.value ELSE newestRead
        /\ reading' = reading
    BY <1>2 DEF ReadsRedis, Gives, Read
  <2> HIDE DEF found
  <2>2. TiersTyped' /\ NoneAhead'
    BY <1>1, <2>1, NotReadingIs
  <2>3. TiersAgree' /\ NoneOlder'
    BY <1>1, <2>1 DEF TiersAgree, NoneOlder, Alive
  <2>4. ~split => redis.value >= newestRead
    BY DEF TiersAgree
  <2>5. NeverBackInTime'
    <3>1. readOut'.value = redis.value /\ readOut'.floor = newestRead
      BY <2>1
    <3>2. readOut'.excused = split
      BY <2>1
    <3> QED BY <2>4, <3>1, <3>2 DEF NeverBackInTime
  <2> QED BY <2>2, <2>3, <2>5
<1>3. CASE ~found
  <2>1. /\ reading' = [reading EXCEPT ![r] = [floor |-> newestRead, blind |-> blind]]
        /\ UNCHANGED <<newestRead, readOut>>
    BY <1>3 DEF ReadsRedis, Awaits
  <2>2. blind \in BOOLEAN
    OBVIOUS
  <2>3. ~split /\ ~blind /\ Alive(memory) /\ memory.value # 0 => memory.value >= newestRead
    <3>1. CASE Reaches
      BY <1>3, <3>1, NoEntryIsEmpty DEF TiersAgree, Alive
    <3>2. CASE ~Reaches
      BY <3>2, NoEntryIsEmpty DEF TiersAgree
    <3> QED BY <3>1, <3>2
  <2> HIDE DEF blind, found
  <2>4. TiersTyped' /\ NoneAhead'
    BY <1>1, <2>1, <2>2
  <2>5. TiersAgree' /\ NeverBackInTime'
    BY <1>1, <2>1 DEF TiersAgree, NeverBackInTime
  <2>6. NoneOlder'
    BY <1>1, <2>1, <2>3 DEF NoneOlder, Alive
  <2> QED BY <2>4, <2>5, <2>6
<1> QED BY <1>2, <1>3

\* A read's second half.
LEMMA ReadsMemoryOK == ASSUME TiersInv, NEW r \in CacheReaders, ReadsMemory(r) PROVE TiersInv'
<1> USE TiersAssumption DEF TiersInv, TiersTyped, NoneAhead, Slot
<1> DEFINE got == IF Alive(memory) THEN memory.value ELSE 0
<1>1. /\ reading[r].floor \in Nat /\ reading' = [reading EXCEPT ![r] = NotReading]
      /\ readOut' = [value |-> got, floor |-> reading[r].floor,
                     excused |-> split \/ reading[r].blind]
      /\ newestRead' = IF got > newestRead THEN got ELSE newestRead
      /\ memory' = memory \/ memory' = NoEntry
      /\ UNCHANGED <<cclock, writes, redis, writing, split>>
  BY DEF ReadsMemory, Gives, Read
<1>2. got \in Nat /\ got <= memory.value
  OBVIOUS
<1>3. NeverBackInTime'
  BY <1>1 DEF NoneOlder, NeverBackInTime
<1> HIDE DEF got
<1>4. newestRead' \in Nat /\ newestRead <= newestRead' /\ newestRead' <= writes
  BY <1>1, <1>2
<1>5. TiersTyped' /\ NoneAhead'
  BY <1>1, <1>4, NoEntryIsEmpty, NotReadingIs
<1>6. TiersAgree'
  BY <1>1, <1>2, NoEntryIsEmpty DEF TiersAgree
<1>7. NoneOlder'
  BY <1>1, NoEntryIsEmpty, NotReadingIs DEF NoneOlder, Alive
<1> QED BY <1>3, <1>5, <1>6, <1>7

\* One step per action.
LEMMA TiersStep == TiersInv /\ [TiersNext]_tierVars => TiersInv'
<1> SUFFICES ASSUME TiersInv, [TiersNext]_tierVars PROVE TiersInv'
  OBVIOUS
<1>1. CASE CacheTick
  <2> USE <1>1, TiersAssumption DEF CacheTick, HistorySame, TiersInv, TiersTyped
  <2>1. TiersTyped' /\ NoneAhead'
    BY DEF NoneAhead, Slot
  <2>2. TiersAgree' /\ NeverBackInTime'
    BY DEF TiersAgree, NeverBackInTime
  <2>3. NoneOlder'
    BY DEF NoneOlder, Alive, Slot
  <2> QED BY <2>1, <2>2, <2>3
<1>2. CASE ProbesRedis \/ ServerTurns \/ UNCHANGED tierVars
  BY <1>2 DEF ProbesRedis, ServerTurns, HistorySame, tierVars, TiersInv, TiersTyped,
              NoneAhead, TiersAgree, NoneOlder, NeverBackInTime, Alive
<1>3. ASSUME NEW w \in Writers, WritesRedis(w) \/ WritesMemory(w) PROVE TiersInv'
  BY <1>3, WritesRedisOK, WritesMemoryOK
<1>4. ASSUME NEW r \in CacheReaders, ReadsRedis(r) \/ ReadsMemory(r) PROVE TiersInv'
  BY <1>4, ReadsRedisOK, ReadsMemoryOK
<1> QED BY <1>1, <1>2, <1>3, <1>4 DEF TiersNext

\* For any writers, readers and times to live, across outages and expiry: a reader is
\* taken back behind what had been read when it began only by writes that crossed or
\* missed Redis, or by a failed GET beside a write that is half done.
THEOREM NeverBack == TiersSpec => []NeverBackInTime
<1>1. TiersInv => NeverBackInTime
  BY DEF TiersInv
<1> QED BY <1>1, TiersStart, TiersStep, PTL DEF TiersSpec

-----------------------------------------------------------------------------
(* MarketQuotes *)

QuotesSpec == QuotesInit /\ [][QuotesNext(QuotedSyms)]_quoteVars

QuoteType == [at : Nat, marked : BOOLEAN]

\* A quote that is there and does not say that it is an estimate is of t or later.
Since(q, t) == q # None /\ ~q.marked => q.at >= t

\* What a call that is under way holds: it has waited no longer than it may, and what
\* it found is of its own source call, or of the cache when the call began.
Chosen(call) == CHOOSE s \in call.syms : TRUE
CallOK(call) ==
    /\ call.syms \subseteq QuotedSyms /\ call.got \in [QuotedSyms -> QuoteType]
    /\ call.began \in Nat
    /\ call.pc # "idle" => call.began <= qclock /\ qclock <= call.began + CallLimit
    /\ call.pc \in {"keeps", "remembers"} => call.kind = "asset"
    /\ call.pc # "idle" /\ call.kind = "asset" => call.syms # {}
    /\ call.pc \in {"keeps", "remembers"} => Since(call.got[Chosen(call)], call.began)
    /\ call.pc \in {"source", "composes"} /\ call.kind # "asset" =>
          /\ call.kind \in {"batch", "fast", "slow"}
          /\ \A s \in ASyms : Since(call.got[s], call.began - LastGoodTTL - CallLimit)

CallType == [pc : {"idle", "source", "keeps", "remembers", "composes"},
             kind : {"none", "asset", "batch", "fast", "slow"}, syms : SUBSET QuotedSyms,
             got : [QuotedSyms -> QuoteType], began : Nat]
CallsOK == /\ asker \in [Askers -> CallType]
           /\ \A c \in Askers : CallOK(asker[c])

\* What the caches hold was of its moment when it came in; only the late routes of
\* the American market bring in what is older.
MicroOK ==
    /\ micro \in [QuotedSyms -> [quote : QuoteType, since : Int]]
    /\ \A s \in QuotedSyms :
          micro[s].since >= 0 => Since(micro[s].quote, micro[s].since - CallLimit)
LastGoodOK ==
    /\ lastGood \in [QuotedSyms -> [quote : QuoteType, until : Nat]]
    /\ late \subseteq {s \in QuotedSyms : TypeOf[s] = "US"} \X Nat
    /\ \A s \in QuotedSyms : TypeOf[s] # "US" /\ lastGood[s].quote # None =>
          /\ lastGood[s].until >= qclock
          /\ Since(lastGood[s].quote, lastGood[s].until - LastGoodTTL - CallLimit)
FolioOK ==
    /\ folio \in [quotes : [QuotedSyms -> QuoteType], funds : BOOLEAN, until : Nat]
    /\ folio # NoFolio => folio.until >= qclock
    /\ \A s \in ASyms :
          Since(folio.quotes[s], folio.until - PortfolioTTL - LastGoodTTL - 2 * CallLimit)

QuotesInv == qclock \in Nat /\ CallsOK /\ MicroOK /\ LastGoodOK /\ FolioOK /\ UnmarkedIsRecent

LEMMA NoneTyped == None \in QuoteType /\ \A t : Since(None, t)
BY DEF None, QuoteType, Since

LEMMA QuotesStart == QuotesInit => QuotesInv
<1> SUFFICES ASSUME QuotesInit PROVE QuotesInv
  OBVIOUS
<1> USE NoneTyped, QuotesAssumption DEF QuotesInit
<1>1. CallsOK
  BY DEF CallsOK, CallType, CallOK, IdleAsker
<1>2. MicroOK
  BY DEF MicroOK, NoMicro
<1>3. LastGoodOK
  BY DEF LastGoodOK, NoGood
<1>4. FolioOK
  BY DEF FolioOK, NoFolio, ASyms
<1>5. UnmarkedIsRecent
  BY DEF UnmarkedIsRecent, Untold
<1> QED BY <1>1, <1>2, <1>3, <1>4, <1>5 DEF QuotesInv

\* Within a moment nothing grows older.
LEMMA SameMoment ==
    ASSUME UNCHANGED qclock
    PROVE  /\ UNCHANGED asker /\ CallsOK => CallsOK'
           /\ UNCHANGED micro /\ MicroOK => MicroOK'
           /\ UNCHANGED <<lastGood, late>> /\ LastGoodOK => LastGoodOK'
           /\ UNCHANGED folio /\ FolioOK => FolioOK'
BY DEF CallsOK, CallType, CallOK, MicroOK, LastGoodOK, FolioOK

LEMMA OneCallMoves ==
    ASSUME CallsOK, NEW c \in Askers, NEW call, UNCHANGED qclock,
           asker' = [asker EXCEPT ![c] = call],
           call \in CallType, CallOK(call)
    PROVE  CallsOK'
BY DEF CallsOK, CallType, CallOK

LEMMA CallGoesOn ==
    ASSUME NEW old \in CallType, NEW got \in [QuotedSyms -> QuoteType],
           NEW pc \in {"idle", "source", "keeps", "remembers", "composes"}
    PROVE  [old EXCEPT !.got = got, !.pc = pc] \in CallType
BY DEF CallType

LEMMA SilentIsRecent == Silent => UnmarkedIsRecent'
BY DEF Silent, Untold, UnmarkedIsRecent

LEMMA EndsWell == ASSUME CallsOK, NEW c \in Askers, UNCHANGED qclock, EndsAsk(c) PROVE CallsOK'
<1>1. CallOK(IdleAsker)
  BY NoneTyped DEF CallOK, IdleAsker
<1>2. IdleAsker \in CallType
  BY NoneTyped DEF CallType, IdleAsker
<1> QED BY <1>1, <1>2, OneCallMoves DEF EndsAsk

\* Time passes only while every call may still wait; what expired is gone.
LEMMA TickOK == ASSUME QuotesInv, QuoteTick PROVE QuotesInv'
<1> USE QuotesAssumption DEF QuotesInv, QuoteTick
<1>1. CallsOK'
  BY DEF CallsOK, CallType, CallOK, ASyms
<1>2. MicroOK'
  BY NoneTyped DEF MicroOK, NoMicro
<1>3. LastGoodOK'
  BY NoneTyped DEF LastGoodOK, NoGood
<1>4. FolioOK'
  <2>1. CASE folio.until > qclock
    BY <2>1 DEF FolioOK
  <2>2. CASE ~(folio.until > qclock)
    BY <2>2, NoneTyped DEF FolioOK, NoFolio, ASyms
  <2> QED BY <2>1, <2>2
<1> QED BY <1>1, <1>2, <1>3, <1>4, SilentIsRecent

\* One instrument.
LEMMA AsksAssetOK ==
    ASSUME QuotesInv, NEW c \in Askers, NEW s \in QuotedSyms, AsksAsset(c, s) PROVE QuotesInv'
<1> USE QuotesAssumption DEF QuotesInv
<1>1. MicroOK' /\ LastGoodOK' /\ FolioOK' /\ qclock' = qclock
  BY SameMoment DEF AsksAsset
<1>2. CASE MicroFresh(s, qclock)
  <2>1. CallsOK'
    BY <1>2, <1>1, SameMoment DEF AsksAsset
  <2>2. UnmarkedIsRecent'
    <3>1. told' = [kind |-> "asset", quote |-> micro[s].quote, funds |-> FALSE]
      BY <1>2 DEF AsksAsset, Answer
    <3>2. micro[s].quote # None /\ ~micro[s].quote.marked
             => qclock - micro[s].quote.at <= CallLimit + MicroTTL
      BY <1>2 DEF MicroFresh, MicroOK, Since, QuoteType
    <3> QED BY <3>1, <3>2, <1>1 DEF UnmarkedIsRecent, Oldest
  <2> QED BY <1>1, <2>1, <2>2
<1>3. CASE ~MicroFresh(s, qclock)
  <2> DEFINE blank == [t \in QuotedSyms |-> None]
             call == [pc |-> "source", kind |-> "asset", syms |-> {s}, got |-> blank,
                      began |-> qclock]
  <2>1. asker' = [asker EXCEPT ![c] = call] /\ Silent
    BY <1>3 DEF AsksAsset, IdleAsker
  <2>2. blank \in [QuotedSyms -> QuoteType]
    BY NoneTyped
  <2> HIDE DEF blank
  <2>3. CallOK(call)
    BY <2>2 DEF CallOK
  <2>4. call \in CallType
    BY <2>2 DEF CallType
  <2>5. CallsOK'
    BY <2>1, <2>3, <2>4, <1>1, OneCallMoves
  <2> QED BY <1>1, <2>1, <2>5, SilentIsRecent
<1> QED BY <1>2, <1>3

LEMMA SourceAnswersAssetOK ==
    ASSUME QuotesInv, NEW c \in Askers, SourceAnswersAsset(c) PROVE QuotesInv'
<1> USE QuotesAssumption DEF QuotesInv
<1>1. MicroOK' /\ LastGoodOK' /\ FolioOK' /\ qclock' = qclock
  BY SameMoment DEF SourceAnswersAsset
<1> DEFINE old == asker[c]
           got == [old.got EXCEPT ![SymOf(c)] = Quote(old.began)]
           call == [old EXCEPT !.got = got, !.pc = "keeps"]
<1>2. /\ old.pc = "source" /\ old.kind = "asset" /\ SymOf(c) = Chosen(old)
      /\ old.syms # {} /\ SymOf(c) \in QuotedSyms /\ old.began \in Nat
  BY DEF SourceAnswersAsset, Waits, CallsOK, CallType, CallOK, SymOf, Chosen
<1>3. asker' = [asker EXCEPT ![c] = call]
  BY DEF SourceAnswersAsset, CallsOK, CallType
<1>4. Quote(old.began) \in QuoteType /\ Quote(old.began).at = old.began
  BY <1>2 DEF Quote, QuoteType
<1>5. got \in [QuotedSyms -> QuoteType] /\ got[SymOf(c)].at = old.began
  BY <1>2, <1>4 DEF CallsOK, CallType
<1> HIDE DEF got
<1>6. Chosen(call) = Chosen(old)
  BY DEF Chosen, CallsOK, CallType
<1>7. CallOK(call)
  BY <1>2, <1>5, <1>6 DEF CallsOK, CallType, CallOK, Since
<1>8. CallsOK'
  BY <1>1, <1>3, <1>5, <1>7, CallGoesOn, OneCallMoves DEF CallsOK
<1> QED BY <1>1, <1>8, SilentIsRecent DEF SourceAnswersAsset

LEMMA SourceFailsAssetOK ==
    ASSUME QuotesInv, NEW c \in Askers, NEW slow \in BOOLEAN, SourceFailsAsset(c, slow)
    PROVE  QuotesInv'
<1> USE QuotesAssumption DEF QuotesInv
<1>1. MicroOK' /\ FolioOK' /\ qclock' = qclock /\ lastGood' = lastGood
  BY SameMoment DEF SourceFailsAsset
<1> DEFINE old == asker[c]
           s == SymOf(c)
           step == TypeOf[s] = "HK" /\ Good(s) # None
           q == IF step THEN Estimated(Good(s)) ELSE None
           got == [old.got EXCEPT ![s] = q]
           pc == IF step THEN "keeps" ELSE "remembers"
           call == [old EXCEPT !.got = got, !.pc = pc]
<1>2. /\ old.pc = "source" /\ old.kind = "asset" /\ s = Chosen(old)
      /\ old.syms # {} /\ s \in QuotedSyms /\ old.began \in Nat
  BY DEF SourceFailsAsset, Waits, CallsOK, CallType, CallOK, SymOf, Chosen
<1>3. asker' = [asker EXCEPT ![c] = call]
  BY DEF SourceFailsAsset, CallsOK, CallType
<1>4. q \in QuoteType /\ Since(q, old.began)
  <2>1. Good(s) \in QuoteType
    BY <1>2 DEF Good, LastGoodOK
  <2>2. Estimated(Good(s)) \in QuoteType /\ Estimated(Good(s)).marked
    BY <2>1 DEF Estimated, Marked, QuoteType
  <2> QED BY <2>2, NoneTyped DEF Since
<1>5. got \in [QuotedSyms -> QuoteType] /\ Since(got[s], old.began)
  BY <1>2, <1>4 DEF CallsOK, CallType
<1>6. pc \in {"keeps", "remembers"}
  OBVIOUS
<1> HIDE DEF got, pc, q
<1>7. Chosen(call) = Chosen(old)
  BY DEF Chosen, CallsOK, CallType
<1>8. CallOK(call)
  BY <1>2, <1>5, <1>6, <1>7 DEF CallsOK, CallType, CallOK
<1>9. CallsOK'
  BY <1>1, <1>3, <1>5, <1>6, <1>8, CallGoesOn, OneCallMoves DEF CallsOK
<1>10. LastGoodOK'
  <2>1. late' \subseteq {t \in QuotedSyms : TypeOf[t] = "US"} \X Nat
    BY <1>2 DEF SourceFailsAsset, LastGoodOK
  <2> QED BY <2>1, <1>1 DEF LastGoodOK
<1> QED BY <1>1, <1>9, <1>10, SilentIsRecent DEF SourceFailsAsset

\* What is kept as the last good quote of a market other than the American is new.
LEMMA KeepingOK ==
    ASSUME LastGoodOK, qclock \in Nat, NEW s \in QuotedSyms, NEW q \in QuoteType,
           TypeOf[s] # "US" => Since(q, qclock - CallLimit),
           lastGood' = Keeps(s, q), late' \subseteq late, UNCHANGED qclock
    PROVE  LastGoodOK'
BY QuotesAssumption DEF LastGoodOK, Keeps

LEMMA KeepsAssetOK == ASSUME QuotesInv, NEW c \in Askers, KeepsAsset(c) PROVE QuotesInv'
<1> USE QuotesAssumption DEF QuotesInv
<1>1. MicroOK' /\ FolioOK' /\ qclock' = qclock /\ late' = late
  BY SameMoment DEF KeepsAsset
<1> DEFINE old == asker[c]
           call == [old EXCEPT !.pc = "remembers"]
<1>2. /\ old.pc = "keeps" /\ old.kind = "asset" /\ SymOf(c) = Chosen(old)
      /\ SymOf(c) \in QuotedSyms /\ old.began \in Nat
      /\ Since(old.got[SymOf(c)], old.began) /\ old.got[SymOf(c)] \in QuoteType
      /\ qclock <= old.began + CallLimit
  BY DEF KeepsAsset, CallsOK, CallType, CallOK, SymOf, Chosen
<1>3. asker' = [asker EXCEPT ![c] = call]
  BY DEF KeepsAsset, Goes
<1>4. CallOK(call) /\ Chosen(call) = Chosen(old)
  BY <1>2 DEF CallsOK, CallType, CallOK, Chosen
<1>5. call \in CallType
  BY DEF CallsOK, CallType
<1>6. CallsOK'
  BY <1>1, <1>3, <1>4, <1>5, OneCallMoves
<1>7. Since(old.got[SymOf(c)], qclock - CallLimit)
  BY <1>2 DEF Since, QuoteType
<1>8. LastGoodOK'
  BY <1>1, <1>2, <1>7, KeepingOK DEF KeepsAsset
<1> QED BY <1>1, <1>6, <1>8, SilentIsRecent DEF KeepsAsset

LEMMA RemembersAssetOK == ASSUME QuotesInv, NEW c \in Askers, RemembersAsset(c) PROVE QuotesInv'
<1> USE QuotesAssumption DEF QuotesInv
<1>1. LastGoodOK' /\ FolioOK' /\ qclock' = qclock
  BY SameMoment DEF RemembersAsset
<1> DEFINE q == asker[c].got[SymOf(c)]
<1>2. /\ SymOf(c) \in QuotedSyms /\ q \in QuoteType /\ asker[c].began \in Nat
      /\ Since(q, asker[c].began) /\ qclock <= asker[c].began + CallLimit
  BY DEF RemembersAsset, CallsOK, CallType, CallOK, SymOf, Chosen
<1>3. /\ micro' = [micro EXCEPT ![SymOf(c)] = [quote |-> q, since |-> qclock]]
      /\ told' = [kind |-> "asset", quote |-> q, funds |-> FALSE]
      /\ EndsAsk(c)
  BY DEF RemembersAsset, Answer
<1>4. Since(q, qclock - CallLimit)
  BY <1>2 DEF Since, QuoteType
<1>5. MicroOK'
  BY <1>2, <1>3, <1>4 DEF MicroOK
<1>6. UnmarkedIsRecent'
  BY <1>1, <1>2, <1>3, <1>4 DEF UnmarkedIsRecent, Oldest, Since, QuoteType
<1> QED BY <1>1, <1>3, <1>5, <1>6, EndsWell

LEMMA LateRouteOK ==
    ASSUME QuotesInv, NEW r \in late, NEW answered \in BOOLEAN, LateRouteEnds(r, answered)
    PROVE  QuotesInv'
<1> USE QuotesAssumption DEF QuotesInv
<1>1. CallsOK' /\ MicroOK' /\ FolioOK' /\ qclock' = qclock
  BY SameMoment DEF LateRouteEnds
<1>2. r[1] \in QuotedSyms /\ TypeOf[r[1]] = "US" /\ r[2] \in Nat
  BY DEF LastGoodOK
<1>3. Quote(r[2]) \in QuoteType
  BY <1>2 DEF Quote, QuoteType
<1>4. LastGoodOK'
  <2>1. CASE answered
    BY <1>1, <1>2, <1>3, <2>1, KeepingOK DEF LateRouteEnds
  <2>2. CASE ~answered
    BY <1>1, <2>2 DEF LateRouteEnds, LastGoodOK
  <2> QED BY <2>1, <2>2
<1> QED BY <1>1, <1>4, SilentIsRecent DEF LateRouteEnds

\* The batch and the portfolio.
LEMMA CachedIsSince ==
    ASSUME LastGoodOK, qclock \in Nat
    PROVE  /\ Cached \in [QuotedSyms -> QuoteType]
           /\ \A s \in ASyms : Since(Cached[s], qclock - LastGoodTTL - CallLimit)
<1>1. Cached \in [QuotedSyms -> QuoteType]
  BY NoneTyped DEF Cached, Good, LastGoodOK
<1>2. ASSUME NEW s \in ASyms PROVE Since(Cached[s], qclock - LastGoodTTL - CallLimit)
  <2>1. s \in QuotedSyms /\ TypeOf[s] # "US" /\ Cached[s] = lastGood[s].quote
        /\ lastGood[s].quote \in QuoteType /\ lastGood[s].until \in Nat
    BY DEF ASyms, Cached, Good, LastGoodOK
  <2> QED BY <2>1, QuotesAssumption DEF LastGoodOK, Since, QuoteType
<1> QED BY <1>1, <1>2

LEMMA AsksBatchOK ==
    ASSUME QuotesInv, NEW c \in Askers, NEW kind \in {"batch", "fast", "slow"},
           AsksBatch(c, kind)
    PROVE  QuotesInv'
<1> USE QuotesAssumption DEF QuotesInv
<1>1. MicroOK' /\ LastGoodOK' /\ FolioOK' /\ qclock' = qclock
  BY SameMoment DEF AsksBatch
<1> DEFINE misses == {s \in ASyms : Cached[s] = None}
           pc == IF misses = {} THEN "composes" ELSE "source"
           call == [pc |-> pc, kind |-> kind, syms |-> misses, got |-> Cached, began |-> qclock]
<1>2. asker' = [asker EXCEPT ![c] = call] /\ Silent
  BY DEF AsksBatch
<1>3. pc \in {"composes", "source"} /\ misses \subseteq QuotedSyms
  BY DEF ASyms
<1> HIDE DEF misses, pc
<1>4. CallOK(call)
  BY <1>3, CachedIsSince DEF CallOK
<1>5. call \in CallType
  BY <1>3, CachedIsSince DEF CallType
<1>6. CallsOK'
  BY <1>1, <1>2, <1>4, <1>5, OneCallMoves
<1> QED BY <1>1, <1>2, <1>6, SilentIsRecent

LEMMA SourceAnswersBatchOK ==
    ASSUME QuotesInv, NEW c \in Askers, NEW found \in SUBSET ASyms, SourceAnswersBatch(c, found)
    PROVE  QuotesInv'
<1> USE QuotesAssumption DEF QuotesInv
<1>1. MicroOK' /\ FolioOK' /\ qclock' = qclock
  BY SameMoment DEF SourceAnswersBatch
<1> DEFINE old == asker[c]
           got == [s \in QuotedSyms |-> IF s \in found THEN Quote(old.began) ELSE old.got[s]]
           call == [old EXCEPT !.got = got, !.pc = "composes"]
<1>2. /\ old.pc = "source" /\ old.kind # "asset" /\ old.began \in Nat
      /\ old.began <= qclock /\ qclock <= old.began + CallLimit
      /\ old.got \in [QuotedSyms -> QuoteType]
      /\ \A s \in ASyms : Since(old.got[s], old.began - LastGoodTTL - CallLimit)
  BY DEF SourceAnswersBatch, CallsOK, CallType, CallOK
<1>3. asker' = [asker EXCEPT ![c] = call]
  BY DEF SourceAnswersBatch, CallsOK, CallType
<1>4. Quote(old.began) \in QuoteType /\ Quote(old.began).at = old.began
  BY <1>2 DEF Quote, QuoteType
<1>5. /\ got \in [QuotedSyms -> QuoteType]
      /\ \A s \in ASyms : Since(got[s], old.began - LastGoodTTL - CallLimit)
  BY <1>2, <1>4 DEF Since, ASyms
<1> HIDE DEF got
<1>6. CallOK(call)
  BY <1>2, <1>5 DEF CallsOK, CallType, CallOK
<1>7. CallsOK'
  BY <1>1, <1>3, <1>5, <1>6, CallGoesOn, OneCallMoves DEF CallsOK
<1>8. LastGoodOK'
  BY <1>1, <1>2, <1>4 DEF SourceAnswersBatch, LastGoodOK, Since
<1> QED BY <1>1, <1>7, <1>8, SilentIsRecent DEF SourceAnswersBatch

LEMMA AnswersBatchOK == ASSUME QuotesInv, NEW c \in Askers, AnswersBatch(c) PROVE QuotesInv'
<1> USE QuotesAssumption DEF QuotesInv
<1>1. MicroOK' /\ LastGoodOK' /\ FolioOK' /\ qclock' = qclock
  BY SameMoment DEF AnswersBatch
<1>2. PICK s \in ASyms : told' = [kind |-> "batch", quote |-> asker[c].got[s], funds |-> FALSE]
  BY DEF AnswersBatch, Answer
<1>3. /\ asker[c].got[s] \in QuoteType /\ asker[c].began \in Nat
      /\ Since(asker[c].got[s], asker[c].began - LastGoodTTL - CallLimit)
      /\ qclock <= asker[c].began + CallLimit
  BY DEF AnswersBatch, CallsOK, CallType, CallOK, ASyms
<1>4. UnmarkedIsRecent'
  BY <1>1, <1>2, <1>3 DEF UnmarkedIsRecent, Oldest, Since, QuoteType
<1> QED BY <1>1, <1>4, EndsWell DEF AnswersBatch

LEMMA ReadsPortfolioOK ==
    ASSUME QuotesInv, NEW c \in Askers, NEW phase \in {"fast", "slow"}, ReadsPortfolio(c, phase)
    PROVE  QuotesInv'
<1> USE QuotesAssumption DEF QuotesInv
<1>1. CallsOK' /\ MicroOK' /\ LastGoodOK' /\ FolioOK' /\ qclock' = qclock
  BY SameMoment DEF ReadsPortfolio
<1>2. PICK s \in ASyms : told' = [kind |-> phase, quote |-> folio.quotes[s], funds |-> folio.funds]
  BY DEF ReadsPortfolio, Answer
<1>3. /\ folio.quotes[s] \in QuoteType /\ folio.until \in Nat /\ folio.until >= qclock
      /\ Since(folio.quotes[s], folio.until - PortfolioTTL - LastGoodTTL - 2 * CallLimit)
  BY DEF ReadsPortfolio, FolioOK, ASyms
<1>4. UnmarkedIsRecent'
  BY <1>1, <1>2, <1>3 DEF UnmarkedIsRecent, Oldest, Since, QuoteType
<1> QED BY <1>1, <1>4

LEMMA ComposesPortfolioOK ==
    ASSUME QuotesInv, NEW c \in Askers, ComposesPortfolio(c) PROVE QuotesInv'
<1> USE QuotesAssumption DEF QuotesInv
<1>1. MicroOK' /\ LastGoodOK' /\ qclock' = qclock
  BY SameMoment DEF ComposesPortfolio
<1> DEFINE old == asker[c]
<1>2. /\ old.got \in [QuotedSyms -> QuoteType] /\ old.began \in Nat /\ old.kind \in {"fast", "slow"}
      /\ \A s \in ASyms : Since(old.got[s], old.began - LastGoodTTL - CallLimit)
      /\ qclock <= old.began + CallLimit
  BY DEF ComposesPortfolio, CallsOK, CallType, CallOK
<1>3. PICK s \in ASyms : told' = [kind |-> old.kind, quote |-> old.got[s],
                                  funds |-> old.kind = "slow"]
  BY DEF ComposesPortfolio, Answer
<1>4. UnmarkedIsRecent'
  <2>1. old.got[s] \in QuoteType /\ Since(old.got[s], old.began - LastGoodTTL - CallLimit)
    BY <1>2 DEF ASyms
  <2> QED BY <1>1, <1>2, <1>3, <2>1 DEF UnmarkedIsRecent, Oldest, Since, QuoteType
<1>5. FolioOK'
  <2>1. folio' = [quotes |-> old.got, funds |-> old.kind = "slow", until |-> qclock + PortfolioTTL]
    BY DEF ComposesPortfolio
  <2>2. folio' \in [quotes : [QuotedSyms -> QuoteType], funds : BOOLEAN, until : Nat]
    BY <1>2, <2>1
  <2>3. ASSUME NEW t \in ASyms
        PROVE  Since(old.got[t], qclock + PortfolioTTL - PortfolioTTL - LastGoodTTL - 2 * CallLimit)
    <3>1. old.got[t] \in QuoteType /\ Since(old.got[t], old.began - LastGoodTTL - CallLimit)
      BY <1>2 DEF ASyms
    <3> QED BY <1>2, <3>1 DEF Since, QuoteType
  <2> QED BY <1>1, <2>1, <2>2, <2>3 DEF FolioOK, ASyms
<1> QED BY <1>1, <1>4, <1>5, EndsWell DEF ComposesPortfolio

\* For any symbols, callers and limits: a price that does not say it is an estimate is as
\* recent as the caches it may have gone through allow.
THEOREM UnmarkedRecent == QuotesSpec => []UnmarkedIsRecent
<1>1. ASSUME QuotesInv, [QuotesNext(QuotedSyms)]_quoteVars PROVE QuotesInv'
  <2>1. CASE UNCHANGED quoteVars
    <3>1. UnmarkedIsRecent'
      BY <1>1, <2>1 DEF quoteVars, QuotesInv, UnmarkedIsRecent
    <3> QED BY <1>1, <2>1, <3>1, SameMoment DEF quoteVars, QuotesInv
  <2> QED BY <1>1, <2>1, TickOK, AsksAssetOK, SourceAnswersAssetOK, SourceFailsAssetOK,
             KeepsAssetOK, RemembersAssetOK, LateRouteOK, AsksBatchOK, SourceAnswersBatchOK,
             AnswersBatchOK, ReadsPortfolioOK, ComposesPortfolioOK DEF QuotesNext
<1>2. QuotesInv => UnmarkedIsRecent
  BY DEF QuotesInv
<1> QED BY <1>1, <1>2, QuotesStart, PTL DEF QuotesSpec

-----------------------------------------------------------------------------
(* GlobalIndices *)

IndicesSpec == IndicesInit /\ [][IndicesNext]_indexVars

\* The merge keeps the price of an index unless the round lists it without one.
LEMMA ArrivingKeeps ==
    ASSUME NEW c \in IndexCallers, NEW priced \in SUBSET Indices, NEW bare \in SUBSET Indices,
           NEW written \in BOOLEAN, IndicesArrive(c, priced, bare, written),
           NEW i \in Indices, HasPrice(remembered, i), i \notin bareOnes'
    PROVE  HasPrice(remembered', i)
<1> DEFINE round == RoundOf(asked[c], priced, bare)
<1>1. DOMAIN round = Indices /\ bareOnes' = bare /\ asked[c] # 0
  BY DEF IndicesArrive, RoundOf
<1>2. remembered' = [j \in Indices |-> IF j \in DOMAIN remembered /\ ~round[j].available
                                       THEN remembered[j] ELSE round[j]]
  BY <1>1 DEF IndicesArrive, MergedInto, KeepsOld
<1>3. CASE i \in priced
  <2>1. round[i] = Entry(asked[c], TRUE)
    BY <1>3 DEF RoundOf
  <2> QED BY <2>1, <1>1, <1>2 DEF Entry, HasPrice
<1>4. CASE i \notin priced
  <2>1. round[i] = NoPrice
    BY <1>4, <1>1 DEF RoundOf
  <2> QED BY <2>1, <1>1, <1>2 DEF Entry, NoPrice, HasPrice
<1> QED BY <1>3, <1>4

\* An outage shows what is remembered, and forgets it only for want of anything at all.
LEMMA FailingKeeps ==
    ASSUME NEW c \in IndexCallers, NEW bare \in SUBSET Indices, IndicesFail(c, bare),
           NEW i \in Indices, HasPrice(remembered, i)
    PROVE  HasPrice(remembered', i)
<1>1. remembered # Nothing
  BY DEF HasPrice, Nothing
<1> QED BY <1>1 DEF IndicesFail, Recalled

\* For any indices, callers and number of rounds: a remembered price is lost only to a
\* source that lists its index without one, or with the file.
THEOREM PricesStay == IndicesSpec => PricesOutliveOutages
<1> DEFINE Stays(i) == HasPrice(remembered, i) =>
                          \/ HasPrice(remembered', i) \/ i \in bareOnes'
                          \/ ~HasPrice(indexFile, i) /\ indexFile' = indexFile
<1>1. ASSUME [IndicesNext]_indexVars, NEW i \in Indices PROVE Stays(i)
  <2>1. CASE AnswerExpires
    BY <2>1 DEF AnswerExpires
  <2>2. CASE IndicesRestart
    BY <2>2 DEF IndicesRestart
  <2>3. ASSUME NEW c \in IndexCallers, AsksIndices(c) PROVE Stays(i)
    BY <2>3 DEF AsksIndices
  <2>4. ASSUME NEW c \in IndexCallers, NEW priced \in SUBSET Indices,
               NEW bare \in SUBSET Indices, NEW written \in BOOLEAN,
               IndicesArrive(c, priced, bare, written)
        PROVE  Stays(i)
    BY <2>4, ArrivingKeeps
  <2>5. ASSUME NEW c \in IndexCallers, NEW bare \in SUBSET Indices, IndicesFail(c, bare)
        PROVE  Stays(i)
    BY <2>5, FailingKeeps
  <2>6. CASE UNCHANGED indexVars
    BY <2>6 DEF indexVars
  <2> QED BY <1>1, <2>1, <2>2, <2>3, <2>4, <2>5, <2>6 DEF IndicesNext
<1>2. [IndicesNext]_indexVars
      => [\A i \in Indices : Stays(i)]_indexVars
  BY <1>1
<1> QED BY <1>2, PTL DEF IndicesSpec, PricesOutliveOutages

-----------------------------------------------------------------------------
(* SourceBreaker *)

\* The records of the sources, and what a cooldown is at most.
HealthTyped ==
    /\ failures \in [Sources -> 0..Threshold]
    /\ cycles \in [Sources -> 0..(Overflow + 1)]
    /\ left \in [Sources -> Ready..MaxCooldown]

ThreadType == [at : {"idle", "check", "call", "handler", "fallback", "raised"},
               i : DOMAIN Order, age : 0..MaxAge, dur : 0..MaxCall]

\* How old the clock of a thread may be: MaxCall for each wait and each call so far.
Allowed(w) == IF w.at = "check" THEN 2 * (w.i - 1) * MaxCall + w.dur
              ELSE IF w.at = "call" THEN (2 * w.i - 1) * MaxCall + w.dur
              ELSE 2 * w.i * MaxCall

ThreadOK(t, w) ==
    /\ w \in ThreadType /\ w.age <= Allowed(w)
    /\ t \in Breadths => w.age = 0
    /\ w.at = "fallback" => t \in Breadths

ThreadsOK == th \in [Threads -> ThreadType] /\ \A t \in Threads : ThreadOK(t, th[t])

BreakerInv ==
    /\ HealthTyped /\ BackoffMatches
    /\ ThreadsOK
    /\ up \subseteq Sources /\ breaks \in 0..MaxBreaks

LEMMA ConstantsTyped ==
    /\ Threshold \in Nat \ {0} /\ Base \in Nat \ {0} /\ Overflow \in Nat \ {0}
    /\ MaxCall \in Nat \ {0} /\ MaxCooldown \in Nat /\ MaxBreaks \in Nat
    /\ Len(Order) \in Nat \ {0} /\ DOMAIN Order = 1..Len(Order)
    /\ MaxAge \in Nat /\ Ready \in Int /\ Ready <= 0 /\ Ready <= MaxCooldown
<1>1. Len(Order) \in Nat \ {0} /\ DOMAIN Order = 1..Len(Order)
  BY BreakerAssumption
<1>2. MaxCall \in Nat \ {0}
  BY BreakerAssumption
<1>3. MaxAge \in Nat
  BY <1>1, <1>2 DEF MaxAge
<1> QED BY <1>1, <1>2, <1>3, BreakerAssumption DEF Ready

LEMMA PowerTyped == \A n \in Nat : 2^n \in Nat
<1> SUFFICES ASSUME NEW n \in Nat PROVE 2^n \in Nat
  OBVIOUS
<1>1. IsFiniteSet(1..n) /\ Cardinality(1..n) = n
  <2>1. 1..n = IF 1 > n THEN {} ELSE 1..n
    OBVIOUS
  <2> QED BY FS_Interval
<1>2. IsFiniteSet(SUBSET (1..n)) /\ Cardinality(SUBSET (1..n)) = 2^Cardinality(1..n)
  BY <1>1, FS_SUBSET
<1> QED BY <1>1, <1>2, FS_CardinalityType

LEMMA CooldownTyped == \A n \in Nat \ {0} : Cooldown(n) \in 0..MaxCooldown
<1> SUFFICES ASSUME NEW n \in Nat \ {0} PROVE Cooldown(n) \in 0..MaxCooldown
  OBVIOUS
<1>1. 2^(n - 1) \in Nat
  BY PowerTyped
<1> DEFINE p == 2^(n - 1)
<1> HIDE DEF p
<1>2. p \in Nat /\ Base * p \in Nat
  BY <1>1, ConstantsTyped DEF p
<1>3. Cooldown(n) = Lower(Base * p, MaxCooldown)
  BY DEF Cooldown, p
<1> QED BY <1>2, <1>3, ConstantsTyped DEF Lower

LEMMA SuccessTyped ==
    ASSUME HealthTyped, BackoffMatches, NEW s \in Sources, RecordSuccess(s)
    PROVE  HealthTyped' /\ BackoffMatches'
BY ConstantsTyped DEF HealthTyped, BackoffMatches, RecordSuccess

LEMMA CoolTyped ==
    ASSUME HealthTyped, BackoffMatches, NEW s \in Sources, NEW age \in 0..MaxAge,
           NEW counted \in 0..Threshold, Cool(s, age, counted)
    PROVE  HealthTyped' /\ BackoffMatches'
<1> DEFINE n == NextCycle(s)
<1>1. n \in 1..(Overflow + 1) /\ n = Lower(cycles[s] + 1, Overflow + 1) /\ cycles[s] \in Nat
  BY ConstantsTyped DEF NextCycle, HealthTyped, Lower
<1>2. Cooldown(n) \in 0..MaxCooldown
  BY <1>1, CooldownTyped, ConstantsTyped
<1>3. CASE Raises(s)
  <2>1. /\ cycles' = [cycles EXCEPT ![s] = n] /\ left' = left
        /\ failures' = [failures EXCEPT ![s] = counted]
    BY <1>3 DEF Cool
  <2>2. Lower(cycles[s], Overflow) = Overflow /\ Lower(n, Overflow) = Overflow
    BY <1>1, <1>3, ConstantsTyped DEF Raises, Lower, HealthTyped
  <2> HIDE DEF n
  <2>3. HealthTyped'
    BY <1>1, <2>1 DEF HealthTyped
  <2>4. BackoffMatches'
    BY <1>1, <2>1, <2>2 DEF BackoffMatches, HealthTyped
  <2> QED BY <2>3, <2>4
<1>4. CASE ~Raises(s)
  <2>1. /\ cycles' = [cycles EXCEPT ![s] = n] /\ left' = [left EXCEPT ![s] = Cooldown(n) - age]
        /\ failures' = [failures EXCEPT ![s] = 0]
    BY <1>4 DEF Cool
  <2>2. n <= Overflow /\ Lower(n, Overflow) = n
    BY <1>1, <1>4, ConstantsTyped DEF Raises, Lower
  <2>3. Cooldown(n) - age \in Ready..MaxCooldown /\ Cooldown(n) - age <= Cooldown(n)
    BY <1>2, ConstantsTyped DEF Ready
  <2> DEFINE c == Cooldown(n)
  <2> HIDE DEF n, c
  <2>4. HealthTyped'
    BY <1>1, <2>1, <2>3, ConstantsTyped DEF HealthTyped
  <2>5. BackoffMatches'
    BY <1>1, <2>1, <2>2, <2>3 DEF BackoffMatches, HealthTyped
  <2> QED BY <2>4, <2>5
<1> QED BY <1>3, <1>4

LEMMA FailureTyped ==
    ASSUME HealthTyped, BackoffMatches, NEW s \in Sources, NEW age \in 0..MaxAge,
           NEW hard \in BOOLEAN, RecordFailure(s, age, hard)
    PROVE  HealthTyped' /\ BackoffMatches'
<1>1. CASE Trips(s, hard)
  <2> DEFINE counted == IF hard THEN failures[s] ELSE Lower(failures[s] + 1, Threshold)
  <2>1. counted \in 0..Threshold /\ Cool(s, age, counted)
    BY <1>1, ConstantsTyped DEF RecordFailure, HealthTyped, Lower
  <2> HIDE DEF counted
  <2> QED BY <2>1, CoolTyped
<1>2. CASE ~Trips(s, hard)
  <2>1. /\ failures' = [failures EXCEPT ![s] = failures[s] + 1] /\ UNCHANGED <<cycles, left>>
        /\ failures[s] + 1 < Threshold
    BY <1>2, ConstantsTyped DEF RecordFailure, Trips, HealthTyped
  <2>2. HealthTyped'
    BY <2>1, ConstantsTyped DEF HealthTyped
  <2>3. BackoffMatches'
    BY <2>1 DEF BackoffMatches
  <2> QED BY <2>2, <2>3
<1> QED BY <1>1, <1>2

\* A thread that goes on within its call, to its next source, or ends.
LEMMA AllowedBound ==
    ASSUME NEW w \in ThreadType
    PROVE  /\ Allowed(w) \in Int /\ 2 * w.i * MaxCall \in 0..MaxAge
           /\ Allowed(w) <= 2 * w.i * MaxCall
           /\ w.at = "check" => Allowed(w) <= (2 * w.i - 1) * MaxCall
           /\ 0 <= Allowed(w)
<1>1. w.i \in 1..Len(Order) /\ w.dur \in 0..MaxCall /\ MaxCall \in Nat /\ Len(Order) \in Nat
  BY ConstantsTyped DEF ThreadType
<1> DEFINE i == w.i
           n == Len(Order)
           k == MaxCall
<1>2. i * k \in Nat /\ i * k <= n * k /\ 1 * k <= i * k
  <2> HIDE DEF i, n, k
  <2>1. i \in Nat /\ n \in Nat /\ k \in Nat /\ i <= n /\ 1 <= i
    BY <1>1 DEF i, n, k
  <2>2. (n - i) * k \in Nat /\ (i - 1) * k \in Nat
    BY <2>1
  <2> QED BY <2>1, <2>2
<1>3. /\ 2 * (i - 1) * k = 2 * (i * k) - 2 * k /\ (2 * i - 1) * k = 2 * (i * k) - k
      /\ 2 * i * k = 2 * (i * k) /\ MaxAge = 2 * (n * k) /\ n * k \in Nat
  BY <1>1 DEF MaxAge
<1> DEFINE a == i * k
<1>4. Allowed(w) = IF w.at = "check" THEN 2 * a - 2 * k + w.dur
                   ELSE IF w.at = "call" THEN 2 * a - k + w.dur ELSE 2 * a
  BY <1>3 DEF Allowed
<1> DEFINE b == n * k
           all == Allowed(w)
           u == 2 * w.i * MaxCall
           v == (2 * w.i - 1) * MaxCall
<1>5. a \in Nat /\ k \in Nat /\ k <= a /\ w.dur \in 0..k /\ a <= b /\ b \in Nat
  BY <1>1, <1>2, <1>3
<1>6. u = 2 * a /\ v = 2 * a - k /\ MaxAge = 2 * b
  BY <1>3
<1>7. all = IF w.at = "check" THEN 2 * a - 2 * k + w.dur
            ELSE IF w.at = "call" THEN 2 * a - k + w.dur ELSE 2 * a
  BY <1>4
<1> HIDE DEF a, b, k, all, u, v
<1>8. all \in Int /\ u \in 0..MaxAge /\ all <= u /\ (w.at = "check" => all <= v) /\ 0 <= all
  <2> USE <1>5, <1>6, <1>7
  <2>1. CASE w.at = "check"
    BY <2>1
  <2>2. CASE w.at = "call"
    BY <2>2
  <2>3. CASE w.at \notin {"check", "call"}
    BY <2>3
  <2> QED BY <2>1, <2>2, <2>3
<1> QED BY Zenon, <1>8 DEF all, u, v

\* What moves only one thread, which is as old as before or is new.
LEMMA MoveTyped ==
    ASSUME BreakerInv, NEW t \in Threads, NEW w, ThreadOK(t, w), th' = [th EXCEPT ![t] = w]
    PROVE  ThreadsOK'
BY DEF BreakerInv, ThreadsOK, ThreadOK

LEMMA IdleOK == \A t : ThreadOK(t, Idle)
<1>1. Idle \in ThreadType /\ Idle.at = "idle" /\ Idle.age = 0
  BY ConstantsTyped DEF Idle, ThreadType
<1>2. Allowed(Idle) >= 0
  BY <1>1, AllowedBound
<1> QED BY <1>1, <1>2 DEF ThreadOK

\* The places a thread goes to: "call" from "check", and the others from anywhere.
LEMMA GotoOK ==
    ASSUME NEW t, NEW w, ThreadOK(t, w), NEW at, NEW dur \in {0, w.dur},
           \/ at = "call" /\ w.at = "check"
           \/ at \in {"handler", "raised"}
           \/ at = "fallback" /\ t \in Breadths
    PROVE  ThreadOK(t, [w EXCEPT !.at = at, !.dur = dur])
<1> DEFINE n == [w EXCEPT !.at = at, !.dur = dur]
<1>0. /\ w \in ThreadType /\ dur \in 0..MaxCall
      /\ at \in {"idle", "check", "call", "handler", "fallback", "raised"}
  BY ConstantsTyped DEF ThreadOK, ThreadType
<1>1. n \in ThreadType /\ n.at = at /\ n.age = w.age /\ n.dur = dur /\ n.i = w.i
  BY <1>0 DEF ThreadType
<1>2. w \in ThreadType /\ w.age \in Nat /\ w.age <= Allowed(w) /\ w.dur \in Nat /\ w.i \in Nat
  BY ConstantsTyped DEF ThreadOK, ThreadType
<1> HIDE DEF n
<1>3. n.age <= Allowed(n)
  <2>1. CASE at = "call"
    <3>0. (2 * w.i - 1) * MaxCall \in Int /\ Allowed(w) \in Int
      BY <1>2, AllowedBound, ConstantsTyped
    <3>3. Allowed(w) <= (2 * w.i - 1) * MaxCall
      BY <1>2, <2>1, AllowedBound
    <3>1. w.age <= (2 * w.i - 1) * MaxCall /\ (2 * w.i - 1) * MaxCall \in Int
      BY <1>2, <3>0, <3>3
    <3>2. Allowed(n) = (2 * w.i - 1) * MaxCall + dur /\ dur \in Nat
      BY <1>1, <1>2, <2>1 DEF Allowed
    <3> QED BY <1>1, <3>1, <3>2, <1>2
  <2>2. CASE at # "call"
    <3>1. Allowed(n) = 2 * w.i * MaxCall
      BY <1>1, <2>2 DEF Allowed
    <3> QED BY <1>1, <1>2, <3>1, AllowedBound
  <2> QED BY <2>1, <2>2
<1> QED BY <1>1, <1>3 DEF ThreadOK, n

LEMMA OnwardOK ==
    ASSUME NEW t, NEW w, ThreadOK(t, w), w.i < Len(Order), NEW at \in {"check", "call"}
    PROVE  ThreadOK(t, [w EXCEPT !.i = w.i + 1, !.dur = 0, !.at = at])
<1> DEFINE n == [w EXCEPT !.i = w.i + 1, !.dur = 0, !.at = at]
<1>0. w \in ThreadType /\ w.i + 1 \in DOMAIN Order /\ 0 \in 0..MaxCall
  BY ConstantsTyped DEF ThreadOK, ThreadType
<1>1. n \in ThreadType /\ n.at = at /\ n.age = w.age /\ n.dur = 0 /\ n.i = w.i + 1
  BY <1>0 DEF ThreadType
<1>2. /\ w \in ThreadType /\ w.age \in Nat /\ w.age <= Allowed(w) /\ w.dur \in Nat /\ w.i \in Nat
      /\ MaxCall \in Nat
  BY ConstantsTyped DEF ThreadOK, ThreadType
<1> HIDE DEF n
<1>3. w.age <= 2 * w.i * MaxCall
  BY <1>2, AllowedBound
<1>4. 2 * w.i * MaxCall = 2 * (n.i - 1) * MaxCall /\ 2 * w.i * MaxCall <= (2 * n.i - 1) * MaxCall
  <2> DEFINE i == w.i
             k == MaxCall
  <2>1. i * k \in Nat
    BY <1>2
  <2>2. 2 * i * k = 2 * (i * k) /\ (2 * (i + 1) - 1) * k = 2 * (i * k) + k
    BY <1>2
  <2>3. n.i - 1 = w.i
    BY <1>1, <1>2
  <2> QED BY <1>1, <1>2, <2>1, <2>2, <2>3
<1>5. n.age <= Allowed(n)
  <2>1. 2 * w.i * MaxCall \in Int /\ (2 * n.i - 1) * MaxCall \in Int
    BY <1>1, <1>2
  <2>2. Allowed(n) = 2 * w.i * MaxCall \/ Allowed(n) = (2 * n.i - 1) * MaxCall
    <3>1. n.dur = 0 /\ (n.at = "check" \/ n.at = "call")
      BY <1>1
    <3>2. CASE n.at = "check"
      BY <1>4, <2>1, <3>1, <3>2 DEF Allowed
    <3>3. CASE n.at = "call"
      BY <2>1, <3>1, <3>3 DEF Allowed
    <3> QED BY <3>1, <3>2, <3>3
  <2> DEFINE x == 2 * w.i * MaxCall
             y == (2 * n.i - 1) * MaxCall
  <2>3. n.age = w.age /\ w.age \in Nat /\ w.age <= x /\ x <= y /\ x \in Int /\ y \in Int
    BY <1>1, <1>2, <1>3, <1>4, <2>1
  <2> HIDE DEF x, y
  <2>4. Allowed(n) = x \/ Allowed(n) = y
    BY <2>2 DEF x, y
  <2> QED BY <2>3, <2>4
<1> QED BY <1>1, <1>5 DEF ThreadOK, n

\* The ways of a thread.
LEMMA ThreadFacts ==
    ASSUME BreakerInv, NEW t \in Threads
    PROVE  /\ ThreadOK(t, th[t]) /\ Src(t) \in Sources /\ Age(t) \in 0..MaxAge
           /\ DOMAIN th = Threads /\ Age(t) = th[t].age
BY DEF BreakerInv, ThreadsOK, ThreadOK, ThreadType, Src, Sources, Age

LEMMA GotoKeeps ==
    ASSUME BreakerInv, NEW t \in Threads, NEW at,
           \/ at = "call" /\ th[t].at = "check"
           \/ at \in {"handler", "raised"}
           \/ at = "fallback" /\ t \in Breadths,
           Goto(t, at) \/ th' = [th EXCEPT ![t].at = at]
    PROVE  ThreadsOK'
<1>1. ThreadOK(t, th[t]) /\ DOMAIN th = Threads /\ DOMAIN th[t] = {"at", "i", "age", "dur"}
  BY ThreadFacts DEF ThreadOK, ThreadType
<1>2. CASE Goto(t, at)
  <2> DEFINE w == [th[t] EXCEPT !.at = at, !.dur = 0]
  <2>1. ThreadOK(t, w)
    BY <1>1, GotoOK
  <2>2. th' = [th EXCEPT ![t] = w]
    BY <1>2 DEF Goto
  <2> HIDE DEF w
  <2> QED BY <2>1, <2>2, MoveTyped
<1>3. CASE th' = [th EXCEPT ![t].at = at]
  <2> DEFINE w == [th[t] EXCEPT !.at = at, !.dur = th[t].dur]
  <2>1. ThreadOK(t, w)
    BY <1>1, GotoOK
  <2>2. th' = [th EXCEPT ![t] = w]
    BY <1>1, <1>3
  <2> HIDE DEF w
  <2> QED BY <2>1, <2>2, MoveTyped
<1> QED BY <1>2, <1>3

LEMMA OnwardKeeps ==
    ASSUME BreakerInv, NEW t \in Threads, Onward(t) \/ Leave(t)
    PROVE  ThreadsOK'
<1>1. ThreadOK(t, th[t])
  BY ThreadFacts
<1> DEFINE at == IF t \in Probes THEN "call" ELSE "check"
           w == [th[t] EXCEPT !.i = th[t].i + 1, !.dur = 0, !.at = at]
<1>2. \/ th[t].i < Len(Order) /\ th' = [th EXCEPT ![t] = w]
      \/ th' = [th EXCEPT ![t] = Idle]
  <2>1. CASE Onward(t)
    <3> DEFINE on == t \in Routes \cup Probes /\ th[t].i < Len(Order)
    <3>1. th' = [th EXCEPT ![t] = IF on THEN w ELSE Idle]
      BY <2>1 DEF Onward
    <3> HIDE DEF w
    <3>2. CASE on
      BY <3>1, <3>2
    <3>3. CASE ~on
      BY <3>1, <3>3
    <3> QED BY <3>2, <3>3
  <2>2. CASE th' = [th EXCEPT ![t] = Idle]
    BY <2>2
  <2> QED BY <2>1, <2>2 DEF Leave
<1>3. th[t].i < Len(Order) => ThreadOK(t, w)
  BY <1>1, OnwardOK
<1> HIDE DEF w
<1> QED BY <1>2, <1>3, IdleOK, MoveTyped

LEMMA BeginKeeps == ASSUME BreakerInv, NEW t \in Threads, Begin(t) PROVE ThreadsOK'
<1>1. PICK i \in IF t \in Callers \cup Breadths THEN DOMAIN Order ELSE {1} :
        th' = [th EXCEPT ![t] = [Idle EXCEPT !.i = i,
                                 !.at = IF t \in Probes THEN "call" ELSE "check"]]
  BY Zenon DEF Begin
<1>0. i \in DOMAIN Order
  BY ConstantsTyped
<1> DEFINE w == [Idle EXCEPT !.i = i, !.at = IF t \in Probes THEN "call" ELSE "check"]
<1>2. w \in ThreadType /\ w.age = 0 /\ w.at # "fallback"
  <2>1. 0 \in 0..MaxAge /\ 0 \in 0..MaxCall
    BY ConstantsTyped
  <2>2. CASE t \in Probes
    BY <1>0, <2>1, <2>2 DEF Idle, ThreadType
  <2>3. CASE t \notin Probes
    BY <1>0, <2>1, <2>3 DEF Idle, ThreadType
  <2> QED BY <2>2, <2>3
<1>3. th' = [th EXCEPT ![t] = w]
  BY <1>1
<1> HIDE DEF w
<1>4. w.age <= Allowed(w)
  BY <1>2, AllowedBound
<1>5. ThreadOK(t, w)
  BY <1>2, <1>4 DEF ThreadOK
<1> QED BY <1>3, <1>5, MoveTyped

LEMMA TickKeeps == ASSUME BreakerInv, Tick PROVE BreakerInv'
<1>1. /\ left' = [s \in Sources |-> Higher(left[s] - 1, Ready)]
      /\ UNCHANGED <<failures, cycles, up, breaks>>
      /\ \A t \in Threads : Busy(t) => th[t].dur < MaxCall
      /\ th' = [t \in Threads |->
                  IF Busy(t) THEN [th[t] EXCEPT !.age = IF t \in Breadths THEN 0 ELSE @ + 1,
                                                !.dur = @ + 1]
                  ELSE th[t]]
  BY DEF Tick
<1>6. ASSUME NEW s \in Sources
      PROVE  /\ left'[s] \in Ready..MaxCooldown /\ left[s] \in Int
             /\ left'[s] > 0 => left'[s] = left[s] - 1
  <2>1. left[s] \in Ready..MaxCooldown /\ left'[s] = Higher(left[s] - 1, Ready)
    BY <1>1 DEF BreakerInv, HealthTyped
  <2> QED BY <2>1, ConstantsTyped DEF Higher
<1>2. HealthTyped'
  <2>1. left' \in [Sources -> Ready..MaxCooldown]
    <3>1. left' = [s \in Sources |-> left'[s]]
      BY <1>1
    <3> QED BY <1>6, <3>1
  <2> QED BY <1>1, <2>1 DEF BreakerInv, HealthTyped
<1>3. BackoffMatches'
  <2> SUFFICES ASSUME NEW s \in Sources, left'[s] > 0
               PROVE  cycles'[s] > 0 /\ left'[s] <= Cooldown(Lower(cycles'[s], Overflow))
    BY DEF BackoffMatches
  <2>1. left[s] \in Int /\ left'[s] = left[s] - 1 /\ left[s] > 0
    <3>1. left[s] \in Int /\ left'[s] = left[s] - 1
      BY <1>6
    <3> QED BY <3>1
  <2>2. cycles[s] > 0 /\ left[s] <= Cooldown(Lower(cycles[s], Overflow))
    BY <2>1 DEF BreakerInv, BackoffMatches
  <2>3. Lower(cycles[s], Overflow) \in Nat \ {0}
    BY <2>2, ConstantsTyped DEF BreakerInv, HealthTyped, Lower
  <2>4. Cooldown(Lower(cycles[s], Overflow)) \in Int
    BY <2>3, CooldownTyped, ConstantsTyped
  <2>5. cycles' = cycles
    BY <1>1
  <2> DEFINE c == Cooldown(Lower(cycles[s], Overflow))
  <2> HIDE DEF c
  <2>6. left'[s] <= c
    BY <2>1, <2>2, <2>4 DEF c
  <2> QED BY <2>2, <2>5, <2>6 DEF c
<1>4. ASSUME NEW t \in Threads PROVE ThreadOK(t, th'[t])
  <2>1. ThreadOK(t, th[t])
    BY ThreadFacts
  <2>2. CASE ~Busy(t)
    BY <1>1, <2>1, <2>2
  <2>3. CASE Busy(t)
    <3> DEFINE w == th[t]
               age == IF t \in Breadths THEN 0 ELSE w.age + 1
               n == [w EXCEPT !.age = age, !.dur = @ + 1]
    <3>1. th'[t] = n
      BY <1>1, <2>3
    <3>2. /\ w.at \in {"check", "call", "fallback"} /\ w.dur < MaxCall
          /\ w.dur + 1 \in 0..MaxCall /\ w.dur \in Nat /\ w \in ThreadType
      <4>1. w.at \in {"check", "call", "fallback"} /\ w.dur < MaxCall
        BY <1>1, <2>3 DEF Busy
      <4>2. w \in ThreadType /\ w.dur \in 0..MaxCall
        BY <2>1 DEF ThreadOK, ThreadType
      <4> QED BY <4>1, <4>2, ConstantsTyped
    <3>3. n.at = w.at /\ n.age = age /\ n.dur = w.dur + 1 /\ n.i = w.i
      BY <3>2 DEF ThreadType
    <3>4. w.age \in Nat /\ age \in Nat /\ w.i \in Nat
      BY <3>2, ConstantsTyped DEF ThreadType
    \* the record, as long as its age is in bounds
    <3>5. [n EXCEPT !.age = 0] \in ThreadType
      <4>1. [n EXCEPT !.age = 0] = [w EXCEPT !.age = 0, !.dur = w.dur + 1]
        BY <3>2 DEF ThreadType
      <4>2. 0 \in 0..MaxAge
        BY ConstantsTyped
      <4> QED BY <3>2, <4>1, <4>2 DEF ThreadType
    <3> DEFINE z == [n EXCEPT !.age = 0]
    <3>6. z.at = n.at /\ z.i = n.i /\ z.dur = n.dur
      BY <3>2 DEF ThreadType
    <3>7. Allowed(z) = Allowed(n) /\ Allowed(z) \in 0..MaxAge
      <4>1. Allowed(z) = Allowed(n)
        BY <3>6 DEF Allowed
      <4>2. /\ Allowed(z) \in Int /\ 0 <= Allowed(z) /\ Allowed(z) <= 2 * z.i * MaxCall
            /\ 2 * z.i * MaxCall \in 0..MaxAge
        BY <3>5, AllowedBound
      <4> QED BY <4>1, <4>2, ConstantsTyped
    <3>8. age <= Allowed(n)
      <4>1. CASE t \in Breadths
        BY <3>7, <4>1
      <4>2. CASE t \notin Breadths
        <5>1. w.at # "fallback" /\ w.age <= Allowed(w) /\ Allowed(w) \in Int
          BY <2>1, <3>2, <4>2, AllowedBound DEF ThreadOK
        <5>2. Allowed(n) = Allowed(w) + 1
          <6> DEFINE x == 2 * (w.i - 1) * MaxCall
                     y == (2 * w.i - 1) * MaxCall
          <6>1. x \in Int /\ y \in Int
            <7>1. MaxCall \in Int /\ w.i \in Int
              BY <3>4, ConstantsTyped
            <7> QED BY <7>1
          <6>2. CASE w.at = "check"
            <7>1. Allowed(w) = x + w.dur /\ Allowed(n) = x + (w.dur + 1)
              BY <3>3, <6>2 DEF Allowed
            <7> HIDE DEF x
            <7> QED BY <3>2, <6>1, <7>1
          <6>3. CASE w.at = "call"
            <7>1. Allowed(w) = y + w.dur /\ Allowed(n) = y + (w.dur + 1)
              BY <3>3, <6>3 DEF Allowed
            <7> HIDE DEF y
            <7> QED BY <3>2, <6>1, <7>1
          <6> QED BY <3>2, <5>1, <6>2, <6>3
        <5> QED BY <3>4, <4>2, <5>1, <5>2
      <4> QED BY <4>1, <4>2
    <3>9. age \in 0..MaxAge
      BY <3>4, <3>7, <3>8, ConstantsTyped
    <3>10. n \in ThreadType
      <4> HIDE DEF age
      <4> QED BY <3>2, <3>9 DEF ThreadType
    <3>11. (t \in Breadths => n.age = 0) /\ (n.at = "fallback" => t \in Breadths)
      BY <2>1, <3>3 DEF ThreadOK
    <3> HIDE DEF n, age, z, w
    <3> QED BY <3>1, <3>3, <3>8, <3>10, <3>11 DEF ThreadOK
  <2> QED BY <2>2, <2>3
<1>5. ThreadsOK'
  <2>1. th' = [t \in Threads |-> th'[t]]
    BY <1>1
  <2> QED BY <1>4, <2>1 DEF ThreadsOK, ThreadOK
<1> QED BY <1>1, <1>2, <1>3, <1>5 DEF BreakerInv

\* A call of a thread reported as one of RecordSuccess and RecordFailure, or not at all.
Reported(t) ==
    \/ RecordSuccess(Src(t))
    \/ \E age \in {0, Age(t)}, hard \in BOOLEAN : RecordFailure(Src(t), age, hard)
    \/ UNCHANGED health

LEMMA ReportKeeps ==
    ASSUME BreakerInv, NEW t \in Threads, Reported(t)
    PROVE  HealthTyped' /\ BackoffMatches'
<1>1. Src(t) \in Sources /\ Age(t) \in 0..MaxAge /\ 0 \in 0..MaxAge
  BY ThreadFacts, ConstantsTyped
<1>2. HealthTyped /\ BackoffMatches
  BY DEF BreakerInv
<1>3. CASE RecordSuccess(Src(t))
  BY <1>1, <1>2, <1>3, SuccessTyped
<1>4. CASE \E age \in {0, Age(t)}, hard \in BOOLEAN : RecordFailure(Src(t), age, hard)
  BY <1>1, <1>2, <1>4, FailureTyped
<1>5. CASE UNCHANGED health
  BY <1>2, <1>5 DEF health, HealthTyped, BackoffMatches
<1> QED BY <1>3, <1>4, <1>5 DEF Reported

\* The steps of a thread: what it reports, where it goes, and that nothing else changes.
LEMMA RunSteps ==
    ASSUME BreakerInv, NEW t \in Threads, Run(t) \/ (t \in Breadths /\ RunBreadth(t))
    PROVE  Reported(t) /\ ThreadsOK' /\ UNCHANGED <<up, breaks>>
<1>1. CASE Check(t)
  <2>1. UNCHANGED <<health, up, breaks>>
    BY <1>1 DEF Check
  <2>2. (Goto(t, "call") /\ th[t].at = "check") \/ Onward(t)
    BY <1>1 DEF Check
  <2> QED BY <2>1, <2>2, GotoKeeps, OnwardKeeps DEF Reported
<1>2. CASE Data(t)
  BY <1>2, OnwardKeeps DEF Data, Reported
<1>3. CASE Empty(t)
  <2>1. CASE t \in Routes /\ Onward(t) /\ UNCHANGED health /\ UNCHANGED <<up, breaks>>
    BY <2>1, OnwardKeeps DEF Reported
  <2>2. CASE t \in Breadths /\ Goto(t, "fallback") /\ UNCHANGED health /\ UNCHANGED <<up, breaks>>
    BY <2>2, GotoKeeps DEF Reported
  <2>3. ASSUME NEW hard \in Failing(t), RecordFailure(Src(t), Age(t), hard),
               Goto(t, "handler") \/ Onward(t), UNCHANGED <<up, breaks>>
        PROVE  Reported(t) /\ ThreadsOK' /\ UNCHANGED <<up, breaks>>
    <3>1. hard \in BOOLEAN
      BY DEF Failing
    <3>2. ThreadsOK'
      BY <2>3, GotoKeeps, OnwardKeeps
    <3> QED BY <2>3, <3>1, <3>2 DEF Reported
  <2> QED BY <1>3, <2>1, <2>2, <2>3 DEF Empty
<1>4. CASE HttpError(t)
  <2>1. RecordFailure(Src(t), Age(t), TRUE) /\ UNCHANGED <<up, breaks>>
        /\ (th' = [th EXCEPT ![t].at = "handler"] \/ Onward(t))
    BY <1>4 DEF HttpError
  <2>2. ThreadsOK'
    BY <2>1, GotoKeeps, OnwardKeeps
  <2> QED BY <2>1, <2>2 DEF Reported
<1>5. CASE Raise(t)
  BY <1>5, GotoKeeps DEF Raise, Reported
<1>6. CASE Handler(t)
  <2>1. PICK hard \in IF t \in Breadths THEN {FALSE} ELSE Failing(t) :
          /\ RecordFailure(Src(t), Age(t), hard)
          /\ IF Escapes(Src(t), hard) THEN Goto(t, "raised")
             ELSE IF t \in Breadths THEN Goto(t, "fallback") ELSE Onward(t)
    BY <1>6 DEF Handler
  <2>2. hard \in BOOLEAN
    BY DEF Failing
  <2>3. ThreadsOK'
    BY <2>1, GotoKeeps, OnwardKeeps
  <2>4. UNCHANGED <<up, breaks>>
    BY <1>6 DEF Handler
  <2> QED BY <2>1, <2>2, <2>3, <2>4 DEF Reported
<1>7. CASE Propagate(t)
  <2>1. th' = [th EXCEPT ![t] = Idle] /\ UNCHANGED <<health, up, breaks>>
    BY <1>7 DEF Propagate
  <2> QED BY <2>1, IdleOK, MoveTyped DEF Reported
<1>8. CASE t \in Breadths /\ CheckBreadth(t)
  <2>1. CASE Goto(t, "call") /\ UNCHANGED health
    BY <1>8, <2>1, GotoKeeps DEF CheckBreadth, Reported
  <2>2. CASE RecordFailure(Src(t), 0, FALSE) /\ (Goto(t, "raised") \/ Goto(t, "fallback"))
    BY <1>8, <2>2, GotoKeeps DEF CheckBreadth, Reported
  <2> QED BY <1>8, <2>1, <2>2 DEF CheckBreadth
<1>9. CASE Fallback(t)
  <2>1. CASE RecordSuccess(Src(t)) /\ Leave(t)
    BY <1>9, <2>1, OnwardKeeps DEF Fallback, Reported
  <2>2. CASE RecordFailure(Src(t), 0, FALSE) /\ (Goto(t, "raised") \/ Leave(t))
    BY <1>9, <2>2, GotoKeeps, OnwardKeeps DEF Fallback, Reported
  <2> QED BY <1>9, <2>1, <2>2 DEF Fallback
<1> QED BY <1>1, <1>2, <1>3, <1>4, <1>5, <1>6, <1>7, <1>8, <1>9 DEF Run, RunBreadth

LEMMA BreakerStart == Init => BreakerInv
<1> SUFFICES ASSUME Init PROVE BreakerInv
  OBVIOUS
<1>1. HealthTyped /\ BackoffMatches
  BY ConstantsTyped DEF Init, HealthTyped, BackoffMatches
<1>2. ThreadsOK
  BY IdleOK DEF Init, ThreadsOK, ThreadOK
<1> QED BY <1>1, <1>2, ConstantsTyped DEF Init, BreakerInv

LEMMA BreakerKeeps == BreakerInv /\ [Next]_vars => BreakerInv'
<1> SUFFICES ASSUME BreakerInv, [Next]_vars PROVE BreakerInv'
  OBVIOUS
<1>1. CASE UNCHANGED vars
  BY <1>1 DEF vars, BreakerInv, HealthTyped, BackoffMatches, ThreadsOK
<1>2. ASSUME NEW t \in Threads, Begin(t) PROVE BreakerInv'
  <2>1. UNCHANGED <<failures, cycles, left, up, breaks>>
    BY <1>2 DEF Begin, health
  <2> QED BY <1>2, <2>1, BeginKeeps DEF BreakerInv, HealthTyped, BackoffMatches
<1>3. ASSUME NEW t \in Threads, Run(t) \/ (t \in Breadths /\ RunBreadth(t)) PROVE BreakerInv'
  BY <1>3, RunSteps, ReportKeeps DEF BreakerInv
<1>4. ASSUME NEW s \in Sources, Break(s) \/ Repair(s) PROVE BreakerInv'
  <2>1. UNCHANGED <<failures, cycles, left, th>> /\ up' \subseteq Sources /\ breaks' \in 0..MaxBreaks
    BY <1>4, ConstantsTyped DEF Break, Repair, health, BreakerInv
  <2> QED BY <2>1 DEF BreakerInv, HealthTyped, BackoffMatches, ThreadsOK
<1>5. ASSUME NEW s \in Sources, ResetSource(s) PROVE BreakerInv'
  <2>1. UNCHANGED <<th, up, breaks>> /\ HealthTyped' /\ BackoffMatches'
    BY <1>5, SuccessTyped DEF ResetSource, BreakerInv
  <2> QED BY <2>1 DEF BreakerInv, ThreadsOK
<1> QED BY <1>1, <1>2, <1>3, <1>4, <1>5, TickKeeps DEF Next, Threads

\* TypeOK, of any number of sources, threads, cycles and lengths of a call: the clock a
\* thread read is never older than the calls it has made may have taken.
THEOREM BreakerTyped == Spec => []TypeOK
<1>1. BreakerInv => TypeOK
  BY DEF BreakerInv, HealthTyped, ThreadsOK, ThreadOK, ThreadType, TypeOK
<1> QED BY <1>1, BreakerStart, BreakerKeeps, PTL DEF Spec

\* No cooldown is longer than its cycle allows, whatever records of a source interleave.
THEOREM BackoffStays == Spec => []BackoffMatches
<1>1. BreakerInv => BackoffMatches
  BY DEF BreakerInv
<1> QED BY <1>1, BreakerStart, BreakerKeeps, PTL DEF Spec

\* Who made the record of a source that works worse: a handler after a failed call, the
\* breadth fetcher when it skips the source or its fallback fails, a caller that was
\* given nothing, for whatever reason, or a probe that the pool refused.
Worse(s) == failures'[s] > failures[s] \/ cycles'[s] > cycles[s]
Blames(t, s) ==
    /\ Src(t) = s
    /\ \/ th[t].at = "handler"
       \/ t \in Breadths /\ th[t].at \in {"check", "fallback"}
       \/ t \in Callers /\ th[t].at = "call"
       \/ PoolFull /\ t \in Probes /\ th[t].at = "call"
BlameAccounted == [][\A s \in up : Worse(s) => \E t \in Threads : Blames(t, s)]_vars

\* A report concerns its own source, and a success makes no record worse.
LEMMA OnlyFailuresBlame ==
    ASSUME BreakerInv, NEW t \in Threads, Reported(t), NEW s \in Sources, Worse(s)
    PROVE  Src(t) = s /\ ~UNCHANGED health /\ ~RecordSuccess(Src(t))
<1>1. failures \in [Sources -> Nat] /\ cycles \in [Sources -> Nat]
  BY ConstantsTyped DEF BreakerInv, HealthTyped
<1>2. ~UNCHANGED health
  BY <1>1 DEF Worse, health
<1>3. ASSUME NEW x \in Sources, RecordSuccess(x) PROVE FALSE
  BY <1>1, <1>3 DEF Worse, RecordSuccess
<1>4. Src(t) \in Sources
  BY ThreadFacts
<1>5. ASSUME NEW age, NEW hard, RecordFailure(Src(t), age, hard), Src(t) # s PROVE FALSE
  <2>1. failures'[s] = failures[s] /\ cycles'[s] = cycles[s]
    BY <1>1, <1>4, <1>5 DEF RecordFailure, Cool
  <2> QED BY <1>1, <2>1 DEF Worse
<1> QED BY <1>2, <1>3, <1>4, <1>5 DEF Reported

LEMMA BlameStep ==
    ASSUME BreakerInv, [Next]_vars, NEW s \in up, Worse(s)
    PROVE  \E t \in Threads : Blames(t, s)
<1>1. s \in Sources /\ failures[s] \in Nat /\ cycles[s] \in Nat
  BY ConstantsTyped DEF BreakerInv, HealthTyped
<1>2. ~(UNCHANGED <<failures, cycles>>)
  BY <1>1 DEF Worse
<1>3. ASSUME NEW x \in Sources, ResetSource(x) PROVE FALSE
  <2>1. /\ failures' = [failures EXCEPT ![x] = 0] /\ cycles' = [cycles EXCEPT ![x] = 0]
        /\ failures \in [Sources -> Nat] /\ cycles \in [Sources -> Nat]
    BY <1>3, ConstantsTyped DEF ResetSource, RecordSuccess, BreakerInv, HealthTyped
  <2> QED BY <1>1, <2>1 DEF Worse
<1>4. ASSUME NEW t \in Threads, Run(t) \/ (t \in Breadths /\ RunBreadth(t)) PROVE Blames(t, s)
  <2>1. Src(t) = s /\ ~UNCHANGED health /\ ~RecordSuccess(Src(t))
    BY <1>1, <1>4, RunSteps, OnlyFailuresBlame
  <2>2. Handler(t) \/ Empty(t) \/ HttpError(t) \/ (t \in Breadths /\ (CheckBreadth(t) \/ Fallback(t)))
    BY <1>4, <2>1 DEF Run, RunBreadth, Check, Data, Raise, Propagate, Fallback, CheckBreadth
  <2>3. CASE Handler(t)
    BY <2>1, <2>3 DEF Handler, Blames
  <2>4. CASE HttpError(t)
    BY <2>1, <2>4 DEF HttpError
  <2>5. CASE Empty(t)
    BY <2>1, <2>5 DEF Empty, Faulty, Blames
  <2>6. CASE t \in Breadths /\ (CheckBreadth(t) \/ Fallback(t))
    BY <2>1, <2>6 DEF CheckBreadth, Fallback, Blames
  <2> QED BY <2>2, <2>3, <2>4, <2>5, <2>6
<1>5. ASSUME NEW t \in Threads, Begin(t) PROVE FALSE
  BY <1>2, <1>5 DEF Begin, health
<1>6. ASSUME NEW x \in Sources, Break(x) \/ Repair(x) PROVE FALSE
  BY <1>2, <1>6 DEF Break, Repair, health
<1>7. ~Tick /\ ~UNCHANGED vars
  BY <1>2 DEF Tick, vars
<1> QED BY <1>3, <1>4, <1>5, <1>6, <1>7 DEF Next, Threads

\* With every kind of thread, and a pool that refuses calls: nobody else makes the
\* record of a source that works worse, no route above all.
THEOREM BlameHasAnAuthor == Spec => BlameAccounted
<1>1. BreakerInv /\ [Next]_vars => \A s \in up : Worse(s) => \E t \in Threads : Blames(t, s)
  BY BlameStep
<1> QED BY <1>1, BreakerStart, BreakerKeeps, PTL DEF Spec, BlameAccounted

\* So between routes and probes, on a pool that refuses no probe, the record of a source
\* that works gets worse only on account of a call of it that failed.
THEOREM BlameIsEarned ==
    ASSUME Callers = {}, Breadths = {}, ~PoolFull
    PROVE  Spec => BlameEarned
<1>1. BreakerInv /\ [Next]_vars =>
         \A s \in up : failures'[s] > failures[s] \/ cycles'[s] > cycles[s]
             => \E t \in Threads : th[t].at = "handler" /\ Src(t) = s
  BY BlameStep DEF Worse, Blames
<1> QED BY <1>1, BreakerStart, BreakerKeeps, PTL DEF Spec, BlameEarned

-----------------------------------------------------------------------------
(* FactorIC *)

IcSpec == IcInit /\ [][IcNext]_icVars

\* The backfill replays and scores trading days only, the calendar is past the days
\* whose K-lines it replays.
IcInv ==
    /\ day \in Nat /\ FirstDays < day
    /\ icRows = [d \in Days |-> icRows[d]] /\ scored \subseteq TradingDays
    /\ back \in [pc : {"waits", "replays", "saves", "done"}, i : Nat, last : Nat]
    /\ back.pc = "replays" => back.i \in TradingDays
    /\ ReplayLeavesNoTrace

\* The last of some days, none of them after the n-th, is one of them: seen from
\* that day backwards, the numbers of the days have a least element.
LEMMA LatestIs ==
    ASSUME NEW S, S \subseteq Nat, NEW n \in Nat, \A d \in S : d <= n, S # {}
    PROVE  Latest(S) \in S
<1> DEFINE T == {n - d : d \in S}
           R == {ss \in Nat \X Nat : ss[1] < ss[2]}
<1>0. IsWellFoundedOn(R, Nat)
  BY NatLessThanWellFounded DEF OpToRel
<1>1. T \subseteq Nat /\ T # {}
  <2>1. \A d \in S : d \in Nat /\ d <= n /\ n - d \in Nat
    OBVIOUS
  <2> QED BY <2>1
<1>2. PICK m \in T : \A k \in T : ~ (<<k, m>> \in R)
  <2> HIDE DEF T, R
  <2> QED BY <1>0, <1>1, WFMin
<1>3. \A k \in T : m <= k
  <2> SUFFICES ASSUME NEW k \in T PROVE m <= k
    OBVIOUS
  <2>1. k \in Nat /\ m \in Nat /\ ~ (<<k, m>> \in R)
    BY <1>1, <1>2
  <2> HIDE DEF T
  <2> QED BY <2>1
<1>4. PICK d \in S : m = n - d
  OBVIOUS
<1>5. \A e \in S : e <= d
  <2> SUFFICES ASSUME NEW e \in S PROVE e <= d
    OBVIOUS
  <2>1. n - e \in T
    OBVIOUS
  <2> QED BY <2>1, <1>3, <1>4
<1> QED BY <1>5 DEF Latest

\* There is a trading day before any day past the first.
LEMMA DaysBefore ==
    ASSUME NEW n \in Nat, n > 1
    PROVE  /\ Latest({d \in TradingDays : d < n}) \in TradingDays
           /\ Latest({d \in TradingDays : d <= n}) \in TradingDays
<1>1. 1 \in TradingDays /\ TradingDays \subseteq Nat
  BY IcAssumption
<1> DEFINE S == {d \in TradingDays : d < n}
           E == {d \in TradingDays : d <= n}
<1>2. S \subseteq Nat /\ (\A d \in S : d <= n) /\ S # {} /\ S \subseteq TradingDays
  <2>1. 1 \in S /\ \A d \in S : d \in TradingDays /\ d <= n
    BY <1>1
  <2> HIDE DEF S
  <2> QED BY <1>1, <2>1
<1>3. E \subseteq Nat /\ (\A d \in E : d <= n) /\ E # {} /\ E \subseteq TradingDays
  <2>1. 1 \in E /\ \A d \in E : d \in TradingDays /\ d <= n
    BY <1>1
  <2> HIDE DEF E
  <2> QED BY <1>1, <2>1
<1>4. Latest(S) \in S
  <2> HIDE DEF S
  <2> QED BY <1>2, LatestIs
<1>5. Latest(E) \in E
  <2> HIDE DEF E
  <2> QED BY <1>3, LatestIs
<1> QED BY <1>2, <1>3, <1>4, <1>5

\* A row is written for a trading day: with that day's number, or after the first days.
LEMMA RowsStay ==
    ASSUME IcInv, NEW date \in TradingDays, NEW of,
           of = date \/ date > FirstDays, Upserts(date, of)
    PROVE  /\ icRows' = [d \in Days |-> icRows'[d]]
           /\ \A d \in Days : icRows'[d] # 0 => d \in TradingDays
           /\ \A d \in 1 .. FirstDays : icRows'[d] \in {0, d}
<1>1. icRows' = [icRows EXCEPT ![date] = of] /\ icRows = [d \in Days |-> icRows[d]]
  BY DEF Upserts, IcInv
<1>2. \A d \in Days : icRows'[d] = IF d = date THEN of ELSE icRows[d]
  BY <1>1
<1>3. 1 .. FirstDays \subseteq Days /\ date \in Nat /\ FirstDays \in Nat
  BY IcAssumption DEF Days
<1> QED BY <1>1, <1>2, <1>3 DEF IcInv, ReplayLeavesNoTrace

LEMMA IcStart == IcInit => IcInv
<1> SUFFICES ASSUME IcInit PROVE IcInv
  OBVIOUS
<1>1. /\ NoBatch.by # "replay" /\ Waiting.pc = "waits"
      /\ Waiting \in [pc : {"waits", "replays", "saves", "done"}, i : Nat, last : Nat]
  BY DEF NoBatch, Batch, Waiting, Backfill
<1>2. 1 .. FirstDays \subseteq Days /\ FirstDays \in Nat
  BY IcAssumption DEF Days
<1> QED BY <1>1, <1>2 DEF IcInit, IcInv, ReplayLeavesNoTrace

LEMMA IcStep == IcInv /\ [IcNext]_icVars => IcInv'
<1> SUFFICES ASSUME IcInv, [IcNext]_icVars PROVE IcInv'
  OBVIOUS
<1> DEFINE Backs == [pc : {"waits", "replays", "saves", "done"}, i : Nat, last : Nat]
<1>0. /\ NoBackfill \in Backs /\ NoBackfill.pc = "done" /\ Waiting \in Backs /\ Waiting.pc = "waits"
      /\ NoBatch.by = "none" /\ \A of, by : Batch(of, by).by = by
  BY DEF NoBackfill, Waiting, Backfill, NoBatch, Batch
<1>t. TradingDays \subseteq Nat /\ FirstDays \in Nat /\ FirstDays > 0
  BY IcAssumption
<1> USE DEF SameBackfill, SameLoop, SameIcRows
<1>1. CASE NextDay
  BY <1>1, <1>t DEF NextDay, IcInv, ReplayLeavesNoTrace
<1>2. CASE LiveComputes
  BY <1>0, <1>2 DEF LiveComputes, IcInv, ReplayLeavesNoTrace
<1>3. CASE LoopTakes
  BY <1>3 DEF LoopTakes, IcInv, ReplayLeavesNoTrace
<1>4. ASSUME NEW works \in BOOLEAN, LoopSaves(works) PROVE IcInv'
  <2>1. /\ icRows' = [d \in Days |-> icRows'[d]]
        /\ \A d \in Days : icRows'[d] # 0 => d \in TradingDays
        /\ \A d \in 1 .. FirstDays : icRows'[d] \in {0, d}
    <3>1. CASE works /\ day \in TradingDays
      <4>1. Upserts(day, held.of) /\ day > FirstDays
        BY <1>4, <3>1, <1>t DEF LoopSaves, IcInv
      <4> QED BY <4>1, <3>1, RowsStay
    <3>2. CASE ~(works /\ day \in TradingDays)
      BY <1>4, <3>2 DEF LoopSaves, IcInv, ReplayLeavesNoTrace
    <3> QED BY <3>1, <3>2
  <2> QED BY <1>4, <2>1 DEF LoopSaves, IcInv, ReplayLeavesNoTrace
<1>5. ASSUME NEW yes \in BOOLEAN, LoopComputes(yes) PROVE IcInv'
  BY <1>0, <1>5 DEF LoopComputes, IcInv, ReplayLeavesNoTrace
<1>6. ASSUME NEW ready \in BOOLEAN, BackfillBegins(ready) PROVE IcInv'
  <2>1. /\ Latest({d \in TradingDays : d < day}) \in TradingDays
        /\ Latest({d \in TradingDays : d <= day}) \in TradingDays
    BY <1>t, DaysBefore DEF IcInv
  <2>2. CASE ready /\ KnownDates < SkipGate
    <3>1. PICK last \in TradingDays : snap' = batch /\ back' = Backfill("replays", last, last)
      BY <1>6, <2>1, <2>2 DEF BackfillBegins
    <3>2. back' \in Backs /\ back'.pc = "replays" /\ back'.i \in TradingDays
      BY <3>1, <1>t DEF Backfill
    <3> QED BY <1>6, <3>1, <3>2 DEF BackfillBegins, IcInv, ReplayLeavesNoTrace
  <2>3. CASE ~(ready /\ KnownDates < SkipGate)
    BY <1>0, <1>6, <2>3 DEF BackfillBegins, IcInv, ReplayLeavesNoTrace
  <2> QED BY <2>2, <2>3
<1>7. ASSUME NEW signal \in BOOLEAN, NEW works \in BOOLEAN, Replays(signal, works) PROVE IcInv'
  <2>1. Latest({d \in TradingDays : d < back.i}) \in TradingDays
    BY <1>7, DaysBefore DEF Replays, IcInv
  <2>2. back' \in Backs /\ back'.pc = "replays" /\ back'.i \in TradingDays
    BY <1>7, <2>1, <1>t DEF Replays, IcInv
  <2>3. scored' \subseteq TradingDays
    BY <1>7 DEF Replays, IcInv
  <2> QED BY <1>7, <2>2, <2>3 DEF Replays, IcInv, ReplayLeavesNoTrace
<1>8. ASSUME NEW cancelled \in BOOLEAN, EndsReplay(cancelled) PROVE IcInv'
  <2>1. back' \in Backs /\ back'.pc # "replays" /\ snap'.by # "replay" /\ batch'.by # "replay"
    BY <1>0, <1>8 DEF EndsReplay, IcInv, ReplayLeavesNoTrace
  <2> QED BY <1>8, <2>1 DEF EndsReplay, IcInv, ReplayLeavesNoTrace
<1>9. ASSUME NEW works \in BOOLEAN, SavesDay(works) PROVE IcInv'
  <2>1. back' \in Backs /\ back'.pc = "saves"
    BY <1>9 DEF SavesDay, IcInv
  <2>2. /\ icRows' = [d \in Days |-> icRows'[d]]
        /\ \A d \in Days : icRows'[d] # 0 => d \in TradingDays
        /\ \A d \in 1 .. FirstDays : icRows'[d] \in {0, d}
    <3>1. CASE works /\ back.i \in scored
      <4>1. Upserts(back.i, back.i) /\ back.i \in TradingDays
        BY <1>9, <3>1 DEF SavesDay, IcInv
      <4> QED BY <4>1, RowsStay
    <3>2. CASE ~(works /\ back.i \in scored)
      BY <1>9, <3>2 DEF SavesDay, IcInv, ReplayLeavesNoTrace
    <3> QED BY <3>1, <3>2
  <2> QED BY <1>9, <2>1, <2>2 DEF SavesDay, IcInv, ReplayLeavesNoTrace
<1>10. CASE BackfillDone
  BY <1>0, <1>10 DEF BackfillDone, IcInv, ReplayLeavesNoTrace
<1>11. ASSUME NEW signal \in BOOLEAN, IcRestart(signal) PROVE IcInv'
  <2>1. batch'.by # "replay" /\ back' = Waiting /\ snap'.by # "replay"
    BY <1>0, <1>11 DEF IcRestart
  <2> QED BY <1>0, <1>11, <2>1 DEF IcRestart, IcInv, ReplayLeavesNoTrace
<1>12. CASE UNCHANGED icVars
  BY <1>12 DEF icVars, IcInv, ReplayLeavesNoTrace
<1> QED BY <1>1, <1>2, <1>3, <1>4, <1>5, <1>6, <1>7, <1>8, <1>9, <1>10, <1>11, <1>12 DEF IcNext

\* The backfill of the coefficients leaves no trace of its replay in the registry
\* (main.py, _backfill_ic_history_task), whatever loops, requests and restarts do
\* meanwhile; rows are of trading days, those of the past hold the prices of their day.
THEOREM NoTraceLeft == IcSpec => []ReplayLeavesNoTrace
<1>1. IcInit => IcInv
  BY IcStart
<1>2. IcInv /\ [IcNext]_icVars => IcInv'
  BY IcStep
<1>3. IcInv => ReplayLeavesNoTrace
  BY DEF IcInv
<1> QED BY <1>1, <1>2, <1>3, PTL DEF IcSpec

=============================================================================
