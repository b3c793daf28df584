---------------------------- MODULE GlobalIndices ----------------------------
(***************************************************************************)
(* get_global_indices of services/market_service.py: the answer of half a  *)
(* minute, the last good entries that a round with holes is merged into,   *)
(* and indices_cache.json.  An entry is the round that brought its price   *)
(* (0: none) and whether it says that it is available.                     *)
(***************************************************************************)
EXTENDS Integers

CONSTANTS Indices, Mainland,    \* the indices; those of the mainland among them
          IndexCallers, MaxIndexRounds

ASSUME IndicesAssumption == Mainland \subseteq Indices /\ MaxIndexRounds \in Nat

VARIABLES answerKept,   \* _global_indices_cache, while it is of use
          remembered,   \* _global_indices_last_ok
          indexFile,    \* indices_cache.json; what a cut write leaves reads as nothing
          asked,        \* the rounds under way: their numbers
          bareOnes,     \* the indices a source listed without a price in the last step
          indexRounds

indexVars == <<answerKept, remembered, indexFile, asked, bareOnes, indexRounds>>

Entry(at, available) == [at |-> at, available |-> available]
NoPrice == Entry(0, FALSE)
Nothing == [i \in {} |-> NoPrice]

IndicesInit ==
    /\ answerKept = Nothing /\ remembered = Nothing /\ indexFile = Nothing
    /\ asked = [c \in IndexCallers |-> 0] /\ bareOnes = {} /\ indexRounds = 0

\* No single flight: whoever finds no answer of half a minute starts a round.
AsksIndices(c) ==
    /\ asked[c] = 0 /\ indexRounds < MaxIndexRounds /\ answerKept = Nothing
    /\ indexRounds' = indexRounds + 1 /\ asked' = [asked EXCEPT ![c] = indexRounds']
    /\ bareOnes' = {} /\ UNCHANGED <<answerKept, remembered, indexFile>>

AnswerExpires ==
    /\ answerKept # Nothing /\ answerKept' = Nothing /\ bareOnes' = {}
    /\ UNCHANGED <<remembered, indexFile, asked, indexRounds>>

\* What a round brought: priced, listed by eastmoney or for Hong Kong without a
\* price ("-"), or nothing from any source.
RoundOf(at, priced, bare) ==
    [i \in Indices |-> IF i \in priced THEN Entry(at, TRUE)
                       ELSE IF i \in bare THEN Entry(0, TRUE) ELSE NoPrice]

\* The merge: an available entry takes the place of the old one, a missing one only
\* an empty place.
TakesMissing(old, new) == new
KeepsOld(old, new) ==
    [i \in DOMAIN new |-> IF i \in DOMAIN old /\ ~new[i].available THEN old[i] ELSE new[i]]
MergedInto(old, new) == KeepsOld(old, new)

\* The write cuts the file short before it fills it again; its failure is swallowed.
Saved(entries, written) == indexFile' = IF written THEN entries ELSE Nothing

IndicesArrive(c, priced, bare, written) ==
    LET now == MergedInto(remembered, RoundOf(asked[c], priced, bare))
    IN  /\ asked[c] # 0 /\ priced # {} /\ bare \cap (priced \cup Mainland) = {}
        /\ remembered' = now /\ Saved(now, written) /\ answerKept' = now
        /\ bareOnes' = bare
        /\ asked' = [asked EXCEPT ![c] = 0] /\ UNCHANGED indexRounds

\* No source has a price: what is remembered, or what the file holds, is shown as not
\* available; without either the holes are.
Recalled == IF remembered = Nothing THEN indexFile ELSE remembered
AllStale(entries) == [i \in DOMAIN entries |-> Entry(entries[i].at, FALSE)]
ShownInOutage(entries) == AllStale(entries)

IndicesFail(c, bare) ==
    /\ asked[c] # 0 /\ bare \cap Mainland = {}
    /\ remembered' = Recalled
    /\ answerKept' = IF Recalled = Nothing THEN RoundOf(asked[c], {}, bare)
                     ELSE ShownInOutage(Recalled)
    /\ asked' = [asked EXCEPT ![c] = 0] /\ bareOnes' = {}
    /\ UNCHANGED <<indexFile, indexRounds>>

\* _load_ok_cache when the module is loaded.
IndicesRestart ==
    /\ indexRounds < MaxIndexRounds /\ indexRounds' = indexRounds + 1
    /\ remembered' = indexFile /\ answerKept' = Nothing
    /\ asked' = [c \in IndexCallers |-> 0] /\ bareOnes' = {} /\ UNCHANGED indexFile

IndicesNext ==
    \/ AnswerExpires \/ IndicesRestart
    \/ \E c \in IndexCallers :
          \/ AsksIndices(c)
          \/ \E priced, bare \in SUBSET Indices : \E written \in BOOLEAN :
                IndicesArrive(c, priced, bare, written)
          \/ \E bare \in SUBSET Indices : IndicesFail(c, bare)

-----------------------------------------------------------------------------
\* A price, once remembered, outlives every round that brings none for its index,
\* overlapping rounds and outages included; it goes when a source lists the index
\* without one, or with the file a restart finds cut short.
HasPrice(entries, i) == i \in DOMAIN entries /\ entries[i].at # 0
PricesOutliveOutages ==
    [][\A i \in Indices :
          HasPrice(remembered, i) =>
             \/ HasPrice(remembered', i) \/ i \in bareOnes'
             \/ ~HasPrice(indexFile, i) /\ indexFile' = indexFile]_indexVars

\* In an outage no index is shown as available unless a source lists it.
OutageIsSaid ==
    [][\A c \in IndexCallers : \A bare \in SUBSET Indices :
          IndicesFail(c, bare) /\ remembered' # Nothing
          => \A i \in DOMAIN answerKept' : ~answerKept'[i].available]_indexVars

\* Claims false of the code.  An entry that says it is available is of the round that
\* is shown (market_service.py 462-511); the newest price of an index stays.
AvailableIsNew == \A i \in DOMAIN answerKept :
                     answerKept[i].available /\ answerKept[i].at # 0 => answerKept[i].at = indexRounds
NewestStays == [][\A i \in Indices : HasPrice(remembered, i) /\ HasPrice(remembered', i)
                                     => remembered'[i].at >= remembered[i].at]_indexVars
===============================================================================
