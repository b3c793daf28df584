------------------------------ MODULE SpotLists ------------------------------
(***************************************************************************)
(* fetch_hk_spot_list and fetch_us_spot_list (fetchers/china_market.py):   *)
(* one list of a whole market, kept for a day or, when the source fails,   *)
(* an empty one for an hour; threads that find none go through a single    *)
(* flight.                                                                 *)
(***************************************************************************)
EXTENDS Integers

CONSTANTS SpotCallers, MaxSpotFetches

ASSUME SpotAssumption == MaxSpotFetches \in Nat

VARIABLES spotKept,     \* "none", "rows" or "empty"
          flight,       \* _spot_inflight: whose event is in it, or nobody's
          spot,         \* where each caller is; what it was told at the end
          spotFetches

spotVars == <<spotKept, flight, spot, spotFetches>>

NoFlight == "nobody"
SpotInit == /\ spotKept = "none" /\ flight = NoFlight /\ spotFetches = 0
            /\ spot = [c \in SpotCallers |-> "idle"]

At(c, pc) == spot[c] = pc
To(c, pc) == spot' = [spot EXCEPT ![c] = pc]

\* The list is looked for before the lock is taken.
FindsList(c) == /\ At(c, "idle") /\ spotKept # "none" /\ To(c, "told")
                /\ UNCHANGED <<spotKept, flight, spotFetches>>
MissesList(c) == /\ At(c, "idle") /\ spotKept = "none" /\ To(c, "missed")
                 /\ UNCHANGED <<spotKept, flight, spotFetches>>

JoinsUnlocked(c) ==
    /\ At(c, "missed") /\ spotFetches < MaxSpotFetches
    /\ flight' = c /\ To(c, "fetching") /\ spotFetches' = spotFetches + 1
    /\ UNCHANGED spotKept

\* Under the lock: the first puts its event up and fetches, the others wait for it.
Joins(c) ==
    /\ At(c, "missed") /\ spotFetches < MaxSpotFetches
    /\ IF flight = NoFlight THEN flight' = c /\ To(c, "fetching") /\ spotFetches' = spotFetches + 1
       ELSE To(c, "waiting") /\ UNCHANGED <<flight, spotFetches>>
    /\ UNCHANGED spotKept

\* A failure is stored as an empty list, over whatever is there.
Fetched(c, found) ==
    /\ At(c, "fetching") /\ spotKept' = (IF found THEN "rows" ELSE "empty")
    /\ To(c, "leaves") /\ UNCHANGED <<flight, spotFetches>>

\* The event is set, then taken down; who waited reads what is kept, as one does
\* that waited fifteen seconds for nothing.
LeavesFlight(c) == /\ At(c, "leaves") /\ flight' = NoFlight /\ To(c, "told")
                   /\ UNCHANGED <<spotKept, spotFetches>>
Wakes(c) == /\ At(c, "waiting") /\ To(c, "told") /\ UNCHANGED <<spotKept, flight, spotFetches>>

SpotExpires == /\ spotKept # "none" /\ spotKept' = "none"
               /\ UNCHANGED <<flight, spot, spotFetches>>
AsksAgain(c) == /\ At(c, "told") /\ To(c, "idle") /\ UNCHANGED <<spotKept, flight, spotFetches>>

SpotNext == \/ SpotExpires
            \/ \E c \in SpotCallers :
                  \/ FindsList(c) \/ MissesList(c) \/ Joins(c) \/ LeavesFlight(c)
                  \/ Wakes(c) \/ AsksAgain(c) \/ \E found \in BOOLEAN : Fetched(c, found)

-----------------------------------------------------------------------------
\* A whole market is fetched by one thread at a time, however many miss the list
\* together, and the event that is up is the one of that thread.
OneSpotFetch == \A c \in SpotCallers : At(c, "fetching") \/ At(c, "leaves") => flight = c

\* Claim false of the code: an empty list is not stored over one with rows (a thread
\* that missed the list before it came fetches again, and its failure hides the rows
\* for an hour, china_market.py 1016-1020 and 1050-1056).
RowsNotHidden == [][~(spotKept = "rows" /\ spotKept' = "empty")]_spotVars
===============================================================================
