----------------------------- MODULE HubRefresh -----------------------------
(***************************************************************************)
(* The refresh of the candidate pool of services/market_data_hub.py: the   *)
(* time to live, the cooldown and the lock in front of it, the protection  *)
(* of the last good pool, and the snapshot a restart falls back on.  A     *)
(* step ends where refresh awaits: the lock, the scan, the snapshot file.  *)
(* Time passes in units of 30 seconds.                                     *)
(***************************************************************************)
EXTENDS Integers, Sequences, TLAPS
LOCAL INSTANCE SequencesExt
LOCAL INSTANCE FiniteSetsExt

CONSTANTS Callers,            \* design runs and the warm-up, numbered as they call
          Scans,              \* how many funds a refresh may gather before the anchors:
                              \* the scan's, up to eight of strong sectors, opportunistic ones
          Anchors, MaxPool,   \* funds injected whatever was gathered, room in the layers
          TTL, Cooldown, WaitLimit,
          MaxHubClock, MaxHubRestarts      \* bounds

ASSUME HubAssumption ==
    /\ Callers \subseteq Nat /\ Scans \subseteq Nat /\ Anchors \in Nat /\ MaxPool \in Nat
    /\ TTL \in Nat /\ Cooldown \in Nat /\ WaitLimit \in Nat
    /\ MaxHubClock \in Nat /\ MaxHubRestarts \in Nat

VARIABLES hubClock,
          hubPool,       \* what was gathered of it (found) and how large it became
          state,      \* _version, _degraded, _consecutive_failures
          stamp,      \* _last_refresh_ts (0: forget it) and _cached_ts (0: no copy)
          lock,       \* which lock object _refresh_lock is
          job,        \* the calls
          crowded,    \* calls whose refresh overlapped with another
          snaps,      \* market_snapshots of the pool, newest last
          hubRestarts

hubVars == <<hubClock, hubPool, state, stamp, lock, job, crowded, snaps, hubRestarts>>

NoPool == [found |-> 0, size |-> 0]
NoJob == [pc |-> "idle", lock |-> 0, now |-> 0, good |-> NoPool]
FreshState == [version |-> 0, degraded |-> FALSE, failures |-> 0]

HubInit == /\ hubClock = 1 /\ hubPool = NoPool /\ state = FreshState
           /\ stamp = [last |-> 0, cached |-> 0] /\ lock = 0
           /\ job = [c \in Callers |-> NoJob]
           /\ crowded = {} /\ snaps = <<>> /\ hubRestarts = 0

\* Between acquiring and leaving "async with self._refresh_lock".
Refreshing == {c \in Callers : job[c].pc \in {"scanning", "storing"}}
Locked(l) == \E c \in Refreshing : job[c].lock = l
WaitingFor(l) == {c \in Callers : job[c].pc = "waiting" /\ job[c].lock = l}
Ends(c) == job' = [job EXCEPT ![c] = [NoJob EXCEPT !.pc = "done"]]

Calls(c) == job[c].pc = "idle" /\ \A d \in Callers : d < c => job[d].pc # "idle"

\* The copy counts even when it is a copy of an empty pool.
StillValid == stamp.last # 0 /\ stamp.cached # 0 /\ hubClock - stamp.cached < TTL
Cooling == stamp.last # 0 /\ hubClock - stamp.last < Cooldown

\* refresh: answered at once from what is there.
Skipped(c) ==
    /\ Calls(c) /\ (StillValid \/ Cooling)
    /\ Ends(c)
    /\ UNCHANGED <<hubClock, hubPool, state, stamp, lock, crowded, snaps, hubRestarts>>

\* The lock taken, the last good pool remembered; the stamp is the time the
\* call came in, however long it waited.
Takes(c, l, now) ==
    /\ job' = [job EXCEPT ![c] = [pc |-> "scanning", lock |-> l, now |-> 0, good |-> hubPool]]
    /\ stamp' = [stamp EXCEPT !.last = now]
    /\ crowded' = IF Refreshing = {} THEN crowded ELSE crowded \cup Refreshing \cup {c}
    /\ UNCHANGED <<hubClock, hubPool, state, snaps, hubRestarts>>

Enters(c) ==
    /\ Calls(c) /\ ~StillValid /\ ~Cooling
    /\ IF Locked(lock)
       THEN /\ job' = [job EXCEPT ![c] = [pc |-> "waiting", lock |-> lock, now |-> hubClock,
                                          good |-> NoPool]]
            /\ UNCHANGED <<hubClock, hubPool, state, stamp, crowded, snaps, hubRestarts>>
       ELSE WaitingFor(lock) = {} /\ Takes(c, lock, hubClock)
    /\ UNCHANGED lock

\* The refresh waited for is over; what it left is the answer.
Waited(c) ==
    /\ job[c].pc = "waiting" /\ ~Locked(job[c].lock)
    /\ Ends(c)
    /\ UNCHANGED <<hubClock, hubPool, state, stamp, lock, crowded, snaps, hubRestarts>>

\* After 120 seconds the lock is thrown away and a second refresh begins.
GivesUp(c) ==
    /\ job[c].pc = "waiting" /\ Locked(job[c].lock)
    /\ hubClock - job[c].now >= WaitLimit
    /\ lock' = lock + 1
    /\ Takes(c, lock + 1, job[c].now)

Grown(n) == [found |-> n, size |-> Min({n + Anchors, MaxPool})]

\* Half of the pool before is the least a refresh may gather (_pre_mandatory_total, which
\* counts the injected funds of strong sectors); the anchors do not count.
ShrunkWithAnchors(n, good) == n > 0 /\ 2 * (n + Anchors) < good.size   \* the bug of R105
Shrunk(n, good) == n > 0 /\ 2 * n < good.size

Returned(c) == stamp' = [stamp EXCEPT !.cached = hubClock] /\ Ends(c)

\* Nothing worth keeping was gathered: the pool stays, or the last
\* snapshot takes its place when the refresh had begun without one.
PoolStays(c, n) ==
    LET good == job[c].good IN
    /\ job[c].pc = "scanning" /\ (n = 0 \/ Shrunk(n, good))
    /\ IF good.size > 0
       THEN state' = [state EXCEPT !.degraded = TRUE] /\ UNCHANGED hubPool
       ELSE IF snaps # <<>>
       THEN /\ hubPool' = Last(snaps)
            /\ state' = [state EXCEPT !.degraded = TRUE, !.failures = 0]
       ELSE state' = [state EXCEPT !.failures = @ + 1] /\ UNCHANGED hubPool
    /\ Returned(c)
    /\ UNCHANGED <<hubClock, lock, crowded, snaps, hubRestarts>>

Replaced(c, n) ==
    /\ job[c].pc = "scanning" /\ n > 0 /\ ~Shrunk(n, job[c].good)
    /\ hubPool' = Grown(n)
    /\ state' = [version |-> state.version + 1, degraded |-> FALSE, failures |-> 0]
    /\ job' = [job EXCEPT ![c].pc = "storing", ![c].good = Grown(n)]
    /\ UNCHANGED <<hubClock, stamp, lock, crowded, snaps, hubRestarts>>

\* _persist_snapshot_after_refresh: only once the market has closed, and a
\* failure to write is not noticed.  Two snapshots are kept.
Persisted(c, written) ==
    /\ job[c].pc = "storing"
    /\ snaps' = IF ~written THEN snaps
                ELSE LET all == Append(snaps, job[c].good)
                     IN  SubSeq(all, Max({1, Len(all) - 1}), Len(all))
    /\ Returned(c)
    /\ UNCHANGED <<hubClock, hubPool, state, lock, crowded, hubRestarts>>

\* An exception of the steps after the scan forgets the stamp.
Raises(c) ==
    /\ job[c].pc = "scanning"
    /\ stamp' = [stamp EXCEPT !.last = 0]
    /\ Ends(c)
    /\ UNCHANGED <<hubClock, hubPool, state, lock, crowded, snaps, hubRestarts>>

\* The caller gives up (the warm-up after 150 seconds); the stamp stays.
IsCancelled(c) ==
    /\ job[c].pc \in {"waiting", "scanning", "storing"}
    /\ Ends(c)
    /\ UNCHANGED <<hubClock, hubPool, state, stamp, lock, crowded, snaps, hubRestarts>>

\* A design outside trading hours does not refresh a pool that has funds
\* (strategy_design.py); it marks it.
OffHours(c) ==
    /\ Calls(c) /\ hubPool.size > 0
    /\ state' = [state EXCEPT !.degraded = TRUE]
    /\ Ends(c)
    /\ UNCHANGED <<hubClock, hubPool, stamp, lock, crowded, snaps, hubRestarts>>

HubRestarts ==
    /\ hubRestarts < MaxHubRestarts /\ hubRestarts' = hubRestarts + 1
    /\ hubPool' = NoPool /\ state' = FreshState
    /\ stamp' = [last |-> 0, cached |-> 0] /\ lock' = 0
    /\ job' = [c \in Callers |-> IF job[c].pc = "idle" THEN NoJob
                                 ELSE [NoJob EXCEPT !.pc = "done"]]
    /\ crowded' = {}
    /\ UNCHANGED <<hubClock, snaps>>

HubTick == /\ hubClock < MaxHubClock /\ hubClock' = hubClock + 1
           /\ UNCHANGED <<hubPool, state, stamp, lock, job, crowded, snaps, hubRestarts>>

HubNext == \/ \E c \in Callers : \/ Skipped(c) \/ Enters(c) \/ Waited(c) \/ GivesUp(c)
                                 \/ Raises(c) \/ IsCancelled(c) \/ OffHours(c)
                                 \/ \E n \in Scans : PoolStays(c, n) \/ Replaced(c, n)
                                 \/ \E w \in BOOLEAN : Persisted(c, w)
           \/ HubRestarts \/ HubTick

-----------------------------------------------------------------------------
\* A pool gives way only to one for which at least half of its funds were gathered
\* before the anchors came in, unless the refresh that replaces it ran beside another
\* one (it compares with the pool it began with) or the process restarted.
PoolKept ==
    [][hubPool' # hubPool /\ hubRestarts' = hubRestarts
       => \/ 2 * hubPool'.found >= hubPool.size
          \/ \E c \in crowded : job[c].pc = "scanning" /\ job'[c].pc # "scanning"]_hubVars

\* The docstring of refresh: a refresh that is running is waited for, never
\* doubled.  Not so of the code, see GivesUp.
OneRefresh == \A c, d \in Refreshing : c = d

-----------------------------------------------------------------------------
HubSpec == HubInit /\ [][HubNext]_hubVars

PoolType == [found : Nat, size : Nat]
JobType == [pc : {"idle", "waiting", "scanning", "storing", "done"},
            lock : Int, now : Int, good : PoolType]

\* The only refresh that is under way began with the pool there is, unless it is
\* crowded: two of them are, both.
AloneSeesThePool ==
    \A c \in Callers \ crowded :
       c \in Refreshing => /\ \A d \in Refreshing : d = c
                           /\ job[c].pc = "scanning" => job[c].good = hubPool

HubInv == /\ hubPool \in PoolType /\ snaps \in Seq(PoolType)
          /\ job \in [Callers -> JobType]
          /\ lock \in Int /\ hubClock \in Int /\ hubRestarts \in Nat
          /\ AloneSeesThePool

\* A pool grown from a scan is a pool.
LEMMA GrownTyped == ASSUME NEW n \in Scans PROVE Grown(n) \in PoolType /\ Grown(n).found = n
<1>1. n \in Nat /\ n + Anchors \in Nat /\ MaxPool \in Nat
  BY HubAssumption
<1>2. PICK x \in {n + Anchors, MaxPool} : \A y \in {n + Anchors, MaxPool} : x =< y
  BY <1>1
<1>3. Min({n + Anchors, MaxPool}) \in {n + Anchors, MaxPool}
  BY <1>2 DEF Min
<1> QED BY <1>1, <1>3 DEF Grown, PoolType

\* The newest snapshot is one, and those that are kept are.
LEMMA NewestTyped == ASSUME NEW T, NEW s \in Seq(T), s # <<>> PROVE Last(s) \in T
BY DEF Last

LEMMA TailTyped ==
    ASSUME NEW T, NEW s \in Seq(T), NEW k \in {1, Len(s) - 1}, k >= 1
    PROVE  SubSeq(s, k, Len(s)) \in Seq(T)
<1>1. Len(s) \in Nat /\ k \in Nat /\ k <= Len(s) + 1
  OBVIOUS
<1>2. \A i \in k .. Len(s) : s[i] \in T
  BY <1>1
<1> QED BY <1>1, <1>2

LEMMA SnapsTyped ==
    ASSUME NEW T, NEW s \in Seq(T), NEW p \in T
    PROVE  LET all == Append(s, p)
           IN  SubSeq(all, Max({1, Len(all) - 1}), Len(all)) \in Seq(T)
<1> DEFINE all == Append(s, p)
           k == Max({1, Len(all) - 1})
<1>1. all \in Seq(T) /\ Len(all) \in Nat
  OBVIOUS
<1>2. PICK x \in {1, Len(all) - 1} : \A y \in {1, Len(all) - 1} : x >= y
  BY <1>1
<1>3. k \in {1, Len(all) - 1} /\ k >= 1
  BY <1>2, <1>1 DEF Max
<1> HIDE DEF all, k
<1>4. SubSeq(all, k, Len(all)) \in Seq(T)
  BY <1>1, <1>3, TailTyped
<1> QED BY <1>4 DEF all, k

\* The records a call starts and ends with.
LEMMA DoneTyped ==
    /\ NoPool \in PoolType /\ NoJob \in JobType /\ NoJob.pc = "idle"
    /\ [NoJob EXCEPT !.pc = "done"] \in JobType /\ [NoJob EXCEPT !.pc = "done"].pc = "done"
<1>1. NoPool \in PoolType
  BY DEF NoPool, PoolType
<1>2. [NoJob EXCEPT !.pc = "done"] = [pc |-> "done", lock |-> 0, now |-> 0, good |-> NoPool]
  BY DEF NoJob
<1> QED BY <1>1, <1>2 DEF NoJob, JobType

\* Whoever ends leaves what holds of the others; a refresh that ends leaves none under
\* way that is not crowded.
LEMMA EndsTyped ==
    ASSUME job \in [Callers -> JobType], NEW c \in Callers, Ends(c)
    PROVE  /\ job' \in [Callers -> JobType]
           /\ Refreshing' = Refreshing \ {c}
           /\ \A d \in Callers \ {c} : job'[d] = job[d]
<1>1. [NoJob EXCEPT !.pc = "done"] \in JobType /\ [NoJob EXCEPT !.pc = "done"].pc = "done"
  BY DoneTyped
<1> QED BY <1>1 DEF Ends, Refreshing

LEMMA OthersEnd ==
    ASSUME HubInv, NEW c \in Callers, Ends(c), UNCHANGED <<hubPool, crowded>>
    PROVE  AloneSeesThePool'
BY EndsTyped DEF HubInv, AloneSeesThePool, Refreshing

LEMMA RefreshEnds ==
    ASSUME HubInv, NEW c \in Refreshing, Ends(c), UNCHANGED crowded
    PROVE  AloneSeesThePool'
<1>1. c \in Callers
  BY DEF Refreshing
<1>2. Refreshing' = Refreshing \ {c}
  BY <1>1, EndsTyped DEF HubInv
<1>3. \A d \in Callers \ crowded : d \in Refreshing => d = c
  BY <1>1 DEF HubInv, AloneSeesThePool
<1> QED BY <1>2, <1>3 DEF AloneSeesThePool

LEMMA TakingKeeps ==
    ASSUME HubInv, NEW c \in Callers, NEW l \in Int, NEW now \in Int, Takes(c, l, now),
           lock' \in Int, c \notin Refreshing
    PROVE  HubInv'
<1> DEFINE new == [pc |-> "scanning", lock |-> l, now |-> 0, good |-> hubPool]
<1>1. new \in JobType /\ job' = [job EXCEPT ![c] = new] /\ hubPool' = hubPool
  BY DEF HubInv, JobType, Takes
<1>2. Refreshing' = Refreshing \cup {c} /\ job'[c] = new
  BY <1>1 DEF HubInv, Refreshing
<1>3. AloneSeesThePool'
  <2>1. CASE Refreshing = {}
    BY <2>1, <1>1, <1>2 DEF AloneSeesThePool
  <2>2. CASE Refreshing # {}
    <3>1. Refreshing' \subseteq crowded'
      BY <2>2, <1>2 DEF Takes
    <3> QED BY <3>1 DEF AloneSeesThePool
  <2> QED BY <2>1, <2>2
<1> QED BY <1>1, <1>3 DEF HubInv, Takes

\* Each step of a caller, and a restart, keep the invariant.
LEMMA HubStep == HubInv /\ [HubNext]_hubVars => HubInv'
<1> SUFFICES ASSUME HubInv, [HubNext]_hubVars PROVE HubInv'
  OBVIOUS
<1>1. ASSUME NEW c \in Callers,
             Skipped(c) \/ Waited(c) \/ OffHours(c) \/ Raises(c) \/ IsCancelled(c)
      PROVE  HubInv'
  <2>1. /\ Ends(c) /\ hubPool' = hubPool /\ crowded' = crowded /\ snaps' = snaps
        /\ lock' = lock /\ hubClock' = hubClock /\ hubRestarts' = hubRestarts
    BY <1>1 DEF Skipped, Waited, OffHours, Raises, IsCancelled
  <2> QED BY <2>1, EndsTyped, OthersEnd DEF HubInv
<1>3. ASSUME NEW c \in Callers, Enters(c) PROVE HubInv'
  <2>1. c \notin Refreshing
    BY <1>3 DEF Enters, Calls, Refreshing
  <2>2. CASE Locked(lock)
    <3> DEFINE new == [pc |-> "waiting", lock |-> lock, now |-> hubClock, good |-> NoPool]
    <3>1. /\ job' = [job EXCEPT ![c] = new] /\ hubPool' = hubPool /\ crowded' = crowded
          /\ snaps' = snaps /\ lock' = lock /\ hubClock' = hubClock /\ hubRestarts' = hubRestarts
      BY <1>3, <2>2 DEF Enters
    <3>2. new \in JobType
      BY DoneTyped DEF HubInv, JobType
    <3>3. Refreshing' = Refreshing /\ \A d \in Refreshing : job'[d] = job[d]
      BY <3>1, <2>1 DEF HubInv, Refreshing
    <3>4. AloneSeesThePool'
      BY <3>1, <3>3 DEF HubInv, AloneSeesThePool
    <3> QED BY <3>1, <3>2, <3>4 DEF HubInv
  <2>3. CASE ~Locked(lock)
    <3>1. Takes(c, lock, hubClock) /\ lock' = lock
      BY <1>3, <2>3 DEF Enters
    <3> QED BY <3>1, <2>1, TakingKeeps DEF HubInv
  <2> QED BY <2>2, <2>3
<1>4. ASSUME NEW c \in Callers, GivesUp(c) PROVE HubInv'
  <2>1. c \notin Refreshing /\ job[c].now \in Int /\ lock + 1 \in Int
    BY <1>4 DEF GivesUp, Refreshing, HubInv, JobType
  <2>2. Takes(c, lock + 1, job[c].now) /\ lock' = lock + 1
    BY <1>4 DEF GivesUp
  <2> QED BY <2>1, <2>2, TakingKeeps
<1>5. ASSUME NEW c \in Callers, NEW n \in Scans, PoolStays(c, n) PROVE HubInv'
  <2>1. /\ Ends(c) /\ crowded' = crowded /\ snaps' = snaps /\ lock' = lock
        /\ hubClock' = hubClock /\ hubRestarts' = hubRestarts /\ c \in Refreshing
    BY <1>5 DEF PoolStays, Returned, Refreshing
  <2>2. hubPool' = hubPool \/ (snaps # <<>> /\ hubPool' = Last(snaps))
    BY <1>5 DEF PoolStays
  <2>3. hubPool' \in PoolType
    BY <2>2, NewestTyped DEF HubInv
  <2> QED BY <2>1, <2>3, EndsTyped, RefreshEnds DEF HubInv
<1>6. ASSUME NEW c \in Callers, NEW n \in Scans, Replaced(c, n) PROVE HubInv'
  <2>1. /\ job' = [job EXCEPT ![c].pc = "storing", ![c].good = Grown(n)]
        /\ hubPool' = Grown(n) /\ crowded' = crowded /\ snaps' = snaps /\ lock' = lock
        /\ hubClock' = hubClock /\ hubRestarts' = hubRestarts /\ c \in Refreshing
    BY <1>6 DEF Replaced, Refreshing
  <2>2. Grown(n) \in PoolType
    BY GrownTyped
  <2>3. job' \in [Callers -> JobType]
    BY <2>1, <2>2 DEF HubInv, JobType
  <2>4. Refreshing' = Refreshing /\ job'[c].pc = "storing"
    BY <2>1 DEF HubInv, Refreshing, JobType
  <2>5. AloneSeesThePool'
    <3>1. \A d \in Callers \ crowded : d \in Refreshing => d = c
      BY <2>1 DEF HubInv, AloneSeesThePool
    <3> QED BY <3>1, <2>1, <2>4 DEF HubInv, AloneSeesThePool
  <2> QED BY <2>1, <2>2, <2>3, <2>5 DEF HubInv
<1>7. ASSUME NEW c \in Callers, NEW w \in BOOLEAN, Persisted(c, w) PROVE HubInv'
  <2>1. /\ Ends(c) /\ crowded' = crowded /\ lock' = lock /\ hubPool' = hubPool
        /\ hubClock' = hubClock /\ hubRestarts' = hubRestarts
    BY <1>7 DEF Persisted, Returned
  <2>2. job[c].good \in PoolType
    BY DEF HubInv, JobType
  <2>3. snaps' \in Seq(PoolType)
    BY <1>7, <2>2, SnapsTyped DEF Persisted, HubInv
  <2> QED BY <2>1, <2>3, EndsTyped, OthersEnd DEF HubInv
<1>8. CASE HubRestarts
  <2>1. /\ hubPool' = NoPool /\ lock' = 0 /\ snaps' = snaps /\ hubClock' = hubClock
        /\ hubRestarts' = hubRestarts + 1
        /\ job' = [c \in Callers |-> IF job[c].pc = "idle" THEN NoJob
                                     ELSE [NoJob EXCEPT !.pc = "done"]]
    BY <1>8 DEF HubRestarts
  <2>2. /\ NoPool \in PoolType /\ NoJob \in JobType /\ NoJob.pc = "idle"
        /\ [NoJob EXCEPT !.pc = "done"] \in JobType /\ [NoJob EXCEPT !.pc = "done"].pc = "done"
    BY DoneTyped
  <2>3. job' \in [Callers -> JobType] /\ Refreshing' = {}
    BY <2>1, <2>2 DEF Refreshing
  <2> QED BY <2>1, <2>2, <2>3 DEF HubInv, AloneSeesThePool
<1>9. CASE HubTick \/ UNCHANGED hubVars
  <2>1. /\ hubPool' = hubPool /\ lock' = lock /\ snaps' = snaps /\ hubClock' \in Int
        /\ hubRestarts' = hubRestarts /\ job' = job /\ crowded' = crowded
    BY <1>9 DEF HubTick, hubVars, HubInv
  <2> QED BY <2>1 DEF HubInv, AloneSeesThePool, Refreshing
<1> QED BY <1>1, <1>3, <1>4, <1>5, <1>6, <1>7, <1>8, <1>9 DEF HubNext

\* For any callers, scans, clocks and limits: a pool gives way only to one at least half
\* as large, or beside another refresh, or with the process.
THEOREM PoolIsKept == HubSpec => PoolKept
<1> DEFINE Step == hubPool' # hubPool /\ hubRestarts' = hubRestarts
                   => \/ 2 * hubPool'.found >= hubPool.size
                      \/ \E c \in crowded : job[c].pc = "scanning" /\ job'[c].pc # "scanning"
<1>1. HubInit => HubInv
  BY DoneTyped DEF HubInit, HubInv, AloneSeesThePool, Refreshing
<1>2. HubInv /\ [HubNext]_hubVars => Step
  <2> SUFFICES ASSUME HubInv, [HubNext]_hubVars, hubPool' # hubPool, hubRestarts' = hubRestarts
               PROVE  \/ 2 * hubPool'.found >= hubPool.size
                      \/ \E c \in crowded : job[c].pc = "scanning" /\ job'[c].pc # "scanning"
    OBVIOUS
  <2>1. PICK c \in Callers, n \in Scans : PoolStays(c, n) \/ Replaced(c, n)
    <3>1. /\ ~HubTick /\ ~UNCHANGED hubVars /\ ~HubRestarts
          /\ \A c \in Callers : /\ ~Skipped(c) /\ ~Enters(c) /\ ~Waited(c) /\ ~GivesUp(c)
                               /\ ~Raises(c) /\ ~IsCancelled(c) /\ ~OffHours(c)
                               /\ \A w \in BOOLEAN : ~Persisted(c, w)
      <4>1. ~HubRestarts
        BY DEF HubRestarts, HubInv
      <4> QED BY <4>1 DEF hubVars, Skipped, Enters, Takes, Waited, GivesUp, Raises,
                          IsCancelled, OffHours, Persisted, HubTick
    <3> QED BY <3>1 DEF HubNext
  <2>2. job[c].pc = "scanning" /\ job'[c].pc # "scanning" /\ c \in Refreshing
    <3>1. job[c].pc = "scanning" /\ job \in [Callers -> JobType] /\ c \in Refreshing
      BY <2>1 DEF PoolStays, Replaced, HubInv, Refreshing
    <3>2. CASE PoolStays(c, n)
      BY <3>1, <3>2, DoneTyped DEF PoolStays, Returned, Ends
    <3>3. CASE Replaced(c, n)
      BY <3>1, <3>3 DEF Replaced, JobType
    <3> QED BY <2>1, <3>1, <3>2, <3>3
  <2>3. ASSUME c \notin crowded PROVE 2 * hubPool'.found >= hubPool.size
    <3>1. job[c].good = hubPool /\ hubPool.size \in Nat
      BY <2>2, <2>3 DEF HubInv, AloneSeesThePool, PoolType
    <3>2. CASE Replaced(c, n)
      BY <3>1, <3>2, GrownTyped, HubAssumption DEF Replaced, Shrunk
    <3>3. CASE PoolStays(c, n)
      <4>1. hubPool.size = 0 /\ snaps # <<>> /\ hubPool' = Last(snaps)
        BY <3>1, <3>3 DEF PoolStays
      <4>2. hubPool' \in PoolType
        BY <4>1, NewestTyped DEF HubInv
      <4>3. 2 * hubPool'.found >= 0
        BY <4>2 DEF PoolType
      <4> QED BY <4>1, <4>3
    <3> QED BY <2>1, <3>2, <3>3
  <2> QED BY <2>2, <2>3
<1>3. HubInv /\ [HubNext]_hubVars => [Step]_hubVars
  BY <1>2
<1> QED BY <1>1, <1>3, HubStep, PTL DEF HubSpec, PoolKept
=============================================================================
