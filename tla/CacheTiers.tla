------------------------------ MODULE CacheTiers ------------------------------
(***************************************************************************)
(* services/cache_service.py: cache_get and cache_set over the shared      *)
(* Redis and the memory of the process, one key of it that nobody else     *)
(* writes; and the thread-safe SyncMemoryCache, one entry of it.  A value  *)
(* is the number of the write it came with, in the order in which Redis    *)
(* was asked to store them; a time to live is a number of ticks.           *)
(***************************************************************************)
EXTENDS Integers

CONSTANTS Writers, CacheReaders, Ttl, MaxWrites, MaxCacheClock

ASSUME TiersAssumption == {Ttl, MaxWrites, MaxCacheClock} \subseteq Nat

VARIABLES cclock, writes,
          server,   \* Redis itself answers or not
          known,    \* RedisCache._available: it answered once
          redis, memory,    \* the value in each tier and its last tick
          writing,  \* cache_set under way: the value that awaits its memory half
          reading,  \* cache_get under way, after its GET
          split,    \* history: the last value put in the memory is not the newest one,
                    \* in both tiers
          newestRead,       \* history: the newest value that was read
          readOut,  \* history: what the last finished read gave
          sync, popping     \* SyncMemoryCache: the entry; the threads about to drop it

tierVars == <<cclock, writes, server, known, redis, memory, writing, reading, split,
              newestRead, readOut, sync, popping>>

Held(value, until) == [value |-> value, until |-> until]
NoEntry == Held(0, 0)
Alive(item) == item.until >= cclock

\* A read that found nothing in Redis: the newest value read before it began, and
\* whether its GET failed while some write had only its first half behind it.
Awaits(floor, blind) == [floor |-> floor, blind |-> blind]
NotReading == Awaits(-1, FALSE)
\* What a read gave, 0 for nothing, and what excuses it for being older.
Read(value, floor, excused) == [value |-> value, floor |-> floor, excused |-> excused]

TiersInit ==
    /\ cclock = 1 /\ writes = 0 /\ server \in BOOLEAN /\ known = FALSE
    /\ redis = NoEntry /\ memory = NoEntry
    /\ writing = [w \in Writers |-> 0] /\ reading = [r \in CacheReaders |-> NotReading]
    /\ split = FALSE /\ newestRead = 0 /\ readOut = Read(0, 0, FALSE)
    /\ sync = NoEntry /\ popping = {}

SyncSame == UNCHANGED <<sync, popping>>
HistorySame == UNCHANGED <<split, newestRead, readOut>>

\* Time passes whatever is under way: the lifetime in the memory starts when the SET
\* of Redis was answered.
CacheTick == /\ cclock < MaxCacheClock /\ cclock' = cclock + 1
             /\ UNCHANGED <<writes, server, known, redis, memory, writing, reading>>
             /\ HistorySame /\ SyncSame

\* init, at the start and after every fifty calls that were skipped.  Once known to
\* be there Redis stays known, whatever happens to it.
ProbesRedis == /\ ~known /\ known' = server
               /\ UNCHANGED <<cclock, writes, server, redis, memory, writing, reading>>
               /\ HistorySame /\ SyncSame
ServerTurns == /\ server' = ~server
               /\ UNCHANGED <<cclock, writes, known, redis, memory, writing, reading>>
               /\ HistorySame /\ SyncSame

Reaches == known /\ server

\* cache_set: Redis first, if it can be reached, then the memory.
WritesRedis(w) ==
    /\ writing[w] = 0 /\ writes < MaxWrites
    /\ writes' = writes + 1 /\ writing' = [writing EXCEPT ![w] = writes']
    /\ redis' = IF Reaches THEN Held(writes', cclock + Ttl) ELSE redis
    /\ UNCHANGED <<cclock, server, known, memory, reading>> /\ HistorySame /\ SyncSame

\* Two writes that cross, or one that Redis missed, leave the tiers split until the
\* newest write is in both.
WritesMemory(w) ==
    /\ writing[w] # 0
    /\ memory' = Held(writing[w], cclock + Ttl)
    /\ split' = IF writing[w] = redis.value THEN split /\ writing[w] # writes ELSE TRUE
    /\ writing' = [writing EXCEPT ![w] = 0]
    /\ UNCHANGED <<cclock, writes, server, known, redis, reading, newestRead, readOut>>
    /\ SyncSame

Gives(value, floor, excused) ==
    /\ readOut' = Read(value, floor, excused)
    /\ newestRead' = IF value > newestRead THEN value ELSE newestRead

\* cache_get: what Redis has, else what the memory has.
ReadsRedis(r) ==
    /\ reading[r] = NotReading
    /\ IF Reaches /\ redis.value # 0 /\ Alive(redis)
       THEN Gives(redis.value, newestRead, split) /\ UNCHANGED reading
       ELSE /\ LET blind == ~Reaches /\ \E w \in Writers : writing[w] # 0
               IN  reading' = [reading EXCEPT ![r] = Awaits(newestRead, blind)]
            /\ UNCHANGED <<newestRead, readOut>>
    /\ UNCHANGED <<cclock, writes, server, known, redis, memory, writing, split>> /\ SyncSame

\* Mutant: a hit in the memory renews the entry.
ReadsAndRenews(r) ==
    /\ reading[r] # NotReading /\ reading' = [reading EXCEPT ![r] = NotReading]
    /\ Gives(IF Alive(memory) THEN memory.value ELSE 0, reading[r].floor,
             split \/ reading[r].blind)
    /\ memory' = IF Alive(memory) THEN Held(memory.value, cclock + Ttl) ELSE NoEntry
    /\ UNCHANGED <<cclock, writes, server, known, redis, writing, split>> /\ SyncSame

ReadsMemory(r) ==
    /\ reading[r] # NotReading /\ reading' = [reading EXCEPT ![r] = NotReading]
    /\ Gives(IF Alive(memory) THEN memory.value ELSE 0, reading[r].floor,
             split \/ reading[r].blind)
    /\ memory' = IF Alive(memory) THEN memory ELSE NoEntry
    /\ UNCHANGED <<cclock, writes, server, known, redis, writing, split>> /\ SyncSame

\* SyncMemoryCache: an entry that expired is looked at under the lock, and dropped
\* under the lock, but the lock is let go between.
SyncSets == /\ writes < MaxWrites /\ writes' = writes + 1 /\ sync' = Held(writes', cclock + Ttl)
            /\ UNCHANGED <<cclock, server, known, redis, memory, writing, reading,
                           popping>> /\ HistorySame
SyncFindsExpired(r) ==
    /\ sync.value # 0 /\ ~Alive(sync) /\ r \notin popping /\ popping' = popping \cup {r}
    /\ UNCHANGED <<cclock, writes, server, known, redis, memory, writing, reading, sync>>
    /\ HistorySame
SyncDrops(r) ==
    /\ r \in popping /\ popping' = popping \ {r} /\ sync' = NoEntry
    /\ UNCHANGED <<cclock, writes, server, known, redis, memory, writing, reading>>
    /\ HistorySame

TiersNext ==
    \/ CacheTick \/ ProbesRedis \/ ServerTurns
    \/ \E w \in Writers : WritesRedis(w) \/ WritesMemory(w)
    \/ \E r \in CacheReaders : ReadsRedis(r) \/ ReadsMemory(r)
SyncNext == CacheTick \/ SyncSets \/ \E r \in CacheReaders : SyncFindsExpired(r) \/ SyncDrops(r)

-----------------------------------------------------------------------------
\* A reader is given a value older than one that had been read when it began only
\* while two writes that crossed, or one that Redis missed, have left the tiers split,
\* or when its own GET fails beside a write that has only Redis behind it; never by
\* the entries' expiring at different times, nor by an outage or its end alone.
NeverBackInTime == ~readOut.excused /\ readOut.value # 0 => readOut.value >= readOut.floor

\* Claims false of the code.  The last finished write is read (after an outage Redis
\* gives what it had before, cache_service.py 309-314); an entry is dropped only when
\* it is out of date (354-364).
LastWriteIsRead == (\A w \in Writers : writing[w] = 0) /\ readOut.value # 0 /\ readOut.value = redis.value
                   => readOut.value = memory.value
OnlyExpiredDropped == [][sync # NoEntry /\ sync' = NoEntry => ~Alive(sync)]_tierVars
===============================================================================
