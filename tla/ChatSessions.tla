---------------------------- MODULE ChatSessions ----------------------------
(***************************************************************************)
(* The chat sessions of services/chat_session.py and the three streaming   *)
(* endpoints of routers/analysis.py that use them: advice, market report   *)
(* and symbol analysis.  A request resolves its session, collects data or  *)
(* reuses a snapshot, streams, records the reply and upserts the session.  *)
(* All run on one event loop; a step ends at an await.                     *)
(***************************************************************************)
EXTENDS Naturals, Sequences, FiniteSets

CONSTANTS Requests,     \* bound: requests in a behaviour
          Scripts,      \* what the requests of a behaviour ask, see Question
          Topics,       \* markets of a report, symbols of an analysis
          Capacity,     \* CHAT_STORE_CAPACITY
          MaxRestarts   \* bound: restarts

ChatKinds == {"advice", "report", "symbol"}

\* A report or an analysis may come without a question.
Question == [kind: ChatKinds, topic: Topics, asks: BOOLEAN]

ASSUME ChatAssumption ==
    /\ Capacity \in Nat \ {0} /\ MaxRestarts \in Nat
    /\ Scripts \subseteq [Requests -> Question]
    /\ \A q \in Scripts : \A r \in Requests : q[r].kind = "advice" => q[r].asks

VARIABLES script,
          sess,    \* _sessions: the entries by id
          recency, \* the ids, least recently used first
          stored,    \* chat_sessions: the messages by id
          req,     \* the requests
          issued,  \* ids given out; an id is the request that made the session
          restarts

chatVars == <<script, sess, recency, stored, req, issued, restarts>>

Nobody == "none"

\* market_snapshot is "none", or a coroutine that is to be awaited, or one that was;
\* recent is whether it is less than 60 s old.
NewEntry(kind) == [kind |-> kind, topic |-> Nobody, frozen |-> Nobody, msgs |-> <<>>,
                   snapshot |-> Nobody, recent |-> FALSE, expired |-> FALSE]

Idle == [pc |-> "new", sid |-> Nobody, used |-> Nobody, copy |-> <<>>]

ChatInit ==
    /\ script \in Scripts
    /\ sess = <<>> /\ recency = <<>> /\ stored = <<>>
    /\ req = [r \in Requests |-> Idle]
    /\ issued = {} /\ restarts = 0

Known == DOMAIN sess
With(f, k, v) == [x \in DOMAIN f \cup {k} |-> IF x = k THEN v ELSE f[x]]
Keep(f, K) == [x \in DOMAIN f \cap K |-> f[x]]
Without(q, x) == SelectSeq(q, LAMBDA y : y # x)
Range(q) == {q[i] : i \in DOMAIN q}

\* A store: the entries and their order of use.
Touched(st, s) == [st EXCEPT !.order = Append(Without(@, s), s)]
Updated(st, s, e) == Touched([st EXCEPT !.sess = With(@, s, e)], s)
Dropped(st, S) == [sess |-> Keep(st.sess, DOMAIN st.sess \ S),
                   order |-> SelectSeq(st.order, LAMBDA y : y \notin S)]
Here == [sess |-> sess, order |-> recency]
Store(st) == sess' = st.sess /\ recency' = st.order

\* _create with _evict_overflow.
_create(st, s, kind) ==
    LET n == Updated(st, s, NewEntry(kind))
    IN  IF Len(n.order) > Capacity THEN Dropped(n, {Head(n.order)}) ELSE n

\* Mutant: append creates the session again when it is gone.
AppendedAnew(st, s, role, r) ==
    LET st2 == IF s \in DOMAIN st.sess THEN st ELSE _create(st, s, "advice")
    IN  Updated(st2, s, [st2.sess[s] EXCEPT !.msgs = Append(@, [role |-> role, by |-> r]),
                                            !.expired = FALSE])

\* append: ignored when the session is gone.
Appended(st, s, role, r) ==
    IF s \notin DOMAIN st.sess THEN st
    ELSE Updated(st, s, [st.sess[s] EXCEPT !.msgs = Append(@, [role |-> role, by |-> r]),
                                           !.expired = FALSE])

\* start_or_get: the session s serves a request of this kind; advice does not
\* name the kind it expects.
Serves(s, kind) ==
    s \in Known /\ ~sess[s].expired /\ (kind = "advice" \/ sess[s].kind = kind)

\* Mutant: a session is reused whatever its topic.
ResolvedAnyTopic(r, kind, topic, s) ==
    LET gone == IF s \in Known /\ sess[s].expired THEN Dropped(Here, {s}) ELSE Here
        hit == Serves(s, kind)
    IN  [sid |-> IF hit THEN s ELSE r,
         st |-> IF hit THEN Updated(gone, s, [sess[s] EXCEPT !.expired = FALSE])
                ELSE _create(gone, r, kind)]

\* start_or_get, and the new session when the topic has changed.
Resolved(r, kind, topic, s) ==
    LET gone == IF s \in Known /\ sess[s].expired THEN Dropped(Here, {s}) ELSE Here
        other == kind # "advice" /\ Serves(s, kind) /\ sess[s].msgs # <<>>
                 /\ sess[s].topic \notin {Nobody, topic}
        hit == Serves(s, kind) /\ ~other
    IN  [sid |-> IF hit THEN s ELSE r,
         st |-> IF hit THEN Updated(gone, s, [sess[s] EXCEPT !.expired = FALSE])
                ELSE _create(IF other THEN Touched(gone, s) ELSE gone, r, kind)]

\* A request up to its first await.  With a history an advice request records its
\* question and reads the snapshot; a report or symbol request with a frozen
\* snapshot streams at once, anything else collects.
Ask(r, s) ==
    LET kind == script[r].kind
        res == Resolved(r, kind, script[r].topic, s)
        e == res.st.sess[res.sid]
        history == res.sid # r /\ e.msgs # <<>>
        follows == kind # "advice" /\ script[r].asks /\ history /\ e.frozen # Nobody
        asked == IF follows \/ (kind = "advice" /\ history)
                 THEN Appended(res.st, res.sid, "user", r) ELSE res.st
        reuse == kind = "advice" /\ history /\ e.snapshot # Nobody /\ e.recent
        opened == IF kind = "advice" /\ history
                  THEN [asked EXCEPT !.sess[res.sid].snapshot = "awaited",
                                     !.sess[res.sid].recent = TRUE] ELSE asked
    IN  /\ req[r].pc = "new"
        /\ Store(opened)
        /\ issued' = IF res.sid = r THEN issued \cup {r} ELSE issued
        /\ req' = [req EXCEPT ![r] =
               [pc |-> IF reuse THEN "failed" ELSE IF follows THEN "streaming" ELSE "collecting",
                sid |-> res.sid, used |-> IF follows THEN e.frozen ELSE Nobody, copy |-> <<>>]]
        /\ UNCHANGED <<script, stored, restarts>>

\* Mutant: the question is recorded only when a frozen snapshot is reused.
CollectedUnasked(r) ==
    LET q == script[r]
        s == req[r].sid
        frozen == IF s \notin Known THEN Here
                  ELSE Updated(Here, s, [sess[s] EXCEPT !.frozen = q.topic,
                                             !.topic = q.topic, !.expired = FALSE])
    IN  /\ req[r].pc = "collecting"
        /\ req' = [req EXCEPT ![r].pc = "streaming", ![r].used = q.topic]
        /\ Store(IF q.kind = "advice" THEN Here ELSE frozen)
        /\ UNCHANGED <<script, stored, issued, restarts>>

\* The data is there: a report or an analysis is frozen and its question recorded.
Collected(r) ==
    LET q == script[r]
        s == req[r].sid
        frozen == IF s \notin Known THEN Here
                  ELSE Updated(Here, s, [sess[s] EXCEPT !.frozen = q.topic,
                                             !.topic = q.topic, !.expired = FALSE])
    IN  /\ req[r].pc = "collecting"
        /\ req' = [req EXCEPT ![r].pc = "streaming", ![r].used = q.topic]
        /\ Store(CASE q.kind = "advice" -> Here
                   [] q.kind # "advice" /\ q.asks -> Appended(frozen, s, "user", r)
                   [] OTHER -> frozen)
        /\ UNCHANGED <<script, stored, issued, restarts>>

\* No data: the stream ends with an error event.
CollectingFails(r) ==
    /\ req[r].pc = "collecting"
    /\ req' = [req EXCEPT ![r].pc = "failed"]
    /\ UNCHANGED <<script, sess, recency, stored, issued, restarts>>

\* done: the reply is recorded and the upsert statement built, with the messages of
\* now; nothing is recorded of a reply without tokens (a cached or an empty one).
StreamDone(r, tokens) ==
    LET st == IF tokens THEN Appended(Here, req[r].sid, "assistant", r) ELSE Here
        writes == tokens /\ req[r].sid \in Known
    IN  /\ req[r].pc = "streaming"
        /\ Store(st)
        /\ req' = [req EXCEPT ![r].pc = IF writes THEN "persisting" ELSE "done",
                              ![r].copy = IF writes THEN st.sess[req[r].sid].msgs ELSE <<>>]
        /\ UNCHANGED <<script, stored, issued, restarts>>

\* persist_session commits what the statement holds, or fails.
Persist(r) ==
    /\ req[r].pc = "persisting"
    /\ stored' \in {stored, With(stored, req[r].sid, req[r].copy)}
    /\ req' = [req EXCEPT ![r].pc = "done"]
    /\ UNCHANGED <<script, sess, recency, issued, restarts>>

\* 60 s pass since the snapshot; half an hour without activity.
SnapshotAges(s) ==
    /\ s \in Known /\ sess[s].recent
    /\ sess' = [sess EXCEPT ![s].recent = FALSE]
    /\ UNCHANGED <<script, recency, stored, req, issued, restarts>>

Expires(s) ==
    /\ s \in Known /\ ~sess[s].expired
    /\ sess' = [sess EXCEPT ![s].expired = TRUE, ![s].recent = FALSE]
    /\ UNCHANGED <<script, recency, stored, req, issued, restarts>>

\* load_persisted after a restart: rows older than a day are deleted, the others come
\* back without their kind, topic and snapshots; requests under way are gone.
load_persisted ==
    /\ restarts < MaxRestarts /\ restarts' = restarts + 1
    /\ UNCHANGED <<script, issued>>
    /\ \E old \in SUBSET DOMAIN stored :
       \E order \in [1..Cardinality(DOMAIN stored \ old) -> DOMAIN stored \ old] :
           LET kept == DOMAIN stored \ old
               back == [s \in kept |-> [NewEntry("advice") EXCEPT !.msgs = stored[s]]]
               spare == IF Len(order) > Capacity THEN Len(order) - Capacity ELSE 0
           IN  /\ Range(order) = kept
               /\ Store(Dropped([sess |-> back, order |-> order], {order[i] : i \in 1..spare}))
               /\ stored' = Keep(stored, kept)
    /\ req' = [r \in Requests |-> IF req[r].pc \in {"new", "done", "failed"} THEN req[r]
                                  ELSE [req[r] EXCEPT !.pc = "failed", !.copy = <<>>]]

ChatNext ==
    \/ \E r \in Requests : \E s \in issued \cup {Nobody} : Ask(r, s)
    \/ \E r \in Requests : \/ Collected(r) \/ CollectingFails(r)
                           \/ StreamDone(r, TRUE) \/ StreamDone(r, FALSE) \/ Persist(r)
    \/ \E s \in Requests : SnapshotAges(s) \/ Expires(s)
    \/ load_persisted

ChatSpec == ChatInit /\ [][ChatNext]_chatVars
-----------------------------------------------------------------------------
IsPrefixOf(p, q) == Len(p) <= Len(q) /\ SubSeq(q, 1, Len(p)) = p

\* The row of a session is what the session held at some time: upserts that overtake
\* each other, evictions and restarts may lose the newest turns, they never mix
\* turns or bring a row ahead of its session (persist_session, load_persisted).
RowsArePrefixes ==
    \A s \in DOMAIN stored \cap Known : IsPrefixOf(stored[s], sess[s].msgs)

\* What a report or a symbol request is answered from is about its own market or
\* symbol, whatever session it named ("a change of market opens a new session").
AnsweredOnTopic ==
    \A r \in Requests : req[r].pc = "streaming" => req[r].used = script[r].topic

\* A reply of a report or an analysis stands in the session in which its question
\* was asked, and after it, however the turns of a session overlap.
ReplyAfterQuestion ==
    \A s \in Known : \A i \in DOMAIN sess[s].msgs :
        LET m == sess[s].msgs[i]
        IN  m.role = "assistant" /\ script[m.by].kind # "advice" /\ script[m.by].asks =>
                \E j \in 1..(i - 1) : sess[s].msgs[j] = [role |-> "user", by |-> m.by]

\* A follow-up within 60 s reuses the snapshot of the session (the contract of the
\* endpoint).  It does not: what is kept is a coroutine that was awaited already.
SnapshotReusable ==
    [][\A r \in Requests : req[r].pc = "new" => req'[r].pc # "failed"]_chatVars
=============================================================================
