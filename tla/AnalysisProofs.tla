--------------------------- MODULE AnalysisProofs ---------------------------
(***************************************************************************)
(* What is proved about the chat sessions, the check of the strategy, the  *)
(* kept data of the market data hub and the holdings, for any requests,    *)
(* sessions, books, symbols, files and lengths of time.                    *)
(***************************************************************************)
EXTENDS ChatSessions, StrategyCheck, HubCaches, PortfolioBook, WellFoundedInduction, TLAPS

-----------------------------------------------------------------------------
(***************************************************************************)
(* The sessions: whose turns stand in them and in their rows.  A reply     *)
(* follows its question because the question is recorded before the        *)
(* request streams, in a session that nobody may create a second time; a   *)
(* row is never ahead because an upsert holds a copy of what the session   *)
(* held, and a session only grows.                                         *)
(***************************************************************************)
Message == [role: {"user", "assistant"}, by: Requests]
Turn(role, r) == [role |-> role, by |-> r]

\* A report or an analysis with a question of its own.
HasQuestion(sc, r) == sc[r].kind # "advice" /\ sc[r].asks
AskedIn(r, q, n) == \E j \in 1..n : q[j] = Turn("user", r)

\* Replies come after their questions.
Turned(sc, q) ==
    \A i \in DOMAIN q :
        q[i].role = "assistant" /\ HasQuestion(sc, q[i].by) => AskedIn(q[i].by, q, i - 1)

EntryFields == {"kind", "topic", "frozen", "msgs", "snapshot", "recent", "expired"}
ReqFields == {"pc", "sid", "used", "copy"}

\* What is frozen is of the topic of the session.
GoodEntry(sc, e) ==
    /\ DOMAIN e = EntryFields
    /\ e.msgs \in Seq(Message) /\ Turned(sc, e.msgs)
    /\ e.frozen # Nobody => e.frozen = e.topic

\* A request that streams answers from its own topic, and its question is recorded where
\* its session is known; one that persists holds messages the session begins with.
SoundRequest(r) ==
    /\ DOMAIN req[r] = ReqFields
    /\ req[r].pc # "new" => req[r].sid \in issued
    /\ req[r].pc = "streaming" =>
          /\ req[r].used = script[r].topic
          /\ HasQuestion(script, r) /\ req[r].sid \in Known =>
                AskedIn(r, sess[req[r].sid].msgs, Len(sess[req[r].sid].msgs))
    /\ req[r].pc = "persisting" =>
          /\ req[r].copy \in Seq(Message) /\ Turned(script, req[r].copy)
          /\ req[r].sid \in Known => IsPrefixOf(req[r].copy, sess[req[r].sid].msgs)

ChatInv ==
    /\ issued \subseteq Requests /\ \A r \in issued : req[r].pc # "new"
    /\ Known \subseteq issued /\ \A s \in Known : GoodEntry(script, sess[s])
    /\ DOMAIN stored \subseteq issued
    /\ \A s \in DOMAIN stored : stored[s] \in Seq(Message) /\ Turned(script, stored[s])
    /\ DOMAIN req = Requests /\ \A r \in Requests : SoundRequest(r)
    /\ RowsArePrefixes

-----------------------------------------------------------------------------
\* Sequences: beginning with another one, and one message more.
LEMMA PrefixMeans ==
    ASSUME NEW T, NEW p \in Seq(T), NEW q \in Seq(T)
    PROVE  IsPrefixOf(p, q) <=> Len(p) <= Len(q) /\ \A i \in 1..Len(p) : p[i] = q[i]
<1>1. CASE Len(p) <= Len(q)
  <2>1. Len(p) \in Nat /\ Len(q) \in Nat
    OBVIOUS
  <2>2. /\ SubSeq(q, 1, Len(p)) \in Seq(T) /\ Len(SubSeq(q, 1, Len(p))) = Len(p)
        /\ \A i \in 1..Len(p) : SubSeq(q, 1, Len(p))[i] = q[i]
    BY <1>1, <2>1
  <2> DEFINE r == SubSeq(q, 1, Len(p))
  <2>3. r = p <=> \A i \in 1..Len(p) : p[i] = r[i]
    <3> HIDE DEF r
    <3>1. r \in Seq(T) /\ Len(r) = Len(p)
      BY <2>2 DEF r
    <3> QED BY <3>1
  <2> QED BY <1>1, <2>2, <2>3 DEF IsPrefixOf
<1> QED BY <1>1 DEF IsPrefixOf

LEMMA PrefixItself == ASSUME NEW T, NEW q \in Seq(T) PROVE IsPrefixOf(q, q)
BY PrefixMeans

LEMMA PrefixOfLonger ==
    ASSUME NEW T, NEW p \in Seq(T), NEW q \in Seq(T), NEW r \in Seq(T),
           IsPrefixOf(p, q), IsPrefixOf(q, r)
    PROVE  IsPrefixOf(p, r)
<1>1. Len(p) <= Len(q) /\ \A i \in 1..Len(p) : p[i] = q[i]
  BY PrefixMeans
<1>2. Len(q) <= Len(r) /\ \A i \in 1..Len(q) : q[i] = r[i]
  BY PrefixMeans
<1>3. Len(p) \in Nat /\ Len(q) \in Nat /\ Len(r) \in Nat
  OBVIOUS
<1>4. Len(p) <= Len(r) /\ \A i \in 1..Len(p) : p[i] = r[i]
  BY <1>1, <1>2, <1>3
<1> QED BY <1>4, PrefixMeans

LEMMA PrefixAppended ==
    ASSUME NEW T, NEW q \in Seq(T), NEW m \in T
    PROVE  Append(q, m) \in Seq(T) /\ IsPrefixOf(q, Append(q, m))
<1>1. Append(q, m) \in Seq(T) /\ Len(Append(q, m)) = Len(q) + 1 /\ Len(q) \in Nat
      /\ \A i \in 1..Len(q) : Append(q, m)[i] = q[i]
  OBVIOUS
<1> DEFINE a == Append(q, m)
<1>2. a \in Seq(T) /\ Len(q) <= Len(a) /\ \A i \in 1..Len(q) : q[i] = a[i]
  BY <1>1
<1> HIDE DEF a
<1>3. IsPrefixOf(q, a)
  BY <1>2, PrefixMeans
<1> QED BY <1>2, <1>3 DEF a

LEMMA StillAsked ==
    ASSUME NEW p \in Seq(Message), NEW q \in Seq(Message), IsPrefixOf(p, q), NEW r,
           AskedIn(r, p, Len(p))
    PROVE  AskedIn(r, q, Len(q))
<1>1. Len(p) <= Len(q) /\ (\A i \in 1..Len(p) : p[i] = q[i]) /\ Len(p) \in Nat /\ Len(q) \in Nat
  BY PrefixMeans
<1>2. PICK j \in 1..Len(p) : p[j] = Turn("user", r)
  BY DEF AskedIn
<1>3. j \in 1..Len(q) /\ q[j] = Turn("user", r)
  BY <1>1, <1>2
<1> QED BY <1>3 DEF AskedIn

\* A question may always be recorded, a reply when its question is there.
LEMMA OneMore ==
    ASSUME NEW q \in Seq(Message), Turned(script, q), NEW m \in Message,
           m.role = "assistant" /\ HasQuestion(script, m.by) => AskedIn(m.by, q, Len(q))
    PROVE  Turned(script, Append(q, m))
<1> DEFINE a == Append(q, m)
<1>1. /\ Len(q) \in Nat /\ a \in Seq(Message) /\ Len(a) = Len(q) + 1 /\ a[Len(q) + 1] = m
      /\ \A i \in 1..Len(q) : a[i] = q[i]
  OBVIOUS
<1> HIDE DEF a
<1>2. ASSUME NEW r, NEW n \in 0..Len(q), AskedIn(r, q, n) PROVE AskedIn(r, a, n)
  <2>1. PICK j \in 1..n : q[j] = Turn("user", r)
    BY <1>2 DEF AskedIn
  <2>2. a[j] = Turn("user", r)
    BY <1>1, <2>1
  <2> QED BY <2>2 DEF AskedIn
<1>3. ASSUME NEW i \in DOMAIN a, a[i].role = "assistant", HasQuestion(script, a[i].by)
      PROVE  AskedIn(a[i].by, a, i - 1)
  <2>1. CASE i = Len(q) + 1
    BY <1>1, <1>2, <1>3, <2>1
  <2>2. CASE i # Len(q) + 1
    <3>1. i \in 1..Len(q) /\ a[i] = q[i] /\ i - 1 \in 0..Len(q) /\ i \in DOMAIN q
      BY <1>1, <2>2
    <3>2. AskedIn(q[i].by, q, i - 1)
      BY <1>3, <3>1 DEF Turned
    <3> QED BY <1>2, <3>1, <3>2
  <2> QED BY <2>1, <2>2
<1> QED BY <1>3 DEF Turned, a

-----------------------------------------------------------------------------
\* What the operations on a store do to its entries.
IsStore(st) == DOMAIN st = {"sess", "order"}

LEMMA TouchedStore ==
    ASSUME NEW st, IsStore(st), NEW s
    PROVE  IsStore(Touched(st, s)) /\ Touched(st, s).sess = st.sess
BY DEF IsStore, Touched

LEMMA UpdatedStore ==
    ASSUME NEW st, IsStore(st), NEW s, NEW e
    PROVE  IsStore(Updated(st, s, e)) /\ Updated(st, s, e).sess = With(st.sess, s, e)
<1> DEFINE u == [st EXCEPT !.sess = With(@, s, e)]
<1>1. IsStore(u) /\ u.sess = With(st.sess, s, e)
  BY DEF IsStore
<1>2. Updated(st, s, e) = Touched(u, s)
  BY DEF Updated
<1> HIDE DEF u
<1> QED BY <1>1, <1>2, TouchedStore

LEMMA DroppedStore ==
    ASSUME NEW st, NEW S
    PROVE  /\ IsStore(Dropped(st, S))
           /\ DOMAIN Dropped(st, S).sess = DOMAIN st.sess \ S
           /\ \A x \in DOMAIN st.sess \ S : Dropped(st, S).sess[x] = st.sess[x]
BY DEF IsStore, Dropped, Keep

LEMMA HereIsStore == IsStore(Here) /\ Here.sess = sess
BY DEF IsStore, Here

LEMMA WithEntries ==
    ASSUME NEW f, NEW k, NEW v
    PROVE  /\ DOMAIN With(f, k, v) = DOMAIN f \cup {k} /\ With(f, k, v)[k] = v
           /\ \A x \in DOMAIN f \ {k} : With(f, k, v)[x] = f[x]
BY DEF With

\* The entry a session is made with.
LEMMA NewIsGood == ASSUME NEW kind PROVE GoodEntry(script, NewEntry(kind))
<1>1. <<>> \in Seq(Message) /\ DOMAIN <<>> = {}
  OBVIOUS
<1>2. Turned(script, <<>>)
  BY <1>1 DEF Turned
<1>3. /\ DOMAIN NewEntry(kind) = EntryFields /\ NewEntry(kind).msgs = <<>>
      /\ NewEntry(kind).frozen = Nobody
  BY DEF NewEntry, EntryFields
<1> QED BY <1>1, <1>2, <1>3 DEF GoodEntry

LEMMA GoodMessages ==
    \A e : GoodEntry(script, e) => e.msgs \in Seq(Message) /\ Turned(script, e.msgs)
BY Zenon DEF GoodEntry

\* A new session takes the place of the least recent one at most.
LEMMA Created ==
    ASSUME NEW st, IsStore(st), NEW s, NEW kind
    PROVE  LET f == _create(st, s, kind).sess
           IN  /\ IsStore(_create(st, s, kind)) /\ DOMAIN f \subseteq DOMAIN st.sess \cup {s}
               /\ \A x \in DOMAIN f : f[x] = IF x = s THEN NewEntry(kind) ELSE st.sess[x]
<1> DEFINE n == Updated(st, s, NewEntry(kind))
           new == NewEntry(kind)
<1>1. IsStore(n) /\ n.sess = With(st.sess, s, new)
  BY UpdatedStore
<1>2. /\ DOMAIN n.sess = DOMAIN st.sess \cup {s} /\ n.sess[s] = new
      /\ \A x \in DOMAIN st.sess \ {s} : n.sess[x] = st.sess[x]
  <2> HIDE DEF n, new
  <2>1. n.sess = [x \in DOMAIN st.sess \cup {s} |-> IF x = s THEN new ELSE st.sess[x]]
    BY <1>1 DEF With
  <2> QED BY <2>1
<1>4. _create(st, s, kind) = n \/ _create(st, s, kind) = Dropped(n, {Head(n.order)})
  BY Zenon DEF _create
<1> HIDE DEF n, new
<1>6. \A x \in DOMAIN n.sess : n.sess[x] = IF x = s THEN new ELSE st.sess[x]
  BY <1>2
<1>7. CASE _create(st, s, kind) = n
  BY <1>1, <1>2, <1>6, <1>7 DEF new
<1>8. CASE _create(st, s, kind) = Dropped(n, {Head(n.order)})
  <2> DEFINE d == Dropped(n, {Head(n.order)})
  <2>1. /\ IsStore(d) /\ DOMAIN d.sess \subseteq DOMAIN n.sess
        /\ \A x \in DOMAIN d.sess : d.sess[x] = n.sess[x]
    BY DroppedStore
  <2> HIDE DEF d
  <2>2. _create(st, s, kind) = d
    BY <1>8 DEF d
  <2> QED BY <1>2, <1>6, <2>1, <2>2 DEF new
<1> QED BY <1>4, <1>7, <1>8

-----------------------------------------------------------------------------
\* What a step leaves of the sessions: none is new but those of ids that were not given
\* out, and the others begin with what they held.
SessionsGrow ==
    /\ Known' \subseteq issued'
    /\ \A s \in Known' : /\ GoodEntry(script, sess'[s])
                         /\ s \in issued =>
                               s \in Known /\ IsPrefixOf(sess[s].msgs, sess'[s].msgs)

RequestsGo ==
    /\ issued \subseteq issued' /\ issued' \subseteq Requests
    /\ \A r \in issued' : req'[r].pc # "new"
    /\ DOMAIN req' = Requests
    /\ \A r \in Requests : req'[r] = req[r] \/ SoundRequest(r)'

LEMMA SteadyRequest ==
    ASSUME ChatInv, SessionsGrow, script' = script, issued \subseteq issued',
           NEW r \in Requests, req'[r] = req[r]
    PROVE  SoundRequest(r)'
<1> DEFINE s == req[r].sid
<1>1. SoundRequest(r) /\ (req[r].pc # "new" => s \in issued)
  BY DEF ChatInv, SoundRequest
<1>2. ASSUME s \in Known', s \in issued
      PROVE  /\ s \in Known /\ sess[s].msgs \in Seq(Message) /\ sess'[s].msgs \in Seq(Message)
             /\ IsPrefixOf(sess[s].msgs, sess'[s].msgs)
  <2>1. s \in Known /\ GoodEntry(script, sess'[s]) /\ IsPrefixOf(sess[s].msgs, sess'[s].msgs)
    BY <1>2 DEF SessionsGrow
  <2>2. GoodEntry(script, sess[s])
    BY <2>1 DEF ChatInv
  <2> QED BY <2>1, <2>2, GoodMessages
<1>3. ASSUME req[r].pc = "streaming", HasQuestion(script, r), s \in Known'
      PROVE  AskedIn(r, sess'[s].msgs, Len(sess'[s].msgs))
  <2>1. s \in Known /\ AskedIn(r, sess[s].msgs, Len(sess[s].msgs))
    BY <1>1, <1>2, <1>3 DEF SoundRequest
  <2> QED BY <1>1, <1>2, <1>3, <2>1, StillAsked
<1>4. ASSUME req[r].pc = "persisting", s \in Known'
      PROVE  IsPrefixOf(req[r].copy, sess'[s].msgs)
  <2>1. IsPrefixOf(req[r].copy, sess[s].msgs) /\ req[r].copy \in Seq(Message)
    BY <1>1, <1>2, <1>4 DEF SoundRequest
  <2> QED BY <1>1, <1>2, <1>4, <2>1, PrefixOfLonger
<1> QED BY <1>1, <1>3, <1>4 DEF SoundRequest, HasQuestion, Turned

LEMMA StepKeepsChat ==
    ASSUME ChatInv, SessionsGrow, RequestsGo, UNCHANGED <<script, stored>>
    PROVE  ChatInv'
<1>1. \A r \in Requests : SoundRequest(r)'
  BY SteadyRequest DEF RequestsGo
<1>2. RowsArePrefixes'
  <2> SUFFICES ASSUME NEW s \in DOMAIN stored, s \in Known'
               PROVE  IsPrefixOf(stored[s], sess'[s].msgs)
    BY DEF RowsArePrefixes
  <2>1. /\ s \in Known /\ sess[s].msgs \in Seq(Message) /\ sess'[s].msgs \in Seq(Message)
        /\ IsPrefixOf(sess[s].msgs, sess'[s].msgs) /\ stored[s] \in Seq(Message)
    <3>1. s \in issued /\ stored[s] \in Seq(Message)
      BY DEF ChatInv
    <3>2. s \in Known /\ GoodEntry(script, sess'[s]) /\ IsPrefixOf(sess[s].msgs, sess'[s].msgs)
      BY <3>1 DEF SessionsGrow
    <3>3. GoodEntry(script, sess[s])
      BY <3>2 DEF ChatInv
    <3> QED BY <3>1, <3>2, <3>3, GoodMessages
  <2>2. IsPrefixOf(stored[s], sess[s].msgs)
    BY <2>1 DEF ChatInv, RowsArePrefixes
  <2> QED BY <2>1, <2>2, PrefixOfLonger
<1> QED BY <1>1, <1>2 DEF ChatInv, SessionsGrow, RequestsGo

\* One session changed and nothing else of them.
LEMMA OneGrows ==
    ASSUME ChatInv, NEW s \in Known, NEW e, sess' = With(sess, s, e), issued' = issued,
           script' = script, GoodEntry(script, e), IsPrefixOf(sess[s].msgs, e.msgs)
    PROVE  SessionsGrow /\ Known' = Known /\ sess'[s] = e
<1>1. sess' = [x \in Known |-> IF x = s THEN e ELSE sess[x]]
  BY DEF With, Known
<1>2. Known' = Known /\ sess'[s] = e /\ \A x \in Known \ {s} : sess'[x] = sess[x]
  BY <1>1 DEF Known
<1>3. \A x \in Known : GoodEntry(script, sess[x])
  BY DEF ChatInv
<1>4. ASSUME NEW x \in Known PROVE IsPrefixOf(sess[x].msgs, sess'[x].msgs)
  <2>1. sess[x].msgs \in Seq(Message)
    BY <1>3, GoodMessages
  <2>2. IsPrefixOf(sess[x].msgs, sess[x].msgs)
    BY <2>1, PrefixItself
  <2> QED BY <1>2, <2>2
<1>5. \A x \in Known : GoodEntry(script, sess'[x])
  BY <1>2, <1>3
<1> QED BY <1>2, <1>4, <1>5 DEF SessionsGrow, ChatInv

-----------------------------------------------------------------------------
\* What may be written in an entry without its messages.
LEMMA GoodWithout ==
    ASSUME NEW e, GoodEntry(script, e), NEW x, NEW y
    PROVE  /\ LET n == [e EXCEPT !.expired = x] IN
                 GoodEntry(script, n) /\ n.msgs = e.msgs /\ n.topic = e.topic /\ n.frozen = e.frozen
           /\ LET n == [e EXCEPT !.recent = x] IN GoodEntry(script, n) /\ n.msgs = e.msgs
           /\ LET n == [e EXCEPT !.expired = x, !.recent = y] IN
                 GoodEntry(script, n) /\ n.msgs = e.msgs
           /\ LET n == [e EXCEPT !.frozen = x, !.topic = x, !.expired = y] IN
                 GoodEntry(script, n) /\ n.msgs = e.msgs
BY DEF GoodEntry, EntryFields

LEMMA GoodAwaited ==
    \A e : GoodEntry(script, e) =>
        LET n == [e EXCEPT !.snapshot = "awaited", !.recent = TRUE]
        IN  GoodEntry(script, n) /\ n.msgs = e.msgs
BY DEF GoodEntry, EntryFields

\* A message more, and a question more.
LEMMA GoodWithMore ==
    ASSUME NEW e, GoodEntry(script, e), NEW m \in Message,
           m.role = "assistant" /\ HasQuestion(script, m.by) =>
               AskedIn(m.by, e.msgs, Len(e.msgs))
    PROVE  LET n == [e EXCEPT !.msgs = Append(@, m), !.expired = FALSE]
           IN  /\ GoodEntry(script, n) /\ n.msgs = Append(e.msgs, m)
               /\ IsPrefixOf(e.msgs, n.msgs)
<1> DEFINE q == Append(e.msgs, m)
           n == [e EXCEPT !.msgs = q, !.expired = FALSE]
<1>1. e.msgs \in Seq(Message) /\ Turned(script, e.msgs)
  BY GoodMessages
<1>2. q \in Seq(Message) /\ IsPrefixOf(e.msgs, q)
  BY <1>1, PrefixAppended
<1>3. Turned(script, q)
  BY <1>1, OneMore
<1> HIDE DEF q
<1>4. /\ DOMAIN n = EntryFields /\ n.msgs = q /\ n.frozen = e.frozen /\ n.topic = e.topic
      /\ e.frozen # Nobody => e.frozen = e.topic
  BY DEF GoodEntry, EntryFields
<1> HIDE DEF n
<1>5. GoodEntry(script, n) /\ n.msgs = q /\ IsPrefixOf(e.msgs, n.msgs)
  BY <1>2, <1>3, <1>4 DEF GoodEntry
<1> QED BY <1>5 DEF n, q

LEMMA JustAsked ==
    ASSUME NEW q \in Seq(Message), NEW r \in Requests
    PROVE  /\ Turn("user", r) \in Message
           /\ AskedIn(r, Append(q, Turn("user", r)), Len(Append(q, Turn("user", r))))
<1>1. Turn("user", r) \in Message
  BY DEF Turn, Message
<1> DEFINE a == Append(q, Turn("user", r))
<1>2. Len(a) = Len(q) + 1 /\ a[Len(q) + 1] = Turn("user", r) /\ Len(q) \in Nat
  BY <1>1
<1>3. Len(a) \in 1..Len(a) /\ a[Len(a)] = Turn("user", r)
  BY <1>2
<1> QED BY <1>1, <1>3 DEF AskedIn

\* The stores of append and of the two ways to resolve a session.
WithTurn(e, role, r) == [e EXCEPT !.msgs = Append(@, Turn(role, r)), !.expired = FALSE]
AppendedHere(st, s, role, r) ==
    /\ IsStore(Appended(st, s, role, r))
    /\ Appended(st, s, role, r).sess = With(st.sess, s, WithTurn(st.sess[s], role, r))

LEMMA AppendedStore ==
    \A st, s, role, r :
        IsStore(st) /\ s \in DOMAIN st.sess => AppendedHere(st, s, role, r)
<1> SUFFICES ASSUME NEW st, IsStore(st), NEW s \in DOMAIN st.sess, NEW role, NEW r
             PROVE  AppendedHere(st, s, role, r)
  OBVIOUS
<1> DEFINE n == [st.sess[s] EXCEPT !.msgs = Append(@, [role |-> role, by |-> r]),
                                   !.expired = FALSE]
<1>1. Appended(st, s, role, r) = Updated(st, s, n)
  BY Zenon DEF Appended
<1>2. n = WithTurn(st.sess[s], role, r)
  BY DEF Turn, WithTurn
<1> HIDE DEF n
<1>3. IsStore(Updated(st, s, n)) /\ Updated(st, s, n).sess = With(st.sess, s, n)
  BY UpdatedStore
<1> QED BY <1>1, <1>2, <1>3 DEF AppendedHere

Overwritten(f, k, v) ==
    /\ k \in DOMAIN With(f, k, v) /\ With(f, k, v)[k] = v
    /\ \A w : With(With(f, k, v), k, w) = With(f, k, w)
LEMMA WithTwice == \A f, k, v : Overwritten(f, k, v)
BY DEF With, Overwritten

LEMMA OpenedStore ==
    ASSUME NEW st, IsStore(st), NEW s \in DOMAIN st.sess
    PROVE  [st EXCEPT !.sess[s].snapshot = "awaited", !.sess[s].recent = TRUE].sess
               = With(st.sess, s, [st.sess[s] EXCEPT !.snapshot = "awaited", !.recent = TRUE])
<1> DEFINE f == st.sess
           n == [f[s] EXCEPT !.snapshot = "awaited", !.recent = TRUE]
<1>1. [st EXCEPT !.sess[s].snapshot = "awaited", !.sess[s].recent = TRUE].sess
          = [f EXCEPT ![s].snapshot = "awaited", ![s].recent = TRUE]
  BY DEF IsStore
<1>2. [f EXCEPT ![s].snapshot = "awaited", ![s].recent = TRUE] = [f EXCEPT ![s] = n]
  OBVIOUS
<1> HIDE DEF n
<1>3. s \in DOMAIN f
  OBVIOUS
<1>4. [f EXCEPT ![s] = n] = With(f, s, n)
  BY <1>3 DEF With
<1> QED BY <1>1, <1>2, <1>4 DEF n

LEMMA ResolvedCases ==
    ASSUME NEW r, NEW kind, NEW topic, NEW s
    PROVE  LET res == Resolved(r, kind, topic, s)
           IN  \/ /\ Serves(s, kind) /\ res.sid = s /\ IsStore(res.st)
                  /\ kind # "advice" /\ sess[s].msgs # <<>> => sess[s].topic \in {Nobody, topic}
                  /\ res.st.sess = With(sess, s, [sess[s] EXCEPT !.expired = FALSE])
               \/ /\ res.sid = r /\ IsStore(res.st) /\ DOMAIN res.st.sess \subseteq Known \cup {r}
                  /\ \A x \in DOMAIN res.st.sess :
                         res.st.sess[x] = IF x = r THEN NewEntry(kind) ELSE sess[x]
<1> DEFINE res == Resolved(r, kind, topic, s)
           gone == IF s \in Known /\ sess[s].expired THEN Dropped(Here, {s}) ELSE Here
           other == kind # "advice" /\ Serves(s, kind) /\ sess[s].msgs # <<>>
                    /\ sess[s].topic \notin {Nobody, topic}
           hit == Serves(s, kind) /\ ~other
           base == IF other THEN Touched(gone, s) ELSE gone
           e1 == [sess[s] EXCEPT !.expired = FALSE]
<1>1. res = [sid |-> IF hit THEN s ELSE r,
             st |-> IF hit THEN Updated(gone, s, e1) ELSE _create(base, r, kind)]
  BY Zenon DEF Resolved
<1>2. /\ IsStore(gone) /\ DOMAIN gone.sess \subseteq Known
      /\ \A x \in DOMAIN gone.sess : gone.sess[x] = sess[x]
  BY HereIsStore, DroppedStore DEF Known
<1>3. IsStore(base) /\ base.sess = gone.sess
  BY <1>2, TouchedStore
<1>4. CASE hit
  <2>1. gone = Here /\ res.sid = s /\ res.st = Updated(gone, s, e1)
    BY <1>1, <1>4 DEF Serves
  <2> HIDE DEF e1
  <2>2. IsStore(res.st) /\ res.st.sess = With(sess, s, e1)
    BY <2>1, HereIsStore, UpdatedStore
  <2> QED BY <1>4, <2>1, <2>2 DEF e1
<1>5. CASE ~hit
  <2>1. res.sid = r /\ res.st = _create(base, r, kind)
    BY <1>1, <1>5
  <2> HIDE DEF base, gone, res, hit
  <2>2. /\ IsStore(res.st) /\ DOMAIN res.st.sess \subseteq DOMAIN base.sess \cup {r}
        /\ \A x \in DOMAIN res.st.sess :
               res.st.sess[x] = IF x = r THEN NewEntry(kind) ELSE base.sess[x]
    BY <1>3, <2>1, Created
  <2>3. /\ DOMAIN res.st.sess \subseteq Known \cup {r}
        /\ \A x \in DOMAIN res.st.sess :
               res.st.sess[x] = IF x = r THEN NewEntry(kind) ELSE sess[x]
    BY <1>2, <1>3, <2>2
  <2> QED BY <2>1, <2>2, <2>3 DEF res
<1> QED BY <1>4, <1>5

-----------------------------------------------------------------------------
\* A request that begins, with a session of its own or with one that is there.
NewStore(r, kind, f) ==
    /\ DOMAIN f \subseteq Known \cup {r}
    /\ \A x \in DOMAIN f : f[x] = IF x = r THEN NewEntry(kind) ELSE sess[x]

Collecting(s) == [pc |-> "collecting", sid |-> s, used |-> Nobody, copy |-> <<>>]

LEMMA AskNewKeeps ==
    ASSUME ChatInv, NEW r \in Requests, req[r].pc = "new", NEW kind, NewStore(r, kind, sess'),
           issued' = issued \cup {r}, UNCHANGED <<script, stored>>,
           req' = [req EXCEPT ![r] = Collecting(r)]
    PROVE  ChatInv'
<1> DEFINE f == sess'
<1>0. /\ DOMAIN f \subseteq Known \cup {r}
      /\ \A x \in DOMAIN f : f[x] = IF x = r THEN NewEntry(kind) ELSE sess[x]
  BY DEF NewStore
<1>1. Known' = DOMAIN f /\ r \notin issued /\ Known \subseteq issued
  BY DEF Known, ChatInv
<1>2. SessionsGrow
  <2>1. ASSUME NEW x \in Known' PROVE GoodEntry(script, sess'[x])
    BY <1>0, <1>1, NewIsGood DEF ChatInv
  <2>2. ASSUME NEW x \in Known', x \in issued
        PROVE  x \in Known /\ IsPrefixOf(sess[x].msgs, sess'[x].msgs)
    <3>1. x \in Known /\ sess'[x] = sess[x]
      BY <1>0, <1>1, <2>2
    <3>2. sess[x].msgs \in Seq(Message)
      BY <3>1, GoodMessages DEF ChatInv
    <3> QED BY <3>1, <3>2, PrefixItself
  <2> QED BY <1>0, <1>1, <2>1, <2>2 DEF SessionsGrow
<1>3. RequestsGo
  <2> DEFINE new == Collecting(r)
  <2>1. DOMAIN new = ReqFields /\ new.pc = "collecting" /\ new.sid = r
    BY DEF ReqFields, Collecting
  <2> HIDE DEF new
  <2>2. DOMAIN req' = Requests /\ req'[r] = new /\ \A d \in Requests \ {r} : req'[d] = req[d]
    BY DEF ChatInv, new
  <2>3. SoundRequest(r)'
    BY <2>1, <2>2 DEF SoundRequest
  <2> QED BY <2>1, <2>2, <2>3 DEF RequestsGo, ChatInv
<1> QED BY <1>2, <1>3, StepKeepsChat

\* A step of a request in its session, which holds the messages q then or is not there.
FitRequest(r, new, q) ==
    /\ DOMAIN new = ReqFields /\ new.pc # "new" /\ new.sid \in issued
    /\ new.pc = "streaming" =>
          /\ new.used = script[r].topic
          /\ HasQuestion(script, r) /\ new.sid \in Known => AskedIn(r, q, Len(q))
    /\ new.pc = "persisting" =>
          /\ new.copy \in Seq(Message) /\ Turned(script, new.copy)
          /\ new.sid \in Known => IsPrefixOf(new.copy, q)

LEMMA RequestKeeps ==
    ASSUME ChatInv, NEW r \in Requests, NEW new, req' = [req EXCEPT ![r] = new], NEW q,
           FitRequest(r, new, q), new.sid \in Known => q = sess'[new.sid].msgs,
           SessionsGrow, issued' = issued, UNCHANGED <<script, stored>>
    PROVE  ChatInv'
<1>1. DOMAIN req' = Requests /\ req'[r] = new /\ \A d \in Requests \ {r} : req'[d] = req[d]
  BY DEF ChatInv
<1>2. new.sid \in Known' => new.sid \in Known
  BY DEF SessionsGrow, FitRequest
<1>3. SoundRequest(r)'
  BY <1>1, <1>2 DEF SoundRequest, FitRequest
<1>4. RequestsGo
  BY <1>1, <1>3 DEF RequestsGo, ChatInv, FitRequest
<1> QED BY <1>4, StepKeepsChat

\* Nothing changes in the sessions.
LEMMA SameGrows ==
    ASSUME ChatInv, sess' = sess, issued' = issued PROVE SessionsGrow /\ Known' = Known
<1>1. Known' = Known
  BY DEF Known
<1>2. ASSUME NEW x \in Known
      PROVE  GoodEntry(script, sess[x]) /\ IsPrefixOf(sess[x].msgs, sess[x].msgs)
  <2>1. GoodEntry(script, sess[x])
    BY DEF ChatInv
  <2> QED BY <2>1, GoodMessages, PrefixItself
<1> QED BY <1>1, <1>2 DEF SessionsGrow, ChatInv

LEMMA AskKeeps ==
    ASSUME ChatInv, NEW r \in Requests, NEW s, Ask(r, s) PROVE ChatInv'
<1> DEFINE kind == script[r].kind
           res == Resolved(r, kind, script[r].topic, s)
           e == res.st.sess[res.sid]
           history == res.sid # r /\ e.msgs # <<>>
           follows == kind # "advice" /\ script[r].asks /\ history /\ e.frozen # Nobody
           asks == follows \/ (kind = "advice" /\ history)
           asked == IF asks THEN Appended(res.st, res.sid, "user", r) ELSE res.st
           reuse == kind = "advice" /\ history /\ e.snapshot # Nobody /\ e.recent
           opens == kind = "advice" /\ history
           opened == IF opens
                     THEN [asked EXCEPT !.sess[res.sid].snapshot = "awaited",
                                        !.sess[res.sid].recent = TRUE] ELSE asked
           pc == IF reuse THEN "failed" ELSE IF follows THEN "streaming" ELSE "collecting"
           new == [pc |-> pc, sid |-> res.sid, used |-> IF follows THEN e.frozen ELSE Nobody,
                   copy |-> <<>>]
<1>1. /\ req[r].pc = "new" /\ Store(opened)
      /\ issued' = IF res.sid = r THEN issued \cup {r} ELSE issued
      /\ req' = [req EXCEPT ![r] = new] /\ UNCHANGED <<script, stored>>
  BY Zenon DEF Ask
<1>2. \/ /\ Serves(s, kind) /\ res.sid = s /\ IsStore(res.st)
         /\ kind # "advice" /\ sess[s].msgs # <<>> => sess[s].topic \in {Nobody, script[r].topic}
         /\ res.st.sess = With(sess, s, [sess[s] EXCEPT !.expired = FALSE])
      \/ /\ res.sid = r /\ IsStore(res.st) /\ DOMAIN res.st.sess \subseteq Known \cup {r}
         /\ \A x \in DOMAIN res.st.sess :
                res.st.sess[x] = IF x = r THEN NewEntry(kind) ELSE sess[x]
  BY ResolvedCases
<1> HIDE DEF res
<1>3. r \notin issued /\ r \notin Known
  BY <1>1 DEF ChatInv
<1>4. CASE /\ res.sid = r /\ IsStore(res.st) /\ DOMAIN res.st.sess \subseteq Known \cup {r}
           /\ \A x \in DOMAIN res.st.sess :
                  res.st.sess[x] = IF x = r THEN NewEntry(kind) ELSE sess[x]
  <2>1. ~history /\ ~follows /\ ~reuse /\ ~opens /\ ~asks
    BY <1>4
  <2>2. opened = res.st /\ sess' = res.st.sess
    BY <1>1, <2>1 DEF Store
  <2>3. new = Collecting(r)
    BY <1>4, <2>1 DEF Collecting
  <2> HIDE DEF kind, new, opened
  <2>4. NewStore(r, kind, sess')
    BY <1>4, <2>2 DEF NewStore
  <2>5. issued' = issued \cup {r}
    BY <1>1, <1>4
  <2>6. req' = [req EXCEPT ![r] = Collecting(r)]
    BY <1>1, <2>3
  <2> QED BY <1>1, <2>4, <2>5, <2>6, AskNewKeeps
<1>5. CASE /\ Serves(s, kind) /\ res.sid = s /\ IsStore(res.st)
           /\ kind # "advice" /\ sess[s].msgs # <<>> => sess[s].topic \in {Nobody, script[r].topic}
           /\ res.st.sess = With(sess, s, [sess[s] EXCEPT !.expired = FALSE])
  <2> DEFINE e0 == [sess[s] EXCEPT !.expired = FALSE]
             m == Turn("user", r)
             e1 == [e0 EXCEPT !.msgs = Append(@, m), !.expired = FALSE]
             e2 == IF asks THEN e1 ELSE e0
             e3 == IF opens THEN [e2 EXCEPT !.snapshot = "awaited", !.recent = TRUE] ELSE e2
  <2>1. s \in Known /\ s \in issued /\ s # r /\ GoodEntry(script, sess[s])
    BY <1>3, <1>5 DEF Serves, ChatInv
  <2>2. /\ GoodEntry(script, e0) /\ e0.msgs = sess[s].msgs /\ e0.msgs \in Seq(Message)
        /\ e0.topic = sess[s].topic /\ e0.frozen = sess[s].frozen
    BY <2>1, GoodWithout, GoodMessages
  <2>3. res.st.sess = With(sess, s, e0) /\ res.sid = s
    BY <1>5
  <2>4. /\ m \in Message /\ m.role = "user"
        /\ AskedIn(r, Append(e0.msgs, m), Len(Append(e0.msgs, m)))
    BY <2>2, JustAsked DEF Turn
  <2> HIDE DEF e0, e1, e2, e3, m, asks, opens, opened, asked
  <2>5. /\ s \in DOMAIN With(sess, s, e0) /\ With(sess, s, e0)[s] = e0
        /\ \A w : With(With(sess, s, e0), s, w) = With(sess, s, w)
    <3>1. Overwritten(sess, s, e0)
      BY Zenon, WithTwice
    <3> QED BY Zenon, <3>1 DEF Overwritten
  <2>6. e = e0
    BY <2>3, <2>5
  <2>7. /\ GoodEntry(script, e1) /\ e1.msgs = Append(e0.msgs, m)
        /\ IsPrefixOf(e0.msgs, e1.msgs)
    BY <2>2, <2>4, GoodWithMore DEF e1
  <2>8. /\ GoodEntry(script, e2) /\ IsPrefixOf(sess[s].msgs, e2.msgs)
        /\ asks => AskedIn(r, e2.msgs, Len(e2.msgs))
    BY <2>2, <2>4, <2>7, PrefixItself DEF e2
  <2>9. IsStore(asked) /\ asked.sess = With(sess, s, e2)
    <3>1. CASE ~asks
      BY <1>5, <2>3, <3>1 DEF e2, asked
    <3>2. CASE asks
      <4>1. s \in DOMAIN res.st.sess /\ res.st.sess[s] = e0
        BY <2>3, <2>5
      <4>2. asked = Appended(res.st, s, "user", r)
        BY <2>3, <3>2 DEF asked
      <4>3. AppendedHere(res.st, s, "user", r)
        BY Zenon, <1>5, <4>1, AppendedStore
      <4>4. e1 = WithTurn(res.st.sess[s], "user", r)
        BY <4>1 DEF e1, m, WithTurn
      <4>5. asked.sess = With(res.st.sess, s, e1) /\ IsStore(asked)
        BY <4>2, <4>3, <4>4 DEF AppendedHere
      <4> QED BY <2>3, <2>5, <3>2, <4>5 DEF e2
    <3> QED BY <3>1, <3>2
  <2>10. opened.sess = With(sess, s, e3)
    <3>1. CASE ~opens
      BY <2>9, <3>1 DEF opened, e3
    <3>2. CASE opens
      <4>1. /\ s \in DOMAIN With(sess, s, e2) /\ With(sess, s, e2)[s] = e2
            /\ \A w : With(With(sess, s, e2), s, w) = With(sess, s, w)
        <5>1. Overwritten(sess, s, e2)
          BY Zenon, WithTwice
        <5> QED BY Zenon, <5>1 DEF Overwritten
      <4>2. opened = [asked EXCEPT !.sess[s].snapshot = "awaited", !.sess[s].recent = TRUE]
        BY <2>3, <3>2 DEF opened
      <4>3. opened.sess = With(asked.sess, s,
                               [asked.sess[s] EXCEPT !.snapshot = "awaited", !.recent = TRUE])
        <5>1. s \in DOMAIN asked.sess
          BY <2>9, <4>1
        <5> QED BY Zenon, <2>9, <4>2, <5>1, OpenedStore
      <4>4. e3 = [asked.sess[s] EXCEPT !.snapshot = "awaited", !.recent = TRUE]
        BY <2>9, <3>2, <4>1 DEF e3
      <4> QED BY <2>9, <4>1, <4>3, <4>4
    <3> QED BY <3>1, <3>2
  <2>11. GoodEntry(script, e3) /\ e3.msgs = e2.msgs
    <3>1. LET n == [e2 EXCEPT !.snapshot = "awaited", !.recent = TRUE]
          IN  GoodEntry(script, n) /\ n.msgs = e2.msgs
      BY Zenon, <2>8, GoodAwaited
    <3> QED BY <2>8, <3>1 DEF e3
  <2>12. sess' = With(sess, s, e3) /\ issued' = issued
    BY <1>1, <2>1, <2>3, <2>10 DEF Store
  <2>13. SessionsGrow /\ Known' = Known /\ sess'[s] = e3
    BY <1>1, <2>1, <2>8, <2>11, <2>12, OneGrows
  <2>14. follows => asks /\ e.frozen = script[r].topic
    BY <1>5, <2>2, <2>6 DEF GoodEntry, asks
  <2> HIDE DEF e
  <2>15. /\ DOMAIN new = ReqFields /\ new.pc = pc /\ new.sid = s
         /\ new.used = IF follows THEN e.frozen ELSE Nobody
    BY <2>3 DEF ReqFields
  <2>16. new.pc \in {"failed", "streaming", "collecting"} /\ (new.pc = "streaming" => follows)
    BY <2>15
  <2> HIDE DEF new, pc, follows
  <2>17. FitRequest(r, new, e3.msgs)
    BY <2>1, <2>8, <2>11, <2>14, <2>15, <2>16 DEF FitRequest
  <2>18. new.sid \in Known => e3.msgs = sess'[new.sid].msgs
    BY <2>13, <2>15
  <2> QED BY <1>1, <2>12, <2>13, <2>17, <2>18, RequestKeeps
<1> QED BY <1>2, <1>4, <1>5

-----------------------------------------------------------------------------
\* The other steps of a request.
HereUpdated(s, e) == IsStore(Updated(Here, s, e)) /\ Updated(Here, s, e).sess = With(sess, s, e)
LEMMA UpdatedHere == \A s, e : HereUpdated(s, e)
BY HereIsStore, UpdatedStore DEF HereUpdated

LEMMA GoodFrozen ==
    \A e, x : GoodEntry(script, e) =>
        LET n == [e EXCEPT !.frozen = x, !.topic = x, !.expired = FALSE]
        IN  GoodEntry(script, n) /\ n.msgs = e.msgs
BY DEF GoodEntry, EntryFields

LEMMA GoodWithTurn ==
    ASSUME NEW e, GoodEntry(script, e), NEW role \in {"user", "assistant"}, NEW r \in Requests,
           role = "assistant" /\ HasQuestion(script, r) => AskedIn(r, e.msgs, Len(e.msgs))
    PROVE  /\ GoodEntry(script, WithTurn(e, role, r))
           /\ WithTurn(e, role, r).msgs = Append(e.msgs, Turn(role, r))
           /\ IsPrefixOf(e.msgs, WithTurn(e, role, r).msgs)
<1> DEFINE m == Turn(role, r)
<1>1. m \in Message /\ m.role = role /\ m.by = r
  BY DEF Turn, Message
<1> HIDE DEF m
<1> DEFINE n == [e EXCEPT !.msgs = Append(@, m), !.expired = FALSE]
<1>2. GoodEntry(script, n) /\ n.msgs = Append(e.msgs, m) /\ IsPrefixOf(e.msgs, n.msgs)
  BY <1>1, GoodWithMore
<1>3. WithTurn(e, role, r) = n
  BY DEF WithTurn, m
<1> HIDE DEF n
<1> QED BY <1>2, <1>3 DEF m

\* The request r goes on, and its session with it when it is there.
LEMMA GoesOn ==
    ASSUME ChatInv, NEW r \in Requests, NEW new, req' = [req EXCEPT ![r] = new],
           NEW s \in Known, NEW e, GoodEntry(script, e), IsPrefixOf(sess[s].msgs, e.msgs),
           sess' = With(sess, s, e), issued' = issued, UNCHANGED <<script, stored>>,
           new.sid = s, FitRequest(r, new, e.msgs)
    PROVE  ChatInv'
<1>1. SessionsGrow /\ Known' = Known /\ sess'[s] = e
  BY OneGrows
<1> QED BY <1>1, RequestKeeps

LEMMA GoesOnAlone ==
    ASSUME ChatInv, NEW r \in Requests, NEW new, req' = [req EXCEPT ![r] = new], NEW q,
           FitRequest(r, new, q), new.sid \in Known => q = sess[new.sid].msgs,
           sess' = sess, issued' = issued, UNCHANGED <<script, stored>>
    PROVE  ChatInv'
<1>1. SessionsGrow
  BY SameGrows
<1>2. new.sid \in Known => q = sess'[new.sid].msgs
  OBVIOUS
<1> QED BY <1>1, <1>2, RequestKeeps

LEMMA CollectedKeeps == ASSUME ChatInv, NEW r \in Requests, Collected(r) PROVE ChatInv'
<1> DEFINE q == script[r]
           s == req[r].sid
           f == [sess[s] EXCEPT !.frozen = q.topic, !.topic = q.topic, !.expired = FALSE]
           frozen == IF s \notin Known THEN Here ELSE Updated(Here, s, f)
           new == [req[r] EXCEPT !.pc = "streaming", !.used = q.topic]
<1>1. /\ req[r].pc = "collecting"
      /\ req' = [req EXCEPT ![r].pc = "streaming", ![r].used = q.topic]
      /\ Store(CASE q.kind = "advice" -> Here
                 [] q.kind # "advice" /\ q.asks -> Appended(frozen, s, "user", r)
                 [] OTHER -> frozen)
      /\ UNCHANGED <<script, stored, issued>>
  BY Zenon DEF Collected
<1>2. /\ DOMAIN new = ReqFields /\ new.pc = "streaming" /\ new.used = q.topic /\ new.sid = s
      /\ s \in issued /\ req' = [req EXCEPT ![r] = new]
  <2>1. DOMAIN req[r] = ReqFields /\ (req[r].pc # "new" => s \in issued) /\ DOMAIN req = Requests
    BY DEF ChatInv, SoundRequest
  <2> QED BY <1>1, <2>1 DEF ReqFields
<1>3. IsStore(Here) /\ Here.sess = sess
  BY HereIsStore
<1> HIDE DEF new, f
<1>4. CASE s \notin Known
  <2>1. frozen = Here /\ Appended(frozen, s, "user", r) = Here
    BY <1>3, <1>4 DEF Appended, Known
  <2> HIDE DEF frozen
  <2>2. Store(Here)
    <3>1. CASE q.kind = "advice"
      BY <1>1, <3>1
    <3>2. CASE q.kind # "advice" /\ q.asks
      BY <1>1, <2>1, <3>2
    <3>3. CASE q.kind # "advice" /\ ~q.asks
      BY <1>1, <2>1, <3>3
    <3> QED BY <3>1, <3>2, <3>3
  <2>3. sess' = sess
    BY <1>3, <2>2 DEF Store
  <2>4. FitRequest(r, new, <<>>)
    BY <1>2, <1>4 DEF FitRequest
  <2> QED BY <1>1, <1>2, <1>4, <2>3, <2>4, GoesOnAlone
<1>5. CASE s \in Known /\ q.kind = "advice"
  <2>1. Store(Here)
    BY <1>1, <1>5
  <2>2. sess' = sess
    BY <1>3, <2>1 DEF Store
  <2>3. FitRequest(r, new, sess[s].msgs)
    BY <1>2, <1>5 DEF FitRequest, HasQuestion
  <2> QED BY <1>1, <1>2, <2>2, <2>3, GoesOnAlone
<1>6. CASE s \in Known /\ q.kind # "advice"
  <2>1. frozen = Updated(Here, s, f) /\ IsStore(frozen) /\ frozen.sess = With(sess, s, f)
    <3>1. HereUpdated(s, f)
      BY Zenon, UpdatedHere
    <3> QED BY <1>6, <3>1 DEF HereUpdated
  <2>2. GoodEntry(script, sess[s]) /\ sess[s].msgs \in Seq(Message)
    BY <1>6, GoodMessages DEF ChatInv
  <2>3. GoodEntry(script, f) /\ f.msgs = sess[s].msgs
    BY Zenon, <2>2, GoodFrozen DEF f
  <2>4. IsPrefixOf(sess[s].msgs, f.msgs)
    BY <2>2, <2>3, PrefixItself
  <2> HIDE DEF frozen
  <2>5. CASE ~q.asks
    <3>1. Store(frozen)
      BY <1>1, <1>6, <2>5
    <3>2. sess' = With(sess, s, f)
      BY <2>1, <3>1 DEF Store
    <3>3. FitRequest(r, new, f.msgs)
      BY <1>2, <2>5 DEF FitRequest, HasQuestion
    <3> QED BY <1>1, <1>2, <1>6, <2>3, <2>4, <3>2, <3>3, GoesOn
  <2>6. CASE q.asks
    <3> DEFINE e == WithTurn(f, "user", r)
    <3>1. Store(Appended(frozen, s, "user", r))
      BY <1>1, <1>6, <2>6
    <3>2. Overwritten(sess, s, f)
      BY Zenon, WithTwice
    <3>3. s \in DOMAIN frozen.sess /\ frozen.sess[s] = f
      BY <2>1, <3>2 DEF Overwritten
    <3>4. AppendedHere(frozen, s, "user", r)
      BY Zenon, <2>1, <3>3, AppendedStore
    <3>5. sess' = With(frozen.sess, s, WithTurn(frozen.sess[s], "user", r))
      BY <3>1, <3>4 DEF Store, AppendedHere
    <3>6. /\ GoodEntry(script, e) /\ e.msgs = Append(f.msgs, Turn("user", r))
          /\ IsPrefixOf(f.msgs, e.msgs)
      BY <2>3, GoodWithTurn
    <3> HIDE DEF e
    <3>7. sess' = With(sess, s, e)
      BY <2>1, <3>2, <3>3, <3>5 DEF Overwritten, e
    <3>8. AskedIn(r, e.msgs, Len(e.msgs)) /\ IsPrefixOf(sess[s].msgs, e.msgs)
      BY <2>2, <2>3, <3>6, JustAsked
    <3>9. FitRequest(r, new, e.msgs)
      BY <1>2, <3>8 DEF FitRequest
    <3> QED BY <1>1, <1>2, <1>6, <3>6, <3>7, <3>8, <3>9, GoesOn
  <2> QED BY <2>5, <2>6
<1> QED BY <1>4, <1>5, <1>6

LEMMA FailsKeeps == ASSUME ChatInv, NEW r \in Requests, CollectingFails(r) PROVE ChatInv'
<1> DEFINE new == [req[r] EXCEPT !.pc = "failed"]
<1>1. /\ DOMAIN req[r] = ReqFields /\ DOMAIN req = Requests
      /\ req[r].pc # "new" => req[r].sid \in issued
  BY DEF ChatInv, SoundRequest
<1>2. /\ DOMAIN new = ReqFields /\ new.pc = "failed" /\ new.sid = req[r].sid
      /\ new.sid \in issued /\ req' = [req EXCEPT ![r] = new]
  BY <1>1 DEF CollectingFails, ReqFields
<1> HIDE DEF new
<1>3. FitRequest(r, new, sess[new.sid].msgs)
  BY <1>2 DEF FitRequest
<1> QED BY <1>2, <1>3, GoesOnAlone DEF CollectingFails

LEMMA StreamDoneKeeps ==
    ASSUME ChatInv, NEW r \in Requests, NEW tokens \in BOOLEAN, StreamDone(r, tokens)
    PROVE  ChatInv'
<1> DEFINE s == req[r].sid
           st == IF tokens THEN Appended(Here, s, "assistant", r) ELSE Here
           writes == tokens /\ s \in Known
           new == [req[r] EXCEPT !.pc = IF writes THEN "persisting" ELSE "done",
                                 !.copy = IF writes THEN st.sess[s].msgs ELSE <<>>]
<1>1. /\ req[r].pc = "streaming" /\ Store(st) /\ UNCHANGED <<script, stored, issued>>
      /\ req' = [req EXCEPT ![r].pc = IF writes THEN "persisting" ELSE "done",
                            ![r].copy = IF writes THEN st.sess[s].msgs ELSE <<>>]
  BY Zenon DEF StreamDone
<1>2. SoundRequest(r) /\ DOMAIN req = Requests
  BY DEF ChatInv
<1>3. /\ DOMAIN new = ReqFields /\ new.sid = s /\ s \in issued /\ req' = [req EXCEPT ![r] = new]
      /\ new.pc = IF writes THEN "persisting" ELSE "done"
      /\ writes => new.copy = st.sess[s].msgs
  <2> HIDE DEF writes, st
  <2> QED BY <1>1, <1>2 DEF ReqFields, SoundRequest
<1>4. IsStore(Here) /\ Here.sess = sess
  BY HereIsStore
<1> HIDE DEF new
<1>5. CASE ~writes
  <2>1. st = Here
    BY <1>4, <1>5 DEF Appended, Known
  <2>2. sess' = sess
    BY <1>1, <1>4, <2>1 DEF Store
  <2>3. FitRequest(r, new, sess[s].msgs)
    BY <1>3, <1>5 DEF FitRequest
  <2> QED BY <1>1, <1>3, <2>2, <2>3, GoesOnAlone
<1>6. CASE writes
  <2> DEFINE e == WithTurn(sess[s], "assistant", r)
  <2>1. GoodEntry(script, sess[s]) /\ sess[s].msgs \in Seq(Message)
    BY <1>6, GoodMessages DEF ChatInv
  <2>2. HasQuestion(script, r) => AskedIn(r, sess[s].msgs, Len(sess[s].msgs))
    BY <1>1, <1>2, <1>6 DEF SoundRequest
  <2>3. /\ GoodEntry(script, e) /\ e.msgs = Append(sess[s].msgs, Turn("assistant", r))
        /\ IsPrefixOf(sess[s].msgs, e.msgs)
    BY <2>1, <2>2, GoodWithTurn
  <2>4. AppendedHere(Here, s, "assistant", r)
    <3>1. s \in DOMAIN Here.sess
      BY <1>4, <1>6 DEF Known
    <3> QED BY Zenon, <1>4, <3>1, AppendedStore
  <2>5. st.sess = With(sess, s, e) /\ sess' = With(sess, s, e)
    BY <1>1, <1>4, <1>6, <2>4 DEF Store, AppendedHere
  <2> HIDE DEF e, st
  <2>6. Overwritten(sess, s, e)
    BY Zenon, WithTwice
  <2>7. new.pc = "persisting" /\ new.copy = e.msgs
    BY <1>3, <1>6, <2>5, <2>6 DEF Overwritten
  <2>8. e.msgs \in Seq(Message) /\ Turned(script, e.msgs) /\ IsPrefixOf(e.msgs, e.msgs)
    BY <2>3, GoodMessages, PrefixItself
  <2>9. FitRequest(r, new, e.msgs)
    BY <1>3, <2>7, <2>8 DEF FitRequest
  <2> QED BY <1>1, <1>3, <1>6, <2>3, <2>5, <2>9, GoesOn
<1> QED BY <1>5, <1>6

LEMMA PersistKeeps == ASSUME ChatInv, NEW r \in Requests, Persist(r) PROVE ChatInv'
<1> DEFINE s == req[r].sid
           new == [req[r] EXCEPT !.pc = "done"]
<1>1. /\ req[r].pc = "persisting" /\ req' = [req EXCEPT ![r].pc = "done"]
      /\ stored' = stored \/ stored' = With(stored, s, req[r].copy)
      /\ UNCHANGED <<script, sess, issued>>
  BY DEF Persist
<1>2. SoundRequest(r) /\ DOMAIN req = Requests
  BY DEF ChatInv
<1>3. /\ DOMAIN new = ReqFields /\ new.pc = "done" /\ new.sid = s /\ s \in issued
      /\ req' = [req EXCEPT ![r] = new]
  BY <1>1, <1>2 DEF SoundRequest, ReqFields
<1> HIDE DEF new
<1>4. DOMAIN req' = Requests /\ req'[r] = new /\ \A d \in Requests \ {r} : req'[d] = req[d]
  BY <1>2, <1>3
<1>5. Known' = Known
  BY <1>1 DEF Known
<1>6. \A d \in Requests : SoundRequest(d)'
  <2>1. SoundRequest(r)'
    BY <1>1, <1>3, <1>4 DEF SoundRequest, ReqFields
  <2>2. ASSUME NEW d \in Requests \ {r} PROVE SoundRequest(d)'
    <3>1. SoundRequest(d)
      BY DEF ChatInv
    <3> QED BY <1>1, <1>4, <1>5, <3>1 DEF SoundRequest, HasQuestion, Turned
  <2> QED BY <2>1, <2>2
<1>7. \A d \in issued' : req'[d].pc # "new"
  BY <1>1, <1>3, <1>4 DEF ChatInv
<1>8. /\ req[r].copy \in Seq(Message) /\ Turned(script, req[r].copy)
      /\ s \in Known => IsPrefixOf(req[r].copy, sess[s].msgs)
  BY <1>1, <1>2 DEF SoundRequest
<1>9. /\ DOMAIN stored' \subseteq issued
      /\ \A x \in DOMAIN stored' : stored'[x] \in Seq(Message) /\ Turned(script, stored'[x])
      /\ \A x \in DOMAIN stored' \cap Known : IsPrefixOf(stored'[x], sess[x].msgs)
  <2>1. CASE stored' = stored
    BY <2>1 DEF ChatInv, RowsArePrefixes
  <2>2. CASE stored' = With(stored, s, req[r].copy)
    <3>1. stored' = [x \in DOMAIN stored \cup {s} |-> IF x = s THEN req[r].copy ELSE stored[x]]
      BY <2>2 DEF With
    <3>2. /\ DOMAIN stored' = DOMAIN stored \cup {s} /\ stored'[s] = req[r].copy
          /\ \A x \in DOMAIN stored \ {s} : stored'[x] = stored[x]
      BY <3>1
    <3> QED BY <1>3, <1>8, <3>2 DEF ChatInv, RowsArePrefixes
  <2> QED BY <1>1, <2>1, <2>2
<1>10. RowsArePrefixes'
  BY <1>1, <1>5, <1>9 DEF RowsArePrefixes
<1>11. \A x \in Known' : GoodEntry(script, sess'[x])
  BY <1>1, <1>5 DEF ChatInv
<1> QED BY <1>1, <1>4, <1>5, <1>6, <1>7, <1>9, <1>10, <1>11 DEF ChatInv

-----------------------------------------------------------------------------
\* Time and restarts.
LEMMA TimeKeeps ==
    ASSUME ChatInv, NEW s, SnapshotAges(s) \/ Expires(s) PROVE ChatInv'
<1>1. /\ s \in Known /\ UNCHANGED <<script, stored, req, issued>>
      /\ \/ sess' = [sess EXCEPT ![s].recent = FALSE]
         \/ sess' = [sess EXCEPT ![s].expired = TRUE, ![s].recent = FALSE]
  BY DEF SnapshotAges, Expires
<1>2. GoodEntry(script, sess[s]) /\ sess[s].msgs \in Seq(Message)
  BY <1>1, GoodMessages DEF ChatInv
<1>3. PICK e : GoodEntry(script, e) /\ e.msgs = sess[s].msgs /\ sess' = With(sess, s, e)
  <2>1. CASE sess' = [sess EXCEPT ![s].recent = FALSE]
    <3> DEFINE e == [sess[s] EXCEPT !.recent = FALSE]
    <3>1. GoodEntry(script, e) /\ e.msgs = sess[s].msgs
      BY <1>2 DEF GoodEntry, EntryFields
    <3>2. sess' = [sess EXCEPT ![s] = e]
      BY <2>1
    <3> HIDE DEF e
    <3>3. sess' = With(sess, s, e)
      BY <1>1, <3>2 DEF With, Known
    <3> QED BY <3>1, <3>3
  <2>2. CASE sess' = [sess EXCEPT ![s].expired = TRUE, ![s].recent = FALSE]
    <3> DEFINE e == [sess[s] EXCEPT !.expired = TRUE, !.recent = FALSE]
    <3>1. GoodEntry(script, e) /\ e.msgs = sess[s].msgs
      BY <1>2 DEF GoodEntry, EntryFields
    <3>2. sess' = [sess EXCEPT ![s] = e]
      BY <2>2
    <3> HIDE DEF e
    <3>3. sess' = With(sess, s, e)
      BY <1>1, <3>2 DEF With, Known
    <3> QED BY <3>1, <3>3
  <2> QED BY <1>1, <2>1, <2>2
<1>4. IsPrefixOf(sess[s].msgs, e.msgs)
  BY <1>2, <1>3, PrefixItself
<1>5. SessionsGrow
  BY <1>1, <1>3, <1>4, OneGrows
<1>6. RequestsGo
  BY <1>1 DEF RequestsGo, ChatInv
<1> QED BY <1>1, <1>5, <1>6, StepKeepsChat

LEMMA LoadedKeeps == ASSUME ChatInv, load_persisted PROVE ChatInv'
<1>1. PICK old \in SUBSET DOMAIN stored :
        \E turns, S :
           LET kept == DOMAIN stored \ old
               back == [s \in kept |-> [NewEntry("advice") EXCEPT !.msgs = stored[s]]]
           IN  /\ Store(Dropped([sess |-> back, order |-> turns], S))
               /\ stored' = Keep(stored, kept)
  BY Zenon DEF load_persisted
<1> DEFINE kept == DOMAIN stored \ old
           back == [s \in kept |-> [NewEntry("advice") EXCEPT !.msgs = stored[s]]]
<1>2. PICK turns, S : /\ Store(Dropped([sess |-> back, order |-> turns], S))
                      /\ stored' = Keep(stored, kept)
  BY Zenon, <1>1
<1>3. /\ UNCHANGED <<script, issued>>
      /\ req' = [r \in Requests |-> IF req[r].pc \in {"new", "done", "failed"} THEN req[r]
                                    ELSE [req[r] EXCEPT !.pc = "failed", !.copy = <<>>]]
  BY DEF load_persisted
<1>4. DOMAIN sess' \subseteq kept /\ \A s \in DOMAIN sess' : sess'[s] = back[s]
  <2> DEFINE st == [sess |-> back, order |-> turns]
             d == Dropped(st, S)
  <2>1. st.sess = back /\ DOMAIN back = kept
    OBVIOUS
  <2> HIDE DEF st, back, kept
  <2>2. /\ DOMAIN d.sess = DOMAIN st.sess \ S
        /\ \A x \in DOMAIN st.sess \ S : d.sess[x] = st.sess[x]
    BY DroppedStore
  <2>3. sess' = d.sess
    BY <1>2 DEF Store, st
  <2> HIDE DEF d
  <2> QED BY <2>1, <2>2, <2>3
<1>5. \A s \in kept : stored[s] \in Seq(Message) /\ Turned(script, stored[s]) /\ s \in issued
  BY DEF ChatInv
<1>6. ASSUME NEW s \in kept PROVE GoodEntry(script, back[s]) /\ back[s].msgs = stored[s]
  <2> DEFINE e == [NewEntry("advice") EXCEPT !.msgs = stored[s]]
  <2>1. DOMAIN e = EntryFields /\ e.msgs = stored[s] /\ e.frozen = Nobody
    BY DEF NewEntry, EntryFields
  <2>2. back[s] = e
    OBVIOUS
  <2> HIDE DEF e, back
  <2> QED BY <1>5, <2>1, <2>2 DEF GoodEntry
<1> HIDE DEF back
<1>7. Known' = DOMAIN sess' /\ \A s \in Known' : s \in issued /\ GoodEntry(script, sess'[s])
  BY <1>4, <1>5, <1>6 DEF Known
<1>8. DOMAIN stored' = kept /\ \A s \in kept : stored'[s] = stored[s]
  BY <1>2 DEF Keep
<1>9. ASSUME NEW r \in Requests
      PROVE  /\ SoundRequest(r)' /\ (req'[r].pc = "new" <=> req[r].pc = "new")
  <2>1. DOMAIN req[r] = ReqFields /\ (req[r].pc # "new" => req[r].sid \in issued)
    BY DEF ChatInv, SoundRequest
  <2> DEFINE over == req[r].pc \in {"new", "done", "failed"}
  <2>2. CASE over
    BY <1>3, <2>1, <2>2 DEF SoundRequest
  <2>3. CASE ~over
    <3> DEFINE n == [req[r] EXCEPT !.pc = "failed", !.copy = <<>>]
    <3>1. DOMAIN n = ReqFields /\ n.pc = "failed" /\ n.sid = req[r].sid
      BY <2>1 DEF ReqFields
    <3>2. req'[r] = n
      BY <1>3, <2>3
    <3> HIDE DEF n
    <3>3. req[r].pc # "new" /\ req'[r].pc # "new"
      BY <2>3, <3>1, <3>2
    <3>4. req'[r].sid \in issued' /\ DOMAIN req'[r] = ReqFields
      <4>1. issued' = issued
        BY <1>3
      <4> QED BY <2>1, <3>1, <3>2, <3>3, <4>1
    <3>5. req'[r].pc = "failed"
      BY <3>1, <3>2
    <3>6. SoundRequest(r)'
      BY <3>4, <3>5 DEF SoundRequest
    <3> QED BY Zenon, <3>3, <3>6
  <2> HIDE DEF over
  <2> QED BY Zenon, <2>2, <2>3
<1>10. RowsArePrefixes'
  <2> SUFFICES ASSUME NEW s \in DOMAIN stored', s \in DOMAIN sess'
               PROVE  IsPrefixOf(stored'[s], sess'[s].msgs)
    BY DEF RowsArePrefixes, Known
  <2>1. stored'[s] = stored[s] /\ sess'[s].msgs = stored[s] /\ stored[s] \in Seq(Message)
    BY <1>4, <1>5, <1>6, <1>8
  <2> QED BY <2>1, PrefixItself
<1>11. DOMAIN req' = Requests /\ \A r \in issued' : req'[r].pc # "new"
  BY <1>3, <1>9 DEF ChatInv
<1>12. /\ DOMAIN stored' \subseteq issued'
       /\ \A s \in DOMAIN stored' : stored'[s] \in Seq(Message) /\ Turned(script', stored'[s])
  BY <1>3, <1>5, <1>8
<1> HIDE DEF kept
<1> QED BY <1>3, <1>7, <1>9, <1>10, <1>11, <1>12 DEF ChatInv

LEMMA ChatStart == ChatInit => ChatInv
<1> SUFFICES ASSUME ChatInit PROVE ChatInv
  OBVIOUS
<1>1. DOMAIN <<>> = {}
  OBVIOUS
<1>2. Known = {} /\ DOMAIN stored = {} /\ issued = {} /\ DOMAIN req = Requests
  BY <1>1 DEF ChatInit, Known
<1>3. ASSUME NEW r \in Requests PROVE SoundRequest(r)
  <2>1. req[r] = Idle
    BY DEF ChatInit
  <2>2. DOMAIN Idle = ReqFields /\ Idle.pc = "new"
    BY DEF Idle, ReqFields
  <2> QED BY <2>1, <2>2 DEF SoundRequest
<1> QED BY <1>2, <1>3 DEF ChatInv, RowsArePrefixes

LEMMA ChatKeeps == ChatInv /\ [ChatNext]_chatVars => ChatInv'
<1> SUFFICES ASSUME ChatInv, [ChatNext]_chatVars PROVE ChatInv'
  OBVIOUS
<1>1. CASE UNCHANGED chatVars
  BY <1>1 DEF chatVars, ChatInv, RowsArePrefixes, SoundRequest, Known, HasQuestion, Turned
<1>2. ASSUME NEW r \in Requests, NEW s, Ask(r, s) PROVE ChatInv'
  BY <1>2, AskKeeps
<1>3. ASSUME NEW r \in Requests, \/ Collected(r) \/ CollectingFails(r)
                                 \/ StreamDone(r, TRUE) \/ StreamDone(r, FALSE) \/ Persist(r)
      PROVE  ChatInv'
  BY <1>3, CollectedKeeps, FailsKeeps, StreamDoneKeeps, PersistKeeps
<1>4. ASSUME NEW s \in Requests, SnapshotAges(s) \/ Expires(s) PROVE ChatInv'
  BY <1>4, TimeKeeps
<1>5. CASE load_persisted
  BY <1>5, LoadedKeeps
<1> QED BY <1>1, <1>2, <1>3, <1>4, <1>5 DEF ChatNext

LEMMA ChatHolds == ChatSpec => []ChatInv
BY ChatStart, ChatKeeps, PTL DEF ChatSpec

\* The row of a session never has a turn that its session has not, nor turns in another
\* order, whatever upserts overtake each other.
THEOREM RowsPrefix == ChatSpec => []RowsArePrefixes
<1>1. ChatInv => RowsArePrefixes
  BY DEF ChatInv
<1> QED BY <1>1, ChatHolds, PTL

\* A report and an analysis are answered from the data of their own market or symbol.
THEOREM OnTopic == ChatSpec => []AnsweredOnTopic
<1>1. ChatInv => AnsweredOnTopic
  BY DEF ChatInv, SoundRequest, AnsweredOnTopic
<1> QED BY <1>1, ChatHolds, PTL

\* A reply of a report or an analysis stands after its question in the same session.
THEOREM ReplyFollows == ChatSpec => []ReplyAfterQuestion
<1>1. ChatInv => ReplyAfterQuestion
  BY DEF ChatInv, GoodEntry, Turned, HasQuestion, AskedIn, Turn, ReplyAfterQuestion
<1> QED BY <1>1, ChatHolds, PTL

-----------------------------------------------------------------------------
(***************************************************************************)
(* The check: a report found in the cache is shown only for what it was    *)
(* written for, since each report is kept under the key of its book.       *)
(***************************************************************************)
CheckSpec == CheckInit /\ [][CheckNext]_checkVars

ReportFields == {"says", "at", "held", "capital", "advises", "analysis"}

\* What is kept under a key was written for that key.
ReportsFit ==
    \A k \in DOMAIN reports : /\ DOMAIN reports[k] = ReportFields /\ reports[k].says = "report"
                              /\ Key(reports[k].held, reports[k].capital) = k

CheckInv == ReportsFit /\ ReportIsWhatItSays

\* A failed report is warned of.
LEMMA FailureIsWarned ==
    ASSUME NEW ws, NEW noData \in BOOLEAN
    PROVE  \E w \in _combine_risk_warnings(ws, TRUE, noData) : w.what \in {"rules only", "no data"}
<1> DEFINE none == Warning("no data", Portfolio)
           rules == Warning("rules only", Portfolio)
<1>1. none.what = "no data" /\ rules.what = "rules only"
  BY DEF Warning
<1>2. CASE ws = {} /\ noData
  <2>1. _combine_risk_warnings(ws, TRUE, noData) = {none}
    BY <1>2 DEF _combine_risk_warnings
  <2> HIDE DEF none
  <2> QED BY <1>1, <2>1
<1>3. CASE ws = {} /\ ~noData
  <2>1. _combine_risk_warnings(ws, TRUE, noData) = {rules}
    BY <1>3 DEF _combine_risk_warnings
  <2> HIDE DEF rules
  <2> QED BY <1>1, <2>1
<1>4. CASE ws # {}
  <2>1. _combine_risk_warnings(ws, TRUE, noData) = ws \cup {rules}
    BY <1>4 DEF _combine_risk_warnings
  <2> HIDE DEF rules
  <2> QED BY <1>1, <2>1
<1> QED BY <1>2, <1>3, <1>4

\* A completed report of the model, and one that the rules stand in for.
LEMMA CompletedFits ==
    ASSUME NEW report, NEW analysis, report.says = "report",
           DOMAIN report.held = DOMAIN chk.held, WholeYuan(report.capital) = WholeYuan(chk.capital),
           report.at = wall \/ wall - report.at < ReportTTL,
           shown' = Completed(report, FALSE, analysis)
    PROVE  ReportIsWhatItSays'
<1>1. /\ shown'.quality = "full" /\ shown'.source = report /\ shown'.at = wall
      /\ shown'.held = chk.held /\ shown'.capital = chk.capital
      /\ shown'.advice = {<<f, "llm">> : f \in report.advises}
                         \cup {<<f, "rule">> : f \in DOMAIN chk.held \ report.advises}
  BY DEF Completed
<1>2. ASSUME NEW f \in DOMAIN chk.held PROVE \E a \in shown'.advice : a[1] = f
  <2>1. CASE f \in report.advises
    <3>1. <<f, "llm">> \in shown'.advice /\ <<f, "llm">>[1] = f
      BY <1>1, <2>1
    <3> QED BY <3>1
  <2>2. CASE f \notin report.advises
    <3>1. <<f, "rule">> \in shown'.advice /\ <<f, "rule">>[1] = f
      BY <1>1, <2>2
    <3> QED BY <3>1
  <2> QED BY <2>1, <2>2
<1> QED BY <1>1, <1>2 DEF ReportIsWhatItSays

LEMMA FailedFits ==
    ASSUME NEW report, NEW analysis, report.says # "report",
           report.at = wall, report.held = chk.held,
           report.says = "nothing" => report.advises = {},
           shown' = Completed(report, TRUE, analysis)
    PROVE  ReportIsWhatItSays'
<1> DEFINE analysed == {[sym |-> f, sector |-> "", weight |-> chk.held[f] \div 10] :
                           f \in DOMAIN analysis}
           ws == _compute_risk_warnings(analysed)
           short == chk.budget = "short"
<1>1. /\ shown'.quality = "fallback" /\ shown'.held = chk.held
      /\ shown'.source = report /\ shown'.at = wall
      /\ shown'.advice = {<<f, "llm">> : f \in report.advises}
                         \cup {<<f, "rule">> : f \in DOMAIN chk.held \ report.advises}
  BY DEF Completed
<1>2. shown'.warnings = _combine_risk_warnings(ws, TRUE, short)
  BY DEF Completed
<1>3. short \in BOOLEAN
  OBVIOUS
<1> HIDE DEF ws, short
<1>4. \E w \in shown'.warnings : w.what \in {"rules only", "no data"}
  BY <1>2, <1>3, FailureIsWarned
<1>5. ASSUME report.says = "nothing", NEW a \in shown'.advice PROVE a[2] = "rule"
  <2>1. shown'.advice = {<<f, "rule">> : f \in DOMAIN chk.held}
    <3>1. {<<f, "llm">> : f \in report.advises} = {}
      BY <1>5
    <3>2. DOMAIN chk.held \ report.advises = DOMAIN chk.held
      BY <1>5
    <3> QED BY <1>1, <3>1, <3>2
  <2>2. PICK f \in DOMAIN chk.held : a = <<f, "rule">>
    BY <2>1, <1>5
  <2> QED BY <2>2
<1>6. ASSUME NEW f \in DOMAIN chk.held PROVE \E a \in shown'.advice : a[1] = f
  <2>1. CASE f \in report.advises
    <3>1. <<f, "llm">> \in shown'.advice /\ <<f, "llm">>[1] = f
      BY <1>1, <2>1
    <3> QED BY <3>1
  <2>2. CASE f \notin report.advises
    <3>1. <<f, "rule">> \in shown'.advice /\ <<f, "rule">>[1] = f
      BY <1>1, <2>2
    <3> QED BY <3>1
  <2> QED BY <2>1, <2>2
<1> QED BY <1>1, <1>4, <1>5, <1>6 DEF ReportIsWhatItSays

LEMMA StoredFits ==
    ASSUME ReportsFit, NEW k, NEW report, DOMAIN report = ReportFields, report.says = "report",
           Key(report.held, report.capital) = k, reports' = Stored(k, report)
    PROVE  ReportsFit'
BY DEF ReportsFit, Stored

\* What is filled in leaves the rest of the report.
LEMMA AnalysisOnly ==
    ASSUME NEW report, NEW analysis, DOMAIN report = ReportFields
    PROVE  LET r == [report EXCEPT !.analysis = analysis]
           IN  /\ DOMAIN r = ReportFields
               /\ r.says = report.says /\ r.held = report.held /\ r.capital = report.capital
BY DEF ReportFields

\* An answer of the model, or its failure.
LEMMA AnsweredFits ==
    ASSUME CheckInv, NEW report \in Reports(chk.held) \cup Failures, Answered(report)
    PROVE  CheckInv'
<1> DEFINE failed == report.says # "report"
           done == Analysed(report, failed)
           filled == [report EXCEPT !.analysis = done]
<1>1. /\ DOMAIN report = ReportFields /\ report.says \in {"report", "excuse", "nothing"}
      /\ report.held = chk.held /\ report.capital = chk.capital /\ report.at = wall
      /\ report.says = "nothing" => report.advises = {}
  BY DEF Reports, Failures, ReportFields
<1>2. /\ reports' = IF failed THEN reports ELSE Stored(Key(chk.held, chk.capital), filled)
      /\ shown' = Completed(report, failed, done)
  BY Zenon DEF Answered
<1> HIDE DEF done
<1>3. CASE ~failed
  <2>1. shown' = Completed(report, FALSE, done)
    BY <1>2, <1>3
  <2>2. ReportIsWhatItSays'
    BY <1>1, <1>3, <2>1, CompletedFits
  <2>3. /\ DOMAIN filled = ReportFields /\ filled.says = "report"
        /\ filled.held = chk.held /\ filled.capital = chk.capital
    BY <1>1, <1>3, AnalysisOnly
  <2> HIDE DEF filled
  <2>4. reports' = Stored(Key(chk.held, chk.capital), filled)
    BY <1>2, <1>3
  <2>5. ReportsFit'
    BY <2>3, <2>4, StoredFits DEF CheckInv
  <2> QED BY <2>2, <2>5 DEF CheckInv
<1>4. CASE failed
  <2>1. shown' = Completed(report, TRUE, done)
    BY <1>2, <1>4
  <2>2. ReportIsWhatItSays'
    BY <1>1, <1>4, <2>1, FailedFits
  <2>3. reports' = reports
    BY <1>2, <1>4
  <2> QED BY <2>2, <2>3 DEF CheckInv, ReportsFit
<1> QED BY <1>3, <1>4

\* A report from the cache, with its gaps filled in where it lies.
LEMMA CacheFits == ASSUME CheckInv, FromCache PROVE CheckInv'
<1> DEFINE key == Key(chk.held, chk.capital)
           report == reports[key]
           done == FilledIn(report.analysis)
           filled == [report EXCEPT !.analysis = done]
<1>1. /\ key \in DOMAIN reports /\ wall - report.at < ReportTTL
      /\ shown' = Completed(report, FALSE, done)
      /\ reports' = [reports EXCEPT ![key].analysis = done]
  BY Zenon DEF FromCache, Fresh
<1> HIDE DEF done
<1>2. /\ DOMAIN report = ReportFields /\ report.says = "report"
      /\ Key(report.held, report.capital) = key
  BY <1>1 DEF CheckInv, ReportsFit
<1>3. DOMAIN report.held = DOMAIN chk.held /\ WholeYuan(report.capital) = WholeYuan(chk.capital)
  BY <1>2 DEF Key
<1>4. ReportIsWhatItSays'
  <2> HIDE DEF report
  <2> QED BY <1>1, <1>2, <1>3, CompletedFits
<1>5. /\ DOMAIN filled = ReportFields /\ filled.says = report.says
      /\ filled.held = report.held /\ filled.capital = report.capital
  <2> HIDE DEF report
  <2> QED BY <1>2, AnalysisOnly
<1>6. reports' = [k \in DOMAIN reports |-> IF k = key THEN filled ELSE reports[k]]
  <2> HIDE DEF key
  <2> QED BY <1>1
<1>7. ReportsFit'
  <2> HIDE DEF key, filled
  <2> QED BY <1>2, <1>5, <1>6 DEF ReportsFit, CheckInv
<1> QED BY <1>4, <1>7 DEF CheckInv

LEMMA CheckKeeps == CheckInv /\ [CheckNext]_checkVars => CheckInv'
<1> SUFFICES ASSUME CheckInv, [CheckNext]_checkVars PROVE CheckInv'
  OBVIOUS
<1>1. ASSUME NEW capital \in Capitals, Begins(capital) PROVE CheckInv'
  <2>1. reports' = reports /\ (shown' = shown \/ shown'.quality = "empty")
    BY <1>1 DEF Begins
  <2> QED BY <2>1 DEF CheckInv, ReportsFit, ReportIsWhatItSays
<1>2. CASE FromModel
  BY <1>2, AnsweredFits DEF FromModel
<1>3. CASE FromCache
  BY <1>3, CacheFits
<1>4. CASE UNCHANGED <<reports, shown>>
  BY <1>4 DEF CheckInv, ReportsFit, ReportIsWhatItSays
<1> QED BY <1>1, <1>2, <1>3, <1>4 DEF CheckNext, Gathered, BookChanges, WallTicks, checkVars

\* Whatever reports the model writes, fails to write or leaves in the cache: a full report
\* is of the funds and the capital it is shown for and advises on every holding, and one
\* the rules stand in for says so.
THEOREM ReportsHonest == CheckSpec => []ReportIsWhatItSays
<1>1. CheckInit => CheckInv
  BY DEF CheckInit, CheckInv, ReportsFit, ReportIsWhatItSays, NoReport
<1>2. CheckInv => ReportIsWhatItSays
  BY DEF CheckInv
<1> QED BY <1>1, <1>2, CheckKeeps, PTL DEF CheckSpec

-----------------------------------------------------------------------------
(***************************************************************************)
(* The caches of the hub: bars, news and the mood survive a source that    *)
(* fails and, while the file is young, a restart.                          *)
(***************************************************************************)
CachesSpec == CachesInit /\ [][CachesNext]_cacheVars

RoundType == [pc: {"new", "fetched", "done"}, asked: SUBSET Syms, got: SUBSET Syms, at: Nat]
ReaderType == [pc: {"idle", "makes", "fetching"}, own: Readers \cup {"none"},
               prev: [Buckets -> Nat], doubled: BOOLEAN]

CachesTyped ==
    /\ fetches \in Nat \ {0}
    /\ bars \in [Syms -> Nat] /\ disk \in [rows: [Syms -> Nat], at: Int, mtime: Int]
    /\ barsAt \in Int /\ round \in [Rounds -> RoundType]
    /\ news \in [Buckets -> Nat] /\ newsLock \in Readers \cup {"none"}
    /\ reader \in [Readers -> ReaderType]
    /\ mood \in 0..fetches /\ moodFile \in 0..fetches

\* A refresh that stores was stamped by a fetch.
RoundsStamped == \A r \in Rounds : round[r].pc = "fetched" => round[r].at # 0

\* While the file is young the memory has what it has.
DiskCovered == TakenUp => \A s \in Syms : disk.rows[s] # 0 => bars[s] # 0

\* A reader that nobody doubled fetches alone, and the news are those it began with.
AloneWithNews ==
    \A n \in Readers : Fetching(n) /\ ~reader[n].doubled =>
        /\ reader[n].prev = news
        /\ \A m \in Readers \ {n} : ~Fetching(m)

CachesInv == CachesTyped /\ RoundsStamped /\ DiskCovered /\ AloneWithNews

LEMMA IdlesTyped == /\ IdleRound \in RoundType /\ [IdleRound EXCEPT !.pc = "done"] \in RoundType
                    /\ IdleReader \in ReaderType /\ IdleReader.pc = "idle"
                    /\ [IdleRound EXCEPT !.pc = "done"].pc = "done"
BY DEF IdleRound, RoundType, IdleReader, ReaderType, NoNews

LEMMA CachesStart == CachesInit => CachesInv
<1> SUFFICES ASSUME CachesInit PROVE CachesInv
  OBVIOUS
<1>1. CachesTyped
  BY IdlesTyped DEF CachesInit, CachesTyped, NoRows, NoDisk, NoNews
<1> QED BY <1>1, IdlesTyped
        DEF CachesInit, CachesInv, RoundsStamped, DiskCovered, NoDisk, NoRows, AloneWithNews,
            Fetching, IdleRound

\* What a step does with the bars that keeps those there are: nothing, or the restart.
BarsStep ==
    /\ \A s \in Syms : bars[s] # 0 /\ ~Restarted => bars'[s] # 0
    /\ Restarted /\ TakenUp => \A s \in Syms : disk.rows[s] # 0 => bars'[s] # 0

NewsStep == \A b \in Buckets : news[b] # 0 /\ ~Restarted =>
                news'[b] # 0 \/ \E n \in Readers : reader[n].doubled /\ ~Fetching(n)'

MoodStays == mood' < mood /\ ~Restarted => moodStep = "writing" \/ moodFile # mood

KlineTyped == /\ bars \in [Syms -> Nat] /\ disk \in [rows: [Syms -> Nat], at: Int, mtime: Int]
              /\ barsAt \in Int /\ round \in [Rounds -> RoundType]
NewsTyped == /\ news \in [Buckets -> Nat] /\ newsLock \in Readers \cup {"none"}
             /\ reader \in [Readers -> ReaderType]

\* The clock goes on or stands still.
ClockGoes == fetches' \in {fetches, fetches + 1}

LEMMA KlineStays ==
    ASSUME CachesInv, ClockGoes, UNCHANGED klineVars
    PROVE  KlineTyped' /\ RoundsStamped' /\ DiskCovered' /\ BarsStep
<1>1. disk' = disk /\ bars' = bars /\ round' = round /\ barsAt' = barsAt
  BY DEF klineVars
<1>2. TakenUp' => TakenUp
  BY <1>1, CachesAssumption DEF CachesInv, CachesTyped, ClockGoes, TakenUp
<1> QED BY <1>1, <1>2 DEF CachesInv, CachesTyped, KlineTyped, RoundsStamped, DiskCovered, BarsStep

LEMMA NewsStays ==
    ASSUME CachesInv, UNCHANGED newsVars
    PROVE  NewsTyped' /\ AloneWithNews' /\ NewsStep
<1>1. news' = news /\ newsLock' = newsLock /\ reader' = reader
  BY DEF newsVars
<1> QED BY <1>1 DEF CachesInv, CachesTyped, NewsTyped, AloneWithNews, NewsStep, Fetching

LEMMA MoodStaysPut ==
    ASSUME CachesInv, ClockGoes, UNCHANGED moodVars
    PROVE  mood' \in 0..fetches' /\ moodFile' \in 0..fetches' /\ MoodStays
BY DEF CachesInv, CachesTyped, ClockGoes, moodVars, MoodStays

\* All three together.
Kept == BarsStep /\ NewsStep /\ MoodStays

LEMMA Together ==
    ASSUME CachesInv, ClockGoes, KlineTyped', RoundsStamped', DiskCovered', BarsStep,
           NewsTyped', AloneWithNews', NewsStep,
           mood' \in 0..fetches', moodFile' \in 0..fetches', MoodStays
    PROVE  CachesInv' /\ Kept
BY DEF CachesInv, CachesTyped, ClockGoes, KlineTyped, NewsTyped, Kept

LEMMA KlineKeeps == ASSUME CachesInv, KlineNext PROVE CachesInv' /\ Kept
<1>1. ClockGoes /\ UNCHANGED newsVars /\ UNCHANGED moodVars
  BY DEF KlineNext, Fetches, Stores, Turns, ClockGoes
<1>2. ASSUME NEW r \in Rounds, NEW asked \in SUBSET Syms, NEW got \in SUBSET asked,
             Fetches(r, asked, got)
      PROVE  KlineTyped' /\ RoundsStamped' /\ DiskCovered' /\ BarsStep
  <2> DEFINE new == [pc |-> "fetched", asked |-> asked, got |-> got, at |-> fetches]
  <2>1. /\ bars' = bars /\ barsAt' = barsAt /\ disk' = disk /\ fetches' = fetches + 1
        /\ round' = [round EXCEPT ![r] = new]
    BY <1>2 DEF Fetches, Turns
  <2>2. new \in RoundType /\ new.at # 0
    BY DEF CachesInv, CachesTyped, RoundType
  <2>3. TakenUp' => TakenUp
    BY <2>1, CachesAssumption DEF CachesInv, CachesTyped, TakenUp
  <2> HIDE DEF new
  <2> QED BY <2>1, <2>2, <2>3 DEF CachesInv, CachesTyped, KlineTyped, RoundsStamped, DiskCovered,
                                  BarsStep
<1>3. ASSUME NEW r \in Rounds, NEW w \in BOOLEAN, Stores(r, w)
      PROVE  KlineTyped' /\ RoundsStamped' /\ DiskCovered' /\ BarsStep
  <2> DEFINE q == round[r]
  <2>1. /\ fetches' = fetches /\ q.pc = "fetched"
        /\ round' = [round EXCEPT ![r] = [IdleRound EXCEPT !.pc = "done"]]
        /\ bars' = [s \in Syms |-> IF s \in q.got THEN q.at ELSE bars[s]]
        /\ barsAt' = IF q.got = {} THEN barsAt ELSE fetches
        /\ \/ disk' = disk
           \/ disk' = [rows |-> bars', at |-> barsAt', mtime |-> fetches]
    BY <1>3 DEF Stores, Merged, KeepFailed
  <2>2. q \in RoundType /\ q.at \in Nat \ {0}
    BY <2>1 DEF CachesInv, CachesTyped, RoundsStamped, RoundType
  <2> HIDE DEF q
  <2>3. bars' \in [Syms -> Nat] /\ \A s \in Syms : bars[s] # 0 => bars'[s] # 0
    BY <2>1, <2>2 DEF CachesInv, CachesTyped
  <2>4. barsAt' \in Int /\ fetches \in Int
    BY <2>1 DEF CachesInv, CachesTyped
  <2>5. disk' \in [rows: [Syms -> Nat], at: Int, mtime: Int]
    BY <2>1, <2>3, <2>4 DEF CachesInv, CachesTyped
  <2>6. round' \in [Rounds -> RoundType] /\ RoundsStamped'
    BY <2>1, IdlesTyped DEF CachesInv, CachesTyped, RoundsStamped
  <2>7. DiskCovered'
    <3>1. CASE disk' = disk
      <4>1. TakenUp' => TakenUp
        BY <3>1, <2>1 DEF TakenUp
      <4> QED BY <3>1, <4>1, <2>3 DEF DiskCovered, CachesInv
    <3>2. CASE disk' = [rows |-> bars', at |-> barsAt', mtime |-> fetches]
      BY <3>2 DEF DiskCovered
    <3> QED BY <2>1, <3>1, <3>2
  <2>8. BarsStep
    BY <2>1, <2>3 DEF BarsStep, Restarted
  <2> QED BY <2>3, <2>4, <2>5, <2>6, <2>7, <2>8 DEF KlineTyped
<1>4. KlineTyped' /\ RoundsStamped' /\ DiskCovered' /\ BarsStep
  BY <1>2, <1>3 DEF KlineNext
<1> QED BY <1>1, <1>4, NewsStays, MoodStaysPut, Together

LEMMA HoldsAlone ==
    ASSUME CachesInv, NEW n \in Readers, ~Fetching(n), NEW own \in Readers \cup {"none"},
           HoldsLock(n, own), news' = news
    PROVE  reader' \in [Readers -> ReaderType] /\ AloneWithNews'
<1> DEFINE others == {m \in Readers \ {n} : Fetching(m)}
           new == [pc |-> "fetching", own |-> own, prev |-> news, doubled |-> others # {}]
<1>1. reader' = [m \in Readers |-> IF m = n THEN new
                     ELSE [reader[m] EXCEPT !.doubled = @ \/ m \in others]]
  BY DEF HoldsLock
<1>2. new \in ReaderType
  <2>1. (others # {}) \in BOOLEAN
    OBVIOUS
  <2> QED BY <2>1 DEF CachesInv, CachesTyped, ReaderType
<1>3. \A m \in Readers : [reader[m] EXCEPT !.doubled = @ \/ m \in others] \in ReaderType
  <2> SUFFICES ASSUME NEW m \in Readers
               PROVE  [reader[m] EXCEPT !.doubled = @ \/ m \in others] \in ReaderType
    OBVIOUS
  <2> DEFINE d == reader[m].doubled \/ m \in others
  <2>1. d \in BOOLEAN /\ reader[m] \in ReaderType
    BY DEF CachesInv, CachesTyped
  <2> HIDE DEF d
  <2>2. [reader[m] EXCEPT !.doubled = d] \in ReaderType
    BY <2>1 DEF ReaderType
  <2> QED BY <2>2 DEF d
<1>4. reader' \in [Readers -> ReaderType]
  <2> HIDE DEF new
  <2> QED BY <1>1, <1>2, <1>3
<1>5. AloneWithNews'
  <2> SUFFICES ASSUME NEW m \in Readers, Fetching(m)', ~reader'[m].doubled
               PROVE  /\ reader'[m].prev = news
                      /\ \A k \in Readers \ {m} : ~Fetching(k)'
    BY DEF AloneWithNews
  <2>1. CASE m = n
    <3>1. others = {} /\ reader'[m].prev = news
      BY <1>1, <2>1
    <3>2. ASSUME NEW k \in Readers \ {m} PROVE ~Fetching(k)'
      <4>1. ~Fetching(k)
        BY <3>1, <2>1
      <4>2. reader'[k].pc = reader[k].pc
        BY <1>1, <2>1 DEF CachesInv, CachesTyped, ReaderType
      <4> QED BY <4>1, <4>2 DEF Fetching
    <3> QED BY <3>1, <3>2
  <2>2. CASE m # n
    <3>1. reader'[m] = [reader[m] EXCEPT !.doubled = @ \/ m \in others]
      BY <1>1, <2>2
    <3>2. reader[m] \in ReaderType
      BY DEF CachesInv, CachesTyped
    <3> DEFINE d == reader[m].doubled \/ m \in others
    <3>3. d
      <4>1. reader'[m].pc = reader[m].pc
        BY <3>1, <3>2 DEF ReaderType
      <4> QED BY <4>1, <2>2 DEF Fetching
    <3>4. reader'[m].doubled = d
      <4> HIDE DEF d
      <4>1. reader'[m] = [reader[m] EXCEPT !.doubled = d]
        BY <3>1 DEF d
      <4> QED BY <4>1, <3>2 DEF ReaderType
    <3> QED BY <3>3, <3>4
  <2> QED BY <2>1, <2>2
<1> QED BY <1>4, <1>5

LEMMA NewsKeeps == ASSUME CachesInv, NewsNext PROVE CachesInv' /\ Kept
<1>1. ClockGoes /\ UNCHANGED klineVars /\ UNCHANGED moodVars
  BY DEF NewsNext, LooksForLock, MakesLock, TakesLock, NewsFails, NewsArrives, Turns, ClockGoes
<1>2. ASSUME NEW n \in Readers, LooksForLock(n) PROVE NewsTyped' /\ AloneWithNews' /\ NewsStep
  <2>1. /\ news' = news /\ newsLock' = newsLock /\ reader' = [reader EXCEPT ![n].pc = "makes"]
        /\ reader[n].pc = "idle"
    BY <1>2 DEF LooksForLock
  <2>2. reader' \in [Readers -> ReaderType]
    BY <2>1 DEF CachesInv, CachesTyped, ReaderType
  <2>3. \A m \in Readers : Fetching(m)' <=> Fetching(m)
    BY <2>1 DEF CachesInv, CachesTyped, ReaderType, Fetching
  <2>4. \A m \in Readers \ {n} : reader'[m] = reader[m]
    BY <2>1 DEF CachesInv, CachesTyped
  <2>5. AloneWithNews'
    BY <2>1, <2>3, <2>4 DEF CachesInv, AloneWithNews, Fetching
  <2> QED BY <2>1, <2>2, <2>5 DEF CachesInv, CachesTyped, NewsTyped, NewsStep
<1>3. ASSUME NEW n \in Readers, NEW own \in Readers \cup {"none"}, ~Fetching(n),
             HoldsLock(n, own), news' = news, newsLock' \in Readers \cup {"none"}
      PROVE  NewsTyped' /\ AloneWithNews' /\ NewsStep
  <2>1. news' = news
    BY <1>3
  <2> QED BY <1>3, <2>1, HoldsAlone DEF CachesInv, CachesTyped, NewsTyped, NewsStep
<1>4. ASSUME NEW n \in Readers, MakesLock(n) \/ TakesLock(n)
      PROVE  NewsTyped' /\ AloneWithNews' /\ NewsStep
  BY <1>4, <1>3 DEF MakesLock, TakesLock, Fetching, CachesInv, CachesTyped
<1>5. ASSUME NEW n \in Readers, Fetching(n), reader' = [reader EXCEPT ![n] = IdleReader],
             newsLock' = newsLock, news' \in [Buckets -> Nat],
             ~reader[n].doubled => \A b \in Buckets : news[b] # 0 => news'[b] # 0
      PROVE  NewsTyped' /\ AloneWithNews' /\ NewsStep
  <2>1. reader' \in [Readers -> ReaderType] /\ ~Fetching(n)'
        /\ \A m \in Readers \ {n} : reader'[m] = reader[m]
    BY <1>5, IdlesTyped DEF CachesInv, CachesTyped, Fetching
  <2>2. AloneWithNews'
    BY <1>5, <2>1 DEF CachesInv, AloneWithNews, Fetching
  <2>3. NewsStep
    BY <1>5, <2>1 DEF NewsStep
  <2> QED BY <1>5, <2>1, <2>2, <2>3 DEF CachesInv, CachesTyped, NewsTyped
<1>6. ASSUME NEW n \in Readers, NEW got \in SUBSET Buckets, NewsArrives(n, got)
      PROVE  NewsTyped' /\ AloneWithNews' /\ NewsStep
  <2>1. news' = [b \in Buckets |-> IF b \in got THEN fetches ELSE reader[n].prev[b]]
    BY <1>6 DEF NewsArrives, Bucket, FallsBack
  <2>2. fetches \in Nat \ {0} /\ reader[n].prev \in [Buckets -> Nat] /\ Fetching(n)
    BY <1>6 DEF CachesInv, CachesTyped, ReaderType, NewsArrives
  <2>3. ~reader[n].doubled => reader[n].prev = news
    BY <2>2 DEF CachesInv, AloneWithNews
  <2>4. news' \in [Buckets -> Nat]
        /\ (~reader[n].doubled => \A b \in Buckets : news[b] # 0 => news'[b] # 0)
    BY <2>1, <2>2, <2>3
  <2> QED BY <1>5, <1>6, <2>2, <2>4 DEF NewsArrives
<1>7. ASSUME NEW n \in Readers, NewsFails(n) PROVE NewsTyped' /\ AloneWithNews' /\ NewsStep
  <2>1. news' = IF news = NoNews THEN reader[n].prev ELSE news
    BY <1>7 DEF NewsFails
  <2>2. news \in [Buckets -> Nat] /\ reader[n].prev \in [Buckets -> Nat] /\ Fetching(n)
    BY <1>7 DEF CachesInv, CachesTyped, ReaderType, NewsFails
  <2>3. news' \in [Buckets -> Nat] /\ \A b \in Buckets : news[b] # 0 => news'[b] # 0
    BY <2>1, <2>2 DEF NoNews
  <2> QED BY <1>5, <1>7, <2>2, <2>3 DEF NewsFails
<1>8. NewsTyped' /\ AloneWithNews' /\ NewsStep
  BY <1>2, <1>4, <1>6, <1>7 DEF NewsNext
<1> QED BY <1>1, <1>8, KlineStays, MoodStaysPut, Together

LEMMA MoodKeeps == ASSUME CachesInv, MoodNext \/ MomentumNext PROVE CachesInv' /\ Kept
<1>1. ClockGoes /\ UNCHANGED klineVars /\ UNCHANGED newsVars
  BY DEF MoodNext, MomentumNext, MoodArrives, MoodWritten, MoodFails, WriteFails,
         MomentumUpdated, MomentumStored, Turns, ClockGoes
<1>2. mood' \in 0..fetches' /\ moodFile' \in 0..fetches' /\ MoodStays
  <2> USE DEF CachesInv, CachesTyped, MoodStays
  <2>1. CASE MoodArrives
    BY <2>1 DEF MoodArrives, Turns
  <2>2. CASE MoodWritten
    BY <2>2 DEF MoodWritten
  <2>3. CASE MoodFails
    BY <2>3 DEF MoodFails, Turns, FromFile
  <2>4. ASSUME NEW cut \in BOOLEAN, WriteFails(cut)
        PROVE  mood' \in 0..fetches' /\ moodFile' \in 0..fetches' /\ MoodStays
    BY <2>4 DEF WriteFails, FromFile
  <2>5. CASE MomentumNext
    BY <2>5 DEF MomentumNext, MomentumUpdated, MomentumStored, Turns, moodVars
  <2> QED BY <2>1, <2>2, <2>3, <2>4, <2>5 DEF MoodNext
<1> QED BY <1>1, <1>2, KlineStays, NewsStays, Together

LEMMA RestartKeeps == ASSUME CachesInv, CachesRestart PROVE CachesInv' /\ Kept
<1>1. ClockGoes /\ fetches' = fetches + 1 /\ disk' = disk /\ moodFile' = moodFile /\ mood' = 0
  BY DEF CachesRestart, Turns, ClockGoes
<1>2. Restarted
  BY DEF CachesRestart, Turns, Restarted, CachesInv, CachesTyped
<1>3. KlineTyped' /\ RoundsStamped'
  <2>1. \A r \in Rounds : round'[r] = IF round[r].pc = "new" THEN round[r]
                                     ELSE [IdleRound EXCEPT !.pc = "done"]
    BY DEF CachesRestart
  <2>2. round' \in [Rounds -> RoundType] /\ RoundsStamped'
    BY <2>1, IdlesTyped DEF CachesRestart, CachesInv, CachesTyped, RoundsStamped
  <2>3. bars' \in [Syms -> Nat] /\ barsAt' \in Int
    BY DEF CachesRestart, CachesInv, CachesTyped, NoRows
  <2> QED BY <1>1, <2>2, <2>3 DEF CachesInv, CachesTyped, KlineTyped
<1>4. DiskCovered'
  <2>1. TakenUp' => TakenUp
    BY <1>1, CachesAssumption DEF CachesInv, CachesTyped, TakenUp
  <2> QED BY <1>1, <2>1 DEF CachesRestart, DiskCovered
<1>5. NewsTyped' /\ AloneWithNews'
  BY IdlesTyped DEF CachesRestart, NewsTyped, NoNews, AloneWithNews, Fetching
<1>6. BarsStep /\ NewsStep /\ MoodStays
  BY <1>2 DEF BarsStep, NewsStep, MoodStays, CachesRestart
<1>7. mood' \in 0..fetches' /\ moodFile' \in 0..fetches'
  BY <1>1 DEF CachesInv, CachesTyped
<1> QED BY <1>1, <1>3, <1>4, <1>5, <1>6, <1>7, Together

LEMMA CachesKeep == CachesInv /\ [CachesNext]_cacheVars => CachesInv' /\ Kept
<1> SUFFICES ASSUME CachesInv, [CachesNext]_cacheVars PROVE CachesInv' /\ Kept
  OBVIOUS
<1>1. CASE UNCHANGED cacheVars
  <2>1. ClockGoes /\ UNCHANGED klineVars /\ UNCHANGED newsVars /\ UNCHANGED moodVars
    BY <1>1 DEF cacheVars, ClockGoes
  <2> QED BY <2>1, KlineStays, NewsStays, MoodStaysPut, Together
<1> QED BY <1>1, KlineKeeps, NewsKeeps, MoodKeeps, RestartKeeps DEF CachesNext

\* Bars, news and the mood are not lost to a source that fails, whatever refreshes and
\* readers overlap; a restart loses what its files do not hold or are too old for.
THEOREM LastGoodStays == CachesSpec => LastGoodKept
<1>1. CachesInv /\ [CachesNext]_cacheVars
      => [/\ \A s \in Syms : bars[s] # 0 /\ ~Restarted => bars'[s] # 0
          /\ Restarted /\ TakenUp => \A s \in Syms : disk.rows[s] # 0 => bars'[s] # 0
          /\ \A b \in Buckets : news[b] # 0 /\ ~Restarted =>
                news'[b] # 0 \/ \E n \in Readers : reader[n].doubled /\ ~Fetching(n)'
          /\ mood' < mood /\ ~Restarted => moodStep = "writing" \/ moodFile # mood]_cacheVars
  BY CachesKeep DEF Kept, BarsStep, NewsStep, MoodStays
<1> QED BY <1>1, CachesStart, CachesKeep, PTL DEF CachesSpec, LastGoodKept

-----------------------------------------------------------------------------
(***************************************************************************)
(* The holdings.  What is in a row is the cost it shows, times its shares: *)
(* each trade keeps that, by the arithmetic of the average, unless its row *)
(* changed after it was read.  An import is a function on the lines of its *)
(* file; what is true after each line is shown by an induction, from the   *)
(* fact that the numbers below a number are well founded.                  *)
(***************************************************************************)

\* An induction up to n, as a fact about sets: what is in P at 0 and stays in it from
\* each number to the next is in it up to n.
LEMMA UpTo ==
    ASSUME NEW n \in Nat, NEW P, 0 \in P, \A k \in 1 .. n : k - 1 \in P => k \in P
    PROVE  0 .. n \subseteq P
<1> DEFINE R == {ss \in Nat \X Nat : ss[1] < ss[2]}
           T == (0 .. n) \ P
<1>1. IsWellFoundedOn(R, Nat)
  BY NatLessThanWellFounded DEF OpToRel
<1>2. SUFFICES ASSUME T # {} PROVE FALSE
  OBVIOUS
<1>3. T \subseteq Nat
  OBVIOUS
<1>4. PICK m \in T : \A k \in T : ~ (<<k, m>> \in R)
  <2> HIDE DEF T, R
  <2> QED BY <1>1, <1>2, <1>3, WFMin
<1>5. m \in 1 .. n /\ m - 1 \in 0 .. n /\ m - 1 \in Nat /\ m \in Nat
  OBVIOUS
<1>6. m - 1 \notin T
  <2>1. <<m - 1, m>> \in Nat \X Nat /\ m - 1 < m
    BY <1>5
  <2>2. <<m - 1, m>> \in R
    BY <2>1
  <2> HIDE DEF T, R
  <2> QED BY <1>4, <2>2
<1> QED BY <1>5, <1>6

\* A run of n steps, each of which leads from R to R, exists and stays in R.
IsRun(f, n, b, G) == f[0] = b /\ \A k \in 1 .. n : f[k] = G[<<f[k - 1], k>>]
LEMMA RunExists ==
    ASSUME NEW n \in Nat, NEW R, NEW b \in R, NEW G \in [R \X (1 .. n) -> R]
    PROVE  \E f \in [0 .. n -> R] : IsRun(f, n, b, G)
<1> DEFINE Run(f, k) == f[0] = b /\ \A i \in 1 .. k : f[i] = G[<<f[i - 1], i>>]
           P == {k \in 0 .. n : \E f \in [0 .. n -> R] : Run(f, k)}
<1>1. 0 \in P
  <2> DEFINE f == [i \in 0 .. n |-> b]
  <2>1. f \in [0 .. n -> R] /\ Run(f, 0)
    OBVIOUS
  <2> HIDE DEF f, Run
  <2> QED BY <2>1
<1>2. ASSUME NEW k \in 1 .. n, k - 1 \in P PROVE k \in P
  <2>1. PICK f \in [0 .. n -> R] : Run(f, k - 1)
    <3> HIDE DEF Run
    <3> QED BY <1>2
  <2> DEFINE v == G[<<f[k - 1], k>>]
             g == [f EXCEPT ![k] = v]
  <2>2. k \in 0 .. n /\ k - 1 \in 0 .. n /\ v \in R
    OBVIOUS
  <2>3. g \in [0 .. n -> R] /\ g[k] = v /\ \A i \in 0 .. n : i # k => g[i] = f[i]
    <3> HIDE DEF v
    <3> QED BY <2>2
  <2>4. Run(g, k)
    <3>1. g[0] = b /\ g[k - 1] = f[k - 1]
      <4> HIDE DEF g
      <4> QED BY <2>1, <2>2, <2>3
    <3>2. ASSUME NEW i \in 1 .. k PROVE g[i] = G[<<g[i - 1], i>>]
      <4>1. CASE i = k
        <5> HIDE DEF g
        <5> QED BY <4>1, <3>1, <2>3
      <4>2. CASE i # k
        <5>1. i \in 1 .. k - 1 /\ i \in 0 .. n /\ i - 1 \in 0 .. n /\ i # k /\ i - 1 # k
          BY <4>2
        <5> HIDE DEF g
        <5> QED BY <5>1, <2>1, <2>3
      <4> QED BY <4>1, <4>2
    <3> HIDE DEF g
    <3> QED BY <3>1, <3>2
  <2> HIDE DEF g, Run
  <2> QED BY <2>2, <2>3, <2>4
<1>3. n \in P
  <2> HIDE DEF P
  <2>1. 0 .. n \subseteq P
    BY <1>1, <1>2, UpTo
  <2> QED BY <2>1
<1> QED BY <1>3 DEF IsRun

-----------------------------------------------------------------------------
Costs == Money \cup {NoCost}

LEMMA SameMoneyTrans ==
    ASSUME NEW f \in Money, NEW g \in Money, NEW h \in Money, SameMoney(f, g), SameMoney(g, h)
    PROVE  SameMoney(f, h)
<1> DEFINE a == f.n  b == f.d  c == g.n  d == g.d  x == h.n  y == h.d
<1>1. {a, b, c, d, x, y} \subseteq Int /\ d # 0 /\ a * d = c * b /\ c * y = x * d
  BY DEF Money, SameMoney
<1>2. SUFFICES a * y = x * b
  BY DEF SameMoney
<1> HIDE DEF a, b, c, d, x, y
<1>3. (a * y) * d = (x * b) * d
  <2>1. (a * y) * d = (a * d) * y /\ (a * d) * y = (c * b) * y
    BY <1>1
  <2>2. (c * b) * y = (c * y) * b /\ (c * y) * b = (x * d) * b /\ (x * d) * b = (x * b) * d
    BY <1>1
  <2> QED BY <2>1, <2>2
<1>4. a * y \in Int /\ x * b \in Int
  BY <1>1
<1> QED
  <2> DEFINE u == a * y  v == x * b
  <2>1. u \in Int /\ v \in Int /\ d \in Int /\ d # 0 /\ u * d = v * d
    BY <1>1, <1>3, <1>4
  <2> HIDE DEF u, v
  <2>2. u = v
    BY <2>1
  <2> QED BY <2>2 DEF u, v

LEMMA SameMoneyTimes ==
    ASSUME NEW f \in Money, NEW g \in Money, NEW k \in Int, SameMoney(f, g)
    PROVE  SameMoney(Times(k, f), Times(k, g))
<1> DEFINE a == f.n  b == f.d  c == g.n  d == g.d
<1>1. {a, b, c, d} \subseteq Int /\ a * d = c * b
  BY DEF Money, SameMoney
<1>2. SUFFICES (k * a) * d = (k * c) * b
  BY DEF SameMoney, Times, Frac
<1> HIDE DEF a, b, c, d
<1>3. (k * a) * d = k * (a * d) /\ (k * c) * b = k * (c * b)
  BY <1>1
<1> QED BY <1>1, <1>3

LEMMA MoneyTypes ==
    /\ \A f \in Costs : Amount(f) \in Money
    /\ \A f \in Money : Amount(f) = f
    /\ \A f \in Money, k \in Int : Times(k, f) \in Money
    /\ \A f, g \in Money : Plus(f, g) \in Money
    /\ \A n \in Int : Frac(n, 1) \in Money
    /\ \A f \in Money : SameMoney(f, f)
<1>1. \A b, d \in Nat \ {0} : b * d \in Nat \ {0}
  OBVIOUS
<1>2. \A f, g \in Money : Plus(f, g) \in Money
  BY <1>1 DEF Plus, Frac, Money
<1>3. /\ \A f \in Costs : Amount(f) \in Money
      /\ \A f \in Money : Amount(f) = f
      /\ \A n \in Int : Frac(n, 1) \in Money
      /\ \A f \in Money, k \in Int : Times(k, f) \in Money
  BY DEF Costs, Amount, NoCost, Frac, Money, Times
<1>4. \A f \in Money : SameMoney(f, f)
  BY DEF Money, SameMoney
<1> QED BY <1>2, <1>3, <1>4

Trade(s, c, e, p) == Traded(s, Amount(c), e, p)
CanTrade(s, c, e, p) ==
    /\ s \in Int /\ c \in Costs /\ (s < 0 => c = NoCost)
    /\ e \in Int \ {0} /\ p \in Int /\ (e > 0 \/ s + e >= 0)

LEMMA TradeTypes ==
    ASSUME NEW s, NEW c, NEW e, NEW p, CanTrade(s, c, e, p)
    PROVE  /\ Trade(s, c, e, p).shares \in Nat
           /\ Trade(s, c, e, p).cost \in Money /\ Trade(s, c, e, p).gain \in Money
<1> DEFINE f == Amount(c)  done == Trade(s, c, e, p)
<1>1. s \in Int /\ f \in Money /\ e \in Int \ {0} /\ p \in Int /\ (e > 0 \/ s + e >= 0)
  BY MoneyTypes DEF CanTrade
<1>2. f.n \in Int /\ f.d \in Nat \ {0} /\ Frac(0, 1) \in Money
  BY <1>1 DEF Money, Frac
<1>3. CASE s <= 0
  <2>1. done = [shares |-> e, cost |-> Frac(p, 1), gain |-> Frac(0, 1)]
    BY <1>1, <1>3 DEF Trade, Traded
  <2> QED BY <1>1, <1>2, <1>3, <2>1, MoneyTypes
<1>4. CASE s > 0 /\ e > 0
  <2>1. done = [shares |-> s + e, gain |-> Frac(0, 1),
                cost |-> Frac(s * f.n + e * p * f.d, (s + e) * f.d)]
    BY <1>1, <1>4 DEF Trade, Traded
  <2>2. s * f.n + e * p * f.d \in Int /\ (s + e) * f.d \in Nat \ {0}
    BY <1>1, <1>2, <1>4
  <2>3. Frac(s * f.n + e * p * f.d, (s + e) * f.d) \in Money
    BY <2>2 DEF Money, Frac
  <2> QED BY <1>1, <1>2, <1>4, <2>1, <2>3
<1>5. CASE s > 0 /\ e < 0
  <2>1. done = [shares |-> s + e, cost |-> f,
                gain |-> Times(-e, Plus(Frac(p, 1), Times(-1, f)))]
    BY <1>1, <1>5 DEF Trade, Traded
  <2>2. Times(-1, f) \in Money /\ Frac(p, 1) \in Money /\ -e \in Int
    BY <1>1, MoneyTypes
  <2>3. Times(-e, Plus(Frac(p, 1), Times(-1, f))) \in Money
    BY <2>2, MoneyTypes
  <2> QED BY <1>1, <1>5, <2>1, <2>3
<1> QED BY <1>1, <1>3, <1>4, <1>5

\* The money in a row after a trade is what was in it, plus what was paid, plus the
\* gain that is reported.
LEMMA TradeConserves ==
    ASSUME NEW s, NEW c, NEW e, NEW p, CanTrade(s, c, e, p), NEW l \in Money,
           SameMoney(Times(s, Amount(c)), l)
    PROVE  SameMoney(Times(Trade(s, c, e, p).shares, Trade(s, c, e, p).cost),
                     Plus(Plus(l, Frac(e * p, 1)), Trade(s, c, e, p).gain))
<1> DEFINE f == Amount(c)  done == Trade(s, c, e, p)
           a == f.n  b == f.d  x == l.n  y == l.d
<1>1. s \in Int /\ f \in Money /\ e \in Int \ {0} /\ p \in Int /\ (e > 0 \/ s + e >= 0)
  BY MoneyTypes DEF CanTrade
<1>2. {a, b, x, y} \subseteq Int /\ b # 0 /\ (s * a) * y = x * b
  BY <1>1 DEF Money, SameMoney, Times, Frac
<1>3. CASE s <= 0
  <2>1. done = [shares |-> e, cost |-> Frac(p, 1), gain |-> Frac(0, 1)]
    BY <1>1, <1>3 DEF Trade, Traded
  <2>2. s * a = 0
    <3>1. CASE s = 0
      BY <3>1, <1>2
    <3>2. CASE s < 0
      <4>1. a = 0
        BY <3>2 DEF CanTrade, Amount, NoCost, Frac
      <4> QED BY <4>1, <1>1
    <3> QED BY <3>1, <3>2, <1>1, <1>3
  <2>3. x = 0
    <3> HIDE DEF a, b, x, y
    <3>1. x * b = 0
      BY <2>2, <1>2
    <3> QED BY <3>1, <1>2
  <2>4. (e * p) * ((y * 1) * 1) = ((x * 1 + (e * p) * y) * 1 + 0 * (y * 1)) * 1
    <3> HIDE DEF a, b, x, y
    <3> QED BY <1>1, <1>2, <2>3
  <2> QED BY <2>1, <2>4 DEF SameMoney, Times, Plus, Frac
<1>4. CASE s > 0 /\ e > 0
  <2>1. done = [shares |-> s + e, gain |-> Frac(0, 1),
                cost |-> Frac(s * a + e * p * b, (s + e) * b)]
    BY <1>1, <1>4 DEF Trade, Traded
  <2>2. ((s + e) * (s * a + e * p * b)) * ((y * 1) * 1)
            = ((x * 1 + (e * p) * y) * 1 + 0 * (y * 1)) * ((s + e) * b)
    <3> DEFINE u == s * a  v == e * p  w == s + e
    <3>0. u \in Int /\ v \in Int /\ w \in Int /\ e * p * b = v * b
      BY <1>1, <1>2
    <3>1. u * y = x * b
      BY <1>2
    <3> HIDE DEF a, b, x, y, u, v, w
    <3>2. (w * (u + v * b)) * ((y * 1) * 1) = w * (u * y) + w * ((v * b) * y)
      BY <3>0, <1>2
    <3>3. ((x * 1 + v * y) * 1 + 0 * (y * 1)) * (w * b) = w * (x * b) + w * ((v * b) * y)
      BY <3>0, <1>2
    <3>4. (w * (u + v * b)) * ((y * 1) * 1) = ((x * 1 + v * y) * 1 + 0 * (y * 1)) * (w * b)
      BY <3>1, <3>2, <3>3
    <3> QED BY <3>0, <3>4 DEF u, v, w
  <2> QED BY <2>1, <2>2 DEF SameMoney, Times, Plus, Frac
<1>5. CASE s > 0 /\ e < 0
  <2>1. done = [shares |-> s + e, cost |-> f,
                gain |-> Times(-e, Plus(Frac(p, 1), Times(-1, f)))]
    BY <1>1, <1>5 DEF Trade, Traded
  <2>2. ((s + e) * a) * ((y * 1) * (1 * b))
            = ((x * 1 + (e * p) * y) * (1 * b) + ((-e) * (p * b + ((-1) * a) * 1)) * (y * 1)) * b
    <3> HIDE DEF a, b, x, y
    <3>1. ((s + e) * a) * ((y * 1) * (1 * b)) = ((s * a) * y) * b + ((e * a) * y) * b
      BY <1>1, <1>2
    <3>2. (x * 1 + (e * p) * y) * (1 * b) + ((-e) * (p * b + ((-1) * a) * 1)) * (y * 1)
              = x * b + (e * a) * y
      BY <1>1, <1>2
    <3>3. (x * b + (e * a) * y) * b = (x * b) * b + ((e * a) * y) * b
      BY <1>1, <1>2
    <3> QED BY <1>2, <3>1, <3>2, <3>3
  <2> DEFINE bought == Plus(l, Frac(e * p, 1))  gain == Trade(s, c, e, p).gain
  <2>3. Times(s + e, f).n = (s + e) * a /\ Times(s + e, f).d = b
    BY DEF Times, Frac
  <2>4. bought.n = x * 1 + (e * p) * y /\ bought.d = y * 1
    BY DEF Plus, Frac
  <2>5. gain.n = (-e) * (p * b + ((-1) * a) * 1) /\ gain.d = 1 * b
    BY <2>1 DEF Times, Plus, Frac
  <2>6. /\ Plus(bought, gain).n = bought.n * gain.d + gain.n * bought.d
        /\ Plus(bought, gain).d = bought.d * gain.d
    BY DEF Plus, Frac
  <2>7. SameMoney(Times(s + e, f), Plus(bought, gain))
    <3>1. Times(s + e, f).n * Plus(bought, gain).d = Plus(bought, gain).n * Times(s + e, f).d
      <4> HIDE DEF bought, gain
      <4> QED BY <2>2, <2>3, <2>4, <2>5, <2>6
    <3> HIDE DEF bought, gain
    <3> QED BY <3>1 DEF SameMoney
  <2> QED BY <2>1, <2>7
<1> QED BY <1>1, <1>3, <1>4, <1>5

-----------------------------------------------------------------------------
\* Rows and trades, with weights of W: what a weight is matters to nobody here.  A
\* negative number of shares has no cost.
Rows(W) == {r \in [sym : Holdables, type : BookTypes, weight : W, shares : Int,
                   cost : Costs, active : BOOLEAN] : r.shares < 0 => r.cost = NoCost}
Trades(W) == [pc : {"new", "priced", "done"}, row : Nat, shares : Int, cost : Costs,
              weight : W, delta : Int, price : Int]
IsTrade(o, m) == o.pc = "priced" => /\ o.row \in 1 .. m /\ o.delta # 0
                                    /\ o.shares < 0 => o.cost = NoCost

\* Rows and what is in them, apart from those that were overtaken.
RowsHold(W, hs, ls, over) ==
    /\ hs \in Seq(Rows(W)) /\ ls \in Seq(Money) /\ Len(ls) = Len(hs)
    /\ \A i \in DOMAIN hs : i \notin over => SameMoney(Basis(hs[i]), ls[i])
TradesTyped(W, os, m) == os \in [Orders -> Trades(W)] /\ \A q \in Orders : IsTrade(os[q], m)

BookInv == \E W : /\ Int \subseteq W /\ RowsHold(W, holdings, ledger, overtaken)
                  /\ TradesTyped(W, order, Len(holdings))

BookSpec == BookInit /\ [][BookNext]_bookVars

\* Importing a line keeps rows well formed and takes none away.
States(W, m) == {st \in [rows : Seq(Rows(W)), count : Nat] : Len(st.rows) >= m}

LEMMA NewRowType ==
    ASSUME NEW W, NEW s \in Holdables, NEW t \in BookTypes, NEW w \in W,
           NEW sh \in Int, NEW c \in Costs
    PROVE  NewRow(s, t, w, sh, c) \in Rows(W)
BY DEF NewRow, Rows, Costs

LEMMA ImportedType ==
    ASSUME NEW W, 10 \in W, NEW m \in Nat, NEW mode, NEW st \in States(W, m), NEW line \in Lines
    PROVE  Imported(mode, st, line) \in States(W, m)
<1>1. CASE ~line.ok
  BY <1>1 DEF Imported
<1>2. CASE line.ok
  <2> DEFINE old == IF mode = "replace" /\ st.count = 0 THEN ListedAs(st.rows, line.type) ELSE {}
             kept == [i \in DOMAIN st.rows |->
                        [st.rows[i] EXCEPT !.active = @ /\ i \notin old]]
             new == NewRow(line.sym, line.type, 10, line.shares, line.cost)
             hits == {i \in ListedAs(kept, line.type) : kept[i].sym = line.sym}
             h == CHOOSE i \in hits : \A j \in hits : j <= i
             rows == IF hits = {} THEN Append(kept, new) ELSE [kept EXCEPT ![h] = new]
  <2>1. Imported(mode, st, line) = [rows |-> rows, count |-> st.count + 1]
    BY <1>2 DEF Imported
  <2>2. new \in Rows(W)
    BY NewRowType DEF Lines, Costs
  <2>3. st.rows \in Seq(Rows(W)) /\ st.count \in Nat /\ Len(st.rows) >= m /\ Len(st.rows) \in Nat
        /\ DOMAIN st.rows = 1 .. Len(st.rows)
    BY DEF States
  <2>4. kept \in [1 .. Len(st.rows) -> Rows(W)]
    <3>1. ASSUME NEW i \in 1 .. Len(st.rows)
          PROVE  [st.rows[i] EXCEPT !.active = @ /\ i \notin old] \in Rows(W)
      <4>1. st.rows[i] \in Rows(W)
        BY <2>3
      <4>2. (st.rows[i].active /\ i \notin old) \in BOOLEAN
        OBVIOUS
      <4> HIDE DEF old
      <4> QED BY <4>1, <4>2 DEF Rows
    <3> HIDE DEF old
    <3> QED BY <2>3, <3>1
  <2>5. kept \in Seq(Rows(W)) /\ Len(kept) = Len(st.rows)
    <3> HIDE DEF kept
    <3> QED BY <2>3, <2>4
  <2>6. rows \in Seq(Rows(W)) /\ Len(rows) >= m
    <3> HIDE DEF kept, new, hits, h
    <3>1. Append(kept, new) \in Seq(Rows(W)) /\ Len(Append(kept, new)) >= m
      BY <2>2, <2>3, <2>5
    <3>2. [kept EXCEPT ![h] = new] \in Seq(Rows(W)) /\ Len([kept EXCEPT ![h] = new]) >= m
      <4>1. kept \in [1 .. Len(kept) -> Rows(W)] /\ Len(kept) \in Nat
        BY <2>5
      <4>2. [kept EXCEPT ![h] = new] \in [1 .. Len(kept) -> Rows(W)]
        BY <4>1, <2>2
      <4> DEFINE s == [kept EXCEPT ![h] = new]
      <4>3. s \in Seq(Rows(W)) /\ Len(s) = Len(kept)
        <5> HIDE DEF s
        <5> QED BY <4>1, <4>2 DEF s
      <4> QED BY <4>3, <2>3, <2>5
    <3> QED BY <3>1, <3>2
  <2> HIDE DEF rows
  <2> QED BY <2>1, <2>3, <2>6 DEF States
<1> QED BY <1>1, <1>2

LEMMA AfterLinesType ==
    ASSUME NEW W, 10 \in W, holdings \in Seq(Rows(W)), NEW mode, NEW file \in Seq(Lines)
    PROVE  /\ AfterLines(mode, file)[0] = [rows |-> holdings, count |-> 0]
           /\ \A k \in 1 .. Len(file) :
                 AfterLines(mode, file)[k] = Imported(mode, AfterLines(mode, file)[k - 1], file[k])
           /\ \A k \in 0 .. Len(file) : AfterLines(mode, file)[k] \in States(W, Len(holdings))
<1> DEFINE n == Len(file)  m == Len(holdings)  R == States(W, m)
           b == [rows |-> holdings, count |-> 0]
           G == [p \in R \X (1 .. n) |-> Imported(mode, p[1], file[p[2]])]
           Step(f, k) == IF k = 0 THEN b ELSE Imported(mode, f[k - 1], file[k])
           Full(f) == f = [k \in 0 .. n |-> Step(f, k)]
           A == AfterLines(mode, file)
           P == {k \in 0 .. n : A[k] \in R}
<1>1. n \in Nat /\ m \in Nat /\ \A k \in 1 .. n : file[k] \in Lines
  OBVIOUS
<1>2. b \in R
  BY <1>1 DEF States
<1>3. \A st \in R, k \in 1 .. n : Imported(mode, st, file[k]) \in R
  BY <1>1, ImportedType
<1>4. G \in [R \X (1 .. n) -> R]
  <2> HIDE DEF R, n
  <2> QED BY <1>3
<1>5. PICK f \in [0 .. n -> R] : IsRun(f, n, b, G)
  <2>1. n \in Nat
    BY <1>1
  <2> HIDE DEF R, n, b, G
  <2> QED BY <2>1, <1>2, <1>4, RunExists, Zenon
<1>6. Full(f)
  <2> SUFFICES ASSUME NEW k \in 0 .. n PROVE f[k] = Step(f, k)
    <3> HIDE DEF n, Step, R
    <3> QED OBVIOUS
  <2>1. CASE k = 0
    BY <2>1, <1>5 DEF IsRun
  <2>2. CASE k # 0
    <3>1. k \in 1 .. n /\ k - 1 \in 0 .. n /\ f[k - 1] \in R
      <4> HIDE DEF R
      <4> QED BY <2>2, <1>1
    <3>2. G[<<f[k - 1], k>>] = Imported(mode, f[k - 1], file[k])
      <4> HIDE DEF R, n
      <4> QED BY <3>1
    <3> HIDE DEF R, n, G
    <3> QED BY <2>2, <3>1, <3>2, <1>5 DEF IsRun
  <2> QED BY <2>1, <2>2
<1>7. A = CHOOSE g : Full(g)
  BY DEF AfterLines
<1>8. Full(A)
  <2> HIDE DEF Full, A
  <2> QED BY <1>6, <1>7
<1>9. A[0] = b /\ \A k \in 1 .. n : A[k] = Imported(mode, A[k - 1], file[k])
  <2>1. \A k \in 0 .. n : A[k] = Step(A, k)
    <3> HIDE DEF A, Step, n
    <3> QED BY <1>8
  <2> HIDE DEF A, b, n
  <2> QED BY <1>1, <2>1
<1>10. 0 .. n \subseteq P
  <2>1. 0 \in P
    <3> HIDE DEF A, R, b, n
    <3> QED BY <1>1, <1>2, <1>9
  <2>2. ASSUME NEW k \in 1 .. n, k - 1 \in P PROVE k \in P
    <3> HIDE DEF A, R, b, n
    <3> QED BY <2>2, <1>1, <1>3, <1>9
  <2>3. n \in Nat
    BY <1>1
  <2> HIDE DEF P, n
  <2> QED BY <2>1, <2>2, <2>3, UpTo, Zenon
<1> HIDE DEF A, R, n
<1> QED BY <1>9, <1>10 DEF A, R, n

LEMMA BasisType == \A W : \A r \in Rows(W) : Basis(r) \in Money
BY MoneyTypes DEF Rows, Basis

LEMMA WeightsGrow ==
    ASSUME NEW W, NEW V, W \subseteq V
    PROVE  /\ Rows(W) \subseteq Rows(V) /\ Trades(W) \subseteq Trades(V)
           /\ \A hs \in Seq(Rows(W)) : hs \in Seq(Rows(V))
<1>1. Rows(W) \subseteq Rows(V) /\ Trades(W) \subseteq Trades(V)
  BY DEF Rows, Trades
<1> QED BY <1>1

LEMMA KeptAppend ==
    ASSUME NEW W, NEW hs, NEW ls, NEW over, RowsHold(W, hs, ls, over), NEW row \in Rows(W)
    PROVE  RowsHold(W, Append(hs, row), Append(ls, Basis(row)), over)
<1>1. Basis(row) \in Money /\ SameMoney(Basis(row), Basis(row))
  BY BasisType, MoneyTypes
<1>2. hs \in Seq(Rows(W)) /\ ls \in Seq(Money) /\ Len(ls) = Len(hs) /\ Len(hs) \in Nat
  BY DEF RowsHold
<1> DEFINE b == Basis(row)  h2 == Append(hs, row)  l2 == Append(ls, b)
<1>3. /\ h2 \in Seq(Rows(W)) /\ l2 \in Seq(Money) /\ Len(h2) = Len(hs) + 1 /\ Len(l2) = Len(hs) + 1
      /\ h2[Len(hs) + 1] = row /\ l2[Len(hs) + 1] = b
      /\ \A i \in 1 .. Len(hs) : h2[i] = hs[i] /\ l2[i] = ls[i]
  <2> HIDE DEF b
  <2> QED BY <1>1, <1>2 DEF b
<1>4. ASSUME NEW i \in DOMAIN h2, i \notin over PROVE SameMoney(Basis(h2[i]), l2[i])
  <2>1. i \in 1 .. Len(hs) \/ i = Len(hs) + 1
    BY <1>2, <1>3
  <2>2. CASE i \in 1 .. Len(hs)
    <3>1. SameMoney(Basis(hs[i]), ls[i])
      BY <1>2, <1>4, <2>2 DEF RowsHold
    <3> HIDE DEF h2, l2
    <3> QED BY <1>3, <2>2, <3>1
  <2>3. CASE i = Len(hs) + 1
    <3> HIDE DEF h2, l2
    <3> QED BY <1>1, <1>3, <2>3
  <2> QED BY <2>1, <2>2, <2>3
<1> HIDE DEF h2, l2
<1> QED BY <1>3, <1>4 DEF RowsHold, h2, l2

\* A row is written, and what is in it: the two agree unless the row is overtaken.
Put(f, i, x) == [f EXCEPT ![i] = x]
Writes(W, hs, ls, over, over2, i, row, l) ==
    /\ RowsHold(W, hs, ls, over) /\ over \subseteq over2 /\ i \in DOMAIN hs
    /\ row \in Rows(W) /\ l \in Money /\ (i \notin over2 => SameMoney(Basis(row), l))

LEMMA KeptSet ==
    \A W, hs, ls, over, over2, i, row, l : Writes(W, hs, ls, over, over2, i, row, l) =>
        RowsHold(W, Put(hs, i, row), Put(ls, i, l), over2) /\ Len(Put(hs, i, row)) = Len(hs)
<1> SUFFICES ASSUME NEW W, NEW hs, NEW ls, NEW over, NEW over2, NEW i, NEW row, NEW l,
                    Writes(W, hs, ls, over, over2, i, row, l)
             PROVE  /\ RowsHold(W, Put(hs, i, row), Put(ls, i, l), over2)
                    /\ Len(Put(hs, i, row)) = Len(hs)
  OBVIOUS
<1> USE DEF Writes
<1> DEFINE h2 == [hs EXCEPT ![i] = row]  l2 == [ls EXCEPT ![i] = l]
<1>1. /\ hs \in [1 .. Len(hs) -> Rows(W)] /\ ls \in [1 .. Len(hs) -> Money] /\ Len(hs) \in Nat
      /\ i \in 1 .. Len(hs) /\ Len(ls) = Len(hs)
  BY DEF RowsHold
<1>2. h2 \in [1 .. Len(hs) -> Rows(W)] /\ l2 \in [1 .. Len(hs) -> Money]
  BY <1>1
<1>3. h2 \in Seq(Rows(W)) /\ l2 \in Seq(Money) /\ Len(h2) = Len(hs) /\ Len(l2) = Len(hs)
  <2> HIDE DEF h2, l2
  <2> QED BY <1>1, <1>2
<1>4. ASSUME NEW j \in 1 .. Len(hs), j \notin over2 PROVE SameMoney(Basis(h2[j]), l2[j])
  <2>1. CASE j = i
    <3>1. h2[j] = row /\ l2[j] = l
      BY <1>1, <2>1
    <3> HIDE DEF h2, l2
    <3> QED BY <3>1, <1>4, <2>1
  <2>2. CASE j # i
    <3>1. h2[j] = hs[j] /\ l2[j] = ls[j]
      BY <1>1, <2>2
    <3>2. SameMoney(Basis(hs[j]), ls[j])
      BY <1>1, <1>4 DEF RowsHold
    <3> HIDE DEF h2, l2
    <3> QED BY <3>1, <3>2
  <2> QED BY <2>1, <2>2
<1> HIDE DEF h2, l2
<1> QED BY <1>1, <1>3, <1>4 DEF RowsHold, Put, h2, l2

\* Trades stay well formed while rows are only added.
LEMMA TradesStay ==
    ASSUME NEW W, NEW V, W \subseteq V, NEW os, NEW m \in Nat, NEW n \in Nat, n >= m,
           TradesTyped(W, os, m)
    PROVE  TradesTyped(V, os, n)
<1>1. os \in [Orders -> Trades(V)]
  BY WeightsGrow DEF TradesTyped
<1>2. 1 .. m \subseteq 1 .. n
  OBVIOUS
<1> QED BY <1>1, <1>2 DEF TradesTyped, IsTrade

LEMMA BookStart == BookInit => BookInv
<1> SUFFICES ASSUME BookInit PROVE BookInv
  OBVIOUS
<1>1. NoOrder \in Trades(Int) /\ NoOrder.pc # "priced"
  BY DEF NoOrder, Trades, Costs
<1>2. Len(<<>>) = 0 /\ <<>> \in Seq(Rows(Int)) /\ <<>> \in Seq(Money) /\ DOMAIN <<>> = {}
  OBVIOUS
<1>3. RowsHold(Int, holdings, ledger, overtaken)
  BY <1>2 DEF BookInit, RowsHold
<1>4. TradesTyped(Int, order, Len(holdings))
  BY <1>1 DEF BookInit, TradesTyped, IsTrade
<1> QED BY <1>3, <1>4 DEF BookInv

\* A row is added with what it cost.
LEMMA RowAdded ==
    ASSUME NEW W, Int \subseteq W, RowsHold(W, holdings, ledger, overtaken),
           TradesTyped(W, order, Len(holdings)), NEW row \in Rows(W),
           holdings' = Append(holdings, row), ledger' = Append(ledger, Basis(row)),
           UNCHANGED <<order, overtaken>>
    PROVE  BookInv'
<1>1. RowsHold(W, holdings', ledger', overtaken')
  BY KeptAppend
<1>2. holdings \in Seq(Rows(W)) /\ Len(holdings') = Len(holdings) + 1 /\ Len(holdings) \in Nat
  BY DEF RowsHold
<1>3. TradesTyped(W, order', Len(holdings'))
  BY <1>2, TradesStay
<1> QED BY <1>1, <1>3 DEF BookInv

\* A row is written, by no trade.
LEMMA RowWritten ==
    ASSUME NEW W, Int \subseteq W, RowsHold(W, holdings, ledger, overtaken),
           TradesTyped(W, order, Len(holdings)), NEW i \in DOMAIN holdings, NEW row \in Rows(W),
           NEW l \in Money, i \notin overtaken => SameMoney(Basis(row), l),
           holdings' = [holdings EXCEPT ![i] = row], ledger' = [ledger EXCEPT ![i] = l],
           UNCHANGED <<order, overtaken>>
    PROVE  BookInv'
<1>1. Writes(W, holdings, ledger, overtaken, overtaken, i, row, l)
  BY DEF Writes
<1>2. /\ RowsHold(W, Put(holdings, i, row), Put(ledger, i, l), overtaken)
      /\ Len(Put(holdings, i, row)) = Len(holdings)
  <2>1. \A x, y : Writes(W, holdings, ledger, overtaken, overtaken, i, x, y) =>
                 /\ RowsHold(W, Put(holdings, i, x), Put(ledger, i, y), overtaken)
                 /\ Len(Put(holdings, i, x)) = Len(holdings)
    BY KeptSet
  <2> QED BY <1>1, <2>1
<1>3. holdings' = Put(holdings, i, row) /\ ledger' = Put(ledger, i, l) /\ overtaken' = overtaken
  BY DEF Put
<1>4. RowsHold(W, holdings', ledger', overtaken') /\ Len(holdings') = Len(holdings)
  BY <1>2, <1>3, Zenon
<1>5. TradesTyped(W, order', Len(holdings'))
  BY <1>4
<1> QED BY <1>4, <1>5 DEF BookInv

\* What a step may use of the book.
Book(W) == Int \subseteq W /\ RowsHold(W, holdings, ledger, overtaken)
           /\ TradesTyped(W, order, Len(holdings))

LEMMA BookFacts ==
    ASSUME NEW W, Book(W)
    PROVE  /\ holdings \in Seq(Rows(W)) /\ ledger \in Seq(Money) /\ Len(ledger) = Len(holdings)
           /\ Len(holdings) \in Nat /\ DOMAIN holdings = 1 .. Len(holdings)
           /\ DOMAIN ledger = 1 .. Len(holdings)
           /\ \A i \in 1 .. Len(holdings) :
                 /\ holdings[i] \in Rows(W) /\ ledger[i] \in Money
                 /\ i \notin overtaken => SameMoney(Basis(holdings[i]), ledger[i])
BY DEF Book, RowsHold

LEMMA AddStays ==
    ASSUME NEW W, Book(W), NEW s \in Holdables, NEW t \in BookTypes, NEW sh \in Int,
           NEW c \in Costs, AddEtf(s, t, sh, c)
    PROVE  BookInv'
<1> DEFINE row == NewRow(s, t, 5, sh, c)
<1>1. row \in Rows(W)
  BY NewRowType DEF Book
<1>2. holdings' = Append(holdings, row) /\ holdings'[Len(holdings')] = row
  <2> HIDE DEF row
  <2>1. holdings' = Append(holdings, row)
    BY DEF AddEtf, row
  <2> QED BY <2>1, <1>1, BookFacts
<1>3. ledger' = Append(ledger, Basis(row)) /\ UNCHANGED <<order, overtaken>>
  <2> HIDE DEF row
  <2> QED BY <1>2 DEF AddEtf
<1> HIDE DEF row
<1> QED BY <1>1, <1>2, <1>3, RowAdded DEF Book

LEMMA SetStays ==
    ASSUME NEW W, Book(W), NEW s \in Holdables, NEW sh \in Int, NEW c \in Costs,
           SetHolding(s, sh, c)
    PROVE  BookInv'
<1> DEFINE left(r) == IF sh >= 0 THEN sh ELSE r.shares
           cost(r) == IF sh = 0 THEN NoCost ELSE IF c # NoCost /\ left(r) > 0 THEN c ELSE r.cost
<1>1. PICK i \in Found(s) :
          /\ holdings' = [holdings EXCEPT ![i].shares = left(holdings[i]),
                                         ![i].cost = cost(holdings[i])]
          /\ ledger' = [ledger EXCEPT ![i] = Basis(holdings'[i])]
          /\ UNCHANGED <<order, overtaken>>
  BY DEF SetHolding
<1> DEFINE r == holdings[i]
           row == [r EXCEPT !.shares = left(r), !.cost = cost(r)]
           l == Basis(row)
<1>2. i \in DOMAIN holdings /\ i \in 1 .. Len(holdings) /\ r \in Rows(W)
  BY BookFacts DEF Found, Listed
<1>3. left(r) \in Int /\ cost(r) \in Costs /\ (left(r) < 0 => cost(r) = NoCost)
  BY <1>2 DEF Rows, Costs
<1>4. row \in Rows(W)
  <2> HIDE DEF left, cost
  <2> QED BY <1>2, <1>3 DEF Rows
<1>5. holdings' = [holdings EXCEPT ![i] = row]
  <2> HIDE DEF left, cost
  <2> QED BY <1>1, <1>2, BookFacts
<1>6. ledger' = [ledger EXCEPT ![i] = l]
  <2>1. holdings'[i] = row
    <3> HIDE DEF row
    <3> QED BY <1>2, <1>5, BookFacts
  <2> HIDE DEF row
  <2> QED BY <1>1, <2>1
<1>7. l \in Money /\ SameMoney(Basis(row), l)
  <2> HIDE DEF row
  <2> QED BY <1>4, BasisType, MoneyTypes
<1>8. i \in DOMAIN holdings /\ UNCHANGED <<order, overtaken>>
  BY <1>1, <1>2
<1>9. Int \subseteq W /\ RowsHold(W, holdings, ledger, overtaken)
      /\ TradesTyped(W, order, Len(holdings))
  BY DEF Book
<1> HIDE DEF row, l, r, left, cost
<1> QED BY <1>4, <1>5, <1>6, <1>7, <1>8, <1>9, RowWritten

LEMMA RemoveStays ==
    ASSUME NEW W, Book(W), NEW s \in Holdables, RemoveEtf(s)
    PROVE  BookInv'
<1>1. PICK i \in Found(s) : /\ holdings' = [holdings EXCEPT ![i].active = FALSE]
                            /\ UNCHANGED <<order, ledger, overtaken>>
  BY DEF RemoveEtf
<1> DEFINE row == [holdings[i] EXCEPT !.active = FALSE]  l == ledger[i]
<1>2. i \in DOMAIN holdings /\ i \in 1 .. Len(holdings) /\ holdings[i] \in Rows(W)
      /\ l \in Money
  BY BookFacts DEF Found, Listed
<1>3. row \in Rows(W) /\ Basis(row) = Basis(holdings[i])
  BY <1>2 DEF Rows, Basis
<1>4. holdings' = [holdings EXCEPT ![i] = row] /\ ledger' = [ledger EXCEPT ![i] = l]
  BY <1>1, <1>2, BookFacts
<1>5. i \notin overtaken => SameMoney(Basis(row), l)
  <2> HIDE DEF row
  <2> QED BY <1>2, <1>3, BookFacts
<1>6. i \in DOMAIN holdings /\ row \in Rows(W) /\ l \in Money /\ UNCHANGED <<order, overtaken>>
  BY <1>1, <1>2, <1>3
<1>7. Int \subseteq W /\ RowsHold(W, holdings, ledger, overtaken)
      /\ TradesTyped(W, order, Len(holdings))
  BY DEF Book
<1> HIDE DEF row, l
<1> QED BY <1>4, <1>5, <1>6, <1>7, RowWritten

LEMMA DesignStays ==
    ASSUME NEW W, Book(W), NEW s \in Holdables, NEW t \in BookTypes, NEW w \in Int,
           ApplyDesign(s, t, w)
    PROVE  BookInv'
<1> DEFINE capped == IF w > 50 THEN 50 ELSE w
           h == CHOOSE i \in Found(s) : \A j \in Found(s) : j <= i
           row == [holdings[h] EXCEPT !.weight = capped, !.type = t]
<1>1. capped \in W /\ UNCHANGED <<order, overtaken>>
  BY DEF Book, ApplyDesign
<1>2. CASE Found(s) = {}
  <2> DEFINE new == NewRow(s, t, capped, 0, NoCost)
  <2>1. new \in Rows(W)
    <3> HIDE DEF capped
    <3> QED BY <1>1, NewRowType DEF Costs
  <2>2. Basis(new) = Frac(0, 1)
    BY DEF NewRow, Basis, Times, Amount, NoCost, Frac
  <2>3. holdings' = Append(holdings, new) /\ ledger' = Append(ledger, Basis(new))
    BY <1>2, <2>2 DEF ApplyDesign
  <2> HIDE DEF new, capped
  <2> QED BY <1>1, <2>1, <2>3, RowAdded DEF Book
<1>3. CASE Found(s) # {}
  <2>1. holdings' = [holdings EXCEPT ![h] = row] /\ ledger' = ledger
    BY <1>3 DEF ApplyDesign
  <2>2. CASE h \in DOMAIN holdings
    <3>1. h \in 1 .. Len(holdings) /\ holdings[h] \in Rows(W) /\ ledger[h] \in Money
      <4> HIDE DEF h
      <4> QED BY <2>2, BookFacts
    <3>2. row \in Rows(W) /\ Basis(row) = Basis(holdings[h])
      <4> HIDE DEF h, capped
      <4> QED BY <1>1, <3>1 DEF Rows, Basis
    <3>3. ledger' = [ledger EXCEPT ![h] = ledger[h]]
      <4> HIDE DEF h
      <4> QED BY <2>1, BookFacts
    <3>4. h \notin overtaken => SameMoney(Basis(row), ledger[h])
      <4> HIDE DEF h, row
      <4> QED BY <3>1, <3>2, BookFacts
    <3> HIDE DEF h, row
    <3> QED BY <1>1, <2>1, <2>2, <3>1, <3>2, <3>3, <3>4, RowWritten DEF Book
  <2>3. CASE h \notin DOMAIN holdings
    <3>1. holdings' = holdings
      <4> HIDE DEF h, row
      <4> QED BY <2>1, <2>3, BookFacts
    <3> HIDE DEF h, row
    <3> QED BY <1>1, <2>1, <3>1 DEF Book, BookInv
  <2> QED BY <2>2, <2>3
<1> QED BY <1>2, <1>3

LEMMA ImportStays ==
    ASSUME NEW W, Book(W), NEW mode, NEW file \in Files, ImportRows(mode, file)
    PROVE  BookInv'
<1>1. file \in Seq(Lines) /\ Len(file) \in 0 .. Len(file) /\ 10 \in W
  BY BookAssumption DEF Book
<1>2. AfterLines(mode, file)[Len(file)] \in States(W, Len(holdings))
  BY <1>1, BookFacts, AfterLinesType
<1>3. /\ holdings' \in Seq(Rows(W)) /\ Len(holdings') >= Len(holdings) /\ Len(holdings') \in Nat
      /\ DOMAIN holdings' = 1 .. Len(holdings')
  BY <1>2 DEF ImportRows, States
<1> DEFINE same(i) == i \in DOMAIN holdings
                      /\ SameMoney(Basis(holdings[i]), Basis(holdings'[i]))
<1>4. /\ ledger' = [i \in 1 .. Len(holdings') |->
                      IF same(i) THEN ledger[i] ELSE Basis(holdings'[i])]
      /\ UNCHANGED <<order, overtaken>>
  BY <1>3 DEF ImportRows
<1>5. ASSUME NEW i \in 1 .. Len(holdings')
      PROVE  ledger'[i] \in Money
             /\ (i \notin overtaken' => SameMoney(Basis(holdings'[i]), ledger'[i]))
  <2>1. Basis(holdings'[i]) \in Money
    BY <1>3, BasisType
  <2>2. CASE same(i)
    <3>1. i \in 1 .. Len(holdings) /\ ledger'[i] = ledger[i] /\ ledger[i] \in Money
      BY <1>4, <2>2, BookFacts
    <3>2. Basis(holdings[i]) \in Money
      BY <3>1, BookFacts, BasisType
    <3>3. SameMoney(Basis(holdings'[i]), Basis(holdings[i]))
      BY <2>2 DEF SameMoney
    <3>4. i \notin overtaken => SameMoney(Basis(holdings[i]), ledger[i])
      BY <3>1, BookFacts
    <3> QED BY <1>4, <2>1, <3>1, <3>2, <3>3, <3>4, SameMoneyTrans
  <2>3. CASE ~ same(i)
    <3>1. ledger'[i] = Basis(holdings'[i])
      BY <1>4, <2>3
    <3> QED BY <2>1, <3>1, MoneyTypes
  <2> QED BY <2>2, <2>3
<1>6. ledger' \in Seq(Money) /\ Len(ledger') = Len(holdings')
  <2>1. DOMAIN ledger' = 1 .. Len(holdings') /\ ledger' \in [1 .. Len(holdings') -> Money]
    <3> HIDE DEF same
    <3> QED BY <1>4, <1>5
  <2> QED BY <1>3, <2>1
<1>7. RowsHold(W, holdings', ledger', overtaken')
  BY <1>3, <1>5, <1>6 DEF RowsHold
<1>8. TradesTyped(W, order', Len(holdings'))
  BY <1>3, <1>4, BookFacts, TradesStay DEF Book
<1> QED BY <1>7, <1>8 DEF Book, BookInv

\* A trade moves on; rows and what is in them are left alone.
LEMMA OrderMoves ==
    ASSUME NEW W, Book(W), NEW q \in Orders, NEW o \in Trades(W), IsTrade(o, Len(holdings)),
           order' = [order EXCEPT ![q] = o], UNCHANGED <<holdings, ledger, overtaken>>
    PROVE  BookInv'
<1>1. order \in [Orders -> Trades(W)] /\ \A p \in Orders : IsTrade(order[p], Len(holdings))
  BY DEF Book, TradesTyped
<1>2. /\ order' \in [Orders -> Trades(W)] /\ order'[q] = o
      /\ \A p \in Orders : p # q => order'[p] = order[p]
  BY <1>1
<1>3. \A p \in Orders : IsTrade(order'[p], Len(holdings))
  BY <1>1, <1>2
<1>4. TradesTyped(W, order', Len(holdings'))
  BY <1>2, <1>3 DEF TradesTyped
<1> QED BY <1>4 DEF Book, BookInv

LEMMA BeginStays ==
    ASSUME NEW W, Book(W), NEW q \in Orders, NEW s \in Holdables, NEW delta \in Deltas,
           NEW price \in Prices, TradeBegins(q, s, delta, price)
    PROVE  BookInv'
<1> DEFINE o(i) == [pc |-> "priced", row |-> i, delta |-> delta, price |-> price,
                    shares |-> holdings[i].shares, cost |-> holdings[i].cost,
                    weight |-> holdings[i].weight]
<1>1. PICK i \in Found(s) : /\ order' = [order EXCEPT ![q] = o(i)]
                            /\ UNCHANGED <<holdings, ledger, overtaken>>
  BY DEF TradeBegins
<1>2. i \in 1 .. Len(holdings) /\ i \in Nat /\ holdings[i] \in Rows(W)
  BY BookFacts DEF Found, Listed
<1> DEFINE new == o(i)
<1>3. delta \in Int /\ delta # 0 /\ price \in Int
  BY BookAssumption
<1>4. new \in Trades(W) /\ IsTrade(new, Len(holdings))
  BY <1>2, <1>3 DEF Rows, Trades, IsTrade
<1>5. order' = [order EXCEPT ![q] = new] /\ UNCHANGED <<holdings, ledger, overtaken>>
  BY <1>1
<1> HIDE DEF new
<1> QED BY <1>4, <1>5, OrderMoves

LEMMA RefusedStays ==
    ASSUME NEW W, Book(W), NEW q \in Orders, TradeRefused(q)
    PROVE  BookInv'
<1> DEFINE new == [order[q] EXCEPT !.pc = "done"]
<1>1. order \in [Orders -> Trades(W)]
  BY DEF Book, TradesTyped
<1>2. new \in Trades(W) /\ IsTrade(new, Len(holdings))
  BY <1>1 DEF Trades, IsTrade
<1>3. order' = [order EXCEPT ![q] = new] /\ UNCHANGED <<holdings, ledger, overtaken>>
  BY <1>1 DEF TradeRefused
<1> HIDE DEF new
<1> QED BY <1>2, <1>3, OrderMoves

\* A trade that ends: unless its row changed since it was read, the row holds what
\* was in it, plus what the trade put in, plus the gain.
LEMMA EndStays ==
    ASSUME NEW W, Book(W), NEW q \in Orders, TradeEnds(q)
    PROVE  BookInv'
<1> DEFINE o == order[q]
           i == o.row
           r == holdings[i]
           done == Trade(o.shares, o.cost, o.delta, o.price)
           weight == Weighed(r.sym, done.shares, o.price, o.weight)
           kept == o.cost # NoCost /\ SameMoney(o.cost, done.cost)
           cost == IF kept THEN r.cost ELSE done.cost
           row == [r EXCEPT !.shares = done.shares, !.cost = cost,
                            !.weight = IF weight = o.weight THEN r.weight ELSE weight]
           paid == Frac(o.delta * o.price, 1)
           l == Plus(Plus(ledger[i], paid), done.gain)
           V == W \cup {weight}
<1>1. /\ o \in Trades(W) /\ IsTrade(o, Len(holdings)) /\ o.pc = "priced"
      /\ (o.delta > 0 \/ o.shares + o.delta >= 0)
      /\ i \in 1 .. Len(holdings) /\ r \in Rows(W) /\ ledger[i] \in Money
  <2>1. order \in [Orders -> Trades(W)] /\ \A p \in Orders : IsTrade(order[p], Len(holdings))
    BY DEF Book, TradesTyped
  <2>2. o \in Trades(W) /\ IsTrade(o, Len(holdings)) /\ o.pc = "priced"
        /\ (o.delta > 0 \/ o.shares + o.delta >= 0)
    BY <2>1 DEF TradeEnds
  <2>3. i \in 1 .. Len(holdings)
    BY <2>2 DEF IsTrade
  <2> HIDE DEF o, i
  <2> QED BY <2>2, <2>3, BookFacts
<1>2. CanTrade(o.shares, o.cost, o.delta, o.price)
  BY <1>1 DEF CanTrade, Trades, IsTrade
<1>3. done.shares \in Nat /\ done.cost \in Money /\ done.gain \in Money
  <2> HIDE DEF o
  <2> QED BY <1>2, TradeTypes
<1>4. paid \in Money /\ l \in Money
  <2>1. o.delta * o.price \in Int
    BY <1>1 DEF Trades
  <2>2. paid \in Money
    BY <2>1, MoneyTypes
  <2> HIDE DEF o, i, paid, done
  <2> QED BY <1>1, <1>3, <2>2, MoneyTypes
<1>5. holdings' = [holdings EXCEPT ![i] = row] /\ ledger' = [ledger EXCEPT ![i] = l]
  <2>1. /\ holdings' = [holdings EXCEPT ![i].shares = done.shares,
                            ![i].cost = IF kept THEN @ ELSE done.cost,
                            ![i].weight = IF weight = o.weight THEN @ ELSE weight]
        /\ ledger' = [ledger EXCEPT ![i] = Plus(Plus(@, paid), done.gain)]
    BY DEF TradeEnds, Trade
  <2> HIDE DEF o, i, done, weight, kept, paid
  <2> QED BY <2>1, <1>1, BookFacts DEF i
<1>6. row \in Rows(V)
  <2>1. r \in Rows(V)
    <3> HIDE DEF r, V
    <3> QED BY <1>1, WeightsGrow DEF V
  <2>2. cost \in Costs /\ done.shares \in Int /\ ~(done.shares < 0)
    <3>1. r.cost \in Costs
      <4> HIDE DEF r
      <4> QED BY <1>1 DEF Rows
    <3> HIDE DEF r, done, kept
    <3> QED BY <1>3, <3>1 DEF Costs
  <2> HIDE DEF r, done, cost, weight
  <2> QED BY <2>1, <2>2 DEF Rows
<1> DEFINE over == IF o.shares = r.shares /\ o.cost = r.cost THEN overtaken ELSE overtaken \cup {i}
<1>7. overtaken' = over /\ overtaken \subseteq over
  BY DEF TradeEnds
<1>8. ASSUME i \notin over PROVE SameMoney(Basis(row), l)
  <2>1. i \notin overtaken /\ o.shares = r.shares /\ o.cost = r.cost
    BY <1>8
  <2>2. SameMoney(Basis(r), ledger[i])
    <3> HIDE DEF i
    <3> QED BY <1>1, <2>1, BookFacts
  <2>3. SameMoney(Times(o.shares, Amount(o.cost)), ledger[i])
    <3> HIDE DEF r, o
    <3> QED BY <2>1, <2>2 DEF Basis
  <2>4. SameMoney(Times(done.shares, done.cost), l)
    <3> HIDE DEF o, i
    <3> QED BY <1>1, <1>2, <2>3, TradeConserves
  <2>5. Basis(row) = Times(done.shares, Amount(cost))
    <3> HIDE DEF o, done, cost, weight
    <3> QED BY <1>1 DEF Basis, Rows
  <2>6. Times(done.shares, done.cost) \in Money
    <3> HIDE DEF done
    <3> QED BY <1>3, MoneyTypes
  <2>7. CASE kept
    <3>1. cost = o.cost /\ o.cost \in Money /\ SameMoney(o.cost, done.cost)
      <4>1. o.cost \in Costs
        BY <1>1 DEF Trades
      <4> HIDE DEF o, r, done
      <4> QED BY <2>1, <2>7, <4>1 DEF Costs
    <3>2. Basis(row) = Times(done.shares, o.cost)
      <4> HIDE DEF row, cost, done, o
      <4> QED BY <2>5, <3>1, MoneyTypes
    <3>3. SameMoney(Times(done.shares, o.cost), Times(done.shares, done.cost))
          /\ Times(done.shares, o.cost) \in Money
      <4> DEFINE c == o.cost  d == done.cost  n == done.shares
      <4>1. c \in Money /\ d \in Money /\ n \in Int /\ SameMoney(c, d)
        <5> HIDE DEF done, o
        <5> QED BY <1>3, <3>1
      <4> HIDE DEF c, d, n
      <4>2. SameMoney(Times(n, c), Times(n, d))
        BY <4>1, SameMoneyTimes
      <4>3. Times(n, c) \in Money
        BY <4>1, MoneyTypes
      <4> QED BY <4>2, <4>3 DEF c, d, n
    <3> HIDE DEF row, l, done, o
    <3> QED BY <1>4, <2>4, <2>6, <3>2, <3>3, SameMoneyTrans
  <2>8. CASE ~ kept
    <3>1. Basis(row) = Times(done.shares, done.cost)
      <4>1. cost = done.cost
        <5> HIDE DEF kept, done
        <5> QED BY <2>8
      <4> HIDE DEF row, cost, done
      <4> QED BY <1>3, <2>5, <4>1, MoneyTypes
    <3> HIDE DEF row, l, done
    <3> QED BY <2>4, <3>1
  <2> HIDE DEF kept
  <2> QED BY <2>7, <2>8
<1>9. /\ RowsHold(V, Put(holdings, i, row), Put(ledger, i, l), over)
      /\ Len(Put(holdings, i, row)) = Len(holdings)
  <2>1. RowsHold(V, holdings, ledger, overtaken)
    <3>1. RowsHold(W, holdings, ledger, overtaken) /\ W \subseteq V
      BY DEF Book
    <3> HIDE DEF V
    <3> QED BY <3>1, WeightsGrow DEF RowsHold
  <2>2. Writes(V, holdings, ledger, overtaken, over, i, row, l)
    <3>1. i \in DOMAIN holdings
      BY <1>1, BookFacts
    <3> HIDE DEF V, over, i, row, l
    <3> QED BY <1>4, <1>6, <1>7, <1>8, <2>1, <3>1 DEF Writes
  <2> HIDE DEF V, over, i, row, l
  <2>3. \A h, x, y : Writes(V, holdings, ledger, overtaken, over, h, x, y) =>
           RowsHold(V, Put(holdings, h, x), Put(ledger, h, y), over)
           /\ Len(Put(holdings, h, x)) = Len(holdings)
    BY KeptSet
  <2> QED BY <2>2, <2>3
<1>10. RowsHold(V, holdings', ledger', overtaken') /\ Len(holdings') = Len(holdings)
  <2>1. holdings' = Put(holdings, i, row) /\ ledger' = Put(ledger, i, l) /\ overtaken' = over
    <3> HIDE DEF i, row, l, over
    <3> QED BY <1>5, <1>7 DEF Put
  <2> HIDE DEF V, over, i, row, l
  <2> QED BY <1>9, <2>1, Zenon
<1>11. TradesTyped(V, order', Len(holdings'))
  <2> DEFINE new == [o EXCEPT !.pc = "done"]
  <2>1. order \in [Orders -> Trades(V)] /\ \A p \in Orders : IsTrade(order[p], Len(holdings))
    <3>1. W \subseteq V /\ TradesTyped(W, order, Len(holdings))
      BY DEF Book
    <3> HIDE DEF V
    <3> QED BY <3>1, WeightsGrow DEF TradesTyped
  <2>2. new \in Trades(V) /\ IsTrade(new, Len(holdings))
    <3> HIDE DEF V
    <3> QED BY <2>1 DEF Trades, IsTrade
  <2>3. order' = [order EXCEPT ![q] = new]
    BY <2>1 DEF TradeEnds
  <2> HIDE DEF V, new
  <2>4. order' \in [Orders -> Trades(V)] /\ \A p \in Orders : IsTrade(order'[p], Len(holdings))
    BY <2>1, <2>2, <2>3
  <2>5. Len(holdings') = Len(holdings)
    BY <1>10
  <2> QED BY <2>4, <2>5 DEF TradesTyped
<1>12. Int \subseteq V
  BY DEF Book
<1> HIDE DEF V
<1> QED BY <1>10, <1>11, <1>12 DEF BookInv

LEMMA BookStep == BookInv /\ [BookNext]_bookVars => BookInv'
<1> SUFFICES ASSUME BookInv, [BookNext]_bookVars PROVE BookInv'
  OBVIOUS
<1>1. PICK W : Book(W)
  BY DEF BookInv, Book
<1>2. CASE UNCHANGED bookVars
  BY <1>2 DEF bookVars, BookInv, RowsHold, TradesTyped
<1>3. ASSUME NEW p \in Prices PROVE Frac(p, 1) \in Costs /\ NoCost \in Costs
  BY BookAssumption, MoneyTypes DEF Costs
<1>4. CASE \E s \in Holdables, t \in BookTypes, sh \in {0, 1}, p \in Prices :
               AddEtf(s, t, sh, Frac(p, 1))
  <2>1. PICK s \in Holdables, t \in BookTypes, sh \in {0, 1}, p \in Prices :
                AddEtf(s, t, sh, Frac(p, 1))
    BY <1>4
  <2>2. sh \in Int /\ Frac(p, 1) \in Costs
    BY <1>3
  <2> QED BY <1>1, <2>1, <2>2, AddStays
<1>5. CASE \E s \in Holdables, sh \in {-1, 0, 1}, p \in Prices :
               SetHolding(s, sh, Frac(p, 1)) \/ (sh # -1 /\ SetHolding(s, sh, NoCost))
  <2>1. PICK s \in Holdables, sh \in {-1, 0, 1}, p \in Prices :
                SetHolding(s, sh, Frac(p, 1)) \/ SetHolding(s, sh, NoCost)
    BY <1>5
  <2>2. sh \in Int /\ Frac(p, 1) \in Costs /\ NoCost \in Costs
    BY <1>3
  <2>3. CASE SetHolding(s, sh, Frac(p, 1))
    BY <1>1, <2>2, <2>3, SetStays
  <2>4. CASE SetHolding(s, sh, NoCost)
    BY <1>1, <2>2, <2>4, SetStays
  <2> QED BY <2>1, <2>3, <2>4
<1>6. CASE \E s \in Holdables : RemoveEtf(s)
  BY <1>1, <1>6, RemoveStays
<1>7. CASE \E q \in Orders, s \in Holdables, delta \in Deltas, p \in Prices :
               TradeBegins(q, s, delta, p)
  BY <1>1, <1>7, BeginStays
<1>8. CASE \E q \in Orders : TradeEnds(q) \/ TradeRefused(q)
  BY <1>1, <1>8, EndStays, RefusedStays
<1>9. CASE \E mode \in {"merge", "replace"}, f \in Files : ImportRows(mode, f)
  BY <1>1, <1>9, ImportStays
<1>10. CASE \E s \in Holdables, t \in BookTypes : ApplyDesign(s, t, 60)
  BY <1>1, <1>10, DesignStays
<1> QED BY <1>2, <1>4, <1>5, <1>6, <1>7, <1>8, <1>9, <1>10 DEF BookNext

\* Whatever the sequence of purchases, sales, edits, imports and designs, a row shows
\* what was paid for it less what was received, plus the gains that were reported,
\* unless a trade wrote it after it had changed (recompute_cost_after_trade).
THEOREM MoneyStays == BookSpec => []MoneyConserved
<1>1. BookInv => MoneyConserved
  BY DEF BookInv, RowsHold, MoneyConserved
<1> QED BY <1>1, BookStart, BookStep, PTL DEF BookSpec

-----------------------------------------------------------------------------
\* What an import in mode "replace" has done after k lines.
Replaced(f, k, st) ==
    /\ st.count = 0 <=> ReadLines(f, k) = {}
    /\ \A t \in BookTypes : SymbolsIn(f, k, t) \subseteq ShownAs(st.rows, t)
    /\ \A j \in ReadLines(f, k) : (\A i \in ReadLines(f, k) : j <= i)
                              => ShownAs(st.rows, f[j].type) = SymbolsIn(f, k, f[j].type)

LEMMA LastOf ==
    ASSUME NEW n \in Nat, NEW H, H \subseteq 1 .. n, H # {}
    PROVE  \E h \in H : \A j \in H : j <= h
<1> DEFINE R == {ss \in Nat \X Nat : ss[1] < ss[2]}  T == {n - i : i \in H}
<1>1. IsWellFoundedOn(R, Nat)
  BY NatLessThanWellFounded DEF OpToRel
<1>2. T \subseteq Nat /\ T # {}
  <2>1. \A i \in H : n - i \in Nat
    OBVIOUS
  <2> QED BY <2>1
<1>3. PICK m \in T : \A k \in T : ~ (<<k, m>> \in R)
  <2> HIDE DEF T, R
  <2> QED BY <1>1, <1>2, WFMin
<1>4. PICK h \in H : m = n - h
  OBVIOUS
<1>5. ASSUME NEW j \in H PROVE j <= h
  <2>1. n - j \in T /\ n - j \in Nat /\ m \in Nat
    BY <1>2
  <2>2. ~ (n - j < m)
    <3>1. ~ (<<n - j, m>> \in R)
      <4> HIDE DEF T, R
      <4> QED BY <1>3, <2>1
    <3> HIDE DEF T
    <3> QED BY <2>1, <3>1
  <2> HIDE DEF T
  <2> QED BY <1>4, <2>2
<1> QED BY <1>5

\* What rows show after one is added, and after one is written in place of a row of
\* its symbol and type.
Shows(row) == row.active = TRUE
LEMMA ShownAppend ==
    ASSUME NEW S, NEW rs \in Seq(S), NEW row, Shows(row), NEW t
    PROVE  ShownAs(Append(rs, row), t)
               = ShownAs(rs, t) \cup (IF t = row.type THEN {row.sym} ELSE {})
<1> DEFINE n == Len(rs)  r2 == Append(rs, row)
<1>1. /\ n \in Nat /\ DOMAIN rs = 1 .. n /\ DOMAIN r2 = 1 .. n + 1 /\ r2[n + 1] = row
      /\ \A i \in 1 .. n : r2[i] = rs[i]
  OBVIOUS
<1>2. 1 .. n + 1 = (1 .. n) \cup {n + 1}
  BY <1>1
<1>3. ListedAs(r2, t) = ListedAs(rs, t) \cup (IF t = row.type THEN {n + 1} ELSE {})
  <2>1. n + 1 \notin 1 .. n
    BY <1>1
  <2> HIDE DEF n, r2
  <2> QED BY <1>1, <1>2, <2>1 DEF ListedAs, Shows
<1>4. \A i \in ListedAs(rs, t) : r2[i] = rs[i]
  <2> HIDE DEF n, r2
  <2> QED BY <1>1 DEF ListedAs
<1> HIDE DEF n, r2
<1> QED BY <1>1, <1>3, <1>4 DEF ShownAs, r2

LEMMA ShownPut ==
    ASSUME NEW S, NEW rs \in Seq(S), NEW row, Shows(row), NEW h \in ListedAs(rs, row.type),
           rs[h].sym = row.sym, NEW t
    PROVE  ShownAs(Put(rs, h, row), t)
               = ShownAs(rs, t) \cup (IF t = row.type THEN {row.sym} ELSE {})
<1> DEFINE r2 == [rs EXCEPT ![h] = row]
<1>1. /\ DOMAIN r2 = DOMAIN rs /\ h \in DOMAIN rs /\ r2[h] = row
      /\ rs[h].active /\ rs[h].type = row.type
      /\ \A i \in DOMAIN rs : i # h => r2[i] = rs[i]
  BY DEF ListedAs
<1> HIDE DEF r2
<1>2. \A i \in DOMAIN rs : r2[i].sym = rs[i].sym /\ r2[i].type = rs[i].type
                           /\ (r2[i].active <=> rs[i].active)
  BY <1>1 DEF Shows
<1>3. ListedAs(r2, t) = ListedAs(rs, t)
  BY <1>1, <1>2 DEF ListedAs
<1>4. ShownAs(r2, t) = ShownAs(rs, t)
  BY <1>2, <1>3 DEF ShownAs, ListedAs
<1>5. t = row.type => row.sym \in ShownAs(rs, t)
  BY DEF ShownAs
<1> QED BY <1>4, <1>5 DEF r2, Put

LEMMA ReadStep ==
    ASSUME NEW f, NEW k \in Nat \ {0}
    PROVE  /\ f[k].ok => /\ ReadLines(f, k) = ReadLines(f, k - 1) \cup {k}
                         /\ \A t : SymbolsIn(f, k, t) = SymbolsIn(f, k - 1, t)
                               \cup (IF t = f[k].type THEN {f[k].sym} ELSE {})
           /\ ~ f[k].ok => /\ ReadLines(f, k) = ReadLines(f, k - 1)
                           /\ \A t : SymbolsIn(f, k, t) = SymbolsIn(f, k - 1, t)
           /\ \A j \in ReadLines(f, k - 1) : j < k
<1>1. 1 .. k = (1 .. k - 1) \cup {k}
  OBVIOUS
<1>2. /\ f[k].ok => ReadLines(f, k) = ReadLines(f, k - 1) \cup {k}
      /\ ~ f[k].ok => ReadLines(f, k) = ReadLines(f, k - 1)
  BY <1>1 DEF ReadLines
<1>3. /\ f[k].ok => \A t : SymbolsIn(f, k, t) = SymbolsIn(f, k - 1, t)
                              \cup (IF t = f[k].type THEN {f[k].sym} ELSE {})
      /\ ~ f[k].ok => \A t : SymbolsIn(f, k, t) = SymbolsIn(f, k - 1, t)
  BY <1>2 DEF SymbolsIn
<1>4. \A j \in ReadLines(f, k - 1) : j < k
  BY DEF ReadLines
<1> QED BY <1>2, <1>3, <1>4

\* What a line does to what the rows show: the first that can be read empties its
\* type, and each that can adds its symbol.
LEMMA ShownStep ==
    ASSUME NEW W, 10 \in W, NEW m \in Nat, NEW st \in States(W, m), NEW line \in Lines, line.ok
    PROVE  /\ Imported("replace", st, line).count = st.count + 1
           /\ \A t : ShownAs(Imported("replace", st, line).rows, t)
                 = (IF st.count = 0 /\ t = line.type THEN {} ELSE ShownAs(st.rows, t))
                   \cup (IF t = line.type THEN {line.sym} ELSE {})
<1> DEFINE old == IF st.count = 0 THEN ListedAs(st.rows, line.type) ELSE {}
           kept == [i \in DOMAIN st.rows |->
                      [st.rows[i] EXCEPT !.active = @ /\ i \notin old]]
           new == NewRow(line.sym, line.type, 10, line.shares, line.cost)
           hits == {i \in ListedAs(kept, line.type) : kept[i].sym = line.sym}
           h == CHOOSE i \in hits : \A j \in hits : j <= i
           rows == IF hits = {} THEN Append(kept, new) ELSE [kept EXCEPT ![h] = new]
           n == Len(st.rows)
<1>1. Imported("replace", st, line) = [rows |-> rows, count |-> st.count + 1]
  BY DEF Imported
<1>2. Shows(new) /\ new.sym = line.sym /\ new.type = line.type
  BY DEF Shows, NewRow
<1>3. n \in Nat /\ DOMAIN st.rows = 1 .. n /\ \A i \in 1 .. n : st.rows[i] \in Rows(W)
  BY DEF States
<1>4. kept \in Seq(Rows(W)) /\ DOMAIN kept = 1 .. n
      /\ \A i \in 1 .. n : /\ kept[i].sym = st.rows[i].sym /\ kept[i].type = st.rows[i].type
                           /\ kept[i].active <=> (st.rows[i].active /\ i \notin old)
  <2>1. ASSUME NEW i \in 1 .. n
        PROVE  /\ kept[i] \in Rows(W)
               /\ kept[i].sym = st.rows[i].sym /\ kept[i].type = st.rows[i].type
               /\ kept[i].active <=> (st.rows[i].active /\ i \notin old)
    <3>1. st.rows[i] \in Rows(W) /\ (st.rows[i].active /\ i \notin old) \in BOOLEAN
      BY <1>3
    <3>2. kept[i] = [st.rows[i] EXCEPT !.active = st.rows[i].active /\ i \notin old]
      <4> HIDE DEF old
      <4> QED BY <1>3
    <3> HIDE DEF old, kept
    <3> QED BY <3>1, <3>2 DEF Rows
  <2>2. kept \in [1 .. n -> Rows(W)]
    <3>1. kept = [i \in 1 .. n |-> kept[i]]
      BY <1>3
    <3> HIDE DEF kept, n
    <3> QED BY <2>1, <3>1
  <2> HIDE DEF kept, old, n
  <2> QED BY <1>3, <2>1, <2>2
<1>5. \A t : ShownAs(kept, t)
                 = IF st.count = 0 /\ t = line.type THEN {} ELSE ShownAs(st.rows, t)
  <2> TAKE t
  <2>1. CASE st.count = 0 /\ t = line.type
    <3>1. old = ListedAs(st.rows, t)
      BY <2>1
    <3>2. ListedAs(kept, t) = {}
      <4> HIDE DEF kept, old, n
      <4> QED BY <1>3, <1>4, <3>1 DEF ListedAs
    <3> HIDE DEF kept
    <3> QED BY <2>1, <3>2 DEF ShownAs
  <2>2. CASE ~ (st.count = 0 /\ t = line.type)
    <3>1. \A i \in ListedAs(st.rows, t) : i \notin old
      BY <2>2 DEF ListedAs
    <3>2. ListedAs(kept, t) = ListedAs(st.rows, t)
      <4> HIDE DEF kept, old, n
      <4> QED BY <1>3, <1>4, <3>1 DEF ListedAs
    <3>3. \A i \in ListedAs(st.rows, t) : kept[i].sym = st.rows[i].sym
      <4> HIDE DEF kept, old, n
      <4> QED BY <1>3, <1>4 DEF ListedAs
    <3> HIDE DEF kept
    <3> QED BY <2>2, <3>2, <3>3 DEF ShownAs
  <2> QED BY <2>1, <2>2
<1>6. \A t : ShownAs(rows, t) = ShownAs(kept, t) \cup (IF t = line.type THEN {line.sym} ELSE {})
  <2> TAKE t
  <2>1. CASE hits = {}
    <3> HIDE DEF kept, new, hits
    <3>1. ShownAs(Append(kept, new), t)
              = ShownAs(kept, t) \cup (IF t = new.type THEN {new.sym} ELSE {})
      BY <1>2, <1>4, ShownAppend
    <3> QED BY <1>2, <2>1, <3>1
  <2>2. CASE hits # {}
    <3>1. hits \subseteq 1 .. n
      <4> HIDE DEF kept, n
      <4> QED BY <1>4 DEF ListedAs
    <3>2. \E i \in hits : \A j \in hits : j <= i
      <4> HIDE DEF hits, n
      <4> QED BY <1>3, <2>2, <3>1, LastOf
    <3>3. h \in hits
      <4> HIDE DEF hits
      <4> QED BY <3>2
    <3>4. h \in ListedAs(kept, new.type) /\ kept[h].sym = new.sym
      <4> HIDE DEF h, kept, new
      <4> QED BY <1>2, <3>3
    <3> HIDE DEF kept, new, hits, h
    <3>5. ShownAs(Put(kept, h, new), t)
              = ShownAs(kept, t) \cup (IF t = new.type THEN {new.sym} ELSE {})
      BY <1>2, <1>4, <3>4, ShownPut
    <3>6. rows = Put(kept, h, new)
      BY <2>2 DEF Put
    <3> HIDE DEF rows
    <3> QED BY <1>2, <3>5, <3>6
  <2> QED BY <2>1, <2>2
<1> HIDE DEF rows, kept
<1> QED BY <1>1, <1>5, <1>6

LEMMA ReplacedStep ==
    ASSUME NEW W, 10 \in W, NEW m \in Nat, NEW st \in States(W, m), NEW f \in Seq(Lines),
           NEW k \in 1 .. Len(f), Replaced(f, k - 1, st)
    PROVE  Replaced(f, k, Imported("replace", st, f[k]))
<1> DEFINE new == Imported("replace", st, f[k])  a == ReadLines(f, k - 1)  b == ReadLines(f, k)
<1>1. k \in Nat \ {0} /\ f[k] \in Lines /\ st.count \in Nat
  BY DEF States
<1>2. f[k].ok \in BOOLEAN /\ f[k].type \in BookTypes
  BY <1>1 DEF Lines
<1>3. ASSUME ~ f[k].ok PROVE Replaced(f, k, new)
  <2>1. new = st
    BY <1>3 DEF Imported
  <2>2. b = a /\ \A t : SymbolsIn(f, k, t) = SymbolsIn(f, k - 1, t)
    BY <1>1, <1>3, ReadStep
  <2> HIDE DEF new
  <2> QED BY <2>1, <2>2 DEF Replaced
<1>4. ASSUME f[k].ok PROVE Replaced(f, k, new)
  <2>1. /\ new.count = st.count + 1
        /\ \A t : ShownAs(new.rows, t)
              = (IF st.count = 0 /\ t = f[k].type THEN {} ELSE ShownAs(st.rows, t))
                \cup (IF t = f[k].type THEN {f[k].sym} ELSE {})
    BY <1>1, <1>4, ShownStep
  <2>2. /\ b = a \cup {k} /\ \A j \in a : j < k
        /\ \A t : SymbolsIn(f, k, t)
              = SymbolsIn(f, k - 1, t) \cup (IF t = f[k].type THEN {f[k].sym} ELSE {})
    BY <1>1, <1>4, ReadStep
  <2> HIDE DEF new
  <2>3. new.count # 0 /\ b # {}
    BY <1>1, <2>1, <2>2
  <2>4. CASE a = {}
    <3>1. st.count = 0 /\ b = {k} /\ \A t : SymbolsIn(f, k - 1, t) = {}
      BY <2>2, <2>4 DEF Replaced, SymbolsIn
    <3>2. \A t \in BookTypes : SymbolsIn(f, k, t) \subseteq ShownAs(new.rows, t)
      BY <2>1, <2>2, <3>1
    <3>3. ShownAs(new.rows, f[k].type) = SymbolsIn(f, k, f[k].type)
      BY <2>1, <2>2, <3>1
    <3> QED BY <2>3, <3>1, <3>2, <3>3 DEF Replaced
  <2>5. CASE a # {}
    <3>1. /\ st.count # 0
          /\ \A t \in BookTypes : SymbolsIn(f, k - 1, t) \subseteq ShownAs(st.rows, t)
          /\ \A j \in a : (\A i \in a : j <= i)
                           => ShownAs(st.rows, f[j].type) = SymbolsIn(f, k - 1, f[j].type)
      BY <2>5 DEF Replaced
    <3>2. \A t : ShownAs(new.rows, t)
                     = ShownAs(st.rows, t) \cup (IF t = f[k].type THEN {f[k].sym} ELSE {})
      BY <2>1, <3>1
    <3>3. \A t \in BookTypes : SymbolsIn(f, k, t) \subseteq ShownAs(new.rows, t)
      BY <2>2, <3>1, <3>2
    <3>4. ASSUME NEW j \in b, \A i \in b : j <= i
          PROVE  ShownAs(new.rows, f[j].type) = SymbolsIn(f, k, f[j].type)
      <4>1. j # k
        BY <1>1, <2>2, <2>5, <3>4 DEF ReadLines
      <4>2. j \in a /\ \A i \in a : j <= i
        BY <2>2, <3>4, <4>1
      <4>3. ShownAs(st.rows, f[j].type) = SymbolsIn(f, k - 1, f[j].type)
        BY <3>1, <4>2
      <4> HIDE DEF a, b
      <4> QED BY <2>2, <3>2, <4>3
    <3> HIDE DEF a
    <3> QED BY <2>3, <3>3, <3>4 DEF Replaced
  <2> QED BY <2>4, <2>5
<1> QED BY <1>2, <1>3, <1>4

LEMMA FileReplaces ==
    ASSUME NEW W, Book(W), NEW f \in Files
    PROVE  Replaced(f, Len(f), AfterLines("replace", f)[Len(f)])
<1> DEFINE n == Len(f)  A == AfterLines("replace", f)  P == {k \in 0 .. n : Replaced(f, k, A[k])}
<1>1. f \in Seq(Lines) /\ n \in Nat /\ 10 \in W /\ Len(holdings) \in Nat
      /\ holdings \in Seq(Rows(W))
  BY BookAssumption, BookFacts DEF Book
<1>2. /\ A[0] = [rows |-> holdings, count |-> 0]
      /\ \A k \in 1 .. n : A[k] = Imported("replace", A[k - 1], f[k])
      /\ \A k \in 0 .. n : A[k] \in States(W, Len(holdings))
  BY <1>1, AfterLinesType
<1>3. 0 \in P
  <2>1. ReadLines(f, 0) = {} /\ A[0].count = 0 /\ 0 \in 0 .. n
    <3> HIDE DEF A
    <3> QED BY <1>1, <1>2 DEF ReadLines
  <2>2. \A t : SymbolsIn(f, 0, t) = {}
    BY <2>1 DEF SymbolsIn
  <2> HIDE DEF A
  <2> QED BY <2>1, <2>2 DEF Replaced
<1>4. ASSUME NEW k \in 1 .. n, k - 1 \in P PROVE k \in P
  <2>1. k - 1 \in 0 .. n /\ Replaced(f, k - 1, A[k - 1])
    BY <1>4
  <2>2. A[k - 1] \in States(W, Len(holdings)) /\ A[k] = Imported("replace", A[k - 1], f[k])
    <3> HIDE DEF A
    <3> QED BY <1>2, <2>1
  <2> DEFINE st == A[k - 1]
  <2>3. Replaced(f, k, Imported("replace", st, f[k]))
    <3> HIDE DEF st
    <3> QED BY <1>1, <2>1, <2>2, ReplacedStep DEF st
  <2>4. Replaced(f, k, A[k]) /\ k \in 0 .. n
    <3> HIDE DEF A
    <3> QED BY <2>2, <2>3
  <2> QED BY <2>4
<1>5. 0 .. n \subseteq P
  <2> HIDE DEF P, n
  <2> QED BY <1>1, <1>3, <1>4, UpTo
<1> QED BY <1>1, <1>5

\* An import in mode "replace" leaves, of the type of the first line that can be read,
\* exactly the symbols of the file, and of every type at least those, whatever was in
\* the book and however long the file is (import_portfolio).
THEOREM ImportReplaces == BookSpec => ReplaceReplaces
<1> DEFINE Leaves(f) ==
              /\ \A t \in BookTypes : SymbolsIn(f, Len(f), t) \subseteq ShownAs(holdings', t)
              /\ \A k \in ReadLines(f, Len(f)) :
                    (\A j \in ReadLines(f, Len(f)) : k <= j)
                    => ShownAs(holdings', f[k].type) = SymbolsIn(f, Len(f), f[k].type)
           Replaces == \A f \in Files : ImportRows("replace", f) => Leaves(f)
<1>1. BookInv => Replaces
  <2> SUFFICES ASSUME BookInv, NEW f \in Files, ImportRows("replace", f) PROVE Leaves(f)
    OBVIOUS
  <2>1. PICK W : Book(W)
    BY DEF BookInv, Book
  <2> DEFINE st == AfterLines("replace", f)[Len(f)]
  <2>2. Replaced(f, Len(f), st) /\ holdings' = st.rows
    BY <2>1, FileReplaces DEF ImportRows
  <2> HIDE DEF st
  <2> QED BY <2>2 DEF Replaced
<1>2. BookInv /\ [BookNext]_bookVars => [Replaces]_bookVars
  BY <1>1
<1>3. ReplaceReplaces <=> [][Replaces]_bookVars
  BY DEF ReplaceReplaces
<1> HIDE DEF Replaces
<1> QED BY <1>2, <1>3, BookStart, BookStep, PTL DEF BookSpec
=============================================================================
