------------------------ MODULE ApplicationStateProofs ------------------------
(***************************************************************************)
(* Theorems about the running application, for every set of events, every  *)
(* bound and every order of the runtime's expiry tasks.                    *)
(***************************************************************************)
EXTENDS ApplicationState, SessionReducerProofs

\* The cards of a session and what it was notified of.
CardMatches(ns, s, latest) ==
    \/ OfSession(ns, s) = {} /\ latest = [time |-> 0, id |-> 0]
    \/ \E n \in ns : OfSession(ns, s) = {n} /\ latest = [time |-> n.time, id |-> n.id]

CardsMatch(ns, latest) == \A s \in Session : CardMatches(ns, s, latest[s])

\* The part of the inductive invariant that types and cards need.
CardInv ==
    /\ TypeOK
    /\ CardsMatch(reducer.notifications, newest)
    /\ OneCard(stored.notifications)

LEMMA CardsMatchOneCard ==
    ASSUME NEW ns \in SUBSET Notification, NEW latest, CardsMatch(ns, latest)
    PROVE  OneCard(ns)
<1>1. SUFFICES ASSUME NEW m \in ns, NEW n \in ns, m.session = n.session PROVE m = n
  BY DEF OneCard
<1>2. m.session \in Session
  BY DEF Notification
<1>3. m \in OfSession(ns, m.session) /\ n \in OfSession(ns, m.session)
  BY <1>1 DEF OfSession
<1>4. CardMatches(ns, m.session, latest[m.session])
  BY <1>2 DEF CardsMatch
<1>5. PICK k \in ns : OfSession(ns, m.session) = {k}
  BY <1>3, <1>4 DEF CardMatches
<1>6. QED
  BY <1>3, <1>5

\* What a session is newly notified of, when it has at most one card.
LEMMA NewestOfCases ==
    ASSUME NEW ns \in SUBSET Notification, NEW base \in [Session -> [time : Nat, id : Nat]],
           OneCard(ns)
    PROVE  /\ NewestOf(ns, base) \in [Session -> [time : Nat, id : Nat]]
           /\ \A s \in Session :
                 /\ OfSession(ns, s) = {} => NewestOf(ns, base)[s] = base[s]
                 /\ \A n \in OfSession(ns, s) :
                       /\ OfSession(ns, s) = {n}
                       /\ NewestOf(ns, base)[s] = IF Before(base[s], n)
                                                  THEN [time |-> n.time, id |-> n.id]
                                                  ELSE base[s]
<1> DEFINE latest(s) ==
      LET newer == {n \in OfSession(ns, s) : Before(base[s], n)} IN
      IF newer = {} THEN base[s]
      ELSE LET n == CHOOSE n \in newer : \A m \in newer : ~Before(n, m)
           IN  [time |-> n.time, id |-> n.id]
<1>1. NewestOf(ns, base) = [s \in Session |-> latest(s)]
  BY DEF NewestOf
<1>2. ASSUME NEW s \in Session
      PROVE  /\ OfSession(ns, s) = {} => latest(s) = base[s]
             /\ \A n \in OfSession(ns, s) :
                   /\ OfSession(ns, s) = {n}
                   /\ latest(s) = IF Before(base[s], n) THEN [time |-> n.time, id |-> n.id]
                                  ELSE base[s]
  <2>1. CASE OfSession(ns, s) = {}
    BY <2>1
  <2>2. CASE OfSession(ns, s) # {}
    <3>1. SUFFICES ASSUME NEW n \in OfSession(ns, s)
                   PROVE  /\ OfSession(ns, s) = {n}
                          /\ latest(s) = IF Before(base[s], n)
                                         THEN [time |-> n.time, id |-> n.id] ELSE base[s]
      BY <2>2
    <3>2. OfSession(ns, s) = {n}
      BY DEF OneCard, OfSession
    <3>3. n \in Notification
      BY DEF OfSession
    <3>4. ~Before(n, n)
      BY <3>3 DEF Before, Notification
    <3>5. CASE Before(base[s], n)
      <4>1. {m \in OfSession(ns, s) : Before(base[s], m)} = {n}
        BY <3>2, <3>5
      <4>2. (CHOOSE k \in {n} : \A m \in {n} : ~Before(k, m)) = n
        BY <3>4
      <4>3. QED
        BY <3>2, <3>5, <4>1, <4>2
    <3>6. CASE ~Before(base[s], n)
      <4>1. {m \in OfSession(ns, s) : Before(base[s], m)} = {}
        BY <3>2, <3>6
      <4>2. QED
        BY <3>2, <3>6, <4>1
    <3>7. QED
      BY <3>5, <3>6
  <2>3. QED
    BY <2>1, <2>2
<1> HIDE DEF latest
<1>3. ASSUME NEW s \in Session PROVE latest(s) \in [time : Nat, id : Nat]
  <2>1. CASE OfSession(ns, s) = {}
    BY <1>2, <2>1
  <2>2. CASE OfSession(ns, s) # {}
    <3>1. PICK n \in OfSession(ns, s) : TRUE
      BY <2>2
    <3>2. n.time \in Nat /\ n.id \in Nat
      BY DEF OfSession, Notification
    <3>3. QED
      BY <1>2, <3>2
  <2>3. QED
    BY <2>1, <2>2
<1>4. QED
  BY <1>1, <1>2, <1>3

\* Every card is remembered as the newest of its session, if none was older than
\* what was remembered before.
LEMMA NewestFollows ==
    ASSUME NEW ns \in SUBSET Notification, NEW base \in [Session -> [time : Nat, id : Nat]],
           OneCard(ns),
           \A s \in Session : OfSession(ns, s) = {} => base[s] = [time |-> 0, id |-> 0],
           \A n \in ns : ~Before(n, base[n.session])
    PROVE  CardsMatch(ns, NewestOf(ns, base))
<1> DEFINE latest == NewestOf(ns, base)
<1>1. SUFFICES ASSUME NEW s \in Session PROVE CardMatches(ns, s, latest[s])
  BY DEF CardsMatch
<1>2. /\ OfSession(ns, s) = {} => latest[s] = base[s]
      /\ \A n \in OfSession(ns, s) :
            /\ OfSession(ns, s) = {n}
            /\ latest[s] = IF Before(base[s], n) THEN [time |-> n.time, id |-> n.id]
                           ELSE base[s]
  BY NewestOfCases
<1> HIDE DEF latest
<1>3. CASE OfSession(ns, s) = {}
  BY <1>2, <1>3 DEF CardMatches
<1>4. CASE OfSession(ns, s) # {}
  <2>1. PICK n \in OfSession(ns, s) : TRUE
    BY <1>4
  <2>2. n \in ns /\ n.session = s /\ n \in Notification
    BY DEF OfSession
  <2>3. ~Before(n, base[s])
    BY <2>2
  <2>4. CASE Before(base[s], n)
    BY <1>2, <2>2, <2>4 DEF CardMatches
  <2>5. CASE ~Before(base[s], n)
    <3>1. base[s] \in [time : Nat, id : Nat] /\ n.time \in Nat /\ n.id \in Nat
      BY <2>2 DEF Notification
    <3>2. base[s].time = n.time /\ base[s].id = n.id
      BY <2>3, <2>5, <3>1 DEF Before
    <3>3. base[s] = [time |-> n.time, id |-> n.id]
      BY <3>1, <3>2
    <3>4. QED
      BY <1>2, <2>2, <2>5, <3>3 DEF CardMatches
  <2>6. QED
    BY <2>4, <2>5
<1>5. QED
  BY <1>3, <1>4

\* The card a matching session has is not older than what is remembered.
LEMMA CardsMatchOrder ==
    ASSUME NEW ns \in SUBSET Notification, NEW latest \in [Session -> [time : Nat, id : Nat]],
           CardsMatch(ns, latest)
    PROVE  /\ \A s \in Session : OfSession(ns, s) = {} => latest[s] = [time |-> 0, id |-> 0]
           /\ \A n \in ns : latest[n.session] = [time |-> n.time, id |-> n.id]
<1>1. ASSUME NEW s \in Session, OfSession(ns, s) = {}
      PROVE  latest[s] = [time |-> 0, id |-> 0]
  BY <1>1 DEF CardsMatch, CardMatches
<1>2. ASSUME NEW n \in ns PROVE latest[n.session] = [time |-> n.time, id |-> n.id]
  <2>1. n.session \in Session /\ n \in OfSession(ns, n.session)
    BY DEF Notification, OfSession
  <2>2. PICK k \in ns : /\ OfSession(ns, n.session) = {k}
                        /\ latest[n.session] = [time |-> k.time, id |-> k.id]
    BY <2>1 DEF CardsMatch, CardMatches
  <2>3. k = n
    BY <2>1, <2>2
  <2>4. QED
    BY <2>2, <2>3
<1>3. QED
  BY <1>1, <1>2

\* Resolving attention changes no card's session, time or identity.
LEMMA ResolvedCards ==
    ASSUME NEW r \in Reducer, NEW e \in Event
    PROVE  /\ \A m \in ResolvedAfter(r, e) : \E n \in r.notifications :
                 m.session = n.session /\ m.time = n.time /\ m.id = n.id
           /\ \A n \in r.notifications : \E m \in ResolvedAfter(r, e) :
                 m.session = n.session /\ m.time = n.time /\ m.id = n.id
<1>1. \A n \in r.notifications : n \in Notification
  BY DEF Reducer
<1>2. \A n \in r.notifications :
        LET m == [n EXCEPT !.state = "resolved"]
        IN  m.session = n.session /\ m.time = n.time /\ m.id = n.id
  BY <1>1 DEF Notification
<1>3. QED
  BY <1>2 DEF ResolvedAfter, ResolveAttention

LEMMA AppliedCards ==
    ASSUME NEW r \in Reducer, NEW e \in Event,
           NEW latest \in [Session -> [time : Nat, id : Nat]],
           CardsMatch(r.notifications, latest)
    PROVE  CardsMatch(InsertedAfter(r, e), NewestOf(InsertedAfter(r, e), latest))
<1> DEFINE old == r.notifications
           resolved == ResolvedAfter(r, e)
           ns == InsertedAfter(r, e)
<1>1. old \in SUBSET Notification /\ resolved \in SUBSET Notification
      /\ ns \in SUBSET Notification
  BY ResolvedAfterType, InsertedAfterType DEF Reducer
<1>2. OneCard(ns)
  BY CardsMatchOneCard, InsertedAfterOneCard, <1>1
<1>3. /\ \A s \in Session : OfSession(old, s) = {} => latest[s] = [time |-> 0, id |-> 0]
      /\ \A n \in old : latest[n.session] = [time |-> n.time, id |-> n.id]
  BY CardsMatchOrder, <1>1
<1>4. /\ \A m \in resolved : \E n \in old :
           m.session = n.session /\ m.time = n.time /\ m.id = n.id
      /\ \A n \in old : \E m \in resolved :
           m.session = n.session /\ m.time = n.time /\ m.id = n.id
  BY ResolvedCards
<1>5. \/ ns = resolved
      \/ \E n \in Notification :
            /\ \A m \in OfSession(resolved, e.session) : Before(m, e)
            /\ ns = (resolved \ OfSession(resolved, e.session)) \cup {n}
            /\ n.session = e.session /\ n.time = e.time /\ n.id = e.id
  <2>1. CASE ~Notifies(e)
    BY <2>1 DEF InsertedAfter
  <2>2. CASE Notifies(e)
    <3>1. ns = InsertNotification(resolved, e) /\ e.type \notin SessionEvent
      BY <2>2, NotifyingEventIsTurnEvent DEF InsertedAfter
    <3> HIDE DEF resolved, ns
    <3>2. resolved \in SUBSET Notification
      BY <1>1
    <3>3. \/ InsertNotification(resolved, e) = resolved
          \/ \E n \in Notification :
                /\ \A m \in OfSession(resolved, e.session) : Before(m, e)
                /\ InsertNotification(resolved, e)
                      = (resolved \ OfSession(resolved, e.session)) \cup {n}
                /\ n.session = e.session /\ n.time = e.time /\ n.id = e.id
                /\ n.turn = e.turn /\ n.state = "unread"
                /\ n.kind = NotificationKind(e.type)
      BY <3>1, <3>2, InsertNotificationCases
    <3>4. QED
      BY <3>1, <3>3
  <2>3. QED
    BY <2>1, <2>2
<1> HIDE DEF old, resolved, ns
<1>6. ASSUME NEW m \in resolved PROVE latest[m.session] = [time |-> m.time, id |-> m.id]
  BY <1>3, <1>4
<1>7. ASSUME NEW m \in resolved PROVE ~Before(m, latest[m.session])
  <2>1. m.time \in Nat /\ m.id \in Nat
    BY <1>1 DEF Notification
  <2>2. latest[m.session] = [time |-> m.time, id |-> m.id]
    BY <1>6
  <2>3. latest[m.session].time = m.time /\ latest[m.session].id = m.id
    BY <2>2
  <2>4. QED
    BY <2>1, <2>3 DEF Before
<1>8. ASSUME NEW s \in Session, OfSession(resolved, s) = {}
      PROVE  latest[s] = [time |-> 0, id |-> 0]
  <2>1. OfSession(old, s) = {}
    BY <1>4, <1>8 DEF OfSession
  <2>2. QED
    BY <1>3, <2>1
<1>9. CASE ns = resolved
  <2>1. \A s \in Session : OfSession(ns, s) = {} => latest[s] = [time |-> 0, id |-> 0]
    BY <1>8, <1>9
  <2>2. \A n \in ns : ~Before(n, latest[n.session])
    BY <1>7, <1>9
  <2>3. CardsMatch(ns, NewestOf(ns, latest))
    BY <1>1, <1>2, <2>1, <2>2, NewestFollows
  <2>4. QED
    BY <2>3 DEF ns
<1>10. CASE ns # resolved
  <2>1. PICK n \in Notification :
          /\ \A m \in OfSession(resolved, e.session) : Before(m, e)
          /\ ns = (resolved \ OfSession(resolved, e.session)) \cup {n}
          /\ n.session = e.session /\ n.time = e.time /\ n.id = e.id
    BY <1>5, <1>10
  <2>2. n.time \in Nat /\ n.id \in Nat /\ n.session \in Session
    BY DEF Notification
  <2>3. \A s \in Session : OfSession(ns, s) = {} => latest[s] = [time |-> 0, id |-> 0]
    <3>1. SUFFICES ASSUME NEW s \in Session, OfSession(ns, s) = {}
                   PROVE  latest[s] = [time |-> 0, id |-> 0]
      OBVIOUS
    <3>2. s # n.session
      BY <2>1, <3>1 DEF OfSession
    <3>3. OfSession(resolved, s) = {}
      BY <2>1, <3>1, <3>2 DEF OfSession
    <3>4. QED
      BY <1>8, <3>3
  <2>4. ~Before(n, latest[n.session])
    <3>1. CASE OfSession(resolved, n.session) = {}
      <4>1. latest[n.session] = [time |-> 0, id |-> 0]
        BY <1>8, <2>2, <3>1
      <4>2. QED
        BY <2>2, <4>1 DEF Before
    <3>2. CASE OfSession(resolved, n.session) # {}
      <4>1. PICK m \in OfSession(resolved, n.session) : TRUE
        BY <3>2
      <4>2. Before(m, e) /\ m \in resolved /\ m.session = n.session
        BY <2>1, <4>1 DEF OfSession
      <4>3. latest[n.session] = [time |-> m.time, id |-> m.id]
        BY <1>6, <4>2
      <4>4. m.time \in Nat /\ m.id \in Nat
        BY <1>1, <4>2 DEF Notification
      <4>5. QED
        BY <2>1, <2>2, <4>2, <4>3, <4>4 DEF Before
    <3>3. QED
      BY <3>1, <3>2
  <2>5. \A m \in ns : ~Before(m, latest[m.session])
    BY <1>7, <2>1, <2>4
  <2>6. CardsMatch(ns, NewestOf(ns, latest))
    BY <1>1, <1>2, <2>3, <2>5, NewestFollows
  <2>7. QED
    BY <2>6 DEF ns
<1>11. QED
  BY <1>9, <1>10

\* What a session was notified of since the start covers the cards loaded then.
LEMMA RestoredCards ==
    ASSUME NEW ns \in SUBSET Notification, OneCard(ns)
    PROVE  CardsMatch(ns, NewestOf(ns, NothingNotified))
<1>1. NothingNotified \in [Session -> [time : Nat, id : Nat]]
  BY DEF NothingNotified
<1>2. \A s \in Session : NothingNotified[s] = [time |-> 0, id |-> 0]
  BY DEF NothingNotified
<1>3. ASSUME NEW n \in ns PROVE ~Before(n, NothingNotified[n.session])
  <2>1. n.time \in Nat /\ n.id \in Nat /\ n.session \in Session
    BY DEF Notification
  <2>2. QED
    BY <1>2, <2>1 DEF Before
<1>4. QED
  BY <1>1, <1>2, <1>3, NewestFollows

\* Acknowledging a card changes its state only.
LEMMA AcknowledgedCards ==
    ASSUME NEW ns \in SUBSET Notification, NEW n \in ns, NEW latest, CardsMatch(ns, latest)
    PROVE  CardsMatch((ns \ {n}) \cup {[n EXCEPT !.state = "acknowledged"]}, latest)
<1> DEFINE a == [n EXCEPT !.state = "acknowledged"]
           after == (ns \ {n}) \cup {a}
<1>1. a.session = n.session /\ a.time = n.time /\ a.id = n.id
  BY DEF Notification
<1> HIDE DEF a
<1>2. SUFFICES ASSUME NEW s \in Session PROVE CardMatches(after, s, latest[s])
  BY DEF CardsMatch, a
<1>3. CardMatches(ns, s, latest[s])
  BY DEF CardsMatch
<1>4. CASE s # n.session
  <2>1. OfSession(after, s) = OfSession(ns, s)
    BY <1>1, <1>4 DEF OfSession
  <2>2. OfSession(ns, s) \subseteq after
    BY <2>1 DEF OfSession
  <2>3. QED
    BY <1>3, <2>1, <2>2 DEF CardMatches
<1>5. CASE s = n.session
  <2>1. OfSession(ns, s) = {n} /\ latest[s] = [time |-> n.time, id |-> n.id]
    BY <1>3, <1>5 DEF CardMatches, OfSession
  <2>2. OfSession(after, s) = {a}
    BY <1>1, <1>5, <2>1 DEF OfSession
  <2>3. a \in after
    OBVIOUS
  <2>4. QED
    BY <1>1, <2>1, <2>2, <2>3 DEF CardMatches
<1>6. QED
  BY <1>4, <1>5

LEMMA PersistentCards ==
    ASSUME NEW r \in Reducer, OneCard(r.notifications)
    PROVE  OneCard(PersistentState(r).notifications)
<1>1. PersistentState(r).notifications \subseteq r.notifications
  BY DEF PersistentState, Unread
<1>2. QED
  BY <1>1 DEF OneCard

-----------------------------------------------------------------------------
(***************************************************************************)
(* Types, and one card per session that is its newest.                     *)
(***************************************************************************)
LEMMA CardInvInit == Init => CardInv
<1> SUFFICES ASSUME Init PROVE CardInv
  OBVIOUS
<1>1. reducer \in Reducer /\ reducer = EmptyReducer
  BY EmptyReducerType DEF Init
<1>2. stored \in Projection
  BY <1>1, PersistentStateType DEF Init
<1>3. newest \in [Session -> [time : Nat, id : Nat]]
  BY DEF Init, NothingNotified
<1>4. TypeOK
  BY <1>1, <1>2, <1>3 DEF Init, TypeOK, Reply
<1>5. reducer.notifications = {}
  BY <1>1 DEF EmptyReducer
<1>6. CardsMatch(reducer.notifications, newest)
  BY <1>5 DEF CardsMatch, CardMatches, OfSession, Init, NothingNotified
<1>7. OneCard(stored.notifications)
  BY <1>1, <1>5, PersistentCards DEF OneCard, Init
<1>8. QED
  BY <1>4, <1>6, <1>7 DEF CardInv

\* What a committed reducer and its projection look like.
LEMMA CommitStep ==
    ASSUME CardInv, NEW e \in Event, ApplyEvent(e)
    PROVE  LET r == Applied(reducer, e, now) IN
           /\ r \in Reducer
           /\ r.notifications = InsertedAfter(reducer, e)
           /\ Saves(r)
           /\ stored' = PersistentState(r)
           /\ reducer' = r \/ reducer' = RestartReminder(r, now)
           /\ reducer' \in Reducer
           /\ reducer'.notifications = r.notifications
           /\ newest' = NewestOf(r.notifications, newest)
<1> DEFINE r == Applied(reducer, e, now)
<1>1. ReduceAt(reducer, e, now) = r
  BY DEF ApplyEvent, ReduceAt
<1>2. r \in Reducer
  BY AppliedType DEF CardInv, TypeOK
<1>3. r.notifications = InsertedAfter(reducer, e)
  BY AppliedFields
<1>4. Saves(r) /\ Commit(r, e)
  BY <1>1 DEF ApplyEvent
<1> HIDE DEF r
<1>5. RestartReminder(r, now) \in Reducer
  BY <1>2, RestartReminderType DEF CardInv, TypeOK
<1>6. RestartReminder(r, now).notifications = r.notifications
  BY <1>2 DEF RestartReminder, Reducer
<1>7. /\ stored' = PersistentState(r)
      /\ reducer' = r \/ reducer' = RestartReminder(r, now)
      /\ newest' = NewestOf(r.notifications, newest)
  BY <1>4 DEF Commit, Observe
<1>8. QED
  BY <1>2, <1>3, <1>4, <1>5, <1>6, <1>7 DEF r

LEMMA CardInvNext == CardInv /\ [Next]_vars => CardInv'
<1> SUFFICES ASSUME CardInv, [Next]_vars PROVE CardInv'
  OBVIOUS
<1> USE DEF CardInv
<1>1. /\ reducer \in Reducer /\ stored \in Projection /\ now \in Nat
      /\ timers \in SUBSET Nat /\ restarts \in Nat
      /\ newest \in [Session -> [time : Nat, id : Nat]]
      /\ finished \in SUBSET (Session \X Turn) /\ dismissed \in SUBSET Nat
      /\ reducer.notifications \in SUBSET Notification
  BY DEF TypeOK, Reducer
<1>2. OneCard(reducer.notifications)
  BY <1>1, CardsMatchOneCard
<1>3. ASSUME NEW e \in Event, IgnoreEvent(e) PROVE CardInv'
  <2>1. reducer' \in Reducer
    BY <1>1, <1>3, ReduceAtType DEF IgnoreEvent
  <2>2. reducer'.notifications = reducer.notifications
    BY <1>1, <1>3 DEF IgnoreEvent, ReduceAt, Remembered, Reducer
  <2>3. reply' \in Reply
    BY <1>3 DEF IgnoreEvent, Reply
  <2>4. QED
    BY <1>1, <1>3, <2>1, <2>2, <2>3 DEF IgnoreEvent, TypeOK
<1>4. ASSUME NEW e \in Event, ApplyEvent(e) PROVE CardInv'
  <2> DEFINE r == Applied(reducer, e, now)
  <2>1. /\ r \in Reducer
        /\ r.notifications = InsertedAfter(reducer, e)
        /\ stored' = PersistentState(r)
        /\ reducer' \in Reducer
        /\ reducer'.notifications = r.notifications
        /\ newest' = NewestOf(r.notifications, newest)
    BY <1>4, CommitStep
  <2>2. CardsMatch(r.notifications, newest')
    BY <1>1, <2>1, AppliedCards
  <2>3. OneCard(r.notifications)
    BY <1>1, <1>2, <2>1, InsertedAfterOneCard
  <2>4. r.notifications \in SUBSET Notification
    BY <1>1, <2>1, InsertedAfterType
  <2> HIDE DEF r
  <2>5. newest' \in [Session -> [time : Nat, id : Nat]]
    BY <1>1, <2>1, <2>3, <2>4, NewestOfCases
  <2>6. stored' \in Projection /\ OneCard(stored'.notifications)
    BY <2>1, <2>3, PersistentStateType, PersistentCards
  <2>7. timers' \in SUBSET Nat /\ finished' \in SUBSET (Session \X Turn)
    <3>1. Commit(ReduceAt(reducer, e, now), e)
      BY <1>4 DEF ApplyEvent
    <3>2. timers' = timers \cup {now + ReminderDuration} \/ timers' = timers
      BY <3>1 DEF Commit
    <3>3. now + ReminderDuration \in Nat
      BY <1>1, BoundTypes
    <3>4. finished' = finished \cup FinishedIn(ReduceAt(reducer, e, now))
      BY <3>1 DEF Commit, Observe
    <3>5. FinishedIn(ReduceAt(reducer, e, now)) \subseteq Session \X Turn
      BY DEF FinishedIn
    <3>6. QED
      BY <1>1, <3>2, <3>3, <3>4, <3>5
  <2>8. UNCHANGED <<now, restarts, dismissed>> /\ reply' \in Reply
    BY <1>4 DEF ApplyEvent, Reply
  <2>9. QED
    BY <1>1, <2>1, <2>2, <2>5, <2>6, <2>7, <2>8 DEF TypeOK
<1>5. ASSUME NEW r, RollBack(r) PROVE CardInv'
  <2>1. reply' \in Reply
    BY <1>5 DEF RollBack, Reply
  <2>2. QED
    BY <1>1, <1>5, <2>1 DEF RollBack, TypeOK
<1>6. ASSUME NEW n \in reducer.notifications, Acknowledge(n) PROVE CardInv'
  <2> DEFINE r == AcknowledgeNotification(reducer, n, now)
  <2>1. r \in Reducer
    BY <1>1, AcknowledgeNotificationType
  <2>2. r.notifications
          = (reducer.notifications \ {n}) \cup {[n EXCEPT !.state = "acknowledged"]}
    BY <1>1 DEF AcknowledgeNotification, Reducer
  <2>3. CardsMatch(r.notifications, newest)
    BY <1>1, <2>2, AcknowledgedCards
  <2>4. n.id \in Nat
    BY <1>1 DEF Notification
  <2>5. reducer' = r /\ stored' = PersistentState(r)
    BY <1>6 DEF Acknowledge
  <2> HIDE DEF r
  <2>6. OneCard(r.notifications)
    BY <2>1, <2>3, CardsMatchOneCard DEF Reducer
  <2>7. stored' \in Projection /\ OneCard(stored'.notifications)
    BY <2>1, <2>5, <2>6, PersistentStateType, PersistentCards
  <2>8. QED
    BY <1>1, <1>6, <2>1, <2>3, <2>4, <2>5, <2>7 DEF Acknowledge, TypeOK, Reply
<1>7. ASSUME NEW d \in timers, ExpireReminder(d) PROVE CardInv'
  <2>1. reducer' \in Reducer
    BY <1>1, <1>7, AdvancePresentationType DEF ExpireReminder
  <2>2. reducer'.notifications = reducer.notifications
    BY <1>1, <1>7 DEF ExpireReminder, AdvancePresentation, Reducer
  <2>3. QED
    BY <1>1, <1>7, <2>1, <2>2 DEF ExpireReminder, TypeOK
<1>8. ASSUME Tick PROVE CardInv'
  BY <1>1, <1>8 DEF Tick, TypeOK
<1>9. ASSUME NEW p \in Projection, OneCard(p.notifications), StartFrom(p) PROVE CardInv'
  <2>1. reducer' \in Reducer /\ reducer' = FromPersistentState(p)
    BY <1>9, FromPersistentStateType DEF StartFrom
  <2>2. reducer'.notifications = p.notifications
    BY <2>1 DEF FromPersistentState
  <2>3. p.notifications \in SUBSET Notification
    BY DEF Projection
  <2>4. newest' = NewestOf(p.notifications, NothingNotified)
    BY <1>9 DEF StartFrom
  <2>5. CardsMatch(reducer'.notifications, newest')
    BY <1>9, <2>2, <2>3, <2>4, RestoredCards
  <2>6. NothingNotified \in [Session -> [time : Nat, id : Nat]]
    BY DEF NothingNotified
  <2>7. newest' \in [Session -> [time : Nat, id : Nat]]
    BY <1>9, <2>3, <2>4, <2>6, NewestOfCases
  <2>8. finished' \in SUBSET (Session \X Turn)
    BY <1>9 DEF StartFrom, FinishedIn
  <2>9. QED
    BY <1>1, <1>9, <2>1, <2>5, <2>7, <2>8 DEF StartFrom, TypeOK, Reply
<1>10. ASSUME CrashRestart PROVE CardInv'
  BY <1>1, <1>9, <1>10 DEF CrashRestart
<1>11. ASSUME ExitRestart PROVE CardInv'
  <2>1. PersistentState(reducer) \in Projection /\ OneCard(PersistentState(reducer).notifications)
    BY <1>1, <1>2, PersistentStateType, PersistentCards
  <2>2. QED
    BY <1>1, <1>9, <1>11, <2>1 DEF ExitRestart
<1>12. CASE UNCHANGED vars
  BY <1>1, <1>12 DEF vars, TypeOK
<1>13. QED
  BY <1>3, <1>4, <1>5, <1>6, <1>7, <1>8, <1>10, <1>11, <1>12
     DEF Next, ApplyEventFails, AcknowledgeFails

LEMMA CardInvariant == Spec => []CardInv
<1>1. QED
  BY CardInvInit, CardInvNext, PTL DEF Spec

\* Every variable keeps its type, whatever events are delivered: the reducer is
\* always a value of its Rust type.
THEOREM TypeCorrect == Spec => []TypeOK
<1>1. CardInv => TypeOK
  BY DEF CardInv
<1>2. QED
  BY <1>1, CardInvariant, PTL

\* "Lili retains only the latest notification for each (provider, sessionId)":
\* in whatever order and however often events come, through failed saves,
\* acknowledgements, crashes and restarts, a session has one card, its newest.
THEOREM OnlyLatestCard == Spec => []LatestCardOnly
<1>1. CardInv => LatestCardOnly
  <2>1. SUFFICES ASSUME CardInv, NEW n \in reducer.notifications
                 PROVE  /\ OfSession(reducer.notifications, n.session) = {n}
                        /\ [time |-> n.time, id |-> n.id] = newest[n.session]
    BY DEF LatestCardOnly
  <2>2. reducer.notifications \in SUBSET Notification
    BY <2>1 DEF CardInv, TypeOK, Reducer
  <2>3. n.session \in Session /\ n \in OfSession(reducer.notifications, n.session)
    BY <2>2 DEF Notification, OfSession
  <2>4. CardMatches(reducer.notifications, n.session, newest[n.session])
    BY <2>1, <2>3 DEF CardInv, CardsMatch
  <2>5. QED
    BY <2>3, <2>4 DEF CardMatches
<1>2. QED
  BY <1>1, CardInvariant, PTL

-----------------------------------------------------------------------------
(***************************************************************************)
(* The database holds the projection of the reducer.                       *)
(***************************************************************************)
Stable(p) ==
    LET again == PersistentState(FromPersistentState(p)) IN
    again.sessions = p.sessions /\ again.notifications = p.notifications

DurableInv ==
    /\ CardInv
    /\ DurableIsCurrent
    /\ Stable(stored)

LEMMA DurableInvInit == Init => DurableInv
<1> SUFFICES ASSUME Init PROVE DurableInv
  OBVIOUS
<1>1. CardInv
  BY CardInvInit
<1>2. reducer = EmptyReducer /\ stored = PersistentState(EmptyReducer)
  BY DEF Init
<1>3. EmptyReducer \in Reducer /\ OneCard(EmptyReducer.notifications)
  BY EmptyReducerType DEF EmptyReducer, OneCard
<1>4. Stable(stored)
  BY <1>2, <1>3, RestoreIsStable DEF Stable
<1>5. stored.revision = 0 /\ PersistentState(reducer).revision = 0
  BY <1>2 DEF PersistentState, EmptyReducer
<1>6. DurableIsCurrent
  BY <1>2, <1>5 DEF DurableIsCurrent
<1>7. QED
  BY <1>1, <1>4, <1>6 DEF DurableInv

\* A step that changes neither sessions nor notifications nor the database.
LEMMA DurableIdle ==
    ASSUME DurableIsCurrent, reducer \in Reducer, reducer' \in Reducer,
           stored \in Projection, stored' = stored,
           reducer'.sessions = reducer.sessions,
           reducer'.notifications = reducer.notifications,
           reducer'.revision >= reducer.revision
    PROVE  DurableIsCurrent'
<1>1. /\ PersistentState(reducer').sessions = PersistentState(reducer).sessions
      /\ PersistentState(reducer').notifications = PersistentState(reducer).notifications
  BY PersistedDependence
<1>2. /\ PersistentState(reducer').revision = reducer'.revision
      /\ PersistentState(reducer).revision = reducer.revision
  BY DEF PersistentState
<1>3. stored.revision \in Nat /\ reducer.revision \in Nat /\ reducer'.revision \in Nat
  BY DEF Projection, Reducer
<1>4. stored'.revision <= PersistentState(reducer').revision
  BY <1>2, <1>3 DEF DurableIsCurrent
<1>5. QED
  BY <1>1, <1>4 DEF DurableIsCurrent

\* A step that saves the projection of a reducer with the same contents.
LEMMA DurableSaved ==
    ASSUME NEW r \in Reducer, OneCard(r.notifications), reducer' \in Reducer,
           stored' = PersistentState(r),
           reducer'.sessions = r.sessions,
           reducer'.notifications = r.notifications,
           reducer'.revision = r.revision
    PROVE  DurableIsCurrent' /\ Stable(stored)'
<1>1. /\ PersistentState(reducer').sessions = PersistentState(r).sessions
      /\ PersistentState(reducer').notifications = PersistentState(r).notifications
  BY PersistedDependence
<1>2. /\ PersistentState(reducer').revision = r.revision
      /\ PersistentState(r).revision = r.revision
  BY DEF PersistentState
<1>3. r.revision \in Nat /\ r.revision <= r.revision
  BY DEF Reducer
<1>4. Stable(stored)'
  BY RestoreIsStable DEF Stable
<1>5. QED
  BY <1>1, <1>2, <1>3, <1>4 DEF DurableIsCurrent

\* A step that loads a stable projection.
LEMMA DurableLoaded ==
    ASSUME NEW p \in Projection, Stable(p), StartFrom(p)
    PROVE  DurableIsCurrent' /\ Stable(stored)'
<1>1. stored' = p /\ reducer' = FromPersistentState(p)
  BY DEF StartFrom
<1>2. PersistentState(reducer').revision = p.revision
  BY <1>1 DEF PersistentState, FromPersistentState
<1>3. p.revision \in Nat /\ p.revision <= p.revision
  BY DEF Projection
<1>4. QED
  BY <1>1, <1>2, <1>3 DEF DurableIsCurrent, Stable

LEMMA DurableInvNext == DurableInv /\ [Next]_vars => DurableInv'
<1> SUFFICES ASSUME DurableInv, [Next]_vars PROVE DurableInv'
  OBVIOUS
<1>1. CardInv /\ CardInv'
  BY CardInvNext DEF DurableInv
<1>2. /\ reducer \in Reducer /\ reducer' \in Reducer
      /\ stored \in Projection /\ now \in Nat
      /\ reducer.notifications \in SUBSET Notification
      /\ reducer.revision \in Nat
  BY <1>1 DEF CardInv, TypeOK, Reducer
<1>3. OneCard(reducer.notifications) /\ OneCard(reducer'.notifications)
  BY <1>1, CardsMatchOneCard DEF CardInv, TypeOK, Reducer
<1>4. ASSUME NEW e \in Event, IgnoreEvent(e) PROVE DurableInv'
  <2>1. /\ reducer'.sessions = reducer.sessions
        /\ reducer'.notifications = reducer.notifications
        /\ reducer'.revision = reducer.revision
    BY <1>2, <1>4 DEF IgnoreEvent, ReduceAt, Remembered, Reducer
  <2>2. stored' = stored
    BY <1>4 DEF IgnoreEvent
  <2>3. DurableIsCurrent'
    BY <1>2, <2>1, <2>2, DurableIdle DEF DurableInv
  <2>4. QED
    BY <1>1, <2>2, <2>3 DEF DurableInv, Stable
<1>5. ASSUME NEW e \in Event, ApplyEvent(e) PROVE DurableInv'
  <2> DEFINE r == Applied(reducer, e, now)
  <2>1. /\ r \in Reducer
        /\ stored' = PersistentState(r)
        /\ reducer' = r \/ reducer' = RestartReminder(r, now)
        /\ reducer'.notifications = r.notifications
    BY <1>1, <1>5, CommitStep
  <2> HIDE DEF r
  <2>2. reducer'.sessions = r.sessions /\ reducer'.revision = r.revision
    BY <2>1 DEF RestartReminder, Reducer
  <2>3. OneCard(r.notifications)
    BY <1>3, <2>1
  <2>4. DurableIsCurrent' /\ Stable(stored)'
    BY <1>2, <2>1, <2>2, <2>3, DurableSaved
  <2>5. QED
    BY <1>1, <2>4 DEF DurableInv
<1>6. ASSUME NEW r, RollBack(r) PROVE DurableInv'
  BY <1>1, <1>6 DEF RollBack, DurableInv, DurableIsCurrent, Stable
<1>7. ASSUME NEW n \in reducer.notifications, Acknowledge(n) PROVE DurableInv'
  <2>1. stored' = PersistentState(reducer')
    BY <1>7 DEF Acknowledge
  <2>2. DurableIsCurrent' /\ Stable(stored)'
    BY <1>2, <1>3, <2>1, DurableSaved
  <2>3. QED
    BY <1>1, <2>2 DEF DurableInv
<1>8. ASSUME NEW d \in timers, ExpireReminder(d) PROVE DurableInv'
  <2>1. /\ reducer'.sessions = reducer.sessions
        /\ reducer'.notifications = reducer.notifications
        /\ reducer'.revision \in {reducer.revision, reducer.revision + 1}
    BY <1>2, <1>8 DEF ExpireReminder, AdvancePresentation, Reducer
  <2>2. stored' = stored
    BY <1>8 DEF ExpireReminder
  <2>3. reducer'.revision >= reducer.revision
    BY <1>2, <2>1
  <2>4. DurableIsCurrent'
    BY <1>2, <2>1, <2>2, <2>3, DurableIdle DEF DurableInv
  <2>5. QED
    BY <1>1, <2>2, <2>4 DEF DurableInv, Stable
<1>9. ASSUME Tick PROVE DurableInv'
  BY <1>1, <1>9 DEF Tick, DurableInv, DurableIsCurrent, Stable
<1>10. ASSUME CrashRestart PROVE DurableInv'
  BY <1>1, <1>2, <1>10, DurableLoaded DEF CrashRestart, DurableInv
<1>11. ASSUME ExitRestart PROVE DurableInv'
  <2>1. PersistentState(reducer) \in Projection /\ Stable(PersistentState(reducer))
    BY <1>2, <1>3, PersistentStateType, RestoreIsStable DEF Stable
  <2>2. QED
    BY <1>1, <1>2, <1>11, <2>1, DurableLoaded DEF ExitRestart, DurableInv
<1>12. CASE UNCHANGED vars
  BY <1>1, <1>12 DEF vars, DurableInv, DurableIsCurrent, Stable
<1>13. QED
  BY <1>4, <1>5, <1>6, <1>7, <1>8, <1>9, <1>10, <1>11, <1>12
     DEF Next, ApplyEventFails, AcknowledgeFails

\* What the caller was told is what a crash leaves behind: between two calls the
\* database holds the projection of the reducer in memory, whichever saves
\* failed and wherever the process was restarted.
THEOREM DatabaseIsCurrent == Spec => []DurableIsCurrent
<1>1. DurableInv => DurableIsCurrent
  BY DEF DurableInv
<1>2. QED
  BY <1>1, DurableInvInit, DurableInvNext, PTL DEF Spec
-----------------------------------------------------------------------------
(***************************************************************************)
(* Revisions.                                                              *)
(***************************************************************************)
\* Within a process revisions never go back and one revision is one projection,
\* though an ignored event changes the reducer and keeps its revision: what the
\* exit handler saves was saved before or is newer.
THEOREM RevisionsNeverGoBack == Spec => RevisionsAgree
<1> DEFINE Agree == /\ reducer'.revision >= reducer.revision
                    /\ reducer'.revision = reducer.revision
                          => PersistentState(reducer') = PersistentState(reducer)
<1>1. ASSUME CardInv, [Next]_vars, restarts' = restarts PROVE Agree
  <2>1. reducer \in Reducer /\ now \in Nat /\ restarts \in Nat /\ reducer.revision \in Nat
    BY <1>1 DEF CardInv, TypeOK, Reducer
  <2>2. CASE reducer' = reducer
    BY <2>1, <2>2
  <2>3. CASE reducer'.revision = reducer.revision + 1
    BY <2>1, <2>3
  <2>4. ASSUME NEW e \in Event, IgnoreEvent(e) PROVE Agree
    <3>1. CASE reducer' = Remembered(reducer, e)
      <4>1. reducer' \in Reducer
        BY <2>1, <3>1, RememberedType
      <4>2. /\ reducer'.sessions = reducer.sessions
            /\ reducer'.notifications = reducer.notifications
            /\ reducer'.revision = reducer.revision
        BY <2>1, <3>1 DEF Remembered, Reducer
      <4>3. /\ PersistentState(reducer').sessions = PersistentState(reducer).sessions
            /\ PersistentState(reducer').notifications
                 = PersistentState(reducer).notifications
        BY <2>1, <4>1, <4>2, PersistedDependence
      <4>4. PersistentState(reducer') = PersistentState(reducer)
        BY <4>2, <4>3 DEF PersistentState
      <4>5. QED
        BY <2>1, <4>2, <4>4
    <3>2. QED
      BY <2>2, <2>4, <3>1 DEF IgnoreEvent, ReduceAt
  <2>5. ASSUME NEW e \in Event, ApplyEvent(e) PROVE Agree
    <3> DEFINE r == Applied(reducer, e, now)
    <3>1. r \in Reducer /\ (reducer' = r \/ reducer' = RestartReminder(r, now))
      BY <1>1, <2>5, CommitStep
    <3>2. r.revision = reducer.revision + 1
      BY AppliedFields
    <3> HIDE DEF r
    <3>3. reducer'.revision = r.revision
      BY <3>1 DEF RestartReminder, Reducer
    <3>4. QED
      BY <2>3, <3>2, <3>3
  <2>6. ASSUME NEW n \in reducer.notifications, Acknowledge(n) PROVE Agree
    BY <2>1, <2>3, <2>6 DEF Acknowledge, AcknowledgeNotification, Reducer
  <2>7. ASSUME NEW d \in timers, ExpireReminder(d) PROVE Agree
    BY <2>1, <2>2, <2>3, <2>7 DEF ExpireReminder, AdvancePresentation, Reducer
  <2>8. ~CrashRestart /\ ~ExitRestart
    BY <1>1, <2>1 DEF CrashRestart, ExitRestart, StartFrom
  <2> HIDE DEF Agree
  <2>9. QED
    BY <1>1, <2>2, <2>4, <2>5, <2>6, <2>7, <2>8
       DEF Next, ApplyEventFails, AcknowledgeFails, RollBack, Tick, vars
<1>2. CardInv /\ [Next]_vars
        => [restarts' = restarts =>
              /\ reducer'.revision >= reducer.revision
              /\ reducer'.revision = reducer.revision
                    => PersistentState(reducer') = PersistentState(reducer)]_vars
  BY <1>1
<1>3. QED
  BY <1>2, CardInvariant, PTL DEF Spec, RevisionsAgree
-----------------------------------------------------------------------------
(***************************************************************************)
(* The presentation is never less urgent than what is desired.             *)
(***************************************************************************)
\* A reminder that runs out only makes less desirable.
LEMMA DesiredFades ==
    ASSUME NEW ns, NEW until \in Nat, NEW d \in Nat, NEW t \in Nat, d <= t
    PROVE  Desired(ns, until, d) >= Desired(ns, until, t)
<1> DEFINE waits == \E n \in ns : n.kind = "attention" /\ n.state # "resolved"
           fails == \E n \in ns : n.kind = "failure" /\ n.state = "unread"
           completes == \E n \in ns : n.kind = "completion" /\ n.state = "unread"
<1>1. until > t => until > d
  OBVIOUS
<1>2. \A x : Desired(ns, until, x) = IF waits THEN 4 ELSE IF fails THEN 3
                                     ELSE IF completes THEN 2 ELSE IF until > x THEN 1 ELSE 0
  BY DEF Desired, Idle, ActivityReminder, Review, Failed, Waiting
<1> HIDE DEF waits, fails, completes
<1>3. QED
  BY <1>1, <1>2

\* Review and Failed are desired for an unread card of their kind.
HasCard(state, ns) ==
    /\ state = Review => \E n \in ns : n.kind = "completion" /\ n.state = "unread"
    /\ state = Failed => \E n \in ns : n.kind = "failure" /\ n.state = "unread"

LEMMA DesiredHasCard ==
    ASSUME NEW ns, NEW until, NEW t
    PROVE  HasCard(Desired(ns, until, t), ns)
BY DEF Desired, HasCard, Idle, ActivityReminder, Review, Failed, Waiting

\* The presentation p is right for these cards at this time.
Presents(p, ns, until, t) ==
    /\ p.state >= Desired(ns, until, t)
    /\ HasCard(p.state, ns)

LEMMA NeverUnderstatedPresents ==
    NeverUnderstated <=> Presents(reducer.presentation, reducer.notifications, reducer.until, now)
BY DEF NeverUnderstated, Presents, HasCard, Unread

LEMMA ShownPresents ==
    ASSUME NEW p \in [state : Idle..Waiting, since : Nat], NEW ns, NEW until, NEW t \in Nat
    PROVE  Presents(Shown(p, Desired(ns, until, t), t), ns, until, t)
<1>1. Desired(ns, until, t) \in Idle..Waiting
  BY DesiredType
<1>2. Shown(p, Desired(ns, until, t), t).state = Desired(ns, until, t)
  BY <1>1, ShownType
<1>3. Desired(ns, until, t) >= Desired(ns, until, t)
  BY <1>1 DEF Idle, Waiting
<1>4. QED
  BY <1>2, <1>3, DesiredHasCard DEF Presents

\* A refresh is right if the presentation had its card before.
LEMMA RefreshedPresents ==
    ASSUME NEW p \in [state : Idle..Waiting, since : Nat],
           NEW ns, NEW until \in Nat, NEW t \in Nat, HasCard(p.state, ns)
    PROVE  Presents(Refreshed(p, ns, until, t), ns, until, t)
BY RefreshedCases, DesiredHasCard DEF Presents

\* A card that is not about attention stays as it is until another card of its
\* session takes its place.
LEMMA CardsStayUntilReplaced ==
    ASSUME NEW r \in Reducer, NEW e \in Event,
           ~Replaces(ResolvedAfter(r, e), InsertedAfter(r, e), e),
           NEW n \in r.notifications, n.kind # "attention"
    PROVE  n \in InsertedAfter(r, e)
<1>1. r.notifications \in SUBSET Notification
  BY DEF Reducer
<1>2. n \in ResolvedAfter(r, e)
  BY <1>1, ResolveAttentionLeaves DEF ResolvedAfter
<1>3. CASE InsertedAfter(r, e) = ResolvedAfter(r, e)
  BY <1>2, <1>3
<1>4. CASE InsertedAfter(r, e) # ResolvedAfter(r, e)
  <2> DEFINE resolved == ResolvedAfter(r, e)
  <2>1. OfSession(resolved, e.session) = {}
    BY <1>4 DEF Replaces
  <2>2. Notifies(e) /\ InsertedAfter(r, e) = InsertNotification(resolved, e)
    BY <1>4 DEF InsertedAfter
  <2>3. resolved \in SUBSET Notification
    BY ResolvedAfterType
  <2> HIDE DEF resolved
  <2>4. resolved \subseteq InsertNotification(resolved, e)
    BY <2>1, <2>2, <2>3, InsertNotificationCases, NotifyingEventIsTurnEvent
  <2>5. QED
    BY <1>2, <2>2, <2>4 DEF resolved
<1>5. QED
  BY <1>3, <1>4

LEMMA AppliedPresents ==
    ASSUME NEW r \in Reducer, NEW e \in Event, NEW t \in Nat,
           HasCard(r.presentation.state, r.notifications)
    PROVE  LET a == Applied(r, e, t) IN Presents(a.presentation, a.notifications, a.until, t)
<1> DEFINE ns == InsertedAfter(r, e)
           until == UntilAfter(r, e, t)
           p == PresentedAfter(r, e, t)
           a == Applied(r, e, t)
<1>1. /\ a.presentation = Refreshed(p, ns, until, t)
      /\ a.notifications = ns /\ a.until = until
  BY AppliedFields
<1>2. until \in Nat /\ p \in [state : Idle..Waiting, since : Nat]
  BY PresentationType
<1>3. HasCard(p.state, ns)
  <2>1. CASE Replaces(ResolvedAfter(r, e), ns, e)
    <3>1. p = Shown(r.presentation, Desired(ns, until, t), t)
      BY <2>1 DEF PresentedAfter
    <3>2. r.presentation \in [state : Idle..Waiting, since : Nat]
      BY DEF Reducer
    <3>3. QED
      BY <3>1, <3>2, ShownPresents DEF Presents
  <2>2. CASE ~Replaces(ResolvedAfter(r, e), ns, e)
    <3>1. p = r.presentation
      BY <2>2 DEF PresentedAfter
    <3>2. \A n \in r.notifications : n.kind # "attention" => n \in ns
      BY <2>2, CardsStayUntilReplaced
    <3> HIDE DEF p, ns
    <3>3. QED
      BY <3>1, <3>2 DEF HasCard
  <2>3. QED
    BY <2>1, <2>2
<1> HIDE DEF ns, until, p, a
<1>4. Presents(Refreshed(p, ns, until, t), ns, until, t)
  BY <1>2, <1>3, RefreshedPresents
<1>5. QED
  BY <1>1, <1>4 DEF a

LEMMA RestartReminderPresents ==
    ASSUME NEW r \in Reducer, NEW t \in Nat,
           HasCard(r.presentation.state, r.notifications)
    PROVE  LET a == RestartReminder(r, t) IN Presents(a.presentation, a.notifications, a.until, t)
<1> DEFINE until == t + ReminderDuration
           p == Refreshed(r.presentation, r.notifications, until, t)
<1>1. until \in Nat /\ r.presentation \in [state : Idle..Waiting, since : Nat]
  BY BoundTypes DEF Reducer
<1>2. Presents(p, r.notifications, until, t)
  BY <1>1, RefreshedPresents
<1>3. RestartReminder(r, t) = [r EXCEPT !.until = until, !.presentation = p]
  BY DEF RestartReminder
<1> HIDE DEF until, p
<1>4. QED
  BY <1>2, <1>3 DEF Reducer

\* Whatever is delivered, acknowledged or replaced in whatever order, and however
\* late an expiry task runs, the pet shows at least the most urgent thing there
\* is, and Review or Failed only with the unread card that calls for them.
THEOREM PetIsNeverUnderstated == Spec => []NeverUnderstated
<1>1. Init => NeverUnderstated
  BY DEF Init, NeverUnderstated, EmptyReducer, Desired, Idle, ActivityReminder,
         Review, Failed, Waiting
<1>2. CardInv /\ NeverUnderstated /\ [Next]_vars => NeverUnderstated'
  <2> SUFFICES ASSUME CardInv, NeverUnderstated, [Next]_vars PROVE NeverUnderstated'
    OBVIOUS
  <2>1. /\ reducer \in Reducer /\ now \in Nat /\ stored \in Projection
        /\ reducer.presentation \in [state : Idle..Waiting, since : Nat]
        /\ reducer.until \in Nat /\ timers \in SUBSET Nat
    BY DEF CardInv, TypeOK, Reducer
  <2>2. /\ Presents(reducer.presentation, reducer.notifications, reducer.until, now)
        /\ HasCard(reducer.presentation.state, reducer.notifications)
    BY NeverUnderstatedPresents DEF Presents
  <2>3. SUFFICES Presents(reducer'.presentation, reducer'.notifications, reducer'.until, now')
    BY DEF NeverUnderstated, Presents, HasCard, Unread
  <2> DEFINE Goal == Presents(reducer'.presentation, reducer'.notifications, reducer'.until, now')
  <2>4. ASSUME NEW e \in Event, IgnoreEvent(e) PROVE Goal
    <3>1. /\ reducer'.presentation = reducer.presentation
          /\ reducer'.notifications = reducer.notifications
          /\ reducer'.until = reducer.until
      BY <2>1, <2>4 DEF IgnoreEvent, ReduceAt, Remembered, Reducer
    <3>2. QED
      BY <2>2, <2>4, <3>1 DEF IgnoreEvent
  <2>5. ASSUME NEW e \in Event, ApplyEvent(e) PROVE Goal
    <3> DEFINE r == Applied(reducer, e, now)
    <3>1. r \in Reducer /\ (reducer' = r \/ reducer' = RestartReminder(r, now))
      BY <2>5, CommitStep
    <3>2. Presents(r.presentation, r.notifications, r.until, now)
      BY <2>1, <2>2, AppliedPresents
    <3> HIDE DEF r
    <3>3. LET a == RestartReminder(r, now)
          IN  Presents(a.presentation, a.notifications, a.until, now)
      BY <2>1, <3>1, <3>2, RestartReminderPresents DEF Presents
    <3>4. QED
      BY <2>5, <3>1, <3>2, <3>3 DEF ApplyEvent
  <2>6. ASSUME NEW n \in reducer.notifications, Acknowledge(n) PROVE Goal
    <3> DEFINE ns == (reducer.notifications \ {n}) \cup {[n EXCEPT !.state = "acknowledged"]}
               p == Shown(reducer.presentation, Desired(ns, reducer.until, now), now)
    <3>1. Presents(p, ns, reducer.until, now)
      BY <2>1, ShownPresents
    <3>2. reducer' = [reducer EXCEPT !.revision = @ + 1, !.notifications = ns,
                                     !.presentation = p]
      BY <2>6 DEF Acknowledge, AcknowledgeNotification
    <3> HIDE DEF ns, p
    <3>3. QED
      BY <2>1, <2>6, <3>1, <3>2 DEF Reducer, Acknowledge
  <2>7. ASSUME NEW d \in timers, ExpireReminder(d) PROVE Goal
    <3> DEFINE p == Refresh(reducer, d)
    <3>1. d \in Nat /\ d <= now /\ now' = now
      BY <2>1, <2>7 DEF ExpireReminder
    <3>2. Presents(p, reducer.notifications, reducer.until, d)
      BY <2>1, <2>2, <3>1, RefreshedPresents DEF Refresh
    <3>3. p \in [state : Idle..Waiting, since : Nat]
      BY <2>1, <3>1, RefreshedCases DEF Refresh
    <3> HIDE DEF p
    <3>4. Presents(p, reducer.notifications, reducer.until, now)
      <4>1. /\ Desired(reducer.notifications, reducer.until, d)
                 >= Desired(reducer.notifications, reducer.until, now)
            /\ Desired(reducer.notifications, reducer.until, d) \in Idle..Waiting
            /\ Desired(reducer.notifications, reducer.until, now) \in Idle..Waiting
        BY <2>1, <3>1, DesiredFades, DesiredType
      <4>2. QED
        BY <3>2, <3>3, <4>1 DEF Presents, Idle, Waiting
    <3>5. /\ reducer'.presentation = p
          /\ reducer'.notifications = reducer.notifications
          /\ reducer'.until = reducer.until
      BY <2>1, <2>7 DEF ExpireReminder, AdvancePresentation, Reducer, p
    <3>6. QED
      BY <3>1, <3>4, <3>5
  <2>8. ASSUME Tick PROVE Goal
    <3>1. now' \in Nat /\ now <= now' /\ reducer' = reducer
      BY <2>1, <2>8 DEF Tick
    <3>2. /\ Desired(reducer.notifications, reducer.until, now)
               >= Desired(reducer.notifications, reducer.until, now')
          /\ Desired(reducer.notifications, reducer.until, now) \in Idle..Waiting
          /\ Desired(reducer.notifications, reducer.until, now') \in Idle..Waiting
      BY <2>1, <3>1, DesiredFades, DesiredType
    <3>3. QED
      BY <2>1, <2>2, <3>1, <3>2 DEF Presents, Idle, Waiting
  <2>9. ASSUME NEW p, StartFrom(p) PROVE Goal
    <3>1. /\ reducer'.presentation.state = Desired(p.notifications, 0, 0)
          /\ reducer'.notifications = p.notifications
          /\ reducer'.until = 0 /\ now' = 0
      BY <2>9 DEF StartFrom, FromPersistentState
    <3>2. Desired(p.notifications, 0, 0) >= Desired(p.notifications, 0, 0)
      BY DesiredType DEF Idle, Waiting
    <3>3. QED
      BY <3>1, <3>2, DesiredHasCard DEF Presents
  <2>10. ASSUME reducer' = reducer, now' = now PROVE Goal
    BY <2>2, <2>10
  <2> HIDE DEF Goal
  <2>11. ASSUME NEW r, RollBack(r) PROVE Goal
    BY <2>10, <2>11 DEF RollBack
  <2>12. ASSUME UNCHANGED vars PROVE Goal
    BY <2>10, <2>12 DEF vars
  <2>13. Goal
    BY <2>4, <2>5, <2>6, <2>7, <2>8, <2>9, <2>11, <2>12
       DEF Next, ApplyEventFails, AcknowledgeFails, CrashRestart, ExitRestart
  <2>14. QED
    BY <2>13 DEF Goal
<1>3. QED
  BY <1>1, <1>2, CardInvariant, PTL DEF Spec
-----------------------------------------------------------------------------
(***************************************************************************)
(* What ended stays ended.                                                 *)
(***************************************************************************)
\* An ended session waits for nothing.
EndedCards(sessions, ns) ==
    \A n \in ns : sessions[n.session].life = "ended" /\ n.kind = "attention"
                      => n.state = "resolved"

\* A session that is not known has no turns.
UnknownIsEmpty(sessions) ==
    \A s \in Session : sessions[s].life = "unknown" =>
        \A t \in Turn : sessions[s].turns[t].phase = "none"

FinishedStay(sessions) == \A f \in finished : sessions[f[1]].turns[f[2]].phase \in Terminal

EndInv ==
    /\ DurableInv
    /\ FinishedStay(reducer.sessions)
    /\ EndedCards(reducer.sessions, reducer.notifications)
    /\ UnknownIsEmpty(reducer.sessions)

\* A session that an event was applied to is known, and has ended only by the
\* event that ends it.
LEMMA AfterEventLife ==
    ASSUME NEW r \in Reducer, NEW e \in Event
    PROVE  /\ AfterEvent(r, e).life \in {"open", "ended"}
           /\ AfterEvent(r, e).life = "ended" => e.type = "session_ended"
<1>1. CASE e.type \in SessionEvent
  <2> DEFINE rec == r.sessions[e.session]
             life == IF e.type = "session_started" THEN "open" ELSE "ended"
  <2>1. rec \in SessionRecord
    BY EventFields DEF Reducer
  <2>2. AfterEvent(r, e) = AfterSessionEvent(rec, e)
    BY <1>1 DEF AfterEvent
  <2>3. AfterSessionEvent(rec, e).life = life
    BY <2>1 DEF AfterSessionEvent, NewSession, SessionRecord
  <2>4. QED
    BY <1>1, <2>2, <2>3 DEF SessionEvent
<1>2. CASE e.type \notin SessionEvent
  BY <1>2 DEF AfterEvent, AfterTurnEvent
<1>3. QED
  BY <1>1, <1>2

\* An event that applies leaves a terminal turn of its session terminal.
LEMMA AfterEventTerminal ==
    ASSUME NEW r \in Reducer, NEW e \in Event, EventApplies(r, e), UnknownIsEmpty(r.sessions),
           NEW t \in Turn, r.sessions[e.session].turns[t].phase \in Terminal
    PROVE  AfterEvent(r, e).turns[t].phase \in Terminal
<1> DEFINE rec == r.sessions[e.session]
<1>1. rec \in SessionRecord /\ e.session \in Session
  BY EventFields DEF Reducer
<1>2. rec.life # "unknown" /\ RecordFor(r, e) = rec
  BY <1>1 DEF UnknownIsEmpty, Terminal, RecordFor
<1>3. CASE e.type \in SessionEvent
  <2>1. AfterEvent(r, e) = AfterSessionEvent(rec, e)
    BY <1>3 DEF AfterEvent
  <2> HIDE DEF rec
  <2>2. AfterSessionEvent(rec, e).turns = rec.turns
    BY <1>1, <1>2 DEF AfterSessionEvent, SessionRecord
  <2>3. QED
    BY <2>1, <2>2 DEF rec
<1>4. CASE e.type \notin SessionEvent
  <2>1. AfterEvent(r, e) = AfterTurnEvent(rec, e) /\ TurnEventApplies(rec, e)
    BY <1>2, <1>4 DEF AfterEvent, EventApplies
  <2>2. e.turn \in Turn /\ rec.turns \in [Turn -> TurnRecord]
    BY <1>1, <1>4, EventFields DEF SessionRecord
  <2>3. rec.turns[t].phase \in Terminal
    OBVIOUS
  <2> HIDE DEF rec
  <2>4. AfterTurnEvent(rec, e).turns
          = [rec.turns EXCEPT ![e.turn] =
               [phase |-> PhaseAfter(e.type), time |-> e.time, id |-> e.id]]
    BY DEF AfterTurnEvent
  <2>5. CASE t # e.turn
    BY <2>1, <2>2, <2>3, <2>4, <2>5
  <2>6. CASE t = e.turn
    <3>1. PhaseAfter(e.type) \in Terminal
      BY <2>1, <2>3, <2>6 DEF TurnEventApplies, Terminal
    <3>2. QED
      BY <2>1, <2>2, <2>4, <2>6, <3>1
  <2>7. QED
    BY <2>5, <2>6
<1>5. QED
  BY <1>3, <1>4

\* The end of a session resolves the attention of all its turns, and no event
\* that applies to an ended session leaves it ended.
LEMMA AppliedEndedCards ==
    ASSUME NEW r \in Reducer, NEW e \in Event, NEW rec,
           EndedCards(r.sessions, r.notifications),
           rec.life = "ended" => e.type = "session_ended"
    PROVE  EndedCards([r.sessions EXCEPT ![e.session] = rec], InsertedAfter(r, e))
<1> DEFINE old == r.notifications
           resolved == ResolvedAfter(r, e)
           sessions == [r.sessions EXCEPT ![e.session] = rec]
<1>1. old \in SUBSET Notification /\ resolved \in SUBSET Notification
      /\ InsertedAfter(r, e) \in SUBSET Notification
  BY ResolvedAfterType, InsertedAfterType DEF Reducer
<1>2. /\ e.session \in Session /\ r.sessions \in [Session -> SessionRecord]
      /\ e.turn # NoTurn => e.type \in TurnEvent
  BY EventFields, EventAssumption DEF Reducer
<1>3. EndedCards(sessions, resolved)
  <2>1. SUFFICES ASSUME NEW m \in resolved, sessions[m.session].life = "ended",
                        m.kind = "attention"
                 PROVE  m.state = "resolved"
    BY DEF EndedCards
  <2>2. PICK n \in old : m = n \/ m = [n EXCEPT !.state = "resolved"]
    BY <1>1, ResolveAttentionKeeps DEF ResolvedAfter
  <2>3. n \in Notification
    BY <1>1
  <2>4. CASE m = [n EXCEPT !.state = "resolved"]
    BY <2>3, <2>4 DEF Notification
  <2>5. CASE m = n /\ m.session # e.session
    <3>1. m.session \in Session
      BY <2>3, <2>5 DEF Notification
    <3>2. sessions[m.session] = r.sessions[m.session]
      BY <1>2, <2>5, <3>1
    <3>3. r.sessions[m.session].life = "ended" /\ m \in old
      BY <2>1, <2>5, <3>2
    <3>4. QED
      BY <2>1, <3>3 DEF EndedCards
  <2>6. CASE m = n /\ m.session = e.session
    <3>1. e.type = "session_ended"
      BY <1>2, <2>1, <2>6
    <3>2. e.turn = NoTurn /\ ResolvesAttention(e)
      BY <1>2, <3>1 DEF TurnEvent, ResolvesAttention
    <3>3. PICK k \in old :
            m = IF /\ k.session = e.session /\ k.kind = "attention"
                   /\ e.turn = NoTurn \/ k.turn = e.turn
                THEN [k EXCEPT !.state = "resolved"] ELSE k
      BY <3>2 DEF ResolvedAfter, ResolveAttention
    <3>4. k \in Notification
      BY <1>1
    <3>5. QED
      BY <2>1, <2>6, <3>2, <3>3, <3>4 DEF Notification
  <2>7. QED
    BY <2>2, <2>4, <2>5, <2>6
<1>4. CASE ~Notifies(e)
  BY <1>3, <1>4 DEF InsertedAfter
<1>5. CASE Notifies(e)
  <2>1. InsertedAfter(r, e) = InsertNotification(resolved, e)
    BY <1>5 DEF InsertedAfter
  <2>2. rec.life # "ended" /\ e.type \notin SessionEvent
    BY <1>5, NotifyingEventIsTurnEvent DEF Notifies
  <2>3. sessions[e.session].life # "ended"
    BY <1>2, <2>2
  <2> HIDE DEF resolved, sessions
  <2>4. \A m \in InsertNotification(resolved, e) : m \in resolved \/ m.session = e.session
    BY <1>1, <2>2, InsertNotificationCases
  <2>5. EndedCards(sessions, InsertedAfter(r, e))
    BY <1>3, <2>1, <2>3, <2>4 DEF EndedCards
  <2>6. QED
    BY <2>5 DEF sessions
<1>6. QED
  BY <1>4, <1>5

\* The projection forgets sessions, turns and cards, and ends nothing.
LEMMA ProjectionEnds ==
    ASSUME NEW r \in Reducer, EndedCards(r.sessions, r.notifications)
    PROVE  LET p == PersistentState(r)
           IN  EndedCards(p.sessions, p.notifications) /\ UnknownIsEmpty(p.sessions)
<1> DEFINE p == PersistentState(r)
           P == Persisted(r)
<1>1. p.sessions = [s \in Session |-> IF s \in P THEN ProjectedSession(r.sessions[s])
                                      ELSE UnknownSession]
  BY DEF PersistentState
<1>2. \A n \in p.notifications : n \in r.notifications /\ n.session \in P
  BY DEF PersistentState, Unread
<1>3. P \subseteq Session /\ \A s \in P : r.sessions[s].life # "unknown"
  BY DEF Persisted, Known
<1>4. r.sessions \in [Session -> SessionRecord]
  BY DEF Reducer
<1> HIDE DEF p, P
<1>5. \A s \in P : p.sessions[s].life = r.sessions[s].life
  BY <1>1, <1>3, <1>4, ProjectedSessionFields
<1>6. EndedCards(p.sessions, p.notifications)
  BY <1>2, <1>5 DEF EndedCards
<1>7. UnknownIsEmpty(p.sessions)
  <2>1. SUFFICES ASSUME NEW s \in Session, p.sessions[s].life = "unknown", NEW t \in Turn
                 PROVE  p.sessions[s].turns[t].phase = "none"
    BY DEF UnknownIsEmpty
  <2>2. p.sessions[s] = UnknownSession
    BY <1>1, <1>3, <1>5, <2>1
  <2>3. QED
    BY <2>2 DEF UnknownSession, NewSession, NoRecord
<1>8. QED
  BY <1>6, <1>7 DEF p

LEMMA EndInvInit == Init => EndInv
<1> SUFFICES ASSUME Init PROVE EndInv
  OBVIOUS
<1>1. reducer.notifications = {} /\ finished = {}
  BY DEF Init, EmptyReducer
<1>2. \A s \in Session : reducer.sessions[s] = UnknownSession
  BY DEF Init, EmptyReducer
<1>3. UnknownIsEmpty(reducer.sessions)
  BY <1>2 DEF UnknownIsEmpty, UnknownSession, NewSession, NoRecord
<1>4. QED
  BY <1>1, <1>3, DurableInvInit DEF EndInv, FinishedStay, EndedCards

LEMMA EndInvNext == EndInv /\ [Next]_vars => EndInv'
<1> SUFFICES ASSUME EndInv, [Next]_vars PROVE EndInv'
  OBVIOUS
<1>1. DurableInv /\ DurableInv' /\ CardInv
  BY DurableInvNext DEF EndInv, DurableInv
<1>2. /\ reducer \in Reducer /\ now \in Nat /\ stored \in Projection
      /\ reducer.notifications \in SUBSET Notification
      /\ reducer.sessions \in [Session -> SessionRecord]
      /\ finished \in SUBSET (Session \X Turn)
  BY <1>1 DEF CardInv, TypeOK, Reducer
<1>3. ASSUME reducer'.sessions = reducer.sessions, finished' = finished,
             reducer'.notifications = reducer.notifications
      PROVE  EndInv'
  BY <1>1, <1>3 DEF EndInv, FinishedStay
<1>4. ASSUME NEW e \in Event, IgnoreEvent(e) PROVE EndInv'
  <2>1. /\ reducer'.sessions = reducer.sessions
        /\ reducer'.notifications = reducer.notifications
    BY <1>2, <1>4 DEF IgnoreEvent, ReduceAt, Remembered, Reducer
  <2>2. QED
    BY <1>3, <1>4, <2>1 DEF IgnoreEvent
<1>5. ASSUME NEW e \in Event, ApplyEvent(e) PROVE EndInv'
  <2> DEFINE r == Applied(reducer, e, now)
             rec == AfterEvent(reducer, e)
  <2>1. /\ r \in Reducer
        /\ r.notifications = InsertedAfter(reducer, e)
        /\ reducer' = r \/ reducer' = RestartReminder(r, now)
        /\ reducer'.notifications = r.notifications
    BY <1>1, <1>5, CommitStep
  <2>2. r.sessions = [reducer.sessions EXCEPT ![e.session] = rec]
    BY AppliedFields
  <2>3. finished' = finished \cup FinishedIn(r)
    BY <1>5 DEF ApplyEvent, Commit, Observe, ReduceAt
  <2> HIDE DEF r
  <2>4. reducer'.sessions = r.sessions
    BY <2>1 DEF RestartReminder, Reducer
  <2>5. e.session \in Session
    BY EventFields
  <2>6. rec.life \in {"open", "ended"} /\ (rec.life = "ended" => e.type = "session_ended")
    BY <1>2, AfterEventLife
  <2>7. EventApplies(reducer, e)
    BY <1>5 DEF ApplyEvent, Outcome
  <2>8. \A t \in Turn : reducer.sessions[e.session].turns[t].phase \in Terminal
                          => rec.turns[t].phase \in Terminal
    BY <1>2, <2>7, AfterEventTerminal DEF EndInv
  <2> HIDE DEF rec
  <2>9. FinishedStay(reducer.sessions)'
    <3>1. SUFFICES ASSUME NEW f \in finished'
                   PROVE  r.sessions[f[1]].turns[f[2]].phase \in Terminal
      BY <2>4 DEF FinishedStay
    <3>2. CASE f \in FinishedIn(r)
      BY <3>2 DEF FinishedIn
    <3>3. CASE f \in finished
      <4>1. f[1] \in Session /\ f[2] \in Turn
        BY <1>2, <3>3
      <4>2. reducer.sessions[f[1]].turns[f[2]].phase \in Terminal
        BY <3>3 DEF EndInv, FinishedStay
      <4>3. QED
        BY <1>2, <2>2, <2>5, <2>8, <4>1, <4>2
    <3>4. QED
      BY <2>3, <3>2, <3>3
  <2>10. EndedCards(reducer'.sessions, reducer'.notifications)
    BY <1>2, <2>1, <2>2, <2>4, <2>6, AppliedEndedCards DEF EndInv
  <2>11. UnknownIsEmpty(reducer'.sessions)
    <3>1. SUFFICES ASSUME NEW s \in Session, r.sessions[s].life = "unknown", NEW t \in Turn
                   PROVE  r.sessions[s].turns[t].phase = "none"
      BY <2>4 DEF UnknownIsEmpty
    <3>2. s # e.session
      BY <1>2, <2>2, <2>6, <3>1
    <3>3. r.sessions[s] = reducer.sessions[s]
      BY <1>2, <2>2, <3>2
    <3>4. QED
      BY <3>1, <3>3 DEF EndInv, UnknownIsEmpty
  <2>12. QED
    BY <1>1, <2>9, <2>10, <2>11 DEF EndInv
<1>6. ASSUME NEW r, RollBack(r) PROVE EndInv'
  BY <1>3, <1>6 DEF RollBack
<1>7. ASSUME NEW n \in reducer.notifications, Acknowledge(n) PROVE EndInv'
  <2> DEFINE a == [n EXCEPT !.state = "acknowledged"]
  <2>1. /\ reducer'.sessions = reducer.sessions
        /\ reducer'.notifications = (reducer.notifications \ {n}) \cup {a}
        /\ n.state = "unread" /\ finished' = finished
    BY <1>2, <1>7 DEF Acknowledge, AcknowledgeNotification, Reducer
  <2>2. a.session = n.session /\ a.kind = n.kind
    BY <1>2 DEF Notification
  <2>3. ~(reducer.sessions[n.session].life = "ended" /\ n.kind = "attention")
    BY <2>1 DEF EndInv, EndedCards
  <2> HIDE DEF a
  <2>4. EndedCards(reducer'.sessions, reducer'.notifications)
    BY <2>1, <2>2, <2>3 DEF EndInv, EndedCards
  <2>5. QED
    BY <1>1, <2>1, <2>4 DEF EndInv, FinishedStay
<1>8. ASSUME NEW d \in timers, ExpireReminder(d) PROVE EndInv'
  <2>1. /\ reducer'.sessions = reducer.sessions
        /\ reducer'.notifications = reducer.notifications
    BY <1>2, <1>8 DEF ExpireReminder, AdvancePresentation, Reducer
  <2>2. QED
    BY <1>3, <1>8, <2>1 DEF ExpireReminder
<1>9. ASSUME NEW p, EndedCards(p.sessions, p.notifications), UnknownIsEmpty(p.sessions),
             StartFrom(p)
      PROVE  EndInv'
  <2>1. /\ reducer'.sessions = p.sessions /\ reducer'.notifications = p.notifications
        /\ finished' = FinishedIn(reducer')
    BY <1>9 DEF StartFrom, FromPersistentState
  <2>2. FinishedStay(reducer.sessions)'
    BY <2>1 DEF FinishedStay, FinishedIn
  <2>3. QED
    BY <1>1, <1>9, <2>1, <2>2 DEF EndInv
<1>10. /\ EndedCards(PersistentState(reducer).sessions, PersistentState(reducer).notifications)
       /\ UnknownIsEmpty(PersistentState(reducer).sessions)
  BY <1>2, ProjectionEnds DEF EndInv
<1>11. EndedCards(stored.sessions, stored.notifications) /\ UnknownIsEmpty(stored.sessions)
  BY <1>1, <1>10 DEF DurableInv, DurableIsCurrent
<1>12. ASSUME CrashRestart PROVE EndInv'
  BY <1>9, <1>11, <1>12 DEF CrashRestart
<1>13. ASSUME ExitRestart PROVE EndInv'
  BY <1>9, <1>10, <1>11, <1>13 DEF ExitRestart
<1>14. CASE Tick
  BY <1>3, <1>14 DEF Tick
<1>15. CASE UNCHANGED vars
  BY <1>3, <1>15 DEF vars
<1>16. QED
  BY <1>4, <1>5, <1>6, <1>7, <1>8, <1>12, <1>13, <1>14, <1>15
     DEF Next, ApplyEventFails, AcknowledgeFails

\* "A terminal state cannot return to active": in no order of deliveries, ends and
\* resumptions is a turn that was terminal since the start reopened, and no ended
\* session is left with attention that nothing would resolve.
THEOREM WhatEndedStaysEnded == Spec => []EndsAreFinal
<1>1. EndInv => EndsAreFinal
  BY DEF EndInv, EndsAreFinal, FinishedStay, EndedCards
<1>2. QED
  BY <1>1, EndInvInit, EndInvNext, PTL DEF Spec
-----------------------------------------------------------------------------
(***************************************************************************)
(* What was applied is past.                                               *)
(***************************************************************************)
\* The turn of the event is recorded with an event that is as new or newer.
Past(r, e) ==
    LET record == r.sessions[e.session].turns[e.turn]
    IN  record.phase # "none" /\ ~Before(record, e)

LEMMA AppliedIsPast ==
    ASSUME NEW r \in Reducer, NEW e \in Event, e.type \in TurnEvent
    PROVE  LET turns == AfterEvent(r, e).turns
           IN  turns[e.turn].phase # "none" /\ ~Before(turns[e.turn], e)
<1>1. e.type \notin SessionEvent /\ e.turn \in Turn /\ e.time \in Nat /\ e.id \in Nat
  BY EventFields DEF TurnEvent, SessionEvent
<1> DEFINE rec == RecordFor(r, e)
           after == [phase |-> PhaseAfter(e.type), time |-> e.time, id |-> e.id]
<1>2. rec \in SessionRecord
  BY RecordForType
<1>3. AfterEvent(r, e).turns = [rec.turns EXCEPT ![e.turn] = after]
  BY <1>1 DEF AfterEvent, AfterTurnEvent
<1> HIDE DEF rec
<1>4. AfterEvent(r, e).turns[e.turn] = after
  BY <1>1, <1>2, <1>3 DEF SessionRecord
<1>5. after.phase # "none"
  BY PhaseAfterType
<1>6. ~Before(after, e)
  BY <1>1 DEF Before
<1>7. QED
  BY <1>4, <1>5, <1>6

\* No event that applies makes a past event new again.
LEMMA PastStaysPast ==
    ASSUME NEW r \in Reducer, UnknownIsEmpty(r.sessions), NEW f \in Event, EventApplies(r, f),
           NEW e \in Event, e.type \in TurnEvent, Past(r, e), e.session = f.session
    PROVE  LET turns == AfterEvent(r, f).turns
           IN  turns[e.turn].phase # "none" /\ ~Before(turns[e.turn], e)
<1> DEFINE rec == r.sessions[f.session]
<1>1. /\ e.type \notin SessionEvent /\ e.turn \in Turn /\ e.time \in Nat /\ e.id \in Nat
      /\ f.time \in Nat /\ f.id \in Nat /\ f.session \in Session
      /\ rec \in SessionRecord
  BY EventFields DEF TurnEvent, SessionEvent, Reducer
<1>2. rec.turns[e.turn].phase # "none" /\ ~Before(rec.turns[e.turn], e)
  BY DEF Past
<1>3. rec.life # "unknown" /\ RecordFor(r, f) = rec
  BY <1>1, <1>2 DEF UnknownIsEmpty, RecordFor
<1>4. rec.turns \in [Turn -> TurnRecord]
  BY <1>1 DEF SessionRecord
<1>5. CASE f.type \in SessionEvent
  <2>1. AfterEvent(r, f) = AfterSessionEvent(rec, f)
    BY <1>5 DEF AfterEvent
  <2> HIDE DEF rec
  <2>2. AfterSessionEvent(rec, f).turns = rec.turns
    BY <1>1, <1>3 DEF AfterSessionEvent, SessionRecord
  <2>3. QED
    BY <1>2, <2>1, <2>2
<1>6. CASE f.type \notin SessionEvent
  <2> DEFINE after == [phase |-> PhaseAfter(f.type), time |-> f.time, id |-> f.id]
  <2>1. AfterEvent(r, f) = AfterTurnEvent(rec, f) /\ TurnEventApplies(rec, f)
    BY <1>3, <1>6 DEF AfterEvent, EventApplies
  <2>2. f.turn \in Turn
    BY <1>6, EventFields
  <2> HIDE DEF rec
  <2>3. AfterTurnEvent(rec, f).turns = [rec.turns EXCEPT ![f.turn] = after]
    BY DEF AfterTurnEvent
  <2>4. CASE e.turn # f.turn
    BY <1>1, <1>2, <1>4, <2>1, <2>3, <2>4
  <2>5. CASE e.turn = f.turn
    <3>1. AfterEvent(r, f).turns[e.turn] = after /\ after.phase # "none"
      BY <1>4, <2>1, <2>2, <2>3, <2>5, PhaseAfterType
    <3> DEFINE record == rec.turns[e.turn]
    <3>2. Before(record, f)
      BY <1>2, <2>1, <2>5 DEF TurnEventApplies
    <3>3. record.time \in Nat /\ record.id \in Nat
      BY <1>1, <1>4 DEF TurnRecord
    <3>4. ~Before(record, e)
      BY <1>2
    <3> HIDE DEF record
    <3>5. ~Before(after, e)
      BY <1>1, <3>2, <3>3, <3>4 DEF Before
    <3>6. QED
      BY <3>1, <3>5
  <2>6. QED
    BY <2>4, <2>5
<1>7. QED
  BY <1>5, <1>6

\* Until the process restarts an event of a turn is applied once, far beyond the
\* window of remembered identities: an applied event is past, what is past stays
\* past whatever else is delivered, and nothing past applies.  (The end and the
\* start of a session have no such record, see session_ended in the README.)
TurnEventsApplyOnce ==
    [][restarts' = restarts =>
          \A e \in Event : e.type \in TurnEvent =>
              /\ ApplyEvent(e) => ~Past(reducer, e) /\ Past(reducer', e)
              /\ Past(reducer, e) => Past(reducer', e)]_vars

\* An applied event changes the record of its session, and nothing else of the
\* sessions; only a restart changes them otherwise.
LEMMA AppliedSessions ==
    ASSUME EndInv, NEW f \in Event, ApplyEvent(f)
    PROVE  /\ reducer'.sessions
                = [reducer.sessions EXCEPT ![f.session] = AfterEvent(reducer, f)]
           /\ EventApplies(reducer, f)
<1>1. CardInv
  BY DEF EndInv, DurableInv
<1> DEFINE r == Applied(reducer, f, now)
<1>2. r \in Reducer /\ (reducer' = r \/ reducer' = RestartReminder(r, now))
  BY <1>1, CommitStep
<1>3. r.sessions = [reducer.sessions EXCEPT ![f.session] = AfterEvent(reducer, f)]
  BY AppliedFields
<1> HIDE DEF r
<1>4. reducer'.sessions = r.sessions
  BY <1>2 DEF RestartReminder, Reducer
<1>5. EventApplies(reducer, f)
  BY DEF ApplyEvent, Outcome
<1> QED
  BY <1>3, <1>4, <1>5

LEMMA SessionsMove ==
    ASSUME EndInv, [Next]_vars
    PROVE  \/ reducer'.sessions = reducer.sessions
           \/ \E f \in Event : ApplyEvent(f)
           \/ /\ reducer'.sessions = PersistentState(reducer).sessions
              /\ restarts' # restarts
<1>1. reducer \in Reducer /\ restarts \in Nat /\ DurableIsCurrent
  BY DEF EndInv, DurableInv, CardInv, TypeOK
<1>2. ASSUME NEW f \in Event, IgnoreEvent(f) PROVE reducer'.sessions = reducer.sessions
  BY <1>1, <1>2 DEF IgnoreEvent, ReduceAt, Remembered, Reducer
<1>3. ASSUME NEW n \in reducer.notifications, Acknowledge(n)
      PROVE  reducer'.sessions = reducer.sessions
  BY <1>1, <1>3 DEF Acknowledge, AcknowledgeNotification, Reducer
<1>4. ASSUME NEW d \in timers, ExpireReminder(d) PROVE reducer'.sessions = reducer.sessions
  BY <1>1, <1>4 DEF ExpireReminder, AdvancePresentation, Reducer
<1>5. ASSUME NEW p, p.sessions = PersistentState(reducer).sessions, StartFrom(p)
      PROVE  /\ reducer'.sessions = PersistentState(reducer).sessions
             /\ restarts' # restarts
  BY <1>1, <1>5 DEF StartFrom, FromPersistentState
<1>6. stored.sessions = PersistentState(reducer).sessions
  BY <1>1 DEF DurableIsCurrent
<1>7. CASE CrashRestart \/ ExitRestart
  BY <1>5, <1>6, <1>7 DEF CrashRestart, ExitRestart
<1> QED
  BY <1>2, <1>3, <1>4, <1>7
     DEF Next, ApplyEventFails, AcknowledgeFails, RollBack, Tick, vars

\* What a step of the living process does to an event of a turn.
LEMMA TurnEventStep ==
    ASSUME EndInv, [Next]_vars, restarts' = restarts, NEW e \in Event, e.type \in TurnEvent
    PROVE  /\ ApplyEvent(e) => ~Past(reducer, e) /\ Past(reducer', e)
           /\ Past(reducer, e) => Past(reducer', e)
<1>1. /\ reducer \in Reducer /\ now \in Nat /\ restarts \in Nat
      /\ reducer.sessions \in [Session -> SessionRecord] /\ CardInv
  BY DEF EndInv, DurableInv, CardInv, TypeOK, Reducer
<1>2. e.session \in Session /\ e.turn \in Turn /\ e.type \notin SessionEvent
  BY EventFields DEF TurnEvent, SessionEvent
<1>3. ASSUME NEW f \in Event, ApplyEvent(f)
      PROVE  /\ reducer'.sessions
                  = [reducer.sessions EXCEPT ![f.session] = AfterEvent(reducer, f)]
             /\ EventApplies(reducer, f)
  BY <1>3, AppliedSessions
<1>4. ASSUME ApplyEvent(e) PROVE ~Past(reducer, e) /\ Past(reducer', e)
  <2>1. reducer'.sessions[e.session] = AfterEvent(reducer, e)
    BY <1>1, <1>2, <1>3, <1>4
  <2>2. Past(reducer', e)
    BY <1>1, <2>1, AppliedIsPast DEF Past
  <2>3. ~Past(reducer, e)
    <3>1. SUFFICES ASSUME Past(reducer, e) PROVE FALSE
      OBVIOUS
    <3>2. RecordFor(reducer, e) = reducer.sessions[e.session]
      BY <1>2, <3>1 DEF Past, EndInv, UnknownIsEmpty, RecordFor
    <3>3. TurnEventApplies(reducer.sessions[e.session], e)
      BY <1>2, <1>3, <1>4, <3>2 DEF EventApplies
    <3>4. QED
      BY <3>1, <3>3 DEF Past, TurnEventApplies
  <2>4. QED
    BY <2>2, <2>3
<1>5. ASSUME Past(reducer, e) PROVE Past(reducer', e)
  <2>1. CASE reducer'.sessions = reducer.sessions
    BY <1>5, <2>1 DEF Past
  <2>2. ASSUME NEW f \in Event, ApplyEvent(f) PROVE Past(reducer', e)
    <3>1. /\ reducer'.sessions
               = [reducer.sessions EXCEPT ![f.session] = AfterEvent(reducer, f)]
          /\ EventApplies(reducer, f)
      BY <1>3, <2>2
    <3>2. CASE f.session = e.session
      <4>1. reducer'.sessions[e.session] = AfterEvent(reducer, f)
        BY <1>1, <1>2, <3>1, <3>2
      <4>2. QED
        BY <1>1, <1>5, <3>1, <3>2, <4>1, PastStaysPast DEF Past, EndInv
    <3>3. CASE f.session # e.session
      BY <1>1, <1>2, <1>5, <3>1, <3>3 DEF Past
    <3>4. QED
      BY <3>2, <3>3
  <2>3. QED
    BY <2>1, <2>2, SessionsMove
<1>6. QED
  BY <1>4, <1>5

\* However often an event of a turn is delivered while the process lives, by the
\* socket, by the spool or by both, it is applied once.
THEOREM AppliedTurnEventsArePast == Spec => TurnEventsApplyOnce
<1>1. EndInv /\ [Next]_vars
        => [restarts' = restarts =>
              \A e \in Event : e.type \in TurnEvent =>
                  /\ ApplyEvent(e) => ~Past(reducer, e) /\ Past(reducer', e)
                  /\ Past(reducer, e) => Past(reducer', e)]_vars
  BY TurnEventStep
<1>2. QED
  BY <1>1, EndInvInit, EndInvNext, PTL DEF Spec, TurnEventsApplyOnce

-----------------------------------------------------------------------------
(***************************************************************************)
(* What was applied is over, also for the next process.                    *)
(***************************************************************************)
\* Two events of a session have different stamps, and what is delivered again under
\* the same identity, stamped later or not, is of the same turn.
StampsTellEventsApart ==
    /\ \A e, f \in Event : e.session = f.session /\ e.time = f.time => e = f
    /\ \A e, f \in Event : e.id = f.id => e.turn = f.turn

\* No session is left out of the database.
SessionsFit == Cardinality(Session) <= MaxPersisted

\* A record of a session s that events left: a recorded turn carries the stamp of an
\* event of its own and only the current one may be as new as the session; the
\* session's stamp is that of a session event or of the event its current turn
\* carries.
CarriesEvent(s, t, record) ==
    \E h \in Event : h.session = s /\ h.turn = t /\ h.time = record.time /\ h.id = record.id

Chronicle(s, rec) ==
    /\ \A t \in Turn : rec.turns[t].phase # "none" =>
          /\ CarriesEvent(s, t, rec.turns[t])
          /\ rec.turns[t].time <= rec.time
          /\ t # rec.current => rec.turns[t].time < rec.time
    /\ rec.current # NoTurn => rec.turns[rec.current].phase # "none"
    /\ \E g \in Event :
          /\ g.session = s /\ g.time = rec.time /\ g.id = rec.id
          /\ g.turn # NoTurn => /\ rec.current = g.turn
                                /\ rec.turns[g.turn].phase # "none"
                                /\ rec.turns[g.turn].time = rec.time

Chronicled(sessions) ==
    \A s \in Session : sessions[s].life # "unknown" => Chronicle(s, sessions[s])

\* The session is as new as the event; its turn is too, or is not recorded (a restart
\* forgets the turns that are not current) and the session is newer.
Over(rec, e) ==
    /\ rec.life # "unknown" /\ e.time <= rec.time
    /\ e.turn # NoTurn =>
          IF rec.turns[e.turn].phase = "none" THEN e.time < rec.time
          ELSE e.time <= rec.turns[e.turn].time

LEMMA RecordFields ==
    ASSUME NEW rec \in SessionRecord
    PROVE  /\ rec.time \in Nat /\ rec.id \in Nat
           /\ rec.turns \in [Turn -> TurnRecord]
           /\ rec.current \in Turn \cup {NoTurn}
           /\ \A t \in Turn : rec.turns[t].time \in Nat /\ rec.turns[t].id \in Nat
BY DEF SessionRecord, TurnRecord

LEMMA SessionEventTurn ==
    ASSUME NEW e \in Event
    PROVE  e.type \in SessionEvent <=> e.turn = NoTurn
BY EventAssumption DEF SessionEvent, TurnEvent

\* Nothing that is over applies.
LEMMA OverDoesNotApply ==
    ASSUME StampsTellEventsApart, NEW r \in Reducer, NEW e \in Event,
           Over(r.sessions[e.session], e), Chronicle(e.session, r.sessions[e.session])
    PROVE  ~EventApplies(r, e)
<1> DEFINE rec == r.sessions[e.session]
<1>1. rec \in SessionRecord /\ rec.life # "unknown" /\ RecordFor(r, e) = rec
  BY EventFields DEF Reducer, Over, RecordFor
<1>2. Over(rec, e) /\ Chronicle(e.session, rec)
  OBVIOUS
<1>3. EventApplies(r, e) = IF e.type \in SessionEvent THEN SessionEventApplies(rec, e)
                           ELSE TurnEventApplies(rec, e)
  BY <1>1 DEF EventApplies
<1> HIDE DEF rec
<1>4. e.time \in Nat /\ e.id \in Nat /\ rec.time \in Nat /\ rec.id \in Nat /\ e.time <= rec.time
  BY <1>1, <1>2, EventFields, RecordFields DEF Over
<1>5. PICK g \in Event :
         /\ g.session = e.session /\ g.time = rec.time /\ g.id = rec.id
         /\ g.turn # NoTurn => /\ rec.current = g.turn
                               /\ rec.turns[g.turn].phase # "none"
                               /\ rec.turns[g.turn].time = rec.time
  BY <1>2 DEF Chronicle
<1>6. e.time = rec.time => e.id = rec.id
  BY <1>5 DEF StampsTellEventsApart
<1>7. ~Before(rec, e)
  BY <1>4, <1>6 DEF Before
<1>8. CASE e.type \in SessionEvent
  BY <1>1, <1>3, <1>7, <1>8 DEF SessionEventApplies
<1>9. CASE e.type \notin SessionEvent
  <2>1. e.turn # NoTurn /\ e.turn \in Turn
    BY <1>9, SessionEventTurn, EventFields
  <2>2. CASE rec.turns[e.turn].phase = "none"
    <3>1. e.id # rec.id
      BY <1>5, <2>1, <2>2 DEF StampsTellEventsApart
    <3> QED
      BY <1>3, <1>7, <1>9, <2>2, <3>1 DEF TurnEventApplies
  <2>3. CASE rec.turns[e.turn].phase # "none"
    <3>1. PICK h \in Event : /\ h.session = e.session /\ h.time = rec.turns[e.turn].time
                             /\ h.id = rec.turns[e.turn].id
      BY <1>2, <2>1, <2>3 DEF Chronicle, CarriesEvent
    <3>2. e.time <= rec.turns[e.turn].time
      BY <1>2, <2>1, <2>3 DEF Over
    <3>3. e.time = rec.turns[e.turn].time => e.id = rec.turns[e.turn].id
      BY <3>1 DEF StampsTellEventsApart
    <3>4. rec.turns[e.turn].time \in Nat /\ rec.turns[e.turn].id \in Nat
      BY <1>1, <2>1, RecordFields
    <3>5. ~Before(rec.turns[e.turn], e)
      BY <1>4, <3>2, <3>3, <3>4 DEF Before
    <3> QED
      BY <1>3, <1>9, <2>3, <3>5 DEF TurnEventApplies
  <2> QED
    BY <2>2, <2>3
<1> QED
  BY <1>8, <1>9

\* The projection forgets turns that are not current, and so older than the session.
LEMMA ProjectionChronicles ==
    ASSUME NEW s \in Session, NEW rec \in SessionRecord, Chronicle(s, rec)
    PROVE  /\ Chronicle(s, ProjectedSession(rec))
           /\ \A e \in Event : Over(rec, e) => Over(ProjectedSession(rec), e)
<1> DEFINE p == ProjectedSession(rec)
<1>1. /\ p.life = rec.life /\ p.time = rec.time /\ p.current = rec.current /\ p.id = rec.id
      /\ p.turns = [t \in Turn |-> IF t = rec.current THEN rec.turns[t] ELSE NoRecord]
  BY DEF ProjectedSession, SessionRecord
<1> HIDE DEF p
<1>2. \A t \in Turn : p.turns[t].phase # "none" => t = rec.current /\ p.turns[t] = rec.turns[t]
  BY <1>1 DEF NoRecord
<1>3. rec.current # NoTurn => rec.current \in Turn /\ p.turns[rec.current] = rec.turns[rec.current]
  BY <1>1, RecordFields
<1>4. Chronicle(s, p)
  <2>1. \A t \in Turn : p.turns[t].phase # "none" =>
           /\ CarriesEvent(s, t, p.turns[t])
           /\ p.turns[t].time <= p.time
           /\ t # p.current => p.turns[t].time < p.time
    BY <1>1, <1>2 DEF Chronicle
  <2>2. p.current # NoTurn => p.turns[p.current].phase # "none"
    BY <1>1, <1>3 DEF Chronicle
  <2>3. \E g \in Event :
           /\ g.session = s /\ g.time = p.time /\ g.id = p.id
           /\ g.turn # NoTurn => /\ p.current = g.turn
                                 /\ p.turns[g.turn].phase # "none"
                                 /\ p.turns[g.turn].time = p.time
    BY <1>1, <1>3 DEF Chronicle
  <2> QED
    BY <2>1, <2>2, <2>3 DEF Chronicle
<1>5. ASSUME NEW e \in Event, Over(rec, e) PROVE Over(p, e)
  <2>1. p.life # "unknown" /\ e.time <= p.time
    BY <1>1, <1>5 DEF Over
  <2>2. ASSUME e.turn # NoTurn
        PROVE  IF p.turns[e.turn].phase = "none" THEN e.time < p.time
               ELSE e.time <= p.turns[e.turn].time
    <3>1. e.turn \in Turn /\ e.time \in Nat /\ rec.time \in Nat /\ rec.turns[e.turn].time \in Nat
      BY <2>2, EventFields, RecordFields
    <3>2. CASE p.turns[e.turn].phase # "none"
      BY <1>2, <1>5, <2>2, <3>1, <3>2 DEF Over
    <3>3. CASE p.turns[e.turn].phase = "none"
      <4>1. CASE rec.turns[e.turn].phase = "none"
        BY <1>1, <1>5, <2>2, <3>3, <4>1 DEF Over
      <4>2. CASE rec.turns[e.turn].phase # "none"
        <5>1. e.turn # rec.current
          BY <1>3, <2>2, <3>3, <4>2
        <5>2. e.time <= rec.turns[e.turn].time /\ rec.turns[e.turn].time < rec.time
          BY <1>5, <2>2, <3>1, <4>2, <5>1 DEF Over, Chronicle
        <5> QED
          BY <1>1, <3>1, <3>3, <5>2
      <4> QED
        BY <4>1, <4>2
    <3> QED
      BY <3>2, <3>3
  <2> QED
    BY <2>1, <2>2 DEF Over
<1> QED
  BY <1>4, <1>5 DEF p

\* The first event of a session.
LEMMA FirstChronicle ==
    ASSUME NEW r \in Reducer, NEW e \in Event, r.sessions[e.session].life = "unknown"
    PROVE  LET after == AfterEvent(r, e) IN Chronicle(e.session, after) /\ Over(after, e)
<1> DEFINE after == AfterEvent(r, e)
<1>1. e.time \in Nat /\ e.id \in Nat
  BY EventFields
<1>2. CASE e.type \in SessionEvent
  <2>1. PICK life \in {"open", "ended"} : after = NewSession(life, e.time, e.id)
    BY <1>2 DEF AfterEvent, AfterSessionEvent
  <2> HIDE DEF after
  <2>2. /\ after.life = life /\ after.time = e.time /\ after.id = e.id
        /\ after.current = NoTurn /\ \A t \in Turn : after.turns[t].phase = "none"
    BY <2>1 DEF NewSession, NoRecord
  <2>3. e.turn = NoTurn
    BY <1>2, SessionEventTurn
  <2>4. Chronicle(e.session, after)
    BY <2>2, <2>3 DEF Chronicle
  <2>5. Over(after, e)
    BY <1>1, <2>2, <2>3 DEF Over
  <2> QED
    BY <2>4, <2>5 DEF after
<1>3. CASE e.type \notin SessionEvent
  <2> DEFINE rec == NewSession("open", e.time, e.id)
             record == [phase |-> PhaseAfter(e.type), time |-> e.time, id |-> e.id]
  <2>1. /\ rec.current = NoTurn /\ rec.time = e.time /\ rec.id = e.id
        /\ rec.turns = [t \in Turn |-> NoRecord]
    BY DEF NewSession
  <2>2. after = AfterTurnEvent(rec, e)
    BY <1>3 DEF AfterEvent, RecordFor
  <2> HIDE DEF rec, after
  <2>3. /\ after.life = "open" /\ after.current = e.turn
        /\ after.turns = [rec.turns EXCEPT ![e.turn] = record]
        /\ after.time = e.time /\ after.id = e.id
    BY <1>1, <2>1, <2>2 DEF AfterTurnEvent, BecomesCurrent
  <2>4. e.turn \in Turn /\ record.phase # "none" /\ record.time = e.time /\ record.id = e.id
    BY <1>3, EventFields, PhaseAfterType
  <2> HIDE DEF record
  <2>5. /\ after.turns[e.turn] = record
        /\ \A t \in Turn : t # e.turn => after.turns[t].phase = "none"
    BY <2>1, <2>3, <2>4 DEF NoRecord
  <2>6. CarriesEvent(e.session, e.turn, record)
    BY <2>4 DEF CarriesEvent
  <2>7. Chronicle(e.session, after)
    BY <1>1, <2>3, <2>4, <2>5, <2>6 DEF Chronicle
  <2>8. Over(after, e)
    BY <1>1, <2>3, <2>4, <2>5 DEF Over
  <2> QED
    BY <2>7, <2>8 DEF after
<1> QED
  BY <1>2, <1>3

\* An event that starts or ends a known session is newer than all it left.
LEMMA SessionEventChronicles ==
    ASSUME StampsTellEventsApart, NEW rec \in SessionRecord, rec.life # "unknown",
           NEW e \in Event, e.type \in SessionEvent, SessionEventApplies(rec, e),
           Chronicle(e.session, rec)
    PROVE  LET after == AfterSessionEvent(rec, e)
           IN  /\ Chronicle(e.session, after) /\ Over(after, e)
               /\ \A f \in Event : f.session = e.session /\ Over(rec, f) => Over(after, f)
<1> DEFINE after == AfterSessionEvent(rec, e)
           life == IF e.type = "session_started" THEN "open" ELSE "ended"
<1>1. e.time \in Nat /\ e.id \in Nat /\ rec.time \in Nat /\ rec.id \in Nat /\ e.turn = NoTurn
  BY EventFields, RecordFields, SessionEventTurn
<1>2. PICK g \in Event : g.session = e.session /\ g.time = rec.time /\ g.id = rec.id
  BY DEF Chronicle
<1>3. rec.time < e.time
  <2>1. Before(rec, e)
    BY DEF SessionEventApplies
  <2>2. e.time = rec.time => e.id = rec.id
    BY <1>2 DEF StampsTellEventsApart
  <2> QED
    BY <1>1, <2>1, <2>2 DEF Before
<1>4. /\ after.life = life /\ after.time = e.time /\ after.id = e.id
      /\ after.turns = rec.turns
      /\ after.current = rec.current \/ after.current = NoTurn
  BY DEF AfterSessionEvent, SessionRecord
<1>5. life # "unknown"
  OBVIOUS
<1> HIDE DEF after, life
<1>6. Chronicle(e.session, after)
  <2>1. \A t \in Turn : after.turns[t].phase # "none" =>
           /\ CarriesEvent(e.session, t, after.turns[t])
           /\ after.turns[t].time < after.time
    <3>1. SUFFICES ASSUME NEW t \in Turn, rec.turns[t].phase # "none"
                   PROVE  CarriesEvent(e.session, t, rec.turns[t]) /\ rec.turns[t].time < e.time
      BY <1>4
    <3>2. rec.turns[t].time \in Nat
      BY RecordFields
    <3> QED
      BY <1>1, <1>3, <3>1, <3>2 DEF Chronicle
  <2>2. \A t \in Turn : after.turns[t].time \in Nat
    BY <1>4, RecordFields
  <2>3. after.current # NoTurn => after.turns[after.current].phase # "none"
    BY <1>4 DEF Chronicle
  <2> QED
    BY <1>1, <1>4, <2>1, <2>2, <2>3 DEF Chronicle
<1>7. Over(after, e)
  BY <1>1, <1>4, <1>5 DEF Over
<1>8. ASSUME NEW f \in Event, Over(rec, f) PROVE Over(after, f)
  <2>1. f.time \in Nat /\ f.time < e.time
    BY <1>1, <1>3, <1>8, EventFields DEF Over
  <2> QED
    BY <1>1, <1>4, <1>5, <1>8, <2>1 DEF Over
<1> QED
  BY <1>6, <1>7, <1>8 DEF after

\* An event of a turn that is recorded moves that turn; one that is not is newer than
\* the session.
LEMMA AppliedTurnIsNewer ==
    ASSUME StampsTellEventsApart, NEW rec \in SessionRecord,
           NEW e \in Event, e.type \notin SessionEvent, TurnEventApplies(rec, e),
           Chronicle(e.session, rec)
    PROVE  /\ rec.turns[e.turn].phase = "none" => rec.time < e.time
           /\ rec.turns[e.turn].phase # "none" => rec.turns[e.turn].time < e.time
           /\ e.time # rec.time
<1>1. /\ e.time \in Nat /\ e.id \in Nat /\ rec.time \in Nat /\ rec.id \in Nat
      /\ e.turn \in Turn /\ e.turn # NoTurn
      /\ rec.turns[e.turn].time \in Nat /\ rec.turns[e.turn].id \in Nat
  BY EventFields, RecordFields, SessionEventTurn
<1>2. PICK g \in Event :
         /\ g.session = e.session /\ g.time = rec.time /\ g.id = rec.id
         /\ g.turn # NoTurn => /\ rec.current = g.turn
                               /\ rec.turns[g.turn].phase # "none"
                               /\ rec.turns[g.turn].time = rec.time
  BY DEF Chronicle
<1>3. rec.turns[e.turn].phase = "none" => rec.time < e.time
  <2>1. SUFFICES ASSUME rec.turns[e.turn].phase = "none" PROVE rec.time < e.time
    OBVIOUS
  <2>2. e.id # rec.id
    BY <1>1, <1>2, <2>1 DEF StampsTellEventsApart
  <2>3. Before(rec, e)
    BY <2>1, <2>2 DEF TurnEventApplies
  <2>4. e.time = rec.time => e.id = rec.id
    BY <1>2 DEF StampsTellEventsApart
  <2> QED
    BY <1>1, <2>3, <2>4 DEF Before
<1>4. rec.turns[e.turn].phase # "none" => rec.turns[e.turn].time < e.time
  <2>1. SUFFICES ASSUME rec.turns[e.turn].phase # "none" PROVE rec.turns[e.turn].time < e.time
    OBVIOUS
  <2>2. PICK h \in Event : /\ h.session = e.session /\ h.time = rec.turns[e.turn].time
                           /\ h.id = rec.turns[e.turn].id
    BY <1>1, <2>1 DEF Chronicle, CarriesEvent
  <2>3. e.time = rec.turns[e.turn].time => e.id = rec.turns[e.turn].id
    BY <2>2 DEF StampsTellEventsApart
  <2>4. Before(rec.turns[e.turn], e)
    BY <2>1 DEF TurnEventApplies
  <2> QED
    BY <1>1, <2>3, <2>4 DEF Before
<1>5. e.time # rec.time
  <2>1. SUFFICES ASSUME e.time = rec.time PROVE FALSE
    OBVIOUS
  <2>2. g = e
    BY <1>2, <2>1 DEF StampsTellEventsApart
  <2>3. rec.turns[e.turn].phase # "none" /\ rec.turns[e.turn].time = rec.time
    BY <1>1, <1>2, <2>2
  <2> QED
    BY <1>1, <1>4, <2>1, <2>3
<1> QED
  BY <1>3, <1>4, <1>5

LEMMA TurnEventChronicles ==
    ASSUME StampsTellEventsApart, NEW rec \in SessionRecord, rec.life # "unknown",
           NEW e \in Event, e.type \notin SessionEvent, TurnEventApplies(rec, e),
           Chronicle(e.session, rec)
    PROVE  LET after == AfterTurnEvent(rec, e)
           IN  /\ Chronicle(e.session, after) /\ Over(after, e)
               /\ \A f \in Event : f.session = e.session /\ Over(rec, f) => Over(after, f)
<1> DEFINE after == AfterTurnEvent(rec, e)
           record == [phase |-> PhaseAfter(e.type), time |-> e.time, id |-> e.id]
           turns == [rec.turns EXCEPT ![e.turn] = record]
           s == e.session
<1>1. /\ e.time \in Nat /\ e.id \in Nat /\ rec.time \in Nat /\ rec.id \in Nat
      /\ e.turn \in Turn /\ e.turn # NoTurn
  BY EventFields, RecordFields, SessionEventTurn
<1>2. /\ rec.turns[e.turn].phase = "none" => rec.time < e.time
      /\ rec.turns[e.turn].phase # "none" => rec.turns[e.turn].time < e.time
      /\ e.time # rec.time
  BY AppliedTurnIsNewer
<1>3. record.phase # "none" /\ record.time = e.time /\ record.id = e.id
  BY PhaseAfterType
<1>4. /\ after.life = "open" /\ after.turns = turns
      /\ after.current = IF BecomesCurrent(rec, turns, e) THEN e.turn ELSE rec.current
      /\ after.time = IF e.time >= rec.time THEN e.time ELSE rec.time
      /\ after.id = IF e.time >= rec.time THEN e.id ELSE rec.id
  BY DEF AfterTurnEvent
<1>5. turns[e.turn] = record /\ \A t \in Turn : t # e.turn => turns[t] = rec.turns[t]
  BY <1>1, RecordFields
<1>6. \A t \in Turn : rec.turns[t].time \in Nat /\ rec.turns[t].id \in Nat
  BY RecordFields
<1>7. CarriesEvent(s, e.turn, record)
  BY <1>3 DEF CarriesEvent
<1>8. rec.current # NoTurn => /\ rec.current \in Turn /\ rec.turns[rec.current].phase # "none"
                              /\ rec.turns[rec.current].time <= rec.time
  BY RecordFields DEF Chronicle
<1>9. PICK g \in Event :
         /\ g.session = s /\ g.time = rec.time /\ g.id = rec.id
         /\ g.turn # NoTurn => /\ rec.current = g.turn
                               /\ rec.turns[g.turn].phase # "none"
                               /\ rec.turns[g.turn].time = rec.time
  BY DEF Chronicle
<1>10. \A t \in Turn : rec.turns[t].phase # "none" =>
          /\ CarriesEvent(s, t, rec.turns[t])
          /\ rec.turns[t].time <= rec.time
          /\ t # rec.current => rec.turns[t].time < rec.time
  BY DEF Chronicle
<1> HIDE DEF after, turns, record, s
<1>11. BecomesCurrent(rec, turns, e)
          = \/ rec.current = NoTurn
            \/ Before(turns[rec.current], e)
            \/ /\ turns[rec.current].time = e.time /\ turns[rec.current].id = e.id
               /\ rec.current <= e.turn
  BY DEF BecomesCurrent
<1>12. after.time \in Nat /\ after.time >= rec.time /\ after.time >= e.time
  BY <1>1, <1>4
<1>13. ASSUME e.time > rec.time PROVE Chronicle(s, after)
  <2>1. after.time = e.time /\ after.id = e.id
    BY <1>1, <1>4, <1>13
  <2>2. after.current = e.turn
    <3>1. CASE rec.current \in {NoTurn, e.turn}
      BY <1>4, <1>11, <3>1
    <3>2. CASE rec.current \notin {NoTurn, e.turn}
      <4>1. turns[rec.current] = rec.turns[rec.current] /\ rec.turns[rec.current].time < e.time
        BY <1>1, <1>5, <1>6, <1>8, <1>13, <3>2
      <4> QED
        BY <1>4, <1>11, <4>1 DEF Before
    <3> QED
      BY <3>1, <3>2
  <2>3. \A t \in Turn : after.turns[t].phase # "none" =>
           /\ CarriesEvent(s, t, after.turns[t])
           /\ after.turns[t].time <= after.time
           /\ t # after.current => after.turns[t].time < after.time
    <3>1. SUFFICES ASSUME NEW t \in Turn, turns[t].phase # "none"
                   PROVE  /\ CarriesEvent(s, t, turns[t]) /\ turns[t].time <= e.time
                          /\ t # e.turn => turns[t].time < e.time
      BY <1>4, <2>1, <2>2
    <3>2. CASE t = e.turn
      BY <1>1, <1>3, <1>5, <1>7, <3>2
    <3>3. CASE t # e.turn
      <4>1. turns[t] = rec.turns[t]
        BY <1>5, <3>3
      <4> QED
        BY <1>1, <1>6, <1>10, <1>13, <3>1, <4>1
    <3> QED
      BY <3>2, <3>3
  <2>4. after.turns[e.turn].phase # "none" /\ after.turns[e.turn].time = after.time
    BY <1>3, <1>4, <1>5, <2>1
  <2>5. \E h \in Event :
           /\ h.session = s /\ h.time = after.time /\ h.id = after.id
           /\ h.turn # NoTurn => /\ after.current = h.turn
                                 /\ after.turns[h.turn].phase # "none"
                                 /\ after.turns[h.turn].time = after.time
    BY <2>1, <2>2, <2>4 DEF s
  <2> QED
    BY <2>2, <2>3, <2>4, <2>5 DEF Chronicle
<1>14. ASSUME e.time < rec.time PROVE Chronicle(s, after)
  <2>1. after.time = rec.time /\ after.id = rec.id
    BY <1>1, <1>4, <1>14
  <2>2. rec.turns[e.turn].phase # "none" /\ rec.turns[e.turn].time < e.time
    BY <1>1, <1>2, <1>14
  <2>3. \A t \in Turn : turns[t].phase # "none" <=> rec.turns[t].phase # "none"
    BY <1>3, <1>5, <2>2
  <2>4. ASSUME rec.current # NoTurn, rec.turns[rec.current].time = rec.time
        PROVE  rec.current # e.turn /\ after.current = rec.current
    <3>1. rec.current # e.turn
      BY <1>1, <1>14, <2>2, <2>4
    <3>2. turns[rec.current] = rec.turns[rec.current]
      BY <1>5, <1>8, <2>4, <3>1
    <3>3. ~BecomesCurrent(rec, turns, e)
      BY <1>1, <1>11, <1>14, <2>4, <3>2 DEF Before
    <3> QED
      BY <1>4, <3>1, <3>3
  <2>5. \A t \in Turn : after.turns[t].phase # "none" =>
           /\ CarriesEvent(s, t, after.turns[t])
           /\ after.turns[t].time <= after.time
           /\ t # after.current => after.turns[t].time < after.time
    <3>1. SUFFICES ASSUME NEW t \in Turn, turns[t].phase # "none"
                   PROVE  /\ CarriesEvent(s, t, turns[t]) /\ turns[t].time <= rec.time
                          /\ t # after.current => turns[t].time < rec.time
      BY <1>4, <2>1
    <3>2. CASE t = e.turn
      BY <1>1, <1>3, <1>5, <1>7, <1>14, <3>2
    <3>3. CASE t # e.turn
      <4>1. turns[t] = rec.turns[t] /\ rec.turns[t].phase # "none"
        BY <1>5, <3>1, <3>3
      <4>2. CASE t # rec.current \/ rec.turns[t].time # rec.time
        BY <1>1, <1>6, <1>10, <4>1, <4>2
      <4>3. CASE t = rec.current /\ rec.turns[t].time = rec.time
        <5>1. t # NoTurn
          BY EventAssumption
        <5>2. after.current = t
          BY <2>4, <4>3, <5>1
        <5> QED
          BY <1>6, <1>10, <4>1, <5>2
      <4> QED
        BY <4>2, <4>3
    <3> QED
      BY <3>2, <3>3
  <2>6. after.current # NoTurn => after.turns[after.current].phase # "none"
    BY <1>1, <1>4, <1>8, <2>2, <2>3
  <2>7. ASSUME g.turn # NoTurn
        PROVE  /\ after.current = g.turn /\ after.turns[g.turn].phase # "none"
               /\ after.turns[g.turn].time = after.time
    <3>1. rec.current = g.turn /\ rec.current # NoTurn /\ rec.turns[rec.current].time = rec.time
      BY <1>9, <2>7
    <3>2. after.current = g.turn /\ g.turn # e.turn /\ g.turn \in Turn
      BY <1>8, <2>4, <3>1
    <3>3. after.turns[g.turn] = rec.turns[g.turn]
      BY <1>4, <1>5, <3>2
    <3> QED
      BY <1>9, <2>1, <2>7, <3>2, <3>3
  <2>8. \E h \in Event :
           /\ h.session = s /\ h.time = after.time /\ h.id = after.id
           /\ h.turn # NoTurn => /\ after.current = h.turn
                                 /\ after.turns[h.turn].phase # "none"
                                 /\ after.turns[h.turn].time = after.time
    <3>1. g.session = s /\ g.time = after.time /\ g.id = after.id
      BY <1>9, <2>1
    <3> QED
      BY <2>7, <3>1
  <2> QED
    BY <2>5, <2>6, <2>8 DEF Chronicle
<1>15. Chronicle(s, after)
  BY <1>1, <1>2, <1>13, <1>14
<1>16. Over(after, e)
  BY <1>1, <1>3, <1>4, <1>5, <1>12 DEF Over
<1>17. ASSUME NEW f \in Event, Over(rec, f) PROVE Over(after, f)
  <2>1. after.life # "unknown" /\ f.time <= rec.time /\ f.time \in Nat
    BY <1>4, <1>17, EventFields DEF Over
  <2>2. f.time <= after.time
    BY <1>1, <1>12, <2>1
  <2>3. CASE f.turn = NoTurn
    BY <2>1, <2>2, <2>3 DEF Over
  <2>4. CASE f.turn # NoTurn /\ f.turn # e.turn
    <3>1. f.turn \in Turn
      BY <2>4, EventFields
    <3>2. after.turns[f.turn] = rec.turns[f.turn]
      BY <1>4, <1>5, <2>4, <3>1
    <3> QED
      BY <1>1, <1>12, <1>17, <2>1, <2>2, <2>4, <3>2 DEF Over
  <2>5. CASE f.turn = e.turn
    <3>1. f.time <= e.time
      BY <1>1, <1>2, <1>6, <1>17, <2>1, <2>5 DEF Over
    <3> QED
      BY <1>3, <1>4, <1>5, <2>1, <2>2, <2>5, <3>1 DEF Over
  <2> QED
    BY <2>3, <2>4, <2>5
<1> QED
  BY <1>15, <1>16, <1>17 DEF after, s

LEMMA NotificationRankType ==
    ASSUME NEW r \in Reducer, NEW s \in Session
    PROVE  NotificationRank(r, s) \in Nat
<1> DEFINE P == {Priority(n) : n \in Unread(OfSession(r.notifications, s))}
           S == {0} \cup P
<1>1. P \subseteq {1, 2, 3}
  BY DEF Priority
<1> HIDE DEF P
<1>2. \E x \in S : \A y \in S : x >= y
  <2>1. CASE 3 \in P
    BY <1>1, <2>1
  <2>2. CASE 3 \notin P /\ 2 \in P
    BY <1>1, <2>2
  <2>3. CASE 3 \notin P /\ 2 \notin P /\ 1 \in P
    BY <1>1, <2>3
  <2>4. CASE P = {}
    BY <2>4
  <2> QED
    BY <1>1, <2>1, <2>2, <2>3, <2>4
<1>3. Max(S) \in S
  BY <1>2 DEF Max
<1> QED
  BY <1>1, <1>3 DEF NotificationRank, P

\* While every session has its place in the database the projection keeps them all.
LEMMA AllArePersisted ==
    ASSUME SessionsFit, NEW r \in Reducer
    PROVE  Persisted(r) = Known(r.sessions)
<1>1. SUFFICES ASSUME NEW s \in Known(r.sessions)
               PROVE  Cardinality({t \in Known(r.sessions) : Outranks(r, t, s)}) < MaxPersisted
  BY DEF Persisted
<1> DEFINE above == {t \in Known(r.sessions) : Outranks(r, t, s)}
<1>2. s \in Session /\ IsFiniteSet(Session)
  BY EventAssumption DEF Known
<1>3. ~Outranks(r, s, s)
  <2>1. s \in Nat /\ r.sessions[s].time \in Nat
    BY <1>2, EventAssumption, RecordFields DEF Reducer
  <2>2. PhaseRank(r.sessions[s]) \in Nat
    BY DEF PhaseRank
  <2> DEFINE a == NotificationRank(r, s)
             b == PhaseRank(r.sessions[s])
             c == r.sessions[s].time
  <2>3. a \in Nat
    BY <1>2, NotificationRankType
  <2>4. Outranks(r, s, s) = \/ a > a
                            \/ a = a /\ b > b
                            \/ a = a /\ b = b /\ c > c
                            \/ <<a, b, c>> = <<a, b, c>> /\ s < s
    BY DEF Outranks
  <2> HIDE DEF a, b, c
  <2>5. ~(a > a) /\ ~(b > b) /\ ~(c > c) /\ ~(s < s)
    BY <2>1, <2>2, <2>3 DEF b, c
  <2> QED
    BY <2>4, <2>5
<1>4. above \subseteq Session \ {s}
  BY <1>3 DEF Known
<1>5. IsFiniteSet(Session \ {s}) /\ Cardinality(Session \ {s}) = Cardinality(Session) - 1
  BY <1>2, FS_RemoveElement
<1>6. IsFiniteSet(above) /\ Cardinality(above) <= Cardinality(Session \ {s})
  BY <1>4, <1>5, FS_Subset
<1>7. Cardinality(above) \in Nat /\ Cardinality(Session) \in Nat /\ MaxPersisted \in Nat
  BY <1>2, <1>6, FS_CardinalityType, BoundTypes
<1> QED
  BY <1>5, <1>6, <1>7 DEF SessionsFit

\* What a step does to what is over, a crash or an exit included.
LEMMA OverStep ==
    ASSUME StampsTellEventsApart, SessionsFit, EndInv, Chronicled(reducer.sessions), [Next]_vars
    PROVE  /\ Chronicled(reducer'.sessions)
           /\ \A e \in Event :
                 /\ ApplyEvent(e) => /\ ~Over(reducer.sessions[e.session], e)
                                     /\ Over(reducer'.sessions[e.session], e)
                 /\ Over(reducer.sessions[e.session], e) => Over(reducer'.sessions[e.session], e)
<1>1. reducer \in Reducer /\ reducer.sessions \in [Session -> SessionRecord]
  BY DEF EndInv, DurableInv, CardInv, TypeOK, Reducer
<1>2. \A e \in Event : e.session \in Session
  BY EventFields
<1>3. ASSUME NEW f \in Event, ApplyEvent(f)
      PROVE  /\ Chronicled(reducer'.sessions)
             /\ Over(reducer'.sessions[f.session], f)
             /\ \A e \in Event : Over(reducer.sessions[e.session], e)
                                   => Over(reducer'.sessions[e.session], e)
  <2> DEFINE rec == reducer.sessions[f.session]
             after == AfterEvent(reducer, f)
  <2>1. reducer'.sessions = [reducer.sessions EXCEPT ![f.session] = after]
        /\ EventApplies(reducer, f)
    BY <1>3, AppliedSessions
  <2>2. rec \in SessionRecord /\ f.session \in Session
    BY <1>1, <1>2
  <2>3. /\ Chronicle(f.session, after) /\ Over(after, f)
        /\ \A e \in Event : e.session = f.session /\ Over(rec, e) => Over(after, e)
    <3>1. CASE rec.life = "unknown"
      BY <1>1, <3>1, FirstChronicle DEF Over
    <3>2. CASE rec.life # "unknown"
      <4>1. Chronicle(f.session, rec) /\ RecordFor(reducer, f) = rec
        BY <2>2, <3>2 DEF Chronicled, RecordFor
      <4>2. CASE f.type \in SessionEvent
        <5>1. after = AfterSessionEvent(rec, f) /\ SessionEventApplies(rec, f)
          BY <2>1, <4>2 DEF AfterEvent, EventApplies
        <5> QED
          BY <2>2, <3>2, <4>1, <4>2, <5>1, SessionEventChronicles
      <4>3. CASE f.type \notin SessionEvent
        <5>1. after = AfterTurnEvent(rec, f) /\ TurnEventApplies(rec, f)
          BY <2>1, <4>1, <4>3 DEF AfterEvent, EventApplies
        <5> QED
          BY <2>2, <3>2, <4>1, <4>3, <5>1, TurnEventChronicles
      <4> QED
        BY <4>2, <4>3
    <3> QED
      BY <3>1, <3>2
  <2> HIDE DEF after
  <2>4. /\ reducer'.sessions[f.session] = after
        /\ \A s \in Session : s # f.session => reducer'.sessions[s] = reducer.sessions[s]
    BY <1>1, <2>1, <2>2
  <2>5. Chronicled(reducer'.sessions)
    BY <2>3, <2>4 DEF Chronicled
  <2> QED
    BY <1>2, <2>3, <2>4, <2>5
<1>4. ASSUME reducer'.sessions = PersistentState(reducer).sessions
      PROVE  /\ Chronicled(reducer'.sessions)
             /\ \A e \in Event : Over(reducer.sessions[e.session], e)
                                   => Over(reducer'.sessions[e.session], e)
  <2> DEFINE p == PersistentState(reducer)
  <2>1. p.sessions = [s \in Session |-> IF s \in Known(reducer.sessions)
                                        THEN ProjectedSession(reducer.sessions[s])
                                        ELSE UnknownSession]
    BY <1>1, AllArePersisted DEF PersistentState
  <2> HIDE DEF p
  <2>2. \A s \in Session :
           p.sessions[s] = IF reducer.sessions[s].life # "unknown"
                           THEN ProjectedSession(reducer.sessions[s]) ELSE UnknownSession
    BY <2>1 DEF Known
  <2>3. ASSUME NEW s \in Session, p.sessions[s].life # "unknown" PROVE Chronicle(s, p.sessions[s])
    <3>1. reducer.sessions[s].life # "unknown"
      BY <2>2, <2>3 DEF UnknownSession, NewSession
    <3>2. Chronicle(s, reducer.sessions[s]) /\ reducer.sessions[s] \in SessionRecord
      BY <1>1, <3>1 DEF Chronicled
    <3> QED
      BY <2>2, <3>1, <3>2, ProjectionChronicles
  <2>4. ASSUME NEW e \in Event, Over(reducer.sessions[e.session], e)
        PROVE  Over(p.sessions[e.session], e)
    <3>1. reducer.sessions[e.session].life # "unknown"
      BY <2>4 DEF Over
    <3>2. /\ Chronicle(e.session, reducer.sessions[e.session])
          /\ reducer.sessions[e.session] \in SessionRecord
      BY <1>1, <1>2, <3>1 DEF Chronicled
    <3>3. Over(ProjectedSession(reducer.sessions[e.session]), e)
      BY <1>2, <2>4, <3>2, ProjectionChronicles
    <3>4. p.sessions[e.session] = ProjectedSession(reducer.sessions[e.session])
      BY <1>2, <2>2, <3>1
    <3> QED
      BY <3>3, <3>4
  <2>5. Chronicled(p.sessions)
    BY <2>3 DEF Chronicled
  <2>6. reducer'.sessions = p.sessions
    BY <1>4 DEF p
  <2> QED
    BY <2>4, <2>5, <2>6
<1>6. ASSUME NEW e \in Event, ApplyEvent(e) PROVE ~Over(reducer.sessions[e.session], e)
  <2>1. SUFFICES ASSUME Over(reducer.sessions[e.session], e) PROVE FALSE
    OBVIOUS
  <2>2. Chronicle(e.session, reducer.sessions[e.session])
    BY <1>2, <2>1 DEF Over, Chronicled
  <2>3. ~EventApplies(reducer, e)
    BY <1>1, <2>1, <2>2, OverDoesNotApply
  <2> QED
    BY <1>6, <2>3, AppliedSessions
<1>7. Chronicled(reducer'.sessions)
      /\ \A e \in Event : Over(reducer.sessions[e.session], e)
                            => Over(reducer'.sessions[e.session], e)
  BY <1>3, <1>4, SessionsMove
<1> QED
  BY <1>3, <1>6, <1>7

LEMMA ChronicledInit == Init => Chronicled(reducer.sessions)
BY DEF Init, EmptyReducer, Chronicled, UnknownSession, NewSession
=============================================================================
