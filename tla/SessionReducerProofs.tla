------------------------- MODULE SessionReducerProofs -------------------------
(***************************************************************************)
(* Lemmas about the operators of SessionReducer, for every set of events   *)
(* and every bound: the values they return and what they preserve.         *)
(***************************************************************************)
EXTENDS SessionReducer, SequenceTheorems, FiniteSetTheorems, TLAPS

LEMMA EventFields ==
    ASSUME NEW e \in Event
    PROVE  /\ e.id \in Nat /\ e.time \in Nat
           /\ e.session \in Session
           /\ e.turn \in Turn \cup {NoTurn}
           /\ e.type \in SessionEvent \cup TurnEvent
           /\ e.type \notin SessionEvent => e.turn \in Turn
BY EventAssumption DEF SessionEvent, TurnEvent, NoTurn

\* A bounded queue stays a queue of the same elements, and within its bound.
LEMMA MoveToBackType ==
    ASSUME NEW S, NEW q \in Seq(S), NEW x \in S, NEW bound \in Nat \ {0}
    PROVE  MoveToBack(q, x, bound) \in Seq(S)
<1> DEFINE kept == IF x \in Range(q)
                   THEN RemoveAt(q, CHOOSE i \in 1..Len(q) : q[i] = x) ELSE q
<1>1. kept \in Seq(S)
  <2>1. CASE x \notin Range(q)
    BY <2>1
  <2>2. CASE x \in Range(q)
    <3>1. PICK i \in 1..Len(q) : q[i] = x
      BY <2>2 DEF Range
    <3> DEFINE j == CHOOSE k \in 1..Len(q) : q[k] = x
    <3>2. j \in 1..Len(q)
      BY <3>1
    <3> HIDE DEF j
    <3>3. SubSeq(q, 1, j - 1) \in Seq(S)
      BY <3>2
    <3>4. SubSeq(q, j + 1, Len(q)) \in Seq(S)
      BY <3>2
    <3>5. RemoveAt(q, j) \in Seq(S)
      BY <3>3, <3>4 DEF RemoveAt
    <3>6. QED
      BY <2>2, <3>5 DEF j
  <2>3. QED
    BY <2>1, <2>2
<1> DEFINE full == Append(kept, x)
<1>2. MoveToBack(q, x, bound) = IF Len(full) > bound THEN Tail(full) ELSE full
  BY DEF MoveToBack
<1> HIDE DEF kept
<1>3. full \in Seq(S) /\ full # <<>>
  BY <1>1, AppendProperties
<1>4. Tail(full) \in Seq(S)
  BY <1>3, HeadTailProperties
<1>5. QED
  BY <1>2, <1>3, <1>4

LEMMA MoveToBackLength ==
    ASSUME NEW S, NEW q \in Seq(S), NEW x \in S, NEW bound \in Nat \ {0},
           Len(q) <= bound
    PROVE  Len(MoveToBack(q, x, bound)) <= bound
<1> DEFINE kept == IF x \in Range(q)
                   THEN RemoveAt(q, CHOOSE i \in 1..Len(q) : q[i] = x) ELSE q
<1>1. kept \in Seq(S) /\ Len(kept) <= Len(q)
  <2>1. CASE x \notin Range(q)
    BY <2>1
  <2>2. CASE x \in Range(q)
    <3>1. PICK i \in 1..Len(q) : q[i] = x
      BY <2>2 DEF Range
    <3> DEFINE j == CHOOSE k \in 1..Len(q) : q[k] = x
    <3>2. j \in 1..Len(q)
      BY <3>1
    <3> HIDE DEF j
    <3>3. SubSeq(q, 1, j - 1) \in Seq(S) /\ Len(SubSeq(q, 1, j - 1)) = j - 1
      BY <3>2
    <3>4. /\ SubSeq(q, j + 1, Len(q)) \in Seq(S)
          /\ Len(SubSeq(q, j + 1, Len(q))) = Len(q) - j
      BY <3>2
    <3> DEFINE before == SubSeq(q, 1, j - 1)
               after == SubSeq(q, j + 1, Len(q))
    <3>5. RemoveAt(q, j) = before \o after
      BY DEF RemoveAt
    <3>6. before \in Seq(S) /\ after \in Seq(S)
      BY <3>3, <3>4
    <3>7. Len(before) = j - 1 /\ Len(after) = Len(q) - j /\ Len(q) \in Nat
      BY <3>3, <3>4
    <3> HIDE DEF before, after
    <3>8. /\ before \o after \in Seq(S)
          /\ Len(before \o after) = Len(before) + Len(after)
      BY <3>6
    <3>9. RemoveAt(q, j) \in Seq(S) /\ Len(RemoveAt(q, j)) <= Len(q)
      BY <3>2, <3>5, <3>7, <3>8
    <3>10. QED
      BY <2>2, <3>9 DEF j
  <2>3. QED
    BY <2>1, <2>2
<1>2. MoveToBack(q, x, bound)
        = IF Len(Append(kept, x)) > bound THEN Tail(Append(kept, x)) ELSE Append(kept, x)
  BY DEF MoveToBack
<1> HIDE DEF kept
<1>3. Len(kept) \in Nat /\ Len(q) \in Nat
  BY <1>1
<1> DEFINE full == Append(kept, x)
<1>4. full \in Seq(S) /\ full # <<>> /\ Len(full) = Len(kept) + 1
  BY <1>1, AppendProperties
<1> HIDE DEF full
<1>5. Len(Tail(full)) = Len(full) - 1
  BY <1>4, HeadTailProperties
<1>6. MoveToBack(q, x, bound) = IF Len(full) > bound THEN Tail(full) ELSE full
  BY <1>2 DEF full
<1>7. QED
  BY <1>1, <1>3, <1>4, <1>5, <1>6

-----------------------------------------------------------------------------
LEMMA BoundTypes ==
    /\ MaxRecent \in Nat \ {0} /\ MaxRetired \in Nat \ {0}
    /\ MaxPersisted \in Nat \ {0}
    /\ MinimumDwell \in Nat /\ ReminderDuration \in Nat
BY BoundAssumption

LEMMA NewSessionType ==
    ASSUME NEW life \in {"unknown", "open", "ended"}, NEW time \in Nat, NEW id \in Nat
    PROVE  NewSession(life, time, id) \in SessionRecord
BY DEF NewSession, SessionRecord, NoRecord, TurnRecord, Phase, NoTurn

LEMMA AfterSessionEventType ==
    ASSUME NEW rec \in SessionRecord, NEW e \in Event
    PROVE  AfterSessionEvent(rec, e) \in SessionRecord
<1>1. e.time \in Nat /\ e.id \in Nat
  BY EventFields
<1>2. CASE rec.life = "unknown"
  BY <1>1, <1>2, NewSessionType DEF AfterSessionEvent
<1>3. CASE rec.life # "unknown"
  BY <1>1, <1>3 DEF AfterSessionEvent, SessionRecord, NoTurn
<1>4. QED
  BY <1>2, <1>3

LEMMA RecordForType ==
    ASSUME NEW r \in Reducer, NEW e \in Event
    PROVE  RecordFor(r, e) \in SessionRecord
<1>1. e.time \in Nat /\ e.id \in Nat /\ e.session \in Session
  BY EventFields
<1>2. r.sessions[e.session] \in SessionRecord
  BY <1>1 DEF Reducer
<1>3. NewSession("open", e.time, e.id) \in SessionRecord
  BY <1>1, NewSessionType
<1>4. QED
  BY <1>2, <1>3 DEF RecordFor

LEMMA PhaseAfterType ==
    ASSUME NEW type
    PROVE  PhaseAfter(type) \in Phase \ {"none"}
BY DEF PhaseAfter, Phase

LEMMA AfterTurnEventType ==
    ASSUME NEW rec \in SessionRecord, NEW e \in Event, e.type \notin SessionEvent
    PROVE  AfterTurnEvent(rec, e) \in SessionRecord
<1>1. e.time \in Nat /\ e.id \in Nat /\ e.turn \in Turn
  BY EventFields
<1>2. [phase |-> PhaseAfter(e.type), time |-> e.time, id |-> e.id] \in TurnRecord
  BY <1>1, PhaseAfterType DEF TurnRecord
<1>3. rec.turns \in [Turn -> TurnRecord]
  BY DEF SessionRecord
<1> DEFINE turns == [rec.turns EXCEPT ![e.turn] =
                      [phase |-> PhaseAfter(e.type), time |-> e.time, id |-> e.id]]
<1>4. turns \in [Turn -> TurnRecord]
  BY <1>2, <1>3
<1>5. StartsNewTurn(rec, e) => rec.current \in Turn
  BY DEF StartsNewTurn, SessionRecord
<1>6. StartsNewTurn(rec, e) => MoveToBack(rec.retired, rec.current, MaxRetired) \in Seq(Turn)
  BY <1>5, MoveToBackType, BoundTypes DEF SessionRecord
<1> DEFINE after == AfterTurnEvent(rec, e)
<1>7. after.life = "open" /\ after.turns = turns
  BY DEF AfterTurnEvent
<1>8. after.current \in Turn \cup {NoTurn}
  BY <1>1 DEF AfterTurnEvent, SessionRecord
<1>9. after.retired \in Seq(Turn)
  BY <1>6 DEF AfterTurnEvent, SessionRecord
<1>10. after.time \in Nat /\ after.id \in Nat
  BY <1>1 DEF AfterTurnEvent, SessionRecord
<1>11. after = [life |-> after.life, current |-> after.current, turns |-> after.turns,
               retired |-> after.retired, time |-> after.time, id |-> after.id]
  BY DEF AfterTurnEvent
<1> HIDE DEF after, turns
<1>12. QED
  BY <1>4, <1>7, <1>8, <1>9, <1>10, <1>11 DEF SessionRecord, after

LEMMA AfterEventType ==
    ASSUME NEW r \in Reducer, NEW e \in Event
    PROVE  AfterEvent(r, e) \in SessionRecord
<1>1. r.sessions[e.session] \in SessionRecord
  BY EventFields DEF Reducer
<1>2. QED
  BY <1>1, RecordForType, AfterSessionEventType, AfterTurnEventType DEF AfterEvent

-----------------------------------------------------------------------------
LEMMA ResolveAttentionKeeps ==
    ASSUME NEW ns \in SUBSET Notification, NEW e \in Event, NEW m \in ResolveAttention(ns, e)
    PROVE  \E n \in ns :
              \/ m = n
              \/ (n.kind = "attention" /\ m = [n EXCEPT !.state = "resolved"])
BY DEF ResolveAttention

LEMMA ResolveAttentionType ==
    ASSUME NEW ns \in SUBSET Notification, NEW e \in Event
    PROVE  ResolveAttention(ns, e) \in SUBSET Notification
<1>1. SUFFICES ASSUME NEW m \in ResolveAttention(ns, e) PROVE m \in Notification
  OBVIOUS
<1>2. PICK n \in ns :
        m = n \/ (n.kind = "attention" /\ m = [n EXCEPT !.state = "resolved"])
  BY <1>1, ResolveAttentionKeeps
<1>3. n \in Notification
  OBVIOUS
<1>4. QED
  BY <1>2, <1>3 DEF Notification

LEMMA ResolveAttentionLeaves ==
    ASSUME NEW ns \in SUBSET Notification, NEW e \in Event, NEW n \in ns,
           n.kind # "attention"
    PROVE  n \in ResolveAttention(ns, e)
BY DEF ResolveAttention

LEMMA NotificationKindType ==
    ASSUME NEW type
    PROVE  NotificationKind(type) \in Kind
BY DEF NotificationKind, Kind

LEMMA InsertNotificationCases ==
    ASSUME NEW ns \in SUBSET Notification, NEW e \in Event, e.type \notin SessionEvent
    PROVE  \/ InsertNotification(ns, e) = ns
           \/ \E n \in Notification :
                 /\ \A m \in OfSession(ns, e.session) : Before(m, e)
                 /\ InsertNotification(ns, e) = (ns \ OfSession(ns, e.session)) \cup {n}
                 /\ n.session = e.session /\ n.time = e.time /\ n.id = e.id
                 /\ n.turn = e.turn /\ n.state = "unread"
                 /\ n.kind = NotificationKind(e.type)
<1> DEFINE n == [id |-> e.id, session |-> e.session, turn |-> e.turn,
                 kind |-> NotificationKind(e.type), state |-> "unread", time |-> e.time]
<1>1. n \in Notification
  BY EventFields, NotificationKindType DEF Notification
<1>2. /\ n.session = e.session /\ n.time = e.time /\ n.id = e.id
      /\ n.turn = e.turn /\ n.state = "unread" /\ n.kind = NotificationKind(e.type)
  OBVIOUS
<1>3. InsertNotification(ns, e) = IF \A m \in OfSession(ns, e.session) : Before(m, e)
                                  THEN (ns \ OfSession(ns, e.session)) \cup {n} ELSE ns
  BY DEF InsertNotification
<1> HIDE DEF n
<1>4. QED
  BY <1>1, <1>2, <1>3

LEMMA InsertNotificationType ==
    ASSUME NEW ns \in SUBSET Notification, NEW e \in Event, e.type \notin SessionEvent
    PROVE  InsertNotification(ns, e) \in SUBSET Notification
BY InsertNotificationCases

\* At most one card per session.
OneCard(ns) == \A m, n \in ns : m.session = n.session => m = n

LEMMA ResolveAttentionOneCard ==
    ASSUME NEW ns \in SUBSET Notification, NEW e \in Event, OneCard(ns)
    PROVE  OneCard(ResolveAttention(ns, e))
<1> DEFINE R(n) == IF /\ n.session = e.session /\ n.kind = "attention"
                      /\ e.turn = NoTurn \/ n.turn = e.turn
                   THEN [n EXCEPT !.state = "resolved"] ELSE n
<1>1. ResolveAttention(ns, e) = {R(n) : n \in ns}
  BY DEF ResolveAttention
<1>2. \A n \in ns : R(n).session = n.session
  BY DEF Notification
<1> HIDE DEF R
<1>3. QED
  BY <1>1, <1>2 DEF OneCard

LEMMA InsertNotificationOneCard ==
    ASSUME NEW ns \in SUBSET Notification, NEW e \in Event, e.type \notin SessionEvent,
           OneCard(ns)
    PROVE  OneCard(InsertNotification(ns, e))
<1>1. CASE InsertNotification(ns, e) = ns
  BY <1>1
<1>2. CASE InsertNotification(ns, e) # ns
  <2>1. PICK n \in Notification :
          /\ InsertNotification(ns, e) = (ns \ OfSession(ns, e.session)) \cup {n}
          /\ n.session = e.session
    BY <1>2, InsertNotificationCases
  <2>2. \A m \in ns \ OfSession(ns, e.session) : m \in ns /\ m.session # e.session
    BY DEF OfSession
  <2>3. QED
    BY <2>1, <2>2 DEF OneCard
<1>3. QED
  BY <1>1, <1>2

-----------------------------------------------------------------------------
LEMMA DesiredType ==
    ASSUME NEW ns, NEW until, NEW now
    PROVE  Desired(ns, until, now) \in Idle..Waiting
BY DEF Desired, Idle, ActivityReminder, Review, Failed, Waiting

LEMMA ShownType ==
    ASSUME NEW p \in [state : Idle..Waiting, since : Nat],
           NEW desired \in Idle..Waiting, NEW now \in Nat
    PROVE  /\ Shown(p, desired, now) \in [state : Idle..Waiting, since : Nat]
           /\ Shown(p, desired, now).state = desired
BY DEF Shown

\* A refresh leaves the state alone or shows what is desired, and it never
\* leaves a state that is less urgent than what is desired.
LEMMA RefreshedCases ==
    ASSUME NEW p \in [state : Idle..Waiting, since : Nat],
           NEW ns, NEW until \in Nat, NEW now \in Nat
    PROVE  /\ Refreshed(p, ns, until, now) \in [state : Idle..Waiting, since : Nat]
           /\ \/ Refreshed(p, ns, until, now) = p
              \/ Refreshed(p, ns, until, now).state = Desired(ns, until, now)
           /\ Refreshed(p, ns, until, now).state >= Desired(ns, until, now)
<1> DEFINE desired == Desired(ns, until, now)
<1>1. desired \in Idle..Waiting
  BY DesiredType
<1>2. Refreshed(p, ns, until, now)
        = IF MaySwitch(p, desired, until, now) THEN Shown(p, desired, now) ELSE p
  BY DEF Refreshed
<1>3. ~MaySwitch(p, desired, until, now) => ~(desired > p.state)
  BY DEF MaySwitch
<1> HIDE DEF desired
<1>4. /\ Shown(p, desired, now) \in [state : Idle..Waiting, since : Nat]
      /\ Shown(p, desired, now).state = desired
  BY <1>1, ShownType
<1>5. p.state \in Idle..Waiting
  OBVIOUS
<1>6. desired >= desired /\ (~(desired > p.state) => p.state >= desired)
  BY <1>1, <1>5 DEF Idle, Waiting
<1>7. QED
  BY <1>2, <1>3, <1>4, <1>6 DEF desired

-----------------------------------------------------------------------------
\* The notifications, the reminder and the presentation of an applied event.
UntilAfter(r, e, now) ==
    IF StartsReminder(e) THEN MaxOf(r.until, now + ReminderDuration) ELSE r.until
ResolvedAfter(r, e) ==
    IF ResolvesAttention(e) THEN ResolveAttention(r.notifications, e) ELSE r.notifications
InsertedAfter(r, e) ==
    IF Notifies(e) THEN InsertNotification(ResolvedAfter(r, e), e) ELSE ResolvedAfter(r, e)
PresentedAfter(r, e, now) ==
    IF Replaces(ResolvedAfter(r, e), InsertedAfter(r, e), e)
    THEN Shown(r.presentation, Desired(InsertedAfter(r, e), UntilAfter(r, e, now), now), now)
    ELSE r.presentation

LEMMA AppliedFields ==
    ASSUME NEW r, NEW e, NEW now
    PROVE  Applied(r, e, now) =
             [revision |-> r.revision + 1,
              sessions |-> [r.sessions EXCEPT ![e.session] = AfterEvent(r, e)],
              notifications |-> InsertedAfter(r, e),
              recent |-> MoveToBack(r.recent, e.id, MaxRecent),
              presentation |-> Refreshed(PresentedAfter(r, e, now), InsertedAfter(r, e),
                                         UntilAfter(r, e, now), now),
              until |-> UntilAfter(r, e, now)]
BY DEF Applied, UntilAfter, ResolvedAfter, InsertedAfter, PresentedAfter

LEMMA NotifyingEventIsTurnEvent ==
    ASSUME NEW e, Notifies(e)
    PROVE  e.type \notin SessionEvent
BY DEF Notifies, SessionEvent

LEMMA ResolvedAfterType ==
    ASSUME NEW r \in Reducer, NEW e \in Event
    PROVE  ResolvedAfter(r, e) \in SUBSET Notification
<1>1. r.notifications \in SUBSET Notification
  BY DEF Reducer
<1>2. QED
  BY <1>1, ResolveAttentionType DEF ResolvedAfter

LEMMA InsertedAfterType ==
    ASSUME NEW r \in Reducer, NEW e \in Event
    PROVE  InsertedAfter(r, e) \in SUBSET Notification
BY ResolvedAfterType, InsertNotificationType, NotifyingEventIsTurnEvent DEF InsertedAfter

LEMMA InsertedAfterOneCard ==
    ASSUME NEW r \in Reducer, NEW e \in Event, OneCard(r.notifications)
    PROVE  OneCard(InsertedAfter(r, e))
<1>1. r.notifications \in SUBSET Notification
  BY DEF Reducer
<1>2. OneCard(ResolvedAfter(r, e))
  BY <1>1, ResolveAttentionOneCard DEF ResolvedAfter
<1>3. QED
  BY <1>2, ResolvedAfterType, InsertNotificationOneCard, NotifyingEventIsTurnEvent
     DEF InsertedAfter

LEMMA PresentationType ==
    ASSUME NEW r \in Reducer, NEW e \in Event, NEW now \in Nat
    PROVE  /\ UntilAfter(r, e, now) \in Nat
           /\ PresentedAfter(r, e, now) \in [state : Idle..Waiting, since : Nat]
<1>1. UntilAfter(r, e, now) \in Nat
  BY BoundTypes DEF UntilAfter, MaxOf, Reducer
<1>2. r.presentation \in [state : Idle..Waiting, since : Nat]
  BY DEF Reducer
<1>3. QED
  BY <1>1, <1>2, ShownType, DesiredType DEF PresentedAfter

LEMMA AppliedType ==
    ASSUME NEW r \in Reducer, NEW e \in Event, NEW now \in Nat
    PROVE  Applied(r, e, now) \in Reducer
<1>1. r.revision + 1 \in Nat
  BY DEF Reducer
<1>2. [r.sessions EXCEPT ![e.session] = AfterEvent(r, e)] \in [Session -> SessionRecord]
  BY AfterEventType, EventFields DEF Reducer
<1>3. InsertedAfter(r, e) \in SUBSET Notification
  BY InsertedAfterType
<1>4. MoveToBack(r.recent, e.id, MaxRecent) \in Seq(Nat)
  BY MoveToBackType, EventFields, BoundTypes DEF Reducer
<1>5. UntilAfter(r, e, now) \in Nat
  BY PresentationType
<1>6. Refreshed(PresentedAfter(r, e, now), InsertedAfter(r, e), UntilAfter(r, e, now), now)
        \in [state : Idle..Waiting, since : Nat]
  BY PresentationType, RefreshedCases
<1>7. QED
  BY <1>1, <1>2, <1>3, <1>4, <1>5, <1>6, AppliedFields DEF Reducer

LEMMA RememberedType ==
    ASSUME NEW r \in Reducer, NEW e \in Event
    PROVE  Remembered(r, e) \in Reducer
<1>1. MoveToBack(r.recent, e.id, MaxRecent) \in Seq(Nat)
  BY MoveToBackType, EventFields, BoundTypes DEF Reducer
<1>2. QED
  BY <1>1 DEF Remembered, Reducer

LEMMA ReduceAtType ==
    ASSUME NEW r \in Reducer, NEW e \in Event, NEW now \in Nat
    PROVE  ReduceAt(r, e, now) \in Reducer
BY AppliedType, RememberedType DEF ReduceAt, Outcome

LEMMA RestartReminderType ==
    ASSUME NEW r \in Reducer, NEW now \in Nat
    PROVE  RestartReminder(r, now) \in Reducer
<1>1. now + ReminderDuration \in Nat
  BY BoundTypes
<1>2. Refreshed(r.presentation, r.notifications, now + ReminderDuration, now)
        \in [state : Idle..Waiting, since : Nat]
  BY <1>1, RefreshedCases DEF Reducer
<1>3. QED
  BY <1>1, <1>2 DEF RestartReminder, Reducer

LEMMA AcknowledgeNotificationType ==
    ASSUME NEW r \in Reducer, NEW n \in r.notifications, NEW now \in Nat
    PROVE  AcknowledgeNotification(r, n, now) \in Reducer
<1> DEFINE ns == (r.notifications \ {n}) \cup {[n EXCEPT !.state = "acknowledged"]}
<1>1. n \in Notification
  BY DEF Reducer
<1>2. [n EXCEPT !.state = "acknowledged"] \in Notification
  BY <1>1 DEF Notification
<1>3. ns \in SUBSET Notification
  BY <1>2 DEF Reducer
<1>4. AcknowledgeNotification(r, n, now)
        = [r EXCEPT !.revision = r.revision + 1, !.notifications = ns,
                    !.presentation = Shown(r.presentation, Desired(ns, r.until, now), now)]
  BY DEF AcknowledgeNotification
<1> HIDE DEF ns
<1>5. Shown(r.presentation, Desired(ns, r.until, now), now)
        \in [state : Idle..Waiting, since : Nat]
  BY ShownType, DesiredType DEF Reducer
<1>6. r.revision + 1 \in Nat
  BY DEF Reducer
<1>7. QED
  BY <1>3, <1>4, <1>5, <1>6 DEF Reducer

LEMMA AdvancePresentationType ==
    ASSUME NEW r \in Reducer, NEW now \in Nat
    PROVE  AdvancePresentation(r, now) \in Reducer
<1>1. Refresh(r, now) \in [state : Idle..Waiting, since : Nat]
  BY RefreshedCases DEF Refresh, Reducer
<1>2. r.revision + 1 \in Nat
  BY DEF Reducer
<1>3. AdvancePresentation(r, now)
        = IF Refresh(r, now) = r.presentation THEN r
          ELSE [r EXCEPT !.revision = r.revision + 1, !.presentation = Refresh(r, now)]
  BY DEF AdvancePresentation
<1>4. QED
  BY <1>1, <1>2, <1>3 DEF Reducer

-----------------------------------------------------------------------------
LEMMA ProjectedSessionType ==
    ASSUME NEW rec \in SessionRecord
    PROVE  ProjectedSession(rec) \in SessionRecord
<1>1. NoRecord \in TurnRecord
  BY DEF NoRecord, TurnRecord, Phase
<1>2. [t \in Turn |-> IF t = rec.current THEN rec.turns[t] ELSE NoRecord]
        \in [Turn -> TurnRecord]
  BY <1>1 DEF SessionRecord
<1>3. QED
  BY <1>2 DEF ProjectedSession, SessionRecord

LEMMA PersistentStateType ==
    ASSUME NEW r \in Reducer
    PROVE  PersistentState(r) \in Projection
<1>1. UnknownSession \in SessionRecord
  BY NewSessionType DEF UnknownSession
<1>2. [s \in Session |-> IF s \in Persisted(r) THEN ProjectedSession(r.sessions[s])
                         ELSE UnknownSession] \in [Session -> SessionRecord]
  BY <1>1, ProjectedSessionType DEF Reducer
<1>3. {n \in Unread(r.notifications) :
          /\ n.session \in Persisted(r)
          /\ \A m \in Unread(OfSession(r.notifications, n.session)) : ~Preferred(m, n)}
        \in SUBSET Notification
  BY DEF Reducer, Unread
<1>4. r.revision \in Nat
  BY DEF Reducer
<1>5. QED
  BY <1>2, <1>3, <1>4 DEF PersistentState, Projection

LEMMA FromPersistentStateType ==
    ASSUME NEW p \in Projection
    PROVE  FromPersistentState(p) \in Reducer
<1>1. [state |-> Desired(p.notifications, 0, 0), since |-> 0]
        \in [state : Idle..Waiting, since : Nat]
  BY DesiredType
<1>2. <<>> \in Seq(Nat)
  OBVIOUS
<1>3. QED
  BY <1>1, <1>2 DEF FromPersistentState, Projection, Reducer

LEMMA EmptyReducerType == EmptyReducer \in Reducer
<1>1. UnknownSession \in SessionRecord
  BY NewSessionType DEF UnknownSession
<1>2. [s \in Session |-> UnknownSession] \in [Session -> SessionRecord]
  BY <1>1
<1>3. <<>> \in Seq(Nat)
  OBVIOUS
<1>4. QED
  BY <1>2, <1>3 DEF EmptyReducer, Reducer, Idle, Waiting

-----------------------------------------------------------------------------
(***************************************************************************)
(* The projection depends on sessions and notifications only, and a reducer *)
(* that was restored from a projection projects to it again.               *)
(***************************************************************************)
LEMMA RankDependence ==
    ASSUME NEW q \in Reducer, NEW r \in Reducer, NEW s \in Session, NEW t \in Session,
           \A x \in {s, t} :
              /\ Unread(OfSession(q.notifications, x)) = Unread(OfSession(r.notifications, x))
              /\ PhaseRank(q.sessions[x]) = PhaseRank(r.sessions[x])
              /\ q.sessions[x].time = r.sessions[x].time
    PROVE  Outranks(q, s, t) = Outranks(r, s, t)
<1>1. \A x \in {s, t} : NotificationRank(q, x) = NotificationRank(r, x)
  BY DEF NotificationRank
<1> DEFINE a == NotificationRank(r, s)
           b == NotificationRank(r, t)
           c == PhaseRank(r.sessions[s])
           d == PhaseRank(r.sessions[t])
           f == r.sessions[s].time
           g == r.sessions[t].time
           Order == \/ a > b
                    \/ a = b /\ c > d
                    \/ a = b /\ c = d /\ f > g
                    \/ <<a, c, f>> = <<b, d, g>> /\ s < t
<1>2. Outranks(r, s, t) = Order
  BY DEF Outranks
<1>3. Outranks(q, s, t) = Order
  BY <1>1 DEF Outranks
<1>4. QED
  BY <1>2, <1>3

LEMMA PersistedDependence ==
    ASSUME NEW q \in Reducer, NEW r \in Reducer,
           q.sessions = r.sessions, q.notifications = r.notifications
    PROVE  /\ Persisted(q) = Persisted(r)
           /\ PersistentState(q).sessions = PersistentState(r).sessions
           /\ PersistentState(q).notifications = PersistentState(r).notifications
<1>1. \A s, t \in Session : Outranks(q, s, t) = Outranks(r, s, t)
  BY RankDependence
<1>2. \A s \in Session : {t \in Known(q.sessions) : Outranks(q, t, s)}
                           = {t \in Known(r.sessions) : Outranks(r, t, s)}
  BY <1>1 DEF Known
<1>3. Persisted(q) = Persisted(r)
  BY <1>2 DEF Persisted, Known
<1>4. PersistentState(q).sessions = PersistentState(r).sessions
  BY <1>3 DEF PersistentState
<1>5. PersistentState(q).notifications = PersistentState(r).notifications
  BY <1>3 DEF PersistentState
<1>6. QED
  BY <1>3, <1>4, <1>5

\* With one card per session the projection keeps exactly the unread cards of the
\* persisted sessions.
LEMMA PersistentNotifications ==
    ASSUME NEW r \in Reducer, OneCard(r.notifications)
    PROVE  PersistentState(r).notifications
             = {n \in Unread(r.notifications) : n.session \in Persisted(r)}
<1>1. ASSUME NEW n \in Unread(r.notifications), NEW m \in Unread(OfSession(r.notifications, n.session))
      PROVE  ~Preferred(m, n)
  <2>1. m = n /\ n \in Notification
    BY DEF OneCard, Unread, OfSession, Reducer
  <2>2. Priority(n) \in Nat /\ n.time \in Nat /\ n.id \in Nat
    BY <2>1 DEF Priority, Notification
  <2>3. QED
    BY <2>1, <2>2 DEF Preferred, Before
<1>2. QED
  BY <1>1 DEF PersistentState

LEMMA ProjectedSessionFields ==
    ASSUME NEW rec \in SessionRecord
    PROVE  /\ ProjectedSession(rec).life = rec.life
           /\ ProjectedSession(rec).time = rec.time
           /\ ProjectedSession(rec).current = rec.current
           /\ ProjectedSession(rec).retired = rec.retired
           /\ rec.current # NoTurn =>
                 ProjectedSession(rec).turns[rec.current] = rec.turns[rec.current]
           /\ PhaseRank(ProjectedSession(rec)) = PhaseRank(rec)
           /\ ProjectedSession(ProjectedSession(rec)) = ProjectedSession(rec)
<1> DEFINE p == ProjectedSession(rec)
<1>1. /\ p.life = rec.life /\ p.time = rec.time /\ p.current = rec.current
      /\ p.retired = rec.retired
      /\ p.turns = [t \in Turn |-> IF t = rec.current THEN rec.turns[t] ELSE NoRecord]
  BY DEF ProjectedSession, SessionRecord
<1>2. rec.current # NoTurn => rec.current \in Turn
  BY DEF SessionRecord
<1>3. rec.current # NoTurn => p.turns[rec.current] = rec.turns[rec.current]
  BY <1>1, <1>2
<1>4. PhaseRank(p) = PhaseRank(rec)
  BY <1>1, <1>3 DEF PhaseRank
<1>5. [t \in Turn |-> IF t = p.current THEN p.turns[t] ELSE NoRecord] = p.turns
  BY <1>1
<1>6. ProjectedSession(p) = p
  <2>1. p \in SessionRecord
    BY ProjectedSessionType
  <2> HIDE DEF p
  <2>2. ProjectedSession(p) = [p EXCEPT !.turns = p.turns]
    BY <1>5 DEF ProjectedSession
  <2>3. QED
    BY <2>1, <2>2 DEF SessionRecord
<1>7. QED
  BY <1>1, <1>3, <1>4, <1>6

LEMMA RestoreIsStable ==
    ASSUME NEW r \in Reducer, OneCard(r.notifications)
    PROVE  LET p == PersistentState(r)
               again == PersistentState(FromPersistentState(p))
           IN  again.sessions = p.sessions /\ again.notifications = p.notifications
<1> DEFINE p == PersistentState(r)
           q == FromPersistentState(p)
           P == Persisted(r)
<1>1. p \in Projection /\ q \in Reducer
  BY PersistentStateType, FromPersistentStateType
<1>2. q.sessions = p.sessions /\ q.notifications = p.notifications
  BY DEF FromPersistentState
<1>3. p.sessions = [s \in Session |-> IF s \in P THEN ProjectedSession(r.sessions[s])
                                      ELSE UnknownSession]
  BY DEF PersistentState
<1>4. p.notifications = {n \in Unread(r.notifications) : n.session \in P}
  BY PersistentNotifications
<1>5. P \subseteq Session /\ \A s \in P : r.sessions[s].life # "unknown"
  BY DEF Persisted, Known
<1>6. \A s \in Session : r.sessions[s] \in SessionRecord
  BY DEF Reducer
<1> HIDE DEF p, q, P
<1>7. UnknownSession.life = "unknown"
  BY DEF UnknownSession, NewSession
<1>8. \A s \in P : q.sessions[s] = ProjectedSession(r.sessions[s])
  BY <1>2, <1>3, <1>5
<1>9. \A s \in P : /\ q.sessions[s].life = r.sessions[s].life
                   /\ q.sessions[s].time = r.sessions[s].time
                   /\ PhaseRank(q.sessions[s]) = PhaseRank(r.sessions[s])
                   /\ ProjectedSession(q.sessions[s]) = q.sessions[s]
  BY <1>5, <1>6, <1>8, ProjectedSessionFields
<1>10. Known(q.sessions) = P
  BY <1>2, <1>3, <1>5, <1>7, <1>9 DEF Known
<1>11. \A s \in P : Unread(OfSession(q.notifications, s)) = Unread(OfSession(r.notifications, s))
  BY <1>2, <1>4 DEF Unread, OfSession
<1>12. \A s, t \in P : Outranks(q, s, t) = Outranks(r, s, t)
  BY <1>1, <1>5, <1>9, <1>11, RankDependence
<1>13. ASSUME NEW s \in P
       PROVE  Cardinality({t \in Known(q.sessions) : Outranks(q, t, s)}) < MaxPersisted
  <2> DEFINE few == {t \in Known(q.sessions) : Outranks(q, t, s)}
             more == {t \in Known(r.sessions) : Outranks(r, t, s)}
  <2>1. P \subseteq Known(r.sessions)
    BY DEF P, Persisted
  <2>2. few \in SUBSET more
    BY <1>10, <1>12, <2>1
  <2>3. Cardinality(more) < MaxPersisted
    BY DEF P, Persisted
  <2>4. IsFiniteSet(Session) /\ more \in SUBSET Session
    BY EventAssumption DEF Known
  <2>5. IsFiniteSet(more)
    BY <2>4, FS_Subset
  <2> HIDE DEF few, more
  <2>6. IsFiniteSet(few) /\ Cardinality(few) <= Cardinality(more)
    BY <2>2, <2>5, FS_Subset
  <2>7. Cardinality(few) \in Nat /\ Cardinality(more) \in Nat
    BY <2>5, <2>6, FS_CardinalityType
  <2>8. Cardinality(few) < MaxPersisted
    BY <2>3, <2>6, <2>7, BoundTypes
  <2>9. QED
    BY <2>8 DEF few
<1>14. Persisted(q) = P
  BY <1>10, <1>13 DEF Persisted
<1>15. PersistentState(q).sessions = p.sessions
  <2>1. PersistentState(q).sessions
          = [s \in Session |-> IF s \in P THEN ProjectedSession(q.sessions[s])
                               ELSE UnknownSession]
    BY <1>14 DEF PersistentState
  <2>2. QED
    BY <1>3, <1>5, <1>8, <1>9, <2>1
<1>16. PersistentState(q).notifications = p.notifications
  <2>1. OneCard(q.notifications)
    BY <1>2, <1>4 DEF OneCard, Unread
  <2>2. PersistentState(q).notifications = {n \in Unread(q.notifications) : n.session \in P}
    BY <1>1, <1>14, <2>1, PersistentNotifications
  <2>3. QED
    BY <1>2, <1>4, <2>2 DEF Unread
<1>17. QED
  BY <1>15, <1>16 DEF p, q
=============================================================================
