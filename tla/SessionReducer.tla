---------------------------- MODULE SessionReducer ----------------------------
(***************************************************************************)
(* The session reducer of lili-session/src/reducer.rs as operators on a    *)
(* reducer value: what one normalized event, one acknowledgement or one    *)
(* presentation tick turns it into, and what of it is written to and read  *)
(* back from the database.                                                 *)
(*                                                                         *)
(* Sessions, turns and event identities are natural numbers that stand     *)
(* for their rank in the code's string order; an identity stands for the   *)
(* pair (provider, event id), a session for the pair (provider, session    *)
(* id).  Project labels, summaries and titles carry no control and are     *)
(* left out.                                                               *)
(***************************************************************************)
EXTENDS Naturals, FiniteSets, SequencesExt

CONSTANTS
    Event,             \* the events a provider can deliver (a set of records)
    Session, Turn,     \* the session and turn identities
    MaxRecent,         \* MAX_RECENT_EVENT_IDS
    MaxRetired,        \* MAX_PERSISTED_RETIRED_TURNS
    MaxPersisted,      \* MAX_PERSISTED_SESSIONS
    MinimumDwell,      \* DEFAULT_MINIMUM_DWELL_MS
    ReminderDuration   \* DEFAULT_ACTIVITY_REMINDER_DURATION_MS

NoTurn == 0

SessionEvent == {"session_started", "session_ended"}
TurnEvent == {"turn_started", "attention_required", "attention_resolved",
              "turn_completed", "turn_failed"}

\* A session event names no turn, a turn event does (normalization rejects the
\* rest), and an identity is computed from the session it belongs to.  Session
\* identities are bounded strings, so there are finitely many.
ASSUME EventAssumption ==
    /\ Session \subseteq Nat
    /\ IsFiniteSet(Session)
    /\ Turn \subseteq Nat \ {NoTurn}
    /\ \A e \in Event :
          /\ e \in [id : Nat, type : SessionEvent \cup TurnEvent,
                    session : Session, turn : Turn \cup {NoTurn}, time : Nat]
          /\ e.type \in TurnEvent <=> e.turn # NoTurn
    /\ \A e, f \in Event : e.id = f.id => e.session = f.session

ASSUME BoundAssumption ==
    /\ {MaxRecent, MaxRetired, MaxPersisted} \subseteq Nat \ {0}
    /\ {MinimumDwell, ReminderDuration} \subseteq Nat

(***************************************************************************)
(* Events, turn records, session records and notifications all carry the   *)
(* time and identity of an event; the code orders them by that pair.       *)
(***************************************************************************)
Before(a, b) == a.time < b.time \/ (a.time = b.time /\ a.id < b.id)

Phase == {"none", "active", "attention", "completed", "failed"}
Terminal == {"completed", "failed"}
TurnRecord == [phase : Phase, time : Nat, id : Nat]
NoRecord == [phase |-> "none", time |-> 0, id |-> 0]

SessionRecord ==
    [life : {"unknown", "open", "ended"}, current : Turn \cup {NoTurn},
     turns : [Turn -> TurnRecord], retired : Seq(Turn), time : Nat, id : Nat]
NewSession(life, time, id) ==
    [life |-> life, current |-> NoTurn, turns |-> [t \in Turn |-> NoRecord],
     retired |-> <<>>, time |-> time, id |-> id]
UnknownSession == NewSession("unknown", 0, 0)

Kind == {"attention", "completion", "failure"}
Notification ==
    [id : Nat, session : Session, turn : Turn, kind : Kind,
     state : {"unread", "acknowledged", "resolved"}, time : Nat]

\* PresentationState in its derived order.
Idle == 0
ActivityReminder == 1
Review == 2
Failed == 3
Waiting == 4

Reducer ==
    [revision : Nat, sessions : [Session -> SessionRecord],
     notifications : SUBSET Notification, recent : Seq(Nat),
     presentation : [state : Idle..Waiting, since : Nat], until : Nat]

\* What is kept in the database (SessionReducerState).
Projection ==
    [revision : Nat, sessions : [Session -> SessionRecord],
     notifications : SUBSET Notification]

EmptyReducer ==
    [revision |-> 0, sessions |-> [s \in Session |-> UnknownSession],
     notifications |-> {}, recent |-> <<>>,
     presentation |-> [state |-> Idle, since |-> 0], until |-> 0]

\* A bounded queue without repetitions: x becomes its newest element.
MoveToBack(q, x, bound) ==
    LET kept == IF x \in Range(q)
                THEN RemoveAt(q, CHOOSE i \in 1..Len(q) : q[i] = x) ELSE q
        full == Append(kept, x)
    IN  IF Len(full) > bound THEN Tail(full) ELSE full

-----------------------------------------------------------------------------
(***************************************************************************)
(* Session events.                                                         *)
(***************************************************************************)
IsDuplicate(r, e) ==
    /\ e.id \in Range(r.recent)
    /\ e.type = "session_started" => r.sessions[e.session].life = "open"
    /\ e.type = "session_ended" => r.sessions[e.session].life = "ended"

SessionEventApplies(rec, e) ==
    \/ rec.life = "unknown"
    \/ /\ Before(rec, e)
       /\ rec.life = IF e.type = "session_started" THEN "ended" ELSE "open"

AfterSessionEvent(rec, e) ==
    LET life == IF e.type = "session_started" THEN "open" ELSE "ended" IN
    IF rec.life = "unknown" THEN NewSession(life, e.time, e.id)
    ELSE [rec EXCEPT !.life = life, !.time = e.time, !.id = e.id,
                     !.current = IF life = "open" THEN NoTurn ELSE @]

(***************************************************************************)
(* Turn events.  The entry of an unknown session is created first, with    *)
(* the event's own time and identity, so such an event is never stale.     *)
(***************************************************************************)
RecordFor(r, e) ==
    IF r.sessions[e.session].life = "unknown"
    THEN NewSession("open", e.time, e.id) ELSE r.sessions[e.session]

PhaseAfter(type) ==
    CASE type = "turn_started" -> "active"
      [] type = "attention_required" -> "attention"
      [] type = "attention_resolved" -> "active"
      [] type = "turn_completed" -> "completed"
      [] OTHER -> "failed"

StartsNewTurn(rec, e) ==
    rec.turns[e.turn].phase = "none" /\ rec.current \notin {NoTurn, e.turn}

\* Mutant of TurnEventApplies: a terminal turn accepts everything newer.
TerminalTurnReopens(rec, e) ==
    LET previous == rec.turns[e.turn] IN
    IF previous.phase = "none"
    THEN /\ StartsNewTurn(rec, e) => e.turn \notin Range(rec.retired)
         /\ e.id = rec.id \/ Before(rec, e)
    ELSE Before(previous, e)

\* Mutant of TurnEventApplies: an event as old as the record is applied.
TiesApply(rec, e) ==
    LET previous == rec.turns[e.turn] IN
    IF previous.phase = "none"
    THEN /\ StartsNewTurn(rec, e) => e.turn \notin Range(rec.retired)
         /\ e.id = rec.id \/ Before(rec, e)
    ELSE /\ ~Before(e, previous)
         /\ previous.phase \in Terminal => PhaseAfter(e.type) \in Terminal

\* A turn without a record must be newer than the session (unless the event is
\* the session's latest one) and, when it would displace the current turn, not
\* retired; a recorded turn must be older than the event and, once terminal,
\* accepts terminal events only.
TurnEventApplies(rec, e) ==
    LET previous == rec.turns[e.turn] IN
    IF previous.phase = "none"
    THEN /\ StartsNewTurn(rec, e) => e.turn \notin Range(rec.retired)
         /\ e.id = rec.id \/ Before(rec, e)
    ELSE /\ Before(previous, e)
         /\ previous.phase \in Terminal => PhaseAfter(e.type) \in Terminal

\* (time, id, turn) of the event against the record of the current turn.
BecomesCurrent(rec, turns, e) ==
    \/ rec.current = NoTurn
    \/ LET current == turns[rec.current] IN
       \/ Before(current, e)
       \/ current.time = e.time /\ current.id = e.id /\ rec.current <= e.turn

AfterTurnEvent(rec, e) ==
    LET turns == [rec.turns EXCEPT ![e.turn] =
                    [phase |-> PhaseAfter(e.type), time |-> e.time, id |-> e.id]]
        newest == e.time >= rec.time
    IN  [life |-> "open",
         current |-> IF BecomesCurrent(rec, turns, e) THEN e.turn ELSE rec.current,
         turns |-> turns,
         retired |-> IF StartsNewTurn(rec, e)
                     THEN MoveToBack(rec.retired, rec.current, MaxRetired)
                     ELSE rec.retired,
         time |-> IF newest THEN e.time ELSE rec.time,
         id |-> IF newest THEN e.id ELSE rec.id]

-----------------------------------------------------------------------------
(***************************************************************************)
(* Notifications and the ambient presentation they drive.                  *)
(***************************************************************************)
NotificationKind(type) ==
    CASE type = "attention_required" -> "attention"
      [] type = "turn_completed" -> "completion"
      [] OTHER -> "failure"

Notifies(e) == e.type \in {"attention_required", "turn_completed", "turn_failed"}
ResolvesAttention(e) ==
    e.type \in {"attention_resolved", "turn_completed", "turn_failed", "session_ended"}
StartsReminder(e) ==
    e.type \in {"session_started", "turn_started", "attention_resolved"}

\* Mutant of ResolveAttention: a session event resolves no turn's attention.
ResolveOwnTurnOnly(ns, e) ==
    {IF n.session = e.session /\ n.kind = "attention" /\ n.turn = e.turn
     THEN [n EXCEPT !.state = "resolved"] ELSE n : n \in ns}

ResolveAttention(ns, e) ==
    {IF /\ n.session = e.session /\ n.kind = "attention"
        /\ e.turn = NoTurn \/ n.turn = e.turn
     THEN [n EXCEPT !.state = "resolved"] ELSE n : n \in ns}

OfSession(ns, s) == {n \in ns : n.session = s}

\* Mutant of InsertNotification: the latest delivery wins, not the latest event.
InsertLastDelivered(ns, e) ==
    (ns \ OfSession(ns, e.session)) \cup
    {[id |-> e.id, session |-> e.session, turn |-> e.turn,
      kind |-> NotificationKind(e.type), state |-> "unread", time |-> e.time]}

\* insert_notification refuses an event that is not newer than every
\* notification of its session, and otherwise replaces all of them.
InsertNotification(ns, e) ==
    IF \A n \in OfSession(ns, e.session) : Before(n, e)
    THEN (ns \ OfSession(ns, e.session)) \cup
         {[id |-> e.id, session |-> e.session, turn |-> e.turn,
           kind |-> NotificationKind(e.type), state |-> "unread", time |-> e.time]}
    ELSE ns

Desired(ns, until, now) ==
    IF \E n \in ns : n.kind = "attention" /\ n.state # "resolved" THEN Waiting
    ELSE IF \E n \in ns : n.kind = "failure" /\ n.state = "unread" THEN Failed
    ELSE IF \E n \in ns : n.kind = "completion" /\ n.state = "unread" THEN Review
    ELSE IF until > now THEN ActivityReminder
    ELSE Idle

\* Acknowledging or replacing a card shows what is desired at once.
Shown(p, desired, now) ==
    IF p.state = desired THEN p ELSE [state |-> desired, since |-> now]

\* Mutant of MaySwitch: an urgent state waits for the dwell as well.
MaySwitchAfterDwell(p, desired, until, now) == now >= p.since + MinimumDwell

\* refresh_presentation: a downgrade waits for the minimum dwell.
MaySwitch(p, desired, until, now) ==
    \/ desired > p.state
    \/ desired = ActivityReminder
    \/ p.state = ActivityReminder /\ desired = Idle /\ until <= now
    \/ now >= p.since + MinimumDwell

Refreshed(p, ns, until, now) ==
    LET desired == Desired(ns, until, now) IN
    IF MaySwitch(p, desired, until, now) THEN Shown(p, desired, now) ELSE p

\* Mutant of Replaces: insert_notification's result is ignored.
ReplacesNothing(before, after, e) == FALSE

\* insert_notification returns whether it removed a card for the new one.
Replaces(before, after, e) == after # before /\ OfSession(before, e.session) # {}

MaxOf(a, b) == IF a >= b THEN a ELSE b

-----------------------------------------------------------------------------
(***************************************************************************)
(* The operations of SessionReducer.                                       *)
(***************************************************************************)
EventApplies(r, e) ==
    IF e.type \in SessionEvent
    THEN SessionEventApplies(r.sessions[e.session], e)
    ELSE TurnEventApplies(RecordFor(r, e), e)

AfterEvent(r, e) ==
    IF e.type \in SessionEvent
    THEN AfterSessionEvent(r.sessions[e.session], e)
    ELSE AfterTurnEvent(RecordFor(r, e), e)

Outcome(r, e) ==
    IF IsDuplicate(r, e) THEN "duplicate"
    ELSE IF EventApplies(r, e) THEN "applied" ELSE "stale"

Remembered(r, e) == [r EXCEPT !.recent = MoveToBack(r.recent, e.id, MaxRecent)]

Applied(r, e, now) ==
    LET until == IF StartsReminder(e) THEN MaxOf(r.until, now + ReminderDuration)
                 ELSE r.until
        resolved == IF ResolvesAttention(e) THEN ResolveAttention(r.notifications, e)
                    ELSE r.notifications
        inserted == IF Notifies(e) THEN InsertNotification(resolved, e) ELSE resolved
        presented == IF Replaces(resolved, inserted, e)
                     THEN Shown(r.presentation, Desired(inserted, until, now), now)
                     ELSE r.presentation
    IN  [revision |-> r.revision + 1,
         sessions |-> [r.sessions EXCEPT ![e.session] = AfterEvent(r, e)],
         notifications |-> inserted,
         recent |-> MoveToBack(r.recent, e.id, MaxRecent),
         presentation |-> Refreshed(presented, inserted, until, now),
         until |-> until]

\* Mutant of ReduceAt: a stale event still resolves attention.
ReduceStaleResolves(r, e, now) ==
    CASE Outcome(r, e) = "duplicate" -> r
      [] Outcome(r, e) = "stale" ->
            [Remembered(r, e) EXCEPT !.notifications = ResolveAttention(@, e)]
      [] OTHER -> Applied(r, e, now)

ReduceAt(r, e, now) ==
    CASE Outcome(r, e) = "duplicate" -> r
      [] Outcome(r, e) = "stale" -> Remembered(r, e)
      [] OTHER -> Applied(r, e, now)

RestartReminder(r, now) ==
    [r EXCEPT !.until = now + ReminderDuration,
              !.presentation = Refreshed(@, r.notifications, now + ReminderDuration, now)]

\* Only an unread notification can be acknowledged.
AcknowledgeNotification(r, n, now) ==
    LET ns == (r.notifications \ {n}) \cup {[n EXCEPT !.state = "acknowledged"]} IN
    [r EXCEPT !.revision = @ + 1, !.notifications = ns,
              !.presentation = Shown(@, Desired(ns, r.until, now), now)]

Refresh(r, now) == Refreshed(r.presentation, r.notifications, r.until, now)

AdvancePresentation(r, now) ==
    IF Refresh(r, now) = r.presentation THEN r
    ELSE [r EXCEPT !.revision = @ + 1, !.presentation = Refresh(r, now)]

-----------------------------------------------------------------------------
(***************************************************************************)
(* The durable projection: the highest ranked sessions with their current  *)
(* turn and retired turns, and one unread notification for each of them.   *)
(***************************************************************************)
Unread(ns) == {n \in ns : n.state = "unread"}

Priority(n) ==
    CASE n.kind = "attention" -> 3 [] n.kind = "failure" -> 2 [] OTHER -> 1

NotificationRank(r, s) ==
    Max({0} \cup {Priority(n) : n \in Unread(OfSession(r.notifications, s))})

PhaseRank(rec) ==
    IF rec.life # "open" \/ rec.current = NoTurn THEN 0
    ELSE CASE rec.turns[rec.current].phase = "attention" -> 2
           [] rec.turns[rec.current].phase = "active" -> 1
           [] OTHER -> 0

\* session_persistence_priority, then recency, then identity.
Outranks(r, s, t) ==
    LET Key(x) == <<NotificationRank(r, x), PhaseRank(r.sessions[x]),
                    r.sessions[x].time>>
    IN  \/ Key(s)[1] > Key(t)[1]
        \/ Key(s)[1] = Key(t)[1] /\ Key(s)[2] > Key(t)[2]
        \/ Key(s)[1] = Key(t)[1] /\ Key(s)[2] = Key(t)[2] /\ Key(s)[3] > Key(t)[3]
        \/ Key(s) = Key(t) /\ s < t

Known(sessions) == {s \in Session : sessions[s].life # "unknown"}

Persisted(r) ==
    {s \in Known(r.sessions) :
        Cardinality({t \in Known(r.sessions) : Outranks(r, t, s)}) < MaxPersisted}

\* PersistedSession::from_record and back: only the current turn's record.
ProjectedSession(rec) ==
    [rec EXCEPT !.turns = [t \in Turn |-> IF t = rec.current THEN rec.turns[t]
                                          ELSE NoRecord]]

\* notification_order: priority, then recency, then identity.
Preferred(m, n) ==
    \/ Priority(m) > Priority(n)
    \/ Priority(m) = Priority(n) /\ Before(n, m)

PersistentState(r) ==
    [revision |-> r.revision,
     sessions |-> [s \in Session |-> IF s \in Persisted(r)
                                     THEN ProjectedSession(r.sessions[s])
                                     ELSE UnknownSession],
     notifications |->
        {n \in Unread(r.notifications) :
            /\ n.session \in Persisted(r)
            /\ \A m \in Unread(OfSession(r.notifications, n.session)) : ~Preferred(m, n)}]

\* The checks of into_record and from_persistent_state that a projection can
\* fail; its sessions and notifications are keyed, so none occurs twice.
Restorable(p) ==
    /\ Cardinality(Known(p.sessions)) <= MaxPersisted
    /\ \A s \in Known(p.sessions) :
          LET rec == p.sessions[s] IN
          /\ Len(rec.retired) <= MaxRetired
          /\ rec.current \notin Range(rec.retired)
          /\ IsInjective(rec.retired)
          /\ rec.current # NoTurn => rec.turns[rec.current].phase # "none"
    /\ \A n \in p.notifications :
          /\ n.state = "unread"
          /\ n.session \in Known(p.sessions)
          /\ OfSession(p.notifications, n.session) = {n}

FromPersistentState(p) ==
    [revision |-> p.revision, sessions |-> p.sessions,
     notifications |-> p.notifications, recent |-> <<>>,
     presentation |-> [state |-> Desired(p.notifications, 0, 0), since |-> 0],
     until |-> 0]

=============================================================================
