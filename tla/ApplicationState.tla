--------------------------- MODULE ApplicationState ---------------------------
(***************************************************************************)
(* The running application around the reducer: AppState of lili-app-state  *)
(* applies events and acknowledgements under the reducer's lock, writes    *)
(* the projection with AppStateStore::save before it reports success and   *)
(* rolls the reducer back when the write fails; the exit handler and the   *)
(* start-up of the desktop (lili/src/lib.rs) write and read it once more.  *)
(*                                                                         *)
(* The lock is held from the clone of the previous reducer to the end of   *)
(* the save, so each such call is one action.  A crash can only fall       *)
(* between two of them, for the save is one database transaction.          *)
(***************************************************************************)
EXTENDS SessionReducer

CONSTANTS MaxNow,        \* bound: the process clock stops here, and no event is
                         \* applied whose reminder would outlive it
          MaxRevision,   \* bound: no event is applied beyond this revision
          MaxRestarts,   \* bound: restarts of the desktop process
          TimersInOrder  \* whether the runtime runs expiry tasks in deadline order

ASSUME SchedulingAssumption ==
    /\ {MaxNow, MaxRevision, MaxRestarts} \subseteq Nat
    /\ TimersInOrder \in BOOLEAN

VARIABLES
    reducer,    \* AppState.session_reducer
    stored,     \* the reducer projection in the app_state row
    now,        \* monotonic_time_ms(): milliseconds since this process started
    timers,     \* deadlines of the sleeping reminder-expiry tasks
    reply,      \* what the last call returned to its caller
    restarts,   \* history: how often the process was restarted
    newest,     \* history: the newest event a session was notified of since the start
    finished,   \* history: the turns that were terminal since the start
    dismissed   \* history: identities of the acknowledged notifications

vars == <<reducer, stored, now, timers, reply, restarts, newest, finished, dismissed>>

Reply == {"none", "applied", "duplicate", "stale", "invalid", "failed"}

NothingNotified == [s \in Session |-> [time |-> 0, id |-> 0]]

\* update_app_state_if_newer
Accepts(p) == stored.revision < p.revision \/ stored = p

\* AppStateStore::save: validation comes first, then the conditional update.
Saves(r) == Restorable(PersistentState(r)) /\ Accepts(PersistentState(r))

FinishedIn(r) ==
    {f \in Session \X Turn : r.sessions[f[1]].turns[f[2]].phase \in Terminal}

NewestOf(ns, base) ==
    [s \in Session |->
        LET newer == {n \in OfSession(ns, s) : Before(base[s], n)} IN
        IF newer = {} THEN base[s]
        ELSE LET n == CHOOSE n \in newer : \A m \in newer : ~Before(n, m)
             IN  [time |-> n.time, id |-> n.id]]

Observe(r) ==
    /\ finished' = finished \cup FinishedIn(r)
    /\ newest' = NewestOf(r.notifications, newest)

Init ==
    /\ reducer = EmptyReducer
    /\ stored = PersistentState(EmptyReducer)
    /\ now = 0
    /\ timers = {}
    /\ reply = "none"
    /\ restarts = 0
    /\ newest = NothingNotified
    /\ finished = {}
    /\ dismissed = {}

-----------------------------------------------------------------------------
(***************************************************************************)
(* apply_session_event_persisted                                           *)
(***************************************************************************)
\* A duplicate or a stale event is not saved; a stale one is remembered.
IgnoreEvent(e) ==
    /\ Outcome(reducer, e) \in {"duplicate", "stale"}
    /\ reducer' = ReduceAt(reducer, e, now)
    /\ reply' = Outcome(reducer, e)
    /\ UNCHANGED <<stored, now, timers, restarts, newest, finished, dismissed>>

\* Mutant of Commit: no expiry task is scheduled.
CommitWithoutTimer(r, e) ==
    /\ stored' = PersistentState(r)
    /\ reducer' = IF StartsReminder(e) THEN RestartReminder(r, now) ELSE r
    /\ UNCHANGED timers
    /\ Observe(r)

\* The reminder of an applied event restarts after the save and gets a task.
Commit(r, e) ==
    /\ stored' = PersistentState(r)
    /\ IF StartsReminder(e)
       THEN /\ reducer' = RestartReminder(r, now)
            /\ timers' = timers \cup {now + ReminderDuration}
       ELSE /\ reducer' = r
            /\ UNCHANGED timers
    /\ Observe(r)

ApplyEvent(e) ==
    /\ reducer.revision < MaxRevision
    /\ now + ReminderDuration <= MaxNow
    /\ Outcome(reducer, e) = "applied"
    /\ Saves(ReduceAt(reducer, e, now))
    /\ Commit(ReduceAt(reducer, e, now), e)
    /\ reply' = "applied"
    /\ UNCHANGED <<now, restarts, dismissed>>

\* Mutant of RollBack: the reducer keeps what could not be saved.
RollBackNothing(r) ==
    /\ reducer' = r
    /\ reply' = "failed"
    /\ UNCHANGED <<stored, now, timers, restarts, newest, finished, dismissed>>

\* The error path restores the clone: validation refused the new state, or the
\* database failed.
RollBack(r) ==
    /\ reply' = IF Saves(r) THEN "failed" ELSE "invalid"
    /\ UNCHANGED <<reducer, stored, now, timers, restarts, newest, finished, dismissed>>

ApplyEventFails(e) ==
    /\ Outcome(reducer, e) = "applied"
    /\ RollBack(ReduceAt(reducer, e, now))

-----------------------------------------------------------------------------
(***************************************************************************)
(* acknowledge_notification_persisted                                      *)
(***************************************************************************)
Acknowledge(n) ==
    LET r == AcknowledgeNotification(reducer, n, now) IN
    /\ n.state = "unread"
    /\ Saves(r)
    /\ reducer' = r
    /\ stored' = PersistentState(r)
    /\ dismissed' = dismissed \cup {n.id}
    /\ reply' = "applied"
    /\ UNCHANGED <<now, timers, restarts, newest, finished>>

AcknowledgeFails(n) ==
    /\ n.state = "unread"
    /\ RollBack(AcknowledgeNotification(reducer, n, now))

-----------------------------------------------------------------------------
(***************************************************************************)
(* The reminder-expiry task wakes at or after its deadline and passes the  *)
(* deadline, not the clock, to the reducer; this revision is not saved.    *)
(***************************************************************************)
ExpireReminder(d) ==
    /\ d <= now
    /\ TimersInOrder => \A other \in timers : d <= other
    /\ reducer' = AdvancePresentation(reducer, d)
    /\ timers' = timers \ {d}
    /\ UNCHANGED <<stored, now, reply, restarts, newest, finished, dismissed>>

Tick ==
    /\ now < MaxNow
    /\ now' = now + 1
    /\ UNCHANGED <<reducer, stored, timers, reply, restarts, newest, finished, dismissed>>

\* A new process loads what the last one left; its clock starts again.
StartFrom(p) ==
    /\ restarts < MaxRestarts
    /\ restarts' = restarts + 1
    /\ reducer' = FromPersistentState(p)
    /\ stored' = p
    /\ now' = 0
    /\ timers' = {}
    /\ reply' = "none"
    /\ newest' = NewestOf(p.notifications, NothingNotified)
    /\ finished' = FinishedIn(FromPersistentState(p))
    /\ UNCHANGED dismissed

CrashRestart == StartFrom(stored)

\* persist_desktop_state saves once more when the event loop exits.
ExitRestart ==
    StartFrom(IF Saves(reducer) THEN PersistentState(reducer) ELSE stored)

Next ==
    \/ \E e \in Event : IgnoreEvent(e) \/ ApplyEvent(e) \/ ApplyEventFails(e)
    \/ \E n \in reducer.notifications : Acknowledge(n) \/ AcknowledgeFails(n)
    \/ \E d \in timers : ExpireReminder(d)
    \/ Tick
    \/ CrashRestart
    \/ ExitRestart

\* tokio wakes every sleeping task and the clock runs on.
Fairness ==
    /\ WF_vars(Tick)
    /\ WF_vars(\E d \in timers : ExpireReminder(d))

Spec == Init /\ [][Next]_vars
FairSpec == Spec /\ Fairness

-----------------------------------------------------------------------------
(***************************************************************************)
(* What the application promises.                                          *)
(***************************************************************************)
\* Every variable has its type; the reducer is a value of its Rust type.
TypeOK ==
    /\ reducer \in Reducer
    /\ stored \in Projection
    /\ now \in Nat
    /\ timers \in SUBSET Nat
    /\ reply \in Reply
    /\ restarts \in Nat
    /\ newest \in [Session -> [time : Nat, id : Nat]]
    /\ finished \in SUBSET (Session \X Turn)
    /\ dismissed \in SUBSET Nat

\* "Lili retains only the latest notification for each (provider, sessionId)"
\* (docs/configuration.md:239): a session never has two cards, and its card is
\* the newest event it was notified of, in whatever order the events came
\* (insert_notification); a restart forgets the cards that are not unread.
LatestCardOnly ==
    \A n \in reducer.notifications :
        /\ OfSession(reducer.notifications, n.session) = {n}
        /\ [time |-> n.time, id |-> n.id] = newest[n.session]

\* "Each (session, turn) is monotonic: a terminal state cannot return to
\* active" (design.md): once a turn is terminal nothing that is delivered late or
\* again reopens it, not even the end and the resumption of its session.  And the
\* end of a session resolves the attention of every turn, also of those it left
\* behind, and nothing inserts a card of it without reopening it.
EndsAreFinal ==
    /\ \A f \in finished : reducer.sessions[f[1]].turns[f[2]].phase \in Terminal
    /\ \A n \in reducer.notifications :
          reducer.sessions[n.session].life = "ended" /\ n.kind = "attention"
              => n.state = "resolved"

\* Between calls the database holds exactly the projection of the reducer in
\* memory, up to the revision, which presentation ticks advance without a save:
\* a crash loses no applied event, and no rolled back one survives it.
DurableIsCurrent ==
    LET p == PersistentState(reducer) IN
    /\ stored.sessions = p.sessions
    /\ stored.notifications = p.notifications
    /\ stored.revision <= p.revision

\* An acknowledged card never comes back unread, however often its event is
\* delivered again and whether or not the process restarted in between.
DismissedStaysDismissed ==
    \A n \in reducer.notifications : n.state = "unread" => n.id \notin dismissed

\* The pet never shows less than the most urgent thing there is: only a downgrade
\* may wait for the dwell (refresh_presentation).  And the dwell never keeps Review
\* or Failed past the acknowledgement or the replacement of the card that calls for
\* them.
NeverUnderstated ==
    /\ reducer.presentation.state >= Desired(reducer.notifications, reducer.until, now)
    /\ \A shown \in {<<Review, "completion">>, <<Failed, "failure">>} :
          reducer.presentation.state = shown[1] =>
              \E n \in Unread(reducer.notifications) : n.kind = shown[2]

\* Revisions never go back within a process, and one revision is one projection:
\* the exit handler's save of an unchanged reducer is never rejected.
RevisionsAgree ==
    [][restarts' = restarts =>
          /\ reducer'.revision >= reducer.revision
          /\ reducer'.revision = reducer.revision
                => PersistentState(reducer') = PersistentState(reducer)]_vars

\* The activity reminder is a bounded pulse: the expiry task of its latest start
\* ends it, whatever overtook it (schedule_activity_reminder_expiry).
ReminderEnds ==
    reducer.presentation.state = ActivityReminder
        ~> reducer.presentation.state # ActivityReminder

\* Waiting is shown only while something waits: once no attention is left
\* unresolved the pet stops waiting.
WaitingEnds ==
    reducer.presentation.state = Waiting
        ~> \/ reducer.presentation.state # Waiting
           \/ \E n \in reducer.notifications : n.kind = "attention" /\ n.state # "resolved"

\* Every applied event leaves a state that can be saved and restored, as the
\* reducer's own tests unwrap it.
AppliedStateIsRestorable == reply # "invalid"

=============================================================================
