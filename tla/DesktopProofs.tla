------------------------------ MODULE DesktopProofs ------------------------------
(***************************************************************************)
(* Theorems about the calls of AppState side by side, for any events,      *)
(* plans and pets: which feedback stands, which titles are written, which  *)
(* cards are asked for, and what the channel holds at last; and about the  *)
(* pets that are selected and served, the menus, and the frames of the     *)
(* atlas.                                                                  *)
(***************************************************************************)
EXTENDS Desktop, ApplicationStateProofs, DesktopMenus, PetLibrary, SpriteFrames

-------------------------------------------------------------------------------
(***************************************************************************)
(* What the state of the calls looks like.                                 *)
(***************************************************************************)
SomePet == PetPackages \cup {0}
View == [cards : SUBSET [id : Nat, time : Nat, title : Nat], state : Idle..Waiting,
         pet : SomePet, feedback : Nat]
CallStep == {"idle", "publish", "read", "told", "written", "after", "acting", "prepare",
             "replace", "show", "over"}
Call == [step : CallStep, view : View, arg : Nat \cup PetPackages]
Token == [id : {e.id : e \in Event}, time : Nat, configuration : Nat]
PlanRecord ==
    [events : SUBSET Event, acks : Nat, activations : Nat, told : Nat, titled : BOOLEAN,
     selections : Nat, configurations : Nat]

CallsOK ==
    /\ calls \in [Caller -> Call]
    /\ \A c \in Caller :
          /\ calls[c].step \in {"prepare", "replace", "show"}
                => c.who = "pet" /\ calls[c].arg \in PetPackages
          /\ calls[c].step = "acting" => c.who = "activation"

RestOK ==
    /\ plan \in PlanRecord
    /\ titles \in [Incarnation -> Nat] /\ configuration \in Nat
    /\ pendingTitles \in SUBSET Token /\ workers \in SUBSET Token /\ aborted \in SUBSET Token
    /\ shutdown \in {"open", "closed", "waiting", "returned"}
    /\ feedback \in Nat
    /\ pet \in [active : SomePet, shown : SomePet, stored : SomePet]
    /\ \A n \in reducer.notifications : Of(n) \in Incarnation

DesktopTypeOK == CardInv /\ CallsOK /\ RestOK

-------------------------------------------------------------------------------
(***************************************************************************)
(* Feedback: every feedback that was set has an identity and a task of its *)
(* own.                                                                    *)
(***************************************************************************)
\* An activation whose action is over holds the identity of its feedback, or 0.
Ended(c) == c \in Caller /\ c.who = "activation" /\ calls[c].step # "acting"
FeedbackInv ==
    /\ feedback <= plan.told
    /\ \A c \in Caller : Ended(c) => calls[c].arg \in 0 .. plan.told
    /\ \A c, d \in Caller :
          Ended(c) /\ Ended(d) /\ calls[c].arg = calls[d].arg /\ calls[c].arg # 0 => c = d
    /\ FeedbackStands

(***************************************************************************)
(* Titles: what is pending was asked for under the current configuration,  *)
(* and an unread card was asked for unless a call is about to do so.       *)
(***************************************************************************)
Configuring == calls[C("configure", 0)].step # "idle"
AskedFor(id) == [id |-> id, configuration |-> configuration] \in asked
Arriving(id) == calls[Ingestion].step # "idle" /\ calls[Ingestion].arg = id

AskedInv ==
    /\ calls[C("configure", 0)].arg = 0
    /\ Configuring => shutdown = "open" /\ configuration > 0
    /\ \A t \in pendingTitles : t.configuration = configuration /\ AskedFor(t.id)
    /\ plan.titled /\ configuration > 0 /\ shutdown = "open" /\ ~Configuring
          => \A n \in Unread(reducer.notifications) : AskedFor(n.id) \/ Arriving(n.id)

(***************************************************************************)
(* Publications: unless the last one began while another was under way, it *)
(* is the only one and holds what is current, and the channel does once it *)
(* has ended.                                                              *)
(***************************************************************************)
HoldsCurrent(c) ==
    /\ calls[c].step \in {"read", "told", "written"} =>
          /\ calls[c].view.cards = CardsOf(reducer)
          /\ calls[c].view.state = reducer.presentation.state
    /\ calls[c].step \in {"told", "written"} => calls[c].view.feedback = feedback
    /\ calls[c].step = "written" => calls[c].view.pet = pet.shown
PublicationInv ==
    ~overlapped =>
        /\ \A c, d \in Caller : Publishing(c) /\ Publishing(d) => c = d
        /\ \A c \in Caller : HoldsCurrent(c)
        /\ (\A c \in Caller : ~Publishing(c)) => sent = Current

\* The worker of t is between its save and the end of its publication.
Telling(t) ==
    Publishing(C("title", t.id)) /\ calls[C("title", t.id)].arg = t.configuration
HasUnread(id) == \E n \in Unread(reducer.notifications) : n.id = id
ToCome(id) == \E e \in plan.events : e.id = id

\* A worker is not aborted between its save and its publication, for its card is
\* unread as long as nobody else publishes; and what is no longer unread stays so.
WorkerInv ==
    /\ \A e, f \in plan.events : e.id = f.id => e = f
    /\ \A n \in reducer.notifications : ~ToCome(n.id)
    /\ \A t \in pendingTitles : ~ToCome(t.id)
    /\ \A t \in pendingTitles \cup workers \cup aborted : t.configuration <= configuration
    /\ \A t \in aborted : t.configuration = configuration => ~HasUnread(t.id) /\ ~ToCome(t.id)
    /\ \A t \in aborted, u \in pendingTitles : t.id = u.id => t.configuration # u.configuration
    /\ ~overlapped =>
          /\ \A t \in aborted : ~Telling(t)
          /\ \A t \in pendingTitles : Telling(t) => HasUnread(t.id)
-------------------------------------------------------------------------------
(***************************************************************************)
(* What the steps do to the calls, to the reducer and to the cards.        *)
(***************************************************************************)
LEMMA Callers ==
    /\ Ingestion \in Caller /\ C("user", 0) \in Caller /\ C("configure", 0) \in Caller
    /\ \A i \in {e.id : e \in Event} : C("title", i) \in Caller
    /\ \A who, id : C(who, id).who = who /\ C(who, id).id = id
    /\ Ingestion.who = "ingestion"
    /\ \A c \in Caller : c = C(c.who, c.id)
    /\ \A c \in Caller : c.who \in {"activation", "pet"} => c.id > 0
BY DEF Ingestion, Caller, C

LEMMA CallUpdates ==
    /\ \A s \in CallStep, a \in Nat \cup PetPackages :
          LET r == [Resting EXCEPT !.step = s, !.arg = a]
          IN  r \in Call /\ r.step = s /\ r.arg = a
    /\ \A s \in CallStep :
          LET r == [Resting EXCEPT !.step = s] IN r \in Call /\ r.step = s /\ r.arg = 0
    /\ Resting \in Call /\ Resting.step = "idle" /\ Resting.arg = 0
    /\ \A r \in Call, s \in CallStep :
          /\ [r EXCEPT !.step = s] \in Call
          /\ \A a \in Nat \cup PetPackages :
                /\ [r EXCEPT !.step = s, !.arg = a] \in Call
                /\ \A v \in View : [r EXCEPT !.step = s, !.arg = a, !.view = v] \in Call
<1>1. NoView \in View
  BY DEF NoView, View, SomePet, Idle, Waiting
<1>2. Resting \in Call
  BY <1>1 DEF Resting, Call, CallStep
<1> QED
  BY <1>2 DEF Resting, Call

\* A call that starts its publication, and every other call goes on as it was.
LEMMA StartedCall ==
    ASSUME CallsOK, NEW c \in Caller, NEW arg \in Nat \cup PetPackages, StartPublishing(c, arg)
    PROVE  /\ calls' \in [Caller -> Call] /\ CallsOK'
           /\ calls'[c].step = "publish" /\ calls'[c].arg = arg
           /\ \A d \in Caller : d # c => calls'[d] = calls[d]
           /\ ~overlapped' => \A d \in Caller : d # c => ~Publishing(d)
<1>1. PICK r \in Call : calls' = [calls EXCEPT ![c] = r] /\ r.step = "publish" /\ r.arg = arg
  <2> DEFINE r == [Resting EXCEPT !.step = "publish", !.arg = arg]
  <2>1. calls' = [calls EXCEPT ![c] = r]
    BY DEF StartPublishing
  <2>2. r \in Call /\ r.step = "publish" /\ r.arg = arg
    <3>1. "publish" \in CallStep
      BY DEF CallStep
    <3> QED
      BY <3>1, CallUpdates
  <2> QED
    BY <2>1, <2>2
<1>2. /\ calls' \in [Caller -> Call] /\ calls'[c] = r
      /\ \A d \in Caller : d # c => calls'[d] = calls[d]
  BY <1>1 DEF CallsOK
<1>3. CallsOK'
  BY <1>1, <1>2 DEF CallsOK
<1>4. ~overlapped' => \A d \in Caller : d # c => ~Publishing(d)
  BY DEF StartPublishing
<1> QED
  BY <1>1, <1>2, <1>3, <1>4

\* A call that moves on by itself.
LEMMA MovedCall ==
    ASSUME CallsOK, NEW c \in Caller, NEW r \in Call, calls' = [calls EXCEPT ![c] = r],
           r.step \in {"prepare", "replace", "show"} => c.who = "pet" /\ r.arg \in PetPackages,
           r.step = "acting" => c.who = "activation"
    PROVE  /\ calls' \in [Caller -> Call] /\ CallsOK' /\ calls'[c] = r
           /\ \A d \in Caller : d # c => calls'[d] = calls[d]
<1>1. /\ calls' \in [Caller -> Call] /\ calls'[c] = r
      /\ \A d \in Caller : d # c => calls'[d] = calls[d]
  BY DEF CallsOK
<1> QED
  BY <1>1 DEF CallsOK

\* Cards keep their identities, and no card becomes unread again.
OnlyFewerUnread ==
    \A n \in reducer'.notifications : \E m \in reducer.notifications :
        Of(m) = Of(n) /\ (n.state = "unread" => m.state = "unread")
OnlyFewerUnreadBut(e) ==
    \A n \in reducer'.notifications :
        \/ Of(n) = Of(e)
        \/ \E m \in reducer.notifications :
              Of(m) = Of(n) /\ (n.state = "unread" => m.state = "unread")

LEMMA AppliedUnread ==
    ASSUME CardInv, NEW e \in Event, ApplyEvent(e)
    PROVE  OnlyFewerUnreadBut(e)
<1> DEFINE old == reducer.notifications
           resolved == ResolvedAfter(reducer, e)
<1>1. reducer \in Reducer /\ old \in SUBSET Notification /\ resolved \in SUBSET Notification
  BY ResolvedAfterType DEF CardInv, TypeOK, Reducer
<1>2. reducer'.notifications = InsertedAfter(reducer, e)
  BY CommitStep
<1>3. \A n \in resolved : \E m \in old :
          Of(m) = Of(n) /\ (n.state = "unread" => m.state = "unread")
  <2>1. \A n \in old : LET m == [n EXCEPT !.state = "resolved"]
                       IN  m.time = n.time /\ m.id = n.id /\ m.state = "resolved"
    BY <1>1 DEF Notification
  <2> QED
    BY <2>1 DEF ResolvedAfter, ResolveAttention, Of
<1>4. \A n \in InsertedAfter(reducer, e) : n \in resolved \/ Of(n) = Of(e)
  <2>1. CASE ~Notifies(e)
    BY <2>1 DEF InsertedAfter
  <2>2. CASE Notifies(e)
    <3> HIDE DEF resolved
    <3>1. InsertedAfter(reducer, e) = InsertNotification(resolved, e)
      BY <2>2 DEF InsertedAfter, resolved
    <3>2. e.type \notin SessionEvent
      BY <2>2, NotifyingEventIsTurnEvent
    <3>3. \/ InsertNotification(resolved, e) = resolved
          \/ \E n \in Notification :
                /\ InsertNotification(resolved, e) = (resolved \ OfSession(resolved, e.session)) \cup {n}
                /\ n.time = e.time /\ n.id = e.id
      <4>1. \/ InsertNotification(resolved, e) = resolved
            \/ \E n \in Notification :
                  /\ \A m \in OfSession(resolved, e.session) : Before(m, e)
                  /\ InsertNotification(resolved, e)
                       = (resolved \ OfSession(resolved, e.session)) \cup {n}
                  /\ n.session = e.session /\ n.time = e.time /\ n.id = e.id
                  /\ n.turn = e.turn /\ n.state = "unread"
                  /\ n.kind = NotificationKind(e.type)
        BY <1>1, <3>2, InsertNotificationCases
      <4> QED
        BY <4>1
    <3>4. \A n \in Notification : n.time = e.time /\ n.id = e.id => Of(n) = Of(e)
      BY DEF Of
    <3> QED
      BY <3>1, <3>3, <3>4
  <2> QED
    BY <2>1, <2>2
<1> QED
  BY <1>2, <1>3, <1>4 DEF OnlyFewerUnreadBut

LEMMA IgnoredKeepsCards ==
    ASSUME CardInv, NEW e \in Event, IgnoreEvent(e)
    PROVE  /\ reducer'.notifications = reducer.notifications
           /\ reducer'.presentation = reducer.presentation
BY DEF IgnoreEvent, ReduceAt, Remembered, CardInv, TypeOK, Reducer

LEMMA AcknowledgedUnread ==
    ASSUME CardInv, NEW n \in reducer.notifications, Acknowledge(n)
    PROVE  OnlyFewerUnread
<1>1. reducer \in Reducer /\ reducer.notifications \in SUBSET Notification
  BY DEF CardInv, TypeOK, Reducer
<1>2. reducer'.notifications
        = (reducer.notifications \ {n}) \cup {[n EXCEPT !.state = "acknowledged"]}
  BY <1>1 DEF Acknowledge, AcknowledgeNotification, Reducer
<1>3. LET a == [n EXCEPT !.state = "acknowledged"]
      IN  a.time = n.time /\ a.id = n.id /\ a.state = "acknowledged"
  BY <1>1 DEF Notification
<1> QED
  BY <1>2, <1>3 DEF OnlyFewerUnread, Of

LEMMA FailuresKeepReducer ==
    /\ \A e \in Event : ApplyEventFails(e) => UNCHANGED reducer
    /\ \A n : AcknowledgeFails(n) => UNCHANGED reducer
BY DEF ApplyEventFails, AcknowledgeFails, RollBack

LEMMA SavedTitleKeepsCards ==
    ASSUME CardInv, NEW t, SaveTitle(t)
    PROVE  /\ CardInv'
           /\ reducer'.notifications = reducer.notifications
           /\ reducer'.presentation = reducer.presentation
<1>1. /\ reducer' = [reducer EXCEPT !.revision = @ + 1]
      /\ stored' = PersistentState(reducer')
      /\ UNCHANGED <<now, timers, reply, restarts, newest, finished, dismissed>>
  BY DEF SaveTitle
<1>2. /\ reducer' \in Reducer /\ reducer'.notifications = reducer.notifications
      /\ reducer'.presentation = reducer.presentation
  <2>1. reducer \in Reducer
    BY DEF CardInv, TypeOK
  <2> QED
    BY <1>1, <2>1 DEF Reducer
<1>3. OneCard(reducer'.notifications)
  BY <1>2, CardsMatchOneCard DEF CardInv, TypeOK, Reducer
<1>4. stored' \in Projection /\ OneCard(stored'.notifications)
  BY <1>1, <1>2, <1>3, PersistentStateType, PersistentCards
<1> QED
  BY <1>1, <1>2, <1>4 DEF CardInv, TypeOK
\* What a step of a publication changes.
PublicationStep(c) ==
    /\ Publishing(c) /\ CallsOK'
    /\ \A d \in Caller : d # c => calls'[d] = calls[d]
    /\ calls'[c].arg = calls[c].arg
    /\ calls'[c].step \in {"read", "told", "written", "after", "idle"}
    /\ calls'[c].step = "idle" => c.who = "user"
    /\ UNCHANGED <<vars, plan, titleVars, feedback, petVars, overlapped>>

\* Which cards the application would present, and how.
LEMMA PresentedType ==
    ASSUME DesktopTypeOK
    PROVE  /\ CardsOf(reducer) \in SUBSET [id : Nat, time : Nat, title : Nat]
           /\ reducer.presentation.state \in Idle..Waiting
<1>1. reducer \in Reducer /\ reducer.notifications \in SUBSET Notification
  BY DEF DesktopTypeOK, CardInv, TypeOK, Reducer
<1>2. \A n \in reducer.notifications : Of(n) \in Incarnation /\ titles[Of(n)] \in Nat
  BY DEF DesktopTypeOK, RestOK
<1>3. CardsOf(reducer) \in SUBSET [id : Nat, time : Nat, title : Nat]
  BY <1>1, <1>2 DEF CardsOf, Unread, Notification
<1> QED
  BY <1>1, <1>3 DEF Reducer

LEMMA ViewUpdates ==
    \A r \in Call :
        /\ \A cards \in SUBSET [id : Nat, time : Nat, title : Nat], state \in Idle..Waiting :
              [r.view EXCEPT !.cards = cards, !.state = state] \in View
        /\ \A f \in Nat : [r.view EXCEPT !.feedback = f] \in View
        /\ \A p \in SomePet : [r.view EXCEPT !.pet = p] \in View
BY DEF Call, View

LEMMA PublicationSteps ==
    ASSUME DesktopTypeOK, NEW c \in Caller,
           ReadReducer(c) \/ ReadFeedback(c) \/ WriteSnapshot(c) \/ Send(c)
    PROVE  PublicationStep(c)
<1>0. /\ CallsOK /\ calls[c] \in Call /\ calls[c].arg \in Nat \cup PetPackages
      /\ feedback \in Nat /\ pet.shown \in SomePet
  BY DEF DesktopTypeOK, CallsOK, RestOK, Call
<1>1. UNCHANGED <<vars, plan, titleVars, feedback, petVars, overlapped>> /\ Publishing(c)
  BY DEF ReadReducer, ReadFeedback, WriteSnapshot, Send, viewVars, Publishing
<1>2. PICK r \in Call : /\ calls' = [calls EXCEPT ![c] = r]
                        /\ r.arg = calls[c].arg
                        /\ r.step \in {"read", "told", "written", "after", "idle"}
                        /\ r.step = "idle" => c.who = "user"
  <2>0. \A r \in Call, s \in {"read", "told", "written"}, v \in View :
            LET q == [r EXCEPT !.step = s, !.view = v]
            IN  q \in Call /\ q.arg = r.arg /\ q.step = s
    BY DEF Call, CallStep
  <2>1. CASE ReadReducer(c)
    <3> DEFINE v == [calls[c].view EXCEPT !.cards = CardsOf(reducer),
                                          !.state = reducer.presentation.state]
    <3>1. v \in View
      BY <1>0, PresentedType, ViewUpdates
    <3>2. calls' = [calls EXCEPT ![c] = [calls[c] EXCEPT !.step = "read", !.view = v]]
      BY <1>0, <2>1 DEF ReadReducer
    <3> HIDE DEF v
    <3> QED
      BY <1>0, <2>0, <3>1, <3>2
  <2>2. CASE ReadFeedback(c)
    <3> DEFINE v == [calls[c].view EXCEPT !.feedback = feedback]
    <3>1. v \in View
      BY <1>0, ViewUpdates
    <3>2. calls' = [calls EXCEPT ![c] = [calls[c] EXCEPT !.step = "told", !.view = v]]
      BY <1>0, <2>2 DEF ReadFeedback
    <3> HIDE DEF v
    <3> QED
      BY <1>0, <2>0, <3>1, <3>2
  <2>3. CASE WriteSnapshot(c)
    <3> DEFINE v == [calls[c].view EXCEPT !.pet = pet.shown]
    <3>1. v \in View
      BY <1>0, ViewUpdates
    <3>2. calls' = [calls EXCEPT ![c] = [calls[c] EXCEPT !.step = "written", !.view = v]]
      BY <1>0, <2>3 DEF WriteSnapshot
    <3> HIDE DEF v
    <3> QED
      BY <1>0, <2>0, <3>1, <3>2
  <2>4. CASE Send(c)
    <3>1. After(c) \in CallStep /\ After(c) \in {"after", "idle"}
          /\ (After(c) = "idle" => c.who = "user")
      BY DEF After, CallStep
    <3>2. calls' = [calls EXCEPT ![c] = [Resting EXCEPT !.step = After(c), !.arg = calls[c].arg]]
      BY <2>4 DEF Send
    <3> QED
      BY <1>0, <3>1, <3>2, CallUpdates
  <2> QED
    BY <2>1, <2>2, <2>3, <2>4
<1>3. CallsOK' /\ calls'[c] = r /\ \A d \in Caller : d # c => calls'[d] = calls[d]
  <2>1. r.step \notin {"prepare", "replace", "show", "acting"}
    BY <1>2
  <2> QED
    BY <1>0, <1>2, <2>1, MovedCall
<1> QED
  BY <1>1, <1>2, <1>3 DEF PublicationStep
-------------------------------------------------------------------------------
(***************************************************************************)
(* Types.                                                                  *)
(***************************************************************************)
\* Apart from the titles, the calls are calls of the running application.
LEMMA DesktopSteps == DesktopNext => [Next]_vars \/ \E t \in workers : SaveTitle(t)
<1> SUFFICES ASSUME DesktopNext PROVE [Next]_vars \/ \E t \in workers : SaveTitle(t)
  OBVIOUS
<1>1. ASSUME NEW e \in Event, Ingest(e) PROVE Next
  BY <1>1 DEF Ingest, Next
<1>2. ASSUME NEW n \in reducer.notifications, Dismiss(n) PROVE Next
  BY <1>2 DEF Dismiss, Next
<1>3. ASSUME NEW c \in Caller, ActionSucceeds(c) PROVE [Next]_vars
  BY <1>3 DEF ActionSucceeds, Next, Bound, Unread
<1>4. ASSUME NEW c \in Caller,
             \/ ReadReducer(c) \/ ReadFeedback(c) \/ WriteSnapshot(c) \/ Send(c)
             \/ ScheduleTitles(c)
             \/ \E p \in PetPackages : SelectPet(c, p)
             \/ \E outcome \in {"unavailable", "failed", "available"} : PreparePet(c, outcome)
             \/ ReplacePet(c) \/ ShowPet(c) \/ UnlockSelection(c)
      PROVE  UNCHANGED vars
  BY <1>4 DEF ReadReducer, ReadFeedback, WriteSnapshot, Send, ScheduleTitles, SelectPet, PreparePet,
     ReplacePet, ShowPet, UnlockSelection
<1>5. ASSUME NEW t \in workers, AbortWorker(t) \/ DropTitle(t) \/ EndTitle(t)
      PROVE  UNCHANGED vars
  BY <1>5 DEF AbortWorker, DropTitle, EndTitle
<1>6. ASSUME Configure \/ CloseTitles \/ TakePendingTitles \/ ShutdownReturns
      PROVE  UNCHANGED vars
  BY <1>6 DEF Configure, CloseTitles, TakePendingTitles, ShutdownReturns
<1>7. ASSUME NEW c \in Caller,
             \/ \E n \in reducer.notifications : Activate(c, n)
             \/ \E told \in BOOLEAN : ActionEnds(c, told)
             \/ ExpireFeedback(c)
      PROVE  UNCHANGED vars
  BY <1>7 DEF Activate, ActionEnds, ExpireFeedback
<1> QED
  BY <1>1, <1>2, <1>3, <1>4, <1>5, <1>6, <1>7 DEF DesktopNext

LEMMA CardInvDesktop ==
    ASSUME CardInv, DesktopNext
    PROVE  CardInv'
BY DesktopSteps, CardInvNext, SavedTitleKeepsCards

\* The plan loses what was done, and counts the feedback that was set.
LEMMA PlanUpdates ==
    ASSUME plan \in PlanRecord
    PROVE  /\ \A e : [plan EXCEPT !.events = @ \ {e}] \in PlanRecord
           /\ plan.acks > 0 => [plan EXCEPT !.acks = @ - 1] \in PlanRecord
           /\ plan.activations > 0 => [plan EXCEPT !.activations = @ - 1] \in PlanRecord
           /\ plan.selections > 0 => [plan EXCEPT !.selections = @ - 1] \in PlanRecord
           /\ plan.configurations > 0 => [plan EXCEPT !.configurations = @ - 1] \in PlanRecord
           /\ [plan EXCEPT !.told = @ + 1] \in PlanRecord
BY DEF PlanRecord

\* Only the ingestion brings a card; everything else at most resolves some.
LEMMA OnlyIngestionBringsCards ==
    ASSUME DesktopTypeOK, DesktopNext
    PROVE  \/ OnlyFewerUnread
           \/ \E e \in Event : Ingest(e) /\ ApplyEvent(e) /\ OnlyFewerUnreadBut(e)
<1>0. CardInv
  BY DEF DesktopTypeOK
<1>1. reducer'.notifications = reducer.notifications => OnlyFewerUnread
  BY DEF OnlyFewerUnread
<1>2. ASSUME NEW e \in Event, Ingest(e)
      PROVE  OnlyFewerUnread \/ (ApplyEvent(e) /\ OnlyFewerUnreadBut(e))
  BY <1>0, <1>1, <1>2, AppliedUnread, IgnoredKeepsCards, FailuresKeepReducer DEF Ingest
<1>3. ASSUME NEW n \in reducer.notifications, Acknowledge(n) \/ AcknowledgeFails(n)
      PROVE  OnlyFewerUnread
  BY <1>0, <1>1, <1>3, AcknowledgedUnread, FailuresKeepReducer
<1>4. ASSUME NEW c \in Caller, ActionSucceeds(c) PROVE OnlyFewerUnread
  <2>1. \A n \in Bound(c) : n \in reducer.notifications
    BY DEF Bound, Unread
  <2>2. \/ \E n \in Bound(c) : Acknowledge(n) \/ AcknowledgeFails(n)
        \/ reducer' = reducer
    BY <1>4 DEF ActionSucceeds, vars
  <2> QED
    BY <1>1, <1>3, <2>1, <2>2
<1>5. \/ \E e \in Event : Ingest(e)
      \/ \E n \in reducer.notifications : Acknowledge(n) \/ AcknowledgeFails(n)
      \/ \E c \in Caller : ActionSucceeds(c)
      \/ \E t \in workers : SaveTitle(t)
      \/ UNCHANGED reducer
  BY DEF DesktopNext, vars, Dismiss, ReadReducer, ReadFeedback, WriteSnapshot, Send, ScheduleTitles,
     SelectPet, PreparePet, ReplacePet, ShowPet, UnlockSelection, AbortWorker, DropTitle, EndTitle,
     Configure, CloseTitles, TakePendingTitles, ShutdownReturns, Activate, ActionEnds, ExpireFeedback
<1> QED
  BY <1>0, <1>1, <1>2, <1>3, <1>4, <1>5, SavedTitleKeepsCards

\* Every card stays the card of an event.
LEMMA CardsStayCardsOfEvents ==
    ASSUME DesktopTypeOK, DesktopNext
    PROVE  \A n \in reducer'.notifications : Of(n) \in Incarnation
<1>1. \A n \in reducer.notifications : Of(n) \in Incarnation
  BY DEF DesktopTypeOK, RestOK
<1>2. \A e \in Event : Of(e) \in Incarnation
  BY DEF Of, Incarnation
<1> QED
  BY <1>1, <1>2, OnlyIngestionBringsCards DEF OnlyFewerUnread, OnlyFewerUnreadBut

LEMMA SetFeedbackStep ==
    ASSUME DesktopTypeOK, NEW c \in Caller, SetFeedback(c)
    PROVE  /\ plan' \in PlanRecord /\ plan'.told = plan.told + 1
           /\ plan'.events = plan.events /\ plan'.titled = plan.titled
           /\ feedback' = plan'.told /\ feedback' \in Nat
           /\ StartPublishing(c, plan'.told) /\ plan'.told \in Nat
<1>1. plan' = [plan EXCEPT !.told = @ + 1] /\ plan \in PlanRecord
  BY DEF SetFeedback, DesktopTypeOK, RestOK
<1>2. plan' \in PlanRecord /\ plan'.told = plan.told + 1
      /\ plan'.events = plan.events /\ plan'.titled = plan.titled
  BY <1>1, PlanUpdates DEF PlanRecord
<1>3. plan'.told \in Nat
  BY <1>2 DEF PlanRecord
<1> QED
  BY <1>2, <1>3 DEF SetFeedback

\* A token is made from a card, for the supervisor of now.
LEMMA ScheduledTokens ==
    ASSUME DesktopTypeOK, NEW only, Scheduled(only)
    PROVE  /\ pendingTitles' \subseteq Token /\ workers' \subseteq Token /\ aborted' \subseteq Token
<1> DEFINE kept == {t \in pendingTitles : \E n \in Unread(reducer.notifications) : n.id = t.id}
           new == {[id |-> n.id, time |-> n.time, configuration |-> configuration] :
                      n \in {n \in Unread(reducer.notifications) :
                               /\ only = 0 \/ n.id = only
                               /\ \A t \in kept : t.id # n.id}}
<1>1. \A n \in reducer.notifications :
          n.id \in {e.id : e \in Event} /\ n.time \in Nat
  <2>1. \A n \in reducer.notifications : Of(n) \in Incarnation /\ n.time \in Nat
    BY DEF DesktopTypeOK, RestOK, CardInv, TypeOK, Reducer, Notification
  <2> QED
    <3> TAKE n \in reducer.notifications
    <3>1. PICK e \in Event : Of(n) = [id |-> e.id, time |-> e.time]
      BY <2>1 DEF Incarnation
    <3>2. n.id = e.id
      BY <3>1 DEF Of
    <3> QED
      BY <2>1, <3>2
<1>2. new \subseteq Token
  BY <1>1 DEF Token, Unread, DesktopTypeOK, RestOK
<1>3. pendingTitles' = kept \cup new /\ workers' = workers \cup new
      /\ aborted' = aborted \cup (pendingTitles \ kept)
  BY DEF Scheduled
<1> HIDE DEF new
<1> QED
  BY <1>2, <1>3 DEF DesktopTypeOK, RestOK

LEMMA DesktopKeepsShape ==
    ASSUME DesktopTypeOK, DesktopNext
    PROVE  DesktopTypeOK'
<1>0. /\ plan \in PlanRecord
      /\ titles \in [Incarnation -> Nat] /\ configuration \in Nat
      /\ pendingTitles \in SUBSET Token /\ workers \in SUBSET Token /\ aborted \in SUBSET Token
      /\ shutdown \in {"open", "closed", "waiting", "returned"}
      /\ feedback \in Nat
      /\ pet \in [active : SomePet, shown : SomePet, stored : SomePet]
      /\ CallsOK /\ calls \in [Caller -> Call]
      /\ \A t \in workers : t \in Token /\ C("title", t.id) \in Caller
      /\ \A c \in Caller : calls[c].arg \in Nat \cup PetPackages
  <2>1. \A t \in Token : C("title", t.id) \in Caller
    BY Callers DEF Token
  <2>2. \A c \in Caller : calls[c].arg \in Nat \cup PetPackages
    BY DEF DesktopTypeOK, CallsOK, Call
  <2> QED
    BY <2>1, <2>2 DEF DesktopTypeOK, RestOK, CallsOK
<1>1. CardInv' /\ \A n \in reducer'.notifications : Of(n) \in Incarnation
  BY CardInvDesktop, CardsStayCardsOfEvents DEF DesktopTypeOK
<1> DEFINE RestOther ==
             /\ plan' \in PlanRecord
             /\ titles' \in [Incarnation -> Nat] /\ configuration' \in Nat
             /\ pendingTitles' \in SUBSET Token /\ workers' \in SUBSET Token /\ aborted' \in SUBSET Token
             /\ shutdown' \in {"open", "closed", "waiting", "returned"}
             /\ feedback' \in Nat
             /\ pet' \in [active : SomePet, shown : SomePet, stored : SomePet]
           Shape == CallsOK' /\ RestOther
           Moves(c) == \E r \in Call :
                          /\ calls' = [calls EXCEPT ![c] = r]
                          /\ r.step \in {"prepare", "replace", "show"} => c.who = "pet" /\ r.arg \in PetPackages
                          /\ r.step = "acting" => c.who = "activation"
<1>2. \A c \in Caller : Moves(c) => CallsOK'
  BY <1>0, MovedCall
<1>3. \A c \in Caller, arg \in Nat \cup PetPackages : StartPublishing(c, arg) => CallsOK'
  BY <1>0, StartedCall
<1>4. \A c \in Caller, s \in {"idle", "after", "over"}, a \in Nat \cup PetPackages :
          /\ calls' = [calls EXCEPT ![c] = [Resting EXCEPT !.step = s, !.arg = a]] => Moves(c)
          /\ calls' = [calls EXCEPT ![c] = [Resting EXCEPT !.step = s]] => Moves(c)
          /\ calls' = [calls EXCEPT ![c] = Resting] => Moves(c)
  <2>1. \A s \in {"idle", "after", "over"} :
            s \in CallStep /\ s \notin {"prepare", "replace", "show", "acting"}
    BY DEF CallStep
  <2>2. ASSUME NEW c \in Caller, NEW r \in Call, calls' = [calls EXCEPT ![c] = r],
               r.step \in {"idle", "after", "over"}
        PROVE  Moves(c)
    BY <2>1, <2>2
  <2> HIDE DEF Moves
  <2> TAKE c \in Caller, s \in {"idle", "after", "over"}, a \in Nat \cup PetPackages
  <2>3. CASE calls' = [calls EXCEPT ![c] = [Resting EXCEPT !.step = s, !.arg = a]]
    <3>1. LET r == [Resting EXCEPT !.step = s, !.arg = a] IN r \in Call /\ r.step = s
      BY <2>1, CallUpdates
    <3> QED
      BY <2>2, <2>3, <3>1
  <2>4. CASE calls' = [calls EXCEPT ![c] = [Resting EXCEPT !.step = s]]
    <3>1. LET r == [Resting EXCEPT !.step = s] IN r \in Call /\ r.step = s
      BY <2>1, CallUpdates
    <3> QED
      BY <2>2, <2>4, <3>1
  <2>5. CASE calls' = [calls EXCEPT ![c] = Resting]
    BY <2>2, <2>5, CallUpdates
  <2> QED
    BY <2>3, <2>4, <2>5
<1>5. calls' = calls => CallsOK'
  BY <1>0 DEF CallsOK
<1> HIDE DEF Moves
<1>10. ASSUME NEW e \in Event, Ingest(e) PROVE Shape
  <2>1. Ingestion \in Caller /\ e.id \in Nat
    BY Callers, EventFields
  <2>2. CallsOK'
    BY <1>3, <1>5, <1>10, <2>1 DEF Ingest
  <2>3. plan' \in PlanRecord
    BY <1>0, <1>10, PlanUpdates DEF Ingest
  <2> QED
    BY <1>0, <1>10, <2>2, <2>3 DEF Ingest, petVars
<1>11. ASSUME NEW n \in reducer.notifications, Dismiss(n) PROVE Shape
  <2>2. CallsOK'
    BY <1>3, <1>5, <1>11, Callers DEF Dismiss
  <2>3. plan' \in PlanRecord
    BY <1>0, <1>11, PlanUpdates DEF Dismiss
  <2> QED
    BY <1>0, <1>11, <2>2, <2>3 DEF Dismiss, petVars
<1>12. ASSUME NEW c \in Caller,
              ReadReducer(c) \/ ReadFeedback(c) \/ WriteSnapshot(c) \/ Send(c)
       PROVE  Shape
  BY <1>0, <1>12, PublicationSteps DEF PublicationStep, titleVars, petVars
<1>13. ASSUME NEW c \in Caller, ScheduleTitles(c) PROVE Shape
  <2>1. CallsOK'
    BY <1>2, <1>4, <1>13 DEF ScheduleTitles
  <2>2. pendingTitles' \in SUBSET Token /\ workers' \in SUBSET Token /\ aborted' \in SUBSET Token
    BY <1>0, <1>13, ScheduledTokens DEF ScheduleTitles
  <2> QED
    BY <1>0, <1>13, <2>1, <2>2 DEF ScheduleTitles, petVars
<1>14. ASSUME NEW t \in workers, AbortWorker(t) PROVE Shape
  <2>1. CallsOK'
    <3>1. C("title", t.id) \in Caller
      BY <1>0
    <3>2. CASE calls[C("title", t.id)].arg = t.configuration
      <4>1. calls' = [calls EXCEPT ![C("title", t.id)] = Resting]
        BY <1>14, <3>2 DEF AbortWorker
      <4> QED
        BY <1>2, <1>4, <3>1, <4>1
    <3>3. CASE calls[C("title", t.id)].arg # t.configuration
      <4>1. calls' = calls
        BY <1>0, <1>14, <3>3 DEF AbortWorker
      <4> QED
        BY <1>5, <4>1
    <3> QED
      BY <3>2, <3>3
  <2> QED
    BY <1>0, <1>14, <2>1 DEF AbortWorker, petVars
<1>15. ASSUME NEW t \in workers, DropTitle(t) PROVE Shape
  BY <1>0, <1>5, <1>15 DEF DropTitle, petVars
<1>16. ASSUME NEW t \in workers, SaveTitle(t) PROVE Shape
  <2>1. C("title", t.id) \in Caller /\ t.configuration \in Nat
    BY <1>0 DEF Token
  <2>2. CallsOK'
    BY <1>3, <1>16, <2>1 DEF SaveTitle, PublishTitle
  <2>3. titles' \in [Incarnation -> Nat]
    BY <1>0, <1>16, <2>1 DEF SaveTitle
  <2>4. /\ UNCHANGED <<plan, configuration, pendingTitles, workers, aborted, shutdown, feedback>>
        /\ pet' = pet
    BY <1>16 DEF SaveTitle, petVars
  <2> QED
    BY <1>0, <2>2, <2>3, <2>4
<1>17. ASSUME NEW t \in workers, EndTitle(t) PROVE Shape
  <2>1. CallsOK'
    BY <1>0, <1>2, <1>4, <1>17 DEF EndTitle
  <2> QED
    BY <1>0, <1>17, <2>1 DEF EndTitle, petVars
<1>18. ASSUME Configure PROVE Shape
  <2>1. CallsOK'
    BY <1>3, <1>18, Callers DEF Configure
  <2>2. plan' \in PlanRecord
    BY <1>0, <1>18, PlanUpdates DEF Configure
  <2> QED
    BY <1>0, <1>18, <2>1, <2>2 DEF Configure, DrainPending, petVars
<1>19. ASSUME CloseTitles \/ TakePendingTitles \/ ShutdownReturns PROVE Shape
  BY <1>0, <1>5, <1>19 DEF CloseTitles, TakePendingTitles, ShutdownReturns, petVars
<1>20. ASSUME NEW c \in Caller, NEW n \in reducer.notifications, Activate(c, n) PROVE Shape
  <2>1. n.id \in Nat
    BY DEF DesktopTypeOK, CardInv, TypeOK, Reducer, Notification
  <2>2. Moves(c)
    <3>1. [calls[c] EXCEPT !.step = "acting", !.arg = n.id] \in Call
      BY <1>0, <2>1, CallUpdates DEF CallStep
    <3>2. [calls[c] EXCEPT !.step = "acting", !.arg = n.id].step = "acting"
      BY <1>0 DEF Call
    <3> QED
      BY <1>20, <3>1, <3>2 DEF Activate, Moves
  <2>3. plan' \in PlanRecord
    BY <1>0, <1>20, PlanUpdates, Callers DEF Activate
  <2> QED
    BY <1>0, <1>2, <1>20, <2>2, <2>3 DEF Activate, titleVars, petVars
<1>21. ASSUME NEW c \in Caller, ActionSucceeds(c) PROVE Shape
  <2>1. UNCHANGED <<titles, configuration, pendingTitles, workers, aborted, shutdown, petVars>>
    BY <1>21 DEF ActionSucceeds
  <2>2. CASE SetFeedback(c)
    BY <1>0, <1>3, <2>1, <2>2, SetFeedbackStep DEF petVars
  <2>3. CASE StartPublishing(c, 0) /\ UNCHANGED <<plan, feedback>>
    BY <1>0, <1>3, <2>1, <2>3 DEF petVars
  <2>4. CASE /\ calls' = [calls EXCEPT ![c] = [Resting EXCEPT !.step = "over"]]
             /\ UNCHANGED <<plan, feedback>>
    BY <1>0, <1>2, <1>4, <2>1, <2>4 DEF petVars
  <2> QED
    BY <1>21, <2>2, <2>3, <2>4 DEF ActionSucceeds
<1>22. ASSUME NEW c \in Caller, NEW told \in BOOLEAN, ActionEnds(c, told) PROVE Shape
  <2>2. CASE SetFeedback(c)
    BY <1>0, <1>3, <1>22, <2>2, SetFeedbackStep DEF ActionEnds, titleVars, petVars
  <2>3. CASE /\ calls' = [calls EXCEPT ![c] = [Resting EXCEPT !.step = "over"]]
             /\ UNCHANGED <<plan, feedback>>
    BY <1>0, <1>2, <1>4, <1>22, <2>3 DEF ActionEnds, titleVars, petVars
  <2> QED
    BY <1>22, <2>2, <2>3 DEF ActionEnds
<1>23. ASSUME NEW c \in Caller, ExpireFeedback(c) PROVE Shape
  <2>1. CallsOK' /\ feedback' \in Nat
    <3>1. CASE feedback' = 0 /\ StartPublishing(c, 0)
      BY <1>3, <3>1
    <3>2. CASE /\ calls' = [calls EXCEPT ![c] = [Resting EXCEPT !.step = "over"]]
               /\ UNCHANGED feedback
      BY <1>0, <1>2, <1>4, <3>2
    <3> QED
      BY <1>23, <3>1, <3>2 DEF ExpireFeedback
  <2> QED
    BY <1>0, <1>23, <2>1 DEF ExpireFeedback, titleVars, petVars
<1>24. ASSUME NEW c \in Caller, NEW p \in PetPackages, SelectPet(c, p) PROVE Shape
  <2> DEFINE v == [calls[c].view EXCEPT !.pet = pet.active]
             r == [calls[c] EXCEPT !.step = "prepare", !.arg = p, !.view = v]
  <2>1. v \in View
    BY <1>0, ViewUpdates
  <2>2. r \in Call /\ r.arg = p /\ r.step = "prepare" /\ calls' = [calls EXCEPT ![c] = r]
    <3> HIDE DEF v
    <3>1. r \in Call
      BY <1>0, <2>1, CallUpdates DEF CallStep
    <3>2. r.arg = p /\ r.step = "prepare"
      BY <1>0 DEF Call
    <3>3. calls' = [calls EXCEPT ![c] = r]
      BY <1>24 DEF SelectPet, v
    <3> QED
      BY <3>1, <3>2, <3>3
  <2> HIDE DEF r
  <2>3. Moves(c)
    BY <1>24, <2>2 DEF SelectPet, Moves
  <2>4. plan' \in PlanRecord
    BY <1>0, <1>24, PlanUpdates, Callers DEF SelectPet
  <2>5. UNCHANGED <<titles, configuration, pendingTitles, workers, aborted, shutdown, feedback, pet>>
    BY <1>24 DEF SelectPet, titleVars
  <2> QED
    BY <1>0, <1>2, <2>3, <2>4, <2>5
<1>25. ASSUME NEW c \in Caller, NEW outcome \in {"unavailable", "failed", "available"},
              PreparePet(c, outcome)
       PROVE  Shape
  <2>1. calls[c] \in Call /\ calls[c].view.pet \in SomePet
        /\ calls[c].arg \in PetPackages /\ c.who = "pet"
    BY <1>0, <1>25 DEF PreparePet, CallsOK, Call, View
  <2>2. CallsOK'
    <3>1. CASE Usable(outcome)
      <4> DEFINE r == [calls[c] EXCEPT !.step = "replace"]
      <4>1. calls' = [calls EXCEPT ![c] = r]
        BY <1>0, <1>25, <3>1 DEF PreparePet
      <4>2. r \in Call /\ r.step = "replace" /\ r.arg = calls[c].arg
        BY <2>1 DEF Call, CallStep
      <4> HIDE DEF r
      <4> QED
        BY <1>2, <2>1, <4>1, <4>2 DEF Moves
    <3>2. CASE ~Usable(outcome)
      <4>1. calls' = [calls EXCEPT ![c] = [Resting EXCEPT !.step = "after"]]
        BY <1>25, <3>2 DEF PreparePet
      <4> QED
        BY <1>2, <1>4, <4>1
    <3> QED
      BY <3>1, <3>2
  <2>3. pet' \in [active : SomePet, shown : SomePet, stored : SomePet]
    BY <1>0, <1>25, <2>1 DEF PreparePet, SomePet
  <2>4. UNCHANGED <<plan, titles, configuration, pendingTitles, workers, aborted, shutdown, feedback>>
    BY <1>25 DEF PreparePet, titleVars
  <2> QED
    BY <1>0, <2>2, <2>3, <2>4
<1>26. ASSUME NEW c \in Caller, ReplacePet(c) \/ ShowPet(c) PROVE Shape
  <2>1. calls[c] \in Call /\ calls[c].arg \in PetPackages /\ c.who = "pet"
    BY <1>0, <1>26 DEF ReplacePet, ShowPet, CallsOK
  <2>2. pet' \in [active : SomePet, shown : SomePet, stored : SomePet]
    BY <1>0, <1>26, <2>1 DEF ReplacePet, ShowPet, SomePet
  <2>3. CallsOK'
    <3>1. CASE ReplacePet(c)
      <4> DEFINE r == [calls[c] EXCEPT !.step = "show"]
      <4>1. calls' = [calls EXCEPT ![c] = r]
        BY <1>0, <3>1 DEF ReplacePet
      <4>2. r \in Call /\ r.step = "show" /\ r.arg = calls[c].arg
        BY <2>1 DEF Call, CallStep
      <4> HIDE DEF r
      <4> QED
        BY <1>2, <2>1, <4>1, <4>2 DEF Moves
    <3>2. CASE ShowPet(c)
      BY <1>3, <3>2 DEF ShowPet
    <3> QED
      BY <1>26, <3>1, <3>2
  <2>4. UNCHANGED <<plan, titles, configuration, pendingTitles, workers, aborted, shutdown, feedback>>
    BY <1>26 DEF ReplacePet, ShowPet, titleVars
  <2> QED
    BY <1>0, <2>2, <2>3, <2>4
<1>27. ASSUME NEW c \in Caller, UnlockSelection(c) PROVE Shape
  BY <1>0, <1>2, <1>4, <1>27 DEF UnlockSelection, titleVars
<1>28. Shape => DesktopTypeOK'
  BY <1>1 DEF DesktopTypeOK, RestOK
<1> HIDE DEF Shape
<1> QED
  BY <1>10, <1>11, <1>12, <1>13, <1>14, <1>15, <1>16, <1>17, <1>18, <1>19, <1>20, <1>21, <1>22,
     <1>23, <1>24, <1>25, <1>26, <1>27, <1>28 DEF DesktopNext
LEMMA DesktopTypeInit == DesktopInit => DesktopTypeOK
<1> SUFFICES ASSUME DesktopInit PROVE DesktopTypeOK
  OBVIOUS
<1>1. CardInv
  BY CardInvInit DEF DesktopInit
<1>2. CallsOK
  <2>1. calls \in [Caller -> Call] /\ \A c \in Caller : calls[c].step = "idle"
    BY CallUpdates DEF DesktopInit
  <2> QED
    BY <2>1 DEF CallsOK
<1>3. plan \in PlanRecord
  BY PlanAssumption DEF DesktopInit, PlanRecord
<1>4. reducer.notifications = {}
  BY DEF DesktopInit, Init, EmptyReducer
<1>5. RestOK
  BY <1>3, <1>4 DEF DesktopInit, RestOK, SomePet
<1> QED
  BY <1>1, <1>2, <1>5 DEF DesktopTypeOK

LEMMA DesktopTypeNext == DesktopTypeOK /\ [DesktopNext]_desktopVars => DesktopTypeOK'
<1>1. CASE UNCHANGED desktopVars
  <2>1. DesktopTypeOK => CardInv'
    BY <1>1, CardInvNext DEF DesktopTypeOK, desktopVars
  <2> QED
    BY <1>1, <2>1 DEF DesktopTypeOK, desktopVars, vars, CallsOK, RestOK
<1> QED
  BY <1>1, DesktopKeepsShape

LEMMA DesktopTypeInvariant == DesktopSpec => []DesktopTypeOK
BY DesktopTypeInit, DesktopTypeNext, PTL DEF DesktopSpec

-------------------------------------------------------------------------------
(***************************************************************************)
(* Feedback.                                                               *)
(***************************************************************************)
\* Nothing is told, and no activation takes up an identity of a feedback.
FeedbackGoesOn ==
    /\ plan'.told = plan.told /\ feedback' = feedback
    /\ \A c \in Caller :
          c.who = "activation" /\ calls'[c].step # "acting"
              => \/ calls'[c].arg = 0
                 \/ calls[c].step # "acting" /\ calls'[c].arg = calls[c].arg

\* Another call than an activation moves.
LEMMA OthersTellNothing ==
    ASSUME NEW c \in Caller, c.who # "activation", plan'.told = plan.told, feedback' = feedback,
           \A d \in Caller : d # c => calls'[d] = calls[d]
    PROVE  FeedbackGoesOn
BY DEF FeedbackGoesOn

LEMMA CallsThatChange ==
    ASSUME DesktopTypeOK, NEW c \in Caller, NEW r, calls' = [calls EXCEPT ![c] = r]
    PROVE  calls'[c] = r /\ \A d \in Caller : d # c => calls'[d] = calls[d]
BY DEF DesktopTypeOK, CallsOK

LEMMA OnlyActionsTell ==
    ASSUME DesktopTypeOK, DesktopNext
    PROVE  \/ FeedbackGoesOn
           \/ \E c \in Caller : c.who = "activation" /\ SetFeedback(c)
           \/ \E c \in Caller : ExpireFeedback(c)
<1>0. CallsOK /\ plan \in PlanRecord
  BY DEF DesktopTypeOK, RestOK
<1>1. /\ \A e : [plan EXCEPT !.events = @ \ {e}].told = plan.told
      /\ [plan EXCEPT !.acks = @ - 1].told = plan.told
      /\ [plan EXCEPT !.activations = @ - 1].told = plan.told
      /\ [plan EXCEPT !.selections = @ - 1].told = plan.told
      /\ [plan EXCEPT !.configurations = @ - 1].told = plan.told
  BY <1>0 DEF PlanRecord
<1>2. calls' = calls /\ plan'.told = plan.told /\ feedback' = feedback => FeedbackGoesOn
  BY DEF FeedbackGoesOn
<1>3. /\ Ingestion.who # "activation" /\ C("user", 0).who # "activation"
      /\ C("configure", 0).who # "activation"
      /\ \A i : C("title", i).who # "activation"
  BY Callers
<1>4. \A t \in workers : C("title", t.id) \in Caller /\ t.configuration \in Nat
  BY Callers DEF DesktopTypeOK, RestOK, Token
<1>5. \A c \in Caller, arg \in Nat \cup PetPackages : StartPublishing(c, arg) =>
          \A d \in Caller : d # c => calls'[d] = calls[d]
  BY <1>0, StartedCall
<1>10. ASSUME NEW e \in Event, Ingest(e) PROVE FeedbackGoesOn
  <2>1. plan'.told = plan.told /\ feedback' = feedback
    BY <1>1, <1>10 DEF Ingest
  <2>2. e.id \in Nat
    BY EventFields
  <2> QED
    BY <1>2, <1>3, <1>5, <1>10, <2>1, <2>2, Callers, OthersTellNothing DEF Ingest
<1>11. ASSUME NEW n \in reducer.notifications, Dismiss(n) PROVE FeedbackGoesOn
  <2>1. plan'.told = plan.told /\ feedback' = feedback
    BY <1>1, <1>11 DEF Dismiss
  <2> QED
    BY <1>2, <1>3, <1>5, <1>11, <2>1, Callers, OthersTellNothing DEF Dismiss
<1>12. ASSUME NEW c \in Caller,
              ReadReducer(c) \/ ReadFeedback(c) \/ WriteSnapshot(c) \/ Send(c)
       PROVE  FeedbackGoesOn
  <2>1. PublicationStep(c)
    BY <1>12, PublicationSteps
  <2> QED
    BY <2>1 DEF PublicationStep, FeedbackGoesOn, Publishing
<1>13. ASSUME NEW c \in Caller, ScheduleTitles(c) PROVE FeedbackGoesOn
  <2>1. plan' = plan /\ feedback' = feedback /\ calls' = [calls EXCEPT ![c] = Resting]
        /\ c.who # "activation"
    BY <1>3, <1>13 DEF ScheduleTitles
  <2> QED
    BY <2>1, CallsThatChange, OthersTellNothing
<1>14. ASSUME NEW t \in workers, AbortWorker(t) \/ EndTitle(t) \/ DropTitle(t) PROVE FeedbackGoesOn
  <2>1. plan' = plan /\ feedback' = feedback
        /\ (calls' = calls \/ \E r : calls' = [calls EXCEPT ![C("title", t.id)] = r])
    BY <1>14 DEF AbortWorker, EndTitle, DropTitle
  <2> QED
    BY <1>2, <1>3, <1>4, <2>1, CallsThatChange, OthersTellNothing
<1>15. ASSUME NEW t \in workers, SaveTitle(t) PROVE FeedbackGoesOn
  <2>1. plan' = plan /\ feedback' = feedback /\ StartPublishing(C("title", t.id), t.configuration)
    BY <1>15 DEF SaveTitle, PublishTitle
  <2> QED
    BY <1>3, <1>4, <1>5, <2>1, OthersTellNothing
<1>16. ASSUME Configure PROVE FeedbackGoesOn
  <2>1. plan'.told = plan.told /\ feedback' = feedback /\ StartPublishing(C("configure", 0), 0)
    BY <1>1, <1>16 DEF Configure
  <2> QED
    BY <1>3, <1>5, <2>1, Callers, OthersTellNothing
<1>17. ASSUME CloseTitles \/ TakePendingTitles \/ ShutdownReturns PROVE FeedbackGoesOn
  BY <1>2, <1>17 DEF CloseTitles, TakePendingTitles, ShutdownReturns
<1>18. ASSUME NEW c \in Caller, NEW n \in reducer.notifications, Activate(c, n) PROVE FeedbackGoesOn
  <2>1. plan'.told = plan.told /\ feedback' = feedback
    BY <1>1, <1>18 DEF Activate
  <2>2. /\ calls'[c] = [calls[c] EXCEPT !.step = "acting", !.arg = n.id]
        /\ \A d \in Caller : d # c => calls'[d] = calls[d]
    BY <1>18, CallsThatChange DEF Activate
  <2>3. calls'[c].step = "acting"
    BY <1>0, <2>2 DEF CallsOK, Call
  <2> QED
    BY <2>1, <2>2, <2>3 DEF FeedbackGoesOn
<1>19. ASSUME NEW c \in Caller, UNCHANGED <<plan, feedback>>,
              \/ StartPublishing(c, 0)
              \/ calls' = [calls EXCEPT ![c] = [Resting EXCEPT !.step = "over"]]
       PROVE  FeedbackGoesOn
  <2>1. calls'[c].arg = 0 /\ \A d \in Caller : d # c => calls'[d] = calls[d]
    BY <1>0, <1>19, StartedCall, CallsThatChange DEF Resting
  <2> QED
    BY <1>19, <2>1 DEF FeedbackGoesOn
<1>20. ASSUME NEW c \in Caller, ActionSucceeds(c)
       PROVE  FeedbackGoesOn \/ (c.who = "activation" /\ SetFeedback(c))
  <2>1. c.who = "activation"
    BY <1>20 DEF ActionSucceeds
  <2>2. \/ StartPublishing(c, 0) /\ UNCHANGED <<plan, feedback>>
        \/ SetFeedback(c)
        \/ /\ calls' = [calls EXCEPT ![c] = [Resting EXCEPT !.step = "over"]]
           /\ UNCHANGED <<plan, feedback>>
    BY <1>20 DEF ActionSucceeds
  <2> QED
    BY <1>19, <2>1, <2>2
<1>21. ASSUME NEW c \in Caller, NEW told \in BOOLEAN, ActionEnds(c, told)
       PROVE  FeedbackGoesOn \/ (c.who = "activation" /\ SetFeedback(c))
  <2>1. c.who = "activation"
    BY <1>21 DEF ActionEnds
  <2>2. \/ SetFeedback(c)
        \/ /\ calls' = [calls EXCEPT ![c] = [Resting EXCEPT !.step = "over"]]
           /\ UNCHANGED <<plan, feedback>>
    BY <1>21 DEF ActionEnds
  <2> QED
    BY <1>19, <2>1, <2>2
<1>22. ASSUME NEW c \in Caller,
              \/ \E p \in PetPackages : SelectPet(c, p)
              \/ \E outcome \in {"unavailable", "failed", "available"} : PreparePet(c, outcome)
              \/ ReplacePet(c) \/ ShowPet(c) \/ UnlockSelection(c)
       PROVE  FeedbackGoesOn
  <2>1. c.who = "pet"
    BY <1>0, <1>22 DEF SelectPet, PreparePet, ReplacePet, ShowPet, UnlockSelection, CallsOK
  <2>2. plan'.told = plan.told /\ feedback' = feedback
    BY <1>1, <1>22 DEF SelectPet, PreparePet, ReplacePet, ShowPet, UnlockSelection
  <2>3. \A d \in Caller : d # c => calls'[d] = calls[d]
    <3>1. StartPublishing(c, 0) \/ \E r : calls' = [calls EXCEPT ![c] = r]
      BY <1>22 DEF SelectPet, PreparePet, ReplacePet, ShowPet, UnlockSelection
    <3> QED
      BY <1>5, <3>1, CallsThatChange
  <2> QED
    BY <2>1, <2>2, <2>3, OthersTellNothing
<1> QED
  BY <1>10, <1>11, <1>12, <1>13, <1>14, <1>15, <1>16, <1>17, <1>18, <1>20, <1>21, <1>22
     DEF DesktopNext

LEMMA FeedbackInvNext ==
    ASSUME DesktopTypeOK, FeedbackInv, DesktopNext
    PROVE  FeedbackInv'
<1>0. CallsOK /\ plan.told \in Nat /\ feedback \in Nat
  BY DEF DesktopTypeOK, RestOK, PlanRecord
<1>1. CASE FeedbackGoesOn
  <2>1. \A c \in Caller : Ended(c)' =>
            calls'[c].arg = 0 \/ (Ended(c) /\ calls'[c].arg = calls[c].arg)
    BY <1>1 DEF FeedbackGoesOn, Ended
  <2>2. plan'.told = plan.told /\ feedback' = feedback
    BY <1>1 DEF FeedbackGoesOn
  <2>3. FeedbackStands'
    <3> SUFFICES ASSUME NEW c \in Caller, Ended(c)', plan'.told > 0, calls'[c].arg = plan'.told
                 PROVE  feedback' = plan'.told
      BY DEF FeedbackStands, Ended
    <3>1. Ended(c) /\ calls[c].arg = plan.told
      BY <1>0, <2>1, <2>2
    <3> QED
      BY <2>2, <3>1 DEF FeedbackInv, FeedbackStands, Ended
  <2>4. \A c \in Caller : Ended(c)' => calls'[c].arg \in 0 .. plan'.told
    BY <1>0, <2>1, <2>2 DEF FeedbackInv
  <2>5. \A c, d \in Caller :
            Ended(c)' /\ Ended(d)' /\ calls'[c].arg = calls'[d].arg /\ calls'[c].arg # 0 => c = d
    BY <2>1 DEF FeedbackInv
  <2> QED
    BY <2>2, <2>3, <2>4, <2>5 DEF FeedbackInv
<1>2. ASSUME NEW c \in Caller, c.who = "activation", SetFeedback(c) PROVE FeedbackInv'
  <2>1. /\ plan'.told = plan.told + 1 /\ feedback' = plan'.told
        /\ calls'[c].arg = plan'.told
        /\ \A d \in Caller : d # c => calls'[d] = calls[d]
    BY <1>0, <1>2, SetFeedbackStep, StartedCall
  <2>2. \A d \in Caller : d # c /\ Ended(d)' => calls'[d].arg \in 0 .. plan.told
    BY <2>1 DEF Ended, FeedbackInv
  <2>3. \A d, f \in Caller :
            d # c /\ f # c /\ Ended(d)' /\ Ended(f)' /\ calls'[d].arg = calls'[f].arg
                /\ calls'[d].arg # 0 => d = f
    BY <2>1 DEF Ended, FeedbackInv
  <2>4. FeedbackStands'
    BY <2>1 DEF FeedbackStands
  <2>5. \A d \in Caller : Ended(d)' => calls'[d].arg \in 0 .. plan'.told
    BY <1>0, <2>1, <2>2
  <2>6. \A d, f \in Caller :
            Ended(d)' /\ Ended(f)' /\ calls'[d].arg = calls'[f].arg /\ calls'[d].arg # 0 => d = f
    BY <1>0, <2>1, <2>2, <2>3
  <2>7. feedback' <= plan'.told
    BY <1>0, <2>1
  <2> QED
    BY <2>4, <2>5, <2>6, <2>7 DEF FeedbackInv
<1>3. ASSUME NEW c \in Caller, ExpireFeedback(c), ~FeedbackGoesOn PROVE FeedbackInv'
  <2>1. plan'.told = plan.told /\ c.who = "activation" /\ calls[c].step = "after"
    BY <1>3 DEF ExpireFeedback
  <2>2. CASE OwnFeedback(calls[c].arg)
    <3>1. /\ calls'[c].arg = 0 /\ calls[c].arg # 0 /\ feedback = calls[c].arg /\ feedback' = 0
          /\ \A d \in Caller : d # c => calls'[d] = calls[d]
      BY <1>0, <1>3, <2>2, StartedCall DEF ExpireFeedback, OwnFeedback
    <3>2. \A d \in Caller : d # c /\ Ended(d)' => Ended(d) /\ calls'[d].arg = calls[d].arg
      BY <3>1 DEF Ended
    <3>3. Ended(c)
      BY <2>1 DEF Ended
    <3>4. \A d \in Caller : Ended(d)' /\ calls'[d].arg # 0
              => (d # c /\ calls'[d].arg # plan.told) \/ plan.told = 0
      <4> SUFFICES ASSUME NEW d \in Caller, Ended(d)', calls'[d].arg # 0, plan.told # 0,
                          calls'[d].arg = plan.told
                   PROVE  FALSE
        BY <3>1
      <4>1. d # c /\ Ended(d) /\ calls[d].arg = plan.told
        BY <3>1, <3>2
      <4>2. feedback = plan.told
        BY <1>0, <4>1 DEF FeedbackInv, FeedbackStands, Ended
      <4> QED
        BY <3>1, <3>3, <4>1, <4>2 DEF FeedbackInv
    <3>5. FeedbackStands'
      BY <1>0, <2>1, <3>4 DEF FeedbackStands, Ended
    <3>6. \A d \in Caller : Ended(d)' => calls'[d].arg \in 0 .. plan'.told
      BY <1>0, <2>1, <3>1, <3>2 DEF FeedbackInv
    <3>7. \A d, f \in Caller :
              Ended(d)' /\ Ended(f)' /\ calls'[d].arg = calls'[f].arg /\ calls'[d].arg # 0 => d = f
      BY <3>1, <3>2 DEF FeedbackInv
    <3> QED
      BY <1>0, <2>1, <3>1, <3>5, <3>6, <3>7 DEF FeedbackInv
  <2>3. CASE ~OwnFeedback(calls[c].arg)
    <3>1. /\ calls' = [calls EXCEPT ![c] = [Resting EXCEPT !.step = "over"]]
          /\ feedback' = feedback
      BY <1>3, <2>3 DEF ExpireFeedback
    <3>2. calls'[c].arg = 0 /\ \A d \in Caller : d # c => calls'[d] = calls[d]
      <4> DEFINE r == [Resting EXCEPT !.step = "over"]
      <4>1. r.arg = 0
        BY CallUpdates DEF CallStep
      <4> HIDE DEF r
      <4>2. calls' = [calls EXCEPT ![c] = r]
        BY <3>1 DEF r
      <4> QED
        BY <4>1, <4>2, CallsThatChange
    <3> QED
      BY <1>3, <2>1, <3>1, <3>2 DEF FeedbackGoesOn
  <2> QED
    BY <2>2, <2>3
<1> QED
  BY <1>1, <1>2, <1>3, OnlyActionsTell

\* The feedback that was set last stays until its own five seconds are over: with
\* any number of activations under way, the timer of an earlier feedback never
\* clears a later one (set_action_feedback).
THEOREM LastFeedbackStands == DesktopSpec => []FeedbackStands
<1>1. DesktopInit => FeedbackInv
  <2> SUFFICES ASSUME DesktopInit PROVE FeedbackInv
    OBVIOUS
  <2>1. plan.told = 0 /\ feedback = 0 /\ \A c \in Caller : calls[c].arg = 0
    BY PlanAssumption, CallUpdates DEF DesktopInit
  <2> QED
    BY <2>1 DEF FeedbackInv, FeedbackStands, Ended
<1>2. DesktopTypeOK /\ FeedbackInv /\ [DesktopNext]_desktopVars => FeedbackInv'
  <2>1. CASE UNCHANGED desktopVars
    BY <2>1 DEF desktopVars, FeedbackInv, FeedbackStands, Ended
  <2> QED
    BY <2>1, FeedbackInvNext
<1>3. FeedbackInv => FeedbackStands
  BY DEF FeedbackInv
<1> QED
  BY <1>1, <1>2, <1>3, DesktopTypeInvariant, PTL DEF DesktopSpec
-------------------------------------------------------------------------------
(***************************************************************************)
(* Which steps start a publication, change a token or bring a card.        *)
(***************************************************************************)
\* A call starts its publication, which overlaps with every other one under way.
Starts(c) ==
    /\ Publishing(c)' /\ calls'[c].step = "publish" /\ CallsOK'
    /\ \A d \in Caller : d # c => calls'[d] = calls[d]
    /\ ~overlapped' => \A d \in Caller : d # c => ~Publishing(d)'

\* Nothing is published and nothing changes of what is presented.
NothingToPublish ==
    /\ overlapped' = overlapped /\ sent' = sent
    /\ reducer'.notifications = reducer.notifications
    /\ reducer'.presentation = reducer.presentation
    /\ titles' = titles /\ feedback' = feedback /\ pet'.shown = pet.shown
    /\ \A c \in Caller : Publishing(c)' => Publishing(c) /\ calls'[c] = calls[c]
    /\ \A c \in Caller : Publishing(c) =>
          \/ calls'[c] = calls[c]
          \/ \E t \in aborted : Telling(t) /\ c = C("title", t.id)

LEMMA StartPublishingStarts ==
    ASSUME DesktopTypeOK, NEW c \in Caller, NEW arg \in Nat \cup PetPackages, StartPublishing(c, arg)
    PROVE  Starts(c) /\ calls'[c].arg = arg
<1>1. /\ CallsOK' /\ calls'[c].step = "publish" /\ calls'[c].arg = arg
      /\ \A d \in Caller : d # c => calls'[d] = calls[d]
      /\ ~overlapped' => \A d \in Caller : d # c => ~Publishing(d)
  BY StartedCall DEF DesktopTypeOK
<1>2. Publishing(c)'
  BY <1>1 DEF Publishing
<1>3. \A d \in Caller : d # c => (Publishing(d)' <=> Publishing(d))
  BY <1>1 DEF Publishing
<1> QED
  BY <1>1, <1>2, <1>3 DEF Starts

\* A call that is not publishing before and after publishes nothing.
LEMMA OtherStepsPublishNothing ==
    ASSUME DesktopTypeOK, NEW c \in Caller, NEW r, calls' = [calls EXCEPT ![c] = r],
           calls[c].step \notin {"publish", "read", "told", "written"},
           r.step \notin {"publish", "read", "told", "written"},
           UNCHANGED <<titles, feedback, overlapped, sent>>, UNCHANGED reducer, pet'.shown = pet.shown
    PROVE  NothingToPublish
<1>1. calls'[c] = r /\ \A d \in Caller : d # c => calls'[d] = calls[d]
  BY CallsThatChange
<1>2. \A d \in Caller : Publishing(d)' => Publishing(d) /\ calls'[d] = calls[d]
  BY <1>1 DEF Publishing
<1>3. \A d \in Caller : Publishing(d) => calls'[d] = calls[d]
  BY <1>1 DEF Publishing
<1> QED
  BY <1>2, <1>3 DEF NothingToPublish

LEMMA IdleStepsPublishNothing ==
    ASSUME calls' = calls, UNCHANGED <<titles, feedback, overlapped, sent>>, pet'.shown = pet.shown,
           reducer'.notifications = reducer.notifications,
           reducer'.presentation = reducer.presentation
    PROVE  NothingToPublish
BY DEF NothingToPublish, Publishing

LEMMA CallSteps ==
    ASSUME DesktopTypeOK, DesktopNext
    PROVE  \/ NothingToPublish
           \/ \E c \in Caller : c.who # "title" /\ Starts(c)
           \/ \E c \in Caller : ReadReducer(c) \/ ReadFeedback(c) \/ WriteSnapshot(c) \/ Send(c)
           \/ \E t \in workers : SaveTitle(t)
<1> DEFINE Goal == NothingToPublish \/ \E c \in Caller : c.who # "title" /\ Starts(c)
<1>0. /\ CallsOK /\ CardInv /\ plan \in PlanRecord
      /\ \A t \in workers : C("title", t.id) \in Caller /\ t.configuration \in Nat
      /\ 0 \in Nat \cup PetPackages
  BY Callers DEF DesktopTypeOK, RestOK, Token
<1>1. ASSUME NEW c \in Caller, c.who # "title", NEW arg \in Nat \cup PetPackages, StartPublishing(c, arg)
      PROVE  Goal
  BY <1>1, StartPublishingStarts
<1>2. \A s \in {"idle", "after", "over"} :
          LET r == [Resting EXCEPT !.step = s]
          IN  r.step \notin {"publish", "read", "told", "written"}
  BY CallUpdates DEF CallStep
<1>3. Resting.step = "idle"
  BY CallUpdates
<1>4. /\ Ingestion \in Caller /\ Ingestion.who # "title"
      /\ C("user", 0) \in Caller /\ C("user", 0).who # "title"
      /\ C("configure", 0) \in Caller /\ C("configure", 0).who # "title"
  BY Callers
<1>10. ASSUME NEW e \in Event, Ingest(e) PROVE Goal
  <2>1. CASE StartPublishing(Ingestion, e.id)
    BY <1>1, <1>4, <2>1, EventFields
  <2>2. CASE /\ IgnoreEvent(e) \/ ApplyEventFails(e)
             /\ UNCHANGED <<calls, overlapped>>
    <3>1. /\ reducer'.notifications = reducer.notifications
          /\ reducer'.presentation = reducer.presentation
      BY <1>0, <2>2, IgnoredKeepsCards, FailuresKeepReducer
    <3>2. UNCHANGED <<titles, feedback, sent>> /\ pet'.shown = pet.shown
      BY <1>10 DEF Ingest, petVars
    <3> QED
      BY <2>2, <3>1, <3>2, IdleStepsPublishNothing
  <2> QED
    BY <1>10, <2>1, <2>2 DEF Ingest
<1>11. ASSUME NEW n \in reducer.notifications, Dismiss(n) PROVE Goal
  <2>1. CASE StartPublishing(C("user", 0), 0)
    BY <1>0, <1>1, <1>4, <2>1
  <2>2. CASE AcknowledgeFails(n) /\ UNCHANGED <<calls, overlapped>>
    <3>1. UNCHANGED reducer
      BY <2>2, FailuresKeepReducer
    <3>2. UNCHANGED <<titles, feedback, sent>> /\ pet'.shown = pet.shown
      BY <1>11 DEF Dismiss, petVars
    <3> QED
      BY <2>2, <3>1, <3>2, IdleStepsPublishNothing
  <2> QED
    BY <1>11, <2>1, <2>2 DEF Dismiss
<1>13. ASSUME NEW c \in Caller, ScheduleTitles(c) PROVE Goal
  BY <1>3, <1>13, OtherStepsPublishNothing DEF ScheduleTitles, petVars, viewVars, vars
<1>14. ASSUME NEW t \in workers, AbortWorker(t) PROVE Goal
  <2> DEFINE c == C("title", t.id)
  <2>0. UNCHANGED <<titles, feedback, overlapped, sent>> /\ UNCHANGED reducer /\ pet'.shown = pet.shown
    BY <1>14 DEF AbortWorker, petVars, viewVars, vars
  <2>1. CASE calls[c].arg = t.configuration
    <3>1. calls' = [calls EXCEPT ![c] = Resting] /\ t \in aborted
      BY <1>14, <2>1 DEF AbortWorker
    <3>2. calls'[c] = Resting /\ \A d \in Caller : d # c => calls'[d] = calls[d]
      BY <1>0, <3>1, CallsThatChange
    <3>3. Publishing(c) => Telling(t)
      BY <2>1 DEF Telling
    <3>4. \A d \in Caller : Publishing(d)' => Publishing(d) /\ calls'[d] = calls[d]
      BY <1>3, <3>2 DEF Publishing
    <3>5. \A d \in Caller : Publishing(d) =>
            calls'[d] = calls[d] \/ \E u \in aborted : Telling(u) /\ d = C("title", u.id)
      BY <3>1, <3>2, <3>3
    <3> QED
      BY <2>0, <3>4, <3>5 DEF NothingToPublish
  <2>2. CASE calls[c].arg # t.configuration
    <3>1. calls' = calls
      BY <1>0, <1>14, <2>2 DEF AbortWorker, CallsOK
    <3> QED
      BY <2>0, <3>1, IdleStepsPublishNothing
  <2> QED
    BY <2>1, <2>2
<1>15. ASSUME NEW t \in workers, DropTitle(t) PROVE Goal
  BY <1>15, IdleStepsPublishNothing DEF DropTitle, petVars, viewVars, vars
<1>16. ASSUME NEW t \in workers, EndTitle(t) PROVE Goal
  <2> DEFINE c == C("title", t.id)
  <2>1. calls[c].step = "after" /\ c \in Caller
    <3>1. t.configuration \in Nat \cup PetPackages /\ "after" \in CallStep
      BY <1>0 DEF CallStep
    <3>2. [Resting EXCEPT !.step = "after", !.arg = t.configuration].step = "after"
      BY <3>1, CallUpdates
    <3> QED
      BY <1>0, <1>16, <3>2 DEF EndTitle
  <2>2. calls' = [calls EXCEPT ![c] = Resting] /\ UNCHANGED <<titles, feedback, overlapped, sent>>
        /\ UNCHANGED reducer /\ pet'.shown = pet.shown
    BY <1>16 DEF EndTitle, petVars, viewVars, vars
  <2> HIDE DEF c
  <2> QED
    BY <1>3, <2>1, <2>2, OtherStepsPublishNothing
<1>17. ASSUME Configure PROVE Goal
  BY <1>0, <1>1, <1>4, <1>17 DEF Configure
<1>18. ASSUME CloseTitles \/ TakePendingTitles \/ ShutdownReturns PROVE Goal
  BY <1>18, IdleStepsPublishNothing DEF CloseTitles, TakePendingTitles, ShutdownReturns, petVars,
     viewVars, vars
<1>19. ASSUME NEW c \in Caller, NEW n \in reducer.notifications, Activate(c, n) PROVE Goal
  <2>1. [calls[c] EXCEPT !.step = "acting", !.arg = n.id].step = "acting"
    BY <1>0 DEF CallsOK, Call
  <2>2. /\ calls[c].step = "idle"
        /\ calls' = [calls EXCEPT ![c] = [calls[c] EXCEPT !.step = "acting", !.arg = n.id]]
        /\ UNCHANGED <<titles, feedback, overlapped, sent>>
        /\ UNCHANGED reducer /\ pet'.shown = pet.shown
    BY <1>0, <1>19 DEF Activate, CallsOK, titleVars, petVars, viewVars, vars
  <2> QED
    BY <2>1, <2>2, OtherStepsPublishNothing
<1>20. ASSUME NEW c \in Caller, c.who = "activation", calls[c].step \in {"acting", "after"},
              calls' = [calls EXCEPT ![c] = [Resting EXCEPT !.step = "over"]],
              UNCHANGED <<titles, feedback, overlapped, sent>>, UNCHANGED reducer,
              pet'.shown = pet.shown
       PROVE  Goal
  <2> DEFINE r == [Resting EXCEPT !.step = "over"]
  <2>1. r.step \notin {"publish", "read", "told", "written"}
    BY <1>2
  <2>2. calls' = [calls EXCEPT ![c] = r]
    BY <1>20
  <2> HIDE DEF r
  <2> QED
    BY <1>20, <2>1, <2>2, OtherStepsPublishNothing
<1>21. ASSUME NEW c \in Caller, c.who = "activation", SetFeedback(c) PROVE Goal
  BY <1>1, <1>21, SetFeedbackStep
<1>22. ASSUME NEW c \in Caller, ActionSucceeds(c) PROVE Goal
  <2>1. c.who = "activation" /\ calls[c].step = "acting"
        /\ UNCHANGED <<titles, sent>> /\ pet'.shown = pet.shown
    BY <1>22 DEF ActionSucceeds, petVars
  <2>2. \/ StartPublishing(c, 0)
        \/ SetFeedback(c)
        \/ /\ calls' = [calls EXCEPT ![c] = [Resting EXCEPT !.step = "over"]]
           /\ UNCHANGED <<feedback, overlapped>> /\ UNCHANGED reducer
    BY <1>22 DEF ActionSucceeds, vars
  <2> QED
    BY <1>0, <1>1, <1>20, <1>21, <2>1, <2>2
<1>23. ASSUME NEW c \in Caller, NEW told \in BOOLEAN, ActionEnds(c, told) PROVE Goal
  <2>1. c.who = "activation" /\ calls[c].step = "acting"
        /\ UNCHANGED <<titles, sent>> /\ UNCHANGED reducer /\ pet'.shown = pet.shown
    BY <1>23 DEF ActionEnds, titleVars, petVars, vars
  <2>2. \/ SetFeedback(c)
        \/ /\ calls' = [calls EXCEPT ![c] = [Resting EXCEPT !.step = "over"]]
           /\ UNCHANGED <<feedback, overlapped>>
    BY <1>23 DEF ActionEnds
  <2> QED
    BY <1>20, <1>21, <2>1, <2>2
<1>24. ASSUME NEW c \in Caller, ExpireFeedback(c) PROVE Goal
  <2>1. c.who = "activation" /\ calls[c].step = "after"
        /\ UNCHANGED <<titles, sent>> /\ UNCHANGED reducer /\ pet'.shown = pet.shown
    BY <1>24 DEF ExpireFeedback, titleVars, petVars, vars
  <2>2. \/ StartPublishing(c, 0)
        \/ /\ calls' = [calls EXCEPT ![c] = [Resting EXCEPT !.step = "over"]]
           /\ UNCHANGED <<feedback, overlapped>>
    BY <1>24 DEF ExpireFeedback
  <2> QED
    BY <1>0, <1>1, <1>20, <2>1, <2>2
<1>25. ASSUME NEW c \in Caller, ShowPet(c) PROVE Goal
  <2>1. c.who = "pet"
    BY <1>0, <1>25 DEF ShowPet, CallsOK
  <2> QED
    BY <1>0, <1>1, <1>25, <2>1 DEF ShowPet
<1>26. ASSUME NEW c \in Caller,
              \/ \E p \in PetPackages : SelectPet(c, p)
              \/ \E outcome \in {"unavailable", "failed", "available"} : PreparePet(c, outcome)
              \/ ReplacePet(c) \/ UnlockSelection(c)
       PROVE  Goal
  <2>1. UNCHANGED <<titles, feedback, overlapped, sent>> /\ UNCHANGED reducer
    BY <1>26 DEF SelectPet, PreparePet, ReplacePet, UnlockSelection, titleVars, viewVars, vars
  <2>2. pet'.shown = pet.shown
    <3>1. pet \in [active : SomePet, shown : SomePet, stored : SomePet]
      BY DEF DesktopTypeOK, RestOK
    <3> QED
      BY <1>26, <3>1 DEF SelectPet, PreparePet, ReplacePet, UnlockSelection, petVars
  <2>3. calls[c] \in Call /\ calls[c].step \notin {"publish", "read", "told", "written"}
    BY <1>0, <1>26 DEF SelectPet, PreparePet, ReplacePet, UnlockSelection, CallsOK
  <2>4. \E r : calls' = [calls EXCEPT ![c] = r] /\ r.step \notin {"publish", "read", "told", "written"}
    <3>1. ASSUME NEW p \in PetPackages, SelectPet(c, p) PROVE <2>4
      <4> DEFINE r == [calls[c] EXCEPT !.step = "prepare", !.arg = p,
                                       !.view = [calls[c].view EXCEPT !.pet = pet.active]]
      <4>1. r.step = "prepare"
        BY <2>3 DEF Call
      <4>2. calls' = [calls EXCEPT ![c] = r]
        BY <3>1 DEF SelectPet
      <4> QED
        BY <4>1, <4>2
    <3>2. ASSUME NEW outcome, PreparePet(c, outcome) PROVE <2>4
      <4> DEFINE r == IF Usable(outcome) THEN [calls[c] EXCEPT !.step = "replace"]
                      ELSE [Resting EXCEPT !.step = "after"]
      <4>1. r.step \in {"replace", "after"}
        BY <2>3, CallUpdates DEF Call, CallStep
      <4>2. calls' = [calls EXCEPT ![c] = r]
        BY <1>0, <3>2 DEF PreparePet, CallsOK
      <4> HIDE DEF r
      <4> QED
        BY <4>1, <4>2
    <3>3. ASSUME ReplacePet(c) PROVE <2>4
      <4> DEFINE r == [calls[c] EXCEPT !.step = "show"]
      <4>1. r.step = "show"
        BY <2>3 DEF Call
      <4>2. calls' = [calls EXCEPT ![c] = r]
        BY <1>0, <3>3 DEF ReplacePet, CallsOK
      <4> QED
        BY <4>1, <4>2
    <3>4. ASSUME UnlockSelection(c) PROVE <2>4
      BY <1>2, <3>4 DEF UnlockSelection
    <3> QED
      BY <1>26, <3>1, <3>2, <3>3, <3>4
  <2> QED
    BY <2>1, <2>2, <2>3, <2>4, OtherStepsPublishNothing
<1> HIDE DEF Goal
<1>99. CASE ~Goal
  BY <1>99, <1>10, <1>11, <1>13, <1>14, <1>15, <1>16, <1>17, <1>18, <1>19, <1>22, <1>23, <1>24, <1>25,
     <1>26 DEF DesktopNext
<1> QED
  BY <1>99 DEF Goal
LEMMA UnreadIdentities ==
    /\ OnlyFewerUnread => \A id : HasUnread(id)' => HasUnread(id)
    /\ \A e : OnlyFewerUnreadBut(e) => \A id : HasUnread(id)' => HasUnread(id) \/ id = e.id
    /\ OnlyFewerUnread =>
          \A n \in reducer'.notifications : \E m \in reducer.notifications : m.id = n.id
    /\ \A e : OnlyFewerUnreadBut(e) =>
          \A n \in reducer'.notifications :
              n.id = e.id \/ \E m \in reducer.notifications : m.id = n.id
<1>1. \A m, n : Of(m) = Of(n) => m.id = n.id
  BY DEF Of
<1> QED
  BY <1>1 DEF OnlyFewerUnread, OnlyFewerUnreadBut, HasUnread, Unread

\* The tokens of the titles change with the scheduling and the configuration only.
TokensStay ==
    /\ configuration' = configuration /\ asked' = asked
    /\ plan'.titled = plan.titled /\ plan'.events \subseteq plan.events
    /\ pendingTitles' \subseteq pendingTitles /\ workers' \subseteq workers
    /\ aborted' \subseteq aborted

LEMMA TokenSteps ==
    ASSUME DesktopTypeOK, DesktopNext
    PROVE  \/ TokensStay /\ shutdown' = shutdown
           \/ TokensStay /\ (CloseTitles \/ TakePendingTitles \/ ShutdownReturns)
           \/ \E c \in Caller : ScheduleTitles(c)
           \/ Configure
<1>0. plan \in PlanRecord
  BY DEF DesktopTypeOK, RestOK
<1>1. /\ \A e : LET p == [plan EXCEPT !.events = @ \ {e}]
                IN  p.titled = plan.titled /\ p.events = plan.events \ {e}
      /\ LET p == [plan EXCEPT !.acks = @ - 1]
         IN  p.titled = plan.titled /\ p.events = plan.events
      /\ LET p == [plan EXCEPT !.activations = @ - 1]
         IN  p.titled = plan.titled /\ p.events = plan.events
      /\ LET p == [plan EXCEPT !.selections = @ - 1]
         IN  p.titled = plan.titled /\ p.events = plan.events
  BY <1>0 DEF PlanRecord
<1>2. ASSUME NEW e \in Event, Ingest(e) PROVE TokensStay /\ shutdown' = shutdown
  BY <1>1, <1>2 DEF Ingest, TokensStay
<1>3. ASSUME NEW n \in reducer.notifications, Dismiss(n) PROVE TokensStay /\ shutdown' = shutdown
  BY <1>1, <1>3 DEF Dismiss, TokensStay
<1>4. ASSUME NEW c \in Caller, ReadReducer(c) \/ ReadFeedback(c) \/ WriteSnapshot(c) \/ Send(c)
      PROVE  TokensStay /\ shutdown' = shutdown
  BY <1>4, PublicationSteps DEF PublicationStep, titleVars, TokensStay
<1>5. ASSUME NEW c \in Caller, NEW p \in PetPackages, SelectPet(c, p)
      PROVE  TokensStay /\ shutdown' = shutdown
  BY <1>1, <1>5 DEF SelectPet, titleVars, TokensStay
<1>6. ASSUME NEW c \in Caller,
             \/ \E outcome \in {"unavailable", "failed", "available"} : PreparePet(c, outcome)
             \/ ReplacePet(c) \/ ShowPet(c) \/ UnlockSelection(c)
      PROVE  TokensStay /\ shutdown' = shutdown
  BY <1>6 DEF PreparePet, ReplacePet, ShowPet, UnlockSelection, titleVars, TokensStay
<1>7. ASSUME NEW t \in workers, AbortWorker(t) \/ DropTitle(t) \/ SaveTitle(t) \/ EndTitle(t)
      PROVE  TokensStay /\ shutdown' = shutdown
  BY <1>7 DEF AbortWorker, DropTitle, SaveTitle, EndTitle, TokensStay
<1>8. ASSUME CloseTitles \/ TakePendingTitles \/ ShutdownReturns PROVE TokensStay
  BY <1>8 DEF CloseTitles, TakePendingTitles, ShutdownReturns, TokensStay
<1>9. ASSUME NEW c \in Caller, NEW n \in reducer.notifications, Activate(c, n)
      PROVE  TokensStay /\ shutdown' = shutdown
  BY <1>1, <1>9 DEF Activate, titleVars, TokensStay
<1>10. ASSUME NEW c \in Caller, ActionSucceeds(c) PROVE TokensStay /\ shutdown' = shutdown
  <2>1. plan' = plan \/ SetFeedback(c)
    BY <1>10 DEF ActionSucceeds
  <2>2. plan'.titled = plan.titled /\ plan'.events = plan.events
    BY <2>1, SetFeedbackStep
  <2> QED
    BY <1>10, <2>2 DEF ActionSucceeds, TokensStay
<1>11. ASSUME NEW c \in Caller, NEW told \in BOOLEAN, ActionEnds(c, told)
       PROVE  TokensStay /\ shutdown' = shutdown
  <2>1. plan' = plan \/ SetFeedback(c)
    BY <1>11 DEF ActionEnds
  <2>2. plan'.titled = plan.titled /\ plan'.events = plan.events
    BY <2>1, SetFeedbackStep
  <2> QED
    BY <1>11, <2>2 DEF ActionEnds, titleVars, TokensStay
<1>12. ASSUME NEW c \in Caller, ExpireFeedback(c) PROVE TokensStay /\ shutdown' = shutdown
  BY <1>12 DEF ExpireFeedback, titleVars, TokensStay
<1> QED
  BY <1>2, <1>3, <1>4, <1>5, <1>6, <1>7, <1>8, <1>9, <1>10, <1>11, <1>12 DEF DesktopNext

\* What a call that schedules titles leaves pending, starts and aborts.
LEMMA ScheduledCases ==
    ASSUME DesktopTypeOK, NEW only, Scheduled(only)
    PROVE  /\ \A t \in pendingTitles' :
                 \/ t \in pendingTitles /\ HasUnread(t.id)
                 \/ /\ t.configuration = configuration /\ HasUnread(t.id) /\ t \in workers'
                    /\ [id |-> t.id, configuration |-> configuration] \in asked'
           /\ \A t \in workers' : t \in workers \/ t \in pendingTitles'
           /\ \A t \in aborted' : t \in aborted \/ (t \in pendingTitles /\ ~HasUnread(t.id))
           /\ asked \subseteq asked'
           /\ \A n \in Unread(reducer.notifications) : only \in {0, n.id} =>
                 \/ \E t \in pendingTitles : t.id = n.id
                 \/ [id |-> n.id, configuration |-> configuration] \in asked'
<1> DEFINE kept == {t \in pendingTitles : \E n \in Unread(reducer.notifications) : n.id = t.id}
           Asking(n) == /\ only = 0 \/ n.id = only
                        /\ \A t \in kept : t.id # n.id
           new == {[id |-> n.id, time |-> n.time, configuration |-> configuration] :
                      n \in {n \in Unread(reducer.notifications) : Asking(n)}}
<1>1. /\ pendingTitles' = kept \cup new /\ workers' = workers \cup new
      /\ aborted' = aborted \cup (pendingTitles \ kept)
      /\ asked' = asked \cup {[id |-> t.id, configuration |-> configuration] : t \in new}
  BY DEF Scheduled
<1>2. \A t \in kept : t \in pendingTitles /\ HasUnread(t.id)
  BY DEF HasUnread
<1>3. \A t \in new : t.configuration = configuration /\ HasUnread(t.id)
  BY DEF HasUnread
<1>4. \A t \in pendingTitles : t \notin kept => ~HasUnread(t.id)
  BY DEF HasUnread
<1>5. \A n \in Unread(reducer.notifications) : only \in {0, n.id} =>
          (\E t \in kept : t.id = n.id) \/ (\E t \in new : t.id = n.id)
  <2> SUFFICES ASSUME NEW n \in Unread(reducer.notifications), only \in {0, n.id},
                      \A t \in kept : t.id # n.id
               PROVE  \E t \in new : t.id = n.id
    OBVIOUS
  <2> DEFINE t == [id |-> n.id, time |-> n.time, configuration |-> configuration]
  <2>1. Asking(n)
    OBVIOUS
  <2>2. t \in new /\ t.id = n.id
    <3> HIDE DEF Asking
    <3> QED
      BY <2>1
  <2> QED
    BY <2>2
<1> HIDE DEF kept, new
<1> QED
  BY <1>1, <1>2, <1>3, <1>4, <1>5
-------------------------------------------------------------------------------
(***************************************************************************)
(* Cards that are asked for.                                               *)
(***************************************************************************)
\* The ingestion and the configuration go on with what they do.
AskersGoOn ==
    \A c \in {Ingestion, C("configure", 0)} :
        /\ calls'[c].arg = calls[c].arg
        /\ calls'[c].step = "idle" <=> calls[c].step = "idle"

LEMMA OthersKeepAskers ==
    ASSUME NEW c \in Caller, c.who \notin {"ingestion", "configure"},
           \A d \in Caller : d # c => calls'[d] = calls[d]
    PROVE  AskersGoOn
BY Callers DEF AskersGoOn

LEMMA AskerSteps ==
    ASSUME DesktopTypeOK, DesktopNext
    PROVE  \/ AskersGoOn
           \/ \E e \in Event : Ingest(e)
           \/ \E c \in Caller : ScheduleTitles(c)
           \/ Configure
<1>0. /\ CallsOK
      /\ \A t \in workers : C("title", t.id) \in Caller /\ t.configuration \in Nat
      /\ \A i : C("title", i).who = "title"
      /\ C("user", 0) \in Caller /\ C("user", 0).who = "user"
  BY Callers DEF DesktopTypeOK, RestOK, Token
<1>1. calls' = calls => AskersGoOn
  BY DEF AskersGoOn
<1>2. ASSUME NEW c \in Caller, c.who \notin {"ingestion", "configure"},
             \/ calls' = calls
             \/ \E r : calls' = [calls EXCEPT ![c] = r]
             \/ \E arg \in Nat \cup PetPackages : StartPublishing(c, arg)
      PROVE  AskersGoOn
  BY <1>1, <1>2, CallsThatChange, StartPublishingStarts, OthersKeepAskers DEF Starts
<1>3. ASSUME NEW n \in reducer.notifications, Dismiss(n) PROVE AskersGoOn
  BY <1>0, <1>2, <1>3 DEF Dismiss
<1>4. ASSUME NEW c \in Caller, ReadReducer(c) \/ ReadFeedback(c) \/ WriteSnapshot(c) \/ Send(c)
      PROVE  AskersGoOn
  <2>1. PublicationStep(c)
    BY <1>4, PublicationSteps
  <2>2. \A d \in {Ingestion, C("configure", 0)} : d \in Caller /\ d.who # "user"
    BY Callers
  <2> QED
    BY <2>1, <2>2 DEF PublicationStep, AskersGoOn, Publishing
<1>5. ASSUME NEW c \in Caller,
             \/ \E p \in PetPackages : SelectPet(c, p)
             \/ \E outcome \in {"unavailable", "failed", "available"} : PreparePet(c, outcome)
             \/ ReplacePet(c) \/ ShowPet(c) \/ UnlockSelection(c)
      PROVE  AskersGoOn
  <2>1. c.who = "pet"
    BY <1>0, <1>5 DEF SelectPet, PreparePet, ReplacePet, ShowPet, UnlockSelection, CallsOK
  <2>2. (\E r : calls' = [calls EXCEPT ![c] = r]) \/ StartPublishing(c, 0)
    BY <1>5 DEF SelectPet, PreparePet, ReplacePet, ShowPet, UnlockSelection
  <2> QED
    BY <1>2, <2>1, <2>2
<1>6. ASSUME NEW t \in workers, AbortWorker(t) \/ DropTitle(t) \/ SaveTitle(t) \/ EndTitle(t)
      PROVE  AskersGoOn
  <2>1. \/ calls' = calls
        \/ \E r : calls' = [calls EXCEPT ![C("title", t.id)] = r]
        \/ StartPublishing(C("title", t.id), t.configuration)
    BY <1>6 DEF AbortWorker, DropTitle, SaveTitle, PublishTitle, EndTitle
  <2> QED
    BY <1>0, <1>2, <2>1
<1>7. ASSUME CloseTitles \/ TakePendingTitles \/ ShutdownReturns PROVE AskersGoOn
  BY <1>1, <1>7 DEF CloseTitles, TakePendingTitles, ShutdownReturns
<1>8. ASSUME NEW c \in Caller,
             \/ \E n \in reducer.notifications : Activate(c, n)
             \/ ActionSucceeds(c)
             \/ \E told \in BOOLEAN : ActionEnds(c, told)
             \/ ExpireFeedback(c)
      PROVE  AskersGoOn
  <2>1. c.who = "activation"
    BY <1>8 DEF Activate, ActionSucceeds, ActionEnds, ExpireFeedback
  <2>2. \/ \E r : calls' = [calls EXCEPT ![c] = r]
        \/ StartPublishing(c, 0)
        \/ SetFeedback(c)
    BY <1>8 DEF Activate, ActionSucceeds, ActionEnds, ExpireFeedback
  <2> QED
    BY <1>2, <2>1, <2>2, SetFeedbackStep
<1> QED
  BY <1>3, <1>4, <1>5, <1>6, <1>7, <1>8 DEF DesktopNext

LEMMA AskedInvNext ==
    ASSUME DesktopTypeOK, AskedInv, DesktopNext
    PROVE  AskedInv'
<1> DEFINE Pending == \A t \in pendingTitles : t.configuration = configuration /\ AskedFor(t.id)
           Cards == plan.titled /\ configuration > 0 /\ shutdown = "open" /\ ~Configuring
                        => \A n \in Unread(reducer.notifications) : AskedFor(n.id) \/ Arriving(n.id)
           Cfg == C("configure", 0)
<1>0. /\ CallsOK /\ configuration \in Nat /\ Ingestion \in Caller /\ Cfg \in Caller
      /\ Ingestion # Cfg
      /\ calls[Cfg].arg = 0 /\ (Configuring => shutdown = "open" /\ configuration > 0)
      /\ Pending /\ Cards
  BY Callers DEF DesktopTypeOK, RestOK, AskedInv
<1>1. OnlyFewerUnread \/ \E e \in Event : Ingest(e) /\ ApplyEvent(e) /\ OnlyFewerUnreadBut(e)
  BY OnlyIngestionBringsCards
<1>2. OnlyFewerUnread => \A n \in Unread(reducer'.notifications) : HasUnread(n.id)
  BY UnreadIdentities DEF HasUnread
<1>3. CASE AskersGoOn /\ TokensStay /\ ~(\E e \in Event : Ingest(e))
  <2>1. \A n \in Unread(reducer'.notifications) : HasUnread(n.id)
    BY <1>1, <1>2, <1>3
  <2>2. /\ calls'[Cfg].arg = 0 /\ (Configuring' <=> Configuring)
        /\ \A id : Arriving(id)' <=> Arriving(id)
        /\ \A id : AskedFor(id)' <=> AskedFor(id)
    BY <1>0, <1>3 DEF AskersGoOn, TokensStay, Configuring, Arriving, AskedFor
  <2>3. shutdown' = shutdown \/ (CloseTitles \/ TakePendingTitles \/ ShutdownReturns)
        \/ (\E c \in Caller : ScheduleTitles(c)) \/ Configure
    BY TokenSteps
  <2>4. \/ shutdown' = shutdown
        \/ shutdown' # "open" /\ ~Configuring
    <3>1. CloseTitles \/ TakePendingTitles \/ ShutdownReturns => shutdown' # "open" /\ ~Configuring
      BY <1>0 DEF CloseTitles, TakePendingTitles, ShutdownReturns, Configuring
    <3>2. \A c \in Caller : ScheduleTitles(c) => shutdown' = shutdown
      BY DEF ScheduleTitles
    <3>3. Configure => ~TokensStay
      BY <1>0 DEF Configure, TokensStay
    <3> QED
      BY <1>3, <2>3, <3>1, <3>2, <3>3
  <2>5. Pending'
    BY <1>0, <1>3, <2>2 DEF TokensStay
  <2>6. Cards'
    <3> SUFFICES ASSUME plan'.titled, configuration' > 0, shutdown' = "open", ~Configuring',
                        NEW n \in Unread(reducer'.notifications)
                 PROVE  AskedFor(n.id)' \/ Arriving(n.id)'
      BY DEF Configuring
    <3>1. plan.titled /\ configuration > 0 /\ shutdown = "open" /\ ~Configuring
      BY <1>3, <2>2, <2>4 DEF TokensStay
    <3>2. PICK m \in Unread(reducer.notifications) : m.id = n.id
      BY <2>1 DEF HasUnread
    <3> QED
      BY <1>0, <2>2, <3>1, <3>2
  <2>7. Configuring' => shutdown' = "open" /\ configuration' > 0
    BY <1>0, <1>3, <2>2, <2>4 DEF TokensStay
  <2> HIDE DEF Pending, Cards
  <2> QED
    BY <2>2, <2>5, <2>6, <2>7 DEF AskedInv, Pending, Cards
<1>4. ASSUME NEW e \in Event, Ingest(e) PROVE AskedInv'
  <2>1. calls[Ingestion].step = "idle" /\ TokensStay /\ shutdown' = shutdown
    <3>1. UNCHANGED <<configuration, asked, pendingTitles, workers, aborted, shutdown>>
          /\ plan' = [plan EXCEPT !.events = @ \ {e}] /\ calls[Ingestion].step = "idle"
      BY <1>4 DEF Ingest
    <3> QED
      BY <3>1 DEF TokensStay, DesktopTypeOK, RestOK, PlanRecord
  <2>2. ~OnlyFewerUnread =>
            StartPublishing(Ingestion, e.id) /\ (OnlyFewerUnread \/ OnlyFewerUnreadBut(e))
    <3>1. \/ StartPublishing(Ingestion, e.id) /\ ApplyEvent(e)
          \/ IgnoreEvent(e) \/ ApplyEventFails(e)
      BY <1>4 DEF Ingest
    <3>2. CardInv
      BY DEF DesktopTypeOK
    <3>3. IgnoreEvent(e) \/ ApplyEventFails(e) => OnlyFewerUnread
      BY <3>2, IgnoredKeepsCards, FailuresKeepReducer DEF OnlyFewerUnread
    <3> QED
      BY <3>1, <3>2, <3>3, AppliedUnread
  <2>3. calls'[Cfg] = calls[Cfg]
    <3>1. StartPublishing(Ingestion, e.id) \/ calls' = calls
      BY <1>4 DEF Ingest
    <3> QED
      BY <1>0, <3>1, EventFields, StartedCall
  <2>4. StartPublishing(Ingestion, e.id) => Arriving(e.id)'
    BY <1>0, EventFields, StartedCall DEF Arriving
  <2>5. Pending'
    BY <1>0, <2>1 DEF TokensStay, AskedFor
  <2>6. Cards'
    <3> SUFFICES ASSUME plan'.titled, configuration' > 0, shutdown' = "open", ~Configuring',
                        NEW n \in Unread(reducer'.notifications)
                 PROVE  AskedFor(n.id)' \/ Arriving(n.id)'
      BY DEF Configuring
    <3>1. plan.titled /\ configuration > 0 /\ shutdown = "open" /\ ~Configuring
      BY <2>1, <2>3 DEF TokensStay, Configuring
    <3>2. \A id : AskedFor(id)' <=> AskedFor(id)
      BY <2>1 DEF TokensStay, AskedFor
    <3>3. \A m \in Unread(reducer.notifications) : AskedFor(m.id)
      BY <1>0, <2>1, <3>1 DEF Arriving
    <3>4. HasUnread(n.id) => AskedFor(n.id)'
      BY <3>2, <3>3 DEF HasUnread
    <3>5. CASE OnlyFewerUnread
      BY <1>2, <3>4, <3>5
    <3>6. CASE ~OnlyFewerUnread
      <4>1. StartPublishing(Ingestion, e.id) /\ OnlyFewerUnreadBut(e)
        BY <2>2, <3>6
      <4>2. HasUnread(n.id)'
        BY DEF HasUnread
      <4>3. HasUnread(n.id) \/ n.id = e.id
        BY <4>1, <4>2, UnreadIdentities
      <4> QED
        BY <2>4, <3>4, <4>1, <4>3
    <3> QED
      BY <3>5, <3>6
  <2>7. /\ calls'[Cfg].arg = 0
        /\ Configuring' => shutdown' = "open" /\ configuration' > 0
    BY <1>0, <2>1, <2>3 DEF TokensStay, Configuring
  <2> HIDE DEF Pending, Cards
  <2> QED
    BY <2>5, <2>6, <2>7 DEF AskedInv, Pending, Cards
<1>5. ASSUME NEW c \in Caller, ScheduleTitles(c) PROVE AskedInv'
  <2>1. /\ c = Ingestion \/ c = Cfg
        /\ calls[c].step = "after"
        /\ calls' = [calls EXCEPT ![c] = Resting]
        /\ UNCHANGED <<plan, configuration, shutdown>> /\ UNCHANGED reducer
        /\ IF MaySchedule THEN Scheduled(calls[c].arg)
                          ELSE UNCHANGED <<pendingTitles, asked>>
    BY <1>5 DEF ScheduleTitles, vars
  <2>2. /\ calls'[c].step = "idle" /\ calls'[c].arg = 0
        /\ \A d \in Caller : d # c => calls'[d] = calls[d]
    BY <2>1, CallsThatChange, CallUpdates
  <2>3. Pending' /\ \A id : AskedFor(id) => AskedFor(id)'
    <3>1. CASE MaySchedule
      <4>1. /\ \A t \in pendingTitles' : t \in pendingTitles
                  \/ (t.configuration = configuration
                      /\ [id |-> t.id, configuration |-> configuration] \in asked')
            /\ asked \subseteq asked'
        BY <2>1, <3>1, ScheduledCases
      <4> QED
        BY <1>0, <2>1, <4>1 DEF AskedFor
    <3>2. CASE ~MaySchedule
      BY <1>0, <2>1, <3>2 DEF AskedFor
    <3> QED
      BY <3>1, <3>2
  <2>4. Cards'
    <3> SUFFICES ASSUME plan'.titled, configuration' > 0, shutdown' = "open", ~Configuring',
                        NEW n \in Unread(reducer'.notifications)
                 PROVE  AskedFor(n.id)' \/ Arriving(n.id)'
      BY DEF Configuring
    <3>1. MaySchedule
      BY <2>1 DEF MaySchedule
    <3>2. \A m \in Unread(reducer.notifications) : calls[c].arg \in {0, m.id} =>
              (\E t \in pendingTitles : t.id = m.id) \/ AskedFor(m.id)'
      BY <2>1, <3>1, ScheduledCases DEF AskedFor
    <3>3. n \in Unread(reducer.notifications)
      BY <2>1
    <3>4. calls[c].arg \in {0, n.id} => AskedFor(n.id)'
      BY <1>0, <2>3, <3>2, <3>3
    <3>5. CASE c = Cfg
      BY <1>0, <3>4, <3>5
    <3>6. CASE c = Ingestion
      <4>1. ~Configuring
        BY <1>0, <2>2, <3>6 DEF Configuring
      <4>2. AskedFor(n.id) \/ calls[c].arg = n.id
        BY <1>0, <2>1, <3>3, <3>6, <4>1 DEF Arriving
      <4> QED
        BY <2>3, <3>4, <4>2
    <3> QED
      BY <2>1, <3>5, <3>6
  <2>5. /\ calls'[Cfg].arg = 0
        /\ Configuring' => shutdown' = "open" /\ configuration' > 0
    BY <1>0, <2>1, <2>2 DEF Configuring
  <2> HIDE DEF Pending, Cards
  <2> QED
    BY <2>3, <2>4, <2>5 DEF AskedInv, Pending, Cards
<1>6. ASSUME Configure PROVE AskedInv'
  <2>1. /\ pendingTitles' = {} /\ shutdown' = "open" /\ configuration' = configuration + 1
        /\ StartPublishing(Cfg, 0)
    BY <1>6 DEF Configure, DrainPending
  <2>2. calls'[Cfg].step = "publish" /\ calls'[Cfg].arg = 0
    BY <1>0, <2>1, StartedCall
  <2> QED
    BY <1>0, <2>1, <2>2 DEF AskedInv, Configuring
<1>7. TokensStay \/ (\E c \in Caller : ScheduleTitles(c)) \/ Configure
  BY TokenSteps
<1> QED
  BY <1>3, <1>4, <1>5, <1>6, <1>7, AskerSteps

LEMMA AskedInvariant == DesktopSpec => []AskedInv
<1>1. DesktopInit => AskedInv
  <2> SUFFICES ASSUME DesktopInit PROVE AskedInv
    OBVIOUS
  <2>1. calls[C("configure", 0)] = Resting /\ configuration = 0 /\ pendingTitles = {}
    BY Callers DEF DesktopInit
  <2>2. calls[C("configure", 0)].step = "idle" /\ calls[C("configure", 0)].arg = 0
    BY <2>1, CallUpdates
  <2> QED
    BY <2>1, <2>2 DEF AskedInv, Configuring
<1>2. DesktopTypeOK /\ AskedInv /\ [DesktopNext]_desktopVars => AskedInv'
  <2>1. CASE UNCHANGED desktopVars
    BY <2>1 DEF desktopVars, vars, AskedInv, Configuring, AskedFor, Arriving
  <2> QED
    BY <2>1, AskedInvNext
<1> QED
  BY <1>1, <1>2, DesktopTypeInvariant, PTL DEF DesktopSpec

\* A card that arrives while the actions are configured is asked for under the new
\* configuration, whatever an earlier configuration left pending, for any events
\* and any number of reconfigurations (schedule_notification_titles).
THEOREM EveryCardIsAskedFor == DesktopSpec => []NoCardForgotten
<1>1. AskedInv => NoCardForgotten
  BY DEF AskedInv, NoCardForgotten, Configuring, AskedFor, Arriving
<1> QED
  BY <1>1, AskedInvariant, PTL

-------------------------------------------------------------------------------
(***************************************************************************)
(* Title workers.                                                          *)
(***************************************************************************)
\* Which workers are between their save and the end of their publication.
LEMMA TellingSteps ==
    ASSUME DesktopTypeOK, DesktopNext, ~overlapped'
    PROVE  \/ /\ ~overlapped
              /\ reducer'.notifications = reducer.notifications
              /\ \A t \in Token : Telling(t)' => Telling(t)
           \/ \A t \in Token : ~Telling(t)'
           \/ \E t \in workers :
                 /\ SaveTitle(t)
                 /\ \A u \in Token : Telling(u)' => u.id = t.id /\ u.configuration = t.configuration
<1>0. /\ \A t \in Token : C("title", t.id) \in Caller /\ C("title", t.id).who = "title"
      /\ \A t \in workers : t \in Token
  BY Callers DEF Token, DesktopTypeOK, RestOK
<1>1. CASE NothingToPublish
  <2>1. \A t \in Token : Telling(t)' => Telling(t)
    BY <1>0, <1>1 DEF NothingToPublish, Telling
  <2> QED
    BY <1>1, <2>1 DEF NothingToPublish
<1>2. ASSUME NEW c \in Caller, c.who # "title", Starts(c)
      PROVE  \A t \in Token : ~Telling(t)'
  <2>1. \A d \in Caller : d # c => ~Publishing(d)'
    BY <1>2 DEF Starts
  <2>2. \A t \in Token : ~Publishing(C("title", t.id))'
    BY <1>0, <1>2, <2>1
  <2> QED
    BY <2>2 DEF Telling
<1>3. ASSUME NEW c \in Caller, ReadReducer(c) \/ ReadFeedback(c) \/ WriteSnapshot(c) \/ Send(c)
      PROVE  /\ ~overlapped
             /\ reducer'.notifications = reducer.notifications
             /\ \A t \in Token : Telling(t)' => Telling(t)
  <2>1. PublicationStep(c)
    BY <1>3, PublicationSteps
  <2>2. \A d \in Caller : (Publishing(d)' => Publishing(d)) /\ calls'[d].arg = calls[d].arg
    BY <2>1 DEF PublicationStep, Publishing
  <2> QED
    BY <1>0, <2>1, <2>2 DEF PublicationStep, Telling, vars
<1>4. ASSUME NEW t \in workers, SaveTitle(t)
      PROVE  \A u \in Token : Telling(u)' => u.id = t.id /\ u.configuration = t.configuration
  <2> DEFINE c == C("title", t.id)
  <2>1. StartPublishing(c, t.configuration) /\ c \in Caller /\ t.configuration \in Nat
    BY <1>0, <1>4 DEF SaveTitle, PublishTitle, Token
  <2>2. Starts(c) /\ calls'[c].arg = t.configuration
    BY <2>1, StartPublishingStarts
  <2>3. \A d \in Caller : d # c => ~Publishing(d)'
    BY <2>2 DEF Starts
  <2> TAKE u \in Token
  <2>4. CASE u.id = t.id
    BY <2>2, <2>4 DEF Telling
  <2>5. CASE u.id # t.id
    <3>1. C("title", u.id) # c
      BY <2>5 DEF C
    <3> QED
      BY <1>0, <2>3, <3>1 DEF Telling
  <2> QED
    BY <2>4, <2>5
<1> QED
  BY <1>1, <1>2, <1>3, <1>4, CallSteps

LEMMA WorkerInvNext ==
    ASSUME DesktopTypeOK, AskedInv, WorkerInv, DesktopNext
    PROVE  WorkerInv'
<1> DEFINE Once == \A e, f \in plan.events : e.id = f.id => e = f
           Cards == \A n \in reducer.notifications : ~ToCome(n.id)
           Pending == \A t \in pendingTitles : ~ToCome(t.id)
           Earlier == \A t \in pendingTitles \cup workers \cup aborted : t.configuration <= configuration
           Aborted == \A t \in aborted :
                         t.configuration = configuration => ~HasUnread(t.id) /\ ~ToCome(t.id)
           Apart == \A t \in aborted, u \in pendingTitles :
                        t.id = u.id => t.configuration # u.configuration
           Tells == ~overlapped =>
                        /\ \A t \in aborted : ~Telling(t)
                        /\ \A t \in pendingTitles : Telling(t) => HasUnread(t.id)
<1>0. /\ configuration \in Nat
      /\ pendingTitles \subseteq Token /\ workers \subseteq Token /\ aborted \subseteq Token
      /\ \A t \in Token : t.configuration \in Nat
      /\ \A t \in pendingTitles : t.configuration = configuration
  BY DEF DesktopTypeOK, RestOK, Token, AskedInv
<1>1. Once /\ Cards /\ Pending /\ Earlier /\ Aborted /\ Apart /\ Tells
  BY DEF WorkerInv
<1>2. \A id : \A n \in reducer.notifications : n.id = id => ~ToCome(id)
  BY <1>1
<1>3. \A id : HasUnread(id) => ~ToCome(id)
  BY <1>2 DEF HasUnread, Unread
<1>4. pendingTitles' \subseteq Token /\ aborted' \subseteq Token
  BY DesktopKeepsShape DEF DesktopTypeOK, RestOK
<1> DEFINE Tokens == Once' /\ Cards' /\ Pending' /\ Earlier' /\ Aborted' /\ Apart'
<1>5. ASSUME TokensStay PROVE Tokens
  <2>1. Once' /\ \A id : ToCome(id)' => ToCome(id)
    BY <1>1, <1>5 DEF TokensStay, ToCome
  <2>2. Pending' /\ Earlier' /\ Apart'
    BY <1>1, <1>5, <2>1 DEF TokensStay
  <2>3. CASE OnlyFewerUnread
    <3>1. Cards'
      BY <1>2, <2>1, <2>3, UnreadIdentities
    <3>2. Aborted'
      BY <1>1, <1>5, <2>1, <2>3, UnreadIdentities DEF TokensStay
    <3> QED
      BY <2>1, <2>2, <3>1, <3>2
  <2>4. ASSUME NEW e \in Event, Ingest(e), OnlyFewerUnreadBut(e) PROVE Tokens
    <3>1. e \in plan.events /\ plan'.events = plan.events \ {e}
      BY <2>4 DEF Ingest, DesktopTypeOK, RestOK, PlanRecord
    <3>2. ToCome(e.id) /\ ~ToCome(e.id)'
      BY <1>1, <3>1 DEF ToCome
    <3>3. Cards'
      BY <1>2, <2>1, <2>4, <3>2, UnreadIdentities
    <3>4. Aborted'
      BY <1>1, <1>5, <2>1, <2>4, <3>2, UnreadIdentities DEF TokensStay
    <3> QED
      BY <2>1, <2>2, <3>3, <3>4
  <2>5. ASSUME OnlyFewerUnread PROVE Tokens
    BY <2>3, <2>5
  <2> HIDE DEF Tokens
  <2> QED
    BY <2>4, <2>5, OnlyIngestionBringsCards
<1>6. ASSUME NEW c \in Caller, ScheduleTitles(c), MaySchedule PROVE Tokens
  <2>1. UNCHANGED <<plan, configuration>> /\ UNCHANGED reducer /\ Scheduled(calls[c].arg)
    BY <1>6 DEF ScheduleTitles, vars
  <2>2. /\ \A t \in pendingTitles' : HasUnread(t.id) /\ t.configuration = configuration
        /\ \A t \in workers' : t \in workers \/ t \in pendingTitles'
        /\ \A t \in aborted' : t \in aborted \/ (t \in pendingTitles /\ ~HasUnread(t.id))
    BY <1>0, <2>1, ScheduledCases
  <2>3. /\ \A id : HasUnread(id)' <=> HasUnread(id)
        /\ \A id : ToCome(id)' <=> ToCome(id)
    BY <2>1 DEF HasUnread, ToCome
  <2>4. Once' /\ Cards' /\ Pending'
    BY <1>1, <1>3, <2>1, <2>2, <2>3
  <2>5. Earlier'
    BY <1>0, <1>1, <2>1, <2>2
  <2>6. Aborted'
    BY <1>1, <2>1, <2>2, <2>3
  <2>7. Apart'
    BY <1>0, <1>1, <2>2
  <2> QED
    BY <2>4, <2>5, <2>6, <2>7
<1>7. ASSUME Configure PROVE Tokens
  <2>1. /\ configuration' = configuration + 1 /\ pendingTitles' = {} /\ workers' = workers
        /\ aborted' = aborted \cup pendingTitles
        /\ UNCHANGED reducer
    BY <1>7 DEF Configure, DrainPending, vars
  <2>2. plan'.events = plan.events
    BY <1>7 DEF Configure, DesktopTypeOK, RestOK, PlanRecord
  <2>3. Once' /\ Cards'
    BY <1>1, <2>1, <2>2 DEF ToCome
  <2>4. Earlier' /\ Aborted'
    BY <1>0, <1>1, <2>1
  <2> QED
    BY <2>1, <2>3, <2>4
<1>8. ASSUME NEW c \in Caller, ScheduleTitles(c), ~MaySchedule PROVE TokensStay
  BY <1>8 DEF ScheduleTitles, TokensStay
<1>9. Tokens
  <2> HIDE DEF Tokens
  <2> QED
    BY <1>5, <1>6, <1>7, <1>8, TokenSteps
<1>10. Tells'
  <2> SUFFICES ASSUME ~overlapped' PROVE /\ \A t \in aborted' : ~Telling(t)'
                                         /\ \A t \in pendingTitles' : Telling(t)' => HasUnread(t.id)'
    OBVIOUS
  <2>1. CASE \A t \in Token : ~Telling(t)'
    BY <1>4, <2>1
  <2>2. ASSUME NEW t \in workers, SaveTitle(t),
               \A u \in Token : Telling(u)' => u.id = t.id /\ u.configuration = t.configuration
        PROVE  /\ \A u \in aborted' : ~Telling(u)'
               /\ \A u \in pendingTitles' : Telling(u)' => HasUnread(u.id)'
    <3>1. t \in pendingTitles /\ IsUnread(t.id, t.time)
          /\ UNCHANGED <<pendingTitles, aborted>>
      BY <2>2 DEF SaveTitle, TitleIsCurrent
    <3>2. reducer'.notifications = reducer.notifications
      BY <2>2, SavedTitleKeepsCards DEF DesktopTypeOK
    <3>3. HasUnread(t.id)'
      BY <3>1, <3>2 DEF IsUnread, HasUnread
    <3>4. \A u \in aborted : u.id = t.id => u.configuration # t.configuration
      BY <1>1, <3>1
    <3> QED
      BY <1>0, <2>2, <3>1, <3>3, <3>4
  <2>3. CASE /\ ~overlapped
             /\ reducer'.notifications = reducer.notifications
             /\ \A t \in Token : Telling(t)' => Telling(t)
    <3>1. \A id : HasUnread(id)' <=> HasUnread(id)
      BY <2>3 DEF HasUnread
    <3>2. /\ \A t \in aborted : ~Telling(t)
          /\ \A t \in pendingTitles : Telling(t) => HasUnread(t.id)
      BY <1>1, <2>3
    <3>3. CASE TokensStay
      BY <1>0, <2>3, <3>1, <3>2, <3>3 DEF TokensStay
    <3>4. ASSUME NEW c \in Caller, ScheduleTitles(c), MaySchedule
          PROVE  /\ \A t \in aborted' : ~Telling(t)'
                 /\ \A t \in pendingTitles' : Telling(t)' => HasUnread(t.id)'
      <4>1. Scheduled(calls[c].arg)
        BY <3>4 DEF ScheduleTitles
      <4>2. /\ \A t \in pendingTitles' : HasUnread(t.id)
            /\ \A t \in aborted' : t \in aborted \/ (t \in pendingTitles /\ ~HasUnread(t.id))
        BY <4>1, ScheduledCases
      <4> QED
        BY <1>4, <2>3, <3>1, <3>2, <4>2
    <3>5. ASSUME Configure
          PROVE  /\ \A t \in aborted' : ~Telling(t)'
                 /\ \A t \in pendingTitles' : Telling(t)' => HasUnread(t.id)'
      <4> DEFINE c == C("configure", 0)
      <4>1. Starts(c) /\ c \in Caller /\ c.who # "title"
        BY <3>5, Callers, StartPublishingStarts DEF Configure
      <4>2. \A t \in Token : C("title", t.id) \in Caller /\ C("title", t.id) # c
        BY Callers DEF Token
      <4>3. \A t \in Token : ~Telling(t)'
        BY <4>1, <4>2 DEF Starts, Telling
      <4> QED
        BY <1>4, <4>3
    <3> QED
      BY <1>8, <3>3, <3>4, <3>5, TokenSteps
  <2> QED
    BY <2>1, <2>2, <2>3, TellingSteps
<1> QED
  BY <1>9, <1>10 DEF WorkerInv

LEMMA WorkerInvariant == DesktopSpec => []WorkerInv
<1>1. DesktopInit => WorkerInv
  <2> SUFFICES ASSUME DesktopInit PROVE WorkerInv
    OBVIOUS
  <2>1. /\ \A c \in Caller : calls[c].step = "idle"
        /\ pendingTitles = {} /\ workers = {} /\ aborted = {}
    BY CallUpdates DEF DesktopInit
  <2>2. reducer.notifications = {}
    BY DEF DesktopInit, Init, EmptyReducer
  <2>3. \A e, f \in plan.events : e.id = f.id => e = f
    BY PlanAssumption DEF DesktopInit
  <2> QED
    BY <2>1, <2>2, <2>3 DEF WorkerInv
<1>2. DesktopTypeOK /\ AskedInv /\ WorkerInv /\ [DesktopNext]_desktopVars => WorkerInv'
  <2>1. CASE UNCHANGED desktopVars
    BY <2>1 DEF desktopVars, vars, WorkerInv, ToCome, HasUnread, Telling, Publishing
  <2> QED
    BY <2>1, WorkerInvNext
<1> QED
  BY <1>1, <1>2, AskedInvariant, DesktopTypeInvariant, PTL DEF DesktopSpec

\* How the tokens leave: a worker ends and takes its entry along, its aborted task
\* goes, or the shutdown takes what is pending.
Leaves(t) ==
    /\ workers' = workers \ {t} /\ aborted' = aborted \ {t}
    /\ \/ t \in aborted /\ UNCHANGED pendingTitles
       \/ pendingTitles' = pendingTitles \ {t}

LEMMA LeavingTokens ==
    ASSUME DesktopTypeOK, DesktopNext
    PROVE  \/ UNCHANGED <<pendingTitles, workers, aborted, shutdown>>
           \/ (\E t \in workers : Leaves(t)) /\ shutdown' = shutdown
           \/ CloseTitles \/ TakePendingTitles \/ ShutdownReturns
           \/ \E c \in Caller : ScheduleTitles(c)
           \/ Configure
<1>1. ASSUME NEW t \in workers, AbortWorker(t) \/ DropTitle(t) \/ EndTitle(t)
      PROVE  Leaves(t) /\ shutdown' = shutdown
  BY <1>1 DEF AbortWorker, DropTitle, EndTitle, Leaves
<1>2. ASSUME NEW c \in Caller, ReadReducer(c) \/ ReadFeedback(c) \/ WriteSnapshot(c) \/ Send(c)
      PROVE  UNCHANGED <<pendingTitles, workers, aborted, shutdown>>
  BY <1>2 DEF ReadReducer, ReadFeedback, WriteSnapshot, Send, titleVars
<1>3. ASSUME NEW c \in Caller,
             \/ \E p \in PetPackages : SelectPet(c, p)
             \/ \E outcome \in {"unavailable", "failed", "available"} : PreparePet(c, outcome)
             \/ ReplacePet(c) \/ ShowPet(c) \/ UnlockSelection(c)
      PROVE  UNCHANGED <<pendingTitles, workers, aborted, shutdown>>
  BY <1>3 DEF SelectPet, PreparePet, ReplacePet, ShowPet, UnlockSelection, titleVars
<1>4. ASSUME NEW c \in Caller,
             \/ \E n \in reducer.notifications : Activate(c, n)
             \/ ActionSucceeds(c)
             \/ \E told \in BOOLEAN : ActionEnds(c, told)
             \/ ExpireFeedback(c)
      PROVE  UNCHANGED <<pendingTitles, workers, aborted, shutdown>>
  BY <1>4 DEF Activate, ActionSucceeds, ActionEnds, ExpireFeedback, titleVars
<1>5. ASSUME (\E e \in Event : Ingest(e)) \/ (\E n \in reducer.notifications : Dismiss(n))
             \/ \E t \in workers : SaveTitle(t)
      PROVE  UNCHANGED <<pendingTitles, workers, aborted, shutdown>>
  BY <1>5 DEF Ingest, Dismiss, SaveTitle
<1> QED
  BY <1>1, <1>2, <1>3, <1>4, <1>5 DEF DesktopNext

\* Until shutdown_title_actions takes them, the entries of TitleDispatch::pending are
\* exactly those of the workers that may still write a title, so none outlives its
\* worker and keeps its card from being asked for again, and every worker can be
\* aborted by a reconfiguration and is waited for by a shutdown; and none of them runs
\* once that has returned.  All for any number of cards, workers and reconfigurations:
\* a token that is aborted is never pending again, because a card is asked for once
\* per configuration.
THEOREM PendingAlwaysWorkedOn == DesktopSpec => []PendingIsWorkedOn
<1>1. DesktopInit => PendingIsWorkedOn
  BY DEF DesktopInit, PendingIsWorkedOn
<1>2. ASSUME DesktopTypeOK, WorkerInv, WorkerInv', PendingIsWorkedOn, DesktopNext
      PROVE  PendingIsWorkedOn'
  <2>0. /\ pendingTitles = IF shutdown \in {"open", "closed"} THEN workers \ aborted ELSE {}
        /\ shutdown = "returned" => workers \subseteq aborted
        /\ \A t \in pendingTitles : t \notin aborted
        /\ \A t \in pendingTitles' : t \notin aborted'
    BY <1>2 DEF PendingIsWorkedOn, WorkerInv
  <2>1. CASE UNCHANGED <<pendingTitles, workers, aborted, shutdown>>
    BY <1>2, <2>1 DEF PendingIsWorkedOn
  <2>2. ASSUME NEW t \in workers, Leaves(t), shutdown' = shutdown PROVE PendingIsWorkedOn'
    BY <2>0, <2>2 DEF Leaves, PendingIsWorkedOn
  <2>3. CASE CloseTitles \/ TakePendingTitles \/ ShutdownReturns
    BY <2>0, <2>3 DEF CloseTitles, TakePendingTitles, ShutdownReturns, PendingIsWorkedOn
  <2>4. ASSUME NEW c \in Caller, ScheduleTitles(c) PROVE PendingIsWorkedOn'
    <3>1. CASE MaySchedule
      <4>1. shutdown = "open" /\ shutdown' = "open" /\ Scheduled(calls[c].arg)
        BY <2>4, <3>1 DEF ScheduleTitles, MaySchedule
      <4>2. PICK kept, new :
               /\ kept \subseteq pendingTitles
               /\ pendingTitles' = kept \cup new /\ workers' = workers \cup new
               /\ aborted' = aborted \cup (pendingTitles \ kept)
        BY <4>1 DEF Scheduled
      <4>3. workers' \ aborted' = pendingTitles'
        BY <2>0, <4>1, <4>2
      <4> QED
        BY <4>1, <4>3 DEF PendingIsWorkedOn
    <3>2. CASE ~MaySchedule
      BY <2>0, <2>4, <3>2 DEF ScheduleTitles, PendingIsWorkedOn
    <3> QED
      BY <3>1, <3>2
  <2>5. CASE Configure
    BY <2>0, <2>5 DEF Configure, DrainPending, PendingIsWorkedOn
  <2> QED
    BY <1>2, <2>1, <2>2, <2>3, <2>4, <2>5, LeavingTokens
<1>3. DesktopTypeOK /\ WorkerInv /\ WorkerInv' /\ PendingIsWorkedOn /\ [DesktopNext]_desktopVars
        => PendingIsWorkedOn'
  <2>1. CASE UNCHANGED desktopVars
    BY <2>1 DEF desktopVars, PendingIsWorkedOn
  <2> QED
    BY <1>2, <2>1
<1> QED
  BY <1>1, <1>3, WorkerInvariant, DesktopTypeInvariant, PTL DEF DesktopSpec

-------------------------------------------------------------------------------
(***************************************************************************)
(* Publications.                                                           *)
(***************************************************************************)
\* As long as what is presented stays, so does what a call has read of it.
LEMMA PresentedStays ==
    ASSUME reducer'.notifications = reducer.notifications,
           reducer'.presentation = reducer.presentation,
           titles' = titles, feedback' = feedback, pet'.shown = pet.shown
    PROVE  /\ Current' = Current
           /\ \A c : calls'[c] = calls[c] /\ HoldsCurrent(c) => HoldsCurrent(c)'
<1>1. CardsOf(reducer)' = CardsOf(reducer)
  BY DEF CardsOf
<1> QED
  BY <1>1 DEF Current, HoldsCurrent

\* One step of a publication keeps what it holds current, and the last one sends it.
LEMMA PublicationKeepsCurrent ==
    ASSUME DesktopTypeOK, PublicationInv, ~overlapped, NEW c \in Caller,
           ReadReducer(c) \/ ReadFeedback(c) \/ WriteSnapshot(c) \/ Send(c)
    PROVE  /\ HoldsCurrent(c)'
           /\ ~Publishing(c)' => sent' = Current
<1>0. /\ calls[c] \in Call /\ calls[c].view \in View
      /\ calls \in [Caller -> Call] /\ HoldsCurrent(c)
  BY DEF DesktopTypeOK, CallsOK, Call, PublicationInv
<1>1. /\ CardsOf(reducer)' = CardsOf(reducer) /\ UNCHANGED <<feedback, pet>> /\ UNCHANGED reducer
  BY PublicationSteps DEF PublicationStep, CardsOf, titleVars, petVars, vars
<1>2. CASE ReadReducer(c)
  <2> DEFINE v == [calls[c].view EXCEPT !.cards = CardsOf(reducer),
                                        !.state = reducer.presentation.state]
  <2>1. v.cards = CardsOf(reducer) /\ v.state = reducer.presentation.state
    BY <1>0 DEF View
  <2>2. calls'[c] = [calls[c] EXCEPT !.step = "read", !.view = v]
    BY <1>0, <1>2 DEF ReadReducer
  <2> HIDE DEF v
  <2>3. calls'[c].step = "read" /\ calls'[c].view = v
    BY <1>0, <2>2 DEF Call
  <2> QED
    BY <1>1, <2>1, <2>3 DEF HoldsCurrent, Publishing
<1>3. CASE ReadFeedback(c)
  <2> DEFINE v == [calls[c].view EXCEPT !.feedback = feedback]
  <2>1. v.cards = calls[c].view.cards /\ v.state = calls[c].view.state /\ v.feedback = feedback
    BY <1>0 DEF View
  <2>2. calls'[c] = [calls[c] EXCEPT !.step = "told", !.view = v] /\ calls[c].step = "read"
    BY <1>0, <1>3 DEF ReadFeedback
  <2> HIDE DEF v
  <2>3. calls'[c].step = "told" /\ calls'[c].view = v
    BY <1>0, <2>2 DEF Call
  <2> QED
    BY <1>0, <1>1, <2>1, <2>2, <2>3 DEF HoldsCurrent, Publishing
<1>4. CASE WriteSnapshot(c)
  <2> DEFINE v == [calls[c].view EXCEPT !.pet = pet.shown]
  <2>1. v.cards = calls[c].view.cards /\ v.state = calls[c].view.state
        /\ v.feedback = calls[c].view.feedback /\ v.pet = pet.shown
    BY <1>0 DEF View
  <2>2. calls'[c] = [calls[c] EXCEPT !.step = "written", !.view = v] /\ calls[c].step = "told"
    BY <1>0, <1>4 DEF WriteSnapshot
  <2> HIDE DEF v
  <2>3. calls'[c].step = "written" /\ calls'[c].view = v
    BY <1>0, <2>2 DEF Call
  <2> QED
    BY <1>0, <1>1, <2>1, <2>2, <2>3 DEF HoldsCurrent, Publishing
<1>5. CASE Send(c)
  <2>1. sent' = calls[c].view /\ calls[c].step = "written"
    BY <1>5 DEF Send
  <2>2. sent' = Current
    BY <1>0, <2>1 DEF HoldsCurrent, Current, View
  <2>3. calls'[c].step \in {"after", "idle"}
    <3>1. calls[c].arg \in Nat \cup PetPackages
      BY <1>0 DEF Call
    <3>2. After(c) \in {"after", "idle"} /\ After(c) \in CallStep
      BY DEF After, CallStep
    <3>3. calls'[c] = [Resting EXCEPT !.step = After(c), !.arg = calls[c].arg]
      BY <1>0, <1>5 DEF Send
    <3>4. calls'[c].step = After(c)
      <4> HIDE DEF After
      <4> QED
        BY <3>3 DEF Resting
    <3> QED
      BY <3>2, <3>4
  <2> QED
    BY <2>2, <2>3 DEF HoldsCurrent
<1> QED
  BY <1>2, <1>3, <1>4, <1>5

LEMMA PublicationInvNext ==
    ASSUME DesktopTypeOK, WorkerInv, PublicationInv, DesktopNext
    PROVE  PublicationInv'
<1> SUFFICES ASSUME ~overlapped'
             PROVE  /\ \A c, d \in Caller : Publishing(c)' /\ Publishing(d)' => c = d
                    /\ \A c \in Caller : HoldsCurrent(c)'
                    /\ (\A c \in Caller : ~Publishing(c)') => sent' = Current'
  BY DEF PublicationInv
<1> DEFINE Goal == /\ \A c, d \in Caller : Publishing(c)' /\ Publishing(d)' => c = d
                   /\ \A c \in Caller : HoldsCurrent(c)'
                   /\ (\A c \in Caller : ~Publishing(c)') => sent' = Current'
<1>0. ~overlapped => /\ \A c, d \in Caller : Publishing(c) /\ Publishing(d) => c = d
                     /\ \A c \in Caller : HoldsCurrent(c)
                     /\ (\A c \in Caller : ~Publishing(c)) => sent = Current
                     /\ \A t \in aborted : ~Telling(t)
  BY DEF PublicationInv, WorkerInv
<1>1. ASSUME NothingToPublish PROVE Goal
  <2>1. ~overlapped /\ Current' = Current /\ sent' = sent
        /\ \A c : calls'[c] = calls[c] /\ HoldsCurrent(c) => HoldsCurrent(c)'
    BY <1>1, PresentedStays DEF NothingToPublish
  <2>2. \A c \in Caller : Publishing(c) => calls'[c] = calls[c]
    BY <1>0, <1>1, <2>1 DEF NothingToPublish
  <2>3. \A c \in Caller : Publishing(c)' => Publishing(c)
    BY <1>1 DEF NothingToPublish
  <2>4. \A c \in Caller : Publishing(c) => Publishing(c)'
    BY <2>2 DEF Publishing
  <2>5. \A c \in Caller : HoldsCurrent(c)'
    <3>1. \A c \in Caller : ~Publishing(c)' => HoldsCurrent(c)'
      BY DEF Publishing, HoldsCurrent
    <3> QED
      BY <1>0, <2>1, <2>2, <2>3, <3>1
  <2> QED
    BY <1>0, <2>1, <2>3, <2>4, <2>5
<1>2. ASSUME NEW c \in Caller, Starts(c) PROVE Goal
  <2>1. /\ Publishing(c)' /\ calls'[c].step = "publish"
        /\ \A d \in Caller : d # c => ~Publishing(d)'
    BY <1>2 DEF Starts
  <2>2. \A d \in Caller : HoldsCurrent(d)'
    BY <2>1 DEF HoldsCurrent, Publishing
  <2> QED
    BY <2>1, <2>2
<1>3. ASSUME NEW c \in Caller, ReadReducer(c) \/ ReadFeedback(c) \/ WriteSnapshot(c) \/ Send(c)
      PROVE  Goal
  <2>1. PublicationStep(c)
    BY <1>3, PublicationSteps
  <2>2. /\ ~overlapped /\ Publishing(c)
        /\ \A d \in Caller : d # c => calls'[d] = calls[d]
    BY <2>1 DEF PublicationStep
  <2>3. Current' = Current /\ \A d : calls'[d] = calls[d] /\ HoldsCurrent(d) => HoldsCurrent(d)'
    BY <2>1, PresentedStays DEF PublicationStep, vars, titleVars, petVars
  <2>4. HoldsCurrent(c)' /\ (~Publishing(c)' => sent' = Current)
    BY <1>3, <2>2, PublicationKeepsCurrent
  <2>5. \A d \in Caller : d # c => ~Publishing(d)'
    BY <1>0, <2>2 DEF Publishing
  <2>6. \A d \in Caller : d # c => HoldsCurrent(d)'
    BY <1>0, <2>2, <2>3
  <2> QED
    BY <2>3, <2>4, <2>5, <2>6
<1>4. ASSUME NEW t \in workers, SaveTitle(t) PROVE Goal
  <2>1. C("title", t.id) \in Caller /\ t.configuration \in Nat
    BY Callers DEF DesktopTypeOK, RestOK, Token
  <2>2. StartPublishing(C("title", t.id), t.configuration)
    BY <1>4 DEF SaveTitle, PublishTitle
  <2> QED
    BY <1>2, <2>1, <2>2, StartPublishingStarts
<1>5. Goal
  <2> HIDE DEF Goal
  <2> QED
    BY <1>1, <1>2, <1>3, <1>4, CallSteps
<1> QED
  BY <1>5

LEMMA PublicationInvInit == DesktopInit => PublicationInv
<1> SUFFICES ASSUME DesktopInit PROVE PublicationInv
  OBVIOUS
<1>1. \A c \in Caller : calls[c].step = "idle"
  BY CallUpdates DEF DesktopInit
<1>2. reducer.notifications = {} /\ reducer.presentation.state = Idle
  BY DEF DesktopInit, Init, EmptyReducer
<1>3. sent = Current
  BY <1>2 DEF DesktopInit, Current, CardsOf, Unread, NoView
<1>4. \A c \in Caller : ~Publishing(c) /\ HoldsCurrent(c)
  BY <1>1 DEF Publishing, HoldsCurrent
<1> QED
  BY <1>3, <1>4 DEF PublicationInv

\* A publication that begins while no other is under way, and that none overlaps,
\* leaves in the presentation channel what the application would present now, also
\* when earlier ones overlapped and left something else: for any number of events,
\* dismissals, titles, reconfigurations, activations and selections, every call
\* publishes what it changed, and a title worker that is aborted between its steps
\* leaves nothing that nobody publishes (publish_presentation).
THEOREM SequentialPublicationsAreCurrent == DesktopSpec => []SequentialIsCurrent
<1>1. DesktopTypeOK /\ WorkerInv /\ PublicationInv /\ [DesktopNext]_desktopVars
        => PublicationInv'
  <2>1. CASE UNCHANGED desktopVars
    BY <2>1 DEF desktopVars, vars, PublicationInv, Publishing, HoldsCurrent, Current, CardsOf
  <2> QED
    BY <2>1, PublicationInvNext
<1>2. PublicationInv => SequentialIsCurrent
  <2>1. Quiet => \A c \in Caller : ~Publishing(c)
    BY DEF Quiet, Publishing
  <2> QED
    BY <2>1 DEF PublicationInv, SequentialIsCurrent, PublishedIsCurrent
<1> QED
  BY <1>1, <1>2, PublicationInvInit, WorkerInvariant, DesktopTypeInvariant, PTL DEF DesktopSpec

-------------------------------------------------------------------------------
(***************************************************************************)
(* The pets.  What a selection has read of the library is so while it      *)
(* holds the lock: the pet it keeps is the active one, and what it has     *)
(* stored is what it is about to show.                                     *)
(***************************************************************************)
IsCatalog(c) == c = [packages |-> c.packages, active |-> c.active]
IsRuntime(r) ==
    /\ r = [catalog |-> r.catalog, assets |-> r.assets, active_asset |-> r.active_asset]
    /\ IsCatalog(r.catalog)
    /\ r.active_asset = AssetId(r.assets.generation, r.catalog.active.pet)
    /\ r.catalog.active.pet \in DOMAIN r.assets.by_pet

IsSelection(s) ==
    /\ s = [step |-> s.step, pet |-> s.pet, current |-> s.current, catalog |-> s.catalog]
    /\ IsCatalog(s.catalog)

LibraryInv ==
    /\ IsRuntime(library) /\ IsSelection(selection)
    /\ selection.step \in {"none", "load", "asset", "unavailable", "save", "replace", "show"}
    /\ selection.step = "load" => selection.current.pet = library.catalog.active.pet
    /\ selection.step = "unavailable" => selection.catalog.active.pet = library.catalog.active.pet
    /\ selection.step \in {"asset", "save", "replace"} =>
          selection.catalog.active.pet = selection.pet
    /\ selection.step \in {"replace", "show"} => storedPet = selection.pet
    /\ selection.step = "show" => library.catalog.active.pet = selection.pet
    /\ selection.step # "show" => view = ViewOf(library)
    /\ selection.step \notin {"replace", "show"} => fellBack \/ storedPet \in {0, view.pet}

LEMMA RuntimeIsRuntime ==
    ASSUME NEW c, IsCatalog(c), NEW n
    PROVE  /\ IsRuntime(Runtime(c, Approved(c, n))) /\ Runtime(c, Approved(c, n)).catalog = c
  <1> DEFINE a == Approved(c, n)
  <1>1. c.active.pet \in PetsOf(c.packages \cup {Fallback, c.active})
    BY DEF PetsOf
  <1>2. c.active.pet \in DOMAIN a.by_pet
    BY <1>1 DEF Approved
  <1> HIDE DEF a
  <1>3. IsRuntime(Runtime(c, a)) /\ Runtime(c, a).catalog = c
    BY <1>2 DEF IsRuntime, Runtime
  <1> QED
    BY <1>3 DEF a

LEMMA LoadedIsRuntime ==
    ASSUME NEW c, IsCatalog(c), NEW n
    PROVE  IsRuntime(Loaded(c, n))
  <1>1. IsCatalog(DefaultCatalog)
    BY DEF IsCatalog, DefaultCatalog
  <1> QED
    BY <1>1, RuntimeIsRuntime DEF Loaded

LEMMA CatalogIsCatalog == \A p : IsCatalog(Catalog(p))
  BY DEF IsCatalog, Catalog

\* A selection in its next step, and with the catalog it has loaded.
LEMMA SteppedSelection ==
    ASSUME NEW s, IsSelection(s), NEW step
    PROVE  [s EXCEPT !.step = step] =
              [step |-> step, pet |-> s.pet, current |-> s.current, catalog |-> s.catalog]
  BY DEF IsSelection

LEMMA LoadedSelection ==
    ASSUME NEW s, IsSelection(s), NEW step, NEW c
    PROVE  [s EXCEPT !.step = step, !.catalog = c] =
              [step |-> step, pet |-> s.pet, current |-> s.current, catalog |-> c]
  <1> DEFINE kept == s.pet
             current == s.current
             catalog == s.catalog
             stepped == [step |-> step, pet |-> kept, current |-> current, catalog |-> catalog]
  <1>1. [s EXCEPT !.step = step] = stepped
    BY SteppedSelection
  <1>2. [stepped EXCEPT !.catalog = c] =
           [step |-> step, pet |-> kept, current |-> current, catalog |-> c]
    OBVIOUS
  <1> HIDE DEF stepped, kept, current, catalog
  <1>3. [s EXCEPT !.step = step, !.catalog = c] = [stepped EXCEPT !.catalog = c]
    BY <1>1
  <1> QED
    BY <1>2, <1>3 DEF kept, current

LEMMA NothingSelected == IsSelection(NoSelection) /\ NoSelection.step = "none"
  BY DEF NoSelection, IsSelection, IsCatalog, DefaultCatalog

LEMMA StartKeeps ==
    ASSUME NEW n, Start(n), storedPet' = storedPet
    PROVE  LibraryInv'
  <1> DEFINE wanted == IF storedPet = 0 THEN DefaultPet ELSE storedPet
             runtime == Loaded(Catalog(wanted), n)
  <1>1. /\ library' = runtime /\ view' = ViewOf(runtime)
        /\ fellBack' = (runtime.catalog.active.pet # wanted) /\ selection' = NoSelection
    BY DEF Start
  <1>2. IsRuntime(runtime)
    BY LoadedIsRuntime, CatalogIsCatalog
  <1> HIDE DEF runtime
  <1>3. ViewOf(runtime).pet = runtime.catalog.active.pet
    BY DEF ViewOf
  <1>4. fellBack' \/ storedPet' \in {0, view'.pet}
    BY <1>1, <1>3
  <1> QED
    BY <1>1, <1>2, <1>4, NothingSelected DEF LibraryInv

LEMMA SelectionKeeps ==
    ASSUME LibraryInv, SelectionProgress
    PROVE  LibraryInv'
  <1>0. IsSelection(selection)
    BY DEF LibraryInv
  <1>1. CASE LoadCatalog
    <2> DEFINE catalog == Catalog(selection.pet)
               kept == WithActive(catalog, selection.current)
    <2>1. IsCatalog(catalog) /\ IsCatalog(kept) /\ kept.active = selection.current
      BY CatalogIsCatalog DEF WithActive, IsCatalog
    <2>2. /\ selection.step = "load"
          /\ selection' = IF catalog.active.pet = selection.pet
               THEN [selection EXCEPT !.step = "asset", !.catalog = catalog]
               ELSE [selection EXCEPT !.step = "unavailable", !.catalog = kept]
          /\ UNCHANGED <<library, view, storedPet, fellBack>>
      BY <1>1 DEF LoadCatalog
    <2> HIDE DEF catalog, kept
    <2>3. CASE catalog.active.pet = selection.pet
      <3>1. selection' = [step |-> "asset", pet |-> selection.pet, current |-> selection.current,
                          catalog |-> catalog]
        BY <1>0, <2>2, <2>3, LoadedSelection
      <3> QED
        BY <2>1, <2>2, <2>3, <3>1 DEF LibraryInv, IsSelection
    <2>4. CASE catalog.active.pet # selection.pet
      <3>1. selection' = [step |-> "unavailable", pet |-> selection.pet,
                          current |-> selection.current, catalog |-> kept]
        BY <1>0, <2>2, <2>4, LoadedSelection
      <3> QED
        BY <2>1, <2>2, <3>1 DEF LibraryInv, IsSelection
    <2> QED
      BY <2>3, <2>4
  <1>2. CASE LoadAsset
    <2>1. /\ selection.step = "asset" /\ UNCHANGED <<library, view, storedPet, fellBack>>
          /\ \/ selection' = NoSelection
             \/ selection' = [step |-> "save", pet |-> selection.pet, current |-> selection.current,
                              catalog |-> selection.catalog]
      BY <1>0, <1>2, SteppedSelection DEF LoadAsset, Ends
    <2> QED
      BY <2>1, NothingSelected DEF LibraryInv, IsSelection
  <1>3. ASSUME NEW saved \in BOOLEAN, SavePet(saved)
        PROVE  LibraryInv'
    <2>1. CASE saved
      <3>1. /\ selection' = [step |-> "replace", pet |-> selection.pet,
                             current |-> selection.current, catalog |-> selection.catalog]
            /\ selection.step = "save" /\ storedPet' = selection.pet /\ UNCHANGED <<library, view>>
        BY <1>0, <1>3, <2>1, SteppedSelection DEF SavePet
      <3> QED
        BY <3>1 DEF LibraryInv, IsSelection
    <2>2. CASE ~saved
      <3>1. selection' = NoSelection /\ selection.step = "save"
            /\ UNCHANGED <<library, view, storedPet, fellBack>>
        BY <1>3, <2>2 DEF SavePet, Ends
      <3> QED
        BY <3>1, NothingSelected DEF LibraryInv
    <2> QED
      BY <2>1, <2>2
  <1>4. CASE KeepActive
    <2>1. /\ selection.step = "unavailable" /\ selection' = NoSelection
          /\ library' = [library EXCEPT !.catalog = selection.catalog]
          /\ UNCHANGED <<view, storedPet, fellBack>>
      BY <1>4 DEF KeepActive, Ends
    <2>2. library' = [catalog |-> selection.catalog, assets |-> library.assets,
                      active_asset |-> library.active_asset]
      BY <2>1 DEF LibraryInv, IsRuntime
    <2>3. IsRuntime(library') /\ library'.catalog.active.pet = library.catalog.active.pet
          /\ library'.active_asset = library.active_asset
      BY <2>1, <2>2 DEF LibraryInv, IsRuntime, IsSelection
    <2>4. ViewOf(library') = ViewOf(library)
      BY <2>3 DEF ViewOf
    <2> QED
      BY <2>1, <2>3, <2>4, NothingSelected DEF LibraryInv
  <1>5. CASE ReplaceLibrary
    <2>1. IsRuntime(library') /\ library'.catalog = selection.catalog
      BY <1>0, <1>5, RuntimeIsRuntime DEF ReplaceLibrary, IsSelection
    <2>2. /\ selection.step = "replace"
          /\ selection' = [step |-> "show", pet |-> selection.pet, current |-> selection.current,
                           catalog |-> selection.catalog]
          /\ UNCHANGED <<view, storedPet, fellBack>>
      BY <1>0, <1>5, SteppedSelection DEF ReplaceLibrary
    <2> QED
      BY <2>1, <2>2 DEF LibraryInv, IsSelection
  <1>6. CASE ShowSelected
    <2>1. /\ selection.step = "show" /\ selection' = NoSelection /\ view' = ViewOf(library)
          /\ UNCHANGED <<library, storedPet, fellBack>>
      BY <1>6 DEF ShowSelected, Ends
    <2>2. ViewOf(library).pet = library.catalog.active.pet
      BY DEF ViewOf
    <2> QED
      BY <2>1, <2>2, NothingSelected DEF LibraryInv
  <1> QED
    BY <1>1, <1>2, <1>3, <1>4, <1>5, <1>6 DEF SelectionProgress

\* Whatever the user does to the directories and however often the application starts: the
\* selected pet stays listed with its asset (the debug assertion of appearance_view), it is
\* on screen and served but between the two writes of a selection, and it is the stored one
\* unless the last start could not load it (select_pet, load_app_state).
THEOREM SelectedPetIsServed == LibrarySpec => []PetIsServed
  <1>1. LibraryInit => LibraryInv
    <2> SUFFICES ASSUME LibraryInit PROVE LibraryInv
      OBVIOUS
    <2>1. IsRuntime(library)
      BY LoadedIsRuntime, CatalogIsCatalog DEF LibraryInit
    <2> QED
      BY <2>1, NothingSelected DEF LibraryInit, LibraryInv
  <1>2. LibraryInv /\ [LibraryNext]_libraryVars => LibraryInv'
    <2> SUFFICES ASSUME LibraryInv, [LibraryNext]_libraryVars PROVE LibraryInv'
      OBVIOUS
    <2>1. CASE Restart
      BY <2>1, StartKeeps DEF Restart
    <2>2. CASE SelectionProgress
      BY <2>2, SelectionKeeps
    <2>3. ASSUME NEW p \in Pet, SelectFrom(p) PROVE LibraryInv'
      <3> DEFINE begun == [step |-> "load", pet |-> p, current |-> library.catalog.active,
                           catalog |-> DefaultCatalog]
      <3>1. selection = NoSelection /\ selection' = begun
            /\ UNCHANGED <<library, view, storedPet, fellBack>>
        BY <2>3 DEF SelectFrom, NoSelection
      <3>2. IsSelection(begun)
        BY DEF IsSelection, IsCatalog, DefaultCatalog
      <3> QED
        BY <3>1, <3>2, NothingSelected DEF LibraryInv
    <2>4. ASSUME NEW d \in Dir, NEW package \in Package \cup {Nothing}, EditPackage(d, package)
          PROVE LibraryInv'
      BY <2>4 DEF EditPackage, LibraryInv, ViewOf
    <2>5. CASE UNCHANGED libraryVars
      BY <2>5 DEF libraryVars, LibraryInv, ViewOf
    <2> QED
      BY <2>1, <2>2, <2>3, <2>4, <2>5 DEF LibraryNext
  <1>3. LibraryInv => PetIsServed
    <2> SUFFICES ASSUME LibraryInv PROVE PetIsServed
      OBVIOUS
    <2>1. library.catalog.active.pet \in Listed
      BY DEF Listed, LibraryInv, IsRuntime
    <2>2. AssetId(library.assets.generation, library.catalog.active.pet) = library.active_asset
      BY DEF LibraryInv, IsRuntime
    <2>3. Served(ViewOf(library).asset)
      BY DEF Served, ViewOf
    <2> QED
      BY <2>1, <2>2, <2>3 DEF PetIsServed, LibraryInv
  <1> QED
    BY <1>1, <1>2, <1>3, PTL DEF LibrarySpec

-------------------------------------------------------------------------------
(***************************************************************************)
(* The menus.  A request waits only while the menu's page is loading, and  *)
(* the menu is visible only once it has loaded.                            *)
(***************************************************************************)
IsTray(t) == t = [pets |-> t.pets, shown |-> t.shown, top |-> t.top, doubtful |-> t.doubtful]
IsDesk(d) ==
    d = [shown |-> d.shown, top |-> d.top, setting |-> d.setting, selected |-> d.selected]
IsMenu(m) ==
    /\ m = [ready |-> m.ready, pending |-> m.pending, visible |-> m.visible,
            latest |-> m.latest, wanted |-> m.wanted]
    /\ m.ready => m.pending = NoRequest
    /\ m.visible => m.ready
    /\ m.visible \/ m.pending # NoRequest => m.wanted

MarksInv == IsTray(tray) /\ IsDesk(desk) /\ tray.shown = desk.shown /\ tray.top = desk.top
MenusInv == MarksInv /\ IsMenu(menu)

LEMMA ClosedMenu ==
    ASSUME NEW m, IsMenu(m), m.visible
    PROVE  IsMenu([m EXCEPT !.visible = FALSE, !.wanted = FALSE])
  <1> DEFINE no == FALSE
             ready == m.ready
             pending == m.pending
             latest == m.latest
             visible == m.visible
             wanted == m.wanted
             shut == [ready |-> ready, pending |-> pending, visible |-> no, latest |-> latest,
                      wanted |-> no]
  <1>1. ~no /\ (ready => pending = NoRequest) /\ ready
    BY DEF IsMenu
  <1>2. m = [ready |-> ready, pending |-> pending, visible |-> visible, latest |-> latest,
             wanted |-> wanted]
    BY DEF IsMenu
  <1> HIDE DEF no, ready, pending, latest, visible, wanted
  <1>3. [m EXCEPT !.visible = no, !.wanted = no] = shut
    <2> DEFINE half == [ready |-> ready, pending |-> pending, visible |-> no, latest |-> latest,
                        wanted |-> wanted]
    <2>1. [m EXCEPT !.visible = no] = half
      BY <1>2
    <2>2. [half EXCEPT !.wanted = no] = shut
      OBVIOUS
    <2> HIDE DEF half, shut
    <2> QED
      BY <2>1, <2>2
  <1>4. IsMenu(shut)
    BY <1>1 DEF IsMenu
  <1>5. IsMenu([m EXCEPT !.visible = no, !.wanted = no])
    BY <1>3, <1>4
  <1> QED
    BY <1>5 DEF no

LEMMA OpenedMenu ==
    ASSUME IsMenu(menu), NEW time \in {PageTime} \cup NativeTime
    PROVE  IsMenu(Opened(time))
  BY DEF IsMenu, Opened

LEMMA LoadedMenu == IsMenu(menu) /\ MenuLoads => IsMenu(menu')
  BY DEF IsMenu, MenuLoads

LEMMA DismissedMenu == IsMenu(menu) /\ (DismissMenu \/ MenuBlurs) => IsMenu(menu')
  BY DEF IsMenu, DismissMenu, MenuBlurs, Cleared

LEMMA MarksStay ==
    ASSUME MarksInv, MenusNext
    PROVE MarksInv'
  <1>1. CASE UpdaterProgress \/ HandlerProgress \/ PublicationProgress
    BY <1>1 DEF MarksInv, IsTray, IsDesk, UpdaterProgress, SeesNews, ReadsSelection, SetsMark,
                RoundEnds, HandlerProgress, TraySelects, TraySelectionFails, TrayPublishes,
                TrayMarks, PublicationProgress, PublishDue, SettingSaved
  <1>2. CASE \E p \in Choosable : SelectOnPage(p)
    BY <1>2 DEF MarksInv, IsTray, IsDesk, SelectOnPage
  <1>3. CASE \E p \in Item : ClickTrayPet(p)
    BY <1>3 DEF MarksInv, IsTray, IsDesk, ClickTrayPet
  <1>4. CASE ShowPetWindow \/ TogglePetWindow \/ ClosePetWindow
    BY <1>4 DEF MarksInv, IsTray, IsDesk, ShowPetWindow, TogglePetWindow, ClosePetWindow, Appear
  <1>5. CASE TopFromTray \/ TopFromMenu
    BY <1>5 DEF MarksInv, IsTray, IsDesk, TopFromTray, TopFromMenu, KeepOnTop
  <1>6. CASE \/ MenuLoads \/ DismissMenu \/ MenuBlurs
             \/ \E time \in {PageTime} \cup NativeTime : OpenMenu(time)
    BY <1>6 DEF MarksInv, IsTray, IsDesk, MenuLoads, DismissMenu, MenuBlurs, OpenMenu
  <1> QED
    BY <1>1, <1>2, <1>3, <1>4, <1>5, <1>6 DEF MenusNext

LEMMA MenuStays ==
    ASSUME IsMenu(menu), MenusNext
    PROVE  IsMenu(menu')
  <1>1. CASE UNCHANGED menu
    BY <1>1
  <1>2. ASSUME NEW hidesMenu \in BOOLEAN, OnMain(hidesMenu), hidesMenu => menu.visible
        PROVE  IsMenu(menu')
    <2>1. CASE hidesMenu
      BY <1>2, <2>1, ClosedMenu DEF OnMain
    <2>2. CASE ~hidesMenu
      BY <1>2, <2>2 DEF OnMain
    <2> QED
      BY <2>1, <2>2
  <1>3. CASE ShowPetWindow \/ TogglePetWindow \/ ClosePetWindow
    BY <1>3, <1>2 DEF ShowPetWindow, TogglePetWindow, ClosePetWindow
  <1>4. CASE TopFromTray \/ TopFromMenu
    BY <1>4, <1>2 DEF TopFromTray, TopFromMenu
  <1>5. CASE MenuLoads \/ DismissMenu \/ MenuBlurs
    BY <1>5, LoadedMenu, DismissedMenu
  <1>6. ASSUME NEW time \in {PageTime} \cup NativeTime, OpenMenu(time)
        PROVE  IsMenu(menu')
    BY <1>6, OpenedMenu DEF OpenMenu
  <1>7. CASE \/ UpdaterProgress \/ HandlerProgress \/ PublicationProgress
             \/ \E p \in Choosable : SelectOnPage(p)
             \/ \E p \in Item : ClickTrayPet(p)
    BY <1>7, <1>1 DEF UpdaterProgress, SeesNews, ReadsSelection, SetsMark, RoundEnds,
                      HandlerProgress, TraySelects, TraySelectionFails, TrayPublishes, TrayMarks,
                      PublicationProgress, PublishDue, SettingSaved, SelectOnPage, ClickTrayPet
  <1> QED
    BY <1>3, <1>4, <1>5, <1>6, <1>7 DEF MenusNext

\* What a menu shows is so, for any pets, times and numbers of gestures: the marks of the
\* tray are those of the pet's window whichever handler moved them last, and a request that
\* waited for the menu's page does not outlive the press that dismissed it
\* (show_pet_window, set_always_on_top, dismiss_pet_context_menu in lili/src/lib.rs).
THEOREM MarksTellTruth == MenusSpec => []MenusTellTruth
  <1>1. MenusInit => MenusInv
    BY DEF MenusInit, MenusInv, MarksInv, IsTray, IsDesk, IsMenu
  <1>2. MenusInv /\ [MenusNext]_menuVars => MenusInv'
    <2>1. MenusInv /\ UNCHANGED menuVars => MenusInv'
      BY DEF MenusInv, MarksInv, menuVars
    <2> QED
      BY <2>1, MarksStay, MenuStays DEF MenusInv
  <1>3. MenusInv => MenusTellTruth
    BY DEF MenusInv, MarksInv, IsMenu, MenusTellTruth
  <1> QED
    BY <1>1, <1>2, <1>3, PTL DEF MenusSpec

-------------------------------------------------------------------------------
(***************************************************************************)
(* The cells of the atlas.  A playback stays inside its loop, so that a    *)
(* frame is on screen (the unreachable! of current_frame), and the frames  *)
(* that end one after the other are told apart by the time.                *)
(***************************************************************************)
Column(a) == 0 .. FrameCount(a) - 1

\* What holds of 0 and passes on to the next number holds up to 7: an animation has no
\* more frames than that.
LEMMA UpToSeven ==
    ASSUME NEW T, 0 \in T, \A k \in 0 .. 6 : k \in T => k + 1 \in T
    PROVE  0 .. 7 \subseteq T
  <1>1. 1 \in T
    OBVIOUS
  <1>2. 2 \in T
    BY <1>1
  <1>3. 3 \in T
    BY <1>2
  <1>4. 4 \in T
    BY <1>3
  <1>5. 5 \in T
    BY <1>4
  <1>6. 6 \in T
    BY <1>5
  <1>7. 7 \in T
    BY <1>6
  <1> QED
    BY <1>1, <1>2, <1>3, <1>4, <1>5, <1>6, <1>7

LEMMA AnimationTable ==
    /\ Animation = {"idle", "right", "left", "waving", "jumping", "failed", "waiting", "running",
                    "review"}
    /\ \A a \in Animation :
          /\ FrameCount(a) \in 4 .. 8 /\ DOMAIN Durations[a] = 1 .. FrameCount(a)
          /\ \A c \in Column(a) : Durations[a][c + 1] \in Nat \ {0}
  <1>1. Animation = {"idle", "right", "left", "waving", "jumping", "failed", "waiting", "running",
                     "review"}
    BY DEF Animation, Durations
  <1>2. ASSUME NEW a \in Animation
        PROVE  /\ FrameCount(a) \in 4 .. 8 /\ DOMAIN Durations[a] = 1 .. FrameCount(a)
               /\ \A c \in Column(a) : Durations[a][c + 1] \in Nat \ {0}
    <2>1. CASE a = "idle"
      BY <2>1 DEF Durations, FrameCount, Column
    <2>2. CASE a = "right"
      BY <2>2 DEF Durations, FrameCount, Column
    <2>3. CASE a = "left"
      BY <2>3 DEF Durations, FrameCount, Column
    <2>4. CASE a = "waving"
      BY <2>4 DEF Durations, FrameCount, Column
    <2>5. CASE a = "jumping"
      BY <2>5 DEF Durations, FrameCount, Column
    <2>6. CASE a = "failed"
      BY <2>6 DEF Durations, FrameCount, Column
    <2>7. CASE a = "waiting"
      BY <2>7 DEF Durations, FrameCount, Column
    <2>8. CASE a = "running"
      BY <2>8 DEF Durations, FrameCount, Column
    <2>9. CASE a = "review"
      BY <2>9 DEF Durations, FrameCount, Column
    <2> QED
      BY <1>1, <2>1, <2>2, <2>3, <2>4, <2>5, <2>6, <2>7, <2>8, <2>9
  <1> QED
    BY <1>1, <1>2

\* The recursion of EndOf has a solution: the sums written out.
LEMMA EndsAreSums ==
    ASSUME NEW a \in Animation
    PROVE  /\ EndOf(a, 0) = Durations[a][1]
           /\ \A c \in Column(a) \ {0} : EndOf(a, c) = Durations[a][c + 1] + EndOf(a, c - 1)
  <1> DEFINE d == Durations[a]
             n == FrameCount(a)
             s0 == d[1]
             s1 == d[2] + s0
             s2 == d[3] + s1
             s3 == d[4] + s2
             s4 == d[5] + s3
             s5 == d[6] + s4
             s6 == d[7] + s5
             s7 == d[8] + s6
             sums == [c \in 0 .. n - 1 |-> <<s0, s1, s2, s3, s4, s5, s6, s7>>[c + 1]]
             ends == CHOOSE end : end = [c \in 0 .. n - 1 |->
                                           d[c + 1] + (IF c = 0 THEN 0 ELSE end[c - 1])]
  <1>1. n \in 4 .. 8 /\ \A c \in 0 .. n - 1 : d[c + 1] \in Nat
    BY AnimationTable DEF Column
  <1>2. \A column : EndOf(a, column) = ends[column]
    BY DEF EndOf
  <1> HIDE DEF d, n
  <1>3. sums = [c \in 0 .. n - 1 |-> d[c + 1] + (IF c = 0 THEN 0 ELSE sums[c - 1])]
    <2> SUFFICES ASSUME NEW c \in 0 .. n - 1
                 PROVE  sums[c] = d[c + 1] + (IF c = 0 THEN 0 ELSE sums[c - 1])
      OBVIOUS
    <2>1. c \in 0 .. 7 /\ (c # 0 => c - 1 \in 0 .. n - 1)
      BY <1>1
    <2>2. sums[c] = <<s0, s1, s2, s3, s4, s5, s6, s7>>[c + 1]
      OBVIOUS
    <2>3. c # 0 => sums[c - 1] = <<s0, s1, s2, s3, s4, s5, s6, s7>>[c]
      BY <2>1
    <2> HIDE DEF sums, s0, s1, s2, s3, s4, s5, s6, s7
    <2>4. CASE c = 0
      BY <1>1, <2>2, <2>4 DEF s0
    <2>5. CASE c = 1
      BY <2>2, <2>3, <2>5 DEF s1
    <2>6. CASE c = 2
      BY <2>2, <2>3, <2>6 DEF s2
    <2>7. CASE c = 3
      BY <2>2, <2>3, <2>7 DEF s3
    <2>8. CASE c = 4
      BY <2>2, <2>3, <2>8 DEF s4
    <2>9. CASE c = 5
      BY <2>2, <2>3, <2>9 DEF s5
    <2>10. CASE c = 6
      BY <2>2, <2>3, <2>10 DEF s6
    <2>11. CASE c = 7
      BY <2>2, <2>3, <2>11 DEF s7
    <2> QED
      BY <2>1, <2>4, <2>5, <2>6, <2>7, <2>8, <2>9, <2>10, <2>11
  <1> HIDE DEF sums, s0, s1, s2, s3, s4, s5, s6, s7
  <1>4. ends = [c \in 0 .. n - 1 |-> d[c + 1] + (IF c = 0 THEN 0 ELSE ends[c - 1])]
    BY <1>3
  <1> HIDE DEF ends
  <1>5. ends[0] = d[1] /\ \A c \in 1 .. n - 1 : ends[c] = d[c + 1] + ends[c - 1]
    <2> DEFINE next == [c \in 0 .. n - 1 |-> d[c + 1] + (IF c = 0 THEN 0 ELSE ends[c - 1])]
    <2>1. \A c \in 0 .. n - 1 : next[c] = d[c + 1] + (IF c = 0 THEN 0 ELSE ends[c - 1])
      OBVIOUS
    <2>2. ends = next
      BY <1>4
    <2> HIDE DEF next
    <2>3. \A c \in 0 .. n - 1 : ends[c] = d[c + 1] + (IF c = 0 THEN 0 ELSE ends[c - 1])
      BY <2>1, <2>2
    <2>4. 0 \in 0 .. n - 1
      BY <1>1
    <2>5. ends[0] = d[0 + 1] + 0 /\ d[0 + 1] \in Nat
      BY <1>1, <2>3, <2>4
    <2> QED
      BY <1>1, <2>3, <2>5
  <1> QED
    BY <1>1, <1>2, <1>5 DEF Column, d, n

LEMMA EndsRise ==
    ASSUME NEW a \in Animation
    PROVE  /\ \A c \in Column(a) :
                 /\ EndOf(a, c) \in Nat \ {0}
                 /\ c # 0 => EndOf(a, c - 1) \in Nat /\ EndOf(a, c - 1) < EndOf(a, c)
                 /\ \A b \in 0 .. c : EndOf(a, b) <= EndOf(a, c)
           /\ 0 \in Column(a) /\ FrameCount(a) - 1 \in Column(a)
           /\ LoopDuration(a) \in Nat \ {0}
           /\ \A c \in Column(a) : EndOf(a, c) <= LoopDuration(a)
  <1> DEFINE n == FrameCount(a)
             rises(c) == /\ EndOf(a, c) \in Nat \ {0}
                         /\ \A b \in 0 .. c : EndOf(a, b) \in Nat /\ EndOf(a, b) <= EndOf(a, c)
             T == {c \in 0 .. 7 : c < n => rises(c)}
  <1>1. n \in 4 .. 8 /\ Column(a) = 0 .. n - 1
    BY AnimationTable DEF Column
  <1>2. \A c \in Column(a) : Durations[a][c + 1] \in Nat \ {0}
    BY AnimationTable
  <1>3. Durations[a][1] \in Nat \ {0}
    <2>1. 0 \in Column(a) /\ 0 + 1 = 1
      BY <1>1
    <2>2. Durations[a][0 + 1] \in Nat \ {0}
      BY <1>2, <2>1
    <2> QED
      BY <2>1, <2>2
  <1>4. /\ EndOf(a, 0) \in Nat \ {0}
        /\ \A c \in 1 .. n - 1 : EndOf(a, c) = Durations[a][c + 1] + EndOf(a, c - 1)
    <2>1. EndOf(a, 0) = Durations[a][1]
      BY EndsAreSums
    <2>2. \A c \in 1 .. n - 1 : c \in Column(a) \ {0}
      BY <1>1
    <2> QED
      BY <1>3, <2>1, <2>2, EndsAreSums
  <1>5. rises(0)
    BY <1>4
  <1>6. ASSUME NEW k \in 0 .. 6, k \in T PROVE k + 1 \in T
    <2> SUFFICES ASSUME k + 1 < n PROVE rises(k + 1)
      OBVIOUS
    <2>1. rises(k)
      BY <1>1, <1>6
    <2>2. EndOf(a, k + 1) = Durations[a][k + 2] + EndOf(a, k) /\ Durations[a][k + 2] \in Nat \ {0}
      <3>1. k + 1 \in 1 .. n - 1 /\ k + 1 - 1 = k /\ k + 1 + 1 = k + 2 /\ k + 1 \in Column(a)
        BY <1>1
      <3> QED
        BY <1>2, <1>4, <3>1
    <2>3. EndOf(a, k + 1) \in Nat \ {0} /\ EndOf(a, k) < EndOf(a, k + 1)
      BY <2>1, <2>2
    <2>4. ASSUME NEW b \in 0 .. k + 1
          PROVE  EndOf(a, b) \in Nat /\ EndOf(a, b) <= EndOf(a, k + 1)
      <3>1. CASE b = k + 1
        BY <2>3, <3>1
      <3>2. CASE b \in 0 .. k
        BY <2>1, <2>3, <3>2
      <3> QED
        BY <3>1, <3>2
    <2> QED
      BY <2>3, <2>4
  <1>7. 0 .. 7 \subseteq T
    <2> HIDE DEF rises
    <2>1. 0 \in T
      BY <1>5
    <2> HIDE DEF T
    <2> QED
      BY <2>1, <1>6, UpToSeven
  <1>8. \A c \in Column(a) : rises(c)
    <2> HIDE DEF rises
    <2> QED
      BY <1>1, <1>7
  <1>9. n - 1 \in Column(a) /\ 0 \in Column(a) /\ LoopDuration(a) = EndOf(a, n - 1)
    BY <1>1 DEF LoopDuration
  <1>10. ASSUME NEW c \in Column(a), c # 0
         PROVE  EndOf(a, c - 1) \in Nat /\ EndOf(a, c - 1) < EndOf(a, c)
    <2>1. c \in 1 .. n - 1 /\ c - 1 \in Column(a)
      BY <1>1, <1>10
    <2>2. EndOf(a, c) = Durations[a][c + 1] + EndOf(a, c - 1) /\ Durations[a][c + 1] \in Nat \ {0}
      BY <1>2, <1>4, <2>1
    <2>3. EndOf(a, c - 1) \in Nat
      BY <1>8, <2>1
    <2> QED
      BY <2>2, <2>3
  <1>11. \A c \in Column(a) : c \in 0 .. n - 1
    BY <1>1
  <1>12. \A c \in Column(a) : EndOf(a, c) <= LoopDuration(a)
    BY <1>8, <1>9, <1>11
  <1> QED
    BY <1>8, <1>9, <1>10, <1>12

\* A time inside the loop falls into one frame, and that frame is the current one.
LEMMA ColumnIsCurrent ==
    ASSUME NEW a \in Animation, NEW e \in Nat, NEW c \in Column(a),
           e < EndOf(a, c), \A b \in 0 .. c - 1 : EndOf(a, b) <= e
    PROVE  CurrentColumn(a, e) = c
  <1> DEFINE current(k) == /\ k \in 0 .. FrameCount(a) - 1
                           /\ e < EndOf(a, k) /\ \A b \in 0 .. k - 1 : EndOf(a, b) <= e
             d == CurrentColumn(a, e)
  <1>1. FrameCount(a) \in 4 .. 8
    BY AnimationTable
  <1>2. current(c) /\ current(d)
    BY DEF CurrentColumn, Column
  <1>3. \A k \in 0 .. FrameCount(a) - 1 : EndOf(a, k) \in Nat
    BY EndsRise DEF Column
  <1>4. ~ c < d /\ ~ d < c
    <2>1. c < d => c \in 0 .. d - 1
      BY <1>1, <1>2
    <2>2. d < c => d \in 0 .. c - 1
      BY <1>1, <1>2
    <2> QED
      BY <1>2, <1>3, <2>1, <2>2
  <1> QED
    BY <1>1, <1>2, <1>4

LEMMA CurrentIsColumn ==
    ASSUME NEW a \in Animation, NEW e \in Nat, e < LoopDuration(a)
    PROVE  CurrentColumn(a, e) \in Column(a)
  <1> DEFINE n == FrameCount(a)
             shown(c) == e < EndOf(a, c) /\ \A b \in 0 .. c - 1 : EndOf(a, b) <= e
             over(c) == \A b \in 0 .. c : EndOf(a, b) <= e
             T == {c \in 0 .. 7 : c < n => over(c)}
  <1>1. n \in 4 .. 8 /\ Column(a) = 0 .. n - 1 /\ n - 1 \in 0 .. 7 /\ n - 1 < n
    BY AnimationTable DEF Column
  <1>2. \A c \in Column(a) : EndOf(a, c) \in Nat
    BY EndsRise
  <1>3. \E c \in Column(a) : shown(c)
    <2> SUFFICES ASSUME \A c \in Column(a) : ~ shown(c) PROVE FALSE
      OBVIOUS
    <2>1. 0 \in T
      <3>1. 0 \in Column(a) /\ ~ shown(0)
        BY <1>1
      <3>2. EndOf(a, 0) <= e
        BY <1>2, <3>1
      <3> QED
        BY <3>2
    <2>2. ASSUME NEW k \in 0 .. 6, k \in T PROVE k + 1 \in T
      <3> SUFFICES ASSUME k + 1 < n PROVE over(k + 1)
        OBVIOUS
      <3>1. over(k)
        BY <1>1, <2>2
      <3>2. k + 1 \in Column(a) /\ k + 1 - 1 = k
        BY <1>1
      <3>3. ~ shown(k + 1)
        BY <3>2
      <3>4. EndOf(a, k + 1) <= e
        BY <1>2, <3>1, <3>2, <3>3
      <3>5. \A b \in 0 .. k + 1 : b = k + 1 \/ b \in 0 .. k
        OBVIOUS
      <3> QED
        BY <3>1, <3>4, <3>5
    <2> HIDE DEF T
    <2>3. 0 .. 7 \subseteq T
      BY <2>1, <2>2, UpToSeven
    <2>4. over(n - 1)
      <3> HIDE DEF over
      <3> QED
        BY <1>1, <2>3 DEF T
    <2>5. LoopDuration(a) <= e
      BY <1>1, <2>4 DEF LoopDuration
    <2> QED
      BY <2>5, EndsRise
  <1>4. PICK c \in Column(a) : shown(c)
    BY <1>3
  <1>5. CurrentColumn(a, e) = c
    BY <1>4, ColumnIsCurrent
  <1> QED
    BY <1>5

\* The frame that is sought is the one the playback goes on from (SpritePlayback::seek).
LEMMA SoughtIsCurrent ==
    ASSUME NEW a \in Animation, NEW c \in Column(a), NEW e,
           e = IF c = 0 THEN 0 ELSE EndOf(a, c - 1)
    PROVE  e \in Nat /\ e < LoopDuration(a) /\ CurrentColumn(a, e) = c
  <1>1. /\ EndOf(a, c) \in Nat \ {0} /\ EndOf(a, c) <= LoopDuration(a)
        /\ LoopDuration(a) \in Nat
        /\ c # 0 => EndOf(a, c - 1) \in Nat /\ EndOf(a, c - 1) < EndOf(a, c)
    BY EndsRise
  <1>2. FrameCount(a) \in 4 .. 8 /\ c \in 0 .. FrameCount(a) - 1
    BY AnimationTable DEF Column
  <1>3. e \in Nat /\ e < EndOf(a, c)
    BY <1>1
  <1>4. \A b \in 0 .. c - 1 : EndOf(a, b) <= e
    <2>1. CASE c = 0
      BY <2>1
    <2>2. CASE c # 0
      <3>1. c - 1 \in Column(a)
        BY <1>2, <2>2 DEF Column
      <3> QED
        BY <2>2, <3>1, EndsRise
    <2> QED
      BY <2>1, <2>2
  <1> QED
    BY <1>1, <1>3, <1>4, ColumnIsCurrent

\* The cells that are chosen are asked for by the validation of a package.
LEMMA CellsAreRequired ==
    /\ \A a \in Animation, c \in Nat : c \in Column(a) => Cell(Row[a], c) \in Required
    /\ \A i \in LookIndex : LookCell(i) \in Required
    /\ NeutralLookCell \in Required
  <1>1. ASSUME NEW a \in Animation, NEW c \in Column(a) PROVE Cell(Row[a], c) \in Required
    <2>1. Cell(Row[a], c) \in Drawn(a)
      BY DEF Drawn, Column
    <2> QED
      BY <2>1 DEF Required
  <1>2. ASSUME NEW i \in LookIndex PROVE LookCell(i) \in Required
    <2>1. 9 + i \div 8 \in 9 .. 10 /\ i % 8 \in 0 .. 7
      BY DEF LookIndex
    <2> QED
      BY <2>1 DEF Required, LookCell
  <1>3. NeutralLookCell \in Required
    BY DEF Required
  <1> QED
    BY <1>1, <1>2, <1>3

LEMMA TimesAreCurrent ==
    ASSUME NEW a \in Animation, NEW e \in Nat, e < LoopDuration(a)
    PROVE  FrameAt(a, e) \in Required
  <1>1. CurrentColumn(a, e) \in Column(a)
    BY CurrentIsColumn
  <1>2. CurrentColumn(a, e) \in Nat
    BY <1>1, AnimationTable DEF Column
  <1> QED
    BY <1>1, <1>2, CellsAreRequired DEF FrameAt

\* The nearest direction, also where the circle closes (LookDirectionSelector::select).
LEMMA NearestIsNear ==
    ASSUME NEW angle \in Nat, angle <= 2880
    PROVE  Select(angle) \in LookIndex /\ Near(angle, Select(angle))
  <1> DEFINE q == (angle + 90) \div 180
  <1>1. q \in 0 .. 16 /\ 180 * q <= angle + 90 /\ angle + 90 < 180 * q + 180
    OBVIOUS
  <1>2. Select(angle) = q % 16
    BY DEF Select
  <1> HIDE DEF q
  <1>3. CASE q = 16
    <2>1. Select(angle) = 0
      BY <1>2, <1>3
    <2>2. LookAngle(0) - angle + 2880 \in -90 .. 90
      BY <1>1, <1>3 DEF LookAngle
    <2> QED
      BY <2>1, <2>2 DEF Near, LookIndex
  <1>4. CASE q \in 0 .. 15
    <2>1. Select(angle) = q
      BY <1>2, <1>4
    <2>2. LookAngle(q) - angle + 0 \in -90 .. 90
      BY <1>1, <1>4 DEF LookAngle
    <2> QED
      BY <1>4, <2>1, <2>2 DEF Near, LookIndex
  <1> QED
    BY <1>1, <1>3, <1>4

LEMMA RemainderIsLess ==
    ASSUME NEW e \in Nat, NEW n \in Nat \ {0}
    PROVE  e % n \in Nat /\ e % n < n
  OBVIOUS

LEMMA RemainderOfLess ==
    ASSUME NEW n \in Nat \ {0}, NEW e \in 0 .. n - 1
    PROVE  e % n = e
  OBVIOUS

\* A playback is inside its loop; a look direction or the neutral look is a cell of the
\* validation; and only an animation plays.
InLoop(a, e) == a \in Animation /\ e \in Nat /\ e < LoopDuration(a)
SceneShape(s) == s = [animation |-> s.animation, elapsed |-> s.elapsed]
BrowserShape(b) ==
    b = [kind |-> b.kind, animation |-> b.animation, at |-> b.at, elapsed |-> b.elapsed,
         playing |-> b.playing]
Browsing(b) ==
    /\ b.kind \in {"none", "animation", "look", "neutral", "cell"}
    /\ b.kind = "animation" => InLoop(b.animation, b.elapsed)
    /\ b.kind \in {"look", "neutral"} => b.at \in Required
    /\ b.kind # "animation" => ~ b.playing
SpriteInv ==
    /\ SceneShape(scene) /\ InLoop(scene.animation, scene.elapsed)
    /\ BrowserShape(browser) /\ Browsing(browser)
    /\ screen = "pet" => browser.kind = "none"
    /\ FramesAreDrawn

LEMMA LoopsBegin ==
    ASSUME NEW a \in Animation
    PROVE  InLoop(a, 0)
  BY EndsRise DEF InLoop

LEMMA LoopsGoRound ==
    ASSUME NEW a \in Animation, NEW e \in Nat
    PROVE  InLoop(a, e % LoopDuration(a))
  <1>1. LoopDuration(a) \in Nat \ {0}
    BY EndsRise
  <1> QED
    BY <1>1, RemainderIsLess DEF InLoop

LEMMA BrowsedIsRequired ==
    ASSUME NEW b, Browsing(b), b.kind \in {"animation", "look", "neutral"}
    PROVE  BrowserFrame(b) \in Required
  BY TimesAreCurrent DEF Browsing, BrowserFrame, InLoop

LEMMA TargetsAreBrowsed ==
    ASSUME NEW t \in Targets
    PROVE  /\ BrowserShape(t) /\ Browsing(t) /\ t.kind \in {"animation", "look", "neutral", "cell"}
           /\ t.kind = "animation" => t.elapsed = 0
  <1> DEFINE none == "none"
             target(kind, a, at, playing) ==
                [kind |-> kind, animation |-> a, at |-> at, elapsed |-> 0, playing |-> playing]
  <1>1. CASE \E a \in Animation : t = target("animation", a, Cell(0, 0), TRUE)
    BY <1>1, LoopsBegin DEF BrowserShape, Browsing
  <1>2. CASE \E i \in LookIndex : t = target("look", "none", LookCell(i), FALSE)
    BY <1>2, CellsAreRequired DEF BrowserShape, Browsing
  <1>3. CASE t = target("neutral", "none", NeutralLookCell, FALSE)
    BY <1>3, CellsAreRequired DEF BrowserShape, Browsing
  <1>4. CASE \E cell : t = target("cell", "none", cell, FALSE)
    BY <1>4 DEF BrowserShape, Browsing
  <1>5. \/ \E a \in Animation : t = target("animation", a, Cell(0, 0), TRUE)
        \/ \E i \in LookIndex : t = target("look", "none", LookCell(i), FALSE)
        \/ t = target("neutral", "none", NeutralLookCell, FALSE)
        \/ \E cell : t = target("cell", "none", cell, FALSE)
    <2>1. CASE \E a \in Animation :
                  t = [NoTarget EXCEPT !.kind = "animation", !.animation = a, !.playing = TRUE]
      BY <2>1 DEF NoTarget
    <2>2. CASE \E i \in LookIndex : t = [NoTarget EXCEPT !.kind = "look", !.at = LookCell(i)]
      BY <2>2 DEF NoTarget
    <2>3. CASE t = [NoTarget EXCEPT !.kind = "neutral", !.at = NeutralLookCell]
      BY <2>3 DEF NoTarget
    <2>4. CASE \E cell : t = [NoTarget EXCEPT !.kind = "cell", !.at = cell]
      BY <2>4 DEF NoTarget
    <2>5. \/ \E a \in Animation :
                t = [NoTarget EXCEPT !.kind = "animation", !.animation = a, !.playing = TRUE]
          \/ \E i \in LookIndex : t = [NoTarget EXCEPT !.kind = "look", !.at = LookCell(i)]
          \/ t = [NoTarget EXCEPT !.kind = "neutral", !.at = NeutralLookCell]
          \/ \E cell : t = [NoTarget EXCEPT !.kind = "cell", !.at = cell]
      BY DEF Targets
    <2> QED
      BY <2>1, <2>2, <2>3, <2>4, <2>5
  <1> HIDE DEF target
  <1> QED
    BY <1>1, <1>2, <1>3, <1>4, <1>5

\* What an action shows is drawn, if it is a required cell, or a cell of the sheet, and
\* the playback's own.
LEMMA ShownIsDrawn ==
    ASSUME NEW cell, Show(cell),
           browser'.kind # "cell" => cell \in Required,
           browser'.kind = "animation" => cell = BrowserFrame(browser)'
    PROVE  FramesAreDrawn'
  BY DEF Show, FramesAreDrawn

LEMMA LookIsDrawn ==
    ASSUME NEW angle \in Angle, Look(angle), browser'.kind = "none"
    PROVE  FramesAreDrawn'
  <1>1. angle \in Nat /\ angle <= 2880
    BY SpriteAssumption
  <1>2. Select(angle) \in LookIndex /\ Near(angle, Select(angle))
    BY <1>1, NearestIsNear
  <1>3. LookCell(Select(angle)) \in Required
    BY <1>2, CellsAreRequired
  <1> QED
    BY <1>2, <1>3 DEF Look, FramesAreDrawn

\* A playback that was sought, stepped, paused or that went on keeps its target.
LEMMA MovedIsBrowsed ==
    ASSUME NEW b, Browsing(b), NEW e, NEW p \in BOOLEAN, NEW c,
           c = [kind |-> b.kind, animation |-> b.animation, at |-> b.at, elapsed |-> e,
                playing |-> p],
           b.kind = "animation" => InLoop(b.animation, e),
           b.kind # "animation" => ~ p
    PROVE  /\ BrowserShape(c) /\ Browsing(c)
           /\ c.kind = b.kind /\ c.animation = b.animation /\ c.elapsed = e
  BY DEF BrowserShape, Browsing

LEMMA PetIsDrawn ==
    ASSUME SpriteInv,
           \/ \E a \in Animation, since \in Delta, reduced \in BOOLEAN : RenderPet(a, since, reduced)
           \/ \E angle \in Angle : RenderPetGaze(angle)
    PROVE  SpriteInv'
  <1>1. ASSUME UNCHANGED <<screen, scene, browser>>, FramesAreDrawn' PROVE SpriteInv'
    BY <1>1 DEF SpriteInv
  <1>2. ASSUME NEW a \in Animation, NEW since \in Delta, NEW reduced \in BOOLEAN,
               RenderPet(a, since, reduced)
        PROVE  SpriteInv'
    <2> DEFINE e == IF reduced THEN 0 ELSE since % LoopDuration(a)
    <2>1. since \in Nat
      BY SpriteAssumption
    <2>2. InLoop(a, e)
      BY <2>1, LoopsBegin, LoopsGoRound
    <2>3. FrameAt(a, e) \in Required
      BY <2>2, TimesAreCurrent DEF InLoop
    <2>4. browser'.kind = "none" /\ Show(FrameAt(a, e)) /\ UNCHANGED <<screen, scene, browser>>
      BY <1>2 DEF RenderPet, SpriteInv
    <2> HIDE DEF e
    <2>5. FramesAreDrawn'
      BY <2>3, <2>4, ShownIsDrawn
    <2> QED
      BY <1>1, <2>4, <2>5
  <1>3. ASSUME NEW angle \in Angle, RenderPetGaze(angle) PROVE SpriteInv'
    <2>1. browser'.kind = "none" /\ Look(angle) /\ UNCHANGED <<screen, scene, browser>>
      BY <1>3 DEF RenderPetGaze, SpriteInv
    <2>2. FramesAreDrawn'
      BY <2>1, LookIsDrawn
    <2> QED
      BY <1>1, <2>1, <2>2
  <1> QED
    BY <1>2, <1>3

LEMMA BrowserIsDrawn ==
    ASSUME SpriteInv, screen = "preview", screen' = screen,
           SceneShape(scene'), InLoop(scene'.animation, scene'.elapsed),
           BrowserShape(browser'), Browsing(browser'), browser'.kind # "none",
           Show(BrowserFrame(browser'))
    PROVE  SpriteInv'
  <1>1. browser'.kind # "cell" => BrowserFrame(browser') \in Required
    BY BrowsedIsRequired DEF Browsing
  <1>2. BrowserFrame(browser)' = BrowserFrame(browser')
    BY DEF BrowserFrame
  <1>3. FramesAreDrawn'
    BY <1>1, <1>2, ShownIsDrawn
  <1> QED
    BY <1>3 DEF SpriteInv, SceneShape, BrowserShape, Browsing, InLoop

LEMMA SceneIsDrawn ==
    ASSUME SpriteInv, screen = "preview", screen' = screen,
           SceneShape(scene'), InLoop(scene'.animation, scene'.elapsed),
           BrowserShape(browser'), Browsing(browser'), browser'.kind = "none",
           \/ \E a \in Animation, e \in Nat : e < LoopDuration(a) /\ Show(FrameAt(a, e))
           \/ \E angle \in Angle : Look(angle)
    PROVE  SpriteInv'
  <1>1. ASSUME NEW a \in Animation, NEW e \in Nat, e < LoopDuration(a), Show(FrameAt(a, e))
        PROVE  FramesAreDrawn'
    <2>1. FrameAt(a, e) \in Required
      BY <1>1, TimesAreCurrent
    <2> QED
      BY <1>1, <2>1, ShownIsDrawn
  <1>2. FramesAreDrawn'
    BY <1>1, LookIsDrawn
  <1> QED
    BY <1>2 DEF SpriteInv, SceneShape, BrowserShape, Browsing, InLoop

\* A scene that starts over or goes on is a scene of the preview.
LEMMA ScenesLoop ==
    ASSUME SpriteInv, NEW delta \in Delta
    PROVE  /\ \A a \in Animation : SceneShape(Scene(a)) /\ InLoop(Scene(a).animation, Scene(a).elapsed)
           /\ LET next == [scene EXCEPT !.elapsed = Advanced(scene.animation, @, delta)]
              IN  SceneShape(next) /\ InLoop(next.animation, next.elapsed)
  <1>1. ASSUME NEW a \in Animation
        PROVE  SceneShape(Scene(a)) /\ InLoop(Scene(a).animation, Scene(a).elapsed)
    BY LoopsBegin DEF Scene, SceneShape
  <1> DEFINE e == Advanced(scene.animation, scene.elapsed, delta)
  <1>2. InLoop(scene.animation, e)
    <2>1. scene.elapsed + delta \in Nat
      BY SpriteAssumption DEF SpriteInv, InLoop
    <2> QED
      BY <2>1, LoopsGoRound DEF Advanced, SpriteInv, InLoop
  <1>3. [scene EXCEPT !.elapsed = e] = [animation |-> scene.animation, elapsed |-> e]
    <2> HIDE DEF e
    <2> QED
      BY DEF SpriteInv, SceneShape
  <1> HIDE DEF e
  <1>4. /\ SceneShape([animation |-> scene.animation, elapsed |-> e])
        /\ [animation |-> scene.animation, elapsed |-> e].animation = scene.animation
        /\ [animation |-> scene.animation, elapsed |-> e].elapsed = e
    BY DEF SceneShape
  <1> QED
    BY <1>1, <1>2, <1>3, <1>4 DEF e

\* SpritePlayback: another target, and another time of the animation that is browsed.
LEMMA BrowsersSeek ==
    ASSUME SpriteInv, browser.kind = "animation", NEW e, NEW p \in BOOLEAN,
           InLoop(browser.animation, e),
           browser' = [browser EXCEPT !.elapsed = e, !.playing = p]
    PROVE  /\ BrowserShape(browser') /\ Browsing(browser')
           /\ browser'.kind = browser.kind /\ browser'.animation = browser.animation
           /\ browser'.elapsed = e
  <1> DEFINE c == [kind |-> browser.kind, animation |-> browser.animation, at |-> browser.at,
                   elapsed |-> e, playing |-> p]
             sought == [browser EXCEPT !.elapsed = e]
             half == [kind |-> browser.kind, animation |-> browser.animation, at |-> browser.at,
                      elapsed |-> e, playing |-> browser.playing]
  <1>1. sought = half
    BY DEF SpriteInv, BrowserShape
  <1>2. [half EXCEPT !.playing = p] = c
    OBVIOUS
  <1>3. browser' = c
    BY <1>1, <1>2
  <1> HIDE DEF c
  <1>4. Browsing(browser)
    BY DEF SpriteInv
  <1>5. BrowserShape(c) /\ Browsing(c) /\ c.kind = browser.kind
        /\ c.animation = browser.animation /\ c.elapsed = e
    BY <1>4, MovedIsBrowsed DEF c
  <1> QED
    BY <1>3, <1>5

LEMMA BrowserStepIsDrawn ==
    ASSUME SpriteInv,
           \/ \E target \in Targets : SelectSprite(target)
           \/ TogglePlaying
           \/ \E column \in 0 .. 7 : SeekTo(column)
           \/ \E forward \in BOOLEAN : Step(forward)
           \/ \E delta \in Delta, reduced \in BOOLEAN : TickBrowser(delta, reduced)
    PROVE  SpriteInv'
  <1>1. /\ SceneShape(scene) /\ InLoop(scene.animation, scene.elapsed)
        /\ BrowserShape(browser) /\ Browsing(browser)
    BY DEF SpriteInv
  <1>2. ASSUME scene' = scene
        PROVE  SceneShape(scene') /\ InLoop(scene'.animation, scene'.elapsed)
    BY <1>1, <1>2
  <1>3. ASSUME NEW target \in Targets, SelectSprite(target) PROVE SpriteInv'
    <2>1. screen = "preview" /\ screen' = screen /\ browser' = target
          /\ scene' = Scene(scene.animation) /\ Show(BrowserFrame(target))
      BY <1>3 DEF SelectSprite
    <2>2. SceneShape(scene') /\ InLoop(scene'.animation, scene'.elapsed)
      BY <1>1, <2>1, LoopsBegin DEF Scene, SceneShape, InLoop
    <2>3. BrowserShape(target) /\ Browsing(target) /\ target.kind # "none"
      BY TargetsAreBrowsed
    <2> QED
      BY <2>1, <2>2, <2>3, BrowserIsDrawn
  <1>4. ASSUME TogglePlaying PROVE SpriteInv'
    <2> DEFINE p == ~ browser.playing
    <2>1. screen = "preview" /\ screen' = screen /\ browser.kind = "animation" /\ scene' = scene
          /\ Show(BrowserFrame(browser'))
      BY <1>4 DEF TogglePlaying
    <2>2. browser' = [browser EXCEPT !.playing = p]
      BY <1>4 DEF TogglePlaying
    <2>3. p \in BOOLEAN /\ InLoop(browser.animation, browser.elapsed)
      BY <1>1, <2>1 DEF Browsing
    <2> HIDE DEF p
    <2>4. browser' = [kind |-> browser.kind, animation |-> browser.animation, at |-> browser.at,
                      elapsed |-> browser.elapsed, playing |-> p]
      BY <1>1, <2>2 DEF BrowserShape
    <2>5. BrowserShape(browser') /\ Browsing(browser') /\ browser'.kind = browser.kind
      BY <1>1, <2>1, <2>3, <2>4, MovedIsBrowsed
    <2> QED
      BY <1>2, <2>1, <2>5, BrowserIsDrawn
  <1>5. ASSUME NEW column \in 0 .. 7, SeekTo(column) PROVE SpriteInv'
    <2> DEFINE a == browser.animation
               e == Seek(column)
    <2>1. screen = "preview" /\ screen' = screen /\ browser.kind = "animation" /\ scene' = scene
          /\ column < FrameCount(a)
          /\ browser' = [browser EXCEPT !.elapsed = e, !.playing = FALSE]
          /\ Show(Cell(Row[a], column))
      BY <1>5 DEF SeekTo
    <2>2. a \in Animation
      BY <1>1, <2>1 DEF Browsing, InLoop
    <2>3. FrameCount(a) \in 4 .. 8
      BY <2>2, AnimationTable
    <2>4. column \in 0 .. FrameCount(a) - 1 /\ column \in Column(a)
      BY <2>1, <2>3 DEF Column
    <2>5. column % FrameCount(a) = column
      BY <2>3, <2>4, RemainderOfLess
    <2>6. e = IF column = 0 THEN 0 ELSE EndOf(a, column - 1)
      BY <2>5 DEF Seek
    <2>7. InLoop(a, e) /\ CurrentColumn(a, e) = column
      BY <2>2, <2>4, <2>6, SoughtIsCurrent DEF InLoop
    <2> HIDE DEF e
    <2>8. /\ BrowserShape(browser') /\ Browsing(browser') /\ browser'.kind = browser.kind
          /\ browser'.animation = a /\ browser'.elapsed = e
      BY <2>1, <2>7, BrowsersSeek
    <2>9. BrowserFrame(browser') = Cell(Row[a], column)
      BY <2>1, <2>7, <2>8 DEF BrowserFrame, FrameAt
    <2> QED
      BY <1>2, <2>1, <2>8, <2>9, BrowserIsDrawn
  <1>6. ASSUME NEW forward \in BOOLEAN, Step(forward) PROVE SpriteInv'
    <2> DEFINE a == browser.animation
               count == FrameCount(a)
               by == IF forward THEN 1 ELSE count - 1
               next == (CurrentColumn(a, browser.elapsed) + by) % count
               e == Seek(next)
    <2>1. screen = "preview" /\ screen' = screen /\ browser.kind = "animation" /\ scene' = scene
          /\ browser' = [browser EXCEPT !.elapsed = e, !.playing = FALSE]
          /\ Show(BrowserFrame(browser'))
      BY <1>6 DEF Step
    <2>2. InLoop(a, browser.elapsed)
      BY <1>1, <2>1 DEF Browsing
    <2>3. count \in Nat \ {0} /\ CurrentColumn(a, browser.elapsed) \in Nat
      BY <2>2, AnimationTable, CurrentIsColumn DEF InLoop, Column
    <2>4. by \in Nat
      BY <2>3
    <2>5. next \in 0 .. count - 1
      <3>1. CurrentColumn(a, browser.elapsed) + by \in Nat
        BY <2>3, <2>4
      <3> HIDE DEF by, count
      <3> QED
        BY <2>3, <3>1, RemainderIsLess
    <2> HIDE DEF next
    <2>6. next % count = next /\ next \in Column(a)
      BY <2>3, <2>5, RemainderOfLess DEF Column
    <2>7. e = IF next = 0 THEN 0 ELSE EndOf(a, next - 1)
      BY <2>6 DEF Seek
    <2>8. InLoop(a, e)
      BY <2>2, <2>6, <2>7, SoughtIsCurrent DEF InLoop
    <2> HIDE DEF e
    <2>9. BrowserShape(browser') /\ Browsing(browser') /\ browser'.kind = browser.kind
      BY <2>1, <2>8, BrowsersSeek
    <2> QED
      BY <1>2, <2>1, <2>9, BrowserIsDrawn
  <1>7. ASSUME NEW delta \in Delta, NEW reduced \in BOOLEAN, TickBrowser(delta, reduced)
        PROVE  SpriteInv'
    <2>1. screen = "preview" /\ screen' = screen /\ browser.kind # "none" /\ scene' = scene
          /\ Show(BrowserFrame(browser'))
      BY <1>7 DEF TickBrowser
    <2>2. CASE browser' = browser
      <3>1. BrowserShape(browser') /\ Browsing(browser') /\ browser'.kind # "none"
        BY <1>1, <2>1, <2>2
      <3> QED
        BY <1>2, <2>1, <3>1, BrowserIsDrawn
    <2>3. CASE browser.playing /\ ~ reduced
      <3> DEFINE e == Advanced(browser.animation, browser.elapsed, delta)
      <3>1. browser.kind = "animation" /\ InLoop(browser.animation, browser.elapsed)
        BY <1>1, <2>3 DEF Browsing
      <3>2. browser.elapsed + delta \in Nat
        BY <3>1, SpriteAssumption DEF InLoop
      <3>3. InLoop(browser.animation, e)
        BY <3>1, <3>2, LoopsGoRound DEF Advanced, InLoop
      <3>4. browser' = [browser EXCEPT !.elapsed = e]
        BY <1>7, <2>3 DEF TickBrowser
      <3> HIDE DEF e
      <3>5. browser' = [kind |-> browser.kind, animation |-> browser.animation,
                        at |-> browser.at, elapsed |-> e, playing |-> browser.playing]
        BY <1>1, <3>4 DEF BrowserShape
      <3>6. browser' = [kind |-> browser.kind, animation |-> browser.animation,
                        at |-> browser.at, elapsed |-> e, playing |-> TRUE]
        BY <1>1, <2>3, <3>5 DEF Browsing
      <3>7. BrowserShape(browser') /\ Browsing(browser') /\ browser'.kind = browser.kind
        BY <1>1, <3>1, <3>3, <3>6, MovedIsBrowsed
      <3> QED
        BY <1>2, <2>1, <3>7, BrowserIsDrawn
    <2> QED
      BY <1>7, <2>2, <2>3 DEF TickBrowser
  <1> QED
    BY <1>3, <1>4, <1>5, <1>6, <1>7

LEMMA SceneStepIsDrawn ==
    ASSUME SpriteInv,
           \/ \E a \in SceneAnimation : SelectScene(a)
           \/ RestartPreview
           \/ \E delta \in Delta, reduced \in BOOLEAN : TickScene(delta, reduced)
           \/ \E delta, since \in Delta, a \in Animation : TickOverridden(delta, since, a)
           \/ \E delta \in Delta, angle \in Angle : TickGaze(delta, angle)
    PROVE  SpriteInv'
  <1> DEFINE next(delta) == [scene EXCEPT !.elapsed = Advanced(scene.animation, @, delta)]
  <1>1. /\ SceneShape(scene) /\ InLoop(scene.animation, scene.elapsed)
        /\ BrowserShape(browser) /\ Browsing(browser)
    BY DEF SpriteInv
  <1>2. \A a \in Animation : SceneShape(Scene(a)) /\ InLoop(Scene(a).animation, Scene(a).elapsed)
    <2> SUFFICES ASSUME NEW a \in Animation
                 PROVE  SceneShape(Scene(a)) /\ InLoop(Scene(a).animation, Scene(a).elapsed)
      OBVIOUS
    <2> QED
      BY LoopsBegin DEF Scene, SceneShape
  <1>3. \A delta \in Delta :
           SceneShape(next(delta)) /\ InLoop(next(delta).animation, next(delta).elapsed)
    BY ScenesLoop
  <1> HIDE DEF next
  <1>4. \A a \in Animation : LoopDuration(a) \in Nat \ {0} /\ 0 \in Nat /\ 0 < LoopDuration(a)
    BY EndsRise
  <1>5. ASSUME NEW a \in SceneAnimation, SelectScene(a) PROVE SpriteInv'
    <2>1. a \in Animation
      BY AnimationTable DEF SceneAnimation
    <2>2. screen = "preview" /\ screen' = screen /\ scene' = Scene(a) /\ browser' = NoTarget
          /\ Show(FrameAt(a, 0))
      BY <1>5 DEF SelectScene
    <2>3. BrowserShape(NoTarget) /\ Browsing(NoTarget) /\ NoTarget.kind = "none"
      BY DEF NoTarget, BrowserShape, Browsing
    <2> QED
      BY <1>2, <1>4, <2>1, <2>2, <2>3, SceneIsDrawn
  <1>6. ASSUME RestartPreview PROVE SpriteInv'
    <2>1. screen = "preview" /\ screen' = screen /\ scene' = Scene(scene.animation)
          /\ browser' = [browser EXCEPT !.elapsed = 0]
          /\ Show(IF browser.kind = "none" THEN FrameAt(scene.animation, 0)
                                           ELSE BrowserFrame(browser'))
      BY <1>6 DEF RestartPreview
    <2>2. scene.animation \in Animation
      BY <1>1 DEF InLoop
    <2>3. SceneShape(scene') /\ InLoop(scene'.animation, scene'.elapsed)
      BY <1>2, <2>1, <2>2
    <2> DEFINE zero == 0
               c == [kind |-> browser.kind, animation |-> browser.animation, at |-> browser.at,
                     elapsed |-> zero, playing |-> browser.playing]
    <2>4. zero = 0
      OBVIOUS
    <2> HIDE DEF zero
    <2>5. browser' = c
      BY <1>1, <2>1, <2>4 DEF BrowserShape
    <2>6. BrowserShape(c) /\ c.kind = browser.kind /\ c.animation = browser.animation
          /\ c.elapsed = 0 /\ c.at = browser.at /\ c.playing = browser.playing
      BY <2>4 DEF BrowserShape
    <2> HIDE DEF c
    <2>7. Browsing(c)
      BY <1>1, <2>6, LoopsBegin DEF Browsing, InLoop
    <2>8. BrowserShape(browser') /\ Browsing(browser') /\ browser'.kind = browser.kind
      BY <2>5, <2>6, <2>7
    <2>9. CASE browser.kind = "none"
      <3>1. Show(FrameAt(scene.animation, 0))
        BY <2>1, <2>9
      <3> QED
        BY <1>4, <2>1, <2>2, <2>3, <2>8, <2>9, <3>1, SceneIsDrawn
    <2>10. CASE browser.kind # "none"
      <3>1. Show(BrowserFrame(browser'))
        BY <2>1, <2>10
      <3> QED
        BY <2>1, <2>3, <2>8, <2>10, <3>1, BrowserIsDrawn
    <2> QED
      BY <2>9, <2>10
  <1>7. ASSUME NEW delta \in Delta, NEW reduced \in BOOLEAN, TickScene(delta, reduced)
        PROVE  SpriteInv'
    <2>1. screen = "preview" /\ screen' = screen /\ browser' = browser /\ browser.kind = "none"
          /\ scene' = (IF reduced THEN scene ELSE next(delta))
          /\ Show(FrameAt(scene'.animation, scene'.elapsed))
      BY <1>7 DEF TickScene, next
    <2>2. SceneShape(scene') /\ InLoop(scene'.animation, scene'.elapsed)
      BY <1>1, <1>3, <2>1
    <2>3. \E a \in Animation, e \in Nat : e < LoopDuration(a) /\ Show(FrameAt(a, e))
      BY <2>1, <2>2 DEF InLoop
    <2> QED
      BY <1>1, <2>1, <2>2, <2>3, SceneIsDrawn
  <1>8. ASSUME NEW delta \in Delta, NEW since \in Delta, NEW a \in Animation,
               TickOverridden(delta, since, a)
        PROVE  SpriteInv'
    <2> DEFINE e == since % LoopDuration(a)
    <2>1. screen = "preview" /\ screen' = screen /\ browser' = browser /\ browser.kind = "none"
          /\ scene' = next(delta) /\ Show(FrameAt(a, e))
      BY <1>8 DEF TickOverridden, next
    <2>2. InLoop(a, e)
      BY SpriteAssumption, LoopsGoRound
    <2> HIDE DEF e
    <2>3. e \in Nat /\ e < LoopDuration(a)
      BY <2>2 DEF InLoop
    <2>4. SceneShape(scene') /\ InLoop(scene'.animation, scene'.elapsed)
      BY <1>3, <2>1
    <2> QED
      BY <1>1, <2>1, <2>3, <2>4, SceneIsDrawn
  <1>9. ASSUME NEW delta \in Delta, NEW angle \in Angle, TickGaze(delta, angle) PROVE SpriteInv'
    <2>1. screen = "preview" /\ screen' = screen /\ browser' = browser /\ browser.kind = "none"
          /\ scene' = next(delta) /\ Look(angle)
      BY <1>9 DEF TickGaze, next
    <2>2. SceneShape(scene') /\ InLoop(scene'.animation, scene'.elapsed)
      BY <1>3, <2>1
    <2> QED
      BY <1>1, <2>1, <2>2, SceneIsDrawn
  <1> QED
    BY <1>5, <1>6, <1>7, <1>8, <1>9

\* Whatever is selected, sought, paused, followed with the eyes or overridden, what is on
\* screen is a cell that the validation of a package asks for, a look is the direction
\* nearest to the pointer, and the browser shows the frame its playback goes on from.
THEOREM FramesAreAlwaysDrawn == SpriteSpec => []FramesAreDrawn
  <1>1. SpriteInit => SpriteInv
    <2> SUFFICES ASSUME SpriteInit PROVE SpriteInv
      OBVIOUS
    <2>1. "idle" \in Animation
      BY AnimationTable
    <2>2. InLoop("idle", 0)
      BY <2>1, LoopsBegin
    <2>3. FrameAt("idle", 0) \in Required
      BY <2>2, TimesAreCurrent DEF InLoop
    <2>4. SceneShape(scene) /\ InLoop(scene.animation, scene.elapsed)
      BY <2>2 DEF SpriteInit, Scene, SceneShape
    <2>5. BrowserShape(browser) /\ Browsing(browser) /\ browser.kind = "none"
      BY DEF SpriteInit, NoTarget, BrowserShape, Browsing
    <2>6. FramesAreDrawn
      BY <2>3, <2>5 DEF SpriteInit, FramesAreDrawn
    <2> QED
      BY <2>4, <2>5, <2>6 DEF SpriteInv
  <1>2. SpriteInv /\ [SpriteNext]_spriteVars => SpriteInv'
    <2> SUFFICES ASSUME SpriteInv, [SpriteNext]_spriteVars PROVE SpriteInv'
      OBVIOUS
    <2>1. CASE UNCHANGED spriteVars
      <3>1. FramesAreDrawn'
        BY <2>1 DEF spriteVars, SpriteInv, FramesAreDrawn, BrowserFrame
      <3> QED
        BY <2>1, <3>1 DEF spriteVars, SpriteInv
    <2>2. CASE SpriteNext
      BY <2>2, PetIsDrawn, BrowserStepIsDrawn, SceneStepIsDrawn DEF SpriteNext
    <2> QED
      BY <2>1, <2>2
  <1>3. SpriteInv => FramesAreDrawn
    BY DEF SpriteInv
  <1> QED
    BY <1>1, <1>2, <1>3, PTL DEF SpriteSpec

===============================================================================
