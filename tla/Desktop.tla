-------------------------------- MODULE Desktop --------------------------------
(***************************************************************************)
(* The calls of AppState that end in publish_presentation, side by side:   *)
(* ingestion, dismissed and activated cards, session titles, the feedback  *)
(* of actions and pet selection (lili-app-state/src/lib.rs, title.rs).  Each mutation *)
(* holds its lock and is one step; publish_presentation awaits four locks  *)
(* in turn and sends outside the last, so it is four steps, and the steps  *)
(* of all calls interleave.                                                *)
(*                                                                         *)
(* A presentation is reduced to the unread cards with their titles, the    *)
(* pet state, the pet and the feedback; a title is the number of the       *)
(* configuration whose action resolved it.                                 *)
(***************************************************************************)
EXTENDS ApplicationState

CONSTANTS
    Plans,       \* bounds: which calls a behaviour makes
    PetPackages  \* pets that can be selected

\* A behaviour delivers an identity once; deliveries again are ApplicationState's.
ASSUME PlanAssumption ==
    /\ Plans \subseteq [events : SUBSET Event, acks : Nat, activations : Nat, told : {0}, titled : BOOLEAN,
                        selections : Nat, configurations : Nat]
    /\ \A p \in Plans : \A e, f \in p.events : e.id = f.id => e = f

VARIABLES
    plan,           \* what is left of the bounds; told: how many feedbacks were set;
                    \* titled: the configured actions have one for session titles
    titles,         \* [id, time] of a card -> its title, 0 for none
    storedTitles,   \* the titles in the stored projection
    configuration,  \* number of the configured supervisor, 0 before the first
    pendingTitles,  \* TitleDispatch::pending
    workers,        \* title workers that have not ended
    aborted,        \* those whose task was aborted
    asked,          \* history: the titles that were asked for
    shutdown,       \* TitleDispatch::closed and the progress of shutdown_title_actions
    feedback,       \* identity of the action feedback, 0 for none
    pet,            \* active: PetRuntimeState; shown: ViewSnapshot; stored: the database
    selecting,      \* holder of pet_selection_lock, 0 if it is free
    calls,          \* caller -> progress of its call
    snapshot,       \* ViewSnapshot
    sent,           \* the value of the presentation watch channel
    overlapped      \* history: the last publication began while another was under way

desktopVars ==
    <<vars, plan, titles, storedTitles, configuration, pendingTitles, workers, aborted,
      asked, shutdown, feedback, pet, selecting, calls, snapshot, sent, overlapped>>
titleVars ==
    <<titles, storedTitles, configuration, pendingTitles, workers, aborted, asked, shutdown>>
petVars == <<pet, selecting>>
viewVars == <<snapshot, sent, overlapped>>

Caller ==
    [who : {"ingestion", "user", "configure"}, id : {0}]
        \cup [who : {"title"}, id : {e.id : e \in Event}]
        \cup [who : {"activation"}, id : 1 .. 2] \cup [who : {"pet"}, id : 1 .. 2]
C(who, id) == [who |-> who, id |-> id]
Ingestion == C("ingestion", 0)

NoView == [cards |-> {}, state |-> Idle, pet |-> 0, feedback |-> 0]
Resting == [step |-> "idle", view |-> NoView, arg |-> 0]

Incarnation == {[id |-> e.id, time |-> e.time] : e \in Event}
Of(n) == [id |-> n.id, time |-> n.time]

\* presentation_from_view: only unread cards, with what is known of them.
CardsOf(r) ==
    {[id |-> n.id, time |-> n.time, title |-> titles[Of(n)]] : n \in Unread(r.notifications)}

Current == [cards |-> CardsOf(reducer), state |-> reducer.presentation.state,
            pet |-> pet.shown, feedback |-> feedback]

Publishing(c) == calls[c].step \in {"publish", "read", "told", "written"}

-------------------------------------------------------------------------------
(***************************************************************************)
(* publish_presentation.                                                   *)
(***************************************************************************)
\* Every call starts its publication when its mutation is done.
StartPublishing(c, arg) ==
    /\ calls' = [calls EXCEPT ![c] = [Resting EXCEPT !.step = "publish", !.arg = arg]]
    /\ overlapped' = (\E d \in Caller \ {c} : Publishing(d))

ReadReducer(c) ==
    /\ calls[c].step = "publish"
    /\ calls' = [calls EXCEPT ![c] =
          [@ EXCEPT !.step = "read",
                    !.view = [calls[c].view EXCEPT !.cards = CardsOf(reducer),
                                                   !.state = reducer.presentation.state]]]
    /\ UNCHANGED <<vars, plan, titleVars, feedback, petVars, viewVars>>

ReadFeedback(c) ==
    /\ calls[c].step = "read"
    /\ calls' = [calls EXCEPT ![c] =
          [@ EXCEPT !.step = "told", !.view = [calls[c].view EXCEPT !.feedback = feedback]]]
    /\ UNCHANGED <<vars, plan, titleVars, feedback, petVars, viewVars>>

WriteSnapshot(c) ==
    /\ calls[c].step = "told"
    /\ calls' = [calls EXCEPT ![c] =
          [@ EXCEPT !.step = "written", !.view = [calls[c].view EXCEPT !.pet = pet.shown]]]
    /\ snapshot' = snapshot + 1
    /\ UNCHANGED <<vars, plan, titleVars, feedback, petVars, sent, overlapped>>

\* What a caller does next: schedule titles, leave pending, sleep, unlock.
After(c) == IF c.who = "user" THEN "idle" ELSE "after"

Send(c) ==
    /\ calls[c].step = "written"
    /\ sent' = calls[c].view
    /\ calls' = [calls EXCEPT ![c] = [Resting EXCEPT !.step = After(c), !.arg = calls[c].arg]]
    /\ UNCHANGED <<vars, plan, titleVars, feedback, petVars, snapshot, overlapped>>

-------------------------------------------------------------------------------
(***************************************************************************)
(* Ingestion and acknowledgement.                                          *)
(***************************************************************************)
\* The actor of the ingestion is sequential: one event, with its publication and
\* the scheduling of its title, before the next.
Ingest(e) ==
    /\ e \in plan.events /\ calls[Ingestion].step = "idle"
    /\ plan' = [plan EXCEPT !.events = @ \ {e}]
    /\ \/ /\ ApplyEvent(e)
          /\ StartPublishing(Ingestion, e.id)
          /\ storedTitles' = titles
       \/ /\ IgnoreEvent(e) \/ ApplyEventFails(e)
          /\ UNCHANGED <<calls, overlapped, storedTitles>>
    /\ UNCHANGED <<titles, configuration, pendingTitles, workers, aborted, asked,
                   shutdown, feedback, petVars, snapshot, sent>>

Dismiss(n) ==
    /\ plan.acks > 0 /\ calls[C("user", 0)].step = "idle"
    /\ plan' = [plan EXCEPT !.acks = @ - 1]
    /\ \/ /\ Acknowledge(n)
          /\ StartPublishing(C("user", 0), 0)
          /\ storedTitles' = titles
       \/ /\ AcknowledgeFails(n)
          /\ UNCHANGED <<calls, overlapped, storedTitles>>
    /\ UNCHANGED <<titles, configuration, pendingTitles, workers, aborted, asked,
                   shutdown, feedback, petVars, snapshot, sent>>

-------------------------------------------------------------------------------
(***************************************************************************)
(* Titles: schedule_notification_titles, complete_title, configuration.    *)
(***************************************************************************)
IsUnread(id, time) ==
    \E n \in Unread(reducer.notifications) : n.id = id /\ n.time = time

\* Only an identity without a pending title gets a worker.
Scheduled(only) ==
    LET kept == {t \in pendingTitles : \E n \in Unread(reducer.notifications) : n.id = t.id}
        new == {[id |-> n.id, time |-> n.time, configuration |-> configuration] :
                  n \in {n \in Unread(reducer.notifications) :
                          /\ only = 0 \/ n.id = only
                          /\ \A t \in kept : t.id # n.id}}
    IN  /\ pendingTitles' = kept \cup new
        /\ workers' = workers \cup new
        /\ aborted' = aborted \cup (pendingTitles \ kept)
        /\ asked' = asked \cup {[id |-> t.id, configuration |-> configuration] : t \in new}

\* Mutant of MaySchedule: a shutdown is no reason not to ask.
MayScheduleLate == plan.titled /\ configuration > 0

MaySchedule == plan.titled /\ configuration > 0 /\ shutdown = "open"

\* Removing a task from pending aborts its worker, which may still run on to its
\* next suspension and beyond the locks it finds free.
ScheduleTitles(c) ==
    /\ c \in {Ingestion, C("configure", 0)} /\ calls[c].step = "after"
    /\ IF MaySchedule THEN Scheduled(calls[c].arg)
                      ELSE UNCHANGED <<pendingTitles, workers, aborted, asked>>
    /\ calls' = [calls EXCEPT ![c] = Resting]
    /\ UNCHANGED <<vars, plan, titles, storedTitles, configuration, shutdown, feedback,
                   petVars, viewVars>>

AbortWorker(t) ==
    /\ t \in aborted
    /\ workers' = workers \ {t} /\ aborted' = aborted \ {t}
    /\ calls' = [calls EXCEPT ![C("title", t.id)] =
          IF @.arg = t.configuration THEN Resting ELSE @]
    /\ UNCHANGED <<vars, plan, titles, storedTitles, asked, configuration,
                   pendingTitles, shutdown, feedback, petVars, viewVars>>

\* The supervisor, the token and the incarnation are all as they were.
TitleIsCurrent(t) == t.configuration = configuration /\ t \in pendingTitles /\ IsUnread(t.id, t.time)

\* Mutant of DropTitle: the entry of a worker without a title stays.
DropTitleOnly(t) ==
    /\ t \in workers /\ calls[C("title", t.id)].step = "idle"
    /\ workers' = workers \ {t} /\ aborted' = aborted \ {t}
    /\ UNCHANGED <<vars, plan, titles, storedTitles, pendingTitles, asked, configuration,
                   shutdown, feedback, petVars, calls, viewVars>>

\* The worker ends without a title: none was resolved, it is not current, or the
\* save failed and the reducer was rolled back.
DropTitle(t) ==
    /\ t \in workers /\ calls[C("title", t.id)].step = "idle"
    /\ workers' = workers \ {t} /\ aborted' = aborted \ {t}
    /\ pendingTitles' = pendingTitles \ {t}
    /\ UNCHANGED <<vars, plan, titles, storedTitles, asked, configuration, shutdown,
                   feedback, petVars, calls, viewVars>>

\* Mutant of PublishTitle: nothing is published, the worker goes on to its end.
PublishTitleNever(t) ==
    /\ calls' = [calls EXCEPT ![C("title", t.id)] =
          [Resting EXCEPT !.step = "after", !.arg = t.configuration]]
    /\ UNCHANGED overlapped

PublishTitle(t) == StartPublishing(C("title", t.id), t.configuration)

\* save_notification_title, under the locks of the runtime and of the dispatch.
SaveTitle(t) ==
    /\ t \in workers /\ calls[C("title", t.id)].step = "idle"
    /\ TitleIsCurrent(t) /\ titles[Of(t)] # t.configuration
    /\ reducer' = [reducer EXCEPT !.revision = @ + 1]
    /\ Saves(reducer')
    /\ stored' = PersistentState(reducer')
    /\ titles' = [titles EXCEPT ![Of(t)] = t.configuration]
    /\ storedTitles' = titles'
    /\ PublishTitle(t)
    /\ UNCHANGED <<now, timers, reply, restarts, newest, finished, dismissed, plan,
                   configuration, pendingTitles, workers, aborted, asked, shutdown,
                   feedback, petVars, snapshot, sent>>

EndTitle(t) ==
    /\ t \in workers
    /\ calls[C("title", t.id)] = [Resting EXCEPT !.step = "after", !.arg = t.configuration]
    /\ workers' = workers \ {t} /\ aborted' = aborted \ {t}
    /\ pendingTitles' = pendingTitles \ {t}
    /\ calls' = [calls EXCEPT ![C("title", t.id)] = Resting]
    /\ UNCHANGED <<vars, plan, titles, storedTitles, asked, configuration, shutdown,
                   feedback, petVars, viewVars>>

\* Mutant of DrainPending: the entries of the old workers stay.
KeepPending == UNCHANGED pendingTitles

DrainPending == pendingTitles' = {}

\* configure_actions_with_persistence: a new supervisor, and every unread card is
\* asked for again once that is published.
Configure ==
    /\ plan.configurations > 0 /\ calls[C("configure", 0)].step = "idle"
    /\ shutdown \in {"open", "returned"}
    /\ plan' = [plan EXCEPT !.configurations = @ - 1]
    /\ configuration' = configuration + 1 /\ shutdown' = "open"
    /\ DrainPending
    /\ aborted' = aborted \cup pendingTitles
    /\ StartPublishing(C("configure", 0), 0)
    /\ UNCHANGED <<vars, titles, storedTitles, asked, workers, feedback, petVars,
                   snapshot, sent>>

\* shutdown_title_actions, which configuration excludes with title_lifecycle.
CloseTitles ==
    /\ shutdown = "open" /\ configuration > 0 /\ calls[C("configure", 0)].step = "idle"
    /\ shutdown' = "closed"
    /\ UNCHANGED <<vars, plan, titles, storedTitles, aborted, asked, configuration,
                   pendingTitles, workers, feedback, petVars, calls, viewVars>>

TakePendingTitles ==
    /\ shutdown = "closed"
    /\ shutdown' = "waiting"
    /\ pendingTitles' = {}
    /\ UNCHANGED <<vars, plan, titles, storedTitles, aborted, asked, configuration,
                   workers, feedback, petVars, calls, viewVars>>

\* The tasks that were taken have ended; they are the ones that nobody aborted.
ShutdownReturns ==
    /\ shutdown = "waiting" /\ workers \subseteq aborted
    /\ shutdown' = "returned"
    /\ UNCHANGED <<vars, plan, titles, storedTitles, aborted, asked, configuration,
                   pendingTitles, workers, feedback, petVars, calls, viewVars>>

-------------------------------------------------------------------------------
(***************************************************************************)
(* Action feedback and the pet.                                            *)
(***************************************************************************)
\* POST interactions: the card is bound while it is unread, and an action of the
\* configured supervisor starts.
Activate(c, n) ==
    /\ c.who = "activation" /\ plan.activations = c.id /\ calls[c].step = "idle"
    /\ n.state = "unread" /\ configuration > 0
    /\ plan' = [plan EXCEPT !.activations = @ - 1]
    /\ calls' = [calls EXCEPT ![c] = [@ EXCEPT !.step = "acting", !.arg = n.id]]
    /\ UNCHANGED <<vars, titleVars, feedback, petVars, viewVars>>

Bound(c) == {n \in Unread(reducer.notifications) : n.id = calls[c].arg}

\* set_action_feedback: every feedback has an identity of its own.
SetFeedback(c) ==
    /\ plan' = [plan EXCEPT !.told = @ + 1]
    /\ feedback' = plan'.told
    /\ StartPublishing(c, plan'.told)

\* complete_notification_action: a success dismisses the card by its identity; if
\* that cannot be saved there is feedback.
ActionSucceeds(c) ==
    /\ c.who = "activation" /\ calls[c].step = "acting"
    /\ \/ \E n \in Bound(c) : Acknowledge(n) /\ StartPublishing(c, 0)
                                /\ storedTitles' = titles /\ UNCHANGED <<plan, feedback>>
       \/ \E n \in Bound(c) : AcknowledgeFails(n) /\ SetFeedback(c) /\ UNCHANGED storedTitles
       \/ /\ Bound(c) = {}
          /\ calls' = [calls EXCEPT ![c] = [Resting EXCEPT !.step = "over"]]
          /\ UNCHANGED <<vars, plan, feedback, overlapped, storedTitles>>
    /\ UNCHANGED <<titles, configuration, pendingTitles, workers, aborted, asked,
                   shutdown, petVars, snapshot, sent>>

\* publish_action_result: a failure or a busy action is told, the rest is silent.
ActionEnds(c, told) ==
    /\ c.who = "activation" /\ calls[c].step = "acting"
    /\ IF told THEN SetFeedback(c)
               ELSE /\ calls' = [calls EXCEPT ![c] = [Resting EXCEPT !.step = "over"]]
                    /\ UNCHANGED <<plan, feedback, overlapped>>
    /\ UNCHANGED <<vars, titleVars, petVars, snapshot, sent>>

\* Mutant of OwnFeedback: whatever is shown is cleared.
AnyFeedback(f) == f # 0 /\ feedback # 0

OwnFeedback(f) == f # 0 /\ feedback = f

\* Five seconds later the task clears its own feedback and publishes once more.
ExpireFeedback(c) ==
    /\ c.who = "activation" /\ calls[c].step = "after"
    /\ IF OwnFeedback(calls[c].arg)
          THEN feedback' = 0 /\ StartPublishing(c, 0)
          ELSE /\ calls' = [calls EXCEPT ![c] = [Resting EXCEPT !.step = "over"]]
               /\ UNCHANGED <<feedback, overlapped>>
    /\ UNCHANGED <<vars, plan, titleVars, petVars, snapshot, sent>>

\* select_pet takes the selection lock and remembers the active pet.
SelectPet(c, p) ==
    /\ c.who = "pet" /\ calls[c].step = "idle" /\ plan.selections = c.id
    /\ selecting = 0
    /\ plan' = [plan EXCEPT !.selections = @ - 1]
    /\ selecting' = c.id
    /\ calls' = [calls EXCEPT ![c] =
          [@ EXCEPT !.step = "prepare", !.arg = p,
                    !.view = [calls[c].view EXCEPT !.pet = pet.active]]]
    /\ UNCHANGED <<vars, titleVars, feedback, pet, viewVars>>

Usable(outcome) == outcome = "available"

\* The blocking task: the package is gone (the catalog is reloaded around the
\* remembered pet), its asset or the save fails, or it is saved.
PreparePet(c, outcome) ==
    /\ calls[c].step = "prepare"
    /\ pet' = CASE outcome = "unavailable" -> [pet EXCEPT !.active = calls[c].view.pet]
                [] outcome = "failed" -> pet
                [] outcome = "available" -> [pet EXCEPT !.stored = calls[c].arg]
    /\ calls' = [calls EXCEPT ![c] =
          IF Usable(outcome) THEN [@ EXCEPT !.step = "replace"]
                             ELSE [Resting EXCEPT !.step = "after"]]
    /\ UNCHANGED <<vars, plan, titleVars, feedback, selecting, viewVars>>

ReplacePet(c) ==
    /\ calls[c].step = "replace"
    /\ pet' = [pet EXCEPT !.active = calls[c].arg]
    /\ calls' = [calls EXCEPT ![c].step = "show"]
    /\ UNCHANGED <<vars, plan, titleVars, feedback, selecting, viewVars>>

ShowPet(c) ==
    /\ calls[c].step = "show"
    /\ pet' = [pet EXCEPT !.shown = calls[c].arg]
    /\ StartPublishing(c, 0)
    /\ UNCHANGED <<vars, plan, titleVars, feedback, selecting, snapshot, sent>>

UnlockSelection(c) ==
    /\ c.who = "pet" /\ calls[c].step = "after"
    /\ selecting' = 0
    /\ calls' = [calls EXCEPT ![c] = [Resting EXCEPT !.step = "over"]]
    /\ UNCHANGED <<vars, plan, titleVars, feedback, pet, viewVars>>

-------------------------------------------------------------------------------
DesktopInit ==
    /\ Init
    /\ plan \in Plans
    /\ titles = [i \in Incarnation |-> 0] /\ storedTitles = titles
    /\ configuration = 0 /\ pendingTitles = {} /\ workers = {} /\ aborted = {} /\ asked = {}
    /\ shutdown = "open"
    /\ feedback = 0 /\ selecting = 0
    /\ pet = [active |-> 0, shown |-> 0, stored |-> 0]
    /\ calls = [c \in Caller |-> Resting]
    /\ snapshot = 0 /\ sent = NoView /\ overlapped = FALSE

DesktopNext ==
    \/ \E e \in Event : Ingest(e)
    \/ \E n \in reducer.notifications : Dismiss(n)
    \/ \E c \in Caller :
          \/ ReadReducer(c) \/ ReadFeedback(c) \/ WriteSnapshot(c) \/ Send(c)
          \/ ScheduleTitles(c)
          \/ \E p \in PetPackages : SelectPet(c, p)
          \/ \E outcome \in {"unavailable", "failed", "available"} : PreparePet(c, outcome)
          \/ ReplacePet(c) \/ ShowPet(c) \/ UnlockSelection(c)
    \/ \E t \in workers : AbortWorker(t) \/ DropTitle(t) \/ SaveTitle(t) \/ EndTitle(t)
    \/ Configure \/ CloseTitles \/ TakePendingTitles \/ ShutdownReturns
    \/ \E c \in Caller :
          \/ \E n \in reducer.notifications : Activate(c, n)
          \/ ActionSucceeds(c)
          \/ \E told \in BOOLEAN : ActionEnds(c, told)
          \/ ExpireFeedback(c)

DesktopSpec == DesktopInit /\ [][DesktopNext]_desktopVars

-------------------------------------------------------------------------------
(***************************************************************************)
(* What the calls promise together.                                        *)
(***************************************************************************)
Quiet ==
    /\ \A c \in Caller : calls[c].step \in {"idle", "over"}
    /\ workers = {}

\* "it receives a current state snapshot": once nothing is under way the
\* channel holds what the application would present now.  Violated: a call that
\* read the reducer first may send last.
PublishedIsCurrent == Quiet => sent = Current

\* A publication that begins while no other is under way, and that none overlaps,
\* leaves the channel current, also when one that overlapped left it out of date: the
\* race lasts until the next lone publication at most.  Every call publishes what it
\* changed, and an aborted title worker leaves nothing that nobody publishes.
SequentialIsCurrent == ~overlapped => PublishedIsCurrent

\* Until a shutdown takes them, the entries are exactly those of the workers that may
\* still write a title: no entry outlives its worker, which would keep its card from
\* ever being asked for again, and no worker loses its entry, which a reconfiguration
\* needs to abort it and a shutdown to wait for it.  And once a shutdown has returned
\* no such worker runs, though the ingestion goes on meanwhile.
PendingIsWorkedOn ==
    /\ pendingTitles = IF shutdown \in {"open", "closed"} THEN workers \ aborted ELSE {}
    /\ shutdown = "returned" => workers \subseteq aborted

\* A card that arrives while the actions are configured is asked for under the
\* new configuration, by its own event or by the configuration, and no entry that
\* an earlier configuration left in pending keeps it from that.
NoCardForgotten ==
    /\ plan.titled /\ configuration > 0 /\ shutdown = "open"
    /\ calls[Ingestion].step = "idle" /\ calls[C("configure", 0)].step = "idle"
    => \A n \in Unread(reducer.notifications) :
          [id |-> n.id, configuration |-> configuration] \in asked

\* The feedback that was set last stays until its own five seconds are over,
\* whatever the timer of an earlier one does.
FeedbackStands ==
    \A c \in Caller :
        c.who = "activation" /\ plan.told > 0 /\ calls[c].step # "acting"
            /\ calls[c].arg = plan.told => feedback = plan.told

================================================================================
