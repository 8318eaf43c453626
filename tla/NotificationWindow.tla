-------------------------- MODULE NotificationWindow --------------------------
(***************************************************************************)
(* Showing and hiding the notification window (lili/src/lib.rs).  The      *)
(* update task runs on a worker thread; it reads the published number of   *)
(* unread cards, asks the main thread whether the pet is visible, and then *)
(* shows, hides or schedules a hide five seconds later.  The main thread   *)
(* runs posted messages in order, the user's commands, and the closure of  *)
(* a hide that is due.  The flag and the generation of a scheduled hide    *)
(* are two atomics, so each access is a step of its own.                   *)
(***************************************************************************)
EXTENDS Integers, Sequences, FiniteSets, SequencesExt

CONSTANTS
    MaxPublications,  \* bound on the published changes
    MaxToggles,       \* bound on the user's showing and hiding of the pet
    MaxCloses         \* bound on close requests of the notification window

VARIABLES
    published,   \* unread cards of the published presentation, 0 or more than 0
    fresh,       \* the watch channel holds a change the update task has not seen
    petVisible, windowVisible,
    scheduled,   \* NotificationWindowState::hide_scheduled
    generation,  \* NotificationWindowState::hide_generation
    sleeping,    \* generations of the hides whose delay has not elapsed
    posted,      \* messages for the main thread
    actor,       \* progress of the update task and of the main thread
    budget       \* what is left of the bounds, and whether a toggle crossed an answer

windowVars == <<published, fresh, petVisible, windowVisible, scheduled, generation,
                sleeping, posted, actor, budget>>

Resting == [pc |-> "idle", unread |-> 0, plan |-> "none", gen |-> 0]
Message(kind, gen) == [kind |-> kind, gen |-> gen]

ASSUME WindowAssumption ==
    MaxPublications \in Nat /\ MaxToggles \in Nat /\ MaxCloses \in Nat

-------------------------------------------------------------------------------
\* notification_window_sync_action
SyncAction(unread, visible) ==
    CASE ~visible -> "hide" [] visible /\ unread > 0 -> "show" [] OTHER -> "schedule"

\* The generation only grows, so the second load may be taken with the first.
HideIsCurrent(g) == scheduled /\ generation = g

\* A state change of the application is published on the watch channel.
Publish(unread) ==
    /\ budget.publications > 0
    /\ published' = unread /\ fresh' = TRUE
    /\ budget' = [budget EXCEPT !.publications = @ - 1]
    /\ UNCHANGED <<petVisible, windowVisible, scheduled, generation, sleeping, posted, actor>>

\* register_notification_updates: borrow_and_update, then the getter is posted.
ReadPublished ==
    /\ fresh /\ actor["task"].pc = "idle"
    /\ fresh' = FALSE
    /\ actor' = [actor EXCEPT !["task"] = [Resting EXCEPT !.pc = "asked", !.unread = published]]
    /\ posted' = Append(posted, Message("is_visible", 0))
    /\ UNCHANGED <<published, petVisible, windowVisible, scheduled, generation, sleeping, budget>>

\* sync_notification_window from here on, in steps, by either thread.
Heading(at, pc, plan) == [at EXCEPT !.pc = pc, !.plan = plan]
Goto(a, pc) == actor' = [actor EXCEPT ![a] = [actor[a] EXCEPT !.pc = pc]]

\* schedule_hide: nothing if a hide is scheduled already.
ScheduleHide(a) ==
    IF scheduled THEN actor' = [actor EXCEPT ![a] = Resting] /\ UNCHANGED scheduled
                 ELSE /\ scheduled' = TRUE
                      /\ actor' = [actor EXCEPT ![a] = Heading(actor[a], "number", "schedule")]

Decide(a) ==
    /\ actor[a].pc = "decide"
    /\ LET action == SyncAction(actor[a].unread, actor[a].plan = "visible") IN
       IF action = "schedule"
          THEN ScheduleHide(a)
          ELSE /\ actor' = [actor EXCEPT ![a] = Heading(actor[a], "swap", action)]
               /\ UNCHANGED scheduled
    /\ UNCHANGED <<published, fresh, petVisible, windowVisible, generation, sleeping, posted, budget>>

NumberHide(a) ==
    /\ actor[a].pc = "number"
    /\ generation' = generation + 1
    /\ sleeping' = sleeping \cup {generation + 1}
    /\ actor' = [actor EXCEPT ![a] = Resting]
    /\ UNCHANGED <<published, fresh, petVisible, windowVisible, scheduled, posted, budget>>

\* Mutant of SwapFlag: a sync that has no hide to cancel ends there.
SwapFlagOrRest(a) ==
    /\ actor[a].pc = "swap"
    /\ scheduled' = FALSE
    /\ actor' = [actor EXCEPT ![a] = IF scheduled THEN [@ EXCEPT !.pc = "renumber"] ELSE Resting]
    /\ UNCHANGED <<published, fresh, petVisible, windowVisible, generation, sleeping, posted, budget>>

\* cancel_scheduled_hide: swap the flag, then renumber if it was set.
SwapFlag(a) ==
    /\ actor[a].pc = "swap"
    /\ scheduled' = FALSE
    /\ Goto(a, IF scheduled THEN "renumber" ELSE "finish")
    /\ UNCHANGED <<published, fresh, petVisible, windowVisible, generation, sleeping, posted, budget>>

Renumber(a) ==
    /\ actor[a].pc = "renumber"
    /\ generation' = generation + 1
    /\ Goto(a, "finish")
    /\ UNCHANGED <<published, fresh, petVisible, windowVisible, scheduled, sleeping, posted, budget>>

\* The window calls of the task reach the window as messages, in order.
Finish(a) ==
    /\ actor[a].pc = "finish"
    /\ actor' = [actor EXCEPT ![a] = Resting]
    /\ IF a = "task"
          THEN /\ posted' = Append(posted, Message(actor[a].plan, 0))
               /\ UNCHANGED windowVisible
          ELSE /\ windowVisible' = CASE actor[a].plan = "show" -> TRUE
                                     [] actor[a].plan = "hide" -> FALSE
                                     [] OTHER -> windowVisible
               /\ UNCHANGED posted
    /\ UNCHANGED <<published, fresh, petVisible, scheduled, generation, sleeping, budget>>

-------------------------------------------------------------------------------
\* The delay of a hide elapses; a hide that is no longer current ends here.
DelayElapses(g) ==
    /\ g \in sleeping
    /\ sleeping' = sleeping \ {g}
    /\ posted' = IF HideIsCurrent(g) THEN Append(posted, Message("due", g)) ELSE posted
    /\ UNCHANGED <<published, fresh, petVisible, windowVisible, scheduled, generation, actor, budget>>

\* The main thread takes the next message.
RunMessage ==
    /\ actor["main"].pc = "idle" /\ posted # <<>>
    /\ posted' = Tail(posted)
    /\ LET m == Head(posted) IN
       /\ windowVisible' = CASE m.kind = "show" -> TRUE
                             [] m.kind = "hide" -> FALSE
                             [] OTHER -> windowVisible
       /\ actor' = CASE m.kind = "is_visible" ->
                          [actor EXCEPT !["task"] =
                              Heading(actor["task"], "decide", IF petVisible THEN "visible" ELSE "hidden")]
                     [] m.kind = "due" ->
                          [actor EXCEPT !["main"] = [Resting EXCEPT !.pc = "due", !.gen = m.gen]]
                     [] OTHER -> actor
    /\ UNCHANGED <<published, fresh, petVisible, scheduled, generation, sleeping, budget>>

\* The closure of a hide that is due: is it current, are there cards, hide.
CheckDue ==
    /\ actor["main"].pc = "due"
    /\ actor' = [actor EXCEPT !["main"] =
          IF HideIsCurrent(actor["main"].gen) THEN [actor["main"] EXCEPT !.pc = "count"] ELSE Resting]
    /\ UNCHANGED <<published, fresh, petVisible, windowVisible, scheduled, generation,
                   sleeping, posted, budget>>

HideUnlessUnread == windowVisible' = (windowVisible /\ published > 0)

HideDue ==
    /\ actor["main"].pc = "count"
    /\ HideUnlessUnread
    /\ Goto("main", "swap")
    /\ UNCHANGED <<published, fresh, petVisible, scheduled, generation, sleeping, posted, budget>>

-------------------------------------------------------------------------------
\* A sync on the main thread: its getter is answered at once.
SyncOnMain(visible) ==
    [actor EXCEPT !["main"] = [Resting EXCEPT !.pc = "decide", !.unread = published,
                                           !.plan = IF visible THEN "visible" ELSE "hidden"]]

\* The update task acts on what it was told about the pet before this toggle.
Crossed ==
    \/ budget.crossed \/ actor["task"].pc \notin {"idle", "asked"}
    \/ \E i \in DOMAIN posted : posted[i].kind \in {"show", "hide"}

ShowPet ==
    /\ actor["main"].pc = "idle" /\ ~petVisible /\ budget.toggles > 0
    /\ petVisible' = TRUE
    /\ actor' = SyncOnMain(TRUE)
    /\ budget' = [budget EXCEPT !.toggles = @ - 1, !.crossed = Crossed]
    /\ UNCHANGED <<published, fresh, windowVisible, scheduled, generation, sleeping, posted>>

\* hide_pet_window cancels a scheduled hide and hides the window itself.
HidePet ==
    /\ actor["main"].pc = "idle" /\ petVisible /\ budget.toggles > 0
    /\ petVisible' = FALSE
    /\ actor' = [actor EXCEPT !["main"] = [Resting EXCEPT !.pc = "swap", !.plan = "hide"]]
    /\ budget' = [budget EXCEPT !.toggles = @ - 1, !.crossed = Crossed]
    /\ UNCHANGED <<published, fresh, windowVisible, scheduled, generation, sleeping, posted>>

\* CloseRequested is refused and the window is synchronized instead.
CloseWindow ==
    /\ actor["main"].pc = "idle" /\ windowVisible /\ budget.closes > 0
    /\ actor' = SyncOnMain(petVisible)
    /\ budget' = [budget EXCEPT !.closes = @ - 1]
    /\ UNCHANGED <<published, fresh, petVisible, windowVisible, scheduled, generation, sleeping, posted>>

-------------------------------------------------------------------------------
\* The pet is visible and the main thread synchronizes once at startup.
WindowInit ==
    /\ published = 0 /\ fresh = FALSE
    /\ petVisible = TRUE /\ windowVisible = FALSE
    /\ scheduled = FALSE /\ generation = 0 /\ sleeping = {} /\ posted = <<>>
    /\ actor = [task |-> Resting,
                main |-> [Resting EXCEPT !.pc = "decide", !.plan = "visible"]]
    /\ budget = [publications |-> MaxPublications, toggles |-> MaxToggles, closes |-> MaxCloses,
                crossed |-> FALSE]

WindowNext ==
    \/ \E unread \in 0 .. 1 : Publish(unread)
    \/ ReadPublished
    \/ \E a \in {"task", "main"} :
          Decide(a) \/ NumberHide(a) \/ SwapFlag(a) \/ Renumber(a) \/ Finish(a)
    \/ \E g \in sleeping : DelayElapses(g)
    \/ RunMessage \/ CheckDue \/ HideDue
    \/ ShowPet \/ HidePet \/ CloseWindow

WindowSpec == WindowInit /\ [][WindowNext]_windowVars

-------------------------------------------------------------------------------
(***************************************************************************)
(* What the window promises once nothing is under way.                     *)
(***************************************************************************)
Settled ==
    /\ ~fresh /\ sleeping = {} /\ posted = <<>>
    /\ \A a \in {"task", "main"} : actor[a].pc = "idle"

\* A card is never left in a hidden window, nor the window beside a hidden pet: a
\* delayed hide that is due while the card arrives does not win, nor does what the
\* user's hiding and showing of the pet leave scheduled, as long as no toggle falls
\* between the task's look at the pet and its call on the window.
CardsAreVisible ==
    Settled /\ ~budget.crossed =>
        /\ published > 0 /\ petVisible => windowVisible
        /\ ~petVisible => ~windowVisible

===============================================================================
