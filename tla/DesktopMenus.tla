----------------------------- MODULE DesktopMenus -----------------------------
(***************************************************************************)
(* The tray menu and the context menu of the pet.  Handlers of the tray,   *)
(* of the menu page and of the windows run on the main thread, one at a    *)
(* time; a selection made in the tray blocks that thread until the state   *)
(* is saved and published.  The pages select pets through the server, on   *)
(* other threads, and one task keeps the check marks in step: it waits for *)
(* a publication, reads the selection and sets each mark, and every mark   *)
(* it sets waits for the main thread.                                      *)
(*                                                                         *)
(* The check items toggle themselves when they are clicked, before the     *)
(* handler runs: update_always_on_top reads the mark as the new value.     *)
(***************************************************************************)
EXTENDS Integers

CONSTANTS
    Choosable,       \* the pets a page can select
    Item,            \* the pets the tray was built with
    NativeTime,      \* bound: times of native gestures
    Budgets          \* bound: what a user does in one behaviour: how many selections on
                     \* the pages (turns) and in the tray (clicks), gestures that open the
                     \* context menu, and actions on the pet's window

ASSUME MenuAssumption ==
    /\ Item \subseteq Choosable /\ NativeTime \subseteq Nat \ {0}
    /\ Budgets \subseteq [turns : Nat, clicks : Nat, gestures : Nat, window : Nat]

VARIABLES
    tray,     \* the check marks: pets, "Show" and "Always on Top"
    desk,     \* the pet's window, its setting and the selected pet
    news,     \* publications: how many are visible, how many are on their way
    updater,  \* the task that keeps the marks of the pets
    handler,  \* the tray selection that holds the main thread
    menu,     \* the context menu's window and its queue of one request
    budget    \* what the user still does

menuVars == <<tray, desk, news, updater, handler, menu, budget>>

NoPet == 0
NoRequest == -1
\* A gesture seen by the page has no native time; None sorts before every Some.
PageTime == 0

HandlerIdle == [step |-> "idle", pet |-> NoPet]
\* The main thread is free.
MainFree == handler.step = "idle"

-------------------------------------------------------------------------------
\* setup_tray marks the selected pet, and register_notification_updates has
\* subscribed and synchronised the marks once before the task starts.
MenusInit ==
    /\ \E p \in Choosable :
          /\ desk = [shown |-> TRUE, top |-> TRUE, setting |-> TRUE, selected |-> p]
          /\ tray = [pets |-> {p} \cap Item, shown |-> TRUE, top |-> TRUE, doubtful |-> FALSE]
    /\ news = [version |-> 0, due |-> 0, settings |-> {}]
    /\ updater = [step |-> "wait", seen |-> 0, pet |-> NoPet, left |-> {}]
    /\ handler = HandlerIdle
    /\ menu = [ready |-> FALSE, pending |-> NoRequest, visible |-> FALSE, latest |-> 0,
               wanted |-> FALSE]
    /\ budget \in Budgets

Spend(kind) == budget[kind] > 0 /\ budget' = [budget EXCEPT ![kind] = @ - 1]

-------------------------------------------------------------------------------
\* A page's selection: the state changes, and its publication follows.
SelectOnPage(p) ==
    /\ Spend("turns")
    /\ desk' = [desk EXCEPT !.selected = p]
    /\ news' = [news EXCEPT !.due = @ + 1]
    /\ UNCHANGED <<tray, updater, handler, menu>>

PublishDue ==
    /\ news.due > 0
    /\ news' = [news EXCEPT !.due = @ - 1, !.version = @ + 1]
    /\ UNCHANGED <<tray, desk, updater, handler, menu, budget>>

\* The watch channel tells the task of a version it has not seen, and only of the
\* newest one.  The version is taken before the selection is read.
Seen == [updater EXCEPT !.step = "read", !.seen = news.version]
SeesNews ==
    /\ updater.step = "wait" /\ updater.seen < news.version
    /\ updater' = Seen
    /\ UNCHANGED <<tray, desk, news, handler, menu, budget>>

ReadsSelection ==
    /\ updater.step = "read"
    /\ updater' = [updater EXCEPT !.step = "set", !.pet = desk.selected, !.left = Item]
    /\ tray' = [tray EXCEPT !.doubtful = FALSE]
    /\ UNCHANGED <<desk, news, handler, menu, budget>>

\* sync_tray_pet_selection: each set_checked runs on the main thread.
Marked(p, on) == IF on THEN tray.pets \cup {p} ELSE tray.pets \ {p}
SetsMark ==
    /\ updater.step = "set" /\ MainFree
    /\ \E p \in updater.left :
          /\ tray' = [tray EXCEPT !.pets = Marked(p, p = updater.pet)]
          /\ updater' = [updater EXCEPT !.left = @ \ {p}]
    /\ UNCHANGED <<desk, news, handler, menu, budget>>

\* Mutant of EndOfRound: a round takes everything published meanwhile as seen.
EndOfRoundSeen == [updater EXCEPT !.step = "wait", !.pet = NoPet, !.seen = news.version]
EndOfRound == [updater EXCEPT !.step = "wait", !.pet = NoPet]
RoundEnds ==
    /\ updater.step = "set" /\ updater.left = {}
    /\ updater' = EndOfRound
    /\ UNCHANGED <<tray, desk, news, handler, menu, budget>>

-------------------------------------------------------------------------------
\* A pet chosen in the tray: its mark has toggled already.  The marks may disagree
\* with the selection until they are set again.
ClickTrayPet(p) ==
    /\ MainFree /\ Spend("clicks")
    /\ tray' = [tray EXCEPT !.pets = Marked(p, p \notin @), !.doubtful = TRUE]
    /\ handler' = [step |-> "select", pet |-> p]
    /\ UNCHANGED <<desk, news, updater, menu>>

TraySelects ==
    /\ handler.step = "select"
    /\ desk' = [desk EXCEPT !.selected = handler.pet]
    /\ handler' = [handler EXCEPT !.step = "publish"]
    /\ UNCHANGED <<tray, news, updater, menu, budget>>

\* The pet cannot be loaded or saved: the handler returns and leaves the marks.
TraySelectionFails ==
    /\ handler.step = "select"
    /\ handler' = HandlerIdle
    /\ UNCHANGED <<tray, desk, news, updater, menu, budget>>

TrayPublishes ==
    /\ handler.step = "publish"
    /\ news' = [news EXCEPT !.version = @ + 1]
    /\ handler' = [handler EXCEPT !.step = "mark"]
    /\ UNCHANGED <<tray, desk, updater, menu, budget>>

\* The marks, and the pet's window is shown.
TrayMarks ==
    /\ handler.step = "mark"
    /\ tray' = [tray EXCEPT !.pets = {handler.pet}, !.shown = TRUE, !.doubtful = FALSE]
    /\ desk' = [desk EXCEPT !.shown = TRUE]
    /\ handler' = HandlerIdle
    /\ UNCHANGED <<news, updater, menu, budget>>

-------------------------------------------------------------------------------
OnMain(hidesMenu) ==
    /\ MainFree /\ Spend("window")
    /\ menu' = IF hidesMenu THEN [menu EXCEPT !.visible = FALSE, !.wanted = FALSE] ELSE menu
    /\ UNCHANGED <<updater, handler>>

\* show_pet_window and hide_pet_window.
Appear(visible) ==
    /\ desk' = [desk EXCEPT !.shown = visible]
    /\ tray' = [tray EXCEPT !.shown = visible]
    /\ UNCHANGED news

\* "Show" in the tray or in the context menu; a click on the icon; a close request.
ShowPetWindow == \E fromMenu \in BOOLEAN : (fromMenu => menu.visible) /\ OnMain(fromMenu) /\ Appear(TRUE)
TogglePetWindow == OnMain(FALSE) /\ Appear(~desk.shown)
ClosePetWindow == desk.shown /\ OnMain(FALSE) /\ Appear(FALSE)

\* set_always_on_top; the setting is written by a task of its own.
KeepOnTop(enabled) ==
    /\ tray' = [tray EXCEPT !.top = enabled]
    /\ desk' = [desk EXCEPT !.top = enabled]
    /\ news' = [news EXCEPT !.settings = @ \cup {[id |-> budget.window, top |-> enabled]}]

\* The mark's new value from the tray, the opposite of the mark from the context menu.
TopFromTray == OnMain(FALSE) /\ LET mark == ~tray.top IN KeepOnTop(mark)
TopFromMenu == menu.visible /\ OnMain(TRUE) /\ KeepOnTop(~tray.top)

SettingSaved ==
    /\ \E s \in news.settings :
          /\ desk' = [desk EXCEPT !.setting = s.top]
          /\ news' = [news EXCEPT !.settings = @ \ {s}, !.due = @ + 1]
    /\ UNCHANGED <<tray, updater, handler, menu, budget>>

-------------------------------------------------------------------------------
\* A native gesture is accepted when it is newer than the last one (or has no time);
\* the page's own event always is.
AcceptedTime(time) == time = PageTime \/ time > menu.latest
Newest(time) == IF time > menu.latest THEN time ELSE menu.latest

\* The queue holds one request, and an older one does not replace it.
Queued(time) == IF menu.pending <= time THEN time ELSE menu.pending
Opened(time) ==
    IF menu.ready
    THEN [menu EXCEPT !.latest = Newest(time), !.visible = TRUE, !.wanted = TRUE]
    ELSE [menu EXCEPT !.latest = Newest(time), !.pending = Queued(time), !.wanted = TRUE]

OpenMenu(time) ==
    /\ MainFree /\ Spend("gestures")
    /\ menu' = IF AcceptedTime(time) THEN Opened(time) ELSE menu
    /\ UNCHANGED <<tray, desk, news, updater, handler>>

\* The menu's page has finished loading and takes the request that waited, unless a
\* newer gesture was seen.
MenuLoads ==
    /\ MainFree /\ ~menu.ready
    /\ menu' = [menu EXCEPT !.ready = TRUE, !.pending = NoRequest,
                            !.visible = menu.pending # NoRequest
                                        /\ (menu.pending = PageTime \/ menu.pending >= menu.latest)]
    /\ UNCHANGED <<tray, desk, news, updater, handler, budget>>

\* A primary press on the pet (dismiss_pet_context_menu).
\* Mutant of Cleared: a request that waits for the page stays.
ClearedNever == menu.pending
Cleared == NoRequest
DismissMenu ==
    /\ MainFree /\ menu.wanted
    /\ menu' = [menu EXCEPT !.pending = Cleared, !.visible = FALSE, !.wanted = FALSE]
    /\ UNCHANGED <<tray, desk, news, updater, handler, budget>>

\* The menu loses the focus, or is closed.
MenuBlurs ==
    /\ MainFree /\ menu.visible
    /\ menu' = [menu EXCEPT !.visible = FALSE, !.wanted = FALSE]
    /\ UNCHANGED <<tray, desk, news, updater, handler, budget>>

-------------------------------------------------------------------------------
UpdaterProgress == SeesNews \/ ReadsSelection \/ SetsMark \/ RoundEnds
HandlerProgress == TraySelects \/ TraySelectionFails \/ TrayPublishes \/ TrayMarks
PublicationProgress == PublishDue \/ SettingSaved

MenusNext ==
    \/ UpdaterProgress \/ HandlerProgress \/ PublicationProgress
    \/ \E p \in Choosable : SelectOnPage(p)
    \/ \E p \in Item : ClickTrayPet(p)
    \/ ShowPetWindow \/ TogglePetWindow \/ ClosePetWindow \/ TopFromTray \/ TopFromMenu
    \/ \E time \in {PageTime} \cup NativeTime : OpenMenu(time)
    \/ MenuLoads \/ DismissMenu \/ MenuBlurs

\* The runtime polls its tasks and the main thread runs what is queued for it.
MenusFairness ==
    /\ WF_menuVars(UpdaterProgress)
    /\ WF_menuVars(HandlerProgress)
    /\ WF_menuVars(PublicationProgress)

MenusSpec == MenusInit /\ [][MenusNext]_menuVars /\ MenusFairness

-------------------------------------------------------------------------------
(* A type invariant of the menus. *)
MenusTypeOK ==
    /\ tray.pets \subseteq Item /\ {tray.shown, tray.top, tray.doubtful} \subseteq BOOLEAN
    /\ desk.selected \in Choosable /\ {desk.shown, desk.top, desk.setting} \subseteq BOOLEAN
    /\ updater.seen <= news.version /\ updater.left \subseteq Item
    /\ handler.step \in {"idle", "select", "publish", "mark"}

(* What a menu shows is so: the marks of the tray are the state of the pet's
   window, and the context menu is on the screen only while its last gesture
   stands.  A request that waited for the page is cancelled by a press on the pet
   ("the pending request is cancelled and the menu remains closed after the
   WebView becomes ready"). *)
MenusTellTruth ==
    /\ tray.shown = desk.shown /\ tray.top = desk.top
    /\ menu.visible \/ menu.pending # NoRequest => menu.wanted

(* The marks of the tray come to rest on the selected pet, whoever selected last:
   the pages and the tray select concurrently, and the task works on a selection
   it read some steps before.  A tray selection that failed leaves a mark that
   stands until the next publication. *)
TrayFollowsSelection == <>[](tray.doubtful \/ tray.pets = {desk.selected} \cap Item)

===============================================================================
