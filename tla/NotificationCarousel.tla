------------------------- MODULE NotificationCarousel -------------------------
(***************************************************************************)
(* The card stack of the notification page                                 *)
(* (lili-ui/src/notification_carousel.rs).                                 *)
(*                                                                         *)
(* A card is the number of its arrival, so the display order (time, then   *)
(* identifier) is the order of the numbers.  The page sees the published   *)
(* cards with a delay, keeps a window of two of them, and animates moves   *)
(* and exits.                                                              *)
(***************************************************************************)
EXTENDS Integers, Sequences, FiniteSets, SequencesExt, FiniteSetsExt

CONSTANT MaxCards  \* bound on the cards that ever arrive

VARIABLES
    arrived,  \* number of cards that have arrived
    shown,    \* cards of the published presentation
    page,     \* NotificationCarouselState
    reduced,  \* reduced_motion
    sliding,  \* cards of the page whose CSS transition of "top" is running
    closing   \* cards whose dismissal request is under way

carouselVars == <<arrived, shown, page, reduced, sliding, closing>>

ASSUME CarouselAssumption == MaxCards \in Nat

Card == 1 .. MaxCards
NoIndex == -1

-------------------------------------------------------------------------------
AtMost(a, b) == IF a < b THEN a ELSE b
AtLeast(a, b) == IF a > b THEN a ELSE b
LastStart(cards) == LET n == Cardinality(cards) IN IF n > 2 THEN n - 2 ELSE 0

\* Position of a card in ordered_ids, from 0.
IndexOf(id, cards) == Cardinality({c \in cards : c < id})

\* role_for_index, and visual_for with a survivor that keeps its slot.
RoleAt(index, p) ==
    LET start == AtMost(p.start, LastStart(p.cards)) IN
    CASE Cardinality(p.cards) = 1 /\ index = start -> "bottom"
      [] Cardinality(p.cards) # 1 /\ index = start -> "top"
      [] index = start + 1 -> "bottom"
      [] index = start - 1 -> "top behind"
      [] index = start + 2 -> "bottom behind"
      [] OTHER -> "hidden"
Role(id, p) ==
    IF Cardinality(p.cards) = 1 /\ \E x \in p.exiting : x.keeps
       THEN "top" ELSE RoleAt(IndexOf(id, p.cards), p)

VisibleCount(p) == AtMost(Cardinality(p.cards) + Cardinality(p.exiting), 2)

-------------------------------------------------------------------------------
\* Every change of the page goes through here: cards whose role changed slide,
\* unless motion is reduced.
ShowOver(p, slides) ==
    /\ page' = p
    /\ sliding' = {id \in page'.cards : id \in slides \/
                     (id \in page.cards /\ Role(id, page') # Role(id, page) /\ ~reduced)}
Show(p) == ShowOver(p, sliding)

\* take_focus_return_if_settled
FocusReturned(p) ==
    IF p.refocus /\ p.cards = {} /\ p.exiting = {} THEN [p EXCEPT !.refocus = FALSE] ELSE p

\* The window after an update: one removal keeps it in place, anything else
\* moves it to the newest cards.
WindowAfter(p, next) ==
    LET gone == {c \in p.cards : next = p.cards \ {c}} IN
    IF gone = {} THEN LastStart(next)
    ELSE LET i == IndexOf(CHOOSE c \in gone : TRUE, p.cards)
             start == AtMost(p.start, LastStart(p.cards)) IN
         AtMost(IF i <= start THEN AtLeast(start - 1, 0) ELSE start, LastStart(next))

\* NotificationCarouselState::reconcile
Reconciled(p, next) ==
    LET start == WindowAfter(p, next)
        kept == {c \in p.cards \cap next : /\ IndexOf(c, p.cards) = p.fore
                                           /\ IndexOf(c, next) \in start .. start + 1} IN
    [cards |-> next, start |-> start,
     fore |-> IF next = {} THEN NoIndex
              ELSE IF kept = {} THEN start
              ELSE IndexOf(CHOOSE c \in kept : TRUE, next),
     target |-> NoIndex, moves |-> 0, moving |-> "no",
     exiting |-> p.exiting,
     reflowing |-> p.reflowing /\ Cardinality(next) = 1,
     refocus |-> p.refocus /\ next = {}]

\* queue_exiting keeps the first entry of an identifier; a card that is back is
\* taken out, and with reduced motion nothing is queued.
Queued(exiting, leaving, next) ==
    {x \in exiting : x.id \notin next}
      \cup IF reduced THEN {} ELSE {x \in leaving : \A y \in exiting : y.id # x.id}

\* NotificationCarouselController::reconcile: a visible card that went away
\* exits where it was; one that came back stops exiting.
ReceiveCards(next) ==
    LET leaving == {[id |-> c, keeps |-> VisibleCount(page) = 2 /\ Role(c, page) = "bottom"] :
                      c \in {d \in page.cards \ next : Role(d, page) \in {"top", "bottom"}}}
        p == Reconciled(page, next) IN
    /\ page.cards # next
    /\ Show(FocusReturned([p EXCEPT !.exiting = Queued(@, leaving, next)]))

PageReceives ==
    /\ ReceiveCards(shown)
    /\ UNCHANGED <<arrived, shown, reduced, closing>>

\* Mutant of CardExit: the focus is returned only by the next update.
CardExitKeepingFocus(p, id) ==
    LET survives == Cardinality(p.cards) = 1 /\ \E x \in p.exiting : x.id = id /\ x.keeps
        rest == {x \in p.exiting : x.id # id} IN
    [p EXCEPT !.exiting = rest,
              !.reflowing = @ \/ (survives /\ \A x \in rest : ~x.keeps)]

\* finish_exit
CardExit(p, id) ==
    LET survives == Cardinality(p.cards) = 1 /\ \E x \in p.exiting : x.id = id /\ x.keeps
        rest == {x \in p.exiting : x.id # id} IN
    FocusReturned([p EXCEPT !.exiting = rest,
                            !.reflowing = @ \/ (survives /\ \A x \in rest : ~x.keeps)])

AnimationEnd(id) ==
    /\ \E x \in page.exiting : x.id = id
    /\ Show(CardExit(page, id))
    /\ UNCHANGED <<arrived, shown, reduced, closing>>

-------------------------------------------------------------------------------
\* move_window_to
MovedTo(p, target) ==
    CASE target = p.start ->
           IF p.fore = NoIndex /\ p.cards # {} THEN [p EXCEPT !.fore = target] ELSE p
      [] target < p.start -> [p EXCEPT !.fore = p.start, !.start = target]
      [] OTHER -> [p EXCEPT !.fore = target, !.start = target]

\* next_target and begin_next_move: a focused card first, then one wheel move;
\* nothing moves while the previous move is under way.
Target(p) ==
    AtMost(IF p.target # NoIndex THEN p.target ELSE AtLeast(p.start + p.moves, 0),
           LastStart(p.cards))
Pending(p) == p.target # NoIndex \/ p.moves # 0
Advanced(p) ==
    IF p.moving = "running" \/ ~Pending(p) THEN p
    ELSE LET q == MovedTo([p EXCEPT !.target = NoIndex, !.moves = 0], Target(p)) IN
         [q EXCEPT !.moving = IF q.start # p.start THEN "running" ELSE @]

\* jump_to_pending
Jumped(p) ==
    IF Pending(p) THEN MovedTo([p EXCEPT !.target = NoIndex, !.moves = 0, !.moving = "no"], Target(p))
                  ELSE [p EXCEPT !.moving = "no"]
Processed(p) == IF reduced THEN Jumped(p) ELSE Advanced(p)

\* record_wheel, once the distance reaches the trigger outside of the lock: one
\* pending move, the last one asked for.
MovedByWheel(p, direction) == [p EXCEPT !.moves = direction]

\* handle_wheel
Wheel(direction) ==
    /\ Show(Processed(MovedByWheel(page, direction)))
    /\ UNCHANGED <<arrived, shown, reduced, closing>>

\* focus_notification: a card outside of the window is brought into it.
FocusCard(id) ==
    LET i == IndexOf(id, page.cards) IN
    /\ id \in page.cards /\ i \notin page.start .. page.start + 1
    /\ Show(Processed([page EXCEPT !.target = AtMost(AtLeast(i - 1, 0), LastStart(page.cards))]))
    /\ UNCHANGED <<arrived, shown, reduced, closing>>

\* TRANSITION_DURATION_MS passes.
MoveIsDue ==
    /\ page.moving = "running"
    /\ page' = [page EXCEPT !.moving = "due"]
    /\ UNCHANGED <<arrived, shown, reduced, sliding, closing>>

\* Mutant of SlideFinished: a finished move does not start the pending one.
SlideFinishedOnly(p) ==
    LET q == [p EXCEPT !.reflowing = FALSE] IN
    IF p.moving = "due" THEN [q EXCEPT !.moving = "no"] ELSE q

\* handle_transition_end
SlideFinished(p) ==
    LET q == [p EXCEPT !.reflowing = FALSE] IN
    IF p.moving = "due" THEN Processed([q EXCEPT !.moving = "no"]) ELSE q

\* The transitions of a move last as long as the move.
TransitionEnd ==
    /\ sliding # {} /\ page.moving # "running"
    /\ ShowOver(SlideFinished(page), {})
    /\ UNCHANGED <<arrived, shown, reduced, closing>>

\* settle_motion, when the reduced-motion preference turns on.
ReduceMotion ==
    /\ ~reduced
    /\ reduced' = TRUE
    /\ ShowOver(FocusReturned([Jumped(page) EXCEPT !.exiting = {}, !.reflowing = FALSE]), {})
    /\ UNCHANGED <<arrived, shown, closing>>

-------------------------------------------------------------------------------
\* The dismiss button: prepare_exit, then the request.
Dismiss(id, keyboard) ==
    /\ id \in page.cards \ closing
    /\ page' = [page EXCEPT !.refocus = keyboard /\ page.cards = {id}]
    /\ closing' = closing \cup {id}
    /\ UNCHANGED <<arrived, shown, reduced, sliding>>

DismissSucceeds(id) ==
    /\ id \in closing \cap shown
    /\ shown' = shown \ {id}
    /\ closing' = closing \ {id}
    /\ UNCHANGED <<arrived, page, reduced, sliding>>

\* cancel_pending_exit
DismissFails(id) ==
    /\ id \in closing
    /\ closing' = closing \ {id}
    /\ page' = [page EXCEPT !.refocus = @ /\ page.cards # {id}]
    /\ UNCHANGED <<arrived, shown, reduced, sliding>>

\* A card arrives, perhaps in the place of an earlier one of its session, or one
\* goes away; the presentation is published.
Present(cards, count) ==
    /\ arrived' = count /\ shown' = cards
    /\ UNCHANGED <<page, reduced, sliding, closing>>
Arrive(replaced) ==
    /\ arrived < MaxCards /\ replaced \subseteq shown /\ Cardinality(replaced) <= 1
    /\ Present((shown \ replaced) \cup {arrived + 1}, arrived + 1)
Withdraw(id) == id \in shown /\ Present(shown \ {id}, arrived)

-------------------------------------------------------------------------------
\* NotificationCarouselState::new: the page loads with the cards there are.
CarouselInit ==
    \E count \in 0 .. MaxCards :
        LET start == LastStart(1 .. count) IN
        /\ arrived = count /\ shown = 1 .. count
        /\ page = [cards |-> 1 .. count, start |-> start,
                   fore |-> IF count = 0 THEN NoIndex ELSE start,
                   target |-> NoIndex, moves |-> 0, moving |-> "no",
                   exiting |-> {}, reflowing |-> FALSE, refocus |-> FALSE]
        /\ reduced = FALSE /\ sliding = {} /\ closing = {}

\* What the page and the browser do on their own.
CarouselProgress == PageReceives \/ (\E id \in Card : AnimationEnd(id)) \/ MoveIsDue \/ TransitionEnd

CarouselNext ==
    \/ CarouselProgress
    \/ \E direction \in {-1, 1} : Wheel(direction)
    \/ \E id \in Card : FocusCard(id) \/ DismissSucceeds(id) \/ DismissFails(id) \/ Withdraw(id)
    \/ \E id \in Card, keyboard \in BOOLEAN : Dismiss(id, keyboard)
    \/ \E replaced \in SUBSET Card : Arrive(replaced)
    \/ ReduceMotion

CarouselSpec ==
    /\ CarouselInit /\ [][CarouselNext]_carouselVars
    /\ WF_carouselVars(PageReceives)
    /\ WF_carouselVars(\E id \in Card : AnimationEnd(id))
    /\ WF_carouselVars(MoveIsDue \/ TransitionEnd)

-------------------------------------------------------------------------------
(***************************************************************************)
(* What the card stack promises.                                           *)
(***************************************************************************)
\* Cards on their way out, or a focus that waits for the last of them.
Leaving == page.exiting # {} \/ (page.refocus /\ page.cards = {})

Still == ~Leaving /\ ~Pending(page) /\ page.moving # "running"

\* Cards leave and the focus returns to the pet after the last one, whatever
\* arrives, is withdrawn or loses its animation on the way; and a move that was
\* asked for during another one runs, however often the user turns the wheel.
CarouselComesToRest ==
    /\ Leaving ~> ~Leaving
    /\ Pending(page) ~> ~Pending(page)

===============================================================================
