---------------------------- MODULE PetInteraction ----------------------------
(***************************************************************************)
(* The pet under the pointer: the pointer tracker, the click               *)
(* disambiguator, the animation controller and the clock that polls them   *)
(* (lili-ui/src/lib.rs), on the desktop and in the preview of the          *)
(* appearance page, which puts the same parts together otherwise           *)
(* (AppearancePreviewController, appearance.rs).                           *)
(*                                                                         *)
(* A position is near the press or at the drag distance, a velocity its    *)
(* direction.  Frames, gaze and the window that follows the drag are left  *)
(* out.  Time starts at 1; 0 stands for none.  In the preview's sprite     *)
(* browser there is no pet to point at and no tick reaches this state: it  *)
(* is the one after a reset, and the way out of it is another reset.       *)
(***************************************************************************)
EXTENDS Integers

CONSTANTS
    DoubleClickDelay, WaveDuration, JumpDuration, DragHold,
    MaxTime, MaxPresses, MaxLifecycles   \* bounds

ASSUME InteractionAssumption ==
    /\ {DoubleClickDelay, WaveDuration, JumpDuration, DragHold} \subseteq Nat \ {0}
    /\ MaxTime \in Nat /\ MaxPresses \in Nat /\ MaxLifecycles \in Nat

VARIABLES
    surface,  \* the desktop pet or its preview
    moment,   \* animation_clock_ms
    pointer,  \* PointerTracker
    pending,  \* ClickDisambiguator::pending_single_at_ms
    sprite,   \* AnimationController
    answered, \* history: clicks released, withdrawn, lost by a reset, taken as single, as double
    missed,   \* history: a click came before the clock polled the one before it
    gesture   \* history: presses, lifecycles, and whether this gesture went far

interactionVars == <<surface, moment, pointer, pending, sprite, answered, missed, gesture>>

Pressed == [pressed |-> TRUE, dragging |-> FALSE]
Released == [pressed |-> FALSE, dragging |-> FALSE]
NoAnimation == [kind |-> "none", until |-> 0]
NewSprite == [lifecycle |-> "idle", temporary |-> NoAnimation, drag |-> NoAnimation,
              selected |-> "idle"]
IsUrgent(lifecycle) == lifecycle \in {"waiting", "failed"}

-------------------------------------------------------------------------------
\* refresh_selected
Refreshed(s) ==
    [s EXCEPT !.selected =
        IF IsUrgent(s.lifecycle) THEN s.lifecycle
        ELSE IF s.drag.kind # "none" THEN s.drag.kind
        ELSE IF s.temporary.kind # "none" THEN s.temporary.kind
        ELSE s.lifecycle]

\* trigger
Triggered(s, kind, duration, at) ==
    IF IsUrgent(s.lifecycle) THEN s
    ELSE Refreshed([s EXCEPT !.temporary = [kind |-> kind, until |-> at + duration]])
Waves(s, at) == Triggered(s, "waving", WaveDuration, at)
Jumps(s, at) == Triggered(s, "jumping", JumpDuration, at)

\* set_drag_velocity and hold_drag_velocity: the preview keeps the direction until
\* the release, a slow move of the desktop pet changes nothing.
Dragged(s, direction) ==
    IF IsUrgent(s.lifecycle) THEN Refreshed([s EXCEPT !.drag = NoAnimation])
    ELSE LET until == IF surface = "preview" THEN 0 ELSE moment + DragHold IN
         Refreshed([s EXCEPT !.drag =
            IF direction # "none" THEN [kind |-> direction, until |-> until]
            ELSE IF surface = "preview" THEN [@ EXCEPT !.until = 0] ELSE @])

DragEnded(s) == Refreshed([s EXCEPT !.drag = NoAnimation])

\* set_lifecycle
LifecycleSet(s, lifecycle) ==
    Refreshed([s EXCEPT !.lifecycle = lifecycle,
                        !.temporary = IF IsUrgent(lifecycle) THEN NoAnimation ELSE @])

\* render_mode: what has expired goes.
Rendered(s, at) ==
    Refreshed([s EXCEPT
        !.temporary = IF @.kind # "none" /\ at >= @.until THEN NoAnimation ELSE @,
        !.drag = IF @.until # 0 /\ at >= @.until THEN NoAnimation ELSE @])

-------------------------------------------------------------------------------
\* pointerdown; a press whose release never came is forgotten.
Press ==
    /\ gesture.presses < MaxPresses
    /\ pointer' = Pressed
    /\ gesture' = [gesture EXCEPT !.presses = @ + 1, !.far = FALSE]
    /\ UNCHANGED <<surface, moment, pending, sprite, answered, missed>>

\* Mutant of Dragging: only where the pointer is now counts.
DraggingHere(far) == far

\* move_to: once the drag distance is reached the gesture stays a drag.
Dragging(far) == pointer.dragging \/ far

\* pointermove.  With reduced motion the desktop pet does not run; the preview
\* gives up the pending click.
Move(far, direction, reduced) ==
    /\ pointer.pressed
    /\ pointer' = [pointer EXCEPT !.dragging = Dragging(far)]
    /\ gesture' = [gesture EXCEPT !.far = @ \/ far]
    /\ sprite' = IF pointer'.dragging /\ ~(reduced /\ surface = "pet")
                    THEN Dragged(sprite, direction) ELSE sprite
    /\ IF pointer'.dragging /\ surface = "preview" /\ pending # 0
       THEN pending' = 0 /\ answered' = [answered EXCEPT !.withdrawn = @ + 1]
       ELSE UNCHANGED <<pending, answered>>
    /\ UNCHANGED <<surface, moment, missed>>

\* ClickDisambiguator::release: the second click in time makes both a double
\* click; a late one takes the place of the first.
Clicked ==
    IF pending # 0 /\ moment - pending <= DoubleClickDelay
    THEN /\ pending' = 0
         /\ sprite' = Jumps(DragEnded(sprite), moment)
         /\ answered' = [answered EXCEPT !.released = @ + 1, !.double = @ + 1]
         /\ UNCHANGED missed
    ELSE /\ pending' = moment
         /\ sprite' = DragEnded(sprite)
         /\ answered' = [answered EXCEPT !.released = @ + 1]
         /\ missed' = (missed \/ pending # 0)

\* The end of a drag or of a cancelled gesture.
Dropped ==
    /\ sprite' = DragEnded(sprite)
    /\ IF surface = "preview" /\ pending # 0
       THEN pending' = 0 /\ answered' = [answered EXCEPT !.withdrawn = @ + 1]
       ELSE UNCHANGED <<pending, answered>>
    /\ UNCHANGED missed

Release(cancelled) ==
    /\ pointer.pressed
    /\ pointer' = Released
    /\ IF cancelled \/ pointer.dragging THEN Dropped ELSE Clicked
    /\ UNCHANGED <<surface, moment, gesture>>

\* Enter or space: a wave, in the preview instead of a pending click.
PressKey ==
    /\ sprite' = Waves(sprite, moment)
    /\ IF surface = "preview" /\ pending # 0
       THEN pending' = 0 /\ answered' = [answered EXCEPT !.withdrawn = @ + 1]
       ELSE UNCHANGED <<pending, answered>>
    /\ UNCHANGED <<surface, moment, pointer, missed, gesture>>

\* A presentation arrives; the preview has no lifecycle.
ArriveLifecycle(lifecycle) ==
    /\ surface = "pet" /\ gesture.lifecycles < MaxLifecycles /\ lifecycle # sprite.lifecycle
    /\ sprite' = LifecycleSet(sprite, lifecycle)
    /\ gesture' = [gesture EXCEPT !.lifecycles = @ + 1]
    /\ UNCHANGED <<surface, moment, pointer, pending, answered, missed>>

Due(at) == pending # 0 /\ at - pending > DoubleClickDelay

\* The clock of the page: poll, then render.  The desktop reads the time, late or
\* not; the preview's time is the sum of its ticks.
Poll(at) ==
    /\ at = IF surface = "pet" THEN moment ELSE moment + 1
    /\ moment' = at
    /\ IF Due(at)
       THEN /\ pending' = 0
            /\ sprite' = Rendered(Waves(sprite, at), at)
            /\ answered' = [answered EXCEPT !.single = @ + 1]
       ELSE /\ sprite' = Rendered(sprite, at)
            /\ UNCHANGED <<pending, answered>>
    /\ UNCHANGED <<surface, pointer, missed, gesture>>

Pass ==
    /\ surface = "pet" /\ moment < MaxTime
    /\ moment' = moment + 1
    /\ UNCHANGED <<surface, pointer, pending, sprite, answered, missed, gesture>>

\* Mutant of Reset: the clicks are kept, though their clock starts again.
ResetKeepsClicks ==
    /\ surface = "preview"
    /\ moment' = 1 /\ pointer' = Released /\ sprite' = NewSprite
    /\ UNCHANGED <<surface, pending, answered, missed, gesture>>

\* select, select_sprite and restart: a scene, the sprite browser or another selected
\* pet, also one chosen in the tray, puts a new controller in the place of the
\* preview's; a press in progress and a pending click are lost with the old one.
Reset ==
    /\ surface = "preview"
    /\ moment' = 1 /\ pointer' = Released /\ pending' = 0 /\ sprite' = NewSprite
    /\ answered' = IF pending # 0 THEN [answered EXCEPT !.lost = @ + 1] ELSE answered
    /\ UNCHANGED <<surface, missed, gesture>>

-------------------------------------------------------------------------------
InteractionInit ==
    /\ surface \in {"pet", "preview"} /\ moment = 1
    /\ pointer = Released /\ pending = 0
    /\ sprite = NewSprite
    /\ answered = [released |-> 0, withdrawn |-> 0, lost |-> 0, single |-> 0, double |-> 0]
    /\ missed = FALSE /\ gesture = [presses |-> 0, lifecycles |-> 0, far |-> FALSE]

InteractionNext ==
    \/ Press \/ PressKey \/ Pass \/ Reset
    \/ \E at \in 1 .. MaxTime : Poll(at)
    \/ \E far, reduced \in BOOLEAN, direction \in {"none", "left", "right"} :
          Move(far, direction, reduced)
    \/ \E cancelled \in BOOLEAN : Release(cancelled)
    \/ \E lifecycle \in {"idle", "review", "waiting"} : ArriveLifecycle(lifecycle)

InteractionSpec == InteractionInit /\ [][InteractionNext]_interactionVars

-------------------------------------------------------------------------------
\* Every click that was no drag is answered once, alone or with a second one, is
\* withdrawn, or still pending, as long as the clock polls in time, as the preview's
\* always does; only a reset of the preview loses one.  None is answered twice, and none
\* outlives the clock it was stamped by, which would keep it from being polled.
\* A gesture that ever reached the drag distance is none.
ClicksAnswered ==
    LET counted == answered.single + 2 * answered.double + answered.withdrawn + answered.lost
                     + (IF pending # 0 THEN 1 ELSE 0) IN
    /\ IF surface = "preview" THEN ~missed ELSE answered.lost = 0
    /\ IF missed THEN counted < answered.released ELSE counted = answered.released
    /\ pending <= moment
    /\ pointer.pressed => pointer.dragging = gesture.far

===============================================================================
