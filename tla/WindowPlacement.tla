---------------------------- MODULE WindowPlacement ----------------------------
(***************************************************************************)
(* Where the pet is: the drag and its commit, the reachability check of    *)
(* every move, the notification window beside it (lili/src/lib.rs), and    *)
(* the placement that is saved in logical coordinates and resolved on the  *)
(* displays of the next start (lili-app-state/src/persistence.rs).         *)
(*                                                                         *)
(* One axis, the vertical one; the horizontal one has the same arithmetic  *)
(* but for the notification window, which is clamped there.  A display is  *)
(* its work area, in physical pixels, and its scale in thousandths.        *)
(***************************************************************************)
EXTENDS Integers, FiniteSets

CONSTANTS
    Arrangement,                 \* sets of displays that may be connected
    Point,                       \* where the pointer is, in logical pixels
    MaxDrags, MaxArrivals, MaxStarts  \* bounds

\* The window, the sprite centred in it, DEFAULT_VISIBLE_WINDOW_MARGIN (physical),
\* the notification window, its shadow, in logical pixels; the gap is 0.
PetSize == 360
SpriteSize == 208
Margin == 48
NoteSize == 158
Inset == 12

MinScale == 250 \* MIN_SCALE_MILLI

\* What DisplayWorkArea::new lets through; a display is known by its name.
ASSUME PlacementAssumption ==
    /\ \A ds \in Arrangement :
          /\ \A d \in ds : /\ d.start \in Int /\ d.length \in Nat /\ d.length > 0
                           /\ d.scale \in Nat /\ d.scale >= MinScale
          /\ \A d, e \in ds : d.id = e.id => d = e
          /\ \E d \in ds : d.primary
    /\ Point \subseteq Int
    /\ MaxDrags \in Nat /\ MaxArrivals \in Nat /\ MaxStarts \in Nat

VARIABLES
    displays, \* the connected displays
    position, \* outer_position of the pet window
    moved,    \* a Moved event is not yet handled
    grabbed,  \* WindowDragState
    commits,  \* tasks of commit_window_position
    stored,   \* the saved WindowPlacement
    note,     \* the notification window
    settled,  \* history: position where the user or a display left the pet
    tally     \* bounds

placementVars ==
    <<displays, position, moved, grabbed, commits, stored, note, settled, tally>>

NoAnchor == [held |-> FALSE, pointer |-> 0, origin |-> 0, scale |-> 1000]

-------------------------------------------------------------------------------
Least(a, b) == IF a < b THEN a ELSE b
Most(a, b) == IF a > b THEN a ELSE b
Clamped(low, high, n) == Most(low, Least(high, n))

\* Mutant of Rounded: "as i32" without round.
Cut(n, d) == IF n >= 0 THEN n \div d ELSE -((-n) \div d)

\* f64::round of n / d: half away from zero.
Rounded(n, d) ==
    IF n >= 0 THEN (2 * n + d) \div (2 * d) ELSE -((d - 2 * n) \div (2 * d))

Physical(n, d) == Rounded(n * d.scale, 1000)

\* current_monitor: one that shows some of the window, else the primary one.
MonitorsAt(at, ds) ==
    LET showing == {d \in ds : at < d.start + d.length /\ at + Physical(PetSize, d) > d.start} IN
    IF showing # {} THEN showing ELSE {d \in ds : d.primary}
Monitors == MonitorsAt(position, displays)

\* current_window_placement
PlacementOn(d) == [display |-> d.id, logical |-> Rounded((position - d.start) * 1000, d.scale)]

\* resolve_window_placement: the saved display, else the primary one; a margin of
\* the window stays in its work area.
Resolved(placement, ds) ==
    LET named == {d \in ds : d.id = placement.display}
        d == IF named # {} THEN CHOOSE n \in named : TRUE ELSE CHOOSE p \in ds : p.primary
        margin == Least(Margin, Physical(PetSize, d) \div 2) IN
    Clamped(d.start - Physical(PetSize, d) + margin, d.start + d.length - margin,
            d.start + Physical(placement.logical, d))

\* The sprite's first pixel on a display of scale d.
SpriteAt(at, d) == at + (Physical(PetSize, d) - Physical(SpriteSize, d)) \div 2

\* notification_window_layout: above the sprite, below it, or clamped above.
Layout(at, d) ==
    LET sprite == SpriteAt(at, d)
        high == Most(d.start, d.start + d.length - Physical(NoteSize, d))
        above == sprite - Physical(NoteSize, d) + Physical(Inset, d)
        below == sprite + Physical(SpriteSize, d) - Physical(Inset, d) IN
    IF above >= d.start THEN [at |-> above, below |-> FALSE, display |-> d]
    ELSE IF below <= high THEN [at |-> below, below |-> TRUE, display |-> d]
    ELSE [at |-> Clamped(d.start, high, above), below |-> FALSE, display |-> d]

\* position_notification_window: on the display the pet's window is on.
PositionNotification(at, ds) == \E d \in MonitorsAt(at, ds) : note' = Layout(at, d)

-------------------------------------------------------------------------------
\* pointerdown: begin_window_drag runs on the main thread at once.
Grab(p) ==
    /\ tally.drags < MaxDrags
    /\ tally' = [tally EXCEPT !.drags = @ + 1]
    /\ \E d \in Monitors :
          grabbed' = [held |-> TRUE, pointer |-> p, origin |-> position, scale |-> d.scale]
    /\ UNCHANGED <<displays, position, moved, commits, stored, note, settled>>

\* move_window_to: from the anchor, not from the last position.
DragTo(p) ==
    /\ grabbed.held
    /\ position' = grabbed.origin + Rounded((p - grabbed.pointer) * grabbed.scale, 1000)
    /\ moved' = (moved \/ position' # position)
    /\ settled' = position'
    /\ UNCHANGED <<displays, grabbed, commits, stored, note, tally>>

\* pointerup: commit_window_position is asynchronous.
LetGo ==
    /\ grabbed.held /\ \A c \in commits : c.id # tally.drags
    /\ commits' = commits \cup {[id |-> tally.drags, step |-> "finish", placement |-> stored]}
    /\ UNCHANGED <<displays, position, moved, grabbed, stored, note, settled, tally>>

\* finish_window_drag ends whatever drag there is.
FinishDrag(c) ==
    /\ c.step = "finish"
    /\ grabbed' = NoAnchor
    /\ commits' = (commits \ {c}) \cup {[c EXCEPT !.step = "read"]}
    /\ UNCHANGED <<displays, position, moved, stored, note, settled, tally>>

\* persist_window_position
ReadPlacement(c) ==
    /\ c.step = "read"
    /\ \E d \in Monitors :
          commits' = (commits \ {c})
                       \cup {[id |-> c.id, step |-> "save", placement |-> PlacementOn(d)]}
    /\ UNCHANGED <<displays, position, moved, grabbed, stored, note, settled, tally>>
SavePlacement(c) ==
    /\ c.step = "save"
    /\ stored' = c.placement
    /\ commits' = commits \ {c}
    /\ UNCHANGED <<displays, position, moved, grabbed, note, settled, tally>>

\* handle_pet_move: ensure_window_reachable, whose own move is an event again, and
\* position_notification_window.
\* (History: a pet that is pushed back into sight is left there by its display.)
HandleMoved ==
    /\ moved
    /\ \E d \in Monitors :
          /\ position' = Resolved(PlacementOn(d), displays)
          /\ moved' = (position' # position)
          /\ settled' = IF position' = d.start + Physical(PlacementOn(d).logical, d)
                        THEN settled ELSE position'
    /\ PositionNotification(position', displays)
    /\ UNCHANGED <<displays, grabbed, commits, stored, tally>>

\* Displays come and go, or change; the pet is moved by an event of theirs.
ChangeDisplays(ds) ==
    /\ tally.arrivals < MaxArrivals /\ ds # displays
    /\ tally' = [tally EXCEPT !.arrivals = @ + 1]
    /\ displays' = ds /\ moved' = TRUE /\ settled' = position
    /\ UNCHANGED <<position, grabbed, commits, stored, note>>

\* persist_desktop_state, and restore_window_placement of the next start, on
\* whatever displays it finds.  A crash saves nothing.
Restart(orderly, ds) ==
    /\ tally.starts < MaxStarts /\ ~moved /\ (orderly => commits = {})
    /\ tally' = [tally EXCEPT !.starts = @ + 1]
    /\ \E d \in Monitors : stored' = IF orderly THEN PlacementOn(d) ELSE stored
    /\ displays' = ds
    /\ position' = Resolved(stored', ds)
    /\ moved' = (position' # position)
    /\ settled' = IF orderly /\ ds = displays THEN settled ELSE position'
    /\ grabbed' = NoAnchor /\ commits' = {}
    /\ PositionNotification(position', ds)

-------------------------------------------------------------------------------
PlacementInit ==
    /\ displays \in Arrangement
    /\ \E d \in displays :
          /\ d.primary
          /\ position = d.start + (d.length - Physical(PetSize, d)) \div 2
          /\ stored = PlacementOn(d) /\ note = Layout(position, d)
    /\ moved = FALSE /\ grabbed = NoAnchor /\ commits = {}
    /\ settled = position
    /\ tally = [drags |-> 0, arrivals |-> 0, starts |-> 0]

PlacementNext ==
    \/ \E p \in Point : Grab(p) \/ DragTo(p)
    \/ LetGo \/ HandleMoved
    \/ \E c \in commits : FinishDrag(c) \/ ReadPlacement(c) \/ SavePlacement(c)
    \/ \E ds \in Arrangement : ChangeDisplays(ds)
    \/ \E orderly \in BOOLEAN, ds \in Arrangement : Restart(orderly, ds)

PlacementSpec == PlacementInit /\ [][PlacementNext]_placementVars

-------------------------------------------------------------------------------
Distance(a, b) == IF a < b THEN b - a ELSE a - b
\* However often the position is saved, scaled and restored, the pet does not
\* creep: it stays within the rounding of one logical pixel of where it was left,
\* and the notifications are beside it, whatever moved the pet or the displays.
PetDoesNotCreep ==
    \A d \in displays : ~moved /\ Monitors = {d} =>
        /\ 2 * 1000 * Distance(position, settled) <= d.scale + 1000
        /\ note = Layout(position, d)

===============================================================================
