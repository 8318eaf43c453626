----------------------------- MODULE SpriteFrames -----------------------------
(***************************************************************************)
(* Which cell of the atlas is on screen: the animation table, the          *)
(* scheduler and the look directions (lili-pet/src/lib.rs, rendering.rs),  *)
(* the cells that validation asks for (validation.rs), and the three       *)
(* places that choose a cell: the pet (AnimationController::render_mode),  *)
(* the preview of a scene and the sprite browser of the appearance page    *)
(* (lili-ui/src/lib.rs, appearance.rs, appearance/sprites.rs).             *)
(*                                                                         *)
(* Durations are in units of 10 ms, angles in eighths of a degree.  Which  *)
(* animation the pointer selects is PetInteraction's part: here any is     *)
(* selected, any time ago.                                                 *)
(***************************************************************************)
EXTENDS Integers, Sequences

CONSTANTS
    Delta,  \* how long ago an animation was selected, and how far a tick comes
    Angle   \* directions of the pointer, clockwise from up

\* Durations have no sign; rem_euclid(360.0) may round up to a whole turn.
ASSUME SpriteAssumption == Delta \subseteq Nat /\ Angle \subseteq 0 .. 2880

VARIABLES
    screen,   \* the pet's window or the preview of the appearance page
    scene,    \* the preview's scene: its animation and the time in its loop
    browser,  \* SpritePlayback: its target, the time in its loop and playing
    looking,  \* history: the angle whose look direction is on screen, or none
    frame     \* the AtlasFrame on screen

spriteVars == <<screen, scene, browser, looking, frame>>

-------------------------------------------------------------------------------
\* STANDARD_ANIMATIONS, one per row from row 0
Durations ==
    [idle    |-> <<28, 11, 11, 14, 14, 32>>,
     right   |-> <<12, 12, 12, 12, 12, 12, 12, 22>>,
     left    |-> <<12, 12, 12, 12, 12, 12, 12, 22>>,
     waving  |-> <<14, 14, 14, 28>>,
     jumping |-> <<14, 14, 14, 14, 28>>,
     failed  |-> <<14, 14, 14, 14, 14, 14, 14, 24>>,
     waiting |-> <<15, 15, 15, 15, 15, 26>>,
     running |-> <<12, 12, 12, 12, 12, 22>>,
     review  |-> <<15, 15, 15, 15, 15, 28>>]
Animation == DOMAIN Durations
Row ==
    [idle |-> 0, right |-> 1, left |-> 2, waving |-> 3, jumping |-> 4, failed |-> 5,
     waiting |-> 6, running |-> 7, review |-> 8]

\* The seven scenes show six animations: attention is a waiting pet.
SceneAnimation == {"idle", "running", "review", "waiting", "failed", "waving"}

Cell(row, column) == [row |-> row, column |-> column]
NeutralLookCell == Cell(0, 6)
LookIndex == 0 .. 15
LookCell(index) == Cell(9 + index \div 8, index % 8)
LookAngle(index) == index * 180

FrameCount(a) == Len(Durations[a])
EndOf(a, column) ==
    LET end[c \in 0 .. FrameCount(a) - 1] ==
            Durations[a][c + 1] + (IF c = 0 THEN 0 ELSE end[c - 1])
    IN  end[column]
LoopDuration(a) == EndOf(a, FrameCount(a) - 1)

\* Mutant of Drawn: the last frame of an animation need not be drawn.
DrawnButLast(a) == {Cell(Row[a], c) : c \in 0 .. FrameCount(a) - 2}

\* validate_cells: the cells that must be visible.
Drawn(a) == {Cell(Row[a], c) : c \in 0 .. FrameCount(a) - 1}
Required ==
    (UNION {Drawn(a) : a \in Animation}) \cup {NeutralLookCell}
        \cup {Cell(row, c) : row \in 9 .. 10, c \in 0 .. 7}

-------------------------------------------------------------------------------
\* AnimationScheduler::current_frame and advance
CurrentColumn(a, elapsed) ==
    CHOOSE c \in 0 .. FrameCount(a) - 1 :
        elapsed < EndOf(a, c) /\ \A b \in 0 .. c - 1 : EndOf(a, b) <= elapsed
FrameAt(a, elapsed) == Cell(Row[a], CurrentColumn(a, elapsed))
Advanced(a, elapsed, delta) == (elapsed + delta) % LoopDuration(a)

\* LookDirectionSelector::select: the nearest of the sixteen directions.
Select(angle) == ((angle + 90) \div 180) % 16

\* A look direction is within half a step of the pointer, on the circle of 360 degrees.
Near(angle, index) ==
    \E turn \in {-2880, 0, 2880} : LookAngle(index) - angle + turn \in -90 .. 90

NoTarget ==
    [kind |-> "none", animation |-> "none", at |-> Cell(0, 0), elapsed |-> 0, playing |-> FALSE]
Targets ==
    {[NoTarget EXCEPT !.kind = "animation", !.animation = a, !.playing = TRUE] : a \in Animation}
        \cup {[NoTarget EXCEPT !.kind = "look", !.at = LookCell(i)] : i \in LookIndex}
        \cup {[NoTarget EXCEPT !.kind = "neutral", !.at = NeutralLookCell]}
        \cup {[NoTarget EXCEPT !.kind = "cell", !.at = cell] :
                 cell \in [row : {0, 3, 10}, column : {0, 7}]}

\* SpritePlayback::frame
BrowserFrame(b) == IF b.kind = "animation" THEN FrameAt(b.animation, b.elapsed) ELSE b.at
Scene(a) == [animation |-> a, elapsed |-> 0]

-------------------------------------------------------------------------------
SpriteInit ==
    /\ screen \in {"pet", "preview"}
    /\ scene = Scene("idle") /\ browser = NoTarget
    /\ looking = -1 /\ frame = FrameAt("idle", 0)

Show(cell) == frame' = cell /\ looking' = -1
Look(angle) == frame' = LookCell(Select(angle)) /\ looking' = angle

\* AnimationController::render_mode: the gaze while the pet is idle, or the animation
\* that was selected `since' ago; its first frame where motion is reduced.
RenderPet(a, since, reduced) ==
    /\ screen = "pet"
    /\ Show(FrameAt(a, IF reduced THEN 0 ELSE since % LoopDuration(a)))
    /\ UNCHANGED <<screen, scene, browser>>

RenderPetGaze(angle) ==
    /\ screen = "pet" /\ Look(angle)
    /\ UNCHANGED <<screen, scene, browser>>

-------------------------------------------------------------------------------
\* AppearancePreviewController: a scene takes the place of the browser and starts over.
SelectScene(a) ==
    /\ screen = "preview"
    /\ scene' = Scene(a) /\ browser' = NoTarget
    /\ Show(FrameAt(a, 0))
    /\ UNCHANGED screen

SelectSprite(target) ==
    /\ screen = "preview"
    /\ scene' = Scene(scene.animation) /\ browser' = target
    /\ Show(BrowserFrame(target))
    /\ UNCHANGED screen

\* restart keeps the target and whether it plays, and not where it was.
RestartPreview ==
    /\ screen = "preview"
    /\ scene' = Scene(scene.animation)
    /\ browser' = [browser EXCEPT !.elapsed = 0]
    /\ Show(IF browser.kind = "none" THEN FrameAt(scene.animation, 0) ELSE BrowserFrame(browser'))
    /\ UNCHANGED screen

\* Mutant of Seek: where the frame ends.
SeekEnd(column) == EndOf(browser.animation, column % FrameCount(browser.animation))

\* SpritePlayback::seek: the time at which the column begins, paused.
Seek(column) ==
    LET c == column % FrameCount(browser.animation)
    IN IF c = 0 THEN 0 ELSE EndOf(browser.animation, c - 1)

SeekTo(column) ==
    /\ screen = "preview" /\ browser.kind = "animation"
    /\ column < FrameCount(browser.animation)
    /\ browser' = [browser EXCEPT !.elapsed = Seek(column), !.playing = FALSE]
    /\ Show(Cell(Row[browser.animation], column))
    /\ UNCHANGED <<screen, scene>>

\* SpritePlayback::step: the frame after, or before, the one on screen.
Step(forward) ==
    /\ screen = "preview" /\ browser.kind = "animation"
    /\ LET count == FrameCount(browser.animation)
           column == CurrentColumn(browser.animation, browser.elapsed)
       IN browser' = [browser EXCEPT
            !.elapsed = Seek((column + (IF forward THEN 1 ELSE count - 1)) % count),
            !.playing = FALSE]
    /\ Show(BrowserFrame(browser'))
    /\ UNCHANGED <<screen, scene>>

TogglePlaying ==
    /\ screen = "preview" /\ browser.kind = "animation"
    /\ browser' = [browser EXCEPT !.playing = ~@]
    /\ Show(BrowserFrame(browser'))
    /\ UNCHANGED <<screen, scene>>

\* tick of the browser: time goes on while it plays.
TickBrowser(delta, reduced) ==
    /\ screen = "preview" /\ browser.kind # "none"
    /\ browser' = IF browser.playing /\ ~reduced
                    THEN [browser EXCEPT !.elapsed = Advanced(browser.animation, @, delta)]
                    ELSE browser
    /\ Show(BrowserFrame(browser'))
    /\ UNCHANGED <<screen, scene>>

\* tick of a scene; where motion is reduced the scene stands still.
TickScene(delta, reduced) ==
    /\ screen = "preview" /\ browser.kind = "none"
    /\ scene' = IF reduced THEN scene
                ELSE [scene EXCEPT !.elapsed = Advanced(scene.animation, @, delta)]
    /\ Show(FrameAt(scene'.animation, scene'.elapsed))
    /\ UNCHANGED <<screen, browser>>

\* An interaction overrides every scene, the gaze only the idle one; the scene's own
\* time goes on below.
TickOverridden(delta, since, a) ==
    /\ screen = "preview" /\ browser.kind = "none"
    /\ a \in {"waving", "jumping", "left", "right"}
    /\ scene' = [scene EXCEPT !.elapsed = Advanced(scene.animation, @, delta)]
    /\ Show(FrameAt(a, since % LoopDuration(a)))
    /\ UNCHANGED <<screen, browser>>

TickGaze(delta, angle) ==
    /\ screen = "preview" /\ browser.kind = "none" /\ scene.animation = "idle"
    /\ scene' = [scene EXCEPT !.elapsed = Advanced(scene.animation, @, delta)]
    /\ Look(angle)
    /\ UNCHANGED <<screen, browser>>

SpriteNext ==
    \/ \E a \in Animation, since \in Delta, reduced \in BOOLEAN : RenderPet(a, since, reduced)
    \/ \E angle \in Angle : RenderPetGaze(angle)
    \/ \E a \in SceneAnimation : SelectScene(a)
    \/ \E target \in Targets : SelectSprite(target)
    \/ RestartPreview \/ TogglePlaying
    \/ \E column \in 0 .. 7 : SeekTo(column)
    \/ \E forward \in BOOLEAN : Step(forward)
    \/ \E delta \in Delta, reduced \in BOOLEAN :
          TickBrowser(delta, reduced) \/ TickScene(delta, reduced)
    \/ \E delta, since \in Delta, a \in Animation : TickOverridden(delta, since, a)
    \/ \E delta \in Delta, angle \in Angle : TickGaze(delta, angle)

SpriteSpec == SpriteInit /\ [][SpriteNext]_spriteVars

-------------------------------------------------------------------------------
\* Every frame on screen is a cell that the validation of a package asks for, so that a
\* pet that was accepted is never blank, whatever is selected, sought, paused or
\* followed; only the sheet shows unused cells.  A look is the nearest to the pointer.
\* A frame that was sought is the one the playback goes on from.
FramesAreDrawn ==
    /\ browser.kind # "cell" => frame \in Required
    /\ looking # -1 => \E i \in LookIndex : frame = LookCell(i) /\ Near(looking, i)
    /\ browser.kind = "animation" => frame = BrowserFrame(browser)

===============================================================================
