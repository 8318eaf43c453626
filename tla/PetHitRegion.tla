----------------------------- MODULE PetHitRegion -----------------------------
(***************************************************************************)
(* Where the pet takes clicks: the page sends the frame it shows           *)
(* (setNativePetHitFrame, lili-ui/src/lib.rs), the command set_pet_hit_    *)
(* frame checks it against the snapshot, records it and installs the atlas *)
(* of the asset if it is new (lili/src/lib.rs, pet_hit_region.rs), and the *)
(* main thread gives the window the shape that is then recorded            *)
(* (linux_notification_hit_region.rs).  Selections change the asset        *)
(* between any two of these steps.                                         *)
(***************************************************************************)
EXTENDS PetLibrary

CONSTANTS
    Frame,      \* frames of an atlas; 0 stands for the first one
    MaxFrames   \* bound: frames the page goes on by itself; then the animation rests

VARIABLES
    page,     \* the asset and frame of the page, and how many frames it went on
    sender,   \* pendingPetHitFrame, sendingPetHitFrame and the call it awaits
    hit,      \* PetHitState: the asset and frame, whose atlas is installed
    shaped    \* the input shape of the window, and whether the main thread has one to set

hitVars == <<page, sender, hit, shaped>>

NoAsset == <<0, 0>>
NoFrame == [asset |-> NoAsset, frame |-> 0]
Message == [asset |-> page'.asset, frame |-> page'.frame]
NoCall == [step |-> "idle", message |-> NoFrame]

HitInit ==
    /\ page = [asset |-> NoAsset, frame |-> 0, shown |-> 0]
    /\ sender = [pending |-> NoFrame, sending |-> FALSE, call |-> NoCall]
    /\ hit = [asset |-> NoAsset, atlas |-> NoAsset, frame |-> 0]
    /\ shaped = [asset |-> NoAsset, frame |-> 0, due |-> FALSE]

-------------------------------------------------------------------------------
\* setNativePetHitFrame: the newest frame waits for the call before it.
SendFrame ==
    sender' = IF sender.sending THEN [sender EXCEPT !.pending = Message]
              ELSE [pending |-> NoFrame, sending |-> TRUE,
                    call |-> [step |-> "check", message |-> Message]]

\* A presentation with another asset reaches the page.
ReceivePet ==
    /\ page.asset # view.asset
    /\ page' = [page EXCEPT !.asset = view.asset]
    /\ SendFrame
    /\ UNCHANGED <<libraryVars, hit, shaped>>

\* The animation clock: with reduced motion, or at rest, no further frame comes.
NextFrame(f) ==
    /\ page.shown < MaxFrames /\ f # page.frame /\ page.asset # NoAsset
    /\ page' = [page EXCEPT !.frame = f, !.shown = @ + 1]
    /\ SendFrame
    /\ UNCHANGED <<libraryVars, hit, shaped>>

\* Mutant of AfterCall: what came during the call is cleared after it.
AfterCallCleared == [pending |-> NoFrame, sending |-> FALSE, call |-> NoCall]

\* The call returns, or fails, which the page ignores; the newest frame is next.
AfterCall ==
    IF sender.pending = NoFrame THEN [sender EXCEPT !.sending = FALSE, !.call = NoCall]
    ELSE [pending |-> NoFrame, sending |-> TRUE,
          call |-> [step |-> "check", message |-> sender.pending]]

-------------------------------------------------------------------------------
\* The shape is set from a task of the main thread.
RefreshRegion == shaped' = [shaped EXCEPT !.due = TRUE]

\* set_pet_hit_frame: a frame of an asset that the snapshot no longer has is refused.
CheckSnapshot ==
    /\ sender.call.step = "check"
    /\ IF view.asset = sender.call.message.asset
         THEN sender' = [sender EXCEPT !.call.step = "set"] ELSE sender' = AfterCall
    /\ UNCHANGED <<libraryVars, page, hit, shaped>>

\* pet_hit_region::set_frame: the atlas of another asset goes.
SetFrame ==
    /\ sender.call.step = "set"
    /\ LET m == sender.call.message
           atlas == IF hit.asset = m.asset THEN hit.atlas ELSE NoAsset
       IN /\ hit' = [asset |-> m.asset, frame |-> m.frame, atlas |-> atlas]
          /\ sender' = IF atlas = NoAsset THEN [sender EXCEPT !.call.step = "approve"]
                       ELSE AfterCall
    /\ RefreshRegion
    /\ UNCHANGED <<libraryVars, page>>

\* approved_pet_asset: an asset that is no longer approved is an error of the call.
ApproveAsset ==
    /\ sender.call.step = "approve"
    /\ IF Served(sender.call.message.asset)
         THEN sender' = [sender EXCEPT !.call.step = "install"] ELSE sender' = AfterCall
    /\ UNCHANGED <<libraryVars, page, hit, shaped>>

\* pet_hit_region::install_atlas, for the asset that is recorded only.
InstallAtlas ==
    /\ sender.call.step = "install"
    /\ IF hit.asset = sender.call.message.asset
         THEN hit' = [hit EXCEPT !.atlas = hit.asset] /\ RefreshRegion
         ELSE UNCHANGED <<hit, shaped>>
    /\ sender' = AfterCall
    /\ UNCHANGED <<libraryVars, page>>

\* update_pet on the main thread: the frame's pixels, or the whole sprite without an atlas.
ShapeWindow ==
    /\ shaped.due
    /\ shaped' = [asset |-> hit.atlas, frame |-> hit.frame, due |-> FALSE]
    /\ UNCHANGED <<libraryVars, page, sender, hit>>

CallProgress == CheckSnapshot \/ SetFrame \/ ApproveAsset \/ InstallAtlas

HitNext ==
    \/ ReceivePet \/ CallProgress \/ ShapeWindow
    \/ \E f \in Frame : NextFrame(f)
    \/ (SelectionProgress \/ \E pet \in Pet : SelectFrom(pet)) /\ UNCHANGED hitVars

\* The runtimes of the page, of the application and of the main thread go on.
HitFairness ==
    /\ WF_<<libraryVars, hitVars>>(ReceivePet) /\ WF_<<libraryVars, hitVars>>(CallProgress)
    /\ WF_<<libraryVars, hitVars>>(ShapeWindow)
    /\ WF_<<libraryVars, hitVars>>(SelectionProgress /\ UNCHANGED hitVars)

HitSpec == LibraryInit /\ HitInit /\ [][HitNext]_<<libraryVars, hitVars>> /\ HitFairness

-------------------------------------------------------------------------------
\* Once no pet is selected any more, a window whose page shows a pet takes clicks on
\* the pixels of the frame that the page shows of the pet on screen: no frame sent
\* during a call, no refused frame of the pet before and no failed call leaves another
\* shape behind.
ShapeFollowsPet ==
    <>[](page.asset # NoAsset =>
            shaped.asset = view.asset /\ page.asset = view.asset /\ shaped.frame = page.frame)

===============================================================================
