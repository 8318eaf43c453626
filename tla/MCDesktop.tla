------------------------------- MODULE MCDesktop -------------------------------
(***************************************************************************)
(* What the desktop serves and shows, for TLC: the calls of AppState, the  *)
(* pet library, the hit region of its pet, the frames of its atlas and the *)
(* menus.  A behaviour belongs to one part and the variables of the others *)
(* keep their initial values; the hit region includes the selections of    *)
(* the library, on packages that are all valid and stay.                   *)
(***************************************************************************)
EXTENDS Desktop, PetHitRegion, SpriteFrames, DesktopMenus

VARIABLE part  \* the part this behaviour belongs to

Part == {"desktop", "library", "hit", "sprites", "menus"}

-------------------------------------------------------------------------------
E(id, type, session, turn, time) ==
    [id |-> id, type |-> type, session |-> session, turn |-> turn, time |-> time]

\* A turn fails in one session and completes in another.
TwoCards == {E(1, "turn_failed", 1, 1, 1), E(2, "turn_completed", 2, 1, 2)}

Plan(es, as, fs, ss, cs) ==
    [events |-> es, acks |-> as, activations |-> fs, told |-> 0, selections |-> ss,
     configurations |-> cs, titled |-> fs = 0]

\* Titles with everything that interrupts them; the pet against a card; and two
\* activations of a card.
DesktopPlans ==
    {Plan(TwoCards, 0, 0, 0, 1), Plan({E(1, "turn_failed", 1, 1, 1)}, 1, 0, 0, 2),
     Plan({E(1, "turn_failed", 1, 1, 1)}, 0, 0, 2, 0),
     Plan({E(1, "turn_failed", 1, 1, 1)}, 0, 2, 0, 1)}

\* Selections on pages and in the tray, one of them against actions on the window, and
\* the context menu.
Budget(turns, clicks, gestures, window) ==
    [turns |-> turns, clicks |-> clicks, gestures |-> gestures, window |-> window]
MenuBudgets == {Budget(2, 2, 0, 0), Budget(1, 1, 0, 1), Budget(0, 0, 3, 2)}

ValidPackages == [d \in Dir |-> [pet |-> d, atlas |-> "valid"]]

-------------------------------------------------------------------------------
\* Each part's restriction stands behind its initial condition, which keeps the
\* enumeration of initial states short.
MCInit ==
    /\ part \in Part
    /\ DesktopInit /\ (part # "desktop" => plan = CHOOSE p \in Plans : TRUE)
    /\ LibraryInit /\ (part # "library" => disk = ValidPackages)
    /\ HitInit
    /\ SpriteInit  /\ (part # "sprites" => screen = "pet")
    /\ MenusInit   /\ (part # "menus" => desk.selected = 1 /\ budget = Budget(0, 0, 3, 2))

MCNext ==
    /\ UNCHANGED part
    /\ \/ /\ part = "desktop" /\ DesktopNext
          /\ UNCHANGED <<libraryVars, hitVars, spriteVars, menuVars>>
       \/ /\ part = "library" /\ LibraryNext
          /\ UNCHANGED <<desktopVars, hitVars, spriteVars, menuVars>>
       \/ /\ part = "hit" /\ HitNext
          /\ UNCHANGED <<desktopVars, spriteVars, menuVars>>
       \/ /\ part = "sprites" /\ SpriteNext
          /\ UNCHANGED <<desktopVars, libraryVars, hitVars, menuVars>>
       \/ /\ part = "menus" /\ MenusNext
          /\ UNCHANGED <<desktopVars, libraryVars, hitVars, spriteVars>>

\* The fairness of HitSpec and of MenusSpec.  A behaviour belongs to one part, so one
\* condition on the variables of that part stands for a condition of each.
OwnVars ==
    CASE part = "hit" -> <<libraryVars, hitVars>> [] part = "menus" -> menuVars [] OTHER -> <<>>
FirstTurn ==
    /\ UNCHANGED part
    /\ \/ part = "hit" /\ ReceivePet
       \/ part = "menus" /\ UpdaterProgress
SecondTurn ==
    /\ UNCHANGED part
    /\ \/ part = "hit" /\ CallProgress
       \/ part = "menus" /\ HandlerProgress
ThirdTurn ==
    /\ UNCHANGED part
    /\ \/ part = "hit" /\ ShapeWindow
       \/ part = "menus" /\ PublicationProgress
FourthTurn == UNCHANGED part /\ part = "hit" /\ SelectionProgress /\ UNCHANGED hitVars

MCSpec ==
    /\ MCInit /\ [][MCNext]_<<part, desktopVars, libraryVars, hitVars, spriteVars, menuVars>>
    /\ WF_OwnVars(FirstTurn) /\ WF_OwnVars(SecondTurn) /\ WF_OwnVars(ThirdTurn)
    /\ WF_OwnVars(FourthTurn)

===============================================================================
