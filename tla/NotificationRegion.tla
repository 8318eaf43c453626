-------------------------- MODULE NotificationRegion --------------------------
(***************************************************************************)
(* The part of the notification window that takes clicks                   *)
(* (lili/src/notification_hit_region.rs and its callers in                 *)
(* lili/src/lib.rs).  Two writers share it: the page reports where its     *)
(* cards are whenever that changes, and the native update task corrects    *)
(* the region by the number of cards it last read, with a load and a store *)
(* of the atomic.                                                          *)
(***************************************************************************)
EXTENDS NotificationCarousel

CONSTANT RegionCards  \* bound on the cards that arrive in this composition

VARIABLES
    calls,   \* set_notification_hit_region calls on their way
    region,  \* NotificationWindowState::hit_region
    sync     \* the native task that synchronizes the window

regionVars == <<calls, region, sync>>

ASSUME RegionAssumption == RegionCards \in 0 .. MaxCards

Asleep == [pc |-> "idle", count |-> 0, mode |-> "empty"]

-------------------------------------------------------------------------------
Slots(p) == {Role(id, p) : id \in p.cards} \cap {"top", "bottom"}

\* native_hit_region_mode
HitMode(p) ==
    CASE p.reflowing -> "reflow"
      [] ~p.reflowing /\ Cardinality(p.cards) > 2 -> "scroll"
      [] OTHER -> CASE Slots(p) = {} -> "empty"
                    [] Slots(p) = {"top"} -> "top"
                    [] Slots(p) = {"bottom"} -> "bottom"
                    [] OTHER -> "both"

\* Mutant of Fallback: with one card any mode is kept.
FallbackKeepingEmpty(mode, count) ==
    CASE count = 0 -> "empty"
      [] count = 1 -> IF mode = "scroll" THEN "bottom" ELSE mode
      [] count = 2 -> "both"
      [] OTHER -> "scroll"

\* fallback_for_count
Fallback(mode, count) ==
    CASE count = 0 -> "empty"
      [] count = 1 -> IF mode \in {"top", "bottom", "both", "reflow"} THEN mode ELSE "bottom"
      [] count = 2 -> "both"
      [] OTHER -> "scroll"

\* rectangles: the slots a mode covers.
Covers(mode) ==
    CASE mode = "empty" -> {}
      [] mode \in {"top", "bottom"} -> {mode}
      [] OTHER -> {"top", "bottom"}

\* A step of the page; its effect reports a mode that changed, and every
\* publication wakes the native task.
Reporting(step) ==
    /\ step
    /\ arrived' <= RegionCards
    /\ calls' = IF HitMode(page') = HitMode(page) THEN calls ELSE Append(calls, HitMode(page'))
    /\ sync' = [sync EXCEPT !.fresh = @ \/ shown' # shown]
    /\ UNCHANGED region
PageStep == Reporting(CarouselNext)

ReadCount ==
    /\ sync.fresh /\ sync.task = Asleep
    /\ sync' = [fresh |-> FALSE,
                task |-> [Asleep EXCEPT !.pc = "counted", !.count = Cardinality(shown)]]
    /\ UNCHANGED <<carouselVars, calls, region>>

\* reconcile_hit_region: the mode is loaded, then its correction is stored.
LoadRegion ==
    /\ sync.task.pc = "counted"
    /\ sync' = [sync EXCEPT !.task.pc = "loaded", !.task.mode = region]
    /\ UNCHANGED <<carouselVars, calls, region>>

StoreRegion ==
    /\ sync.task.pc = "loaded"
    /\ region' = Fallback(sync.task.mode, sync.task.count)
    /\ sync' = [sync EXCEPT !.task = Asleep]
    /\ UNCHANGED <<carouselVars, calls>>

\* set_notification_hit_region runs on the main thread.
SetRegion ==
    /\ calls # <<>>
    /\ region' = Head(calls) /\ calls' = Tail(calls)
    /\ UNCHANGED <<carouselVars, sync>>

-------------------------------------------------------------------------------
\* The first mode of the page is reported as well.
ReportsInit ==
    /\ calls = <<HitMode(page)>> /\ region = "empty" /\ sync = [fresh |-> FALSE, task |-> Asleep]
RegionInit == CarouselInit /\ arrived = 0 /\ ReportsInit

RegionNext == PageStep \/ ReadCount \/ LoadRegion \/ StoreRegion \/ SetRegion

RegionSpec == RegionInit /\ [][RegionNext]_<<carouselVars, regionVars>>

-------------------------------------------------------------------------------
\* The page shows what is published, nothing moves, no report or correction is
\* under way.
Quiet ==
    /\ page.cards = shown /\ Still /\ sliding = {}
    /\ calls = <<>> /\ sync = [fresh |-> FALSE, task |-> Asleep]

\* The two writers see the cards at different times and overwrite each other:
\* in the end a window with cards takes clicks, and with more than one card it
\* takes them wherever a card is.
CardsTakeClicks ==
    Quiet /\ page.cards # {} =>
        /\ Covers(region) # {}
        /\ Cardinality(page.cards) > 1 => Slots(page) \subseteq Covers(region)

===============================================================================
