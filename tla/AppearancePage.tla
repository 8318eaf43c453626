---------------------------- MODULE AppearancePage ----------------------------
(***************************************************************************)
(* The appearance page and the selection of the desktop it follows: the    *)
(* refresh that starts and stops with the window, the request that selects *)
(* a pet (lili-ui/src/appearance.rs), the two routes that serve them       *)
(* (lili-server/src/lib.rs) and the tray, which selects as well.           *)
(*                                                                         *)
(* Every refresh clock has its own request_in_flight cell, which outlives  *)
(* the clock; a GET of a stopped clock still arrives.  The steps of a      *)
(* selection inside the application are the module Desktop.                *)
(***************************************************************************)
EXTENDS Integers, FiniteSets

CONSTANTS
    Choice,                                \* pets that can be selected
    MaxShows, MaxChoices, MaxFailedFetches \* bounds

ASSUME AppearanceAssumption ==
    MaxShows \in Nat /\ MaxChoices \in Nat /\ MaxFailedFetches \in Nat

VARIABLES
    chosen,      \* the active pet of the application
    appearance,  \* the pet that the page shows as selected
    putting,     \* selection_in_flight and the request behind it
    clock,       \* the running refresh clock, 0 for none
    fetching,    \* clocks whose request_in_flight is set
    fetches,     \* GET requests and their answers
    used        \* bounds: window shows, choices, failed GETs

appearanceVars == <<chosen, appearance, putting, clock, fetching, fetches, used>>

NoPet == 0
Unasked == [busy |-> FALSE, step |-> "none", pet |-> NoPet]

-------------------------------------------------------------------------------
\* start_appearance_lifecycle: the native window was shown, or shown once more; a
\* running clock is replaced by a new one with a new cell.
ShowAppearance ==
    /\ used.shows < MaxShows
    /\ used' = [used EXCEPT !.shows = @ + 1]
    /\ clock' = used.shows + 1
    /\ UNCHANGED <<chosen, appearance, putting, fetching, fetches>>

HideAppearance ==
    /\ clock # 0
    /\ clock' = 0
    /\ UNCHANGED <<chosen, appearance, putting, fetching, fetches, used>>

\* Mutant of RefreshTick: the cell is set before the other condition is read.
RefreshTickSwapped ==
    /\ clock # 0 /\ clock \notin fetching
    /\ fetching' = fetching \cup {clock}
    /\ fetches' = IF putting.busy THEN fetches
                  ELSE fetches \cup {[clock |-> clock, pet |-> NoPet]}

\* The callback of the interval: not during a selection, one request at a time.
RefreshTick ==
    /\ clock # 0 /\ ~putting.busy /\ clock \notin fetching
    /\ fetching' = fetching \cup {clock}
    /\ fetches' = fetches \cup {[clock |-> clock, pet |-> NoPet]}

Refresh == RefreshTick /\ UNCHANGED <<chosen, appearance, putting, clock, used>>

\* GET /api/v1/appearance: appearance_view.
AnswerFetch(f) ==
    /\ f.pet = NoPet
    /\ fetches' = (fetches \ {f}) \cup {[f EXCEPT !.pet = chosen]}
    /\ UNCHANGED <<chosen, appearance, putting, clock, fetching, used>>

FailFetch(f) ==
    /\ used.failures < MaxFailedFetches
    /\ used' = [used EXCEPT !.failures = @ + 1]
    /\ fetches' = fetches \ {f} /\ fetching' = fetching \ {f.clock}
    /\ UNCHANGED <<chosen, appearance, putting, clock>>

\* The view is replaced, whatever happened since the request was sent.
ReceiveFetch(f) ==
    /\ f.pet # NoPet
    /\ appearance' = f.pet
    /\ fetches' = fetches \ {f} /\ fetching' = fetching \ {f.clock}
    /\ UNCHANGED <<chosen, putting, clock, used>>

-------------------------------------------------------------------------------
\* A click on a pet: request_pet_selection.
ChoosePet(p) ==
    /\ clock # 0 /\ ~putting.busy /\ used.choices < MaxChoices
    /\ used' = [used EXCEPT !.choices = @ + 1]
    /\ putting' = [busy |-> TRUE, step |-> "sent", pet |-> p]
    /\ UNCHANGED <<chosen, appearance, clock, fetching, fetches>>

\* select_appearance_pet: the selection, and in another step the view it answers.
SelectChosen(accepted) ==
    /\ putting.step = "sent"
    /\ chosen' = IF accepted THEN putting.pet ELSE chosen
    /\ putting' = [putting EXCEPT !.step = IF accepted THEN "selected" ELSE "rejected"]
    /\ UNCHANGED <<appearance, clock, fetching, fetches, used>>

AnswerChoice ==
    /\ putting.step = "selected"
    /\ putting' = [putting EXCEPT !.step = "answered", !.pet = chosen]
    /\ UNCHANGED <<chosen, appearance, clock, fetching, fetches, used>>

\* Mutant of ChoiceReturned: a failed request leaves the page busy.
ChoiceReturnedKeepingBusy ==
    putting' = IF putting.step = "answered" THEN Unasked ELSE [putting EXCEPT !.step = "none"]

ChoiceReturned == putting' = Unasked

\* The answer, or the loss of it at any point, ends the request.
ReceiveChoice ==
    /\ putting.step \in {"answered", "rejected", "selected"}
    /\ appearance' = IF putting.step = "answered" THEN putting.pet ELSE appearance
    /\ ChoiceReturned
    /\ UNCHANGED <<chosen, clock, fetching, fetches, used>>

\* TrayAction::SelectPet
ChooseInTray(p) ==
    /\ used.choices < MaxChoices
    /\ used' = [used EXCEPT !.choices = @ + 1]
    /\ chosen' = p
    /\ UNCHANGED <<appearance, putting, clock, fetching, fetches>>

-------------------------------------------------------------------------------
AppearanceInit ==
    /\ chosen \in Choice /\ appearance = chosen
    /\ putting = Unasked /\ clock = 0 /\ fetching = {} /\ fetches = {}
    /\ used = [shows |-> 0, choices |-> 0, failures |-> 0]

AppearanceNext ==
    \/ ShowAppearance \/ HideAppearance \/ Refresh
    \/ \E f \in fetches : AnswerFetch(f) \/ FailFetch(f) \/ ReceiveFetch(f)
    \/ \E p \in Choice : ChoosePet(p) \/ ChooseInTray(p)
    \/ \E accepted \in BOOLEAN : SelectChosen(accepted)
    \/ AnswerChoice \/ ReceiveChoice

\* The interval fires, and a request that was sent is answered or fails; nobody
\* must show, hide or choose.
FetchEnds == \E f \in fetches : AnswerFetch(f) \/ ReceiveFetch(f)
ChoiceEnds == (\E accepted \in BOOLEAN : SelectChosen(accepted)) \/ ReceiveChoice
AppearanceSpec ==
    /\ AppearanceInit /\ [][AppearanceNext]_appearanceVars
    /\ WF_appearanceVars(Refresh) /\ WF_appearanceVars(FetchEnds) /\ WF_appearanceVars(ChoiceEnds)

-------------------------------------------------------------------------------
\* A page that stays visible comes to show the pet that is active, for good:
\* however answers of old clocks, failures, its own selections and those of the
\* tray interleave, no clock is left waiting for a request that is over.
PageFollowsSelection == <>[](clock # 0 => appearance = chosen)

===============================================================================
