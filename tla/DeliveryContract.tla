--------------------------- MODULE DeliveryContract ---------------------------
(***************************************************************************)
(* What forwarding promises the agent, whatever the hook, the desktop and  *)
(* the spool do in between: an event whose hook reported success is never  *)
(* forgotten.  It is kept where the desktop finds it until the reducer     *)
(* has answered for it or retention has discarded it.                      *)
(***************************************************************************)
CONSTANT Event

VARIABLES
    fate,     \* what became of each event
    promised  \* the events whose hook reported success

contractVars == <<fate, promised>>

\* What can still become of an event.  A discarded one may yet arrive on the
\* socket it was sent to first.
Prospects ==
    [new |-> {"new", "kept", "discarded", "handled"},
     kept |-> {"kept", "discarded", "handled"},
     discarded |-> {"discarded", "handled"},
     handled |-> {"handled"}]

Init ==
    /\ fate = [e \in Event |-> "new"]
    /\ promised = {}

\* One event moves on and others may be discarded to make room for it; nothing
\* is promised for an event that is nowhere.
Deliver ==
    /\ fate' \in [Event -> DOMAIN Prospects]
    /\ \A e \in Event : fate'[e] \in Prospects[fate[e]]
    /\ promised' \in SUBSET Event
    /\ promised \subseteq promised'
    /\ \A e \in promised' : fate'[e] # "new"

Spec == Init /\ [][Deliver]_contractVars

\* What is kept does not wait for ever.
KeptIsSettled ==
    \A e \in Event : fate[e] = "kept" ~> fate[e] \in {"discarded", "handled"}

FairSpec == Spec /\ KeptIsSettled

=============================================================================
