------------------------------ MODULE MCDelivery ------------------------------
(***************************************************************************)
(* Instances of Delivery for TLC.                                          *)
(***************************************************************************)
EXTENDS Delivery

E(id, type, session, turn, time) ==
    [id |-> id, type |-> type, session |-> session, turn |-> turn, time |-> time]

\* A permission request and the end of its session.
TwoEvents ==
    {E(1, "attention_required", 1, 1, 0), E(2, "session_ended", 1, NoTurn, 1)}

\* A turn completes and the next one begins while the desktop is not running.
OfflineEvents ==
    {E(1, "turn_completed", 1, 1, 0), E(2, "turn_started", 1, 2, 1)}

=============================================================================
