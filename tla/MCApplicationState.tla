-------------------------- MODULE MCApplicationState --------------------------
(***************************************************************************)
(* Instances of ApplicationState for TLC.                                  *)
(***************************************************************************)
EXTENDS ApplicationState

E(id, type, session, turn, time) ==
    [id |-> id, type |-> type, session |-> session, turn |-> turn, time |-> time]

\* Two turns of a session that ends and is resumed.  The start of turn 1 and
\* the retry of event 2 are stamped late and tie, as do the end and the resumption.
OrderEvents ==
    {E(1, "turn_started", 1, 1, 4), E(2, "turn_completed", 1, 1, 2),
     E(2, "turn_completed", 1, 1, 4), E(3, "turn_started", 1, 2, 3),
     E(4, "attention_required", 1, 2, 5), E(5, "session_ended", 1, NoTurn, 6),
     E(6, "session_started", 1, NoTurn, 6)}

\* Every event keeps its time when it is delivered again; turn 1 fails after
\* turn 2 began.
RestartEvents ==
    {E(1, "turn_completed", 1, 1, 1), E(2, "turn_started", 1, 2, 2),
     E(3, "attention_required", 1, 2, 3), E(4, "session_ended", 1, NoTurn, 4),
     E(5, "turn_failed", 1, 1, 5)}

\* The second delivery of event 2 was stamped later than the first.
RetimedEvents ==
    {E(1, "turn_started", 1, 1, 1), E(2, "turn_completed", 1, 1, 2),
     E(2, "turn_completed", 1, 1, 3)}

\* Turn 1 completes after turn 2 began.
OverlappingEvents ==
    {E(1, "turn_started", 1, 1, 1), E(2, "turn_started", 1, 2, 2),
     E(3, "turn_completed", 1, 1, 3), E(4, "session_ended", 1, NoTurn, 4)}

\* Every cause of a presentation, in two sessions that compete for one place in
\* the durable projection.
PresentationEvents ==
    {E(1, "turn_started", 1, 1, 1), E(2, "turn_failed", 1, 1, 2),
     E(3, "turn_completed", 1, 1, 3), E(4, "attention_required", 2, 1, 2),
     E(5, "attention_resolved", 2, 1, 3)}

\* Two reminders that overlap.
PulseEvents ==
    {E(1, "turn_started", 1, 1, 1), E(2, "turn_started", 2, 1, 2)}

\* A permission request whose session ends at once.
AbandonedEvents ==
    {E(1, "attention_required", 1, 1, 1), E(2, "session_ended", 1, NoTurn, 2),
     E(3, "turn_started", 2, 1, 1)}

=============================================================================
