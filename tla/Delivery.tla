------------------------------- MODULE Delivery -------------------------------
(***************************************************************************)
(* The way of an event from a hook of the agent to the reducer: the hook   *)
(* process (lili/src/hook_forwarder.rs) signs it and sends it over the     *)
(* desktop's socket, and spools it unless an acknowledgement comes within  *)
(* its deadline; the desktop (lili/src/lib.rs) drains the spool before it  *)
(* serves the socket, and then does both; one actor (lili-app-state,       *)
(* ingestion.rs) hands every event to the application state.               *)
(*                                                                         *)
(* Hooks, desktop, user and clock interleave freely, and the desktop may   *)
(* die between any two steps.  The clock of the presentation stands still. *)
(***************************************************************************)
EXTENDS ApplicationState

CONSTANTS MaxCount, MaxBytes, MaxAge, Lease, MaxDelay, MaxClock,  \* as in SqliteSpool
          FreshFor   \* DEFAULT_REPLAY_WINDOW_MS

ASSUME DeliveryAssumption == FreshFor \in Nat

VARIABLES
    rows, metrics, clock, drainer, inserts, commits, owed,  \* of SqliteSpool
    hook,       \* each event's hook process
    wire,       \* messages in the socket's backlog or being read
    acked,      \* events whose acknowledgement was written
    phase,      \* how far the desktop process is
    published,  \* the instance in the credential file
    handled,    \* history: events the reducer answered for
    discarded,  \* history: events retention dropped
    applied     \* history: how often an event was applied

\* The desktop's part and the history.
deliveryVars == <<hook, wire, acked, phase, published, handled, discarded, applied>>
spoolVars == <<rows, metrics, clock, drainer, inserts, commits, owed>>
allVars == <<vars, spoolVars, deliveryVars>>

NoInstance == MaxRestarts + 1

\* event_priority
EventPriority(e) ==
    CASE e.type = "attention_required" -> 3
      [] e.type = "turn_failed" -> 2
      [] e.type \in {"session_started", "turn_started", "attention_resolved"} -> 1
      [] e.type \in {"turn_completed", "session_ended"} -> 0

\* What SqliteSpool sees of an event.
PayloadOf(e) ==
    [key |-> e.id, priority |-> EventPriority(e), size |-> 1, valid |-> TRUE, event |-> e]

\* The socket of Unix lets one desktop start its drain.
Desktop == 1

Spool == INSTANCE SqliteSpool WITH
    Payload <- {PayloadOf(e) : e \in Event}, Drainer <- {Desktop},
    Token <- 1..(MaxCount + 1), NoToken <- 0, MaxInserts <- Cardinality(Event)

Message == [event : Event, instance : 0..MaxRestarts]

DeliveryInit ==
    /\ Init
    /\ Spool!Init
    /\ hook = [e \in Event |-> [at |-> "off", instance |-> NoInstance]]
    /\ wire = {}
    /\ acked = {}
    /\ phase = "down"
    /\ published = NoInstance
    /\ handled = {}
    /\ discarded = {}
    /\ applied = [e \in Event |-> 0]

-----------------------------------------------------------------------------
(***************************************************************************)
(* The hook process.                                                       *)
(***************************************************************************)
HookMoves(e, from, to) ==
    /\ hook[e].at = from
    /\ hook' = [hook EXCEPT ![e].at = to]

\* It stamps the event with its clock and signs it for the published instance;
\* without a readable credential file it spools.
HookStart(e) ==
    /\ clock = e.time
    /\ hook[e].at = "off"
    /\ \E at \in {"signed", "spooling"} :
          /\ at = "signed" => published # NoInstance
          /\ hook' = [hook EXCEPT ![e] = [at |-> at, instance |-> published]]
    /\ UNCHANGED <<vars, spoolVars, wire, acked, phase, published, handled, discarded, applied>>

\* The socket path is the same for every instance.
HookSend(e) ==
    /\ phase # "down"
    /\ HookMoves(e, "signed", "waiting")
    /\ wire' = wire \cup {[event |-> e, instance |-> hook[e].instance]}
    /\ UNCHANGED <<vars, spoolVars, acked, phase, published, handled, discarded, applied>>

HookAcknowledged(e) ==
    /\ e \in acked
    /\ HookMoves(e, "waiting", "delivered")
    /\ UNCHANGED <<vars, spoolVars, wire, acked, phase, published, handled, discarded, applied>>

\* No connection, an error, or no acknowledgement within the deadline.  What was
\* written to the socket stays there.
HookGivesUp(e) ==
    /\ HookMoves(e, "signed", "spooling") \/ HookMoves(e, "waiting", "spooling")
    /\ UNCHANGED <<vars, spoolVars, wire, acked, phase, published, handled, discarded, applied>>

\* Mutant of HookSpools: the row is not looked up afterwards.
HookSpoolsUnchecked(e) ==
    /\ Spool!HookEnqueue(PayloadOf(e), e.time)
    /\ HookMoves(e, "spooling", "spooled")
    /\ discarded' = discarded \cup {r.payload.event : r \in rows \ rows'}
    /\ UNCHANGED <<vars, wire, acked, phase, published, handled, applied>>

\* Success is reported if the database holds a row of this identity afterwards.
HookSpools(e) ==
    /\ Spool!HookEnqueue(PayloadOf(e), e.time)
    /\ HookMoves(e, "spooling", IF e.id \in Spool!Keys(rows') THEN "spooled" ELSE "failed")
    /\ discarded' = discarded \cup {r.payload.event : r \in rows \ rows'}
    /\ UNCHANGED <<vars, wire, acked, phase, published, handled, applied>>

\* The database is locked, or the agent kills the process.
HookFails(e) ==
    /\ \E at \in {"signed", "waiting", "spooling"} : HookMoves(e, at, "failed")
    /\ UNCHANGED <<vars, spoolVars, wire, acked, phase, published, handled, discarded, applied>>

-----------------------------------------------------------------------------
(***************************************************************************)
(* The desktop: start-up, the socket and the drain loop.                   *)
(***************************************************************************)
\* start_native_ingestion binds the socket and publishes new credentials; the
\* socket is not served before the first drain has ended.
Boot ==
    /\ phase = "down"
    /\ phase' = "draining"
    /\ published' = restarts
    /\ UNCHANGED <<vars, spoolVars, hook, wire, acked, handled, discarded, applied>>

\* reduce_event: the reducer answered, and what it applied is saved.
Reduces(e) ==
    \/ /\ IgnoreEvent(e)
       /\ handled' = handled \cup {e}
       /\ UNCHANGED applied
    \/ /\ ApplyEvent(e)
       /\ handled' = handled \cup {e}
       /\ applied' = [applied EXCEPT ![e] = @ + 1]

ReduceFails(e) == ApplyEventFails(e) /\ UNCHANGED <<handled, applied>>

\* verify_payload
Verifies(m) == m.instance = restarts /\ clock <= m.event.time + FreshFor

Serve(m) ==
    /\ phase = "serving"
    /\ Verifies(m)
    /\ wire' = wire \ {m}
    /\ \/ Reduces(m.event) /\ acked' = acked \cup {m.event}
       \/ ReduceFails(m.event) /\ UNCHANGED acked
    /\ UNCHANGED <<spoolVars, hook, phase, published, discarded>>

Reject(m) ==
    /\ phase = "serving"
    /\ ~Verifies(m)
    /\ wire' = wire \ {m}
    /\ UNCHANGED <<vars, spoolVars, hook, acked, phase, published, handled, discarded, applied>>

\* drain_sqlite_spool goes on after a commit and ends otherwise.
DrainEnds == phase' = IF phase = "draining" THEN "serving" ELSE phase

DrainIngests ==
    LET e == drainer[Desktop].payload.event IN
    /\ drainer[Desktop].at = "claimed"
    /\ Spool!Ingest(Desktop, TRUE) /\ Reduces(e)
    /\ UNCHANGED <<hook, wire, acked, phase, published, discarded>>

DrainFails ==
    LET e == drainer[Desktop].payload.event IN
    /\ drainer[Desktop].at = "claimed"
    /\ Spool!Ingest(Desktop, FALSE) /\ ReduceFails(e)
    /\ UNCHANGED <<hook, wire, acked, phase, published, discarded>>

DrainClaims ==
    /\ phase # "down"
    /\ \/ Spool!RecoverClaims(Desktop)
       \/ Spool!EnforceLimits(Desktop)
       \/ Spool!Claim(Desktop)
    /\ discarded' = discarded \cup ({r.payload.event : r \in rows}
                                    \ {r.payload.event : r \in rows'})
    /\ UNCHANGED <<vars, hook, wire, acked, phase, published, handled, applied>>

DrainCommits ==
    /\ Spool!Commit(Desktop)
    /\ IF Spool!Held(Desktop) = {} THEN DrainEnds ELSE UNCHANGED phase
    /\ UNCHANGED <<vars, hook, wire, acked, published, handled, discarded, applied>>

DrainStops ==
    /\ \/ Spool!ClaimNothing(Desktop)
       \/ Spool!Release(Desktop)
       \/ Spool!Abandon(Desktop)
    /\ DrainEnds
    /\ UNCHANGED <<vars, hook, wire, acked, published, handled, discarded, applied>>

UserAcknowledges(n) ==
    /\ phase # "down"
    /\ Acknowledge(n) \/ AcknowledgeFails(n)
    /\ UNCHANGED <<spoolVars, deliveryVars>>

\* The process dies or exits; its backlog goes with the socket, its claim stays
\* (bound: a claim can lapse before the clock stops).
Shutdown ==
    /\ phase # "down"
    /\ clock + Lease <= MaxClock
    /\ CrashRestart \/ ExitRestart
    /\ phase' = "down"
    /\ wire' = {}
    /\ drainer' = [drainer EXCEPT ![Desktop] = Spool!Resting("idle", 0)]
    /\ UNCHANGED <<rows, metrics, clock, inserts, commits, owed,
                   hook, acked, published, handled, discarded, applied>>

ClockTicks == Spool!Tick /\ UNCHANGED <<vars, deliveryVars>>

HookStep(e) ==
    \/ HookStart(e)
    \/ HookSend(e)
    \/ HookAcknowledged(e)
    \/ HookGivesUp(e)
    \/ HookSpools(e)
    \/ HookFails(e)

DeliveryNext ==
    \/ \E e \in Event : HookStep(e)
    \/ \E m \in wire : Serve(m) \/ Reject(m)
    \/ Boot
    \/ DrainIngests
    \/ DrainFails
    \/ DrainClaims
    \/ DrainCommits
    \/ DrainStops
    \/ \E n \in reducer.notifications : UserAcknowledges(n)
    \/ Shutdown
    \/ ClockTicks

\* The drain holds a record that the reducer can take.
CanIngest ==
    LET e == drainer[Desktop].payload.event IN
    /\ drainer[Desktop].at = "claimed"
    /\ Outcome(reducer, e) # "applied" \/ Saves(ReduceAt(reducer, e, now))

\* The user starts the desktop, its tasks run, time passes, and the database does
\* not refuse every save of an event and every statement of the drain for ever.
DeliveryFairness ==
    /\ WF_allVars(Boot)
    /\ WF_allVars(ClockTicks)
    /\ WF_allVars(DrainClaims)
    /\ WF_allVars(DrainStops)
    /\ ([]<>CanIngest => []<>(drainer[Desktop].at = "ingested"))
    /\ SF_allVars(DrainCommits)

DeliverySpec == DeliveryInit /\ [][DeliveryNext]_allVars
FairDeliverySpec == DeliverySpec /\ DeliveryFairness

-----------------------------------------------------------------------------
(***************************************************************************)
(* What delivery promises.                                                 *)
(***************************************************************************)
\* Providers may deliver an event again, stamped later: one identity, one fate.
Ids(events) == {e.id : e \in events}

Fate(e) ==
    IF e.id \in Ids(handled) THEN "handled"
    ELSE IF e.id \in Ids(discarded) THEN "discarded"
    ELSE IF e.id \in Spool!Keys(rows) THEN "kept"
    ELSE "new"

Promised == {e \in Event : hook[e].at \in {"delivered", "spooled"}}

Contract == INSTANCE DeliveryContract WITH
    fate <- [e \in Event |-> Fate(e)], promised <- Promised

\* A hook that reports success leaves its event handled or in the spool, where
\* it stays until the reducer answers for it or retention drops it, through lost
\* acknowledgements, expired claims and crashes (process_payload_with_source,
\* ingest_sqlite_spool_claim); and what is kept is settled in the end: "the
\* application SHALL consume unexpired events on startup"
\* (session-event-integration/spec.md:41), and afterwards, whatever it was doing
\* when it died.
ImplementsContract == Contract!FairSpec

\* "produces one state transition" (session-event-integration/spec.md:55): an event
\* that was sent, spooled, claimed twice or read again after a crash is applied
\* once, although the deduplication window does not survive a restart.
AppliedOnce == \A e \in Event : applied[e] <= 1

\* Everything was spooled while nobody served the socket, and is consumed.
SpoolConsumed ==
    /\ rows = {} /\ drainer[Desktop].at = "idle"
    /\ acked = {} /\ wire = {}
    /\ \A e \in Event : hook[e].at = "spooled" /\ e \in handled

\* "the application consumes it once and presents it as an unread session
\* notification" (session-event-integration/spec.md:43-45): a completion that was
\* spooled has its card, unless a later notifying event of its session replaced
\* it or the user dismissed it.
OfflineCompletionShown ==
    SpoolConsumed =>
        \A e \in Event :
            /\ e.type = "turn_completed"
            /\ \A f \in Event : f.session = e.session /\ f.time > e.time
                                => f.type \in {"turn_started", "session_started"}
            => e.id \in {n.id : n \in reducer.notifications} \cup dismissed

=============================================================================
