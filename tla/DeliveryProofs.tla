----------------------------- MODULE DeliveryProofs -----------------------------
(***************************************************************************)
(* Theorems about the way of an event from the hook to the reducer, for    *)
(* every set of events and every bound: what delivery does is at once a    *)
(* behaviour of the application, of the spool and of the contract.         *)
(***************************************************************************)
EXTENDS Delivery, ApplicationStateProofs

EventPayload == {PayloadOf(e) : e \in Event}

LEMMA PayloadFields ==
    ASSUME NEW p \in EventPayload
    PROVE  p.event \in Event /\ p.key = p.event.id /\ p.valid = TRUE
BY DEF EventPayload, PayloadOf

\* The types delivery depends on: the parts only hold events that a provider
\* delivered, and a payload carries the identity of its event.
CarrierTypes ==
    /\ \A r \in rows : r.payload \in EventPayload
    /\ drainer \in [{Desktop} -> Spool!RestingState \cup Spool!WorkingState]
    /\ drainer[Desktop].at = "idle" => drainer[Desktop] = Spool!Resting("idle", 0)
    /\ clock \in Nat
    /\ \A m \in wire : m.event \in Event
    /\ hook \in [Event -> [at : {"off", "signed", "waiting", "delivered", "spooling",
                                 "spooled", "failed"},
                           instance : Nat]]
    /\ published \in Nat
    /\ restarts \in Nat

\* The reducer answered for every event that was acknowledged, and for the one
\* whose claim is about to be committed.
Answered ==
    /\ acked \subseteq handled
    /\ drainer[Desktop].at = "ingested"
          => drainer[Desktop].payload.event \in handled

PromisedIsSomewhere == \A e \in Promised : Fate(e) # "new"

DeliveryInv == CarrierTypes /\ Answered /\ PromisedIsSomewhere

-----------------------------------------------------------------------------
(***************************************************************************)
(* The desktop's part in the spool.                                        *)
(***************************************************************************)
LEMMA DrainerTypes ==
    ASSUME drainer \in [{Desktop} -> Spool!RestingState \cup Spool!WorkingState]
    PROVE  /\ drainer[Desktop].at \in {"claimed", "malformed", "ingested", "refused"}
                => drainer[Desktop] \in Spool!WorkingState /\ drainer[Desktop].payload \in EventPayload
           /\ drainer[Desktop].at \in {"idle", "recovered", "enforced"}
                => drainer[Desktop] \in Spool!RestingState
           /\ drainer[Desktop].now \in Nat
           /\ drainer[Desktop].at \in {"claimed", "malformed", "ingested", "refused",
                                       "idle", "recovered", "enforced"}
<1>1. drainer[Desktop] \in Spool!RestingState \cup Spool!WorkingState
  OBVIOUS
<1>2. QED
  BY <1>1 DEF Spool!RestingState, Spool!WorkingState, EventPayload

LEMMA ExcessIsSubset ==
    ASSUME NEW rs, NEW dropped \in Spool!Excess(rs)
    PROVE  dropped \subseteq rs
BY DEF Spool!Excess, Spool!Pending

LEMMA RestingType ==
    ASSUME NEW at \in {"idle", "recovered", "enforced"}, NEW t \in Nat
    PROVE  /\ Spool!Resting(at, t) \in Spool!RestingState
           /\ Spool!Resting(at, t).at = at
BY DEF Spool!Resting, Spool!RestingState

\* What the transactions of the drain do to the rows and to the desktop's claim.
LEMMA DrainSteps ==
    ASSUME CarrierTypes,
           \/ Spool!RecoverClaims(Desktop)
           \/ Spool!EnforceLimits(Desktop)
           \/ Spool!Claim(Desktop)
    PROVE  /\ {r.payload : r \in rows'} \subseteq {r.payload : r \in rows}
           /\ drainer' \in [{Desktop} -> Spool!RestingState \cup Spool!WorkingState]
           /\ drainer'[Desktop].at \in {"recovered", "enforced", "claimed"}
           /\ clock' = clock
<1>1. CASE Spool!RecoverClaims(Desktop)
  <2>1. /\ rows' = (rows \ Spool!Lapsed(clock)) \cup {Spool!Unclaimed(r) : r \in Spool!Lapsed(clock)}
        /\ drainer' = [drainer EXCEPT ![Desktop] = Spool!Resting("recovered", clock)]
        /\ clock' = clock
    BY <1>1 DEF Spool!RecoverClaims
  <2>2. Spool!Lapsed(clock) \subseteq rows
    BY DEF Spool!Lapsed
  <2>3. \A r \in rows : Spool!Unclaimed(r).payload = r.payload
    BY DEF CarrierTypes, Spool!Unclaimed
  <2>4. QED
    BY <2>1, <2>2, <2>3, RestingType DEF CarrierTypes
<1>2. CASE Spool!EnforceLimits(Desktop)
  <2>1. rows' \subseteq rows /\ clock' = clock
        /\ drainer' = [drainer EXCEPT ![Desktop].at = "enforced"]
        /\ drainer[Desktop].at = "recovered"
    BY <1>2 DEF Spool!EnforceLimits
  <2>2. drainer[Desktop] \in Spool!RestingState
    BY <2>1, DrainerTypes DEF CarrierTypes
  <2>3. [drainer[Desktop] EXCEPT !.at = "enforced"] \in Spool!RestingState
        /\ [drainer[Desktop] EXCEPT !.at = "enforced"].at = "enforced"
    BY <2>2 DEF Spool!RestingState
  <2>4. QED
    BY <2>1, <2>3 DEF CarrierTypes
<1>3. CASE Spool!Claim(Desktop)
  <2> DEFINE token == CHOOSE t \in 1..(MaxCount + 1) : t \notin Spool!InUse
  <2>1. ~(1..(MaxCount + 1) \subseteq Spool!InUse)
    BY <1>3 DEF Spool!Claim
  <2>2. token \in 1..(MaxCount + 1)
    BY <2>1
  <2>3. PICK r \in Spool!Pending(rows) :
          /\ rows' = (rows \ {r}) \cup
                     {Spool!ClaimedFor(r, token, drainer[Desktop].now + Lease)}
          /\ drainer' = [drainer EXCEPT ![Desktop] =
                [at |-> IF r.payload.valid THEN "claimed" ELSE "malformed",
                 now |-> drainer[Desktop].now, token |-> token, payload |-> r.payload]]
    BY <1>3 DEF Spool!Claim
  <2>4. clock' = clock
    BY <1>3 DEF Spool!Claim
  <2> HIDE DEF token
  <2>5. r \in rows /\ r.payload \in EventPayload /\ r.payload.valid = TRUE
    BY PayloadFields DEF Spool!Pending, CarrierTypes
  <2>6. Spool!ClaimedFor(r, token, drainer[Desktop].now + Lease).payload = r.payload
    BY DEF Spool!ClaimedFor
  <2>7. drainer[Desktop].now \in Nat
    BY DrainerTypes DEF CarrierTypes
  <2> DEFINE claim == [at |-> "claimed", now |-> drainer[Desktop].now, token |-> token,
                       payload |-> r.payload]
  <2>8. claim \in Spool!WorkingState /\ claim.at = "claimed"
    BY <2>2, <2>5, <2>7 DEF Spool!WorkingState, EventPayload
  <2>9. drainer' = [drainer EXCEPT ![Desktop] = claim]
    BY <2>3, <2>5
  <2> HIDE DEF claim
  <2>10. QED
    BY <2>3, <2>4, <2>5, <2>6, <2>8, <2>9 DEF CarrierTypes
<1>4. QED
  BY <1>1, <1>2, <1>3
LEMMA DrainerMoves ==
    ASSUME drainer \in [{Desktop} -> Spool!RestingState \cup Spool!WorkingState]
    PROVE  /\ Spool!ClaimNothing(Desktop) \/ Spool!Commit(Desktop) \/ Spool!Release(Desktop)
                \/ Spool!Abandon(Desktop)
                => drainer' = [drainer EXCEPT ![Desktop] = Spool!Resting("idle", 0)]
           /\ \A accepted \in BOOLEAN : Spool!Ingest(Desktop, accepted) =>
                /\ drainer[Desktop].at = "claimed"
                /\ drainer' \in [{Desktop} -> Spool!RestingState \cup Spool!WorkingState]
                /\ drainer'[Desktop].at = IF accepted THEN "ingested" ELSE "refused"
                /\ drainer'[Desktop].payload = drainer[Desktop].payload
<1>1. Spool!ClaimNothing(Desktop) \/ Spool!Commit(Desktop) \/ Spool!Release(Desktop)
        \/ Spool!Abandon(Desktop)
        => drainer' = [drainer EXCEPT ![Desktop] = Spool!Resting("idle", 0)]
  BY DEF Spool!ClaimNothing, Spool!Commit, Spool!Release, Spool!Abandon
<1>2. ASSUME NEW accepted \in BOOLEAN, Spool!Ingest(Desktop, accepted)
      PROVE  /\ drainer[Desktop].at = "claimed"
             /\ drainer' \in [{Desktop} -> Spool!RestingState \cup Spool!WorkingState]
             /\ drainer'[Desktop].at = IF accepted THEN "ingested" ELSE "refused"
             /\ drainer'[Desktop].payload = drainer[Desktop].payload
  <2> DEFINE at == IF accepted THEN "ingested" ELSE "refused"
             moved == [drainer[Desktop] EXCEPT !.at = at]
  <2>1. drainer[Desktop].at = "claimed" /\ drainer' = [drainer EXCEPT ![Desktop] = moved]
    BY <1>2 DEF Spool!Ingest
  <2>2. drainer[Desktop] \in Spool!WorkingState
    BY <2>1, DrainerTypes
  <2>3. moved \in Spool!WorkingState /\ moved.at = at
        /\ moved.payload = drainer[Desktop].payload
    BY <2>2 DEF Spool!WorkingState
  <2> HIDE DEF moved
  <2>4. QED
    BY <2>1, <2>3
<1>3. QED
  BY <1>1, <1>2

\* A payload in the spool was there before or belongs to the hook that inserts it.
LEMMA EnqueuedRows ==
    ASSUME NEW e \in Event, Spool!HookEnqueue(PayloadOf(e), e.time)
    PROVE  /\ \A r \in rows' : r \in rows \/ r.payload = PayloadOf(e)
           /\ drainer' = drainer /\ clock' = clock
<1> DEFINE p == PayloadOf(e)
           kept == rows \ Spool!Expired(rows, e.time)
           new == Spool!NewRow(p, e.time)
<1>1. \/ rows' = kept
      \/ \E dropped \in Spool!Excess(kept \cup {new}) : rows' = (kept \cup {new}) \ dropped
  BY DEF Spool!HookEnqueue, Spool!Enqueue
<1>2. new.payload = p
  BY DEF Spool!NewRow
<1>3. kept \subseteq rows
  OBVIOUS
<1>4. drainer' = drainer /\ clock' = clock
  BY DEF Spool!HookEnqueue
<1> HIDE DEF p, kept, new
<1>5. QED
  BY <1>1, <1>2, <1>3, <1>4 DEF p

LEMMA HeldIsRows == Spool!Held(Desktop) \subseteq rows
BY DEF Spool!Held

\* What leaves the rows by a commit has the identity of the claim.
LEMMA CommittedRows ==
    ASSUME Spool!Commit(Desktop)
    PROVE  /\ rows' \subseteq rows
           /\ \A r \in rows \ rows' : r.payload.key = drainer[Desktop].payload.key
           /\ drainer[Desktop].at = "ingested" /\ clock' = clock
BY DEF Spool!Commit, Spool!Held

LEMMA StoppedRows ==
    ASSUME \A r \in rows : r.payload \in EventPayload,
           \/ Spool!ClaimNothing(Desktop) \/ Spool!Release(Desktop) \/ Spool!Abandon(Desktop)
    PROVE  {r.payload : r \in rows'} = {r.payload : r \in rows} /\ clock' = clock
<1>1. \A r \in rows : Spool!Unclaimed(r).payload = r.payload
  BY DEF Spool!Unclaimed
<1>2. CASE Spool!ClaimNothing(Desktop) \/ Spool!Abandon(Desktop)
  BY <1>2 DEF Spool!ClaimNothing, Spool!Abandon
<1>3. CASE Spool!Release(Desktop)
  <2>1. /\ rows' = (rows \ Spool!Held(Desktop))
                     \cup {Spool!Unclaimed(r) : r \in Spool!Held(Desktop)}
        /\ clock' = clock
    BY <1>3 DEF Spool!Release
  <2>2. QED
    BY <1>1, <2>1, HeldIsRows
<1>4. QED
  BY <1>2, <1>3

-----------------------------------------------------------------------------
(***************************************************************************)
(* Types.                                                                  *)
(***************************************************************************)
HookAt == {"off", "signed", "waiting", "delivered", "spooling", "spooled", "failed"}

LEMMA HookMoveTypes ==
    ASSUME CarrierTypes, NEW e \in Event, NEW from, NEW to \in HookAt, HookMoves(e, from, to)
    PROVE  /\ hook' \in [Event -> [at : HookAt, instance : Nat]]
           /\ hook[e].at = from /\ hook'[e].at = to
           /\ \A f \in Event \ {e} : hook'[f] = hook[f]
BY DEF HookMoves, CarrierTypes, HookAt

LEMMA CarrierStart == DeliveryInit => CarrierTypes
<1> SUFFICES ASSUME DeliveryInit PROVE CarrierTypes
  OBVIOUS
<1>1. /\ rows = {} /\ clock = 0 /\ drainer = [d \in {Desktop} |-> Spool!Resting("idle", 0)]
      /\ wire = {} /\ restarts = 0
      /\ hook = [e \in Event |-> [at |-> "off", instance |-> NoInstance]]
      /\ published = NoInstance
  BY DEF DeliveryInit, Spool!Init, Init
<1>2. NoInstance \in Nat
  BY SchedulingAssumption DEF NoInstance
<1>3. QED
  BY <1>1, <1>2, RestingType DEF CarrierTypes

LEMMA ProcessGoesOn ==
    /\ \A e : IgnoreEvent(e) \/ ApplyEvent(e) \/ ApplyEventFails(e) => restarts' = restarts
    /\ \A n : Acknowledge(n) \/ AcknowledgeFails(n) => restarts' = restarts
BY DEF IgnoreEvent, ApplyEvent, ApplyEventFails, Acknowledge, AcknowledgeFails, RollBack

\* The steps of a hook.
LEMMA HookStepTypes ==
    ASSUME CarrierTypes, NEW e \in Event, HookStep(e)
    PROVE  /\ CarrierTypes'
           /\ drainer' = drainer /\ acked' = acked /\ handled' = handled
           /\ \A f \in Event : hook[f].at \in {"delivered", "spooled"} => hook'[f] = hook[f]
           /\ \A f \in Event \ {e} : hook'[f] = hook[f]
<1>1. /\ hook \in [Event -> [at : HookAt, instance : Nat]] /\ published \in Nat
      /\ restarts \in Nat
  BY DEF CarrierTypes, HookAt
<1> DEFINE Goal == /\ hook' \in [Event -> [at : HookAt, instance : Nat]]
                   /\ \A r \in rows' : r.payload \in EventPayload
                   /\ \A m \in wire' : m.event \in Event
                   /\ drainer' = drainer /\ clock' = clock /\ acked' = acked
                   /\ handled' = handled /\ published' = published /\ restarts' = restarts
                   /\ \A f \in Event : hook[f].at \in {"delivered", "spooled"}
                                          => hook'[f] = hook[f]
                   /\ \A f \in Event \ {e} : hook'[f] = hook[f]
<1>2. CASE HookStart(e)
  <2>1. PICK at \in {"signed", "spooling"} :
          hook' = [hook EXCEPT ![e] = [at |-> at, instance |-> published]]
    BY <1>2 DEF HookStart
  <2>2. hook[e].at = "off"
    BY <1>2 DEF HookStart
  <2>3. [at |-> at, instance |-> published] \in [at : HookAt, instance : Nat]
    BY <1>1 DEF HookAt
  <2>4. UNCHANGED <<rows, wire, drainer, clock, acked, handled, published, restarts>>
    BY <1>2 DEF HookStart, spoolVars, vars
  <2>5. Goal
    BY <1>1, <2>1, <2>2, <2>3, <2>4 DEF CarrierTypes
  <2>6. QED
    BY <1>1, <2>5 DEF CarrierTypes, HookAt
<1>3. CASE HookSend(e)
  <2>1. /\ HookMoves(e, "signed", "waiting")
        /\ wire' = wire \cup {[event |-> e, instance |-> hook[e].instance]}
        /\ UNCHANGED <<rows, drainer, clock, acked, handled, published, restarts>>
    BY <1>3 DEF HookSend, spoolVars, vars
  <2>2. Goal
    BY <1>1, <2>1, HookMoveTypes DEF CarrierTypes, HookAt
  <2>3. QED
    BY <1>1, <2>2 DEF CarrierTypes, HookAt
<1>4. CASE HookAcknowledged(e) \/ HookGivesUp(e) \/ HookFails(e)
  <2>1. PICK from \in {"signed", "waiting", "spooling"}, to \in HookAt : HookMoves(e, from, to)
    BY <1>4 DEF HookAcknowledged, HookGivesUp, HookFails, HookAt
  <2>2. UNCHANGED <<rows, wire, drainer, clock, acked, handled, published, restarts>>
    BY <1>4 DEF HookAcknowledged, HookGivesUp, HookFails, spoolVars, vars
  <2>3. Goal
    BY <1>1, <2>1, <2>2, HookMoveTypes DEF CarrierTypes
  <2>4. QED
    BY <1>1, <2>3 DEF CarrierTypes, HookAt
<1>5. CASE HookSpools(e)
  <2>1. PICK to \in HookAt : HookMoves(e, "spooling", to)
    BY <1>5 DEF HookSpools, HookAt
  <2>2. UNCHANGED <<wire, acked, handled, published, restarts>>
    BY <1>5 DEF HookSpools, vars
  <2>3. /\ \A r \in rows' : r \in rows \/ r.payload = PayloadOf(e)
        /\ drainer' = drainer /\ clock' = clock
    BY <1>5, EnqueuedRows DEF HookSpools
  <2>4. \A r \in rows' : r.payload \in EventPayload
    BY <2>3 DEF CarrierTypes, EventPayload
  <2>5. Goal
    BY <1>1, <2>1, <2>2, <2>3, <2>4, HookMoveTypes DEF CarrierTypes
  <2>6. QED
    BY <1>1, <2>5 DEF CarrierTypes, HookAt
<1>6. QED
  BY <1>2, <1>3, <1>4, <1>5 DEF HookStep

\* The steps of the socket, the drain, the user and the process.
LEMMA DesktopStepTypes ==
    ASSUME CarrierTypes, [DeliveryNext]_allVars, ~(\E e \in Event : HookStep(e))
    PROVE  CarrierTypes' /\ hook' = hook
<1>1. restarts \in Nat /\ published \in Nat /\ clock \in Nat
      /\ drainer \in [{Desktop} -> Spool!RestingState \cup Spool!WorkingState]
  BY DEF CarrierTypes
<1>2. ASSUME NEW m \in wire, Serve(m) PROVE CarrierTypes' /\ hook' = hook
  <2>1. wire' = wire \ {m} /\ UNCHANGED <<rows, drainer, clock, hook, published>>
    BY <1>2 DEF Serve, spoolVars
  <2>2. restarts' = restarts
    BY <1>2, ProcessGoesOn DEF Serve, Reduces, ReduceFails
  <2>3. QED
    BY <2>1, <2>2 DEF CarrierTypes
<1>3. ASSUME NEW m \in wire, Reject(m) PROVE CarrierTypes' /\ hook' = hook
  BY <1>3 DEF Reject, spoolVars, vars, CarrierTypes
<1>4. CASE Boot
  BY <1>1, <1>4 DEF Boot, spoolVars, vars, CarrierTypes
<1>5. CASE DrainIngests \/ DrainFails
  <2>1. PICK accepted \in BOOLEAN : Spool!Ingest(Desktop, accepted)
    BY <1>5 DEF DrainIngests, DrainFails
  <2>2. rows' = rows /\ clock' = clock
    BY <2>1 DEF Spool!Ingest
  <2>3. restarts' = restarts /\ UNCHANGED <<hook, wire, published>>
    BY <1>5, ProcessGoesOn DEF DrainIngests, DrainFails, Reduces, ReduceFails
  <2>4. drainer' \in [{Desktop} -> Spool!RestingState \cup Spool!WorkingState]
        /\ drainer'[Desktop].at # "idle"
    BY <1>1, <2>1, DrainerMoves
  <2>5. QED
    BY <2>2, <2>3, <2>4 DEF CarrierTypes
<1>6. CASE DrainClaims
  <2>1. UNCHANGED <<hook, wire, published, restarts>>
    BY <1>6 DEF DrainClaims, vars
  <2>2. /\ {r.payload : r \in rows'} \subseteq {r.payload : r \in rows}
        /\ drainer' \in [{Desktop} -> Spool!RestingState \cup Spool!WorkingState]
        /\ drainer'[Desktop].at \in {"recovered", "enforced", "claimed"}
        /\ clock' = clock
    BY <1>6, DrainSteps DEF DrainClaims
  <2>3. \A r \in rows' : r.payload \in EventPayload
    BY <2>2 DEF CarrierTypes
  <2>4. QED
    BY <2>1, <2>2, <2>3 DEF CarrierTypes
<1>7. CASE DrainCommits
  <2>1. Spool!Commit(Desktop) /\ UNCHANGED <<hook, wire, published, restarts>>
    BY <1>7 DEF DrainCommits, vars
  <2>2. drainer' = [drainer EXCEPT ![Desktop] = Spool!Resting("idle", 0)]
    BY <1>1, <2>1, DrainerMoves
  <2>3. rows' \subseteq rows /\ clock' = clock
    BY <2>1, CommittedRows
  <2>4. QED
    BY <2>1, <2>2, <2>3, RestingType DEF CarrierTypes
<1>8. CASE DrainStops
  <2>1. /\ Spool!ClaimNothing(Desktop) \/ Spool!Release(Desktop) \/ Spool!Abandon(Desktop)
        /\ UNCHANGED <<hook, wire, published, restarts>>
    BY <1>8 DEF DrainStops, vars
  <2>2. drainer' = [drainer EXCEPT ![Desktop] = Spool!Resting("idle", 0)]
    BY <1>1, <2>1, DrainerMoves
  <2>3. {r.payload : r \in rows'} = {r.payload : r \in rows} /\ clock' = clock
    BY <2>1, StoppedRows DEF CarrierTypes
  <2>4. \A r \in rows' : r.payload \in EventPayload
    BY <2>3 DEF CarrierTypes
  <2>5. QED
    BY <2>1, <2>2, <2>3, <2>4, RestingType DEF CarrierTypes
<1>9. ASSUME NEW n \in reducer.notifications, UserAcknowledges(n)
      PROVE  CarrierTypes' /\ hook' = hook
  <2>1. UNCHANGED <<rows, drainer, clock, hook, wire, published>>
    BY <1>9 DEF UserAcknowledges, spoolVars, deliveryVars
  <2>2. restarts' = restarts
    BY <1>9, ProcessGoesOn DEF UserAcknowledges
  <2>3. QED
    BY <2>1, <2>2 DEF CarrierTypes
<1>10. CASE Shutdown
  <2>1. /\ wire' = {} /\ drainer' = [drainer EXCEPT ![Desktop] = Spool!Resting("idle", 0)]
        /\ UNCHANGED <<rows, clock, hook, published>>
    BY <1>10 DEF Shutdown
  <2>2. restarts' = restarts + 1
    BY <1>10 DEF Shutdown, CrashRestart, ExitRestart, StartFrom
  <2>3. QED
    BY <1>1, <2>1, <2>2, RestingType DEF CarrierTypes
<1>11. CASE ClockTicks
  <2>1. clock' = clock + 1 /\ UNCHANGED <<rows, drainer, hook, wire, published, restarts>>
    BY <1>11 DEF ClockTicks, Spool!Tick, vars, deliveryVars
  <2>2. QED
    BY <1>1, <2>1 DEF CarrierTypes
<1>12. CASE UNCHANGED allVars
  BY <1>12 DEF allVars, vars, spoolVars, deliveryVars, CarrierTypes
<1>13. QED
  BY <1>2, <1>3, <1>4, <1>5, <1>6, <1>7, <1>8, <1>9, <1>10, <1>11, <1>12 DEF DeliveryNext

LEMMA CarrierStep == CarrierTypes /\ [DeliveryNext]_allVars => CarrierTypes'
BY HookStepTypes, DesktopStepTypes

LEMMA CarrierInvariance == DeliverySpec => []CarrierTypes
BY CarrierStart, CarrierStep, PTL DEF DeliverySpec

-----------------------------------------------------------------------------
(***************************************************************************)
(* Delivery is a behaviour of the application and of the spool.            *)
(***************************************************************************)
LEMMA ApplicationStep ==
    ASSUME CarrierTypes, [DeliveryNext]_allVars
    PROVE  [Next]_vars
<1>1. ASSUME NEW e \in Event, Reduces(e) \/ ReduceFails(e) PROVE Next
  BY <1>1 DEF Reduces, ReduceFails, Next
<1>2. ASSUME NEW m \in wire, Serve(m) PROVE Next
  BY <1>1, <1>2 DEF Serve, CarrierTypes
<1>3. CASE DrainIngests \/ DrainFails
  <2>1. drainer[Desktop].at = "claimed"
    BY <1>3 DEF DrainIngests, DrainFails
  <2>2. drainer[Desktop].payload \in EventPayload
    BY <2>1, DrainerTypes DEF CarrierTypes
  <2>3. drainer[Desktop].payload.event \in Event
    BY <2>2, PayloadFields
  <2>4. QED
    BY <1>1, <1>3, <2>3 DEF DrainIngests, DrainFails
<1>4. ASSUME NEW n \in reducer.notifications, UserAcknowledges(n) PROVE Next
  BY <1>4 DEF UserAcknowledges, Next
<1>5. CASE Shutdown
  BY <1>5 DEF Shutdown, Next
<1>6. ASSUME NEW e \in Event, HookStep(e) PROVE UNCHANGED vars
  BY <1>6 DEF HookStep, HookStart, HookSend, HookAcknowledged, HookGivesUp, HookSpools, HookFails
<1>7. QED
  BY <1>2, <1>3, <1>4, <1>5, <1>6
     DEF DeliveryNext, Reject, Boot, DrainClaims, DrainCommits, DrainStops, ClockTicks, allVars

\* Whatever the hooks, the socket and the drain do, the application state takes a
\* step of its own or none: all that holds of it holds here, of events that come
\* by two ways at once and again after a crash.
THEOREM DeliveryIsApplication == DeliverySpec => Spec
<1>1. DeliveryInit => Init
  BY DEF DeliveryInit
<1>2. CarrierTypes /\ [DeliveryNext]_allVars => [Next]_vars
  BY ApplicationStep
<1>3. QED
  BY <1>1, <1>2, CarrierInvariance, PTL DEF DeliverySpec, Spec

\* The hooks and the one desktop use the spool as it is specified, a shutdown in
\* the middle of the drain included.
THEOREM DeliveryIsSpool == DeliverySpec => Spool!Spec
<1>1. DeliveryInit => Spool!Init
  BY DEF DeliveryInit
<1>2. CarrierTypes /\ [DeliveryNext]_allVars => [Spool!Next]_(Spool!spoolVars)
  <2> SUFFICES ASSUME CarrierTypes, [DeliveryNext]_allVars
               PROVE  Spool!Next \/ UNCHANGED spoolVars
    BY DEF spoolVars, Spool!spoolVars
  <2>1. ASSUME Spool!DrainStep(Desktop) \/ Spool!Abandon(Desktop) PROVE Spool!Next
    BY <2>1 DEF Spool!Next
  <2>2. ASSUME NEW e \in Event, HookSpools(e) PROVE Spool!Next
    <3>1. Spool!HookEnqueue(PayloadOf(e), e.time)
      BY <2>2 DEF HookSpools
    <3>2. e.time \in 0..clock
      BY <3>1, EventFields DEF Spool!HookEnqueue, CarrierTypes
    <3>3. PayloadOf(e) \in {PayloadOf(f) : f \in Event}
      OBVIOUS
    <3> HIDE DEF PayloadOf
    <3>4. QED
      BY <3>1, <3>2, <3>3 DEF Spool!Next
  <2>3. ASSUME NEW e \in Event, HookStep(e) PROVE Spool!Next \/ UNCHANGED spoolVars
    BY <2>2, <2>3 DEF HookStep, HookStart, HookSend, HookAcknowledged, HookGivesUp, HookFails
  <2>4. CASE DrainIngests \/ DrainFails \/ DrainClaims \/ DrainCommits
    BY <2>1, <2>4 DEF DrainIngests, DrainFails, DrainClaims, DrainCommits, Spool!DrainStep
  <2>5. CASE DrainStops
    BY <2>1, <2>5 DEF DrainStops, Spool!DrainStep
  <2>6. CASE Shutdown
    <3>1. /\ clock + Lease <= MaxClock
          /\ drainer' = [drainer EXCEPT ![Desktop] = Spool!Resting("idle", 0)]
          /\ UNCHANGED <<rows, metrics, clock, inserts, commits, owed>>
      BY <2>6 DEF Shutdown
    <3>2. CASE drainer[Desktop].at = "idle"
      <4>1. drainer' = drainer
        BY <3>1, <3>2 DEF CarrierTypes
      <4>2. QED
        BY <3>1, <4>1 DEF spoolVars
    <3>3. CASE drainer[Desktop].at # "idle"
      BY <2>1, <3>1, <3>3 DEF Spool!Abandon
    <3>4. QED
      BY <3>2, <3>3
  <2>7. CASE ClockTicks
    BY <2>7 DEF ClockTicks, Spool!Next
  <2>8. QED
    BY <2>3, <2>4, <2>5, <2>6, <2>7
       DEF DeliveryNext, Serve, Reject, Boot, UserAcknowledges, allVars
<1>3. QED
  BY <1>1, <1>2, CarrierInvariance, PTL DEF DeliverySpec, Spool!Spec
-----------------------------------------------------------------------------
(***************************************************************************)
(* Delivery keeps its contract.                                            *)
(***************************************************************************)
\* What is still in the spool or was settled does not get lost.
Settled(e) == e.id \in Ids(handled) \/ e.id \in Ids(discarded)

LEMMA FateMoves ==
    ASSUME handled \subseteq handled', discarded \subseteq discarded',
           NEW e \in Event, e.id \in Spool!Keys(rows) => e.id \in Spool!Keys(rows') \/ Settled(e)'
    PROVE  Fate(e)' \in Contract!Prospects[Fate(e)]
<1>1. /\ e.id \in Ids(handled) => e.id \in Ids(handled')
      /\ e.id \in Ids(discarded) => e.id \in Ids(discarded')
  BY DEF Ids
<1>2. Contract!Prospects["new"] = {"new", "kept", "discarded", "handled"}
      /\ Contract!Prospects["kept"] = {"kept", "discarded", "handled"}
      /\ Contract!Prospects["discarded"] = {"discarded", "handled"}
      /\ Contract!Prospects["handled"] = {"handled"}
  BY DEF Contract!Prospects
<1> DEFINE a == e.id \in Ids(handled)
           b == e.id \in Ids(discarded)
           c == e.id \in Spool!Keys(rows)
           x == e.id \in Ids(handled')
           y == e.id \in Ids(discarded')
           z == e.id \in Spool!Keys(rows')
<1>3. Fate(e) = IF a THEN "handled" ELSE IF b THEN "discarded" ELSE IF c THEN "kept" ELSE "new"
  BY DEF Fate
<1>4. Fate(e)' = IF x THEN "handled" ELSE IF y THEN "discarded" ELSE IF z THEN "kept" ELSE "new"
  BY DEF Fate, Ids, Spool!Keys
<1>5. (a => x) /\ (b => y) /\ (c => z \/ x \/ y)
  BY <1>1 DEF Settled, Ids
<1> HIDE DEF a, b, c, x, y, z
<1>6. QED
  BY <1>2, <1>3, <1>4, <1>5

\* What leaves the rows in a step that records the discarded events is settled.
LEMMA DiscardedIsSettled ==
    ASSUME CarrierTypes,
           \A r \in rows : r.payload.event \in {s.payload.event : s \in rows'} \cup discarded',
           \A s \in rows' : s.payload \in EventPayload,
           NEW e \in Event, e.id \in Spool!Keys(rows)
    PROVE  e.id \in Spool!Keys(rows') \/ e.id \in Ids(discarded')
<1>1. PICK r \in rows : r.payload.key = e.id
  BY DEF Spool!Keys
<1>2. r.payload.event.id = e.id
  BY <1>1, PayloadFields DEF CarrierTypes
<1>3. CASE r.payload.event \in discarded'
  BY <1>2, <1>3 DEF Ids
<1>4. CASE r.payload.event \notin discarded'
  <2>1. PICK s \in rows' : s.payload.event = r.payload.event
    BY <1>4
  <2>2. s.payload.key = e.id
    BY <1>2, <2>1, PayloadFields
  <2>3. QED
    BY <2>2 DEF Spool!Keys
<1>5. QED
  BY <1>3, <1>4

\* The rows and the history of a step, for every event.
RowsAreSettled ==
    /\ handled \subseteq handled'
    /\ discarded \subseteq discarded'
    /\ \A e \in Event : e.id \in Spool!Keys(rows) => e.id \in Spool!Keys(rows') \/ Settled(e)'

LEMMA ReducesHandles ==
    ASSUME NEW e, Reduces(e) \/ ReduceFails(e)
    PROVE  handled \subseteq handled' /\ (Reduces(e) => e \in handled')
BY DEF Reduces, ReduceFails

LEMMA SettledStep ==
    ASSUME CarrierTypes, Answered, [DeliveryNext]_allVars
    PROVE  RowsAreSettled /\ Answered'
<1>1. CarrierTypes'
  BY CarrierStep
<1>2. drainer \in [{Desktop} -> Spool!RestingState \cup Spool!WorkingState]
  BY DEF CarrierTypes
<1> DEFINE Goal == RowsAreSettled /\ Answered'
<1>3. ASSUME rows' = rows, handled \subseteq handled', discarded' = discarded, acked' \subseteq handled',
             drainer'[Desktop].at = "ingested" => drainer'[Desktop].payload.event \in handled'
      PROVE  Goal
  BY <1>3 DEF RowsAreSettled, Answered
<1>4. ASSUME NEW e \in Event, HookStep(e) PROVE Goal
  <2>1. drainer' = drainer /\ acked' = acked /\ handled' = handled
    BY <1>4, HookStepTypes
  <2>2. CASE HookSpools(e)
    <3>1. discarded' = discarded \cup {r.payload.event : r \in rows \ rows'}
      BY <2>2 DEF HookSpools
    <3>2. \A r \in rows : r.payload.event \in {s.payload.event : s \in rows'} \cup discarded'
      BY <3>1
    <3>3. \A s \in rows' : s.payload \in EventPayload
      BY <1>1 DEF CarrierTypes
    <3>4. \A f \in Event : f.id \in Spool!Keys(rows)
                             => f.id \in Spool!Keys(rows') \/ f.id \in Ids(discarded')
      BY <3>2, <3>3, DiscardedIsSettled
    <3>5. RowsAreSettled
      BY <2>1, <3>1, <3>4 DEF RowsAreSettled, Settled, Ids
    <3>6. QED
      BY <2>1, <3>5 DEF Answered
  <2>3. CASE ~HookSpools(e)
    <3>1. rows' = rows /\ discarded' = discarded
      BY <1>4, <2>3
         DEF HookStep, HookStart, HookSend, HookAcknowledged, HookGivesUp, HookFails, spoolVars
    <3>2. QED
      BY <1>3, <2>1, <3>1 DEF Answered
  <2>4. QED
    BY <2>2, <2>3
<1>5. ASSUME NEW m \in wire, Serve(m) PROVE Goal
  <2>1. rows' = rows /\ drainer' = drainer /\ discarded' = discarded
    BY <1>5 DEF Serve, spoolVars
  <2>2. handled \subseteq handled' /\ acked' \subseteq handled'
    BY <1>5, ReducesHandles DEF Serve, Answered
  <2>3. QED
    BY <1>3, <2>1, <2>2 DEF Answered
<1>6. CASE DrainIngests
  <2> DEFINE e == drainer[Desktop].payload.event
  <2>1. Spool!Ingest(Desktop, TRUE) /\ Reduces(e) /\ acked' = acked /\ discarded' = discarded
    BY <1>6 DEF DrainIngests
  <2>2. drainer'[Desktop].at = "ingested"
        /\ drainer'[Desktop].payload = drainer[Desktop].payload
    BY <1>2, <2>1, DrainerMoves
  <2>3. rows' = rows
    BY <2>1 DEF Spool!Ingest
  <2>4. handled \subseteq handled' /\ e \in handled'
    BY <2>1, ReducesHandles
  <2>5. QED
    BY <1>3, <2>1, <2>2, <2>3, <2>4 DEF Answered
<1>7. CASE DrainFails
  <2> DEFINE e == drainer[Desktop].payload.event
  <2>1. Spool!Ingest(Desktop, FALSE) /\ ReduceFails(e) /\ acked' = acked
        /\ discarded' = discarded
    BY <1>7 DEF DrainFails
  <2>2. drainer'[Desktop].at = "refused"
    BY <1>2, <2>1, DrainerMoves
  <2>3. rows' = rows
    BY <2>1 DEF Spool!Ingest
  <2>4. handled \subseteq handled'
    BY <2>1, ReducesHandles
  <2>5. QED
    BY <1>3, <2>1, <2>2, <2>3, <2>4 DEF Answered
<1>8. CASE DrainClaims
  <2>1. discarded' = discarded \cup ({r.payload.event : r \in rows}
                                      \ {r.payload.event : r \in rows'})
        /\ acked' = acked /\ handled' = handled
    BY <1>8 DEF DrainClaims
  <2>2. \A r \in rows : r.payload.event \in {s.payload.event : s \in rows'} \cup discarded'
    BY <2>1
  <2>3. \A s \in rows' : s.payload \in EventPayload
    BY <1>1 DEF CarrierTypes
  <2>4. \A f \in Event : f.id \in Spool!Keys(rows)
                           => f.id \in Spool!Keys(rows') \/ f.id \in Ids(discarded')
    BY <2>2, <2>3, DiscardedIsSettled
  <2>5. RowsAreSettled
    BY <2>1, <2>4 DEF RowsAreSettled, Settled, Ids
  <2>6. drainer'[Desktop].at # "ingested"
    BY <1>8, DrainSteps DEF DrainClaims
  <2>7. QED
    BY <2>1, <2>5, <2>6 DEF Answered
<1>9. CASE DrainCommits
  <2>1. Spool!Commit(Desktop)
        /\ acked' = acked /\ handled' = handled /\ discarded' = discarded
    BY <1>9 DEF DrainCommits
  <2>2. /\ rows' \subseteq rows
        /\ \A r \in rows \ rows' : r.payload.key = drainer[Desktop].payload.key
        /\ drainer[Desktop].at = "ingested"
    BY <2>1, CommittedRows
  <2>3. drainer[Desktop].payload.key \in Ids(handled)
    <3>1. drainer[Desktop].payload \in EventPayload
      BY <1>2, <2>2, DrainerTypes
    <3>2. drainer[Desktop].payload.event \in handled
      BY <2>2 DEF Answered
    <3>3. QED
      BY <3>1, <3>2, PayloadFields DEF Ids
  <2>4. \A f \in Event : f.id \in Spool!Keys(rows)
                           => f.id \in Spool!Keys(rows') \/ f.id \in Ids(handled')
    BY <2>1, <2>2, <2>3 DEF Spool!Keys
  <2>5. RowsAreSettled
    BY <2>1, <2>4 DEF RowsAreSettled, Settled, Ids
  <2>6. drainer'[Desktop].at # "ingested"
    BY <1>2, <2>1, DrainerMoves, RestingType
  <2>7. QED
    BY <2>1, <2>5, <2>6 DEF Answered
<1>10. CASE DrainStops
  <2>1. /\ Spool!ClaimNothing(Desktop) \/ Spool!Release(Desktop) \/ Spool!Abandon(Desktop)
        /\ acked' = acked /\ handled' = handled /\ discarded' = discarded
    BY <1>10 DEF DrainStops
  <2>2. {r.payload : r \in rows'} = {r.payload : r \in rows}
    BY <2>1, StoppedRows DEF CarrierTypes
  <2>3. Spool!Keys(rows) \subseteq Spool!Keys(rows')
    <3>1. SUFFICES ASSUME NEW r \in rows PROVE r.payload.key \in Spool!Keys(rows')
      BY DEF Spool!Keys
    <3>2. PICK s \in rows' : s.payload = r.payload
      BY <2>2
    <3>3. QED
      BY <3>2 DEF Spool!Keys
  <2>4. RowsAreSettled
    BY <2>1, <2>3 DEF RowsAreSettled
  <2>5. drainer'[Desktop].at # "ingested"
    BY <1>2, <2>1, DrainerMoves, RestingType
  <2>6. QED
    BY <2>1, <2>4, <2>5 DEF Answered
<1>11. CASE Shutdown
  <2>1. /\ drainer' = [drainer EXCEPT ![Desktop] = Spool!Resting("idle", 0)]
        /\ UNCHANGED <<rows, acked, handled, discarded>>
    BY <1>11 DEF Shutdown
  <2>2. drainer'[Desktop].at # "ingested"
    BY <1>2, <2>1, RestingType
  <2>3. QED
    BY <1>3, <2>1, <2>2 DEF Answered
<1>12. CASE UNCHANGED <<rows, drainer, acked, handled, discarded>>
  BY <1>12, <1>3 DEF Answered
<1>13. ASSUME NEW m \in wire, Reject(m) PROVE UNCHANGED <<rows, drainer, acked, handled, discarded>>
  BY <1>13 DEF Reject, spoolVars
<1>14. ASSUME NEW n \in reducer.notifications, UserAcknowledges(n)
       PROVE  UNCHANGED <<rows, drainer, acked, handled, discarded>>
  BY <1>14 DEF UserAcknowledges, spoolVars, deliveryVars
<1>15. Boot \/ ClockTicks \/ UNCHANGED allVars
         => UNCHANGED <<rows, drainer, acked, handled, discarded>>
  BY DEF Boot, ClockTicks, Spool!Tick, allVars, spoolVars, deliveryVars
<1>16. QED
  BY <1>4, <1>5, <1>6, <1>7, <1>8, <1>9, <1>10, <1>11, <1>12, <1>13, <1>14, <1>15
     DEF DeliveryNext

\* A hook reports success for what was acknowledged or is a row of the spool.
LEMMA PromisedStep ==
    ASSUME CarrierTypes, Answered, RowsAreSettled, [DeliveryNext]_allVars
    PROVE  /\ Promised \subseteq Promised'
           /\ \A e \in Promised' : e \in Promised \/ Fate(e)' # "new"
<1>1. hook \in [Event -> [at : HookAt, instance : Nat]]
  BY DEF CarrierTypes, HookAt
<1>2. CASE ~(\E e \in Event : HookStep(e))
  BY <1>2, DesktopStepTypes DEF Promised
<1>3. ASSUME NEW e \in Event, HookStep(e) PROVE
           /\ Promised \subseteq Promised'
           /\ \A f \in Promised' : f \in Promised \/ Fate(f)' # "new"
  <2>1. /\ handled' = handled
        /\ \A f \in Event : hook[f].at \in {"delivered", "spooled"} => hook'[f] = hook[f]
        /\ \A f \in Event \ {e} : hook'[f] = hook[f]
    BY <1>3, HookStepTypes
  <2>2. Promised \subseteq Promised'
    BY <2>1 DEF Promised
  <2>3. \A f \in Promised' : f \in Promised \/ f = e
    BY <2>1 DEF Promised
  <2>4. ASSUME e \in Promised', e \notin Promised PROVE Fate(e)' # "new"
    <3>1. hook'[e].at \in {"delivered", "spooled"} /\ hook[e].at \notin {"delivered", "spooled"}
      BY <2>4 DEF Promised
    <3>2. CASE HookAcknowledged(e)
      <4>1. e \in handled'
        BY <2>1, <3>2 DEF HookAcknowledged, Answered
      <4>2. QED
        BY <4>1 DEF Fate, Ids
    <3>3. CASE HookSpools(e)
      <4>1. hook'[e].at = IF e.id \in Spool!Keys(rows') THEN "spooled" ELSE "failed"
        BY <1>1, <3>3 DEF HookSpools, HookMoves
      <4>2. e.id \in Spool!Keys(rows')
        BY <3>1, <4>1
      <4>3. QED
        BY <4>2 DEF Fate, Spool!Keys
    <3>4. CASE HookStart(e)
      BY <1>1, <3>1, <3>4 DEF HookStart
    <3>5. CASE HookSend(e) \/ HookGivesUp(e) \/ HookFails(e)
      BY <1>1, <3>1, <3>5 DEF HookSend, HookGivesUp, HookFails, HookMoves
    <3>6. QED
      BY <1>3, <3>2, <3>3, <3>4, <3>5 DEF HookStep
  <2>5. QED
    BY <2>2, <2>3, <2>4
<1>4. QED
  BY <1>2, <1>3

LEMMA DeliveryInvStart == DeliveryInit => DeliveryInv
<1> SUFFICES ASSUME DeliveryInit PROVE DeliveryInv
  OBVIOUS
<1>1. acked = {} /\ drainer = [d \in {Desktop} |-> Spool!Resting("idle", 0)]
      /\ hook = [e \in Event |-> [at |-> "off", instance |-> NoInstance]]
  BY DEF DeliveryInit, Spool!Init
<1>2. Answered
  BY <1>1, RestingType DEF Answered
<1>3. Promised = {}
  BY <1>1 DEF Promised
<1>4. QED
  BY <1>2, <1>3, CarrierStart DEF DeliveryInv, PromisedIsSomewhere

\* One step of delivery is one step of the contract.
LEMMA ContractStep ==
    ASSUME DeliveryInv, [DeliveryNext]_allVars
    PROVE  DeliveryInv' /\ Contract!Deliver
<1>1. CarrierTypes' /\ RowsAreSettled /\ Answered'
  BY CarrierStep, SettledStep DEF DeliveryInv
<1>2. \A e \in Event : Fate(e)' \in Contract!Prospects[Fate(e)]
  BY <1>1, FateMoves DEF RowsAreSettled
<1>3. \A e \in Event : /\ Fate(e) \in {"new", "kept", "discarded", "handled"}
                       /\ Fate(e)' \in {"new", "kept", "discarded", "handled"}
  BY DEF Fate
<1>4. /\ Promised \subseteq Promised'
      /\ \A e \in Promised' : e \in Promised \/ Fate(e)' # "new"
  BY <1>1, PromisedStep DEF DeliveryInv
<1>5. Promised' \subseteq Event
  BY DEF Promised
<1>6. \A e \in Promised' : Fate(e)' # "new"
  <2>1. SUFFICES ASSUME NEW e \in Promised PROVE Fate(e)' # "new"
    BY <1>4
  <2>2. e \in Event /\ Fate(e) \in {"kept", "discarded", "handled"}
    BY <1>3 DEF DeliveryInv, PromisedIsSomewhere, Promised
  <2>3. QED
    BY <1>2, <2>2 DEF Contract!Prospects
<1>7. PromisedIsSomewhere'
  BY <1>6 DEF PromisedIsSomewhere
<1>8. DOMAIN Contract!Prospects = {"new", "kept", "discarded", "handled"}
  BY DEF Contract!Prospects
<1> DEFINE fate == [e \in Event |-> Fate(e)]
<1>9. fate' = [e \in Event |-> Fate(e)']
  OBVIOUS
<1>10. /\ fate' \in [Event -> DOMAIN Contract!Prospects]
       /\ \A e \in Event : fate'[e] \in Contract!Prospects[fate[e]]
       /\ \A e \in Promised' : fate'[e] # "new"
  BY <1>2, <1>3, <1>5, <1>6, <1>8, <1>9
<1>11. Contract!Deliver
  BY <1>4, <1>5, <1>10 DEF Contract!Deliver
<1>12. QED
  BY <1>1, <1>7, <1>11 DEF DeliveryInv

\* A hook that reports success leaves its event with the reducer, in the spool or
\* with retention, which alone may discard it: no interleaving of hooks that give
\* up, messages, claims that lapse, late commits and crashes forgets it.  (That
\* what is kept is settled in the end needs fairness and stays with TLC.)
THEOREM DeliveryKeepsContract == DeliverySpec => Contract!Spec
<1>1. DeliveryInit => Contract!Init
  <2> SUFFICES ASSUME DeliveryInit PROVE Contract!Init
    OBVIOUS
  <2>1. rows = {} /\ handled = {} /\ discarded = {}
        /\ hook = [e \in Event |-> [at |-> "off", instance |-> NoInstance]]
    BY DEF DeliveryInit, Spool!Init
  <2>2. \A e \in Event : Fate(e) = "new"
    BY <2>1 DEF Fate, Ids, Spool!Keys
  <2>3. Promised = {}
    BY <2>1 DEF Promised
  <2>4. QED
    BY <2>2, <2>3 DEF Contract!Init
<1>2. DeliveryInv /\ [DeliveryNext]_allVars => DeliveryInv' /\ [Contract!Deliver]_(Contract!contractVars)
  BY ContractStep
<1>3. QED
  BY <1>1, <1>2, DeliveryInvStart, PTL DEF DeliverySpec, Contract!Spec

-----------------------------------------------------------------------------
(***************************************************************************)
(* How often an event is applied.                                          *)
(***************************************************************************)
\* The desktop is not started again: the identities it remembers do not outlive it.
OneProcess == restarts = 0

\* Every event is of a turn; the end and the start of a session leave no record.
OfTurnsOnly == \A e \in Event : e.type \in TurnEvent

\* What was applied is past.
Counted(e) == applied[e] = 0 \/ (applied[e] = 1 /\ Past(reducer, e))
TurnEventsCounted ==
    /\ applied \in [Event -> Nat]
    /\ \A e \in Event : e.type \in TurnEvent => Counted(e)

\* Hooks, spool and socket leave the count alone; the reducer adds to that of the one
\* event it applies.
LEMMA CountMoves ==
    ASSUME CarrierTypes, [DeliveryNext]_allVars
    PROVE  \/ applied' = applied
           \/ \E f \in Event : ApplyEvent(f) /\ applied' = [applied EXCEPT ![f] = @ + 1]
<1>1. ASSUME NEW f \in Event, Reduces(f) \/ ReduceFails(f)
      PROVE  \/ applied' = applied
             \/ ApplyEvent(f) /\ applied' = [applied EXCEPT ![f] = @ + 1]
  BY <1>1 DEF Reduces, ReduceFails
<1>2. ASSUME NEW m \in wire, Serve(m) PROVE \E f \in Event : Reduces(f) \/ ReduceFails(f)
  BY <1>2 DEF Serve, CarrierTypes
<1>3. CASE DrainIngests \/ DrainFails
  <2>1. drainer[Desktop].at = "claimed"
    BY <1>3 DEF DrainIngests, DrainFails
  <2>2. drainer[Desktop].payload \in EventPayload
    BY <2>1, DrainerTypes DEF CarrierTypes
  <2>3. drainer[Desktop].payload.event \in Event
    BY <2>2, PayloadFields
  <2> QED
    BY <1>1, <1>3, <2>3 DEF DrainIngests, DrainFails
<1>4. ASSUME NEW e \in Event, HookStep(e) PROVE applied' = applied
  BY <1>4 DEF HookStep, HookStart, HookSend, HookAcknowledged, HookGivesUp, HookSpools, HookFails
<1>5. CASE (\E m \in wire : Reject(m)) \/ Boot \/ DrainClaims \/ DrainCommits \/ DrainStops
  BY <1>5 DEF Reject, Boot, DrainClaims, DrainCommits, DrainStops
<1>6. CASE (\E n \in reducer.notifications : UserAcknowledges(n)) \/ Shutdown \/ ClockTicks
  BY <1>6 DEF UserAcknowledges, Shutdown, ClockTicks, deliveryVars
<1>7. CASE UNCHANGED allVars
  BY <1>7 DEF allVars, deliveryVars
<1> QED
  BY <1>1, <1>2, <1>3, <1>4, <1>5, <1>6, <1>7 DEF DeliveryNext

LEMMA CountedStep ==
    ASSUME CarrierTypes, EndInv, TurnEventsCounted, [DeliveryNext]_allVars, restarts' = restarts
    PROVE  TurnEventsCounted'
<1>1. [Next]_vars
  BY ApplicationStep
<1>2. \A e \in Event : e.type \in TurnEvent =>
          /\ ApplyEvent(e) => ~Past(reducer, e) /\ Past(reducer', e)
          /\ Past(reducer, e) => Past(reducer', e)
  BY <1>1, TurnEventStep
<1>3. CASE applied' = applied
  BY <1>2, <1>3 DEF TurnEventsCounted, Counted
<1>4. ASSUME NEW f \in Event, ApplyEvent(f), applied' = [applied EXCEPT ![f] = @ + 1]
      PROVE  TurnEventsCounted'
  <2>1. applied' \in [Event -> Nat]
    BY <1>4 DEF TurnEventsCounted
  <2>2. ASSUME NEW e \in Event, e.type \in TurnEvent PROVE Counted(e)'
    <3>1. CASE e = f
      <4>1. ~Past(reducer, e) /\ Past(reducer', e)
        BY <1>2, <1>4, <2>2, <3>1
      <4>2. applied[e] = 0
        BY <2>2, <4>1 DEF TurnEventsCounted, Counted
      <4>3. applied'[e] = 1
        BY <1>4, <3>1, <4>2 DEF TurnEventsCounted
      <4> QED
        BY <4>1, <4>3 DEF Counted
    <3>2. CASE e # f
      <4>1. applied'[e] = applied[e]
        BY <1>4, <3>2 DEF TurnEventsCounted
      <4>2. Counted(e)
        BY <2>2 DEF TurnEventsCounted
      <4> QED
        BY <1>2, <2>2, <4>1, <4>2 DEF Counted
    <3> QED
      BY <3>1, <3>2
  <2> QED
    BY <2>1, <2>2 DEF TurnEventsCounted
<1> QED
  BY <1>3, <1>4, CountMoves

\* "produces one state transition" (session-event-integration/spec.md:55), of the events of
\* turns, for a desktop that is not started again: through the socket, the spool or both,
\* in any order, after an acknowledgement that came too late or was lost, and out of a claim
\* that lapsed and was taken twice, an event is applied once.
THEOREM DeliveredTwiceIsAppliedOnce ==
    OfTurnsOnly /\ DeliverySpec /\ []OneProcess => []AppliedOnce
<1>1. DeliveryInit => TurnEventsCounted
  BY DEF DeliveryInit, TurnEventsCounted, Counted
<1>2. /\ CarrierTypes /\ EndInv /\ TurnEventsCounted /\ OneProcess /\ OneProcess'
      /\ [DeliveryNext]_allVars
      => TurnEventsCounted'
  BY CountedStep DEF OneProcess
<1>3. CarrierTypes /\ EndInv /\ [DeliveryNext]_allVars => EndInv'
  BY ApplicationStep, EndInvNext
<1>4. DeliveryInit => EndInv
  BY EndInvInit DEF DeliveryInit
<1>5. OfTurnsOnly /\ TurnEventsCounted => AppliedOnce
  BY DEF OfTurnsOnly, TurnEventsCounted, Counted, AppliedOnce
<1>6. DeliverySpec => []CarrierTypes
  BY CarrierInvariance
<1>7. OfTurnsOnly => OfTurnsOnly'
  BY DEF OfTurnsOnly
<1> QED
  BY <1>1, <1>2, <1>3, <1>4, <1>5, <1>6, <1>7, PTL DEF DeliverySpec

\* What was applied is over.
EventsCounted ==
    /\ applied \in [Event -> Nat]
    /\ \A e \in Event :
          applied[e] = 0 \/ (applied[e] = 1 /\ Over(reducer.sessions[e.session], e))

CountInv == EndInv /\ Chronicled(reducer.sessions) /\ EventsCounted

LEMMA CountInvStep ==
    ASSUME StampsTellEventsApart, SessionsFit, CarrierTypes, CountInv, [DeliveryNext]_allVars
    PROVE  CountInv'
<1> DEFINE OverNow(e) == Over(reducer.sessions[e.session], e)
           OverNext(e) == Over(reducer'.sessions[e.session], e)
<1>1. [Next]_vars
  BY ApplicationStep
<1>2. EndInv'
  BY <1>1, EndInvNext DEF CountInv
<1>3. /\ Chronicled(reducer'.sessions)
      /\ \A e \in Event : /\ ApplyEvent(e) => ~OverNow(e) /\ OverNext(e)
                          /\ OverNow(e) => OverNext(e)
  BY <1>1, OverStep DEF CountInv
<1>4. /\ applied \in [Event -> Nat]
      /\ \A e \in Event : applied[e] = 0 \/ (applied[e] = 1 /\ OverNow(e))
  BY DEF CountInv, EventsCounted
<1>5. SUFFICES /\ applied' \in [Event -> Nat]
               /\ \A e \in Event : applied'[e] = 0 \/ (applied'[e] = 1 /\ OverNext(e))
  BY <1>2, <1>3 DEF CountInv, EventsCounted
<1> HIDE DEF OverNow, OverNext
<1>6. CASE applied' = applied
  BY <1>3, <1>4, <1>6
<1>7. ASSUME NEW f \in Event, ApplyEvent(f), applied' = [applied EXCEPT ![f] = @ + 1]
      PROVE  /\ applied' \in [Event -> Nat]
             /\ \A e \in Event : applied'[e] = 0 \/ (applied'[e] = 1 /\ OverNext(e))
  <2>1. applied[f] = 0 /\ OverNext(f)
    BY <1>3, <1>4, <1>7
  <2>2. applied' = [applied EXCEPT ![f] = 1]
    BY <1>7, <2>1
  <2> QED
    BY <1>3, <1>4, <2>1, <2>2
<1> QED
  BY <1>6, <1>7, CountMoves

\* "produces one state transition" (session-event-integration/spec.md:55), of all events and
\* through any number of crashes and exits: the window of remembered identities is lost with
\* the process, but what is saved of a session still refuses all that was applied to it, as
\* long as no two events of a session have the same stamp and every session has its place in
\* the database.  An event whose session was displaced there may be applied again.
THEOREM DeliveredAgainIsAppliedOnce ==
    StampsTellEventsApart /\ SessionsFit /\ DeliverySpec => []AppliedOnce
<1>1. DeliveryInit => CountInv
  BY EndInvInit, ChronicledInit DEF DeliveryInit, CountInv, EventsCounted
<1>2. /\ StampsTellEventsApart /\ SessionsFit /\ CarrierTypes /\ CountInv
      /\ [DeliveryNext]_allVars
      => CountInv'
  BY CountInvStep
<1>3. CountInv => AppliedOnce
  BY DEF CountInv, EventsCounted, AppliedOnce
<1>4. StampsTellEventsApart => StampsTellEventsApart'
  BY DEF StampsTellEventsApart
<1>5. SessionsFit => SessionsFit'
  BY DEF SessionsFit
<1> QED
  BY <1>1, <1>2, <1>3, <1>4, <1>5, CarrierInvariance, PTL DEF DeliverySpec
=============================================================================
