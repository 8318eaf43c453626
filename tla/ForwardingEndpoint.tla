-------------------------- MODULE ForwardingEndpoint --------------------------
(***************************************************************************)
(* The Unix socket between hook processes and the desktop: how a desktop   *)
(* takes over the path of the socket and publishes the credentials that go *)
(* with it, how it serves connections to its one ingestion actor, and what *)
(* a hook that read the published credentials meets there                  *)
(* (lili-session/src/transport.rs, lili-app-state/src/ingestion.rs).       *)
(*                                                                         *)
(* Any number of desktops may be started, die or leave between two steps.  *)
(* A connection is known by who made it; freshness and the reducer are in  *)
(* Delivery, the evidence that goes with the credentials in                *)
(* PluginMigration.                                                        *)
(***************************************************************************)
EXTENDS Integers, Sequences, FiniteSets

CONSTANTS
    Desk,          \* desktop processes, each started once
    Caller,        \* hook processes
    InboxCapacity  \* DEFAULT_INGESTION_QUEUE_CAPACITY

ASSUME EndpointAssumption ==
    /\ InboxCapacity \in Nat \ {0}
    /\ Desk \cup Caller \subseteq Nat \ {0} /\ Desk \cap Caller = {}

Nobody == 0
\* A desktop of the past: its socket or its credentials may still be there.
Former == -1

VARIABLES
    path,        \* the listener the socket's path leads to
    listening,   \* desktops whose listener is open
    credential,  \* the instance in the credential file
    desk,        \* how far each desktop is
    caller,      \* each hook: where it is, for whom it signed, whom it reached
    wires,       \* connections nobody has read from: made by, to, and whether a frame came
    inbox,       \* the commands before each desktop's actor
    answer,      \* what a hook's connection holds for it
    diagnostics, \* each desktop's counters
    overlapped   \* history: two desktops were starting at the same time

endpointVars == <<path, listening, credential, desk, caller, wires, inbox, answer,
                  diagnostics, overlapped>>
deskVars == <<path, listening, credential, overlapped>>
lineVars == <<wires, inbox, answer, diagnostics>>

Starting == {"looks", "probes", "removes", "binds", "hardens", "publishes"}
Up(d) == d \in Desk /\ desk[d] \in {"draining", "serving"}

EndpointInit ==
    /\ path \in {Nobody, Former} /\ credential \in {Nobody, Former} /\ listening = {}
    /\ desk = [d \in Desk |-> "off"]
    /\ caller = [h \in Caller |-> [at |-> "off", for |-> Nobody, to |-> Nobody]]
    /\ wires = {} /\ inbox = [d \in Desk |-> <<>>]
    /\ answer = [h \in Caller |-> "none"]
    /\ diagnostics = [d \in Desk |-> [accepted |-> 0, authentication |-> 0, transport |-> 0]]
    /\ overlapped = FALSE

Step(d, from, to) == desk[d] = from /\ desk' = [desk EXCEPT ![d] = to]
Tallied(d, counter) == diagnostics' = [diagnostics EXCEPT ![d][counter] = @ + 1]

-------------------------------------------------------------------------------
(***************************************************************************)
(* PlatformListener::bind and bind_inner.  A start that fails leaves a     *)
(* desktop that runs without ingestion.                                    *)
(***************************************************************************)
StartsEndpoint(d) ==
    /\ Step(d, "off", "looks")
    /\ overlapped' = (overlapped \/ \E o \in Desk : desk[o] \in Starting)
    /\ UNCHANGED <<path, listening, credential, caller, lineVars>>

LooksAtPath(d) ==
    /\ Step(d, "looks", IF path = Nobody THEN "binds" ELSE "probes")
    /\ UNCHANGED <<deskVars, caller, lineVars>>

\* Mutant: nobody asks whether the socket is live.
ProbesNothing(d) ==
    /\ Step(d, "probes", "removes")
    /\ UNCHANGED <<deskVars, caller, lineVars>>

\* The connection that finds a listener is dropped at once.
Probes(d) ==
    /\ IF path \in listening
       THEN Step(d, "probes", "without")
            /\ wires' = wires \cup {[by |-> d, to |-> path, frame |-> FALSE]}
       ELSE Step(d, "probes", "removes") /\ UNCHANGED wires
    /\ UNCHANGED <<deskVars, caller, inbox, answer, diagnostics>>

RemovesStale(d) ==
    /\ Step(d, "removes", IF path = Nobody THEN "without" ELSE "binds")
    /\ path' = Nobody
    /\ UNCHANGED <<listening, credential, overlapped, caller, lineVars>>

BindsPath(d) ==
    /\ IF path = Nobody
       THEN Step(d, "binds", "hardens") /\ path' = d /\ listening' = listening \cup {d}
       ELSE Step(d, "binds", "without") /\ UNCHANGED <<path, listening>>
    /\ UNCHANGED <<credential, overlapped, caller, lineVars>>

\* Permissions are set by name, before a PlatformListener guards the path.
HardensPath(d) ==
    /\ IF path # Nobody
       THEN Step(d, "hardens", "publishes") /\ UNCHANGED listening
       ELSE Step(d, "hardens", "without") /\ listening' = listening \ {d}
    /\ UNCHANGED <<path, credential, overlapped, caller, lineVars>>

\* bind_inner: the evidence is saved and the credential file is replaced, or
\* the listener is dropped; what fails may be the sync after the replacement.
PublishesCredentials(d) ==
    /\ \/ Step(d, "publishes", "draining") /\ credential' = d
       \/ Step(d, "publishes", "drops") /\ credential' \in {credential, d}
    /\ UNCHANGED <<path, listening, overlapped, caller, lineVars>>

FirstDrainEnds(d) ==
    /\ Step(d, "draining", "serving")
    /\ UNCHANGED <<deskVars, caller, lineVars>>

\* What waits for an answer of d gets none any more.
Closed(d) == [h \in Caller |-> IF caller[h].to = d /\ answer[h] = "none" THEN "closed" ELSE answer[h]]

\* The desktop ends and the runtime drops the endpoint: PlatformListener::drop
\* removes the path by name, and then the descriptor is closed.
Leaves(d) ==
    /\ \E from \in {"draining", "serving"} : Step(d, from, "drops")
    /\ UNCHANGED <<deskVars, caller, lineVars>>

DropsPath(d) ==
    /\ Step(d, "drops", "closes")
    /\ path' = Nobody
    /\ UNCHANGED <<listening, credential, overlapped, caller, lineVars>>

\* Mutant: the path is removed once more after the descriptor is closed.
ClosesThenRemoves(d) ==
    /\ Step(d, "closes", "gone")
    /\ path' = Nobody
    /\ listening' = listening \ {d}
    /\ wires' = {w \in wires : w.to # d} /\ inbox' = [inbox EXCEPT ![d] = <<>>]
    /\ answer' = Closed(d)
    /\ UNCHANGED <<credential, overlapped, caller, diagnostics>>

ClosesListener(d) ==
    /\ Step(d, "closes", "gone")
    /\ listening' = listening \ {d}
    /\ wires' = {w \in wires : w.to # d} /\ inbox' = [inbox EXCEPT ![d] = <<>>]
    /\ answer' = Closed(d)
    /\ UNCHANGED <<path, credential, overlapped, caller, diagnostics>>

\* The process ends, and nothing is removed.
DiesUnclean(d) ==
    /\ desk[d] \notin {"off", "gone"}
    /\ desk' = [desk EXCEPT ![d] = "gone"]
    /\ listening' = listening \ {d}
    /\ wires' = {w \in wires : w.to # d} /\ inbox' = [inbox EXCEPT ![d] = <<>>]
    /\ answer' = Closed(d)
    /\ UNCHANGED <<path, credential, overlapped, caller, diagnostics>>

-------------------------------------------------------------------------------
(***************************************************************************)
(* deliver_forwarding_message in a hook process.                           *)
(***************************************************************************)
Moves(h, from, to) == caller[h].at = from /\ caller' = [caller EXCEPT ![h].at = to]

\* ForwardingCredentialStore::load; without credentials the hook spools.
ReadsCredentials(h) ==
    /\ caller[h].at = "off"
    /\ \E at \in {"signed", "offline"} :
          /\ at = "signed" => credential # Nobody
          /\ caller' = [caller EXCEPT ![h] = [@ EXCEPT !.at = at, !.for = credential]]
    /\ UNCHANGED <<deskVars, desk, lineVars>>

Connects(h) ==
    /\ IF path \in listening
       THEN caller[h].at = "signed"
            /\ caller' = [caller EXCEPT ![h] = [@ EXCEPT !.at = "connected", !.to = path]]
       ELSE Moves(h, "signed", "unreachable")
    /\ UNCHANGED <<deskVars, desk, lineVars>>

WritesFrame(h) ==
    /\ answer[h] = "none"
    /\ Moves(h, "connected", "waiting")
    /\ wires' = wires \cup {[by |-> h, to |-> caller[h].to, frame |-> TRUE]}
    /\ UNCHANGED <<deskVars, desk, inbox, answer, diagnostics>>

\* CONNECTION_DEADLINE: the connection is dropped where it is.
TimesOut(h) ==
    /\ \E at \in {"signed", "connected", "waiting"} : Moves(h, at, "late")
    /\ wires' = IF caller[h].at = "connected" /\ answer[h] = "none"
                THEN wires \cup {[by |-> h, to |-> caller[h].to, frame |-> FALSE]} ELSE wires
    /\ UNCHANGED <<deskVars, desk, inbox, answer, diagnostics>>

\* validate_for: an acknowledgement; anything else is an error, and the hook spools.
ReadsAnswer(h) ==
    /\ \/ answer[h] = "acknowledged" /\ Moves(h, "waiting", "delivered")
       \/ answer[h] = "refused" /\ Moves(h, "waiting", "refused")
       \/ answer[h] = "closed" /\ \E at \in {"connected", "waiting"} : Moves(h, at, "failed")
    /\ UNCHANGED <<deskVars, desk, lineVars>>

-------------------------------------------------------------------------------
(***************************************************************************)
(* serve_native_ingestion, its connection tasks, and the actor.            *)
(***************************************************************************)
\* read_forwarding_payload ends without a frame; the actor counts it when its
\* queue has room.
FrameMissing(w) ==
    /\ desk[w.to] = "serving" /\ ~w.frame
    /\ wires' = wires \ {w}
    /\ Tallied(w.to, "transport")
    /\ UNCHANGED <<deskVars, desk, caller, inbox, answer>>

\* NativeIngestionHandle::ingest waits for room in the channel.
FrameRead(w) ==
    /\ desk[w.to] = "serving" /\ w.frame
    /\ Len(inbox[w.to]) < InboxCapacity
    /\ wires' = wires \ {w}
    /\ inbox' = [inbox EXCEPT ![w.to] = Append(@, w.by)]
    /\ UNCHANGED <<deskVars, desk, caller, answer, diagnostics>>

\* verify_payload: the instance of the message.
SignedFor(h, d) == caller[h].for = d

\* NativeIngestionActor::run takes one command at a time; a verified event is
\* reduced, and no answer comes if what was reduced cannot be saved.
ActorIngests(d) ==
    /\ Up(d) /\ inbox[d] # <<>>
    /\ inbox' = [inbox EXCEPT ![d] = Tail(@)]
    /\ LET h == Head(inbox[d]) IN
       \/ ~SignedFor(h, d) /\ Tallied(d, "authentication") /\ answer' = [answer EXCEPT ![h] = "refused"]
       \/ SignedFor(h, d) /\ Tallied(d, "accepted") /\ answer' = [answer EXCEPT ![h] = "acknowledged"]
       \/ SignedFor(h, d) /\ answer' = [answer EXCEPT ![h] = "closed"] /\ UNCHANGED diagnostics
    /\ UNCHANGED <<deskVars, desk, caller, wires>>

EndpointNext ==
    \/ \E d \in Desk :
          \/ StartsEndpoint(d) \/ LooksAtPath(d) \/ Probes(d) \/ RemovesStale(d)
          \/ BindsPath(d) \/ HardensPath(d) \/ PublishesCredentials(d) \/ FirstDrainEnds(d)
          \/ Leaves(d) \/ DropsPath(d) \/ ClosesListener(d) \/ DiesUnclean(d)
          \/ ActorIngests(d)
    \/ \E h \in Caller :
          ReadsCredentials(h) \/ Connects(h) \/ WritesFrame(h) \/ TimesOut(h) \/ ReadsAnswer(h)
    \/ \E w \in wires : FrameMissing(w) \/ FrameRead(w)

EndpointSpec == EndpointInit /\ [][EndpointNext]_endpointVars

-------------------------------------------------------------------------------
\* A start takes over a stale socket and leaves a live one alone
\* (transport.rs:1228), and what a dying desktop removes is its own: unless two starts
\* overlapped, a running desktop has its socket and its credentials published, and a
\* hook that signed for it finds nobody there, or somebody who refuses the signature,
\* only once it has gone (PlatformListener::bind, drop, bind_inner).
LiveDesktopIsReached ==
    overlapped \/
    /\ \A d \in Desk : Up(d) => path = d /\ credential = d
    /\ \A h \in Caller : caller[h].at \in {"unreachable", "refused"} => ~Up(caller[h].for)

===============================================================================
