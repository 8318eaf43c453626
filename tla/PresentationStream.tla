-------------------------- MODULE PresentationStream --------------------------
(***************************************************************************)
(* A presentation on its way to the pages: the revision given to it and    *)
(* the watch channel (lili-app-state/src/lib.rs), the task of each event   *)
(* stream (events, lili-server/src/lib.rs), the browser's EventSource and  *)
(* the cursor of the page (PresentationCursor, lili-ui/src/lib.rs).        *)
(*                                                                         *)
(* A presentation is its revision.  The watch channel keeps the last value *)
(* and a version; the mpsc channel holds Backlog presentations; the        *)
(* EventSource connects again by itself.  The fixture store publishes      *)
(* under one lock, which is the case of a single publisher.                *)
(***************************************************************************)
EXTENDS Integers, Sequences

CONSTANTS
    Viewer,      \* the documents: pet and notifications
    Publisher,   \* calls that end in publish_presentation
    Backlog,     \* capacity of the channel between task and response
    MaxRevision, MaxBreaks, MaxLoads  \* bounds

ASSUME StreamAssumption ==
    Backlog \in Nat \ {0} /\ MaxRevision \in Nat /\ MaxBreaks \in Nat /\ MaxLoads \in Nat

VARIABLES
    view,       \* revision of the ViewSnapshot
    publishing, \* Publisher -> the revision it wrote and has not sent, or 0
    watch,      \* the value in the channel and its version
    stream,     \* Viewer -> the task of its event stream
    wire,       \* Viewer -> presentations in the mpsc channel and on the connection
    document,   \* Viewer -> whether it is loaded, and the revision it shows
    crossed,    \* history: two publications were under way at once
    interrupted \* bounds: broken connections and loads

streamVars == <<view, publishing, watch, stream, wire, document, crossed, interrupted>>

Closed == [step |-> "closed", held |-> 0, last |-> 0, version |-> 0]

-------------------------------------------------------------------------------
\* publish_presentation: the revision under the lock of the snapshot, ...
WriteRevision(p) ==
    /\ publishing[p] = 0 /\ view < MaxRevision
    /\ view' = view + 1
    /\ publishing' = [publishing EXCEPT ![p] = view + 1]
    /\ crossed' = (crossed \/ \E q \in Publisher : publishing[q] # 0)
    /\ UNCHANGED <<watch, stream, wire, document, interrupted>>

\* ... send_replace outside of it.
SendReplace(p) ==
    /\ publishing[p] # 0
    /\ watch' = [value |-> publishing[p], version |-> watch.version + 1]
    /\ publishing' = [publishing EXCEPT ![p] = 0]
    /\ UNCHANGED <<view, stream, wire, document, crossed, interrupted>>

-------------------------------------------------------------------------------
\* ssr_shell: the document is rendered with the current snapshot, not with the
\* channel's value; a document that is loaded again loses its stream.
LoadDocument(v) ==
    /\ interrupted.loads < MaxLoads
    /\ interrupted' = [interrupted EXCEPT !.loads = @ + 1]
    /\ document' = [document EXCEPT ![v] = [loaded |-> TRUE, shown |-> view]]
    /\ stream' = [stream EXCEPT ![v] = Closed] /\ wire' = [wire EXCEPT ![v] = <<>>]
    /\ UNCHANGED <<view, publishing, watch, crossed>>

\* Mutant of Subscribed: what is in the channel counts as seen.
SubscribedToChanges ==
    [step |-> "waiting", held |-> 0, last |-> watch.value, version |-> watch.version]

\* events: subscribe, borrow_and_update, and the snapshot is the first to be sent.
Subscribed ==
    [step |-> "holding", held |-> watch.value, last |-> watch.value, version |-> watch.version]

\* connect_presentation_stream, and every time the EventSource connects again.
Connect(v) ==
    /\ document[v].loaded /\ stream[v].step = "closed"
    /\ stream' = [stream EXCEPT ![v] = Subscribed]
    /\ UNCHANGED <<view, publishing, watch, wire, document, crossed, interrupted>>

\* changed: only a larger revision is sent.
Observe(v) ==
    /\ stream[v].step = "waiting" /\ stream[v].version # watch.version
    /\ stream' = [stream EXCEPT ![v] =
          IF watch.value <= @.last THEN [@ EXCEPT !.version = watch.version]
          ELSE [step |-> "holding", held |-> watch.value, last |-> watch.value,
                version |-> watch.version]]
    /\ UNCHANGED <<view, publishing, watch, wire, document, crossed, interrupted>>

\* sender.send waits for room; changes meanwhile collapse in the watch channel.
Forward(v) ==
    /\ stream[v].step = "holding" /\ Len(wire[v]) < Backlog
    /\ wire' = [wire EXCEPT ![v] = Append(@, stream[v].held)]
    /\ stream' = [stream EXCEPT ![v].step = "waiting"]
    /\ UNCHANGED <<view, publishing, watch, document, crossed, interrupted>>

\* PresentationCursor::accept
Accepts(shown, next) == next > shown

Receive(v) ==
    /\ wire[v] # <<>>
    /\ document' = [document EXCEPT ![v].shown =
          IF Accepts(@, Head(wire[v])) THEN Head(wire[v]) ELSE @]
    /\ wire' = [wire EXCEPT ![v] = Tail(@)]
    /\ UNCHANGED <<view, publishing, watch, stream, crossed, interrupted>>

\* The connection breaks: what is under way is lost and the task ends at its
\* next send.
Break(v) ==
    /\ stream[v].step # "closed" /\ interrupted.breaks < MaxBreaks
    /\ interrupted' = [interrupted EXCEPT !.breaks = @ + 1]
    /\ stream' = [stream EXCEPT ![v] = Closed] /\ wire' = [wire EXCEPT ![v] = <<>>]
    /\ UNCHANGED <<view, publishing, watch, document, crossed>>

-------------------------------------------------------------------------------
StreamInit ==
    /\ view = 0 /\ publishing = [p \in Publisher |-> 0] /\ watch = [value |-> 0, version |-> 0]
    /\ stream = [v \in Viewer |-> Closed] /\ wire = [v \in Viewer |-> <<>>]
    /\ document = [v \in Viewer |-> [loaded |-> FALSE, shown |-> 0]]
    /\ crossed = FALSE /\ interrupted = [breaks |-> 0, loads |-> 0]

StreamNext ==
    \/ \E p \in Publisher : WriteRevision(p) \/ SendReplace(p)
    \/ \E v \in Viewer : LoadDocument(v) \/ Connect(v) \/ Observe(v) \/ Forward(v)
                            \/ Receive(v) \/ Break(v)

\* Calls publish to their end, the browser connects again, tasks run and the page
\* handles its messages; nobody must load, publish or break.
StreamProgress(v) == Connect(v) \/ Observe(v) \/ Forward(v) \/ Receive(v)
StreamSpec ==
    /\ StreamInit /\ [][StreamNext]_streamVars
    /\ \A p \in Publisher : WF_streamVars(SendReplace(p))
    /\ \A v \in Viewer : WF_streamVars(StreamProgress(v))

-------------------------------------------------------------------------------
\* "it receives a current state snapshot followed by newer events": every loaded
\* document catches up with the channel for good, and, unless two publications
\* crossed, with the application; whatever collapses, breaks or is loaded between
\* two revisions.
DocumentsCatchUp ==
    \A v \in Viewer :
        <>[](document[v].loaded => /\ document[v].shown >= watch.value
                                   /\ (~crossed => document[v].shown = view))

===============================================================================
