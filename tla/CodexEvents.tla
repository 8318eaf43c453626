------------------------------ MODULE CodexEvents ------------------------------
(***************************************************************************)
(* From a hook of Codex to a normalised event: what the hook program makes *)
(* of its arguments and its payload, the identity the event gets and the   *)
(* source it carries (lili-session/src/codex.rs, normalization.rs).  While *)
(* a migration is under way one hook runs twice, once from the user's      *)
(* configuration and once from the plugin, in two processes that read the  *)
(* clock at different times.                                               *)
(*                                                                         *)
(* SHA-256 over length-prefixed fields is the tuple of the fields, a       *)
(* source is the sequence of its parts, and text that is only shown (the   *)
(* project, the summary) is left out.                                      *)
(***************************************************************************)
EXTENDS Integers, Sequences, FiniteSets

CONSTANTS
    HookInput, \* what Codex may hand to a hook
    MaxHooks,  \* bound: hooks that run
    MaxMillis, \* bound: milliseconds that pass
    Homes      \* homes the plugin may run in; NoHome is one that cannot be named

Absent == "none"
NoHome == "no home"
PluginId == "lili@marketplace"
InstalledVersion == "0.1.0"

SESSION_START == "SessionStart"
USER_PROMPT == "UserPromptSubmit"
PERMISSION == "PermissionRequest"
STOP == "Stop"
SESSION_END == "SessionEnd"
NOTIFY == "agent-turn-complete"

ASSUME HookAssumption ==
    /\ MaxHooks \in Nat /\ MaxMillis \in Nat
    /\ \A p \in HookInput : p.form \in {"json", "malformed", "too_large"}

VARIABLES
    ran,         \* the hooks Codex ran, in order
    deliveries,  \* processes that still have to handle a hook: [hook, route, home]
    events,      \* what the processes produced
    hookClock    \* the wall clock in milliseconds

eventVars == <<ran, deliveries, events, hookClock>>

EventsInit == ran = <<>> /\ deliveries = {} /\ events = {} /\ hookClock = 0

Refused(error) == [accepted |-> FALSE, error |-> error]

-------------------------------------------------------------------------------
\* Mutant of IdentityFields: the tool use does not count.
IdentityFieldsNoUse(p) ==
    CASE p.hook \in {USER_PROMPT, STOP} -> <<p.hook, p.session, p.turn>>
      [] p.hook = PERMISSION -> <<p.hook, p.session, p.turn, p.tool, p.input>>
      [] p.hook = SESSION_START -> <<p.hook, p.session, p.start>>
      [] OTHER -> <<p.hook, p.session>>
\* lifecycle_event_id.  A native permission hook carries no tool_use_id and keeps its
\* identity apart; without a tool input, a turn or a session there is none.
IdentityFields(p) ==
    CASE p.hook \in {USER_PROMPT, STOP} -> <<p.hook, p.session, p.turn>>
      [] p.hook = PERMISSION /\ p.use = Absent ->
            <<"native", p.hook, p.session, p.turn, p.tool, p.input>>
      [] p.hook = PERMISSION /\ p.use # Absent ->
            <<p.hook, p.session, p.turn, p.use, p.tool, p.input>>
      [] p.hook = SESSION_START -> <<p.hook, p.session, p.start>>
      [] OTHER -> <<p.hook, p.session>>

Identified(p) ==
    /\ p.session # Absent
    /\ p.hook \in {USER_PROMPT, STOP, PERMISSION} => p.turn # Absent
    /\ p.hook = PERMISSION => p.input # Absent

EventType ==
    [h \in {SESSION_START, USER_PROMPT, PERMISSION, STOP, SESSION_END} |->
        CASE h = SESSION_START -> "session_started" [] h = USER_PROMPT -> "turn_started"
          [] h = PERMISSION -> "attention_required" [] h = STOP -> "turn_completed"
          [] h = SESSION_END -> "session_ended"]

IsTurnScoped(type) == type \notin {"session_started", "session_ended"}

\* fallback_event_id: what is known of an event that names itself nowhere.
Fallback(type, session, turn, source, time) ==
    <<"fallback", type, session, turn, source, time>>

\* normalize_provider_input: the checks that all payloads go through.
Normalised(id, type, session, turn, source, time) ==
    CASE session = Absent -> Refused("session_identity")
      [] session # Absent /\ IsTurnScoped(type) /\ turn = Absent -> Refused("turn_identity")
      [] OTHER ->
            [accepted |-> TRUE, type |-> type, session |-> session, turn |-> turn,
             source |-> source, time |-> time,
             id |-> IF id = <<>> THEN Fallback(type, session, turn, source, time) ELSE id]

\* lifecycle_source: a session start carries what started it, but for blank text.
LifecycleSource(p) ==
    IF p.hook = SESSION_START /\ p.start # Absent THEN <<"hook", p.hook, p.start>> ELSE <<"hook", p.hook>>

NormaliseLifecycle(p, time) ==
    CASE p.hook = PERMISSION /\ p.use = Absent /\ p.tool = Absent -> Refused("tool_name")
      [] p.hook \notin DOMAIN EventType -> Refused("event_type")
      [] p.hook = SESSION_START /\ p.start = "blank" -> Refused("session_start_source")
      [] OTHER ->
            Normalised(IF Identified(p) THEN IdentityFields(p) ELSE <<>>, EventType[p.hook],
                       p.session,
                       IF p.hook \in {SESSION_START, SESSION_END} THEN Absent ELSE p.turn,
                       LifecycleSource(p), time)

\* normalize_notify_json: the program named by the user's configuration.
NormaliseNotify(p, time) ==
    Normalised(IF p.session # Absent /\ p.turn # Absent THEN <<NOTIFY, p.session, p.turn>> ELSE <<>>,
               "turn_completed", p.session, p.turn, <<"notify">>, time)

\* normalize_hook_json: what the payload says it is.
Normalise(p, time) ==
    CASE p.form = "too_large" -> Refused("payload_too_large")
      [] p.form = "malformed" -> Refused("malformed_json")
      [] p.form = "json" /\ p.hook = NOTIFY -> NormaliseNotify(p, time)
      [] p.form = "json" /\ p.hook # NOTIFY -> NormaliseLifecycle(p, time)

-------------------------------------------------------------------------------
\* mark_plugin_hook_event_with_home: the plugin puts its identity before the source.
Marked(source, home) ==
    IF home = NoHome THEN <<"plugin", PluginId, InstalledVersion>> \o source
    ELSE <<"plugin", PluginId, InstalledVersion, "home", home>> \o source

Marks(event, home) ==
    IF event.accepted /\ event.source[1] = "hook" THEN [event EXCEPT !.source = Marked(@, home)]
    ELSE IF event.accepted THEN Refused("not_a_lifecycle_event")
    ELSE event

\* plugin_source_parts, read back by the desktop.
IsPluginSource(source) == Len(source) > 4 /\ source[1] = "plugin"
Nested(source) ==
    IF ~IsPluginSource(source) THEN source
    ELSE IF source[4] = "home" THEN SubSeq(source, 6, Len(source))
    ELSE SubSeq(source, 4, Len(source))
HomeOf(source) == IF IsPluginSource(source) /\ source[4] = "home" THEN source[5] ELSE NoHome

\* surface_from_source.
Surface(source) == IF source[1] = "notify" THEN NOTIFY ELSE Nested(source)[2]

-------------------------------------------------------------------------------
\* Codex runs a hook, from the configuration, from the plugin or from both.  The
\* notify program is never the plugin's.
Runs(p, routes) ==
    /\ Len(ran) < MaxHooks
    /\ p.hook = NOTIFY => "plugin" \notin routes
    /\ ran' = Append(ran, p)
    /\ \E home \in Homes :
          deliveries' = deliveries \cup
              {[hook |-> Len(ran) + 1, route |-> r, home |-> IF r = "plugin" THEN home ELSE NoHome] :
                  r \in routes}
    /\ UNCHANGED <<events, hookClock>>

\* run_from_environment and process_payload: the process reads the clock when it runs.
Processed(d) ==
    IF d.route = "plugin" THEN Marks(Normalise(ran[d.hook], hookClock), d.home)
    ELSE Normalise(ran[d.hook], hookClock)

HookProcess(d) ==
    /\ deliveries' = deliveries \ {d}
    /\ events' = IF Processed(d).accepted
                 THEN events \cup {[hook |-> d.hook, home |-> d.home, event |-> Processed(d)]}
                 ELSE events
    /\ UNCHANGED <<ran, hookClock>>

TimePasses ==
    /\ hookClock < MaxMillis
    /\ hookClock' = hookClock + 1
    /\ UNCHANGED <<ran, deliveries, events>>

EventsNext ==
    \/ \E p \in HookInput, routes \in (SUBSET {"configuration", "plugin"}) \ {{}} : Runs(p, routes)
    \/ \E d \in deliveries : HookProcess(d)
    \/ TimePasses

EventsSpec == EventsInit /\ [][EventsNext]_eventVars

-------------------------------------------------------------------------------
(* A type invariant of the hooks and their events. *)
EventsTypeOK ==
    /\ Len(ran) <= MaxHooks /\ hookClock \in 0 .. MaxMillis
    /\ \A d \in deliveries : d.hook \in DOMAIN ran
    /\ \A e \in events : e.event.accepted /\ e.hook \in DOMAIN ran

\* Nobody can tell the hooks apart: the same moment of the same session, for the same
\* request to the user.
SameMoment(p, q) ==
    /\ p.hook = q.hook /\ p.session = q.session
    /\ p.hook \notin {SESSION_START, SESSION_END} => p.turn = q.turn
    /\ p.hook = SESSION_START => p.start = q.start
    /\ p.hook = PERMISSION => p.use = q.use /\ p.tool = q.tool /\ p.input = q.input

(* One identity for one hook, however often and whenever it is delivered, so that
   the overlap of a migration counts nothing twice; and never one identity for two,
   so that no request of the user is dropped as a repetition.  A permission request
   without a tool input cannot be identified: it is as good as the millisecond it is
   handled in.  The desktop reads back from the source which hook it was and which
   home the plugin ran in. *)
OneIdentityPerHook ==
    \A e, f \in events :
        LET p == ran[e.hook]
            q == ran[f.hook]
            Known(r) == r.hook # PERMISSION \/ r.input # Absent
        IN
        /\ e.hook = f.hook /\ Known(p) => e.event.id = f.event.id
        /\ e.event.id = f.event.id =>
              \/ SameMoment(p, q)
              \/ ~Known(p) /\ ~Known(q) /\ e.event.time = f.event.time
                 /\ e.event.session = f.event.session /\ e.event.turn = f.event.turn
        /\ Surface(e.event.source) = p.hook
        /\ HomeOf(e.event.source) = e.home

===============================================================================
