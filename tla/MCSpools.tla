------------------------------- MODULE MCSpools -------------------------------
(***************************************************************************)
(* What processes share through files, for TLC, side by side: hooks make   *)
(* events of what Codex hands them, look for the desktop at its socket,    *)
(* open the database and store the events in one of the two spools; the    *)
(* migration commands rely on the evidence that desktops leave.  A         *)
(* behaviour belongs to one part and the variables of the others keep      *)
(* their initial values.                                                   *)
(***************************************************************************)
EXTENDS SqliteSpool, FileSpool, DatabaseOpen, CodexEvents, ForwardingEndpoint, PluginMigration,
        TLC

VARIABLE part  \* the part this behaviour belongs to

Part == {"database", "directory", "opening", "events", "endpoint", "migration"}

P(key, priority, size, valid) ==
    [key |-> key, priority |-> priority, size |-> size, valid |-> valid]

\* A permission request, a completion that fills the bytes alone, a session start
\* and a record of another version.
FourPayloads ==
    {P("attention", 3, 1, TRUE), P("completion", 0, 3, TRUE),
     P("start", 1, 1, TRUE), P("other", 1, 1, FALSE)}

\* The desktops are alike.
DrainerSymmetry == Permutations(Drainer)

\* The directory holds one record: the second writer's completion yields to a request.
RequestThenCompletion == <<3, 0>>

\* Two writers and one claimer, and the other way round.
SmallCrews == {{1, 2, 11}, {1, 11, 12}}

\* Two processes of one build and one of the next.
Builds == <<{1}, {1}, {1, 2}>>

-------------------------------------------------------------------------------
Hook(name, session, turn) ==
    [form |-> "json", hook |-> name, session |-> session, turn |-> turn, start |-> Absent,
     tool |-> Absent, input |-> Absent, use |-> Absent]
Request(turn, tool, input, use) ==
    [Hook(PERMISSION, "s", turn) EXCEPT !.tool = tool, !.input = input, !.use = use]

\* Every hook in two turns, requests that differ in one field, and what is refused.
Hooks ==
    {Hook(name, "s", turn) : name \in {USER_PROMPT, STOP, NOTIFY}, turn \in {"t", "u"}}
    \cup {Hook(STOP, "r", "t"), Hook(STOP, "s", Absent), Hook(NOTIFY, Absent, "t"),
          Hook(SESSION_END, "s", Absent), Hook("PreCompact", "s", "t")}
    \cup {[Hook(SESSION_START, "s", Absent) EXCEPT !.start = start] :
              start \in {Absent, "resume", "startup", "blank"}}
    \cup {Request("t", "shell", input, use) : input \in {"ls", Absent}, use \in {"1", "2", Absent}}
    \cup {Request("t", "shell", "rm", "1"), Request("u", "shell", "ls", "1"),
          Request("t", "write", "ls", "1"), Request("t", Absent, "ls", Absent)}
    \cup {[Hook(STOP, "s", "t") EXCEPT !.form = form] : form \in {"too_large", "malformed"}}

-------------------------------------------------------------------------------
MCInit ==
    /\ part \in Part
    /\ Init /\ EventsInit
    /\ FileInit     /\ (part # "directory" => process[12] = Between("done"))
    /\ OpenInit     /\ (part # "opening" => ~file.exists)
    /\ EndpointInit /\ (part # "endpoint" => path = Nobody /\ credential = Nobody)
    /\ MigrationInit /\ (part # "migration" => codex.version = CHOOSE v \in PluginVersion : TRUE)

MCNext ==
    /\ UNCHANGED part
    /\ \/ /\ part = "database" /\ Next
          /\ UNCHANGED <<fileVars, openVars, eventVars, endpointVars, migrationVars>>
       \/ /\ part = "directory" /\ FileNext
          /\ UNCHANGED <<spoolVars, openVars, eventVars, endpointVars, migrationVars>>
       \/ /\ part = "opening" /\ OpenNext
          /\ UNCHANGED <<spoolVars, fileVars, eventVars, endpointVars, migrationVars>>
       \/ /\ part = "events" /\ EventsNext
          /\ UNCHANGED <<spoolVars, fileVars, openVars, endpointVars, migrationVars>>
       \/ /\ part = "endpoint" /\ EndpointNext
          /\ UNCHANGED <<spoolVars, fileVars, openVars, eventVars, migrationVars>>
       \/ /\ part = "migration" /\ MigrationNext
          /\ UNCHANGED <<spoolVars, fileVars, openVars, eventVars, endpointVars>>

MCVars == <<part, spoolVars, fileVars, openVars, eventVars, endpointVars, migrationVars>>
MCSpec == MCInit /\ [][MCNext]_MCVars

===============================================================================
