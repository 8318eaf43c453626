----------------------------- MODULE MCComponents -----------------------------
(***************************************************************************)
(* The components that share no state in the modules, side by side: a      *)
(* behaviour belongs to one of them and the variables of the others keep   *)
(* their initial values.  Each component has the instance it would have in *)
(* a run of its own.                                                       *)
(***************************************************************************)
EXTENDS ActionSupervisor, NotificationWindow, NotificationRegion, Integration,
        PresentationStream, AppearancePage, PetInteraction, WindowPlacement, ActionLoading

VARIABLE part  \* the component this behaviour belongs to

Part == {"supervisor", "window", "carousel", "region", "integration",
         "stream", "appearance", "interaction", "placement", "loading"}

-------------------------------------------------------------------------------
\* One interaction action that queues and one title action.
InteractionContext ==
    {[notified |-> TRUE, kind |-> "failure", provider |-> "codex", project |-> "p"],
     [notified |-> FALSE, kind |-> "failure", provider |-> "codex", project |-> "p"]}
FailureFilter == [kinds |-> {"failure"}, providers |-> {}, projects |-> {"p"}]
ActionMode == [interaction |-> "queue", session_title |-> "reject"]
ActionParallel == [interaction |-> 1, session_title |-> 2]
ActionQueue == [interaction |-> 1, session_title |-> 0]
SuccessfulRun == {[timed_out |-> FALSE, io_failed |-> FALSE, overflowed |-> FALSE, success |-> TRUE]}
\* Calls alone, title requests alone, and both against the global slots.
MixedLoads == {[calls |-> 3, askers |-> 0], [calls |-> 0, askers |-> 3], [calls |-> 1, askers |-> 2]}

\* One display, one of scale 1.5 with an odd height, and two of them.
Display(id, start, length, scale, primary) ==
    [id |-> id, start |-> start, length |-> length, scale |-> scale, primary |-> primary]
Laptop == Display("a", 24, 1056, 1000, TRUE)
Displays ==
    {{Laptop}, {Display("a", 0, 901, 1500, TRUE)}, {Laptop, Display("b", 1080, 900, 1500, FALSE)}}

-------------------------------------------------------------------------------
Entry(id, trigger) ==
    [parses |-> TRUE, id |-> id, trigger |-> trigger,
     command |-> [parts |-> "valid", executable |-> "absolute"],
     timeout |-> 10000, debounce |-> 250, mode |-> "reject", parallel |-> 1, queue |-> 0,
     directory |-> [policy |-> "application", path |-> "none", exists |-> TRUE],
     environment |-> "valid", filter |-> "none"]
Directory(policy, path, exists) == [policy |-> policy, path |-> path, exists |-> exists]

\* One field away from a valid entry, at the boundaries of its check.
Variants(e) ==
    {e, [e EXCEPT !.parses = FALSE], [e EXCEPT !.id = NoId]}
    \cup {[e EXCEPT !.command = c] :
              c \in [parts : {"none", "invalid"}, executable : {"absolute"}]
                   \cup [parts : {"valid"}, executable : {"bundled", "searched", "missing"}]}
    \cup {[e EXCEPT !.timeout = t] :
              t \in {0, 1, MAX_ACTION_TIMEOUT_MS, MAX_ACTION_TIMEOUT_MS + 1}}
    \cup {[e EXCEPT !.debounce = t] : t \in {0, MAX_ACTION_DEBOUNCE_MS, MAX_ACTION_DEBOUNCE_MS + 1}}
    \cup {[e EXCEPT !.mode = m, !.parallel = p, !.queue = q] :
              m \in {"reject", "queue"}, p \in {0, 16, 17}, q \in {0, 1, 64, 65}}
    \cup {[e EXCEPT !.directory = d] : d \in {
              Directory("application", "absolute", TRUE), Directory("application_data", "none", TRUE),
              Directory("application_data", "none", FALSE), Directory("explicit", "absolute", TRUE),
              Directory("explicit", "absolute", FALSE), Directory("explicit", "relative", TRUE)}}
    \cup {[e EXCEPT !.environment = "invalid"]}
    \cup {[e EXCEPT !.filter = f] : f \in {"providers", "kinds", "projects", "invalid"}}

Click(id) == Entry(id, "pet_click")
Title(id) == Entry(id, "session_title")
Regular(size, text) == [form |-> "regular", size |-> size, document |-> text]
Table(table, count, entries) == [table |-> table, count |-> count, entries |-> entries]
Actions(entries) == Regular(1000, Table("actions", Len(entries), entries))
NoDocument == Table("malformed", 0, <<>>)

\* A variant before and after a sound entry, of its name and of another; and the file.
Files ==
    {Actions(<<v, Click("open")>>) : v \in Variants(Click("open")) \cup Variants(Title("title"))}
    \cup {Actions(<<Click("open"), v>>) : v \in Variants(Title("open"))}
    \cup {Actions(<<Click("open"), Click("open"), Title("title")>>)}
    \cup {[form |-> form, size |-> 0, document |-> NoDocument] : form \in {"absent", "irregular"}}
    \cup {[Actions(<<Title("open"), Click("title")>>) EXCEPT !.form = "irregular"]}
    \cup {Regular(size, NoDocument) : size \in {MAX_ACTION_CONFIG_BYTES, MAX_ACTION_CONFIG_BYTES + 1}}
    \cup {Regular(1000, Table("other version", 0, <<>>)),
          Regular(1000, Table("actions", MAX_ACTION_ENTRIES + 1, <<>>))}

-------------------------------------------------------------------------------
Services == <<supervisorVars, integrationVars, loadingVars>>
Pages == <<streamVars, appearanceVars, interactionVars>>
Windows == <<windowVars, carouselVars, regionVars, placementVars>>

\* Each component's restriction stands behind its initial condition, which keeps the
\* enumeration of initial states short.
MCInit ==
    /\ part \in Part
    /\ SupervisorInit   /\ (part # "supervisor" => load = CHOOSE l \in Loads : TRUE)
    /\ WindowInit
    /\ CarouselInit     /\ (part # "carousel" => arrived = 0)
    /\ ReportsInit
    /\ IntegrationInit  /\ (part # "integration" => config = NoConfig /\ hooks = NoHooks)
    /\ StreamInit
    /\ AppearanceInit   /\ (part # "appearance" => chosen = CHOOSE c \in Choice : TRUE)
    /\ InteractionInit  /\ (part # "interaction" => surface = "pet")
    /\ PlacementInit    /\ (part # "placement" => displays = {Laptop})
    /\ LoadingInit      /\ (part # "loading" => actionsFile.form = "absent")

MCNext ==
    /\ UNCHANGED part
    /\ \/ /\ part = "supervisor" /\ SupervisorNext
          /\ UNCHANGED <<integrationVars, loadingVars>> /\ UNCHANGED <<Pages, Windows>>
       \/ /\ part = "integration" /\ IntegrationNext
          /\ UNCHANGED <<supervisorVars, loadingVars>> /\ UNCHANGED <<Pages, Windows>>
       \/ /\ part = "loading" /\ LoadingNext
          /\ UNCHANGED <<supervisorVars, integrationVars>> /\ UNCHANGED <<Pages, Windows>>
       \/ /\ part = "stream" /\ StreamNext
          /\ UNCHANGED <<appearanceVars, interactionVars>> /\ UNCHANGED <<Services, Windows>>
       \/ /\ part = "appearance" /\ AppearanceNext
          /\ UNCHANGED <<streamVars, interactionVars>> /\ UNCHANGED <<Services, Windows>>
       \/ /\ part = "interaction" /\ InteractionNext
          /\ UNCHANGED <<streamVars, appearanceVars>> /\ UNCHANGED <<Services, Windows>>
       \/ /\ part = "window" /\ WindowNext
          /\ UNCHANGED <<carouselVars, regionVars, placementVars>> /\ UNCHANGED <<Services, Pages>>
       \/ /\ part = "carousel" /\ CarouselNext
          /\ UNCHANGED <<windowVars, regionVars, placementVars>> /\ UNCHANGED <<Services, Pages>>
       \/ /\ part = "region" /\ RegionNext
          /\ UNCHANGED <<windowVars, placementVars>> /\ UNCHANGED <<Services, Pages>>
       \/ /\ part = "placement" /\ PlacementNext
          /\ UNCHANGED <<windowVars, carouselVars, regionVars>> /\ UNCHANGED <<Services, Pages>>

\* The fairness of the components' own specifications.  A behaviour belongs to one
\* component, so one condition on the variables of that component stands for a
\* condition of each: the first for SupervisorProgress, PageReceives, ..., and so on.
OwnVars ==
    CASE part = "supervisor" -> supervisorVars [] part \in {"carousel", "region"} -> carouselVars
      [] part = "stream" -> streamVars         [] part = "appearance" -> appearanceVars
      [] OTHER -> <<>>
FirstTurn ==
    /\ UNCHANGED part
    /\ \/ part = "supervisor" /\ SupervisorProgress
       \/ part = "carousel" /\ PageReceives
       \/ part = "region" /\ Reporting(PageReceives)
       \/ part = "stream" /\ SendReplace(1)
       \/ part = "appearance" /\ Refresh
SecondTurn ==
    /\ UNCHANGED part
    /\ \/ part = "carousel" /\ \E id \in Card : AnimationEnd(id)
       \/ part = "region" /\ Reporting(\E id \in Card : AnimationEnd(id))
       \/ part = "stream" /\ SendReplace(2)
       \/ part = "appearance" /\ FetchEnds
ThirdTurn ==
    /\ UNCHANGED part
    /\ \/ part = "carousel" /\ (MoveIsDue \/ TransitionEnd)
       \/ part = "region" /\ Reporting(MoveIsDue \/ TransitionEnd)
       \/ part = "stream" /\ \E v \in Viewer : StreamProgress(v)
       \/ part = "appearance" /\ ChoiceEnds
MCFairness == WF_OwnVars(FirstTurn) /\ WF_OwnVars(SecondTurn) /\ WF_OwnVars(ThirdTurn)

MCSpec == MCInit /\ [][MCNext]_<<part, Services, Pages, Windows>> /\ MCFairness

===============================================================================
