----------------------------- MODULE ActionLoading -----------------------------
(***************************************************************************)
(* Loading actions.toml at the start of the desktop: the file is looked    *)
(* at, read and parsed, its entries are checked one by one, and what is    *)
(* valid goes to the supervisor (lili-actions/src/loading.rs).  The user's *)
(* editor may replace the file at any moment.                              *)
(*                                                                         *)
(* An entry is a record of what the checks tell apart: a command is what   *)
(* became of its parts and its executable, a directory is the policy with  *)
(* what its path turned out to be, an identifier that cannot be shown is   *)
(* NoId.  Sizes, counts and durations keep their limits.                   *)
(***************************************************************************)
EXTENDS Integers, Sequences, FiniteSets, SequencesExt

CONSTANTS
    File,             \* what the path may hold: [form, size, document]; those of an
                      \* irregular path are what it leads to
    MaxFileEdits,     \* bound: times the user's editor replaces the file
    DesktopSlots      \* DEFAULT_GLOBAL_CONCURRENCY

MAX_ACTION_CONFIG_BYTES == 256 * 1024
MAX_ACTION_ENTRIES == 128
MAX_ACTION_TIMEOUT_MS == 120000
MAX_ACTION_DEBOUNCE_MS == 60000
MAX_ACTION_QUEUE_CAPACITY == 64
MAX_GLOBAL_CONCURRENCY == 16

NoId == "-"

ASSUME LoadingAssumption ==
    /\ MaxFileEdits \in Nat /\ DesktopSlots \in Nat
    /\ \A f \in File :
          /\ f.form \in {"absent", "irregular", "regular"} /\ f.size \in Nat
          /\ f.document.entries \in Seq(Range(f.document.entries))
          /\ \A e \in Range(f.document.entries) :
                /\ e.queue \in Nat /\ e.mode \in {"queue", "reject"}
                /\ e.filter \in {"none", "providers", "kinds", "projects", "invalid"}

VARIABLES
    actionsFile,  \* what the path holds now
    loader,       \* how far loading is, and what it has collected
    installed,    \* what the supervisor was built from, and whether there is one
    fileEdits     \* edits that happened

loadingVars == <<actionsFile, loader, installed, fileEdits>>

NoActions == [enabled |-> <<>>, order |-> <<>>, supervisor |-> FALSE]
NotLoaded ==
    [step |-> "look", entries |-> <<>>, seen |-> {}, enabled |-> <<>>, views |-> <<>>,
     faults |-> <<>>]

LoadingInit ==
    /\ actionsFile \in File
    /\ loader = NotLoaded /\ installed = NoActions /\ fileEdits = 0

-------------------------------------------------------------------------------
\* global_failure: one diagnostic of the whole file and no action.
GlobalFailure(code) ==
    [NotLoaded EXCEPT !.step = "loaded", !.faults = <<[entry |-> 0, id |-> NoId, code |-> code]>>]

\* load_actions_file: the path itself is looked at, and read only when its length fits.
LooksAtFile ==
    /\ loader.step = "look"
    /\ loader' = CASE actionsFile.form = "irregular" -> GlobalFailure("invalid_file")
                   [] actionsFile.form = "absent" -> [loader EXCEPT !.step = "loaded"]
                   [] actionsFile.form = "regular" /\ actionsFile.size > MAX_ACTION_CONFIG_BYTES ->
                         GlobalFailure("too_large")
                   [] OTHER -> [loader EXCEPT !.step = "read"]
    /\ UNCHANGED <<actionsFile, installed, fileEdits>>

\* The head of load_actions_str: all or nothing.
Opened(text) ==
    CASE text.table = "malformed" -> GlobalFailure("malformed_document")
      [] text.table = "other version" -> GlobalFailure("unsupported_version")
      [] text.table \notin {"malformed", "other version"} /\ text.count > MAX_ACTION_ENTRIES ->
            GlobalFailure("too_many_entries")
      [] OTHER -> [loader EXCEPT !.step = "entries", !.entries = text.entries]

\* The text is another one when the file was edited after the look, and a link that was
\* put there meanwhile is followed; the length of what was read counts.
Contents ==
    IF actionsFile.size > MAX_ACTION_CONFIG_BYTES THEN GlobalFailure("too_large")
                                                  ELSE Opened(actionsFile.document)

\* A read may also fail, as it does when nothing is there or it is no UTF-8.
ReadsFile ==
    /\ loader.step = "read"
    /\ \/ loader' = GlobalFailure("invalid_file")
       \/ actionsFile.form # "absent" /\ loader' = Contents
    /\ UNCHANGED <<actionsFile, installed, fileEdits>>

EditsFile ==
    /\ fileEdits < MaxFileEdits /\ loader.step \in {"look", "read"}
    /\ actionsFile' \in File \ {actionsFile}
    /\ fileEdits' = fileEdits + 1
    /\ UNCHANGED <<loader, installed>>

-------------------------------------------------------------------------------
\* resolve_executable: an absolute path, a path inside the application's directory,
\* or a name looked up in the search path.
Resolves(command) == command.executable \in {"absolute", "bundled", "searched"}

\* A queue has room, a rejecting action has none.
CapacityFits(e) ==
    /\ e.parallel \in 1 .. MAX_GLOBAL_CONCURRENCY /\ e.queue <= MAX_ACTION_QUEUE_CAPACITY
    /\ IF e.mode = "reject" THEN e.queue = 0 ELSE e.queue # 0

\* A path belongs to the explicit policy alone, and every directory exists.
DirectoryFits(e) ==
    \/ e.directory.policy \in {"application", "application_data"}
       /\ e.directory.path = "none" /\ e.directory.exists
    \/ e.directory.policy = "explicit" /\ e.directory.path = "absolute" /\ e.directory.exists

\* A title is asked for before there is a kind or a project to filter by.
FilterFits(e) ==
    /\ e.filter # "invalid"
    /\ e.trigger = "session_title" => e.filter \notin {"kinds", "projects"}

\* validate_action: every check in turn; the first one that fails names the fault.
Checks(e) == <<
    <<"empty_command", e.command.parts # "none">>,
    <<"invalid_command", e.command.parts # "invalid">>,
    <<"executable_not_found", Resolves(e.command)>>,
    <<"invalid_timeout", e.timeout \in 1 .. MAX_ACTION_TIMEOUT_MS>>,
    <<"invalid_debounce", e.debounce <= MAX_ACTION_DEBOUNCE_MS>>,
    <<"invalid_concurrency", CapacityFits(e)>>,
    <<"invalid_working_directory", DirectoryFits(e)>>,
    <<"invalid_environment", e.environment # "invalid">>,
    <<"invalid_filter", FilterFits(e)>> >>

Passes(e) == \A check \in Range(Checks(e)) : check[2]
FirstFault(e) == Head(SelectSeq(Checks(e), LAMBDA check : ~check[2]))[1]

-------------------------------------------------------------------------------
\* enabled_view, disabled_config_view and disabled_view: what Diagnostics shows.
View(e, id, shown, on) ==
    [entry |-> Len(loader.views) + 1, id |-> id, enabled |-> on,
     trigger |-> IF shown THEN e.trigger ELSE "none"]

Disabled(e, id, shown, code) ==
    [loader EXCEPT
        !.views = Append(@, View(e, id, shown, FALSE)),
        !.faults = Append(@, [entry |-> Len(loader.views) + 1, id |-> id, code |-> code])]

Enabled(e) ==
    [loader EXCEPT !.views = Append(@, View(e, e.id, TRUE, TRUE)),
                   !.enabled = Append(@, e)]

\* Mutant of Seen: names are not remembered.
SeenNever(id) == loader.seen
\* identifiers.insert comes before the checks: an entry that fails them keeps its name.
Seen(id) == loader.seen \cup {id}
Validated(e) ==
    [(IF Passes(e) THEN Enabled(e) ELSE Disabled(e, e.id, FALSE, FirstFault(e)))
        EXCEPT !.seen = Seen(e.id)]

LoadsEntry ==
    /\ loader.step = "entries" /\ Len(loader.views) < Len(loader.entries)
    /\ LET e == loader.entries[Len(loader.views) + 1] IN
       loader' = CASE ~e.parses -> Disabled(e, e.id, FALSE, "malformed_entry")
                   [] e.parses /\ e.id = NoId -> Disabled(e, NoId, FALSE, "invalid_identifier")
                   [] e.parses /\ e.id \in loader.seen \ {NoId} ->
                         Disabled(e, e.id, TRUE, "duplicate_identifier")
                   [] OTHER -> Validated(e)
    /\ UNCHANGED <<actionsFile, installed, fileEdits>>

EntriesEnd ==
    /\ loader.step = "entries" /\ Len(loader.views) = Len(loader.entries)
    /\ loader' = [loader EXCEPT !.step = "loaded"]
    /\ UNCHANGED <<actionsFile, installed, fileEdits>>

\* ActionSupervisor::new: actions by their identifier, title actions in file order.
Supervised(actions) ==
    [enabled |-> actions, supervisor |-> DesktopSlots \in 1 .. MAX_GLOBAL_CONCURRENCY,
     order |-> SelectSeq(actions, LAMBDA e : e.trigger = "session_title")]

ConfiguresActions ==
    /\ loader.step = "loaded"
    /\ installed' = Supervised(loader.enabled)
    /\ loader' = [loader EXCEPT !.step = "done"]
    /\ UNCHANGED <<actionsFile, fileEdits>>

LoadingNext == LooksAtFile \/ ReadsFile \/ EditsFile \/ LoadsEntry \/ EntriesEnd \/ ConfiguresActions

LoadingSpec == LoadingInit /\ [][LoadingNext]_loadingVars

-------------------------------------------------------------------------------
(* A type invariant of the loader. *)
LoadingTypeOK ==
    /\ actionsFile \in File /\ fileEdits \in 0 .. MaxFileEdits
    /\ loader.step \in {"look", "read", "entries", "loaded", "done"}
    /\ Len(loader.views) <= Len(loader.entries)

\* Nothing is wrong with entry i, and no other entry the schema accepts claims its name.
SoundAlone(i) ==
    LET e == loader.entries[i] IN
    /\ e.parses /\ e.id # NoId /\ Passes(e)
    /\ \A j \in DOMAIN loader.entries \ {i} :
          loader.entries[j].parses => loader.entries[j].id # e.id

(* "Invalid entries are disabled independently; other valid actions remain
   available" (docs/configuration.md): whatever else the file holds and whenever it
   was edited, an entry that is sound and alone with its name is installed; every
   other entry is shown disabled with one diagnostic of its own; and what is
   installed has distinct names and policies the supervisor can run, with titles
   asked for only where they can be matched. *)
ValidActionsRemain ==
    loader.step = "done" =>
        /\ \A i \in DOMAIN loader.entries :
              SoundAlone(i) => loader.entries[i] \in Range(installed.enabled)
        /\ \A i \in DOMAIN loader.entries :
              LET faults == {f \in Range(loader.faults) : f.entry = i} IN
              Cardinality(faults) = IF loader.views[i].enabled THEN 0 ELSE 1
        /\ IsInjective([i \in DOMAIN installed.enabled |-> installed.enabled[i].id])
        /\ \A e \in Range(installed.enabled) :
              /\ 1 <= e.parallel /\ e.parallel <= MAX_GLOBAL_CONCURRENCY
              /\ e.queue > 0 <=> e.mode = "queue"
              /\ e.timeout > 0
              /\ e.trigger = "session_title" => e.filter \in {"none", "providers"}

===============================================================================
