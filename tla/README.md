# A verification project for Lili

Lili is a desktop pet that shows what coding agents are doing. A hook of the
agent calls `lili`, which forwards one event to the running desktop or leaves it
in a spool; the desktop reduces events to sessions, turns and notification
cards, keeps what matters in SQLite, and shows an ambient state and the cards in
two windows whose pages it serves over loopback HTTP. Around this core are the
actions the user configured, the pets, and the commands that put Lili's entries
into the agent's configuration. This directory holds TLA+ models of these parts,
TLC instances that check them, and proofs about the core for every value of the
constants. Paths below are relative to the repository's root.

## 1. Inventory

| Component | State | Operations | What makes it hard | What makes it correct | Model |
|---|---|---|---|---|---|
| Session reducer (`lili-session/src/reducer.rs`) | sessions, turns, retired turns, cards, deduplication window, presentation | `reduce_at`, `acknowledge_notification`, `advance_presentation`, `persistent_state`, `from_persistent_state`, `update_notification_title` | events late, twice, out of order; bounded windows | one card per session, the newest; ends are final; a dismissed card stays dismissed | `SessionReducer`; titles in `Desktop` |
| Application state (`lili-app-state/src/lib.rs`, `persistence.rs`) | the reducer under a lock, settings, pets, actions, action feedback, published snapshot | persisted mutations, reminder, titles, `select_pet`, `set_action_feedback`, `publish_presentation` | saves that fail, tasks that overtake one another, mutations and publications that interleave at every await, restarts | memory and database agree; what is published last is the state | `ApplicationState`, `Desktop`, `PetLibrary` |
| Database (`lili-storage`) | `app_state` row, `inbound_spool`, plugin evidence, journal mode, migrations | open, conditional update, triggers | several processes open and use the file | revisions never go back; a first start never fails for a race | `DatabaseOpen`, `ApplicationState` (row), `SqliteSpool` (table) |
| SQLite spool (`lili-session/src/sqlite_spool.rs`, `repository.rs`) | pending and claimed records, drop counters | `enqueue`, `claim_next`, `commit`, `release`, `recover_claims` | retention, leases that expire, a drainer that dies, two desktops | nothing accepted is lost before it is ingested, except by counted retention | `SqliteSpool` |
| File spool (`lili-session/src/spool.rs`) | one file per record, its state in the name; a lock directory | the same operations as renames | a stale lock that two processes break, a crash between two renames | the same | `FileSpool` |
| Hook forwarder (`lili/src/hook_forwarder.rs`) | where one hook process is | normalize, stamp, sign, send, wait 25 ms, spool | a late acknowledgement, a desktop that restarts meanwhile | success means the event is handled or spooled | `Delivery`, `CodexEvents`, `ForwardingEndpoint` |
| Ingestion (`lili-app-state/src/ingestion.rs`, drain loop in `lili/src/lib.rs`) | a mailbox, the verifier, the phase of start-up | drain, serve, reduce, acknowledge, shut down | the sender times out before the answer; the process dies between answer and commit | every acknowledgement follows a durable save; what was kept is consumed | `Delivery`, `ForwardingEndpoint` |
| Transport and credentials (`transport.rs`, `forwarding.rs`) | socket path, credential file, evidence | bind, publish, roll back, accept, drop | stale and live sockets, a bind that fails half-way, two starts | a live desktop is reached | `ForwardingEndpoint`, `PluginMigration` |
| Normalization and Codex adapter (`normalization.rs`, `codex.rs`) | none between events | parse, identify, mark the source | the same hook delivered twice by two routes | one identity per hook, one hook per identity | `CodexEvents` |
| Interaction actions (`lili-actions/src/loading.rs`, `execution.rs`, `execution/supervisor.rs`) | permits, queues, debounce table, title cache and workers | load, admit, queue, run, time out, cancel, shut down | limits of two kinds, cancellation, single flight, a file edited while it is read | one process per title, every call answered, sound entries installed | `ActionLoading`, `ActionSupervisor` |
| Titles (`lili-app-state/src/title.rs`, `title_runtime.rs`) | pending requests, revisions | dispatch, complete, reconfigure | a result races an acknowledgement or a new configuration | a title never alters the wrong card; no card is forgotten | `Desktop`, `ActionSupervisor` |
| Notification window and desktop glue (`lili/src/lib.rs`, hit-region modules) | visibility, delayed hides, regions that take clicks, menus, drag and placement | show, hide, report, set marks, commit | a worker task, pages and the main thread read and write the same things | cards are visible and take clicks; menus tell the truth; the pet stays where it was left | `NotificationWindow`, `NotificationRegion`, `DesktopMenus`, `PetHitRegion`, `WindowPlacement` |
| Pets (`lili-pet`) | packages, catalog, approved assets, selection | discover, validate, select, render | directories edited between two selections; a selection in several awaited steps | the stored pet is served and on screen; each drawn cell was validated | `PetLibrary`, `SpriteFrames` |
| Integration (`lili-integration/src`, `lili/src/integration_cli.rs`) | configuration files of the agent, backups, provenance, receipt, evidence | plan, install, uninstall, assess, clean up | crashes between two writes, foreign edits, stale plans and assessments | foreign configuration survives; a report of completion is true | `Integration`, `PluginMigration` |
| Loopback server (`lili-server/src/lib.rs`) | one stream task per page | stream, select, serve assets | a slow page, reconnects | a page catches up | `PresentationStream`, `AppearancePage` |
| User interface (`lili-ui/src`) | card stack, pointer, animation, requests | arrive, leave, focus, press, poll, refresh | animation events that come late or never, clicks near a drag | clicks are answered once; the stack comes to rest; the page follows the selection | `NotificationCarousel`, `PetInteraction`, `AppearancePage`, `PresentationStream` |
| Acceptance drivers, fuzz targets, marketplace, site | – | – | – | – | out of scope |

Interactions: hook processes and the desktop share the socket, the credential
file and the database. In the desktop, one actor receives socket messages and
claimed records and calls the application state, which holds the reducer's lock
from the clone of the old reducer to the end of the save. Expiry tasks, the
user's acknowledgements and title results take the same lock. Every mutation ends
in `publish_presentation`, which reads four locks one after the other and sends on
a watch channel; the update task of the windows and the stream task of each page
read that channel, the pages report back through HTTP routes and window commands,
and what touches a window is posted to the main thread. `PROJECT.json` lists the
hazards with the line where each bites and the properties that would notice.

## 2. Modules

The core pipeline:

| Module | Code | State and actions |
|---|---|---|
| `SessionReducer` | `reducer.rs` | Operators on a reducer value; no variables. `ReduceAt`, `AcknowledgeNotification`, `AdvancePresentation`, `RestartReminder`, `PersistentState`, `FromPersistentState`, `Restorable` are the methods of those names (`Restorable` is the validation that `from_persistent_state` makes). |
| `ApplicationState` | `lili-app-state`, `AppStateStore::save`, start and exit of the desktop | `reducer` and `stored` are the reducer in memory and the row of the database; `timers` are the sleeping expiry tasks. One action per call and outcome: `ApplyEvent`, `ApplyEventFails`, `IgnoreEvent`, `Acknowledge`, `AcknowledgeFails`, `ExpireReminder`, `Tick`, `CrashRestart`, `ExitRestart`. |
| `SqliteSpool` | `sqlite_spool.rs`, `repository.rs`, the triggers of the migration | `rows` is the table; `drainer` says where each desktop is between the transactions of `claim_next` and `ingest_sqlite_spool_claim`. One action per transaction. |
| `DeliveryContract` | – | What delivery promises: an event's fate is new, kept, discarded or handled, and a promised event is no longer new. |
| `Delivery` | `hook_forwarder.rs`, `ingestion.rs`, the drain loop and start-up in `lili/src/lib.rs` | Composes `ApplicationState` with an instance `Spool` of `SqliteSpool`, and adds the hook processes, the socket's backlog and the phase of the desktop. |
| `ForwardingEndpoint` | `transport.rs`, `ingestion.rs` | `path` is the listener the socket's path leads to, with the credential file beside it; each desktop binds, publishes, serves its inbox and leaves in the steps of the code, each caller connects, sends and gives up. |
| `CodexEvents` | `codex.rs`, `normalization.rs` | What the hook program makes of its arguments and payload: one action per outcome of a delivery. A digest of fields is the tuple of the fields. |
| `FileSpool` | `spool.rs` | `files` with the state in each name; writers and claimers between two renames; the lock and its age. |
| `DatabaseOpen` | `database.rs` | One process is at one step of `connect_with_options`; SQLite and the migration harness are external. |

What the desktop does with the state:

| Module | Code | State and actions |
|---|---|---|
| `Desktop` (extends `ApplicationState`) | `lili-app-state/src/lib.rs`, `title.rs` | The calls that end in `publish_presentation`, each at its step: mutation, four reads, send. Events, acknowledgements, activated cards, title workers, reconfiguration and shutdown, selections, feedback with its timer. |
| `PetLibrary` | `lili-pet` discovery, validation, selection; `select_pet` | `disk` as the user edits it, the catalog and assets in memory, one selection in its awaited steps, the stored pet, restarts. |
| `PetHitRegion` (extends `PetLibrary`) | `setNativePetHitFrame`, `set_pet_hit_frame`, `pet_hit_region.rs`, `linux_notification_hit_region.rs` | The frame a page shows, one call on its way, what is installed and the shape of the window. |
| `SpriteFrames` | `lili-pet/src/lib.rs`, `rendering.rs`, `validation.rs`, `render_mode`, the appearance page's sprites | The cell on screen for a selected animation at a time, in the pet's window, the preview and the sheet. |
| `DesktopMenus` | tray and context menu of `lili/src/lib.rs` | The marks, the pet's window, the task that keeps the marks, a tray selection that holds the main thread, the menu's queue of one request. |
| `ActionLoading` | `loading.rs` | The path of `actions.toml` is inspected, read (through a link that came meanwhile) and parsed while an editor replaces it; entries are checked by operators, one per check. |
| `ActionSupervisor` | `execution/supervisor.rs`, `title_runtime.rs` | Calls and title requests at their steps, the queues of the semaphores, debounce windows, cache, pending workers, shutdown. |
| `NotificationWindow` | `lili/src/lib.rs` | The update task, the main thread's queue, the two atomics of a delayed hide. |
| `NotificationCarousel` | `notification_carousel.rs` | Cards by order of arrival, slots, exits, one move at a time, focus, wheel. |
| `NotificationRegion` (extends `NotificationCarousel`) | `notification_hit_region.rs` and its callers | The page's reports on their way and the update task's correction, as a load and a store. |
| `PresentationStream` | `publish_presentation`, `events` of the server, `PresentationCursor` | Revision, watch channel, one stream task and one cursor per page. |
| `AppearancePage` | `appearance.rs`, two routes of the server | The clocks of the page with their requests in flight, selections of the page and of the tray. |
| `PetInteraction` | pointer tracker, click disambiguator, animation controller of `lili-ui/src/lib.rs` | One gesture at a time, the pending click, the animation and its deadlines, on the pet and in the preview, which a chosen scene, mode or selection resets. |
| `WindowPlacement` | drag, commit and reachability of `lili/src/lib.rs`; placement of `persistence.rs` | Physical positions on scaled displays, what is saved in logical coordinates, what a start makes of it. |
| `Integration` | `lili-integration` inspect, plan, install, uninstall | The two files, backups and provenance; a command between its writes; the user's edits. |
| `PluginMigration` | `migration.rs`, `integration_cli.rs`, evidence in `transport.rs` and `codex.rs` | The plugin as Codex has it, the evidence with its signature, desktops, assessments, receipt and cleanup. |

The rest: `SessionReducerProofs`, `ApplicationStateProofs`, `SqliteSpoolProofs`,
`DeliveryProofs`, `ActionProofs`, `DesktopProofs`, `SharedFilesProofs` and
`ComponentProofs` hold the theorems and the lemmas they rest on, each for the modules
it extends (`ActionProofs`: `ActionSupervisor` and `ActionLoading`; `DesktopProofs`:
`Desktop`, `PetLibrary`, `DesktopMenus` and `SpriteFrames`; `SharedFilesProofs`:
`DatabaseOpen`, `FileSpool`, `ForwardingEndpoint` and `CodexEvents`;
`ComponentProofs`: `Integration`, `PluginMigration`, `NotificationWindow`,
`NotificationRegion`, `PetInteraction` and `WindowPlacement`);
`MCApplicationState`, `MCSpools`,
`MCDelivery`, `MCDesktop`, `MCComponents` hold the instances. Components that
share no state are checked side by side in one run: in `MCSpools`, `MCDesktop`
and `MCComponents` a behaviour belongs to one part, chosen at the start, and the
variables of the other parts keep their initial values, so the state space is the
sum of the parts and not their product.

Identities are numbers that stand for their rank in the code's string order (the
code breaks ties of time by comparing them); times are small numbers; labels and
summaries carry no control and are left out. A `SessionEvent` is a record of
identity, kind, session, turn and time. Two records with the same identity and
different times are one event delivered twice by hooks that read different
clocks: identities contain no time. Operators whose comment begins with "Mutant
of" are variants of the next definition with a plausible bug; they are used only
to see that the properties notice it.

## 3. Runs

| Run | Question | Size |
|---|---|---|
| `order` | What do seven events of one session, delivered in any order and any number of times, leave behind? | 35,856 states, 18 s |
| `restart` | What survives failing saves, crashes and the exit handler? | 21,512 states, 13 s |
| `presentation` | Is what the pet shows justified by the cards, the dwell and the reminder? | 53,193 states, 77 s |
| `spool` | What are the events that hooks hand over, what may leave the table and the directory, who may work on a record, does a first start or a second desktop get in the way, and what does the evidence of desktops allow the migration to remove? | 2,945,314 states, 115 s |
| `delivery` | Is an event that a hook reported as delivered or stored settled once, whatever happens on its way? | 226,932 states, 96 s |
| `desktop` | What do the pages and menus show when calls overlap: which presentation, titles and feedback stand, which pet is served, drawn and clickable, which marks are set? | 805,244 states, 126 s |
| `components` | Do the supervisor, windows, pages, configuration commands and the loading of actions keep their promises? | 335,564 states, 163 s |
| `unsaved_state`, `dismissed_returns`, `stuck_waiting`, `stuck_reminder`, `lost_completion` | Five promises of the documents that the code does not keep (section 6). | seconds |

### Bounds

All bounds are CONSTANTS.

- `order`: two turns are what a session needs to retire one and to make an
  earlier one current; the retired window holds one, so that it overflows. The
  events contain ties in time (end and resumption of the session; a turn's start
  and a retry), because the code orders by time and identity. No restarts: the
  deduplication window holds all seven events.
- `restart`: the deduplication window is smaller than the number of events, so it
  forgets; two restarts, because the second starts from what the first restored.
  Here every delivery of an event has the same time.
- `presentation`: two sessions compete for one place of the durable projection;
  the dwell is 1 and the reminder 2, so a downgrade may fall inside and outside
  the dwell and reminders overlap. `TimersInOrder` runs expiry tasks by deadline;
  without it the reminder may never end (`stuck_reminder`).
- `spool`, table: room for two records and three bytes, one payload that fills the
  bytes alone, one that this version cannot read, three priorities; three inserts,
  so that retention runs with one and with two claimed rows in the table; a lease
  of one tick and a clock of two, so that a claim lapses while its holder works and
  is taken over. Four tokens are one more than can be in use when one is taken.
- `spool`, directory: room for one file, two writers and one claimer or the other
  way round, one lock that has grown old, one crash, one recovery. Opening: two
  processes of one build and one that embeds a further migration. Events: every
  hook in two turns, requests that differ in one field, and inputs that are
  refused, two hooks per behaviour, each delivered by up to two routes at
  different milliseconds. Endpoint: what an earlier desktop may have left of its
  socket and credentials, two desktops whose starts may overlap, two hooks, a
  mailbox of one. Migration: two plugin versions, the selected home and another one,
  two desktops in turn, one event of the plugin, two changes by the user (so that the
  plugin is disabled and enabled again, or replaced and put back).
- `delivery`: a permission request and the end of its session, a spool with room
  for one record (so that retention drops the other), one restart, a lease that
  can lapse. One desktop; two are in `spool`.
- `desktop`: four plans, each a different mix of what interrupts a publication:
  titles of two cards with a reconfiguration and a shutdown; a card with its
  acknowledgement and two reconfigurations; a card with two selections of a pet;
  and two activations of one card; a plan delivers an identity once. The library has two directories, two edits, two
  selections and one restart, so that an edit falls between any two steps of a
  selection and after it. The menus get two selections on pages and two in the
  tray, of three pets of which the tray knows two; a selection of each kind beside
  an action on the window; and three gestures. Angles are the boundaries of the
  look directions, times the frames of the longest animation.
- `components`: calls and title requests for one action slot and two global
  slots, in three mixes; two publications, two switches of the pet and one
  close request for the notification window; three cards in the stack, two of
  them for the click region; one edit by the user, one crash, two plans; two publishers, one break and one slot in the stream's
  channel; two shows and two choices on the appearance page; three presses in four
  ticks; three arrangements of displays, among them a scale of 1.5 with an odd
  height, one drag and two starts; every field of an action entry at the boundary
  of its check, before and after a sound entry.
- `MaxRevision`, `MaxNow`, `MaxClock`, `MaxInserts`, `MaxRestarts` and the other
  `Max...` constants only stop counters. An action that needs a later deadline (a
  reminder, a lease after a crash) is disabled when its deadline lies beyond the
  bound, so that no liveness property fails for the lack of clock ticks. Deadlock
  is not checked: the bounded clocks, revisions and budgets stop.

### What the properties say

- `LatestCardOnly`, `EndsAreFinal`, `RevisionsAgree` (run `order`): the reducer's
  promises over whole histories; `newest`, `finished` and `dismissed` are history
  variables. `DurableIsCurrent`: memory and database. That the row can always be restored
  needs no property: only `Saves` writes it, and it asks the same checks first.
  `NeverUnderstated`, `ReminderEnds`: the ambient state.
- `RowsBounded`, `SpoolAccounted`, `NothingVanishes`, `ClaimIsExclusive`,
  `ClaimedIsKept`: the table under two desktops, by count, bytes and drop
  counters. `StoredIsKept`: the same for the directory of files, whoever breaks
  the lock. `OpensInTime`: a race of first starts is no reason to fail.
  `OneIdentityPerHook`: two deliveries of a hook are one event and two hooks are
  two. `LiveDesktopIsReached`: unless two starts overlapped, a running desktop
  owns its socket and credentials.
- `AppliedOnce`, `ImplementsContract`: delivery end to end. The second is the
  abstract specification as a property, with its liveness, under the mapping `Fate`
  (from the table and the history) and `Promised` (from what hooks reported).
- `SequentialIsCurrent`: a publication that nothing overlaps leaves the state in the
  channel, also when earlier ones overlapped and left an older one there; so no change
  is left to a call that was aborted before it published. That overlapping publications
  can leave an older one is the code's, and the condition's.
  `PendingIsWorkedOn`, `NoCardForgotten`: the entries of pending titles are exactly
  those of the workers that may still write one, none of these survives a shutdown, and
  each card is asked for under the current configuration.
  `FeedbackStands`: the timer of one feedback spares a later one.
- `PetIsServed`, `ShapeFollowsPet`, `FramesAreDrawn`: the stored pet is listed with
  its asset and on screen, its window comes to take clicks where its frame is, and
  every frame it draws was validated.
- `MenusTellTruth`, `TrayFollowsSelection`: marks of the tray and the request of
  the context menu; the marks come to rest on the selected pet.
- `OneProcessPerKey`, `EveryCallAnswered`, `ValidActionsRemain`: actions.
- `CardsAreVisible`, `CardsTakeClicks`, `CarouselComesToRest`: the notification
  window. `CardsAreVisible` speaks of states in which nothing is under way, and
  excludes one race of the code: a toggle of the pet between the update task's
  look at it and the task's call on the window (`crossed`, section 6).
- `UserEditsKept`, `CompleteMeansRemoved`, `CleanupIsEarned`: the commands.
- `DocumentsCatchUp`, `PageFollowsSelection`, `ClicksAnswered`, `PetDoesNotCreep`:
  pages, pointer and placement. `ClicksAnswered` counts each click as answered, withdrawn,
  pending or, in the preview only, lost to a reset (section 6).

Most modules also state a type invariant. Those of the core are proved (section 4),
and the proofs of the other modules state and prove the types they need; the rest
only document what the variables hold and belong to no run.

### Fairness

- `ApplicationState`: the clock runs on and tokio wakes every sleeping task. No
  provider, user or database is assumed to do anything.
- `Delivery`: a user starts the desktop again, the clock runs, the drain loop
  (every 250 ms) takes its steps; the commit of a claim succeeds if it is
  possible again and again, because a database that is locked now is free later.
  A save may fail any number of times but not for ever: this is the implication
  `[]<>CanIngest => []<>(drainer[Desktop].at = "ingested")`, a condition on
  states that plays the part of strong fairness of `DrainIngests` and is much
  cheaper to check. Hooks and the socket have no fairness: a hook may die and a
  message may wait for ever. `CanIngest` excludes records whose reduced state the
  reducer's own validation refuses; see the observation on poison records below.
- `MCComponents`: a spawned task of the supervisor goes on until it is over
  (processes end or time out); a page receives the presentations that were sent to
  it; the browser ends the animations and transitions it plays; a publisher that
  has taken its snapshot sends it; a stream task and an EventSource go on; the refresh clock of a visible page ticks and its requests end. Users,
  further publications, breaks and failures have no fairness.
- `MCDesktop`: for the hit region, the page receives its pet, a call runs to its
  end, the main thread sets the shape, a selection goes on. For the menus, the
  task that keeps the marks, the handler that holds the main thread and a
  publication on its way go on. The other parts have safety properties only.
- In both modules one condition (`FirstTurn`, `SecondTurn`, ...) stands for the
  condition of each part, restricted by `part`: an unrestricted condition of one
  part would ask the behaviours of the others for steps they cannot take, and no
  behaviour would be left to check.

## 4. Proofs

The proofs hold for every set of events, sessions and turns, every number of
desktops, hooks, calls and files, and every bound that meets the named assumptions:

- `EventAssumption`: finitely many sessions; a session event names no turn and a
  turn event does (normalization rejects the rest); events of one identity
  belong to one session (identities are digests that contain it).
- `BoundAssumption`, `SchedulingAssumption`, `SpoolAssumption`: bounds are
  natural numbers, windows are not empty, a payload is no larger than the byte
  limit (a larger one is refused before), `NoToken` is not a token.
- `DeliveryAssumption`: the freshness of a credential is a number of ticks.
- `SupervisorAssumption`: the limits are those that loading admits (an action rejects or
  queues, runs one process at least, the global concurrency is 1 to 16, the table of
  titles holds one at least). A title worker is known by the negative of the request
  that spawns it (`SpawnedBy`), because a request spawns at most one.
- `LoadingAssumption`: the entries of a document are a sequence of records whose queue,
  mode and filter have the types that parsing gives them.
- `MenuAssumption`: menus offer pets that can be chosen, and the time of a native event is
  positive.
- `PlanAssumption` (`Desktop`): a plan bounds who calls what, and in one plan an
  identity is one event. Deduplication is the reducer's; here a second event of an
  identity would change nothing.
- `OpenAssumption`, `EndpointAssumption`: migrations are numbers; desktops and hooks are
  different positive numbers, so that none is `Nobody` or `Former`.
- `HookAssumption`: a payload is JSON, malformed or too large, whatever its fields are.
- `IntegrationAssumption`, `MigrationAssumption`: bounds are natural numbers, the
  compatible plugin versions are among the versions, the selected home is one of the
  homes, and "none" (evidence bound to no home) is not a home.
- `SpriteAssumption`: durations have no sign, angles are within one turn (a whole turn
  included, to which `rem_euclid` may round).
- `RegionAssumption`, `CarouselAssumption`, `InteractionAssumption`: bounds are natural
  numbers, the region's cards are at most the carousel's, delays are positive.
- `PlacementAssumption`: displays are what `DisplayWorkArea::new` lets through (a positive
  length, a scale of at least `MinScale`), no two of an arrangement have one name, and
  one is primary.

`FileSpool` needs no assumption: any sets of writers and claimers, which may even be the
same processes.

### The core

| Theorem | States | Argument |
|---|---|---|
| `TypeCorrect` | `TypeOK` of the application | each operator of the reducer maps a `Reducer` to a `Reducer` (`SessionReducerProofs`), then one step per action |
| `OnlyLatestCard` | `LatestCardOnly` | `CardInv`: types, the property for the reducer in memory and for the cards that the row would restore. The second part is needed because a restart begins from the row. Inserting a card is split by whether the session had none, an older or a newer one. |
| `DatabaseIsCurrent` | `DurableIsCurrent` | `DurableInv`: types, the property, and that the projection of the restored row is the row. The last part depends on how `persistent_state` chooses the sessions it keeps, and is why restoring twice changes nothing. |
| `RevisionsNeverGoBack` | `RevisionsAgree` | an operator that keeps the revision keeps the projection: an ignored event changes only the deduplication window and the presentation, which are not in the row |
| `PetIsNeverUnderstated` | `NeverUnderstated` | each operator ends in `refresh_presentation`, and between two refreshes the desired state only falls as time passes; `Review` and `Failed` are left at once when their card goes |
| `WhatEndedStaysEnded` | `EndsAreFinal` | `EndInv` adds: a turn that finished is in a terminal phase, an ended session has only resolved attention, and an unknown session has no turns. No event takes a turn out of a terminal phase, and the end of a session resolves the attention its turns asked for. |
| `AppliedTurnEventsArePast` | that an event of a turn applied once is stale or a duplicate from then on (`TurnEventsApplyOnce`, stated in `ApplicationStateProofs`) | by `EndInv` every event of a turn that applies leaves the turn's record at its own time and identity or at later ones, no step puts a record back, and an event at or before the record is ignored |
| `SpoolTypeCorrect`, `RowsAreBounded` | `TypeOK`, `RowsBounded` of the spool | `RowsInv`: types, a finite table, the bounds. A row that is released or claimed is rewritten under its key (`Rewritten`); an insert ends within the limits or without any pending row, and then the table is part of the old one (`Inserted`). |
| `NothingIsLost` | `NothingVanishes` | `ClaimsInv` adds: the event of a row held by a desktop that has ingested it is not owed (`IngestedIsSettled`), tokens of working desktops differ (`TokensDiffer`), and within its lease a claim has its row (`ClaimHolds`). A late commit finds its row only under its own token; a hook cannot insert the identity anew while the row is there, and claimed rows never expire. |
| `ClaimsAreExclusive` | `ClaimIsExclusive` | two claims within their leases would hold the same row (keys are unique), hence the same token |
| `ClaimsAreKept` | `ClaimedIsKept` | by cases on the action, with the lemma that retention drops only pending rows (`ExcessIsPending`) |
| `RecordsAreAccounted` | `SpoolAccounted` | `AccountInv`: a step that rewrites rows under their keys keeps their number and adds no bytes (unique keys make the rewriting a bijection); what retention, expiry, a commit or a dropped malformed record takes away is at most what the step counts (`AccountFrame`, `ClaimCounts`); and an insert ends within the limits, because a payload that is larger than the limit was refused before |

### Delivery: two compositions and a refinement

`Delivery` composes the application and the spool with hooks, socket and start-up.
`DeliveryIsApplication` and `DeliveryIsSpool` show, action by action, that the composed
system does to each part only what the part's own specification allows: the
theorems above hold in it. `DeliveryKeepsContract` is the refinement of
`DeliveryContract` under `Fate` and `Promised`, its safety part: the initial states
map to initial states, and each step to a step of the contract or to a stutter.
Its invariant (`DeliveryInv`) relates the places an event can be: the reducer has
answered for an event that was acknowledged or whose claim is about to be committed,
and a promised event is in the table, discarded or handled. `Fate` asks for identities, as the code does: a row of an
identity keeps every event of that identity.

`AppliedOnce` has two theorems, for it does not hold of every value of the constants
(see below). Both count what the composition applies (`CountMoves`).

- `DeliveredAgainIsAppliedOnce`: all events, through any number of crashes and exits, if
  no two events of a session have the same stamp and an identity is of one turn
  (`StampsTellEventsApart`), and there are no more sessions than the database keeps
  (`SessionsFit`). The instance of `delivery` meets both. `CountInv`: an event was not
  applied or is `Over`, that is, its session is as new as it, and its turn is too or is
  not recorded and the session is newer. The second alternative is what a restart needs,
  which forgets every turn but the current one. It is inductive with `Chronicle`: in
  a session's record only the current turn may be as new as the session itself, every
  turn carries the stamp of an event of its own, and the session carries that of a session
  event or of the event its current turn carries. The last part is why the reducer's
  exception for the session's latest event (`e.id = rec.id`) lets nothing in again.
- `DeliveredTwiceIsAppliedOnce`: events of turns, for a desktop that is not started again,
  with equal stamps and any number of sessions. It rests on `AppliedTurnEventsArePast`.

### The desktop and the actions

| Theorem | States | Argument |
|---|---|---|
| `LastFeedbackStands` | `FeedbackStands` | `FeedbackInv`: feedbacks are numbered, no activation that has ended holds a number that was not given out, no two hold the same, and a timer clears only its own |
| `EveryCardIsAskedFor` | `NoCardForgotten` | `AskedInv`: what is pending belongs to the current configuration and was asked for; a reconfiguration under way, and an ingestion that has its card and has not yet scheduled it, are the only calls that leave an unread card unasked |
| `PendingAlwaysWorkedOn` | `PendingIsWorkedOn` | a token leaves `pendingTitles`, `workers` and `aborted` in step (`LeavingTokens`), and by `WorkerInv` one that was aborted under a configuration has a card that is no longer unread, so it is not scheduled again under that configuration and cannot be pending once more |
| `SequentialPublicationsAreCurrent` | `SequentialIsCurrent` | `PublicationInv`: unless the last publication began beside another, at most one is under way, what it has read so far is what is current, and when none is under way the channel holds what is current. `WorkerInv`: a worker that is aborted is not between its save and its publication, because its card is unread until somebody else publishes |
| `OneProcessResolvesAKey` | `OneProcessPerKey` | `SupervisorInv`: until a shutdown empties `pending`, a worker that runs is the pending one of its key (`LiveIsPending`); a request that may still spawn has its worker unused (`UnusedWorkers`); the queues of the semaphores hold every waiting job once (`QueuesAreExact`), so a slot that is handed over is handed to a job that still waits |
| `ValidActionsAreInstalled` | `ValidActionsRemain` | `LoaderInv`: each entry that was looked at has left one view, and a disabled one exactly one diagnostic (`FaultsAreShown`); a name that was seen is that of an entry before, which parses (`NamesAreTaken`), so a sound entry alone with its name cannot be a duplicate (`SoundAreEnabled`); what is enabled passed every check and its name was seen, so the next one's is new (`EnabledPass`) |
| `SelectedPetIsServed` | `PetIsServed` | `LibraryInv`: what a selection has read stays what it was until its writes, because a selection holds the lock of the pets throughout; every asset table that is built has an entry for the active pet (`RuntimeIsRuntime`), also when it fell back; and outside the step that shows the new pet the view is that of the runtime |
| `MarksTellTruth` | `MenusTellTruth` | `MarksInv`: the marks of the tray agree with the window after each handler, since the handler that changes one changes the other. `IsMenu`: a request waits only while the menu's page loads, and the menu is visible only when it is loaded |
| `FramesAreAlwaysDrawn` | `FramesAreDrawn` | `SpriteInv`: a playback is inside the loop of an animation of the table (`LoopsGoRound`), so a frame is current (`CurrentIsColumn`: the `unreachable!` of `current_frame`) and validation asks for its cell; a frame that is sought begins where the one before ends, and is the current one then (`SoughtIsCurrent`, because the ends rise: `EndsRise`); and the direction that is chosen is the nearest, also where the circle closes (`NearestIsNear`). The lemmas hold of the nine animations as they are, so the recursion of `EndOf` needs no induction: its solution is written out (`EndsAreSums`). |

### Files and identities that processes share

| Theorem | States | Argument |
|---|---|---|
| `RacesDoNotFailOpening` | `OpensInTime` | `OpenInv`: while a process migrates, its build's migrations are applied or still to do (`TodoIsTheRest`), and applied migrations are never undone. Everything the race produces is retryable, so an attempt that fails goes back to `connect` or is late. |
| `StoredFilesAreKept` | `StoredIsKept` | `FileInv`: a record is accounted for once it was accepted or removed, or a file past its staging holds it. Nothing takes that back, because only staged files are removed without a trace; what a scan found is accounted for although the directory changed since; a claim that commits was accepted. That a record was stored follows from what the writer's last scan found. The lock is not needed for this. |
| `RunningDesktopsAreReached` | `LiveDesktopIsReached` | `EndpointInv`: as long as no two starts overlapped, whoever bound the path and has not removed it holds it and listens (`HoldersHold`), so a start that found the socket stale finds no holder until it has bound (`StaleIsStale`). Unconditionally: whoever credentials or a hook's signature name has published them and does not start again (`NamedArePublished`), and only a hook that has signed is in a wire or a mailbox (`SignedFirst`). |
| `HooksAreIdentified` | `OneIdentityPerHook` | `EventsInv`: an event has the identity of its payload and the source of its route and home, whichever process made it. `IdentityTells`: equal identities are of payloads that nobody can tell apart (the fields are compared kind by kind); `MarkedReads`: the source with its mark is read back to the hook and home it was made from |

### The configuration commands and the notification window

| Theorem | States | Argument |
|---|---|---|
| `LastEditsAreKept` | `UserEditsKept` | `IntegrationInv`: what a command has read and what it is about to write hold the user's last edits, unless one fell between; a file that an install recorded as created by it holds nothing of the user's (`IsProvenance`), so that an uninstall may delete it. The user's notify command is in the file as such, or a backup has it: a plan that puts it inside Lili's command updates the file (`PlanCreates`), which is backed up first (`BackedUpKeepsOwn`). An uninstall makes no backup, so a command inside Lili's must not be the only copy. |
| `RemovedIsRemoved` | `CompleteMeansRemoved` | `RemovalInv`: until a write of the uninstall a file is what it read, after the write what it planned; a completion is planned only when both results are free of Lili's entries (`UninstalledConfig`, `UninstalledHooks`) |
| `LegacyGoesLast` | `CleanupIsEarned` | `MigrationInv`: events that the desktop or its evidence remembers came through the socket, and so did one from the home that the evidence is bound to (`RememberedAreGenuine`); whoever a receipt names has answered both deliveries (`VerifiedOnce`); and what each check of a cleanup has found stays so until the removal unless the user changes the plugin meanwhile (`CleanupInv`) |
| `NoCardIsLeftHidden` | `CardsAreVisible` | `WindowInv`: unless a toggle crossed the task's call, what an actor or a posted message is about to do agrees with the pet as it is (`KnowsPet`, `MessagesKnowPet`), and an unread card in a hidden window beside a visible pet has somebody who will still show it (`WillShow`, `ShowIsPosted`, or a publication that was not read). The task waits for the answer it asked for (`AsksOnce`), so what it posts after it is acted on in that order. The flag and the generation of the delayed hide play no part: a due hide looks at the cards itself. |
| `CardsAlwaysTakeClicks` | `CardsTakeClicks` | `RegionHolds`: what the task has counted is what is published, or it was woken again (`CountsPublished`); the last report under way is of the page as it is, and when none is, the region is the page's own or a correction of it, which was for the published cards unless another correction is to come (`LastReportCounts`); `CardsAreSeen`, `CorrectionCovers`: a page with cards shows one of them, and a correction for its cards covers all it shows. |
| `ClicksAreAnswered` | `ClicksAnswered` | `ClickInv`: every released click is counted once as answered, withdrawn, pending or lost to a reset, unless one was missed (`ClicksAreCounted`); a reset takes the clock back and the pending click with it, so none is pending after the clock's time (`ResettingKeeps`); in the preview a pending click is never late, since the clock that advances is the one that polls, so none is missed there (`PolledInTime`); and a pressed pointer drags exactly when its gesture went far (`GestureIsKnown`) |
| `NotificationsAreBeside` | that the notification window is placed for a display the pet is on once a move is handled (`NoteIsBeside`, stated in `ComponentProofs`) | by cases on what handles a move |
| `PetStaysWhereItIsLeft` | `PetDoesNotCreep`, if `OnOneDisplay` | `PetRests`: on its display the pet is where it was left, or at a position that saving and restoring do not change (`Left`), within one rounding of it (`Close`). There and back through logical pixels is close at every scale (`BackIsClose`), and a second time it changes nothing: a display of scale 1 or less loses nothing (`BackOnSmall`), a larger one gives every logical pixel a physical one (`LogicalOfBack`). A pet that a display shows is resolved on that display (`ResolvedOn`), and clamping leaves it in sight (`SeenIsShown`). `OnOneDisplay`: one display shows the pet where it comes to rest and wherever rounding has moved it. Across two displays of different scales the roundings of both come together. |

For the proofs the model was made precise where it relied on TLC's reading: arms of a
`CASE` exclude each other (`Desired`, `PhaseRank` and others), `Fate` compares
identities, as the table does, and not events, and the bytes of the table are the
cardinality of a set of pairs of a row and a byte, of which the library's theorems tell
how it grows, instead of a sum folded over the rows.

### Only model-checked, and why

- Liveness under fairness: `ReminderEnds`, the liveness of `ImplementsContract`,
  `ShapeFollowsPet`, `TrayFollowsSelection`, `EveryCallAnswered`, `CarouselComesToRest`,
  `DocumentsCatchUp`, `PageFollowsSelection`.
- `AppliedOnce` beyond the hypotheses of its theorems: a session that the projection
  evicts (`MaxPersisted`), a restart within a tie of times, or the case of
  `session_ended` in section 6 lets an event apply again. What holds always is
  `AppliedTurnEventsArePast`, for events of turns within one process.
- The titles' cache and debounce table in `ActionSupervisor` are left untyped by
  `SupervisorInv`: they are rewritten with `SelectSeq`, which is recursive.
- `PetDoesNotCreep` for a pet that was left across two displays before: the run covers
  one arrangement of two.

What the violation runs refute does not hold, so there is nothing to prove.

## 5. Not modelled, and why

Text (labels, summaries, diagnostics), formats on the wire and in the database,
and permissions of files: they carry no control, or are decided by the platform.
In `Delivery` the mailbox is not a queue of its own: a message waits in `wire`, in
any order, until the actor takes it; the queue is in `ForwardingEndpoint`. Parts
that are left out:

- Authentication of pages (`lili/src/loopback.rs`, bootstrap paths, sessions and
  headers of `lili-server`): it decides whether a request is heard, and a request
  that is not heard changes nothing.
- The nonce memory of the frame verifier; a message carries an instance and a time
  in `Delivery`, and in `ForwardingEndpoint` a MAC is the instance that made it.
- Named pipes and ACLs of Windows, `macos_panel` and the native calls of the
  windows: platform interfaces whose effects the models take as given.
- Starting the user's original notify command; `startup.rs`; the views of `lili-ui`
  (markup, styles, gaze), which follow from the states the models have.
- Decoding images and running child processes: each is an outcome.
- The acceptance drivers, fuzz targets, packaging and the site.

`PROJECT.json` says for each component what is in and what is out. Definitions
cover about a third of the implementation's lines; what remains is mostly
rendering, parsing, error wording, platform code and test drivers.

One cap lies above the instances: `title.rs` keeps at most 256 pending titles,
and no run has so many cards.

## 6. Where documents and code disagree

Each has a run whose counterexample shows it; `PROJECT.json` quotes the lines.

- `unsaved_state` (`AppliedStateIsRestorable`): a late event of a retired turn makes it current again while it
  stays among the retired turns; the result cannot be saved, on any delivery.
- `dismissed_returns` (`DismissedStaysDismissed`): the deduplication window does not survive a restart and
  identities carry no time, so a retry stamped later brings a dismissed card back.
- `stuck_waiting` (`WaitingEnds`): a downgrade put off by the minimum dwell needs a tick that
  only a pending reminder would bring. The dwell is 750 ms (`DEFAULT_MINIMUM_DWELL_MS`).
- `stuck_reminder` (`ReminderEnds`, without `TimersInOrder`): an expiry task passes its own deadline as the current time; run
  after a later one it restores a reminder that nothing ends.
- `lost_completion` (`OfflineCompletionShown`): the drain takes a spooled start of the next turn before an
  older spooled completion, which is then stale and shows no card, unless the
  reducer knew the completed turn.

The models also describe behaviours worth knowing that have no run of their own.
Where one of them limits a property, the property's condition says so.

Events and spools

- `enqueue` reports `Stored` when a row of the identity exists, also if it is an
  earlier event's. Identities that repeat: the end of a session, a resumption with
  the same source, a second identical native permission request in a turn. A
  permission request without tool input has an identity of the millisecond: two in
  one millisecond are one, and the two routes of a migration make two of one.
- A spooled resumption and the older end of the same session are drained in
  priority order: the resumption is ignored while the session is open, then the
  end is applied and the resumed session stays ended.
- A record whose reduced state is refused (`unsaved_state`) is released and claimed
  first again; what is behind it waits until retention drops it.
- If the end of a session and a newer event of a turn it knows have the same millisecond
  and the event has the smaller identity, the event is applied after the end too: it
  reopens the session, whose record takes the event's time and identity. The same
  `session_ended`, delivered again, is then no duplicate (the session is open) and not
  stale, and is applied again. Where stamps tie, only events of turns are promised to
  apply once (`AppliedTurnEventsArePast`).
- `DropMalformed` counts a drop even if its claim lapsed and another desktop
  counts the same record. In the directory spool a crash between a drop and the
  saving of the counters loses the count, and `enqueue` may report an error for a
  record that a recovery has made pending. The application uses the SQLite spool.
- The journal mode is only read when the database is locked, so a file that is not
  in WAL mode stays so until the next opening; an unreadable version table skips
  the check for newer versions (`database.rs:104-136`).
- Two desktops that start at the same time may both find the socket stale; the
  second removes the first one's, and the credential file may name the other.
  Hooks then spool until a restart. A desktop refused with `EndpointInUse` runs on
  without ingestion. A start that probes a socket counts there as a rejection.
- A crash between saving the rotated evidence and replacing the credentials loses
  the evidence. The credential file stays after an orderly shutdown
  (`docs/privacy-policy.md:50` says otherwise).

The desktop

- Overlapping publications may arrive out of order, and the page keeps the older
  one until the next that nothing overlaps (`SequentialIsCurrent` has the condition).
- The update task may act on what it was told about the pet before the user hid or
  showed it, and leave the notification window visible beside a hidden pet or
  hidden beside a visible one until the next publication (`CardsAreVisible` has
  the condition). A renumbering that follows a new schedule strands that hide: an
  empty window stays until the next card. The two guards of a delayed hide are
  redundant for visibility; they protect the delay.
- `reconcile_hit_region` is a load and a store; a report of the page between them
  is lost, and only a lone card's region is certain.
- After a tray selection that failed, a mark is wrong until the next publication.
  `set_always_on_top` reads, changes and writes the settings in a task of its own;
  two of them may be saved in the other order.
- A drag's commit that comes late ends the next drag's anchor, and two commits may
  save the older position last. A first click is lost if the second release comes
  after 250 ms and before the poll. A stale answer may overwrite what the
  appearance page shows until its next refresh. A chosen scene or sprite, a change of
  the preview's mode and a changed selection (also one made in the tray) replace the
  preview's controller (`appearance.rs:676-694`): a click that waits for a second one is
  never answered, and a gesture under way is forgotten. Only the preview loses it;
  the pet on the desktop has no such reset.
- Focusing a hidden card two or more places older leaves the foreground hidden; a
  survivor's reflow mark stays if the lone survivor is replaced in one update.
- A pet package with an invalid atlas shadows a later one of the same identifier; a
  failed selection leaves a new catalog beside the old assets; an active asset that
  cannot be read replaces the whole catalog by the fallback. A restored placement
  is clamped so that a margin of the window is on the display, which need not be
  a visible part of the pet (`persistence.rs:169-180`).
- An entry of `actions.toml` that fails its checks still takes its identifier: a
  later sound entry of that name is disabled.

Configuration commands

- An exclusive plan replaces a chained notify command
  (`docs/security-and-operations.md:94`).
- A user's edit between a command's last check and its write is overwritten.
- Hook handlers that a user moved into `config.toml` count as present
  (`lili-integration/src/lib.rs:189-198`), but an uninstall removes handlers from
  `hooks.json` only. They are outside `Integration`, and `CompleteMeansRemoved` is about
  handlers in `hooks.json` and the notify command in `config.toml`.
- Evidence that is not bound to an inspected installation never completes a
  migration (`diagnostics_refresh` at `lili/src/lib.rs:354-360`, `codex.rs:220-223`);
  the instance has `Inspected = TRUE`, as the server's own tests do.
- Evidence that is bound to one home may hold an event of another. A refresh forgets
  the last accepted event when the plugin is not listed or has another version, but
  not the remembered events (`refresh_discovery`, `codex.rs:298-332`); `save` compares
  only the last accepted event's home with the bound one (`transport.rs:161-184`), so
  an event remembered from another home is stored under the bound home, and an
  assessment may count it. `CleanupIsEarned` therefore asks for an event of the
  version and for one of the home, which need not be the same event.

## 7. Plan

1. Done: the core (`SessionReducer`, `ApplicationState`, `SqliteSpool`,
   `DeliveryContract`, `Delivery`), with types, cards, the database and the table's
   claims proved.
2. Done: publication, titles, actions, windows, menus, pets, pages, transport,
   identities, opening, the directory of files, integration and migration, each a
   module with properties and an instance.
3. Done: theorems about the rest of the core (ends, revisions, the pet's
   state), about delivery (both compositions and the contract), the desktop with its
   menus, the pets it serves and the frames it shows, the actions, the files and
   identities that processes share, the configuration commands, the notification window
   with its cards, and the clicks on the pet.
4. Done: theorems about the rest of the runs' invariants: the account of the table, how
   often an event is applied, and the placement of the windows.
5. Later: the nonce memory, Windows pipes, and page authentication, if the code
   around them grows state that survives a request.
