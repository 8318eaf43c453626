---------------------------- MODULE PluginMigration ----------------------------
(***************************************************************************)
(* The move from the legacy entries to the plugin: the evidence that the   *)
(* desktop keeps of delivered plugin events and its rotation with the      *)
(* credentials (lili-session/src/transport.rs, codex.rs), the assessment,  *)
(* the receipt and the cleanup (lili-integration/src/migration.rs,         *)
(* lili/src/integration_cli.rs).                                           *)
(*                                                                         *)
(* One plugin selector.  An event is its number, the home and the plugin   *)
(* version it was delivered from.  A signature is the instance whose       *)
(* secret made it.  The legacy entries are absent, active, or altered by   *)
(* the user; their removal in steps is the module Integration.             *)
(***************************************************************************)
EXTENDS Integers, FiniteSets

CONSTANTS
    PluginVersion,     \* versions a Marketplace offers
    CompatibleVersion, \* those of supported_release_version
    CodexHome,         \* homes that plugin events come from
    SelectedHome,      \* the CODEX_HOME of the command line
    Inspected,         \* does the desktop refresh what it discovers of Codex?
    MaxInstances, MaxEvents, MaxCodexChanges  \* bounds

VARIABLES
    codex,       \* the plugin as Codex has it, and whether its hooks are trusted
    legacy,      \* the legacy entries
    desktop,     \* the running desktop and its diagnostics
    credentials, \* the instance in the credentials file, 0 when there is none
    evidence,    \* the row of plugin_evidence
    assessment,  \* the saved assessment
    receipt,     \* the saved verification
    command,     \* the running command
    witnessed    \* history: authenticated events, verified instances, counts

migrationVars == <<codex, legacy, desktop, credentials, evidence, assessment, receipt,
                   command, witnessed>>

ASSUME MigrationAssumption ==
    /\ CompatibleVersion \subseteq PluginVersion
    /\ SelectedHome \in CodexHome /\ "none" \notin CodexHome
    /\ Inspected \in BOOLEAN
    /\ MaxInstances \in Nat /\ MaxEvents \in Nat /\ MaxCodexChanges \in Nat

-------------------------------------------------------------------------------
NoEvent == [id |-> 0, home |-> "none", version |-> "none"]
NoAssessment == [state |-> "none", event |-> NoEvent]
NoReceipt == [instance |-> 0, assessment |-> NoAssessment]
Quiescent == [step |-> "idle", seen |-> NoEvent, plugin |-> "none", enabled |-> FALSE, legacy |-> FALSE,
              reviewed |-> FALSE, synthetic |-> FALSE, instance |-> 0, disturbed |-> FALSE]

\* CodexAdapterDiagnostics: the last plugin event, the remembered one and whether
\* discovery has named the plugin (its plugin_id).
NoDiagnostics == [last |-> NoEvent, seen |-> NoEvent, named |-> FALSE]

\* Mutant of Attributed: an event from the spool counts as well.
AttributedAnyway(event, authenticated) == event

\* record_accepted_event and record_accepted_spooled_event: only an event that was
\* delivered through the socket carries its plugin.
Attributed(event, authenticated) == IF authenticated THEN event ELSE NoEvent

\* record_plugin_event: an event counts once discovery has named the plugin.
RecordedForPlugin(diagnostics, event) == IF diagnostics.named THEN event ELSE diagnostics.last

\* record_accepted_event_inner
Recorded(diagnostics, event) ==
    IF event = NoEvent THEN diagnostics
    ELSE [diagnostics EXCEPT !.seen = event, !.last = RecordedForPlugin(diagnostics, event)]

\* refresh_discovery: the remembered event counts for the installed, enabled version.
Rediscovered(diagnostics, listed) ==
    [seen |-> diagnostics.seen, named |-> listed,
     last |-> IF /\ listed /\ codex.installed /\ codex.enabled
                 /\ diagnostics.seen # NoEvent /\ diagnostics.seen.version = codex.version
              THEN diagnostics.seen ELSE NoEvent]

\* CodexPluginEvidenceStore::save: a row stays with the home it is bound to.
Stored(diagnostics, instance) ==
    LET observed == diagnostics.last.home IN
    IF evidence.home # "none" /\ observed # "none" /\ evidence.home # observed THEN evidence
    ELSE [home |-> IF evidence.home # "none" THEN evidence.home ELSE observed,
          seen |-> diagnostics.seen, last |-> diagnostics.last, named |-> diagnostics.named,
          signer |-> instance]

\* load_for_codex_home and inspect_plugin of the command line.
Evidence ==
    IF credentials # 0 /\ evidence.signer = credentials /\ evidence.home = SelectedHome
    THEN evidence.seen ELSE NoEvent
Inspection == Rediscovered([NoDiagnostics EXCEPT !.seen = Evidence], TRUE).last

-------------------------------------------------------------------------------
Others == <<codex, legacy, assessment, receipt, command>>

\* start_native_ingestion: the evidence that the last credentials verify is signed
\* with the new ones before the file is replaced.
StartDesktop ==
    /\ desktop.step = "down" /\ desktop.instance < MaxInstances
    /\ LET next == desktop.instance + 1
           kept == IF credentials # 0 /\ evidence.signer = credentials
                      THEN [last |-> evidence.last, seen |-> evidence.seen, named |-> evidence.named]
                      ELSE NoDiagnostics IN
       /\ desktop' = [step |-> "starting", instance |-> next, diagnostics |-> kept]
       /\ evidence' = Stored(kept, next)
    /\ UNCHANGED <<credentials, witnessed>> /\ UNCHANGED Others

PublishCredentials ==
    /\ desktop.step = "starting"
    /\ desktop' = [desktop EXCEPT !.step = "up"]
    /\ credentials' = desktop.instance
    /\ UNCHANGED <<evidence, witnessed>> /\ UNCHANGED Others

\* The file cannot be replaced: the evidence is signed with the old ones again.
RollBackEvidence ==
    /\ desktop.step = "starting"
    /\ desktop' = [desktop EXCEPT !.step = "down"]
    /\ evidence' = IF credentials = 0 THEN evidence ELSE Stored(desktop.diagnostics, credentials)
    /\ UNCHANGED <<credentials, witnessed>> /\ UNCHANGED Others

\* The desktop ends or dies, in its start as well; its credentials file stays.
StopDesktop ==
    /\ desktop.step # "down"
    /\ desktop' = [desktop EXCEPT !.step = "down"]
    /\ UNCHANGED <<credentials, evidence, witnessed>> /\ UNCHANGED Others

\* reduce_event, publish_diagnostics.  Only trusted hooks of an enabled plugin run;
\* what happens in another home is not constrained.
DeliverEvent(home, version, authenticated) ==
    /\ desktop.step = "up" /\ witnessed.events < MaxEvents
    /\ home = SelectedHome => codex.installed /\ codex.enabled /\ codex.trusted /\ version = codex.version
    /\ LET event == [id |-> witnessed.events + 1, home |-> home, version |-> version]
           diagnostics == Recorded(desktop.diagnostics, Attributed(event, authenticated)) IN
       /\ desktop' = [desktop EXCEPT !.diagnostics = diagnostics]
       /\ evidence' = Stored(diagnostics, desktop.instance)
       /\ witnessed' = [witnessed EXCEPT !.events = event.id,
                           !.genuine = IF authenticated THEN @ \cup {event} ELSE @]
    /\ UNCHANGED credentials /\ UNCHANGED Others

\* RefreshCodexAdapter: the settings page asks for diagnostics; the list of
\* plugins may be unavailable.
RefreshDiagnostics(listed) ==
    /\ Inspected /\ desktop.step = "up"
    /\ LET diagnostics == Rediscovered(desktop.diagnostics, listed) IN
       /\ desktop' = [desktop EXCEPT !.diagnostics = diagnostics]
       /\ evidence' = Stored(diagnostics, desktop.instance)
    /\ UNCHANGED <<credentials, witnessed>> /\ UNCHANGED Others

-------------------------------------------------------------------------------
\* The user changes the plugin or the legacy entries, in the middle of a command too.
CodexChange(installed, enabled, version, trusted) ==
    /\ witnessed.changes < MaxCodexChanges
    /\ installed /\ version = codex.version => codex.installed
    /\ trusted => installed /\ enabled /\ version = codex.version
    /\ codex' = [installed |-> installed, enabled |-> installed /\ enabled,
                 version |-> version, trusted |-> trusted]
    /\ codex' # codex
    /\ command' = [command EXCEPT !.disturbed = @ \/ command.step # "idle"]
    /\ witnessed' = [witnessed EXCEPT !.changes = @ + 1]
    /\ UNCHANGED <<legacy, desktop, credentials, evidence, assessment, receipt>>

AlterLegacy ==
    /\ legacy = "active" /\ witnessed.changes < MaxCodexChanges
    /\ legacy' = "altered"
    /\ witnessed' = [witnessed EXCEPT !.changes = @ + 1]
    /\ UNCHANGED <<codex, desktop, credentials, evidence, assessment, receipt, command>>

-------------------------------------------------------------------------------
World == <<codex, desktop, credentials, evidence, witnessed>>
Abandoned == command' = Quiescent

\* run_assess: inspect_plugin
BeginAssess ==
    /\ command.step = "idle"
    /\ command' = [Quiescent EXCEPT !.step = "assess_trust", !.seen = Inspection,
                      !.plugin = IF codex.installed THEN codex.version ELSE "none",
                      !.enabled = codex.enabled, !.legacy = legacy # "none"]
    /\ UNCHANGED <<legacy, assessment, receipt>> /\ UNCHANGED World

\* collect_runtime_verification: hook trust, then two synthetic deliveries, which
\* need the running desktop and its credentials and may time out all the same.
AssessTrust ==
    /\ command.step = "assess_trust"
    /\ command' = [command EXCEPT !.step = "assess_synthetic", !.reviewed = codex.trusted]
    /\ UNCHANGED <<legacy, assessment, receipt>> /\ UNCHANGED World
AssessSynthetic(delivered) ==
    /\ command.step = "assess_synthetic"
    /\ delivered => /\ command.reviewed /\ command.seen # NoEvent
                    /\ desktop.step = "up" /\ credentials = desktop.instance
    /\ command' = [command EXCEPT !.step = "assess_state", !.synthetic = delivered,
                                  !.instance = IF delivered THEN credentials ELSE 0]
    /\ witnessed' = IF delivered THEN [witnessed EXCEPT !.verified = @ \cup {credentials}] ELSE witnessed
    /\ UNCHANGED <<legacy, assessment, receipt, codex, desktop, credentials, evidence>>

\* assess_plugin_migration, migration_state
MigrationState ==
    CASE command.legacy /\ legacy # "active" -> "blocked"
      [] (~command.legacy \/ legacy = "active") /\ command.plugin = "none" -> "install_ready"
      [] (~command.legacy \/ legacy = "active") /\ command.plugin \in PluginVersion \ CompatibleVersion -> "blocked"
      [] (~command.legacy \/ legacy = "active") /\ command.plugin \in CompatibleVersion ->
           IF ~command.enabled \/ ~command.reviewed \/ command.seen = NoEvent THEN "awaiting_hook_review"
           ELSE IF ~command.synthetic THEN "awaiting_verification"
           ELSE IF command.legacy THEN "cleanup_ready" ELSE "plugin_primary"

\* save_cleanup_verification_if_ready; the user saves the output.
FinishAssess ==
    /\ command.step = "assess_state"
    /\ assessment' = [state |-> MigrationState, event |-> command.seen]
    /\ receipt' = IF MigrationState = "cleanup_ready"
                     THEN [instance |-> command.instance, assessment |-> assessment'] ELSE receipt
    /\ Abandoned /\ UNCHANGED legacy /\ UNCHANGED World

\* install_plugin_with_rollback
BeginPluginInstall ==
    /\ command.step = "idle" /\ assessment.state = "install_ready" /\ ~codex.installed
    /\ command' = [Quiescent EXCEPT !.step = "add_plugin"]
    /\ UNCHANGED <<legacy, assessment, receipt>> /\ UNCHANGED World
AddPlugin(added) ==
    /\ command.step = "add_plugin"
    /\ command' = [command EXCEPT !.step = IF added THEN "verify_plugin" ELSE "remove_plugin"]
    /\ codex' = IF added /\ ~codex.installed
                   THEN [codex EXCEPT !.installed = TRUE, !.enabled = TRUE, !.trusted = FALSE] ELSE codex
    /\ UNCHANGED <<legacy, assessment, receipt, desktop, credentials, evidence, witnessed>>
VerifyPlugin ==
    /\ command.step = "verify_plugin"
    /\ IF codex.installed /\ codex.enabled /\ codex.version \in CompatibleVersion
       THEN Abandoned ELSE command' = [command EXCEPT !.step = "remove_plugin"]
    /\ UNCHANGED <<legacy, assessment, receipt>> /\ UNCHANGED World
RemovePlugin ==
    /\ command.step = "remove_plugin" /\ Abandoned
    /\ codex' = [codex EXCEPT !.installed = FALSE, !.enabled = FALSE, !.trusted = FALSE]
    /\ UNCHANGED <<legacy, assessment, receipt, desktop, credentials, evidence, witnessed>>

-------------------------------------------------------------------------------
\* cleanup_legacy_after_verification_with_host, check by check.
ReceiptHolds ==
    /\ assessment.state = "cleanup_ready" /\ assessment.event # NoEvent
    /\ credentials # 0 /\ receipt.instance = credentials /\ receipt.assessment = assessment
\* Mutant of HooksTrusted: what was trusted at the last delivery suffices.
HooksTrustedBefore == Inspection # NoEvent
HooksTrusted == codex.trusted
StillVerified ==
    /\ codex.installed /\ codex.enabled /\ codex.version \in CompatibleVersion
    /\ Inspection # NoEvent /\ Inspection = assessment.event
    /\ legacy # "none"

Check(from, holds, to) ==
    /\ command.step = from
    /\ command' = IF holds THEN [command EXCEPT !.step = to] ELSE Quiescent
    /\ UNCHANGED <<legacy, assessment, receipt>> /\ UNCHANGED World

BeginCleanup ==
    /\ command.step = "idle" /\ ReceiptHolds
    /\ command' = [Quiescent EXCEPT !.step = "check_trust"]
    /\ UNCHANGED <<legacy, assessment, receipt>> /\ UNCHANGED World
CheckTrust == Check("check_trust", HooksTrusted, "check_plugin")
CheckPlugin == Check("check_plugin", StillVerified, "preview")
PreviewCleanup == Check("preview", legacy = "active", "uninstall")
CleanUp ==
    /\ command.step = "uninstall" /\ Abandoned
    /\ legacy' = IF legacy = "active" THEN "none" ELSE legacy
    /\ UNCHANGED <<assessment, receipt>> /\ UNCHANGED World

-------------------------------------------------------------------------------
MigrationInit ==
    /\ \E version \in PluginVersion :
          codex = [installed |-> FALSE, enabled |-> FALSE, version |-> version, trusted |-> FALSE]
    /\ legacy = "active"
    /\ desktop = [step |-> "down", instance |-> 0, diagnostics |-> NoDiagnostics]
    /\ credentials = 0
    /\ evidence = [home |-> "none", seen |-> NoEvent, last |-> NoEvent, named |-> FALSE, signer |-> 0]
    /\ assessment = NoAssessment /\ receipt = NoReceipt /\ command = Quiescent
    /\ witnessed = [events |-> 0, changes |-> 0, genuine |-> {}, verified |-> {}]

MigrationNext ==
    \/ StartDesktop \/ PublishCredentials \/ RollBackEvidence \/ StopDesktop
    \/ \E home \in CodexHome, version \in PluginVersion, authenticated \in BOOLEAN :
          DeliverEvent(home, version, authenticated)
    \/ \E listed \in BOOLEAN : RefreshDiagnostics(listed)
    \/ \E installed, enabled, trusted \in BOOLEAN, version \in PluginVersion :
          CodexChange(installed, enabled, version, trusted)
    \/ AlterLegacy
    \/ BeginAssess \/ AssessTrust \/ (\E delivered \in BOOLEAN : AssessSynthetic(delivered)) \/ FinishAssess
    \/ BeginPluginInstall \/ (\E added \in BOOLEAN : AddPlugin(added)) \/ VerifyPlugin \/ RemovePlugin
    \/ BeginCleanup \/ CheckTrust \/ CheckPlugin \/ PreviewCleanup \/ CleanUp

MigrationSpec == MigrationInit /\ [][MigrationNext]_migrationVars

-------------------------------------------------------------------------------
\* "Cleanup ... requires every selected plugin hook to remain enabled and trusted,
\* the installed plugin version and real event identity to match": when the legacy
\* entries are about to go and nobody touched the plugin during the command, the
\* plugin is trusted, an event of this very version and one of the selected home came
\* through the socket, and some desktop answered both synthetic deliveries; however
\* desktops, upgrades, homes, spooled events and old assessments interleave.
CleanupIsEarned ==
    command.step = "uninstall" /\ ~command.disturbed =>
        /\ codex.installed /\ codex.enabled /\ codex.trusted
        /\ \E event \in witnessed.genuine : event.version = codex.version
        /\ \E event \in witnessed.genuine : event.home = SelectedHome
        /\ receipt.instance \in witnessed.verified

===============================================================================
