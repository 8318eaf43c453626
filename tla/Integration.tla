------------------------------ MODULE Integration ------------------------------
(***************************************************************************)
(* The legacy integration of the command line: inspecting the two          *)
(* configuration files of Codex, planning, installing and uninstalling     *)
(* (lili-integration/src/lib.rs, plan.rs, install.rs, uninstall.rs).       *)
(*                                                                         *)
(* A file is what the operations tell apart: the notify command or the     *)
(* hook handlers of Lili, and the number of the user's last edit, which    *)
(* stands for everything else in it.  Equal files have equal hashes.       *)
(* Every file is replaced atomically, so a crash falls between two steps;  *)
(* the user may edit a file at any time.                                   *)
(***************************************************************************)
EXTENDS Integers, FiniteSets

CONSTANTS
    Surface,     \* HOOK_SURFACES
    MaxEdits,    \* bound on the user's edits
    MaxCrashes,  \* bound on crashes of the command
    MaxPlans     \* bound on the plans that are made

VARIABLES
    config,      \* config.toml
    hooks,       \* hooks.json
    provenance,  \* lili/integration.json
    backups,     \* contents of the backup files
    plan,        \* the plan file the user keeps
    cli,         \* the running command and what it has read
    user,        \* what the user wants: the last edits, the own notify command
    outcome,     \* what the last command reported
    spent        \* what is used of the bounds

integrationVars == <<config, hooks, provenance, backups, plan, cli, user, outcome, spent>>

ASSUME IntegrationAssumption ==
    Surface # {} /\ MaxEdits \in Nat /\ MaxCrashes \in Nat /\ MaxPlans \in Nat

-------------------------------------------------------------------------------
NoConfig == [kind |-> "absent", notify |-> "none", rest |-> 0]
NoHooks == [kind |-> "absent", lili |-> {}, altered |-> FALSE, rest |-> 0]
NoProvenance == [kind |-> "absent", notify |-> "none", previous |-> "none",
                 config |-> [created |-> FALSE, after |-> NoConfig],
                 hooks |-> [created |-> FALSE, after |-> NoHooks]]

\* notify: "own" is the user's command, "lili" Lili's, "chain" Lili's with the
\* user's command inside.
Marked(notify) == notify \in {"lili", "chain"}
OwnOf(notify) == IF notify \in {"own", "chain"} THEN "own" ELSE "none"

\* inspect_notify
NotifyKind(c) ==
    CASE c.notify = "none" -> "missing"
      [] Marked(c.notify) -> "lili"
      [] c.notify = "invalid" -> "invalid"
      [] OTHER -> "other"

\* safe_to_mutate, on the status read_toml and read_json give the file.
Safe(file) == file.kind # "broken"

\* action_for
ActionFor(file) == IF file.kind = "absent" THEN "create" ELSE "update"

\* coexistence_original_argv
Previous(c, mode) ==
    IF mode = "coexist" /\ (NotifyKind(c) = "other" \/ c.notify = "chain") THEN "own" ELSE "none"

\* classify_commands, for each event of the surface inspect_toml_hooks or
\* inspect_json_hooks: the events without Lili's command.
Missing(h) == Surface \ h.lili

\* build_plan
PlanFor(c, h, mode) ==
    LET previous == Previous(c, mode)
        notify == IF previous = "own" THEN "chain" ELSE "lili"
        additions == Missing(h)
        status == CASE ~(Safe(c) /\ Safe(h)) -> "blocked"
                    [] Safe(c) /\ Safe(h) /\ NotifyKind(c) = "invalid" -> "conflict"
                    [] Safe(c) /\ Safe(h) /\ NotifyKind(c) = "other" /\ mode = "exclusive" -> "conflict"
                    [] OTHER -> "ready" IN
    [status |-> status, mode |-> mode, config |-> c, hooks |-> h,
     notify |-> notify, previous |-> previous, additions |-> additions,
     configAction |-> CASE status # "ready" -> status
                        [] status = "ready" /\ c.notify = notify -> "unchanged"
                        [] OTHER -> ActionFor(c),
     hooksAction |-> CASE status = "blocked" -> status
                       [] status # "blocked" /\ additions = {} -> "unchanged"
                       [] OTHER -> ActionFor(h)]
NoPlan == PlanFor([NoConfig EXCEPT !.kind = "broken"], NoHooks, "exclusive")

NoCommand == [step |-> "idle", config |-> NoConfig, hooks |-> NoHooks, provenance |-> NoProvenance,
         toConfig |-> NoConfig, toHooks |-> NoHooks, complete |-> FALSE]

-------------------------------------------------------------------------------
\* The user edits a file; an edit that falls between a command's reading and its
\* last write is one the command cannot see.
MayEdit == spent.edits < MaxEdits
Edited == [user EXCEPT !.unseen = @ \/ cli.step # "idle"]
Spend(what) == spent' = [spent EXCEPT ![what] = @ + 1]

EditConfig(kind, notify) ==
    /\ MayEdit
    /\ config' = IF kind = "absent" THEN NoConfig
                 ELSE [kind |-> kind, notify |-> notify, rest |-> spent.edits + 1]
    /\ user' = [Edited EXCEPT !.config = config'.rest,
                              !.own = IF Marked(notify) THEN @ ELSE OwnOf(config'.notify)]
    /\ Spend("edits")
    /\ UNCHANGED <<hooks, provenance, backups, plan, cli, outcome>>

EditHooks(kind, lili, altered) ==
    /\ MayEdit
    /\ lili \subseteq hooks.lili /\ (altered => lili # {})
    /\ hooks' = IF kind = "absent" THEN NoHooks
                ELSE [kind |-> kind, lili |-> lili, altered |-> altered, rest |-> spent.edits + 1]
    /\ user' = [Edited EXCEPT !.hooks = hooks'.rest]
    /\ Spend("edits")
    /\ UNCHANGED <<config, provenance, backups, plan, cli, outcome>>

\* integrate plan [--coexist]
MakePlan(mode) ==
    /\ cli.step = "idle" /\ spent.plans < MaxPlans
    /\ plan' = PlanFor(config, hooks, mode)
    /\ Spend("plans")
    /\ UNCHANGED <<config, hooks, provenance, backups, cli, user, outcome>>

-------------------------------------------------------------------------------
Reject(result) ==
    /\ outcome' = result
    /\ UNCHANGED <<config, hooks, provenance, backups, plan, cli, user, spent>>

\* Mutant of PlanIsCurrent: the files are not compared with the plan.
PlanIsReady == plan.status = "ready"

\* validate_plan, read_expected for both files, validate_current_plan.
PlanIsCurrent ==
    /\ plan.status = "ready"
    /\ config = plan.config /\ hooks = plan.hooks
    /\ PlanFor(config, hooks, plan.mode) = plan

\* render_config and render_hooks
RenderedFiles ==
    [config |-> IF plan.configAction \in {"create", "update"}
                   THEN [kind |-> "file", notify |-> plan.notify, rest |-> config.rest] ELSE config,
     hooks |-> IF plan.hooksAction \in {"create", "update"}
                  THEN [hooks EXCEPT !.kind = "file", !.lili = @ \cup plan.additions] ELSE hooks]

\* create_backup_if_needed: the files that are about to be updated.
BackedUp ==
    backups \cup {f \in {config, hooks} :
                    \/ f = config /\ plan.configAction = "update"
                    \/ f = hooks /\ plan.hooksAction = "update"}

\* install: everything is read and checked, then backed up.
BeginInstall ==
    /\ cli.step = "idle"
    /\ IF ~PlanIsCurrent THEN Reject("refused")
       ELSE /\ backups' = BackedUp
            /\ cli' = [step |-> "install_config", config |-> config, hooks |-> hooks,
                       provenance |-> provenance, toConfig |-> RenderedFiles.config,
                       toHooks |-> RenderedFiles.hooks, complete |-> FALSE]
            /\ outcome' = "running"
            /\ UNCHANGED <<config, hooks, provenance, plan, user, spent>>

\* A write of either command; it may fail, and then everything is rolled back.
Write(from, to) ==
    /\ cli.step = from
    /\ cli' = [cli EXCEPT !.step = to]
    /\ UNCHANGED <<backups, plan, user, outcome, spent>>

\* Untouched files are not written: an edit made meanwhile stays.
InstallConfig ==
    /\ Write("install_config", "install_hooks")
    /\ config' = IF cli.toConfig = cli.config THEN config ELSE cli.toConfig
    /\ UNCHANGED <<hooks, provenance>>
InstallHooks ==
    /\ Write("install_hooks", "verify")
    /\ hooks' = IF cli.toHooks = cli.hooks THEN hooks ELSE cli.toHooks
    /\ UNCHANGED <<config, provenance>>

\* verify_installed_markers, then the synthetic delivery, which may fail.
Verify ==
    /\ Safe(config) /\ Marked(config.notify) /\ Safe(hooks) /\ hooks.lili = Surface
    /\ Write("verify", "record")
    /\ UNCHANGED <<config, hooks, provenance>>

\* build_provenance: an unchanged file keeps what an earlier install recorded.
RecordInstall ==
    /\ cli.step = "record"
    /\ LET kept == cli.provenance.kind = "file" IN
       provenance' = [kind |-> "file", notify |-> plan.notify, previous |-> plan.previous,
          config |-> IF cli.toConfig = cli.config /\ kept THEN cli.provenance.config
                     ELSE [created |-> cli.config.kind = "absent", after |-> cli.toConfig],
          hooks |-> IF cli.toHooks = cli.hooks /\ kept THEN cli.provenance.hooks
                    ELSE [created |-> cli.hooks.kind = "absent", after |-> cli.toHooks]]
    /\ cli' = NoCommand /\ outcome' = "installed"
    /\ UNCHANGED <<config, hooks, backups, plan, user, spent>>

-------------------------------------------------------------------------------
\* plan_config_uninstall
ConfigUninstalled(c) ==
    CASE c.kind = "absent" \/ c.notify # provenance.notify ->
           [to |-> c, complete |-> ~Marked(c.notify)]
      [] c.kind # "absent" /\ c.notify = provenance.notify /\ provenance.config.created
             /\ provenance.previous = "none" /\ c = provenance.config.after ->
           [to |-> NoConfig, complete |-> TRUE]
      [] OTHER -> [to |-> [c EXCEPT !.notify = provenance.previous], complete |-> TRUE]

\* Mutant of HooksUninstalled: altered handlers do not count as a conflict.
HooksUninstalledAnyway(h) ==
    CASE h.lili = {} \/ h.altered -> [to |-> h, complete |-> TRUE]
      [] ~h.altered /\ h.lili # {} /\ provenance.hooks.created /\ h = provenance.hooks.after ->
           [to |-> NoHooks, complete |-> TRUE]
      [] OTHER -> [to |-> [h EXCEPT !.lili = {}], complete |-> TRUE]

\* plan_hooks_uninstall: handlers the user altered are left alone, all of them.
HooksUninstalled(h) ==
    CASE h.lili = {} -> [to |-> h, complete |-> TRUE]
      [] h.lili # {} /\ h.altered -> [to |-> h, complete |-> FALSE]
      [] h.lili # {} /\ ~h.altered /\ provenance.hooks.created /\ h = provenance.hooks.after ->
           [to |-> NoHooks, complete |-> TRUE]
      [] OTHER -> [to |-> [h EXCEPT !.lili = {}], complete |-> TRUE]

\* uninstall: everything is read, then the mutations are planned.
BeginUninstall ==
    /\ cli.step = "idle"
    /\ IF provenance.kind = "absent" \/ ~Safe(config) \/ ~Safe(hooks) THEN Reject("refused")
       ELSE LET c == ConfigUninstalled(config)  h == HooksUninstalled(hooks) IN
            /\ cli' = [step |-> "remove_config", config |-> config, hooks |-> hooks,
                       provenance |-> provenance, toConfig |-> c.to, toHooks |-> h.to,
                       complete |-> c.complete /\ h.complete]
            /\ outcome' = "running"
            /\ UNCHANGED <<config, hooks, provenance, backups, plan, user, spent>>

RemoveConfig ==
    /\ Write("remove_config", "remove_hooks")
    /\ config' = IF cli.toConfig = cli.config THEN config ELSE cli.toConfig
    /\ UNCHANGED <<hooks, provenance>>
RemoveHooks ==
    /\ Write("remove_hooks", "forget")
    /\ hooks' = IF cli.toHooks = cli.hooks THEN hooks ELSE cli.toHooks
    /\ UNCHANGED <<config, provenance>>

ForgetInstall ==
    /\ cli.step = "forget"
    /\ provenance' = IF cli.complete THEN NoProvenance ELSE provenance
    /\ outcome' = IF cli.complete THEN "removed" ELSE "partly_removed"
    /\ cli' = NoCommand
    /\ UNCHANGED <<config, hooks, backups, plan, user, spent>>

-------------------------------------------------------------------------------
\* Any write, the verification or the record fails: what was read is put back.
Applying == {"install_config", "install_hooks", "verify", "record",
             "remove_config", "remove_hooks", "forget"}
FailStep ==
    /\ cli.step \in Applying
    /\ cli' = [cli EXCEPT !.step = "restore_config"]
    /\ UNCHANGED <<config, hooks, provenance, backups, plan, user, outcome, spent>>
RestoreConfig ==
    /\ Write("restore_config", "restore_hooks")
    /\ config' = cli.config /\ UNCHANGED <<hooks, provenance>>
RestoreHooks ==
    /\ Write("restore_hooks", "restore_provenance")
    /\ hooks' = cli.hooks /\ UNCHANGED <<config, provenance>>
RestoreProvenance ==
    /\ cli.step = "restore_provenance"
    /\ provenance' = cli.provenance
    /\ cli' = NoCommand /\ outcome' = "failed"
    /\ UNCHANGED <<config, hooks, backups, plan, user, spent>>

\* The command is killed between two of its steps, or a rollback fails.
Crash ==
    /\ cli.step # "idle" /\ spent.crashes < MaxCrashes
    /\ cli' = NoCommand /\ outcome' = "crashed" /\ Spend("crashes")
    /\ UNCHANGED <<config, hooks, provenance, backups, plan, user>>

-------------------------------------------------------------------------------
\* The user may have a notify command and hooks of their own.
IntegrationInit ==
    /\ \E notify \in {"none", "own"}, present \in BOOLEAN :
          /\ config = IF present THEN [kind |-> "file", notify |-> notify, rest |-> 0] ELSE NoConfig
          /\ hooks = IF present THEN [NoHooks EXCEPT !.kind = "file"] ELSE NoHooks
    /\ provenance = NoProvenance /\ backups = {} /\ plan = NoPlan /\ cli = NoCommand
    /\ user = [config |-> 0, hooks |-> 0, own |-> OwnOf(config.notify), unseen |-> FALSE]
    /\ outcome = "none" /\ spent = [edits |-> 0, crashes |-> 0, plans |-> 0]

CommandNext ==
    \/ BeginInstall \/ InstallConfig \/ InstallHooks \/ Verify \/ RecordInstall
    \/ BeginUninstall \/ RemoveConfig \/ RemoveHooks \/ ForgetInstall
    \/ FailStep \/ RestoreConfig \/ RestoreHooks \/ RestoreProvenance \/ Crash

UserNext ==
    \/ \E kind \in {"absent", "broken", "file"}, notify \in {config.notify, "none", "own", "invalid"} :
          EditConfig(kind, notify)
    \/ \E kind \in {"absent", "broken", "file"}, lili \in SUBSET Surface, altered \in BOOLEAN :
          EditHooks(kind, lili, altered)
    \/ \E mode \in {"exclusive", "coexist"} : MakePlan(mode)

IntegrationNext == CommandNext \/ UserNext
IntegrationSpec == IntegrationInit /\ [][IntegrationNext]_integrationVars

-------------------------------------------------------------------------------
(***************************************************************************)
(* What the commands promise.                                              *)
(***************************************************************************)
\* "preserve unrelated settings and hooks", "create a recoverable backup": the user's
\* last edits are in the files at every moment, and the user's notify command is in
\* the configuration, inside Lili's command or in a backup; also after a crash, a
\* rollback or a stale plan, unless an edit fell between a command's reading and its
\* writing.
NotifyRecoverable ==
    \/ OwnOf(config.notify) = "own"
    \/ \E f \in backups : "notify" \in DOMAIN f /\ OwnOf(f.notify) = "own"
UserEditsKept ==
    ~user.unseen =>
        /\ config.rest = user.config /\ hooks.rest = user.hooks
        /\ user.own = "own" => NotifyRecoverable

\* "complete: true confirms that owned entries were removed": an uninstall that
\* reports completion leaves no entry of Lili, also when an earlier one crashed
\* half-way or the user changed what it had installed.
CompleteMeansRemoved ==
    ~user.unseen /\ outcome = "removed" => ~Marked(config.notify) /\ hooks.lili = {}

===============================================================================
