---------------------------- MODULE ComponentProofs ----------------------------
(***************************************************************************)
(* Theorems about components that share no state with the others: the      *)
(* configuration commands, the move to the plugin, the notification window *)
(* with the region that takes clicks, the pet's clicks and its place.      *)
(***************************************************************************)
EXTENDS Integration, PluginMigration, NotificationWindow, NotificationRegion, PetInteraction,
        WindowPlacement, SequenceTheorems, FiniteSetTheorems, TLAPS

-------------------------------------------------------------------------------
(***************************************************************************)
(* The two files, as they are and as a command has read or rendered them.  *)
(***************************************************************************)
IsConfig(c) ==
    /\ c = [kind |-> c.kind, notify |-> c.notify, rest |-> c.rest]
    /\ c.kind = "absent" => c = NoConfig
IsHooks(h) ==
    /\ h = [kind |-> h.kind, lili |-> h.lili, altered |-> h.altered, rest |-> h.rest]
    /\ h.kind = "absent" => h = NoHooks

IsProvenance(p) ==
    /\ p.kind # "absent" => Marked(p.notify) /\ ~Marked(p.previous)
    /\ p.config.created => p.config.after.rest = 0
    /\ p.hooks.created => p.hooks.after.rest = 0

Installing == {"install_config", "install_hooks", "verify", "record"}
Removing == {"remove_config", "remove_hooks", "forget"}
Restoring == {"restore_config", "restore_hooks", "restore_provenance"}

IntegrationShape ==
    /\ IsConfig(config) /\ IsHooks(hooks) /\ IsProvenance(provenance)
    /\ IsConfig(cli.config) /\ IsHooks(cli.hooks) /\ IsProvenance(cli.provenance)
    /\ IsConfig(cli.toConfig) /\ IsHooks(cli.toHooks)
    /\ cli.step \in Installing
          => cli.toConfig.rest = cli.config.rest /\ cli.toHooks.rest = cli.hooks.rest
    /\ cli = [step |-> cli.step, config |-> cli.config, hooks |-> cli.hooks,
              provenance |-> cli.provenance, toConfig |-> cli.toConfig, toHooks |-> cli.toHooks,
              complete |-> cli.complete]
    /\ cli.step \in {"idle"} \cup Installing \cup Removing \cup Restoring
    /\ cli.step # "idle" => outcome = "running"
    /\ Marked(plan.notify) /\ ~Marked(plan.previous)
    /\ user = [config |-> user.config, hooks |-> user.hooks, own |-> user.own, unseen |-> user.unseen]
    /\ spent = [edits |-> spent.edits, crashes |-> spent.crashes, plans |-> spent.plans]

\* What a command has read and what it is about to write hold the user's last edits.
\* Whoever has a notify command of their own has it as such in the configuration, or in
\* a backup: a command inside Lili's was backed up when it was put there.
BackedUpOwn == \E f \in backups : "notify" \in DOMAIN f /\ OwnOf(f.notify) = "own"
Keeps(c) == user.own = "own" => c.notify = "own" \/ BackedUpOwn
KeepsConfig(c) == c.rest = user.config /\ Keeps(c)
EditsInv ==
    ~user.unseen =>
        /\ KeepsConfig(config) /\ hooks.rest = user.hooks
        /\ cli.step # "idle" =>
              /\ KeepsConfig(cli.config) /\ cli.hooks.rest = user.hooks
              /\ KeepsConfig(cli.toConfig) /\ cli.toHooks.rest = user.hooks

\* Until a write, a file is what an uninstall has read; after it, what was planned.
RemovalInv ==
    ~user.unseen =>
        /\ cli.step = "remove_config" => config = cli.config
        /\ cli.step \in {"remove_config", "remove_hooks"} => hooks = cli.hooks
        /\ cli.step \in {"remove_hooks", "forget"} => config = cli.toConfig
        /\ cli.step = "forget" => hooks = cli.toHooks
        /\ cli.step \in Removing /\ cli.complete
              => ~Marked(cli.toConfig.notify) /\ cli.toHooks.lili = {}

IntegrationInv == IntegrationShape /\ EditsInv /\ RemovalInv /\ CompleteMeansRemoved

\* The records that stand for nothing, without their Boolean fields.
LEMMA NothingFields ==
    /\ IsConfig(NoConfig) /\ NoConfig.rest = 0 /\ NoConfig.notify = "none"
    /\ IsHooks(NoHooks) /\ NoHooks.rest = 0 /\ NoHooks.lili = {}
    /\ IsProvenance(NoProvenance) /\ NoProvenance.kind = "absent"
    /\ NoCommand.step = "idle" /\ NoCommand.config = NoConfig /\ NoCommand.hooks = NoHooks
    /\ NoCommand.toConfig = NoConfig /\ NoCommand.toHooks = NoHooks
    /\ NoCommand.provenance = NoProvenance /\ ~NoCommand.complete
    /\ NoCommand = [step |-> NoCommand.step, config |-> NoCommand.config, hooks |-> NoCommand.hooks,
                    provenance |-> NoCommand.provenance, toConfig |-> NoCommand.toConfig,
                    toHooks |-> NoCommand.toHooks, complete |-> NoCommand.complete]
  <1>1. IsConfig(NoConfig) /\ NoConfig.rest = 0 /\ NoConfig.notify = "none"
    BY DEF IsConfig, NoConfig
  <1>2. IsHooks(NoHooks) /\ NoHooks.rest = 0 /\ NoHooks.lili = {}
    BY DEF IsHooks, NoHooks
  <1>3. IsProvenance(NoProvenance) /\ NoProvenance.kind = "absent"
    BY DEF IsProvenance, NoProvenance
  <1>4. /\ NoCommand.step = "idle" /\ NoCommand.config = NoConfig /\ NoCommand.hooks = NoHooks
        /\ NoCommand.toConfig = NoConfig /\ NoCommand.toHooks = NoHooks
        /\ NoCommand.provenance = NoProvenance /\ ~NoCommand.complete
        /\ NoCommand = [step |-> NoCommand.step, config |-> NoCommand.config,
                        hooks |-> NoCommand.hooks, provenance |-> NoCommand.provenance,
                        toConfig |-> NoCommand.toConfig, toHooks |-> NoCommand.toHooks,
                        complete |-> NoCommand.complete]
    BY DEF NoCommand
  <1> QED
    BY <1>1, <1>2, <1>3, <1>4

\* A plan puts one of Lili's commands, and what it remembers of the user is not Lili's.
LEMMA PlanFields ==
    ASSUME NEW c, NEW h, NEW mode
    PROVE  Marked(PlanFor(c, h, mode).notify) /\ ~Marked(PlanFor(c, h, mode).previous)
  <1>1. Previous(c, mode) \in {"own", "none"}
    BY DEF Previous
  <1>2. PlanFor(c, h, mode).previous = Previous(c, mode)
    BY DEF PlanFor
  <1>3. PlanFor(c, h, mode).notify = IF Previous(c, mode) = "own" THEN "chain" ELSE "lili"
    BY DEF PlanFor
  <1> QED
    BY <1>1, <1>2, <1>3 DEF Marked

LEMMA IntegrationInitKeeps == IntegrationInit => IntegrationInv
  <1> SUFFICES ASSUME IntegrationInit PROVE IntegrationInv
    OBVIOUS
  <1>1. PICK notify \in {"none", "own"}, present \in BOOLEAN :
           /\ config = IF present THEN [kind |-> "file", notify |-> notify, rest |-> 0] ELSE NoConfig
           /\ hooks = IF present THEN [NoHooks EXCEPT !.kind = "file"] ELSE NoHooks
    BY DEF IntegrationInit
  <1>2. /\ provenance = NoProvenance /\ plan = NoPlan /\ cli = NoCommand /\ outcome = "none"
        /\ user = [config |-> 0, hooks |-> 0, own |-> OwnOf(config.notify), unseen |-> FALSE]
        /\ spent = [edits |-> 0, crashes |-> 0, plans |-> 0]
    BY DEF IntegrationInit
  <1>3. IsConfig(config) /\ config.rest = 0 /\ (OwnOf(config.notify) = "own" => config.notify = "own")
    BY <1>1, NothingFields DEF IsConfig, OwnOf
  <1>4. IsHooks(hooks) /\ hooks.rest = 0
    BY <1>1, NothingFields DEF IsHooks
  <1>5. Marked(plan.notify) /\ ~Marked(plan.previous)
    BY <1>2, PlanFields DEF NoPlan
  <1>6. /\ user.config = 0 /\ user.hooks = 0 /\ user.own = OwnOf(config.notify)
        /\ user = [config |-> user.config, hooks |-> user.hooks, own |-> user.own,
                   unseen |-> user.unseen]
    BY <1>2
  <1>7. IntegrationShape
    BY <1>2, <1>3, <1>4, <1>5, <1>6, NothingFields DEF IntegrationShape, Installing
  <1>8. EditsInv
    BY <1>2, <1>3, <1>4, <1>6, NothingFields DEF EditsInv, KeepsConfig, Keeps
  <1>9. RemovalInv /\ CompleteMeansRemoved
    BY <1>2, NothingFields DEF RemovalInv, Removing, CompleteMeansRemoved
  <1> QED
    BY <1>7, <1>8, <1>9 DEF IntegrationInv

\* An edit while no command runs is the user's last one, and one during a command is
\* not seen by it.
LEMMA EditConfigKeeps ==
    ASSUME IntegrationInv, NEW kind, NEW notify \in {config.notify, "none", "own", "invalid"},
           EditConfig(kind, notify)
    PROVE  IntegrationInv'
  <1>1. IntegrationShape /\ EditsInv /\ RemovalInv /\ CompleteMeansRemoved
    BY DEF IntegrationInv
  <1>2. /\ config' = IF kind = "absent" THEN NoConfig
                     ELSE [kind |-> kind, notify |-> notify, rest |-> spent.edits + 1]
        /\ user' = [Edited EXCEPT !.config = config'.rest,
                                  !.own = IF Marked(notify) THEN @ ELSE OwnOf(config'.notify)]
        /\ spent' = [spent EXCEPT !["edits"] = @ + 1]
        /\ UNCHANGED <<hooks, provenance, backups, plan, cli, outcome>>
    BY DEF EditConfig, Spend
  <1> DEFINE unseen == user.unseen \/ cli.step # "idle"
             own == IF Marked(notify) THEN user.own ELSE OwnOf(config'.notify)
  <1>3. Edited = [config |-> user.config, hooks |-> user.hooks, own |-> user.own, unseen |-> unseen]
    BY <1>1 DEF IntegrationShape, Edited
  <1> HIDE DEF unseen
  <1>4. user' = [config |-> config'.rest, hooks |-> user.hooks, own |-> own, unseen |-> unseen]
    BY <1>2, <1>3
  <1> HIDE DEF own
  <1>5. /\ user'.config = config'.rest /\ user'.hooks = user.hooks /\ user'.own = own
        /\ user'.unseen = unseen
        /\ user' = [config |-> user'.config, hooks |-> user'.hooks, own |-> user'.own,
                    unseen |-> user'.unseen]
    BY <1>4
  <1>6. spent' = [edits |-> spent'.edits, crashes |-> spent'.crashes, plans |-> spent'.plans]
    BY <1>1, <1>2 DEF IntegrationShape
  <1>7. IsConfig(config)' /\ (config'.notify = notify \/ config'.notify = "none")
    BY <1>2, NothingFields DEF IsConfig
  <1>8. IntegrationShape'
    BY <1>1, <1>2, <1>5, <1>6, <1>7 DEF IntegrationShape
  <1>9. ~unseen => ~user.unseen /\ cli.step = "idle"
    BY DEF unseen
  <1>10. ~unseen /\ own = "own" => config'.notify = "own" \/ BackedUpOwn
    <2>1. CASE Marked(notify)
      <3>1. notify = config.notify /\ config.notify # "own"
        BY <2>1 DEF Marked
      <3> QED
        BY <1>1, <1>9, <2>1, <3>1 DEF own, EditsInv, KeepsConfig, Keeps
    <2>2. CASE ~Marked(notify)
      <3>1. ~Marked(config'.notify)
        BY <1>7, <2>2 DEF Marked
      <3> QED
        BY <2>2, <3>1 DEF own, OwnOf, Marked
    <2> QED
      BY <2>1, <2>2
  <1>11. EditsInv'
    BY <1>1, <1>2, <1>5, <1>9, <1>10 DEF EditsInv, KeepsConfig, Keeps, BackedUpOwn
  <1>12. RemovalInv'
    BY <1>2, <1>5, <1>9 DEF RemovalInv, Removing
  <1>13. CompleteMeansRemoved'
    BY <1>1, <1>2, <1>5, <1>7, <1>9 DEF CompleteMeansRemoved, Marked
  <1> QED
    BY <1>8, <1>11, <1>12, <1>13 DEF IntegrationInv

LEMMA EditHooksKeeps ==
    ASSUME IntegrationInv, NEW kind, NEW lili, NEW altered \in BOOLEAN,
           EditHooks(kind, lili, altered)
    PROVE  IntegrationInv'
  <1>1. IntegrationShape /\ EditsInv /\ RemovalInv /\ CompleteMeansRemoved
    BY DEF IntegrationInv
  <1>2. /\ lili \subseteq hooks.lili
        /\ hooks' = IF kind = "absent" THEN NoHooks
                    ELSE [kind |-> kind, lili |-> lili, altered |-> altered, rest |-> spent.edits + 1]
        /\ user' = [Edited EXCEPT !.hooks = hooks'.rest]
        /\ spent' = [spent EXCEPT !["edits"] = @ + 1]
        /\ UNCHANGED <<config, provenance, backups, plan, cli, outcome>>
    BY DEF EditHooks, Spend
  <1> DEFINE unseen == user.unseen \/ cli.step # "idle"
  <1>3. Edited = [config |-> user.config, hooks |-> user.hooks, own |-> user.own, unseen |-> unseen]
    BY <1>1 DEF IntegrationShape, Edited
  <1> HIDE DEF unseen
  <1>4. user' = [config |-> user.config, hooks |-> hooks'.rest, own |-> user.own, unseen |-> unseen]
    BY <1>2, <1>3
  <1>5. /\ user'.config = user.config /\ user'.hooks = hooks'.rest /\ user'.own = user.own
        /\ user'.unseen = unseen
        /\ user' = [config |-> user'.config, hooks |-> user'.hooks, own |-> user'.own,
                    unseen |-> user'.unseen]
    BY <1>4
  <1>6. spent' = [edits |-> spent'.edits, crashes |-> spent'.crashes, plans |-> spent'.plans]
    BY <1>1, <1>2 DEF IntegrationShape
  <1>7. IsHooks(hooks)' /\ hooks'.lili \subseteq hooks.lili
    BY <1>2, NothingFields DEF IsHooks
  <1>8. IntegrationShape'
    BY <1>1, <1>2, <1>5, <1>6, <1>7 DEF IntegrationShape
  <1>9. ~unseen => ~user.unseen /\ cli.step = "idle"
    BY DEF unseen
  <1>10. EditsInv'
    BY <1>1, <1>2, <1>5, <1>9 DEF EditsInv, KeepsConfig, Keeps, BackedUpOwn
  <1>11. RemovalInv'
    BY <1>2, <1>5, <1>9 DEF RemovalInv, Removing
  <1>12. CompleteMeansRemoved'
    BY <1>1, <1>2, <1>5, <1>7, <1>9 DEF CompleteMeansRemoved
  <1> QED
    BY <1>8, <1>10, <1>11, <1>12 DEF IntegrationInv

LEMMA MakePlanKeeps ==
    ASSUME IntegrationInv, NEW mode, MakePlan(mode)
    PROVE  IntegrationInv'
  <1>1. IntegrationShape /\ EditsInv /\ RemovalInv /\ CompleteMeansRemoved
    BY DEF IntegrationInv
  <1>2. /\ plan' = PlanFor(config, hooks, mode)
        /\ spent' = [spent EXCEPT !["plans"] = @ + 1]
        /\ UNCHANGED <<config, hooks, provenance, backups, cli, user, outcome>>
    BY DEF MakePlan, Spend
  <1>3. spent' = [edits |-> spent'.edits, crashes |-> spent'.crashes, plans |-> spent'.plans]
    BY <1>1, <1>2 DEF IntegrationShape
  <1>4. Marked(plan'.notify) /\ ~Marked(plan'.previous)
    BY <1>2, PlanFields
  <1>5. IntegrationShape'
    BY <1>1, <1>2, <1>3, <1>4 DEF IntegrationShape
  <1>6. EditsInv' /\ RemovalInv' /\ CompleteMeansRemoved'
    BY <1>1, <1>2 DEF EditsInv, KeepsConfig, Keeps, BackedUpOwn, RemovalInv, CompleteMeansRemoved
  <1> QED
    BY <1>5, <1>6 DEF IntegrationInv

\* A plan creates a file only where there is none.
LEMMA PlanCreates ==
    ASSUME NEW c, NEW h, NEW mode, PlanFor(c, h, mode).configAction = "create"
    PROVE  c.kind = "absent"
  <1> DEFINE status == CASE ~(Safe(c) /\ Safe(h)) -> "blocked"
                         [] Safe(c) /\ Safe(h) /\ NotifyKind(c) = "invalid" -> "conflict"
                         [] Safe(c) /\ Safe(h) /\ NotifyKind(c) = "other" /\ mode = "exclusive"
                              -> "conflict"
                         [] OTHER -> "ready"
             same == c.notify = (IF Previous(c, mode) = "own" THEN "chain" ELSE "lili")
             action == CASE status # "ready" -> status
                         [] status = "ready" /\ same -> "unchanged"
                         [] OTHER -> ActionFor(c)
  <1>1. PlanFor(c, h, mode).configAction = action
    BY DEF PlanFor
  <1>2. status \in {"blocked", "conflict", "ready"}
    OBVIOUS
  <1> HIDE DEF status, same
  <1>3. action \in {"blocked", "conflict", "unchanged"} \/ action = ActionFor(c)
    BY <1>2
  <1> QED
    BY <1>1, <1>3 DEF ActionFor

\* What a backup is made of keeps a command of the user's.
LEMMA BackedUpKeepsOwn ==
    ASSUME IntegrationShape, backups' = BackedUp,
           plan.configAction = "update", OwnOf(config.notify) = "own"
    PROVE  BackedUpOwn'
  <1>1. config \in backups'
    BY DEF BackedUp
  <1>2. "notify" \in DOMAIN config
    BY DEF IntegrationShape, IsConfig
  <1> QED
    BY <1>1, <1>2 DEF BackedUpOwn

LEMMA RefusalKeeps ==
    ASSUME IntegrationInv, cli.step = "idle", Reject("refused")
    PROVE  IntegrationInv'
  BY DEF Reject, IntegrationInv, IntegrationShape, EditsInv, KeepsConfig, Keeps, BackedUpOwn,
         RemovalInv, CompleteMeansRemoved

LEMMA BeginInstallKeeps ==
    ASSUME IntegrationInv, BeginInstall
    PROVE  IntegrationInv'
  <1>1. IntegrationShape /\ EditsInv
    BY DEF IntegrationInv
  <1>2. CASE ~PlanIsCurrent
    BY <1>2, RefusalKeeps DEF BeginInstall
  <1>3. CASE PlanIsCurrent
    <2> DEFINE toConfig == RenderedFiles.config
               toHooks == RenderedFiles.hooks
               replaced == plan.configAction \in {"create", "update"}
    <2>1. /\ backups' = BackedUp /\ outcome' = "running"
          /\ cli' = [step |-> "install_config", config |-> config, hooks |-> hooks,
                     provenance |-> provenance, toConfig |-> toConfig, toHooks |-> toHooks,
                     complete |-> FALSE]
          /\ UNCHANGED <<config, hooks, provenance, plan, user, spent>>
      BY <1>3 DEF BeginInstall
    <2>2. toConfig = IF replaced THEN [kind |-> "file", notify |-> plan.notify, rest |-> config.rest]
                     ELSE config
      BY DEF RenderedFiles
    <2>3. \/ toHooks = hooks
          \/ \E lili : toHooks = [kind |-> "file", lili |-> lili, altered |-> hooks.altered,
                                  rest |-> hooks.rest]
      <3>1. \/ toHooks = hooks
            \/ toHooks = [hooks EXCEPT !.kind = "file", !.lili = @ \cup plan.additions]
        BY DEF RenderedFiles
      <3>2. hooks = [kind |-> hooks.kind, lili |-> hooks.lili, altered |-> hooks.altered,
                     rest |-> hooks.rest]
        BY <1>1 DEF IntegrationShape, IsHooks
      <3> DEFINE lili == hooks.lili \cup plan.additions
      <3>3. \/ toHooks = hooks
            \/ toHooks = [hooks EXCEPT !.kind = "file", !.lili = lili]
        BY <3>1
      <3> HIDE DEF lili, toHooks
      <3>4. \/ toHooks = hooks
            \/ toHooks = [kind |-> "file", lili |-> lili, altered |-> hooks.altered,
                          rest |-> hooks.rest]
        BY <3>2, <3>3
      <3> QED
        BY <3>4
    <2>4. replaced /\ user.own = "own" /\ ~user.unseen => BackedUpOwn'
      <3>1. SUFFICES ASSUME replaced, user.own = "own", ~user.unseen PROVE BackedUpOwn'
        OBVIOUS
      <3>2. config.notify = "own" \/ BackedUpOwn
        BY <1>1, <3>1 DEF EditsInv, KeepsConfig, Keeps
      <3>3. CASE BackedUpOwn
        BY <2>1, <3>3 DEF BackedUpOwn, BackedUp
      <3>4. CASE config.notify = "own" /\ plan.configAction = "update"
        BY <1>1, <2>1, <3>4, BackedUpKeepsOwn DEF OwnOf
      <3>5. CASE config.notify = "own" /\ plan.configAction = "create"
        <4>1. config.kind = "absent"
          BY <1>3, <3>5, PlanCreates DEF PlanIsCurrent
        <4> QED
          BY <1>1, <3>5, <4>1, NothingFields DEF IntegrationShape, IsConfig
      <3> QED
        BY <3>1, <3>2, <3>3, <3>4, <3>5
    <2>5. BackedUpOwn => BackedUpOwn'
      BY <2>1 DEF BackedUpOwn, BackedUp
    <2> HIDE DEF toConfig, toHooks, replaced
    <2>6. /\ IsConfig(toConfig) /\ toConfig.rest = config.rest
          /\ toConfig = config \/ replaced
      BY <1>1, <2>2 DEF IntegrationShape, IsConfig
    <2>7. IsHooks(toHooks) /\ toHooks.rest = hooks.rest
      BY <1>1, <2>3 DEF IntegrationShape, IsHooks
    <2>8. /\ cli'.step = "install_config" /\ cli'.config = config /\ cli'.hooks = hooks
          /\ cli'.provenance = provenance /\ cli'.toConfig = toConfig /\ cli'.toHooks = toHooks
          /\ cli' = [step |-> cli'.step, config |-> cli'.config, hooks |-> cli'.hooks,
                     provenance |-> cli'.provenance, toConfig |-> cli'.toConfig,
                     toHooks |-> cli'.toHooks, complete |-> cli'.complete]
      BY <2>1
    <2>9. IntegrationShape'
      BY <1>1, <2>1, <2>6, <2>7, <2>8 DEF IntegrationShape, Installing
    <2>10. EditsInv'
      <3>1. SUFFICES ASSUME ~user.unseen PROVE EditsInv'
        BY <2>1 DEF EditsInv
      <3>2. KeepsConfig(config) /\ hooks.rest = user.hooks
        BY <1>1, <3>1 DEF EditsInv
      <3>3. KeepsConfig(config)'
        BY <2>1, <2>5, <3>2 DEF KeepsConfig, Keeps
      <3>4. toConfig.rest = user'.config /\ (user'.own = "own" => toConfig.notify = "own" \/ BackedUpOwn')
        BY <2>1, <2>4, <2>6, <3>1, <3>2, <3>3 DEF KeepsConfig, Keeps
      <3> QED
        BY <2>1, <2>7, <2>8, <3>2, <3>3, <3>4 DEF EditsInv, KeepsConfig, Keeps
    <2>11. RemovalInv' /\ CompleteMeansRemoved'
      BY <2>1, <2>8 DEF RemovalInv, Removing, CompleteMeansRemoved
    <2> QED
      BY <2>9, <2>10, <2>11 DEF IntegrationInv
  <1> QED
    BY <1>2, <1>3

\* What an uninstall makes of the configuration: the user's edits and command stay, and
\* if it reports completion Lili's command is gone.
LEMMA UninstalledConfig ==
    ASSUME IntegrationShape, provenance.kind # "absent", NEW to, NEW complete,
           to = ConfigUninstalled(config).to, complete = ConfigUninstalled(config).complete
    PROVE  /\ IsConfig(to) /\ to.rest = config.rest
           /\ to = config \/ config.notify # "own"
           /\ complete => ~Marked(to.notify)
  <1> DEFINE kept == config.kind = "absent" \/ config.notify # provenance.notify
             created == /\ config.kind # "absent" /\ config.notify = provenance.notify
                        /\ provenance.config.created /\ provenance.previous = "none"
                        /\ config = provenance.config.after
             back == [config EXCEPT !.notify = provenance.previous]
             outside == ~Marked(config.notify)
  <1>1. ConfigUninstalled(config) = CASE kept -> [to |-> config, complete |-> outside]
                                      [] created -> [to |-> NoConfig, complete |-> TRUE]
                                      [] OTHER -> [to |-> back, complete |-> TRUE]
    BY DEF ConfigUninstalled
  <1>2. ~(kept /\ created)
    OBVIOUS
  <1>3. /\ IsConfig(config) /\ Marked(provenance.notify) /\ ~Marked(provenance.previous)
        /\ provenance.config.created => provenance.config.after.rest = 0
    BY DEF IntegrationShape, IsProvenance
  <1>4. CASE kept
    <2> HIDE DEF kept, created, back, outside
    <2>1. to = config /\ (complete => outside)
      BY <1>1, <1>2, <1>4
    <2> QED
      BY <1>3, <2>1 DEF outside
  <1>5. CASE created
    <2>1. config.rest = 0 /\ config.notify # "own"
      BY <1>3, <1>5 DEF Marked
    <2> HIDE DEF kept, created, back, outside
    <2>2. to = NoConfig
      BY <1>1, <1>2, <1>5
    <2> QED
      BY <2>1, <2>2, NothingFields DEF Marked
  <1>6. CASE ~kept /\ ~created
    <2>1. config.kind # "absent" /\ config.notify # "own"
      BY <1>3, <1>6 DEF Marked
    <2> HIDE DEF kept, created, outside
    <2>2. to = back
      <3> HIDE DEF back
      <3> QED
        BY <1>1, <1>6
    <2>3. back = [kind |-> config.kind, notify |-> provenance.previous, rest |-> config.rest]
      BY <1>3 DEF IsConfig
    <2> HIDE DEF back
    <2> QED
      BY <1>3, <2>1, <2>2, <2>3 DEF IsConfig
  <1> QED
    BY <1>4, <1>5, <1>6

LEMMA UninstalledHooks ==
    ASSUME IntegrationShape, NEW to, NEW complete,
           to = HooksUninstalled(hooks).to, complete = HooksUninstalled(hooks).complete
    PROVE  /\ IsHooks(to) /\ to.rest = hooks.rest
           /\ complete => to.lili = {}
  <1> DEFINE none == hooks.lili = {}
             altered == hooks.lili # {} /\ hooks.altered
             created == /\ hooks.lili # {} /\ ~hooks.altered /\ provenance.hooks.created
                        /\ hooks = provenance.hooks.after
             back == [hooks EXCEPT !.lili = {}]
  <1>1. HooksUninstalled(hooks) = CASE none -> [to |-> hooks, complete |-> TRUE]
                                    [] altered -> [to |-> hooks, complete |-> FALSE]
                                    [] created -> [to |-> NoHooks, complete |-> TRUE]
                                    [] OTHER -> [to |-> back, complete |-> TRUE]
    BY DEF HooksUninstalled
  <1>2. ~(none /\ altered) /\ ~(none /\ created) /\ ~(altered /\ created)
    OBVIOUS
  <1>3. /\ IsHooks(hooks)
        /\ provenance.hooks.created => provenance.hooks.after.rest = 0
    BY DEF IntegrationShape, IsProvenance
  <1>4. CASE none
    <2>1. to = hooks
      <3> HIDE DEF none, altered, created, back
      <3> QED
        BY <1>1, <1>2, <1>4
    <2> QED
      BY <1>3, <1>4, <2>1
  <1>5. CASE altered
    <2> HIDE DEF none, altered, created, back
    <2>1. to = hooks /\ ~complete
      BY <1>1, <1>2, <1>5
    <2> QED
      BY <1>3, <2>1
  <1>6. CASE created
    <2>1. hooks.rest = 0
      BY <1>3, <1>6
    <2> HIDE DEF none, altered, created, back
    <2>2. to = NoHooks
      BY <1>1, <1>2, <1>6
    <2> QED
      BY <2>1, <2>2, NothingFields
  <1>7. CASE ~none /\ ~altered /\ ~created
    <2>1. hooks.kind # "absent"
      BY <1>3, <1>7, NothingFields DEF IsHooks
    <2> HIDE DEF none, altered, created
    <2>2. to = back
      <3> HIDE DEF back
      <3> QED
        BY <1>1, <1>7
    <2>3. back = [kind |-> hooks.kind, lili |-> {}, altered |-> hooks.altered, rest |-> hooks.rest]
      BY <1>3 DEF IsHooks
    <2> HIDE DEF back
    <2> QED
      BY <2>1, <2>2, <2>3 DEF IsHooks
  <1> QED
    BY <1>4, <1>5, <1>6, <1>7

LEMMA BeginUninstallKeeps ==
    ASSUME IntegrationInv, BeginUninstall
    PROVE  IntegrationInv'
  <1>1. IntegrationShape /\ EditsInv
    BY DEF IntegrationInv
  <1>2. CASE Reject("refused")
    BY <1>2, RefusalKeeps DEF BeginUninstall
  <1>3. CASE ~(provenance.kind = "absent" \/ ~Safe(config) \/ ~Safe(hooks))
    <2> DEFINE c == ConfigUninstalled(config)
               h == HooksUninstalled(hooks)
               toConfig == c.to
               toHooks == h.to
               done == c.complete /\ h.complete
    <2>1. /\ outcome' = "running" /\ provenance.kind # "absent"
          /\ cli' = [step |-> "remove_config", config |-> config, hooks |-> hooks,
                     provenance |-> provenance, toConfig |-> toConfig, toHooks |-> toHooks,
                     complete |-> done]
          /\ UNCHANGED <<config, hooks, provenance, backups, plan, user, spent>>
      BY <1>3 DEF BeginUninstall
    <2>2. /\ IsConfig(toConfig) /\ toConfig.rest = config.rest
          /\ toConfig = config \/ config.notify # "own"
          /\ c.complete => ~Marked(toConfig.notify)
      BY <1>1, <2>1, UninstalledConfig
    <2>3. /\ IsHooks(toHooks) /\ toHooks.rest = hooks.rest
          /\ h.complete => toHooks.lili = {}
      BY <1>1, UninstalledHooks
    <2>4. done => ~Marked(toConfig.notify) /\ toHooks.lili = {}
      BY <2>2, <2>3
    <2> HIDE DEF toConfig, toHooks, done
    <2>5. /\ cli'.step = "remove_config" /\ cli'.config = config /\ cli'.hooks = hooks
          /\ cli'.provenance = provenance /\ cli'.toConfig = toConfig /\ cli'.toHooks = toHooks
          /\ cli'.complete = done
          /\ cli' = [step |-> cli'.step, config |-> cli'.config, hooks |-> cli'.hooks,
                     provenance |-> cli'.provenance, toConfig |-> cli'.toConfig,
                     toHooks |-> cli'.toHooks, complete |-> cli'.complete]
      BY <2>1
    <2>6. IntegrationShape'
      BY <1>1, <2>1, <2>2, <2>3, <2>5 DEF IntegrationShape, Installing, Removing
    <2>7. EditsInv'
      BY <1>1, <2>1, <2>2, <2>3, <2>5 DEF EditsInv, KeepsConfig, Keeps, BackedUpOwn
    <2>8. RemovalInv' /\ CompleteMeansRemoved'
      BY <2>1, <2>4, <2>5 DEF RemovalInv, CompleteMeansRemoved
    <2> QED
      BY <2>6, <2>7, <2>8 DEF IntegrationInv
  <1> QED
    BY <1>2, <1>3 DEF BeginUninstall

\* A step of a command only moves it on.
LEMMA StepMoves ==
    ASSUME IntegrationShape, NEW to, cli' = [cli EXCEPT !.step = to]
    PROVE  /\ cli'.step = to /\ cli'.config = cli.config /\ cli'.hooks = cli.hooks
           /\ cli'.provenance = cli.provenance /\ cli'.toConfig = cli.toConfig
           /\ cli'.toHooks = cli.toHooks /\ cli'.complete = cli.complete
           /\ cli' = [step |-> cli'.step, config |-> cli'.config, hooks |-> cli'.hooks,
                      provenance |-> cli'.provenance, toConfig |-> cli'.toConfig,
                      toHooks |-> cli'.toHooks, complete |-> cli'.complete]
  <1>1. cli = [step |-> cli.step, config |-> cli.config, hooks |-> cli.hooks,
               provenance |-> cli.provenance, toConfig |-> cli.toConfig, toHooks |-> cli.toHooks,
               complete |-> cli.complete]
    BY DEF IntegrationShape
  <1>2. cli' = [step |-> to, config |-> cli.config, hooks |-> cli.hooks,
                provenance |-> cli.provenance, toConfig |-> cli.toConfig, toHooks |-> cli.toHooks,
                complete |-> cli.complete]
    BY <1>1
  <1> QED
    BY <1>2

\* A write replaces a file by what was planned or by what was read; one that nothing was
\* planned for is not touched.
LEMMA ConfigWriteKeeps ==
    ASSUME IntegrationInv, InstallConfig \/ RemoveConfig \/ RestoreConfig
    PROVE  IntegrationInv'
  <1>1. IntegrationShape /\ EditsInv /\ RemovalInv
    BY DEF IntegrationInv
  <1>2. PICK from, to :
           /\ Write(from, to)
           /\ \/ from = "install_config" /\ to = "install_hooks"
              \/ from = "remove_config" /\ to = "remove_hooks"
              \/ from = "restore_config" /\ to = "restore_hooks"
    BY DEF InstallConfig, RemoveConfig, RestoreConfig
  <1>3. /\ cli.step = from /\ cli' = [cli EXCEPT !.step = to]
        /\ UNCHANGED <<backups, plan, user, outcome, spent, hooks, provenance>>
    BY <1>2 DEF Write, InstallConfig, RemoveConfig, RestoreConfig
  <1>4. /\ cli'.step = to /\ cli'.config = cli.config /\ cli'.hooks = cli.hooks
        /\ cli'.provenance = cli.provenance /\ cli'.toConfig = cli.toConfig
        /\ cli'.toHooks = cli.toHooks /\ cli'.complete = cli.complete
        /\ cli' = [step |-> cli'.step, config |-> cli'.config, hooks |-> cli'.hooks,
                   provenance |-> cli'.provenance, toConfig |-> cli'.toConfig,
                   toHooks |-> cli'.toHooks, complete |-> cli'.complete]
    BY <1>1, <1>3, StepMoves
  <1>5. config' \in {config, cli.config, cli.toConfig}
    BY DEF InstallConfig, RemoveConfig, RestoreConfig
  <1>6. from = "remove_config" => config' = IF cli.toConfig = cli.config THEN config ELSE cli.toConfig
    BY <1>3 DEF InstallConfig, RemoveConfig, RestoreConfig, Write
  <1>7. outcome = "running"
    BY <1>1, <1>2, <1>3 DEF IntegrationShape
  <1>8. IntegrationShape'
    BY <1>1, <1>2, <1>3, <1>4, <1>5 DEF IntegrationShape, Installing, Removing, Restoring
  <1>9. EditsInv'
    BY <1>1, <1>2, <1>3, <1>4, <1>5 DEF EditsInv, KeepsConfig, Keeps, BackedUpOwn
  <1>10. RemovalInv'
    BY <1>1, <1>2, <1>3, <1>4, <1>6 DEF RemovalInv, Removing
  <1>11. CompleteMeansRemoved'
    BY <1>3, <1>7 DEF CompleteMeansRemoved
  <1> QED
    BY <1>8, <1>9, <1>10, <1>11 DEF IntegrationInv

LEMMA HooksWriteKeeps ==
    ASSUME IntegrationInv, InstallHooks \/ RemoveHooks \/ RestoreHooks
    PROVE  IntegrationInv'
  <1>1. IntegrationShape /\ EditsInv /\ RemovalInv
    BY DEF IntegrationInv
  <1>2. PICK from, to :
           /\ Write(from, to)
           /\ \/ from = "install_hooks" /\ to = "verify"
              \/ from = "remove_hooks" /\ to = "forget"
              \/ from = "restore_hooks" /\ to = "restore_provenance"
    BY DEF InstallHooks, RemoveHooks, RestoreHooks
  <1>3. /\ cli.step = from /\ cli' = [cli EXCEPT !.step = to]
        /\ UNCHANGED <<backups, plan, user, outcome, spent, config, provenance>>
    BY <1>2 DEF Write, InstallHooks, RemoveHooks, RestoreHooks
  <1>4. /\ cli'.step = to /\ cli'.config = cli.config /\ cli'.hooks = cli.hooks
        /\ cli'.provenance = cli.provenance /\ cli'.toConfig = cli.toConfig
        /\ cli'.toHooks = cli.toHooks /\ cli'.complete = cli.complete
        /\ cli' = [step |-> cli'.step, config |-> cli'.config, hooks |-> cli'.hooks,
                   provenance |-> cli'.provenance, toConfig |-> cli'.toConfig,
                   toHooks |-> cli'.toHooks, complete |-> cli'.complete]
    BY <1>1, <1>3, StepMoves
  <1>5. hooks' \in {hooks, cli.hooks, cli.toHooks}
    BY DEF InstallHooks, RemoveHooks, RestoreHooks
  <1>6. from = "remove_hooks" => hooks' = IF cli.toHooks = cli.hooks THEN hooks ELSE cli.toHooks
    BY <1>3 DEF InstallHooks, RemoveHooks, RestoreHooks, Write
  <1>7. outcome = "running"
    BY <1>1, <1>2, <1>3 DEF IntegrationShape
  <1>8. IntegrationShape'
    BY <1>1, <1>2, <1>3, <1>4, <1>5 DEF IntegrationShape, Installing, Removing, Restoring
  <1>9. EditsInv'
    BY <1>1, <1>2, <1>3, <1>4, <1>5 DEF EditsInv, KeepsConfig, Keeps, BackedUpOwn
  <1>10. RemovalInv'
    BY <1>1, <1>2, <1>3, <1>4, <1>6 DEF RemovalInv, Removing
  <1>11. CompleteMeansRemoved'
    BY <1>3, <1>7 DEF CompleteMeansRemoved
  <1> QED
    BY <1>8, <1>9, <1>10, <1>11 DEF IntegrationInv

\* The verification and a failure only change where the command is.
LEMMA MoveKeeps ==
    ASSUME IntegrationInv, Verify \/ FailStep
    PROVE  IntegrationInv'
  <1>1. IntegrationShape /\ EditsInv /\ RemovalInv /\ CompleteMeansRemoved
    BY DEF IntegrationInv
  <1>2. PICK to \in {"record", "restore_config"} :
           /\ cli' = [cli EXCEPT !.step = to]
           /\ to = "record" => cli.step = "verify"
    BY DEF Verify, FailStep, Write
  <1>3. /\ cli.step # "idle"
        /\ UNCHANGED <<config, hooks, provenance, backups, plan, user, outcome, spent>>
    BY DEF Verify, FailStep, Write, Applying
  <1>4. /\ cli'.step = to /\ cli'.config = cli.config /\ cli'.hooks = cli.hooks
        /\ cli'.provenance = cli.provenance /\ cli'.toConfig = cli.toConfig
        /\ cli'.toHooks = cli.toHooks /\ cli'.complete = cli.complete
        /\ cli' = [step |-> cli'.step, config |-> cli'.config, hooks |-> cli'.hooks,
                   provenance |-> cli'.provenance, toConfig |-> cli'.toConfig,
                   toHooks |-> cli'.toHooks, complete |-> cli'.complete]
    BY <1>1, <1>2, StepMoves
  <1>5. IntegrationShape'
    BY <1>1, <1>2, <1>3, <1>4 DEF IntegrationShape, Installing, Removing, Restoring
  <1>6. EditsInv'
    BY <1>1, <1>3, <1>4 DEF EditsInv, KeepsConfig, Keeps, BackedUpOwn
  <1>7. RemovalInv' /\ CompleteMeansRemoved'
    BY <1>1, <1>2, <1>3, <1>4 DEF RemovalInv, Removing, CompleteMeansRemoved
  <1> QED
    BY <1>5, <1>6, <1>7 DEF IntegrationInv

\* What an install records: a file it created holds nothing of the user's.
LEMMA RecordedIsProvenance ==
    ASSUME IntegrationShape, RecordInstall
    PROVE  IsProvenance(provenance')
  <1> DEFINE kept == cli.provenance.kind = "file"
             keepConfig == cli.toConfig = cli.config /\ kept
             keepHooks == cli.toHooks = cli.hooks /\ kept
             newConfig == cli.config.kind = "absent"
             newHooks == cli.hooks.kind = "absent"
             configEntry == IF keepConfig THEN cli.provenance.config
                            ELSE [created |-> newConfig, after |-> cli.toConfig]
             hooksEntry == IF keepHooks THEN cli.provenance.hooks
                           ELSE [created |-> newHooks, after |-> cli.toHooks]
  <1>1. /\ cli.step = "record"
        /\ provenance' = [kind |-> "file", notify |-> plan.notify, previous |-> plan.previous,
                          config |-> configEntry, hooks |-> hooksEntry]
    BY DEF RecordInstall
  <1>2. cli.toConfig.rest = cli.config.rest /\ cli.toHooks.rest = cli.hooks.rest
    BY <1>1 DEF IntegrationShape, Installing
  <1>3. newConfig => cli.toConfig.rest = 0
    BY <1>2, NothingFields DEF IntegrationShape, IsConfig
  <1>4. newHooks => cli.toHooks.rest = 0
    BY <1>2, NothingFields DEF IntegrationShape, IsHooks
  <1> HIDE DEF newConfig, newHooks, keepConfig, keepHooks
  <1>5. configEntry.created => configEntry.after.rest = 0
    <2>1. CASE keepConfig
      BY <2>1 DEF IntegrationShape, IsProvenance
    <2>2. CASE ~keepConfig
      BY <2>2, <1>3
    <2> QED
      BY <2>1, <2>2
  <1>6. hooksEntry.created => hooksEntry.after.rest = 0
    <2>1. CASE keepHooks
      BY <2>1 DEF IntegrationShape, IsProvenance
    <2>2. CASE ~keepHooks
      BY <2>2, <1>4
    <2> QED
      BY <2>1, <2>2
  <1> HIDE DEF configEntry, hooksEntry
  <1> QED
    BY <1>1, <1>5, <1>6 DEF IntegrationShape, IsProvenance

\* The end of a command, by its last step or by a crash.
LEMMA EndKeeps ==
    ASSUME IntegrationInv, RecordInstall \/ ForgetInstall \/ RestoreProvenance \/ Crash
    PROVE  IntegrationInv'
  <1>1. IntegrationShape /\ EditsInv /\ RemovalInv /\ CompleteMeansRemoved
    BY DEF IntegrationInv
  <1>2. /\ cli' = NoCommand
        /\ UNCHANGED <<config, hooks, backups, plan, user>>
    BY DEF RecordInstall, ForgetInstall, RestoreProvenance, Crash
  <1>3. spent' = [edits |-> spent'.edits, crashes |-> spent'.crashes, plans |-> spent'.plans]
    <2>1. spent' = spent \/ spent' = [spent EXCEPT !["crashes"] = @ + 1]
      BY DEF RecordInstall, ForgetInstall, RestoreProvenance, Crash, Spend
    <2> QED
      BY <1>1, <2>1 DEF IntegrationShape
  <1>4. IsProvenance(provenance')
    <2>1. CASE RecordInstall
      BY <1>1, <2>1, RecordedIsProvenance
    <2>2. CASE ForgetInstall \/ RestoreProvenance \/ Crash
      <3>1. provenance' \in {provenance, cli.provenance, NoProvenance}
        BY <2>2 DEF ForgetInstall, RestoreProvenance, Crash
      <3> QED
        BY <1>1, <3>1, NothingFields DEF IntegrationShape
    <2> QED
      BY <2>1, <2>2
  <1>5. IntegrationShape'
    BY <1>1, <1>2, <1>3, <1>4, NothingFields DEF IntegrationShape, Installing
  <1>6. EditsInv' /\ RemovalInv'
    BY <1>1, <1>2, NothingFields DEF EditsInv, KeepsConfig, Keeps, BackedUpOwn, RemovalInv, Removing
  <1>7. CompleteMeansRemoved'
    <2>1. outcome' = "removed" => cli.step = "forget" /\ cli.complete
      BY DEF RecordInstall, ForgetInstall, RestoreProvenance, Crash
    <2> QED
      BY <1>1, <1>2, <2>1 DEF CompleteMeansRemoved, RemovalInv, Removing
  <1> QED
    BY <1>5, <1>6, <1>7 DEF IntegrationInv

LEMMA IntegrationNextKeeps ==
    IntegrationInv /\ [IntegrationNext]_integrationVars => IntegrationInv'
  <1> SUFFICES ASSUME IntegrationInv, [IntegrationNext]_integrationVars PROVE IntegrationInv'
    OBVIOUS
  <1>1. CASE BeginInstall \/ BeginUninstall
    BY <1>1, BeginInstallKeeps, BeginUninstallKeeps
  <1>2. CASE InstallConfig \/ RemoveConfig \/ RestoreConfig
    BY <1>2, ConfigWriteKeeps
  <1>3. CASE InstallHooks \/ RemoveHooks \/ RestoreHooks
    BY <1>3, HooksWriteKeeps
  <1>4. CASE Verify \/ FailStep
    BY <1>4, MoveKeeps
  <1>5. CASE RecordInstall \/ ForgetInstall \/ RestoreProvenance \/ Crash
    BY <1>5, EndKeeps
  <1>6. CASE UserNext
    BY <1>6, EditConfigKeeps, EditHooksKeeps, MakePlanKeeps DEF UserNext
  <1>7. CASE UNCHANGED integrationVars
    BY <1>7 DEF integrationVars, IntegrationInv, IntegrationShape, EditsInv, KeepsConfig, Keeps,
                BackedUpOwn, RemovalInv, CompleteMeansRemoved
  <1> QED
    BY <1>1, <1>2, <1>3, <1>4, <1>5, <1>6, <1>7 DEF IntegrationNext, CommandNext

\* What the edits' part of the invariant is about is what the user relies on.
LEMMA KeptIsRecoverable == EditsInv => UserEditsKept
  BY DEF EditsInv, UserEditsKept, KeepsConfig, Keeps, BackedUpOwn, NotifyRecoverable, OwnOf

\* Whatever the order of plans, installs, uninstalls, failures and crashes (install.rs,
\* uninstall.rs): the user's last edits are in the files, and a notify command of the
\* user's own is in the configuration or in a backup, unless an edit fell between what
\* a command read and what it wrote.
THEOREM LastEditsAreKept == IntegrationSpec => []UserEditsKept
  <1>1. IntegrationInv => UserEditsKept
    BY KeptIsRecoverable DEF IntegrationInv
  <1> QED
    BY IntegrationInitKeeps, IntegrationNextKeeps, <1>1, PTL DEF IntegrationSpec

\* An uninstall that reports completion (complete of UninstallReport, uninstall.rs) leaves
\* no entry of Lili in either file, also after a crash half-way through an earlier command
\* and whatever the user made of the files before it.
THEOREM RemovedIsRemoved == IntegrationSpec => []CompleteMeansRemoved
  <1>1. IntegrationInv => CompleteMeansRemoved
    BY DEF IntegrationInv
  <1> QED
    BY IntegrationInitKeeps, IntegrationNextKeeps, <1>1, PTL DEF IntegrationSpec

-------------------------------------------------------------------------------
(***************************************************************************)
(* The move to the plugin.  Events that the desktop or its evidence        *)
(* remembers came through the socket, and so did one from the home that    *)
(* the evidence is bound to.                                               *)
(***************************************************************************)
IsDiagnostics(d) == d = [last |-> d.last, seen |-> d.seen, named |-> d.named]
MigrationShape ==
    /\ codex = [installed |-> codex.installed, enabled |-> codex.enabled,
                version |-> codex.version, trusted |-> codex.trusted]
    /\ desktop = [step |-> desktop.step, instance |-> desktop.instance,
                  diagnostics |-> desktop.diagnostics]
    /\ IsDiagnostics(desktop.diagnostics)
    /\ evidence = [home |-> evidence.home, seen |-> evidence.seen, last |-> evidence.last,
                   named |-> evidence.named, signer |-> evidence.signer]
    /\ witnessed = [events |-> witnessed.events, changes |-> witnessed.changes,
                    genuine |-> witnessed.genuine, verified |-> witnessed.verified]
    /\ command = [step |-> command.step, seen |-> command.seen, plugin |-> command.plugin,
                  enabled |-> command.enabled, legacy |-> command.legacy,
                  reviewed |-> command.reviewed, synthetic |-> command.synthetic,
                  instance |-> command.instance, disturbed |-> command.disturbed]
    /\ codex.version \in PluginVersion /\ command.plugin \in PluginVersion \cup {"none"}

Genuine(event) == event = NoEvent \/ event \in witnessed.genuine
RememberedAreGenuine ==
    /\ Genuine(desktop.diagnostics.seen) /\ Genuine(desktop.diagnostics.last)
    /\ Genuine(evidence.seen) /\ Genuine(evidence.last)
    /\ evidence.home # "none" => \E event \in witnessed.genuine : event.home = evidence.home

VerifiedOnce ==
    /\ command.synthetic => command.instance \in witnessed.verified
    /\ receipt.instance # 0 => receipt.instance \in witnessed.verified

\* What each check of a cleanup has found is so until the removal, unless the user
\* changes the plugin meanwhile.
PluginIsActive ==
    /\ codex.installed /\ codex.enabled
    /\ \E event \in witnessed.genuine : event.version = codex.version
    /\ \E event \in witnessed.genuine : event.home = SelectedHome
CleanupInv ==
    /\ command.step \in {"check_trust", "check_plugin", "preview", "uninstall"}
          => receipt.instance \in witnessed.verified
    /\ ~command.disturbed =>
          /\ command.step \in {"check_plugin", "preview", "uninstall"} => codex.trusted
          /\ command.step \in {"preview", "uninstall"} => PluginIsActive

MigrationInv == MigrationShape /\ RememberedAreGenuine /\ VerifiedOnce /\ CleanupInv


LEMMA MigrationInitKeeps == MigrationInit => MigrationInv
  <1> SUFFICES ASSUME MigrationInit PROVE MigrationInv
    OBVIOUS
  <1> USE DEF MigrationInit, NoEvent, NoDiagnostics, Quiescent, NoReceipt, NoAssessment
  <1>1. MigrationShape
    BY DEF MigrationShape, IsDiagnostics
  <1>2. RememberedAreGenuine
    BY DEF RememberedAreGenuine, Genuine
  <1>3. VerifiedOnce /\ CleanupInv
    BY DEF VerifiedOnce, CleanupInv
  <1> QED
    BY <1>1, <1>2, <1>3 DEF MigrationInv

\* Diagnostics come from what is remembered, and a saved row is bound to a home that an
\* event came from.
LEMMA StoredIsGenuine ==
    ASSUME MigrationInv, NEW diagnostics, IsDiagnostics(diagnostics), NEW instance,
           NEW genuine, witnessed.genuine \subseteq genuine,
           diagnostics.seen = NoEvent \/ diagnostics.seen \in genuine,
           diagnostics.last = NoEvent \/ diagnostics.last \in genuine
    PROVE  LET row == Stored(diagnostics, instance) IN
           /\ row = [home |-> row.home, seen |-> row.seen, last |-> row.last,
                     named |-> row.named, signer |-> row.signer]
           /\ row.seen = NoEvent \/ row.seen \in genuine
           /\ row.last = NoEvent \/ row.last \in genuine
           /\ row.home # "none" => \E event \in genuine : event.home = row.home
  <1> DEFINE row == Stored(diagnostics, instance)
             observed == diagnostics.last.home
             bound == IF evidence.home # "none" THEN evidence.home ELSE observed
             new == [home |-> bound, seen |-> diagnostics.seen, last |-> diagnostics.last,
                     named |-> diagnostics.named, signer |-> instance]
  <1>1. /\ evidence = [home |-> evidence.home, seen |-> evidence.seen, last |-> evidence.last,
                       named |-> evidence.named, signer |-> evidence.signer]
        /\ evidence.seen = NoEvent \/ evidence.seen \in genuine
        /\ evidence.last = NoEvent \/ evidence.last \in genuine
        /\ evidence.home # "none" => \E event \in genuine : event.home = evidence.home
    BY DEF MigrationInv, MigrationShape, RememberedAreGenuine, Genuine
  <1>2. bound # "none" => \E event \in genuine : event.home = bound
    BY <1>1 DEF NoEvent
  <1>3. row = evidence \/ row = new
    BY DEF Stored
  <1>4. CASE row = evidence
    BY <1>1, <1>4
  <1>5. CASE row = new
    <2> HIDE DEF bound
    <2> QED
      BY <1>2, <1>5
  <1> QED
    BY <1>3, <1>4, <1>5


\* A step of a desktop: nothing that a command relies on is taken back.
LEMMA DesktopStepKeeps ==
    ASSUME MigrationInv, UNCHANGED Others, NEW step, NEW instance,
           NEW diagnostics, IsDiagnostics(diagnostics),
           desktop' = [step |-> step, instance |-> instance, diagnostics |-> diagnostics],
           witnessed' = [events |-> witnessed'.events, changes |-> witnessed'.changes,
                         genuine |-> witnessed'.genuine, verified |-> witnessed'.verified],
           witnessed.genuine \subseteq witnessed'.genuine, witnessed'.verified = witnessed.verified,
           diagnostics.seen = NoEvent \/ diagnostics.seen \in witnessed'.genuine,
           diagnostics.last = NoEvent \/ diagnostics.last \in witnessed'.genuine,
           \/ UNCHANGED evidence
           \/ \E signer : evidence' = Stored(diagnostics, signer)
    PROVE  MigrationInv'
  <1>1. MigrationShape /\ RememberedAreGenuine /\ VerifiedOnce /\ CleanupInv
    BY DEF MigrationInv
  <1>2. UNCHANGED <<codex, legacy, assessment, receipt, command>>
    BY DEF Others
  <1>3. /\ evidence' = [home |-> evidence'.home, seen |-> evidence'.seen, last |-> evidence'.last,
                        named |-> evidence'.named, signer |-> evidence'.signer]
        /\ Genuine(evidence.seen)' /\ Genuine(evidence.last)'
        /\ evidence'.home # "none" => \E event \in witnessed'.genuine : event.home = evidence'.home
    <2>1. CASE UNCHANGED evidence
      BY <1>1, <2>1 DEF MigrationShape, RememberedAreGenuine, Genuine
    <2>2. ASSUME NEW signer, evidence' = Stored(diagnostics, signer)
          PROVE  /\ evidence' = [home |-> evidence'.home, seen |-> evidence'.seen,
                                 last |-> evidence'.last, named |-> evidence'.named,
                                 signer |-> evidence'.signer]
                 /\ Genuine(evidence.seen)' /\ Genuine(evidence.last)'
                 /\ evidence'.home # "none"
                      => \E event \in witnessed'.genuine : event.home = evidence'.home
      <3> DEFINE genuine == witnessed'.genuine
      <3> HIDE DEF genuine
      <3>1. witnessed.genuine \subseteq genuine
        BY DEF genuine
      <3>2. /\ diagnostics.seen = NoEvent \/ diagnostics.seen \in genuine
            /\ diagnostics.last = NoEvent \/ diagnostics.last \in genuine
        BY DEF genuine
      <3> QED
        BY <2>2, <3>1, <3>2, StoredIsGenuine DEF Genuine, genuine
    <2> QED
      BY <2>1, <2>2
  <1>4. MigrationShape'
    BY <1>1, <1>2, <1>3 DEF MigrationShape
  <1>5. RememberedAreGenuine'
    BY <1>3 DEF RememberedAreGenuine, Genuine
  <1>6. VerifiedOnce'
    BY <1>1, <1>2 DEF VerifiedOnce
  <1>7. CleanupInv'
    BY <1>1, <1>2 DEF CleanupInv, PluginIsActive
  <1> QED
    BY <1>4, <1>5, <1>6, <1>7 DEF MigrationInv

LEMMA DesktopKeeps ==
    ASSUME MigrationInv,
           \/ StartDesktop \/ PublishCredentials \/ RollBackEvidence \/ StopDesktop
           \/ \E listed \in BOOLEAN : RefreshDiagnostics(listed)
    PROVE  MigrationInv'
  <1>1. /\ desktop = [step |-> desktop.step, instance |-> desktop.instance,
                      diagnostics |-> desktop.diagnostics]
        /\ IsDiagnostics(desktop.diagnostics)
        /\ witnessed = [events |-> witnessed.events, changes |-> witnessed.changes,
                        genuine |-> witnessed.genuine, verified |-> witnessed.verified]
        /\ Genuine(desktop.diagnostics.seen) /\ Genuine(desktop.diagnostics.last)
        /\ Genuine(evidence.seen) /\ Genuine(evidence.last)
    BY DEF MigrationInv, MigrationShape, RememberedAreGenuine
  <1>2. CASE StartDesktop
    <2> DEFINE kept == IF credentials # 0 /\ evidence.signer = credentials
                       THEN [last |-> evidence.last, seen |-> evidence.seen, named |-> evidence.named]
                       ELSE NoDiagnostics
               next == desktop.instance + 1
    <2>1. /\ UNCHANGED Others /\ UNCHANGED witnessed
          /\ desktop' = [step |-> "starting", instance |-> next, diagnostics |-> kept]
          /\ evidence' = Stored(kept, next)
      BY <1>2 DEF StartDesktop
    <2>2. IsDiagnostics(kept)
      BY DEF IsDiagnostics, NoDiagnostics
    <2>3. Genuine(kept.seen) /\ Genuine(kept.last)
      BY <1>1 DEF Genuine, NoDiagnostics
    <2> HIDE DEF kept, next
    <2> QED
      BY <1>1, <2>1, <2>2, <2>3, DesktopStepKeeps DEF Genuine
  <1>3. ASSUME UNCHANGED Others, UNCHANGED witnessed, NEW step,
               desktop' = [desktop EXCEPT !.step = step],
               \/ UNCHANGED evidence
               \/ \E signer : evidence' = Stored(desktop.diagnostics, signer)
        PROVE  MigrationInv'
    <2>1. desktop' = [step |-> step, instance |-> desktop.instance, diagnostics |-> desktop.diagnostics]
      BY <1>1, <1>3
    <2> QED
      BY <1>1, <1>3, <2>1, DesktopStepKeeps DEF Genuine
  <1>4. CASE PublishCredentials
    BY <1>3, <1>4 DEF PublishCredentials
  <1>5. CASE StopDesktop
    BY <1>3, <1>5 DEF StopDesktop
  <1>6. CASE RollBackEvidence
    BY <1>3, <1>6 DEF RollBackEvidence
  <1>7. ASSUME NEW listed \in BOOLEAN, RefreshDiagnostics(listed) PROVE MigrationInv'
    <2> DEFINE d == Rediscovered(desktop.diagnostics, listed)
    <2>1. /\ UNCHANGED Others /\ UNCHANGED witnessed
          /\ desktop' = [desktop EXCEPT !.diagnostics = d]
          /\ evidence' = Stored(d, desktop.instance)
      BY <1>7 DEF RefreshDiagnostics
    <2>2. IsDiagnostics(d)
      BY DEF IsDiagnostics, Rediscovered
    <2>3. Genuine(d.seen) /\ Genuine(d.last)
      BY <1>1 DEF Genuine, Rediscovered
    <2> HIDE DEF d
    <2>4. desktop' = [step |-> desktop.step, instance |-> desktop.instance, diagnostics |-> d]
      BY <1>1, <2>1
    <2> QED
      BY <1>1, <2>1, <2>2, <2>3, <2>4, DesktopStepKeeps DEF Genuine
  <1> QED
    BY <1>2, <1>4, <1>5, <1>6, <1>7


LEMMA DeliverEventKeeps ==
    ASSUME MigrationInv, NEW home, NEW version, NEW authenticated \in BOOLEAN,
           DeliverEvent(home, version, authenticated)
    PROVE  MigrationInv'
  <1> DEFINE event == [id |-> witnessed.events + 1, home |-> home, version |-> version]
             genuine == IF authenticated THEN witnessed.genuine \cup {event} ELSE witnessed.genuine
             d == Recorded(desktop.diagnostics, Attributed(event, authenticated))
  <1>1. /\ desktop = [step |-> desktop.step, instance |-> desktop.instance,
                      diagnostics |-> desktop.diagnostics]
        /\ IsDiagnostics(desktop.diagnostics)
        /\ witnessed = [events |-> witnessed.events, changes |-> witnessed.changes,
                        genuine |-> witnessed.genuine, verified |-> witnessed.verified]
        /\ Genuine(desktop.diagnostics.seen) /\ Genuine(desktop.diagnostics.last)
    BY DEF MigrationInv, MigrationShape, RememberedAreGenuine
  <1>2. /\ desktop' = [desktop EXCEPT !.diagnostics = d]
        /\ evidence' = Stored(d, desktop.instance)
        /\ witnessed' = [witnessed EXCEPT !.events = event.id, !.genuine = genuine]
        /\ UNCHANGED Others
    BY DEF DeliverEvent
  <1>3. witnessed.genuine \subseteq genuine
    OBVIOUS
  <1>4. Attributed(event, authenticated) = NoEvent \/ Attributed(event, authenticated) \in genuine
    BY DEF Attributed
  <1> HIDE DEF genuine
  <1>5. IsDiagnostics(d)
    BY <1>1 DEF IsDiagnostics, Recorded
  <1>6. /\ d.seen = NoEvent \/ d.seen \in genuine
        /\ d.last = NoEvent \/ d.last \in genuine
    <2> DEFINE carried == Attributed(event, authenticated)
    <2>1. carried = NoEvent \/ carried \in genuine
      BY <1>4
    <2>2. d = Recorded(desktop.diagnostics, carried)
      OBVIOUS
    <2> HIDE DEF carried, event, d
    <2> QED
      BY <1>1, <1>3, <2>1, <2>2 DEF Recorded, RecordedForPlugin, Genuine, IsDiagnostics
  <1> HIDE DEF d
  <1>7. /\ desktop' = [step |-> desktop.step, instance |-> desktop.instance, diagnostics |-> d]
        /\ witnessed' = [events |-> event.id, changes |-> witnessed.changes,
                         genuine |-> genuine, verified |-> witnessed.verified]
    BY <1>1, <1>2
  <1> HIDE DEF event
  <1>8. /\ witnessed'.genuine = genuine /\ witnessed'.verified = witnessed.verified
        /\ witnessed' = [events |-> witnessed'.events, changes |-> witnessed'.changes,
                         genuine |-> witnessed'.genuine, verified |-> witnessed'.verified]
    BY <1>7
  <1> QED
    BY <1>2, <1>3, <1>5, <1>6, <1>7, <1>8, DesktopStepKeeps

\* A change of the user's disturbs the command that is under way.
LEMMA UserKeeps ==
    ASSUME MigrationInv,
           \/ \E installed, enabled, trusted \in BOOLEAN, version \in PluginVersion :
                 CodexChange(installed, enabled, version, trusted)
           \/ AlterLegacy
    PROVE  MigrationInv'
  <1>1. MigrationShape /\ RememberedAreGenuine /\ VerifiedOnce /\ CleanupInv
    BY DEF MigrationInv
  <1>2. ASSUME witnessed' = [witnessed EXCEPT !.changes = @ + 1]
        PROVE  /\ witnessed'.genuine = witnessed.genuine /\ witnessed'.verified = witnessed.verified
               /\ witnessed' = [events |-> witnessed'.events, changes |-> witnessed'.changes,
                                genuine |-> witnessed'.genuine, verified |-> witnessed'.verified]
    BY <1>1, <1>2 DEF MigrationShape
  <1>3. ASSUME NEW installed \in BOOLEAN, NEW enabled \in BOOLEAN, NEW trusted \in BOOLEAN,
               NEW version \in PluginVersion, CodexChange(installed, enabled, version, trusted)
        PROVE  MigrationInv'
    <2> DEFINE disturbed == command.disturbed \/ command.step # "idle"
    <2>1. /\ codex' = [installed |-> installed, enabled |-> installed /\ enabled,
                       version |-> version, trusted |-> trusted]
          /\ command' = [command EXCEPT !.disturbed = disturbed]
          /\ witnessed' = [witnessed EXCEPT !.changes = @ + 1]
          /\ UNCHANGED <<legacy, desktop, credentials, evidence, assessment, receipt>>
      BY <1>3 DEF CodexChange
    <2>2. codex' = [installed |-> codex'.installed, enabled |-> codex'.enabled,
                    version |-> codex'.version, trusted |-> codex'.trusted]
      <3> DEFINE on == installed /\ enabled
      <3>1. codex' = [installed |-> installed, enabled |-> on, version |-> version,
                      trusted |-> trusted]
        BY <2>1
      <3> HIDE DEF on
      <3> QED
        BY <3>1
    <2> HIDE DEF disturbed
    <2>3. /\ command' = [step |-> command'.step, seen |-> command'.seen, plugin |-> command'.plugin,
                         enabled |-> command'.enabled, legacy |-> command'.legacy,
                         reviewed |-> command'.reviewed, synthetic |-> command'.synthetic,
                         instance |-> command'.instance, disturbed |-> command'.disturbed]
          /\ command'.step = command.step /\ command'.synthetic = command.synthetic
          /\ command'.instance = command.instance /\ command'.disturbed = disturbed
          /\ command'.plugin = command.plugin
      BY <1>1, <2>1 DEF MigrationShape
    <2>4. command.step # "idle" => disturbed
      BY DEF disturbed
    <2>5. MigrationShape'
      BY <1>1, <1>2, <2>1, <2>2, <2>3 DEF MigrationShape, IsDiagnostics
    <2>6. RememberedAreGenuine'
      BY <1>1, <1>2, <2>1 DEF RememberedAreGenuine, Genuine
    <2>7. VerifiedOnce'
      BY <1>1, <1>2, <2>1, <2>3 DEF VerifiedOnce
    <2>8. CleanupInv'
      BY <1>1, <1>2, <2>1, <2>3, <2>4 DEF CleanupInv
    <2> QED
      BY <2>5, <2>6, <2>7, <2>8 DEF MigrationInv
  <1>4. CASE AlterLegacy
    <2>1. /\ witnessed' = [witnessed EXCEPT !.changes = @ + 1]
          /\ UNCHANGED <<codex, desktop, credentials, evidence, assessment, receipt, command>>
      BY <1>4 DEF AlterLegacy
    <2>2. MigrationShape' /\ RememberedAreGenuine'
      BY <1>1, <1>2, <2>1 DEF MigrationShape, IsDiagnostics, RememberedAreGenuine, Genuine
    <2>3. VerifiedOnce' /\ CleanupInv'
      BY <1>1, <1>2, <2>1 DEF VerifiedOnce, CleanupInv, PluginIsActive
    <2> QED
      BY <2>2, <2>3 DEF MigrationInv
  <1> QED
    BY <1>3, <1>4


\* A step of a command leaves the desktop alone.
IsCommand(c) ==
    /\ c = [step |-> c.step, seen |-> c.seen, plugin |-> c.plugin, enabled |-> c.enabled,
            legacy |-> c.legacy, reviewed |-> c.reviewed, synthetic |-> c.synthetic,
            instance |-> c.instance, disturbed |-> c.disturbed]
    /\ c.plugin \in PluginVersion \cup {"none"}

LEMMA CommandStepKeeps ==
    ASSUME MigrationInv, UNCHANGED <<desktop, evidence>>, IsCommand(command)',
           codex' = [installed |-> codex'.installed, enabled |-> codex'.enabled,
                     version |-> codex'.version, trusted |-> codex'.trusted],
           codex'.version = codex.version,
           witnessed' = [events |-> witnessed'.events, changes |-> witnessed'.changes,
                         genuine |-> witnessed'.genuine, verified |-> witnessed'.verified],
           witnessed'.genuine = witnessed.genuine,
           VerifiedOnce', CleanupInv'
    PROVE  MigrationInv'
  <1>1. MigrationShape /\ RememberedAreGenuine
    BY DEF MigrationInv
  <1>2. MigrationShape'
    BY <1>1 DEF MigrationShape, IsDiagnostics, IsCommand
  <1>3. RememberedAreGenuine'
    BY <1>1 DEF RememberedAreGenuine, Genuine
  <1> QED
    BY <1>2, <1>3 DEF MigrationInv

LEMMA QuiescentCommand ==
    /\ IsCommand(Quiescent) /\ Quiescent.step = "idle" /\ ~Quiescent.synthetic
    /\ Quiescent = [Quiescent EXCEPT !.step = "idle"]
  <1>1. IsCommand(Quiescent) /\ Quiescent.step = "idle" /\ ~Quiescent.synthetic
    BY DEF IsCommand, Quiescent
  <1> QED
    BY <1>1 DEF IsCommand

LEMMA AssessKeeps ==
    ASSUME MigrationInv,
           \/ BeginAssess \/ AssessTrust \/ FinishAssess
           \/ \E delivered \in BOOLEAN : AssessSynthetic(delivered)
    PROVE  MigrationInv'
  <1>1. MigrationShape /\ VerifiedOnce /\ CleanupInv
    BY DEF MigrationInv
  <1>2. IsCommand(command) /\ IsCommand(Quiescent)
    BY <1>1, QuiescentCommand DEF MigrationShape, IsCommand
  <1>3. CASE BeginAssess
    <2> DEFINE plugin == IF codex.installed THEN codex.version ELSE "none"
               active == legacy # "none"
    <2>1. /\ command' = [step |-> "assess_trust", seen |-> Inspection, plugin |-> plugin,
                         enabled |-> codex.enabled, legacy |-> active, reviewed |-> FALSE,
                         synthetic |-> FALSE, instance |-> 0, disturbed |-> FALSE]
          /\ UNCHANGED receipt /\ UNCHANGED World
      BY <1>3 DEF BeginAssess, Quiescent
    <2>2. plugin \in PluginVersion \cup {"none"}
      BY <1>1 DEF MigrationShape
    <2> HIDE DEF plugin, active
    <2>3. IsCommand(command)' /\ command'.step = "assess_trust" /\ command'.synthetic = FALSE
      BY <2>1, <2>2 DEF IsCommand
    <2>4. VerifiedOnce' /\ CleanupInv'
      BY <1>1, <2>1, <2>3 DEF VerifiedOnce, CleanupInv, World
    <2> QED
      BY <1>1, <2>1, <2>3, <2>4, CommandStepKeeps DEF World, MigrationShape
  <1>4. CASE AssessTrust
    <2>1. /\ command' = [command EXCEPT !.step = "assess_synthetic", !.reviewed = codex.trusted]
          /\ UNCHANGED receipt /\ UNCHANGED World
      BY <1>4 DEF AssessTrust
    <2>2. command' = [step |-> "assess_synthetic", seen |-> command.seen, plugin |-> command.plugin,
                      enabled |-> command.enabled, legacy |-> command.legacy,
                      reviewed |-> codex.trusted, synthetic |-> command.synthetic,
                      instance |-> command.instance, disturbed |-> command.disturbed]
      BY <1>2, <2>1 DEF IsCommand
    <2>3. /\ IsCommand(command)' /\ command'.step = "assess_synthetic"
          /\ command'.synthetic = command.synthetic /\ command'.instance = command.instance
      BY <1>2, <2>2 DEF IsCommand
    <2>4. VerifiedOnce' /\ CleanupInv'
      BY <1>1, <2>1, <2>3 DEF VerifiedOnce, CleanupInv, World
    <2> QED
      BY <1>1, <2>1, <2>3, <2>4, CommandStepKeeps DEF World, MigrationShape
  <1>5. ASSUME NEW delivered \in BOOLEAN, AssessSynthetic(delivered) PROVE MigrationInv'
    <2> DEFINE instance == IF delivered THEN credentials ELSE 0
               verified == IF delivered THEN witnessed.verified \cup {credentials}
                           ELSE witnessed.verified
    <2>1. /\ command' = [command EXCEPT !.step = "assess_state", !.synthetic = delivered,
                                        !.instance = instance]
          /\ UNCHANGED <<receipt, codex, desktop, evidence>>
      BY <1>5 DEF AssessSynthetic
    <2>2. /\ witnessed' = [events |-> witnessed.events, changes |-> witnessed.changes,
                           genuine |-> witnessed.genuine, verified |-> verified]
      BY <1>1, <1>5 DEF AssessSynthetic, MigrationShape
    <2>3. /\ witnessed.verified \subseteq verified
          /\ delivered => instance \in verified
      OBVIOUS
    <2> HIDE DEF instance, verified
    <2>4. command' = [step |-> "assess_state", seen |-> command.seen, plugin |-> command.plugin,
                      enabled |-> command.enabled, legacy |-> command.legacy,
                      reviewed |-> command.reviewed, synthetic |-> delivered,
                      instance |-> instance, disturbed |-> command.disturbed]
      BY <1>2, <2>1 DEF IsCommand
    <2>5. /\ IsCommand(command)' /\ command'.step = "assess_state"
          /\ command'.synthetic = delivered /\ command'.instance = instance
      BY <1>2, <2>4 DEF IsCommand
    <2>6. VerifiedOnce' /\ CleanupInv'
      BY <1>1, <2>1, <2>2, <2>3, <2>5 DEF VerifiedOnce, CleanupInv
    <2> QED
      BY <1>1, <2>1, <2>2, <2>5, <2>6, CommandStepKeeps DEF MigrationShape
  <1>6. CASE FinishAssess
    <2>1. MigrationState = "cleanup_ready" => command.synthetic
      BY <1>1 DEF MigrationState, MigrationShape
    <2>2. /\ \/ MigrationState = "cleanup_ready" /\ receipt'.instance = command.instance
             \/ UNCHANGED receipt
          /\ command' = Quiescent /\ UNCHANGED World
      BY <1>6 DEF FinishAssess, Abandoned
    <2>3. VerifiedOnce' /\ CleanupInv'
      BY <1>1, <2>1, <2>2 DEF VerifiedOnce, CleanupInv, World, Quiescent
    <2> QED
      BY <1>1, <1>2, <2>2, <2>3, CommandStepKeeps DEF World, MigrationShape, IsCommand
  <1> QED
    BY <1>3, <1>4, <1>5, <1>6


LEMMA PluginInstallKeeps ==
    ASSUME MigrationInv,
           \/ BeginPluginInstall \/ VerifyPlugin \/ RemovePlugin
           \/ \E added \in BOOLEAN : AddPlugin(added)
    PROVE  MigrationInv'
  <1>1. MigrationShape /\ VerifiedOnce /\ CleanupInv
    BY DEF MigrationInv
  <1>2. IsCommand(command) /\ IsCommand(Quiescent)
    BY <1>1, QuiescentCommand DEF MigrationShape, IsCommand
  <1>3. ASSUME NEW step \in {"idle", "add_plugin", "verify_plugin", "remove_plugin"},
               NEW base \in {command, Quiescent}, command' = [base EXCEPT !.step = step],
               UNCHANGED <<desktop, evidence, receipt, witnessed>>,
               codex' = [installed |-> codex'.installed, enabled |-> codex'.enabled,
                         version |-> codex'.version, trusted |-> codex'.trusted],
               codex'.version = codex.version
        PROVE  MigrationInv'
    <2>1. /\ base.synthetic => base.instance \in witnessed.verified
          /\ IsCommand(base)
      BY <1>1, <1>2, QuiescentCommand DEF VerifiedOnce
    <2>2. /\ IsCommand(command)' /\ command'.step = step
          /\ command'.synthetic = base.synthetic /\ command'.instance = base.instance
      BY <1>3, <2>1 DEF IsCommand
    <2>3. VerifiedOnce' /\ CleanupInv'
      BY <1>1, <1>3, <2>1, <2>2 DEF VerifiedOnce, CleanupInv
    <2> QED
      BY <1>1, <1>3, <2>2, <2>3, CommandStepKeeps DEF MigrationShape
  <1>4. Quiescent = [Quiescent EXCEPT !.step = "idle"]
    BY QuiescentCommand
  <1>5. UNCHANGED codex => /\ codex' = [installed |-> codex'.installed, enabled |-> codex'.enabled,
                                        version |-> codex'.version, trusted |-> codex'.trusted]
                           /\ codex'.version = codex.version
    BY <1>1 DEF MigrationShape
  <1>6. CASE BeginPluginInstall
    BY <1>3, <1>5, <1>6 DEF BeginPluginInstall, World
  <1>7. CASE VerifyPlugin
    <2>1. \/ command' = [Quiescent EXCEPT !.step = "idle"]
          \/ command' = [command EXCEPT !.step = "remove_plugin"]
      BY <1>4, <1>7 DEF VerifyPlugin, Abandoned
    <2> QED
      BY <1>3, <1>5, <1>7, <2>1 DEF VerifyPlugin, World
  <1>8. CASE RemovePlugin
    <2>1. codex' = [installed |-> FALSE, enabled |-> FALSE, version |-> codex.version, trusted |-> FALSE]
      BY <1>1, <1>8 DEF RemovePlugin, MigrationShape
    <2>2. command' = [Quiescent EXCEPT !.step = "idle"]
      BY <1>4, <1>8 DEF RemovePlugin, Abandoned
    <2> QED
      BY <1>3, <1>8, <2>1, <2>2 DEF RemovePlugin
  <1>9. ASSUME NEW added \in BOOLEAN, AddPlugin(added) PROVE MigrationInv'
    <2>1. \/ UNCHANGED codex
          \/ codex' = [installed |-> TRUE, enabled |-> TRUE, version |-> codex.version, trusted |-> FALSE]
      BY <1>1, <1>9 DEF AddPlugin, MigrationShape
    <2>2. /\ codex' = [installed |-> codex'.installed, enabled |-> codex'.enabled,
                       version |-> codex'.version, trusted |-> codex'.trusted]
          /\ codex'.version = codex.version
      BY <1>5, <2>1
    <2> DEFINE step == IF added THEN "verify_plugin" ELSE "remove_plugin"
    <2>3. command' = [command EXCEPT !.step = step]
      BY <1>9 DEF AddPlugin
    <2> QED
      BY <1>3, <1>9, <2>2, <2>3 DEF AddPlugin
  <1> QED
    BY <1>6, <1>7, <1>8, <1>9

\* A plugin that passes the check is active, and its evidence came through the socket.
LEMMA VerifiedIsActive == MigrationInv /\ StillVerified => PluginIsActive
  <1> SUFFICES ASSUME MigrationInv, StillVerified PROVE PluginIsActive
    OBVIOUS
  <1>1. /\ Genuine(evidence.seen)
        /\ evidence.home # "none" => \E event \in witnessed.genuine : event.home = evidence.home
    BY DEF MigrationInv, RememberedAreGenuine
  <1>2. codex.installed /\ codex.enabled /\ Inspection # NoEvent
    BY DEF StillVerified
  <1>3. Evidence # NoEvent /\ Evidence.version = codex.version
    BY <1>2 DEF Inspection, Rediscovered, NoDiagnostics
  <1>4. Evidence = evidence.seen /\ evidence.home = SelectedHome
    BY <1>3 DEF Evidence
  <1>5. evidence.seen \in witnessed.genuine /\ evidence.seen.version = codex.version
    BY <1>1, <1>3, <1>4 DEF Genuine
  <1>6. \E event \in witnessed.genuine : event.home = SelectedHome
    BY <1>1, <1>4, MigrationAssumption
  <1> QED
    BY <1>2, <1>5, <1>6 DEF PluginIsActive

LEMMA CleanupKeeps ==
    ASSUME MigrationInv,
           BeginCleanup \/ CheckTrust \/ CheckPlugin \/ PreviewCleanup \/ CleanUp
    PROVE  MigrationInv'
  <1>1. MigrationShape /\ VerifiedOnce /\ CleanupInv
    BY DEF MigrationInv
  <1>2. IsCommand(command) /\ IsCommand(Quiescent)
    BY <1>1, QuiescentCommand DEF MigrationShape, IsCommand
  <1>3. ASSUME NEW c, IsCommand(c), command' = c, UNCHANGED receipt, UNCHANGED World,
               c.synthetic => c.instance \in witnessed.verified,
               CleanupInv'
        PROVE  MigrationInv'
    <2>1. VerifiedOnce'
      BY <1>1, <1>3 DEF VerifiedOnce, World
    <2> QED
      BY <1>1, <1>3, <2>1, CommandStepKeeps DEF World, MigrationShape
  <1>4. ASSUME UNCHANGED receipt, UNCHANGED World, command' = Quiescent PROVE MigrationInv'
    <2>1. Quiescent.step = "idle" /\ ~Quiescent.synthetic
      BY QuiescentCommand
    <2>2. CleanupInv'
      BY <1>4, <2>1 DEF CleanupInv
    <2> QED
      BY <1>2, <1>3, <1>4, <2>1, <2>2
  <1>5. ASSUME NEW step, NEW base \in {command, Quiescent}, UNCHANGED receipt, UNCHANGED World,
               command' = [base EXCEPT !.step = step], CleanupInv'
        PROVE  MigrationInv'
    <2>1. IsCommand(base) /\ (base.synthetic => base.instance \in witnessed.verified)
      BY <1>1, <1>2, QuiescentCommand DEF VerifiedOnce
    <2> DEFINE c == [base EXCEPT !.step = step]
    <2>2. IsCommand(c) /\ (c.synthetic => c.instance \in witnessed.verified)
      BY <2>1 DEF IsCommand
    <2> HIDE DEF c
    <2> QED
      BY <1>3, <1>5, <2>2 DEF c
  <1>6. ASSUME NEW step, command' = [command EXCEPT !.step = step]
        PROVE  command'.step = step /\ command'.disturbed = command.disturbed
    BY <1>2, <1>6 DEF IsCommand
  <1>7. CASE BeginCleanup
    <2>1. /\ command' = [Quiescent EXCEPT !.step = "check_trust"]
          /\ UNCHANGED receipt /\ UNCHANGED World
      BY <1>7 DEF BeginCleanup
    <2>2. command'.step = "check_trust"
      BY <2>1 DEF Quiescent
    <2>3. receipt.instance \in witnessed.verified
      BY <1>1, <1>7 DEF BeginCleanup, ReceiptHolds, VerifiedOnce
    <2>4. CleanupInv'
      BY <2>1, <2>2, <2>3 DEF CleanupInv, World
    <2> QED
      BY <1>5, <2>1, <2>4
  <1>8. CASE CheckTrust
    <2>1. /\ UNCHANGED receipt /\ UNCHANGED World /\ command.step = "check_trust"
          /\ \/ command' = Quiescent
             \/ codex.trusted /\ command' = [command EXCEPT !.step = "check_plugin"]
      BY <1>8 DEF CheckTrust, Check, HooksTrusted
    <2>2. ASSUME codex.trusted, command' = [command EXCEPT !.step = "check_plugin"] PROVE MigrationInv'
      <3>1. CleanupInv'
        BY <1>1, <1>6, <2>1, <2>2 DEF CleanupInv, World
      <3> QED
        BY <1>5, <2>1, <2>2, <3>1
    <2> QED
      BY <1>4, <2>1, <2>2
  <1>9. CASE CheckPlugin
    <2>1. /\ UNCHANGED receipt /\ UNCHANGED World /\ command.step = "check_plugin"
          /\ \/ command' = Quiescent
             \/ PluginIsActive /\ command' = [command EXCEPT !.step = "preview"]
      BY <1>9, VerifiedIsActive DEF CheckPlugin, Check
    <2>2. ASSUME PluginIsActive, command' = [command EXCEPT !.step = "preview"] PROVE MigrationInv'
      <3>1. CleanupInv'
        BY <1>1, <1>6, <2>1, <2>2 DEF CleanupInv, World, PluginIsActive
      <3> QED
        BY <1>5, <2>1, <2>2, <3>1
    <2> QED
      BY <1>4, <2>1, <2>2
  <1>10. CASE PreviewCleanup
    <2>1. /\ UNCHANGED receipt /\ UNCHANGED World /\ command.step = "preview"
          /\ \/ command' = Quiescent
             \/ command' = [command EXCEPT !.step = "uninstall"]
      BY <1>10 DEF PreviewCleanup, Check
    <2>2. ASSUME command' = [command EXCEPT !.step = "uninstall"] PROVE MigrationInv'
      <3>1. CleanupInv'
        BY <1>1, <1>6, <2>1, <2>2 DEF CleanupInv, World, PluginIsActive
      <3> QED
        BY <1>5, <2>1, <2>2, <3>1
    <2> QED
      BY <1>4, <2>1, <2>2
  <1>11. CASE CleanUp
    BY <1>4, <1>11 DEF CleanUp, Abandoned
  <1> QED
    BY <1>7, <1>8, <1>9, <1>10, <1>11

LEMMA MigrationNextKeeps == MigrationInv /\ [MigrationNext]_migrationVars => MigrationInv'
  <1> SUFFICES ASSUME MigrationInv, [MigrationNext]_migrationVars PROVE MigrationInv'
    OBVIOUS
  <1>1. CASE UNCHANGED migrationVars
    BY <1>1 DEF migrationVars, MigrationInv, MigrationShape, IsDiagnostics, RememberedAreGenuine,
                Genuine, VerifiedOnce, CleanupInv, PluginIsActive
  <1>2. ASSUME NEW home, NEW version, NEW authenticated \in BOOLEAN,
               DeliverEvent(home, version, authenticated)
        PROVE  MigrationInv'
    BY <1>2, DeliverEventKeeps
  <1> QED
    BY <1>1, <1>2, DesktopKeeps, UserKeeps, AssessKeeps, PluginInstallKeeps, CleanupKeeps
       DEF MigrationNext

\* The legacy entries go only after the plugin has earned it: it is active and trusted, an
\* event of its version and one of the selected home came through the socket and some
\* desktop answered the synthetic deliveries, with any number of desktops, homes,
\* versions, upgrades and assessments (cleanup_legacy_after_verification_with_host).
THEOREM LegacyGoesLast == MigrationSpec => []CleanupIsEarned
  <1>1. MigrationInv => CleanupIsEarned
    BY DEF MigrationInv, CleanupInv, PluginIsActive, CleanupIsEarned
  <1> QED
    BY <1>1, MigrationInitKeeps, MigrationNextKeeps, PTL DEF MigrationSpec

-------------------------------------------------------------------------------
(***************************************************************************)
(* The notification window.  What keeps a card visible is who still has to *)
(* act on it; the flag and the generation of a scheduled hide play no part.*)
(***************************************************************************)
IsActor(at) == at = [pc |-> at.pc, unread |-> at.unread, plan |-> at.plan, gen |-> at.gen]
Sent == [kind : {"is_visible", "show", "hide", "due"}, gen : Nat]
Acting == {"swap", "renumber", "finish"}

WindowShape ==
    /\ DOMAIN actor = {"task", "main"} /\ IsActor(actor["task"]) /\ IsActor(actor["main"])
    /\ actor["task"].pc \in {"idle", "asked", "decide", "number"} \cup Acting
    /\ actor["main"].pc \in {"idle", "decide", "number", "due", "count"} \cup Acting
    /\ posted \in Seq(Sent) /\ generation \in Nat /\ sleeping \subseteq Nat
    /\ budget = [publications |-> budget.publications, toggles |-> budget.toggles,
                 closes |-> budget.closes, crossed |-> budget.crossed]
    /\ actor["task"].pc \in Acting => actor["task"].plan \in {"show", "hide"}
    /\ actor["main"].pc \in {"due", "count"} => actor["main"].plan = "none"

\* The task has asked once, and waits for the answer.
AsksOnce ==
    \A i \in 1 .. Len(posted) : posted[i].kind = "is_visible" =>
        /\ actor["task"].pc = "asked"
        /\ \A j \in 1 .. Len(posted) : posted[j].kind = "is_visible" => j = i

\* What an actor knows of the pet, or is about to do because of it, is so.
KnowsPet(at) ==
    /\ at.pc = "decide" => (at.plan = "visible" <=> petVisible)
    /\ at.pc \in Acting => (at.plan = "show" => petVisible) /\ (at.plan = "hide" => ~petVisible)
MessagesKnowPet ==
    \A i \in 1 .. Len(posted) :
        /\ posted[i].kind = "show" => petVisible
        /\ posted[i].kind = "hide" => ~petVisible

\* Somebody is going to show the window for a card, or to hide it with the pet.
WillShow(at) ==
    \/ at.pc = "asked" /\ at.unread > 0
    \/ at.pc = "decide" /\ at.unread > 0
    \/ at.pc \in Acting /\ at.plan = "show"
ShowIsPosted == \E i \in 1 .. Len(posted) : posted[i].kind = "show"
WillHide(at) == at.pc = "decide" \/ (at.pc \in Acting /\ at.plan = "hide")

WindowSettles ==
    /\ KnowsPet(actor["task"]) /\ KnowsPet(actor["main"]) /\ MessagesKnowPet
    /\ published > 0 /\ petVisible /\ ~windowVisible
          => fresh \/ WillShow(actor["task"]) \/ WillShow(actor["main"]) \/ ShowIsPosted
    /\ ~petVisible /\ windowVisible => WillHide(actor["main"])

WindowInv == WindowShape /\ AsksOnce /\ (~budget.crossed => WindowSettles)

\* What an actor becomes, field by field.
LEMMA HeadingFields ==
    ASSUME NEW at, IsActor(at), NEW pc, NEW plan2
    PROVE  /\ IsActor(Heading(at, pc, plan2)) /\ Heading(at, pc, plan2).pc = pc
           /\ Heading(at, pc, plan2).plan = plan2 /\ Heading(at, pc, plan2).unread = at.unread
  <1> DEFINE first == at.pc
             second == at.unread
             third == at.plan
             fourth == at.gen
  <1>1. Heading(at, pc, plan2) = [pc |-> pc, unread |-> at.unread, plan |-> plan2, gen |-> at.gen]
    <2>1. at = [pc |-> first, unread |-> second, plan |-> third, gen |-> fourth]
      BY DEF IsActor
    <2> HIDE DEF first, second, third, fourth
    <2> DEFINE placed == [pc |-> pc, unread |-> second, plan |-> third, gen |-> fourth]
    <2>2. [at EXCEPT !.pc = pc] = placed
      BY <2>1
    <2>3. [placed EXCEPT !.plan = plan2] = [pc |-> pc, unread |-> second, plan |-> plan2, gen |-> fourth]
      OBVIOUS
    <2> HIDE DEF placed
    <2>4. Heading(at, pc, plan2) = [placed EXCEPT !.plan = plan2]
      BY <2>2 DEF Heading
    <2> QED
      BY <2>3, <2>4 DEF second, fourth
  <1> QED
    BY <1>1 DEF IsActor

LEMMA MovedFields ==
    ASSUME NEW at, IsActor(at), NEW pc
    PROVE  /\ IsActor([at EXCEPT !.pc = pc]) /\ [at EXCEPT !.pc = pc].pc = pc
           /\ [at EXCEPT !.pc = pc].plan = at.plan /\ [at EXCEPT !.pc = pc].unread = at.unread
  <1>1. [at EXCEPT !.pc = pc] = [pc |-> pc, unread |-> at.unread, plan |-> at.plan, gen |-> at.gen]
    BY DEF IsActor
  <1> QED
    BY <1>1 DEF IsActor

LEMMA RestingFields == IsActor(Resting) /\ Resting.pc = "idle" /\ Resting.plan = "none"
  BY DEF IsActor, Resting

LEMMA ActorMoves ==
    ASSUME WindowShape, NEW a \in {"task", "main"}, NEW r, actor' = [actor EXCEPT ![a] = r]
    PROVE  /\ DOMAIN actor' = {"task", "main"} /\ actor'[a] = r
           /\ \A b \in {"task", "main"} : b # a => actor'[b] = actor[b]
  BY DEF WindowShape

\* A step of one actor that touches no window and no message keeps the invariant if what
\* the actor was about to do for a card, or with the pet, it is still about to do.
LEMMA ActorStepKeeps ==
    ASSUME WindowInv, NEW a \in {"task", "main"}, NEW r, actor' = [actor EXCEPT ![a] = r],
           UNCHANGED <<published, fresh, petVisible, windowVisible, posted, budget>>,
           generation' \in Nat, sleeping' \subseteq Nat,
           IsActor(r), actor[a].pc # "asked",
           r.pc \in {"idle", "number", "count"} \cup Acting, a = "task" => r.pc # "count",
           a = "task" /\ r.pc \in Acting => r.plan \in {"show", "hide"},
           r.pc = "count" => r.plan = "none",
           ~budget.crossed => /\ KnowsPet(r)
                              /\ petVisible /\ WillShow(actor[a]) => WillShow(r)
                              /\ a = "main" /\ ~petVisible /\ WillHide(actor[a]) => WillHide(r)
    PROVE  WindowInv'
  <1>1. WindowShape /\ AsksOnce
    BY DEF WindowInv
  <1>2. /\ DOMAIN actor' = {"task", "main"} /\ actor'[a] = r
        /\ \A b \in {"task", "main"} : b # a => actor'[b] = actor[b]
    BY <1>1, ActorMoves
  <1>3. CASE a = "task"
    <2>1. actor'["task"] = r /\ actor'["main"] = actor["main"]
      BY <1>2, <1>3
    <2>2. WindowShape'
      BY <1>1, <1>2, <1>3, <2>1 DEF WindowShape, Acting
    <2>3. AsksOnce'
      BY <1>1, <1>3 DEF AsksOnce
    <2>4. ~budget'.crossed => WindowSettles'
      BY <1>3, <2>1 DEF WindowInv, WindowSettles, KnowsPet, MessagesKnowPet, WillShow, WillHide,
                        ShowIsPosted
    <2> QED
      BY <2>2, <2>3, <2>4 DEF WindowInv
  <1>4. CASE a = "main"
    <2>1. actor'["main"] = r /\ actor'["task"] = actor["task"]
      BY <1>2, <1>4
    <2>2. WindowShape'
      BY <1>1, <1>2, <1>4, <2>1 DEF WindowShape, Acting
    <2>3. AsksOnce'
      BY <1>1, <2>1 DEF AsksOnce
    <2>4. ~budget'.crossed => WindowSettles'
      BY <1>4, <2>1 DEF WindowInv, WindowSettles, KnowsPet, MessagesKnowPet, WillShow, WillHide,
                        ShowIsPosted
    <2> QED
      BY <2>2, <2>3, <2>4 DEF WindowInv
  <1> QED
    BY <1>3, <1>4

LEMMA DecideKeeps ==
    ASSUME WindowInv, NEW a \in {"task", "main"}, Decide(a)
    PROVE  WindowInv'
  <1> DEFINE at == actor[a]
             action == SyncAction(at.unread, at.plan = "visible")
  <1>1. WindowShape /\ IsActor(at) /\ at.pc = "decide"
    BY DEF WindowInv, WindowShape, Decide
  <1>2. /\ action = "show" => at.plan = "visible"
        /\ action = "hide" <=> at.plan # "visible"
        /\ at.unread > 0 /\ at.plan = "visible" => action = "show"
        /\ action \in {"show", "hide", "schedule"}
    BY DEF SyncAction
  <1>3. ~budget.crossed => (at.plan = "visible" <=> petVisible)
    BY <1>1 DEF WindowInv, WindowSettles, KnowsPet
  <1>4. PICK r \in {Resting, Heading(at, "number", "schedule"), Heading(at, "swap", action)} :
           /\ actor' = [actor EXCEPT ![a] = r]
           /\ action = "schedule" <=> r # Heading(at, "swap", action)
    <2>1. action = "schedule" => Resting.pc # "swap"
      BY RestingFields
    <2>2. Heading(at, "number", "schedule").pc = "number" /\ Heading(at, "swap", action).pc = "swap"
          /\ Resting.pc = "idle"
      BY <1>1, HeadingFields, RestingFields
    <2>3. CASE action = "schedule"
      BY <2>2, <2>3 DEF Decide, ScheduleHide
    <2>4. CASE action # "schedule"
      BY <2>2, <2>4 DEF Decide
    <2> QED
      BY <2>3, <2>4
  <1>5. /\ IsActor(r)
        /\ action = "schedule" => r.pc \in {"idle", "number"}
        /\ action # "schedule" => r.pc = "swap" /\ r.plan = action
    BY <1>1, <1>4, HeadingFields, RestingFields
  <1>6. /\ UNCHANGED <<published, fresh, petVisible, windowVisible, posted, budget>>
        /\ generation' \in Nat /\ sleeping' \subseteq Nat
    BY <1>1 DEF Decide, WindowShape
  <1> HIDE DEF action, at
  <1>7. ~budget.crossed => /\ KnowsPet(r)
                           /\ petVisible /\ WillShow(at) => WillShow(r)
                           /\ a = "main" /\ ~petVisible /\ WillHide(at) => WillHide(r)
    BY <1>1, <1>2, <1>3, <1>5 DEF KnowsPet, WillShow, WillHide, Acting
  <1> QED
    BY <1>1, <1>2, <1>4, <1>5, <1>6, <1>7, ActorStepKeeps DEF at, Acting

LEMMA ActorKeeps ==
    ASSUME WindowInv, NEW a \in {"task", "main"}, NumberHide(a) \/ SwapFlag(a) \/ Renumber(a)
    PROVE  WindowInv'
  <1> DEFINE at == actor[a]
  <1>1. WindowShape /\ IsActor(at)
    BY DEF WindowInv, WindowShape
  <1>2. /\ UNCHANGED <<published, fresh, petVisible, windowVisible, posted, budget>>
        /\ generation' \in Nat /\ sleeping' \subseteq Nat
    BY <1>1 DEF NumberHide, SwapFlag, Renumber, WindowShape
  <1>3. CASE NumberHide(a)
    <2>1. at.pc = "number" /\ actor' = [actor EXCEPT ![a] = Resting]
      BY <1>3 DEF NumberHide
    <2>2. KnowsPet(Resting) /\ ~WillShow(at) /\ ~WillHide(at)
      BY <2>1, RestingFields DEF KnowsPet, WillShow, WillHide, Acting
    <2> HIDE DEF at
    <2> QED
      BY <1>1, <1>2, <2>1, <2>2, RestingFields, ActorStepKeeps DEF at, Acting
  <1>4. CASE SwapFlag(a) \/ Renumber(a)
    <2>1. PICK pc \in {"renumber", "finish"} : actor' = [actor EXCEPT ![a] = [at EXCEPT !.pc = pc]]
      BY <1>4 DEF SwapFlag, Renumber, Goto
    <2> DEFINE r == [at EXCEPT !.pc = pc]
    <2>2. at.pc \in {"swap", "renumber"}
      BY <1>4 DEF SwapFlag, Renumber
    <2>3. IsActor(r) /\ r.pc = pc /\ r.plan = at.plan /\ r.unread = at.unread
      BY <1>1, MovedFields
    <2>4. a = "task" => at.plan \in {"show", "hide"}
      BY <1>1, <2>2 DEF WindowShape, Acting
    <2>5. actor' = [actor EXCEPT ![a] = r]
      BY <2>1
    <2> HIDE DEF r, at
    <2>6. ~budget.crossed => KnowsPet(at)
      BY DEF WindowInv, WindowSettles, at
    <2>7. ~budget.crossed => /\ KnowsPet(r)
                             /\ petVisible /\ WillShow(at) => WillShow(r)
                             /\ a = "main" /\ ~petVisible /\ WillHide(at) => WillHide(r)
      BY <2>2, <2>3, <2>6 DEF KnowsPet, WillShow, WillHide, Acting
    <2> QED
      BY <1>2, <2>2, <2>3, <2>4, <2>5, <2>7, ActorStepKeeps DEF at, Acting
  <1> QED
    BY <1>3, <1>4

LEMMA CheckDueKeeps ==
    ASSUME WindowInv, CheckDue
    PROVE  WindowInv'
  <1> DEFINE at == actor["main"]
             placed == [at EXCEPT !.pc = "count"]
  <1>1. WindowShape /\ IsActor(at) /\ at.pc = "due" /\ at.plan = "none"
    BY DEF WindowInv, WindowShape, CheckDue
  <1>2. PICK r \in {placed, Resting} : actor' = [actor EXCEPT !["main"] = r]
    BY DEF CheckDue
  <1>3. IsActor(placed) /\ placed.pc = "count" /\ placed.plan = "none"
    BY <1>1, MovedFields
  <1> HIDE DEF placed
  <1>6. IsActor(r) /\ r.pc \in {"count", "idle"} /\ r.plan = "none"
    BY <1>2, <1>3, RestingFields
  <1>4. /\ UNCHANGED <<published, fresh, petVisible, windowVisible, posted, budget>>
        /\ generation' \in Nat /\ sleeping' \subseteq Nat
    BY <1>1 DEF CheckDue, WindowShape
  <1>5. KnowsPet(r) /\ ~WillShow(at) /\ ~WillHide(at)
    BY <1>1, <1>6 DEF KnowsPet, WillShow, WillHide, Acting
  <1> HIDE DEF at
  <1> QED
    BY <1>1, <1>2, <1>6, <1>4, <1>5, ActorStepKeeps DEF at, Acting

\* A message is put at the end of the main thread's queue, and taken from its front.
LEMMA QueueGrows ==
    ASSUME WindowShape, NEW m \in Sent, posted' = Append(posted, m)
    PROVE  /\ posted' \in Seq(Sent) /\ Len(posted') = Len(posted) + 1
           /\ Len(posted) \in Nat /\ posted'[Len(posted) + 1] = m
           /\ \A i \in 1 .. Len(posted) : posted'[i] = posted[i]
           /\ \A i \in 1 .. Len(posted') : i \in 1 .. Len(posted) \/ i = Len(posted) + 1
  BY DEF WindowShape

LEMMA QueueShrinks ==
    ASSUME WindowShape, posted # <<>>, posted' = Tail(posted)
    PROVE  /\ posted' \in Seq(Sent) /\ Len(posted) \in Nat /\ Len(posted') = Len(posted) - 1
           /\ 1 \in 1 .. Len(posted) /\ Head(posted) = posted[1] /\ Head(posted) \in Sent
           /\ \A i \in 1 .. Len(posted') : posted'[i] = posted[i + 1] /\ i + 1 \in 1 .. Len(posted)
           /\ \A i \in 1 .. Len(posted) : i # 1 => i - 1 \in 1 .. Len(posted') /\ posted'[i - 1] = posted[i]
  BY DEF WindowShape

LEMMA PublishKeeps ==
    ASSUME WindowInv, NEW unread, Publish(unread)
    PROVE  WindowInv'
  <1>1. WindowShape /\ AsksOnce
    BY DEF WindowInv
  <1>2. /\ fresh' = TRUE /\ budget' = [budget EXCEPT !.publications = @ - 1]
        /\ UNCHANGED <<petVisible, windowVisible, scheduled, generation, sleeping, posted, actor>>
    BY DEF Publish
  <1>3. /\ budget'.crossed = budget.crossed
        /\ budget' = [publications |-> budget'.publications, toggles |-> budget'.toggles,
                      closes |-> budget'.closes, crossed |-> budget'.crossed]
    BY <1>1, <1>2 DEF WindowShape
  <1>4. fresh'
    BY <1>2
  <1>5. WindowShape' /\ AsksOnce'
    BY <1>1, <1>2, <1>3 DEF WindowShape, AsksOnce
  <1>6. ~budget'.crossed => WindowSettles'
    <2> SUFFICES ASSUME ~budget.crossed PROVE WindowSettles'
      BY <1>3
    <2>1. WindowSettles
      BY DEF WindowInv
    <2>2. KnowsPet(actor["task"])' /\ KnowsPet(actor["main"])' /\ MessagesKnowPet'
      BY <1>2, <2>1 DEF WindowSettles, KnowsPet, MessagesKnowPet
    <2>3. ~petVisible' /\ windowVisible' => WillHide(actor["main"])'
      BY <1>2, <2>1 DEF WindowSettles, WillHide
    <2> QED
      BY <1>4, <2>2, <2>3 DEF WindowSettles
  <1> QED
    BY <1>5, <1>6 DEF WindowInv

LEMMA ReadPublishedKeeps ==
    ASSUME WindowInv, ReadPublished
    PROVE  WindowInv'
  <1> DEFINE asking == [pc |-> "asked", unread |-> 0, plan |-> "none", gen |-> 0]
             r == [pc |-> "asked", unread |-> published, plan |-> "none", gen |-> 0]
             m == Message("is_visible", 0)
  <1>a. [Resting EXCEPT !.pc = "asked", !.unread = published] = r
    <2>1. [Resting EXCEPT !.pc = "asked"] = asking
      BY DEF Resting
    <2>2. [asking EXCEPT !.unread = published] = r
      OBVIOUS
    <2> QED
      BY <2>1, <2>2
  <1>1. WindowShape /\ AsksOnce /\ actor["task"].pc = "idle"
    BY DEF WindowInv, ReadPublished
  <1>2. /\ actor' = [actor EXCEPT !["task"] = r] /\ posted' = Append(posted, m)
        /\ UNCHANGED <<published, petVisible, windowVisible, scheduled, generation, sleeping, budget>>
    BY <1>a DEF ReadPublished
  <1>3. IsActor(r) /\ r.pc = "asked" /\ r.unread = published
    BY DEF IsActor
  <1>4. m \in Sent /\ m.kind = "is_visible"
    BY DEF Sent, Message
  <1> HIDE DEF r, m
  <1>5. /\ DOMAIN actor' = {"task", "main"} /\ actor'["task"] = r
        /\ actor'["main"] = actor["main"]
    BY <1>1, <1>2, ActorMoves
  <1>6. /\ posted' \in Seq(Sent) /\ Len(posted') = Len(posted) + 1
        /\ Len(posted) \in Nat /\ posted'[Len(posted) + 1] = m
        /\ \A i \in 1 .. Len(posted) : posted'[i] = posted[i]
        /\ \A i \in 1 .. Len(posted') : i \in 1 .. Len(posted) \/ i = Len(posted) + 1
    BY <1>1, <1>2, <1>4, QueueGrows
  <1>7. WindowShape'
    BY <1>1, <1>2, <1>3, <1>5, <1>6 DEF WindowShape, Acting
  <1>8. AsksOnce'
    <2>1. \A i \in 1 .. Len(posted) : posted[i].kind # "is_visible"
      BY <1>1 DEF AsksOnce
    <2> QED
      BY <1>3, <1>5, <1>6, <2>1 DEF AsksOnce
  <1>9. ~budget'.crossed => WindowSettles'
    <2> SUFFICES ASSUME ~budget.crossed PROVE WindowSettles'
      BY <1>2
    <2>1. WindowSettles
      BY DEF WindowInv
    <2>2. KnowsPet(actor["task"])' /\ KnowsPet(actor["main"])'
      BY <1>2, <1>3, <1>5, <2>1 DEF WindowSettles, KnowsPet, Acting
    <2>3. MessagesKnowPet'
      BY <1>2, <1>4, <1>6, <2>1 DEF WindowSettles, MessagesKnowPet
    <2>4. published > 0 => WillShow(r)
      BY <1>3 DEF WillShow
    <2> QED
      BY <1>2, <1>5, <2>1, <2>2, <2>3, <2>4 DEF WindowSettles, WillHide
  <1> QED
    BY <1>7, <1>8, <1>9 DEF WindowInv

LEMMA DelayElapsesKeeps ==
    ASSUME WindowInv, NEW g \in sleeping, DelayElapses(g)
    PROVE  WindowInv'
  <1> DEFINE m == Message("due", g)
  <1>1. WindowShape /\ AsksOnce /\ g \in Nat
    BY DEF WindowInv, WindowShape
  <1>2. /\ posted' = Append(posted, m) \/ posted' = posted
        /\ sleeping' \subseteq sleeping
        /\ UNCHANGED <<published, fresh, petVisible, windowVisible, scheduled, generation, actor, budget>>
    BY DEF DelayElapses
  <1>3. m \in Sent /\ m.kind = "due"
    BY <1>1 DEF Sent, Message
  <1> HIDE DEF m
  <1>4. CASE posted' = Append(posted, m)
    <2>1. /\ posted' \in Seq(Sent) /\ Len(posted') = Len(posted) + 1
          /\ Len(posted) \in Nat /\ posted'[Len(posted) + 1] = m
          /\ \A i \in 1 .. Len(posted) : posted'[i] = posted[i]
          /\ \A i \in 1 .. Len(posted') : i \in 1 .. Len(posted) \/ i = Len(posted) + 1
      BY <1>1, <1>3, <1>4, QueueGrows
    <2>2. \A i \in 1 .. Len(posted) : i \in 1 .. Len(posted')
      BY <2>1
    <2>3. WindowShape'
      BY <1>1, <1>2, <2>1 DEF WindowShape
    <2>4. AsksOnce'
      BY <1>1, <1>2, <1>3, <2>1 DEF AsksOnce
    <2>5. WindowSettles => WindowSettles'
      <3>1. MessagesKnowPet => MessagesKnowPet'
        BY <1>2, <1>3, <2>1 DEF MessagesKnowPet
      <3>2. ShowIsPosted => ShowIsPosted'
        BY <2>1, <2>2 DEF ShowIsPosted
      <3> QED
        BY <1>2, <3>1, <3>2 DEF WindowSettles, KnowsPet, WillShow, WillHide
    <2> QED
      BY <1>2, <2>3, <2>4, <2>5 DEF WindowInv
  <1>5. CASE posted' = posted
    <2>1. WindowShape' /\ AsksOnce'
      BY <1>1, <1>2, <1>5 DEF WindowShape, AsksOnce
    <2>2. WindowSettles => WindowSettles'
      BY <1>2, <1>5 DEF WindowSettles, KnowsPet, MessagesKnowPet, WillShow, WillHide, ShowIsPosted
    <2> QED
      BY <1>2, <2>1, <2>2 DEF WindowInv
  <1> QED
    BY <1>2, <1>4, <1>5

\* The task's call on the window becomes a message.
LEMMA TaskFinishKeeps ==
    ASSUME WindowInv, Finish("task")
    PROVE  WindowInv'
  <1> DEFINE at == actor["task"]
             m == Message(at.plan, 0)
  <1>1. WindowShape /\ AsksOnce /\ at.pc = "finish" /\ at.plan \in {"show", "hide"}
    BY DEF WindowInv, WindowShape, Finish, Acting
  <1>2. /\ actor' = [actor EXCEPT !["task"] = Resting] /\ posted' = Append(posted, m)
        /\ UNCHANGED <<published, fresh, petVisible, windowVisible, scheduled, generation, sleeping,
                       budget>>
    BY DEF Finish
  <1>3. m \in Sent /\ m.kind = at.plan
    BY <1>1 DEF Sent, Message
  <1> HIDE DEF m
  <1>4. /\ DOMAIN actor' = {"task", "main"} /\ actor'["task"] = Resting
        /\ actor'["main"] = actor["main"]
    BY <1>1, <1>2, ActorMoves
  <1>5. /\ posted' \in Seq(Sent) /\ Len(posted') = Len(posted) + 1
        /\ Len(posted) \in Nat /\ posted'[Len(posted) + 1] = m
        /\ \A i \in 1 .. Len(posted) : posted'[i] = posted[i]
        /\ \A i \in 1 .. Len(posted') : i \in 1 .. Len(posted) \/ i = Len(posted) + 1
    BY <1>1, <1>2, <1>3, QueueGrows
  <1>6. WindowShape'
    BY <1>1, <1>2, <1>4, <1>5, RestingFields DEF WindowShape, Acting
  <1>7. AsksOnce'
    BY <1>1, <1>3, <1>5 DEF AsksOnce
  <1>8. ~budget'.crossed => WindowSettles'
    <2> SUFFICES ASSUME ~budget.crossed PROVE WindowSettles'
      BY <1>2
    <2>1. WindowSettles
      BY DEF WindowInv
    <2>2. KnowsPet(actor["task"])' /\ KnowsPet(actor["main"])'
      BY <1>2, <1>4, <2>1, RestingFields DEF WindowSettles, KnowsPet, Acting
    <2>3. (at.plan = "show" => petVisible) /\ (at.plan = "hide" => ~petVisible)
      BY <1>1, <2>1 DEF WindowSettles, KnowsPet, Acting
    <2>4. MessagesKnowPet'
      BY <1>2, <1>3, <1>5, <2>1, <2>3 DEF WindowSettles, MessagesKnowPet
    <2>5. ShowIsPosted \/ WillShow(at) => ShowIsPosted'
      BY <1>1, <1>3, <1>5 DEF ShowIsPosted, WillShow
    <2> QED
      BY <1>2, <1>4, <2>1, <2>2, <2>4, <2>5 DEF WindowSettles, WillShow, WillHide
  <1> QED
    BY <1>6, <1>7, <1>8 DEF WindowInv

\* The main thread calls the window itself.
LEMMA MainFinishKeeps ==
    ASSUME WindowInv, Finish("main")
    PROVE  WindowInv'
  <1> DEFINE at == actor["main"]
  <1>1. WindowShape /\ AsksOnce /\ at.pc = "finish"
    BY DEF WindowInv, Finish
  <1>2. /\ actor' = [actor EXCEPT !["main"] = Resting]
        /\ UNCHANGED <<published, fresh, petVisible, scheduled, generation, sleeping, budget, posted>>
        /\ at.plan = "show" => windowVisible'
        /\ at.plan = "hide" => ~windowVisible'
        /\ at.plan \notin {"show", "hide"} => windowVisible' = windowVisible
    BY DEF Finish
  <1>3. /\ DOMAIN actor' = {"task", "main"} /\ actor'["main"] = Resting
        /\ actor'["task"] = actor["task"]
    BY <1>1, <1>2, ActorMoves
  <1>4. WindowShape' /\ AsksOnce'
    BY <1>1, <1>2, <1>3, RestingFields DEF WindowShape, AsksOnce, Acting
  <1>5. ~budget'.crossed => WindowSettles'
    <2> SUFFICES ASSUME ~budget.crossed PROVE WindowSettles'
      BY <1>2
    <2>1. WindowSettles
      BY DEF WindowInv
    <2>2. KnowsPet(actor["task"])' /\ KnowsPet(actor["main"])' /\ MessagesKnowPet'
      BY <1>2, <1>3, <2>1, RestingFields DEF WindowSettles, KnowsPet, MessagesKnowPet, Acting
    <2>3. (at.plan = "show" => petVisible) /\ (at.plan = "hide" => ~petVisible)
      BY <1>1, <2>1 DEF WindowSettles, KnowsPet, Acting
    <2>4. /\ WillShow(at) => at.plan = "show"
          /\ WillHide(at) => at.plan = "hide"
      BY <1>1 DEF WillShow, WillHide
    <2> HIDE DEF at
    <2> QED
      BY <1>2, <1>3, <2>1, <2>2, <2>3, <2>4 DEF WindowSettles, WillShow, ShowIsPosted, at
  <1> QED
    BY <1>4, <1>5 DEF WindowInv

\* The main thread runs a message: it answers the task, calls the window, or begins the
\* closure of a delayed hide.
LEMMA RunMessageKeeps ==
    ASSUME WindowInv, RunMessage
    PROVE  WindowInv'
  <1> DEFINE m == Head(posted)
             told == IF petVisible THEN "visible" ELSE "hidden"
             replied == Heading(actor["task"], "decide", told)
             dueNow == [Resting EXCEPT !.pc = "due", !.gen = m.gen]
  <1>1. WindowShape /\ AsksOnce /\ actor["main"].pc = "idle" /\ posted # <<>>
    BY DEF WindowInv, RunMessage
  <1>2. /\ posted' = Tail(posted)
        /\ UNCHANGED <<published, fresh, petVisible, scheduled, generation, sleeping, budget>>
        /\ m.kind = "show" => windowVisible'
        /\ m.kind = "hide" => ~windowVisible'
        /\ m.kind \notin {"show", "hide"} => windowVisible' = windowVisible
    BY DEF RunMessage
  <1>3. /\ m.kind = "is_visible" => actor' = [actor EXCEPT !["task"] = replied]
        /\ m.kind = "due" => actor' = [actor EXCEPT !["main"] = dueNow]
        /\ m.kind \notin {"is_visible", "due"} => actor' = actor
    BY DEF RunMessage
  <1>4. /\ posted' \in Seq(Sent) /\ Len(posted) \in Nat /\ Len(posted') = Len(posted) - 1
        /\ 1 \in 1 .. Len(posted) /\ m = posted[1] /\ m \in Sent
        /\ \A i \in 1 .. Len(posted') : posted'[i] = posted[i + 1] /\ i + 1 \in 1 .. Len(posted)
        /\ \A i \in 1 .. Len(posted) : i # 1 => i - 1 \in 1 .. Len(posted') /\ posted'[i - 1] = posted[i]
    BY <1>1, <1>2, QueueShrinks
  <1>5. IsActor(actor["task"]) /\ IsActor(actor["main"])
    BY <1>1 DEF WindowShape
  <1>6. /\ IsActor(replied) /\ replied.pc = "decide" /\ replied.plan = told
        /\ replied.unread = actor["task"].unread
    BY <1>5, HeadingFields
  <1>7. IsActor(dueNow) /\ dueNow.pc = "due" /\ dueNow.plan = "none"
    <2> DEFINE first == [Resting EXCEPT !.pc = "due"]
               gen == m.gen
    <2>1. first = [pc |-> "due", unread |-> 0, plan |-> "none", gen |-> 0]
      BY DEF Resting
    <2>2. dueNow = [first EXCEPT !.gen = gen]
      OBVIOUS
    <2> HIDE DEF first, gen, dueNow
    <2>3. dueNow = [pc |-> "due", unread |-> 0, plan |-> "none", gen |-> gen]
      BY <2>1, <2>2
    <2> QED
      BY <2>3 DEF IsActor
  <1>8. told = "visible" <=> petVisible
    OBVIOUS
  <1>9. m.kind \in {"is_visible", "show", "hide", "due"}
    BY <1>4 DEF Sent
  <1> HIDE DEF m, told, replied, dueNow
  <1>10. MessagesKnowPet => /\ MessagesKnowPet'
                            /\ (m.kind = "show" => petVisible) /\ (m.kind = "hide" => ~petVisible)
    BY <1>2, <1>4 DEF MessagesKnowPet
  <1>11. ShowIsPosted => ShowIsPosted' \/ m.kind = "show"
    BY <1>4 DEF ShowIsPosted
  <1>12. m.kind = "is_visible" => /\ actor["task"].pc = "asked"
                                  /\ \A i \in 1 .. Len(posted') : posted'[i].kind # "is_visible"
    <2> SUFFICES ASSUME m.kind = "is_visible"
                 PROVE  /\ actor["task"].pc = "asked"
                        /\ \A i \in 1 .. Len(posted') : posted'[i].kind # "is_visible"
      OBVIOUS
    <2>1. actor["task"].pc = "asked" /\ \A j \in 1 .. Len(posted) : posted[j].kind = "is_visible" => j = 1
      BY <1>1, <1>4 DEF AsksOnce
    <2>2. ASSUME NEW i \in 1 .. Len(posted') PROVE posted'[i].kind # "is_visible"
      <3>1. posted'[i] = posted[i + 1] /\ i + 1 \in 1 .. Len(posted) /\ i + 1 # 1
        BY <1>4
      <3> QED
        BY <2>1, <3>1
    <2> QED
      BY <2>1, <2>2
  <1>13. CASE m.kind = "is_visible"
    <2>1. actor' = [actor EXCEPT !["task"] = replied]
      BY <1>3, <1>13
    <2>2. /\ DOMAIN actor' = {"task", "main"} /\ actor'["task"] = replied
          /\ actor'["main"] = actor["main"]
      BY <1>1, <2>1, ActorMoves
    <2>3. WindowShape'
      BY <1>1, <1>2, <1>4, <1>6, <2>2 DEF WindowShape, Acting
    <2>4. AsksOnce'
      BY <1>12, <1>13 DEF AsksOnce
    <2>5. ~budget'.crossed => WindowSettles'
      <3> SUFFICES ASSUME ~budget.crossed PROVE WindowSettles'
        BY <1>2
      <3>1. WindowSettles
        BY DEF WindowInv
      <3>2. KnowsPet(actor["task"])' /\ KnowsPet(actor["main"])'
        BY <1>2, <1>6, <1>8, <2>2, <3>1 DEF WindowSettles, KnowsPet, Acting
      <3>3. WillShow(actor["task"]) => WillShow(replied)
        BY <1>6, <1>12, <1>13 DEF WillShow, Acting
      <3> QED
        BY <1>2, <1>10, <1>11, <1>13, <2>2, <3>1, <3>2, <3>3 DEF WindowSettles, WillHide
    <2> QED
      BY <2>3, <2>4, <2>5 DEF WindowInv
  <1>14. CASE m.kind = "due"
    <2>1. actor' = [actor EXCEPT !["main"] = dueNow]
      BY <1>3, <1>14
    <2>2. /\ DOMAIN actor' = {"task", "main"} /\ actor'["main"] = dueNow
          /\ actor'["task"] = actor["task"]
      BY <1>1, <2>1, ActorMoves
    <2>3. WindowShape'
      BY <1>1, <1>2, <1>4, <1>7, <2>2 DEF WindowShape, Acting
    <2>4. AsksOnce'
      <3> SUFFICES ASSUME NEW i \in 1 .. Len(posted'), posted'[i].kind = "is_visible"
                   PROVE  /\ actor'["task"].pc = "asked"
                          /\ \A j \in 1 .. Len(posted') : posted'[j].kind = "is_visible" => j = i
        BY DEF AsksOnce
      <3>1. posted[i + 1].kind = "is_visible" /\ i + 1 \in 1 .. Len(posted)
        BY <1>4
      <3>2. /\ actor["task"].pc = "asked"
            /\ \A j \in 1 .. Len(posted) : posted[j].kind = "is_visible" => j = i + 1
        BY <1>1, <3>1 DEF AsksOnce
      <3>3. ASSUME NEW j \in 1 .. Len(posted'), posted'[j].kind = "is_visible" PROVE j = i
        <4>1. posted[j + 1].kind = "is_visible" /\ j + 1 \in 1 .. Len(posted)
          BY <1>4, <3>3
        <4> QED
          BY <3>2, <4>1
      <3> QED
        BY <2>2, <3>2, <3>3
    <2>5. ~budget'.crossed => WindowSettles'
      <3> SUFFICES ASSUME ~budget.crossed PROVE WindowSettles'
        BY <1>2
      <3>1. WindowSettles
        BY DEF WindowInv
      <3>2. KnowsPet(actor["task"])' /\ KnowsPet(actor["main"])'
        BY <1>2, <1>7, <2>2, <3>1 DEF WindowSettles, KnowsPet, Acting
      <3>3. ~WillShow(actor["main"]) /\ ~WillHide(actor["main"])
        BY <1>1 DEF WillShow, WillHide, Acting
      <3> QED
        BY <1>2, <1>10, <1>11, <1>14, <2>2, <3>1, <3>2, <3>3 DEF WindowSettles, WillShow
    <2> QED
      BY <2>3, <2>4, <2>5 DEF WindowInv
  <1>15. CASE m.kind \in {"show", "hide"}
    <2>1. actor' = actor
      BY <1>3, <1>15
    <2>2. WindowShape' /\ AsksOnce'
      BY <1>1, <1>2, <1>4, <2>1 DEF WindowShape, AsksOnce
    <2>3. ~budget'.crossed => WindowSettles'
      <3> SUFFICES ASSUME ~budget.crossed PROVE WindowSettles'
        BY <1>2
      <3>1. WindowSettles
        BY DEF WindowInv
      <3>2. KnowsPet(actor["task"])' /\ KnowsPet(actor["main"])' /\ MessagesKnowPet'
        BY <1>2, <1>10, <2>1, <3>1 DEF WindowSettles, KnowsPet
      <3>3. CASE m.kind = "show"
        BY <1>2, <1>10, <3>1, <3>2, <3>3 DEF WindowSettles
      <3>4. CASE m.kind = "hide"
        BY <1>2, <1>10, <3>1, <3>2, <3>4 DEF WindowSettles
      <3> QED
        BY <1>15, <3>3, <3>4
    <2> QED
      BY <2>2, <2>3 DEF WindowInv
  <1> QED
    BY <1>9, <1>13, <1>14, <1>15

LEMMA HideDueKeeps ==
    ASSUME WindowInv, HideDue
    PROVE  WindowInv'
  <1> DEFINE at == actor["main"]
             r == [at EXCEPT !.pc = "swap"]
  <1>1. WindowShape /\ AsksOnce /\ at.pc = "count" /\ at.plan = "none" /\ IsActor(at)
    BY DEF WindowInv, WindowShape, HideDue
  <1>2. /\ actor' = [actor EXCEPT !["main"] = r]
        /\ windowVisible' <=> windowVisible /\ published > 0
        /\ UNCHANGED <<published, fresh, petVisible, scheduled, generation, sleeping, posted, budget>>
    BY DEF HideDue, Goto, HideUnlessUnread
  <1>3. IsActor(r) /\ r.pc = "swap" /\ r.plan = "none"
    BY <1>1, MovedFields
  <1>4. ~WillShow(at) /\ ~WillHide(at)
    BY <1>1 DEF WillShow, WillHide, Acting
  <1> HIDE DEF r
  <1>5. DOMAIN actor' = {"task", "main"} /\ actor'["main"] = r /\ actor'["task"] = actor["task"]
    BY <1>1, <1>2, ActorMoves
  <1>6. WindowShape' /\ AsksOnce'
    BY <1>1, <1>2, <1>3, <1>5 DEF WindowShape, AsksOnce, Acting
  <1>7. ~budget'.crossed => WindowSettles'
    <2> SUFFICES ASSUME ~budget.crossed PROVE WindowSettles'
      BY <1>2
    <2>1. WindowSettles
      BY DEF WindowInv
    <2>2. KnowsPet(actor["task"])' /\ KnowsPet(actor["main"])' /\ MessagesKnowPet'
      BY <1>2, <1>3, <1>5, <2>1 DEF WindowSettles, KnowsPet, MessagesKnowPet, Acting
    <2> HIDE DEF at
    <2> QED
      BY <1>2, <1>4, <1>5, <2>1, <2>2 DEF WindowSettles, WillShow, ShowIsPosted, at
  <1> QED
    BY <1>6, <1>7 DEF WindowInv

\* The user shows or hides the pet: unless this crosses the task's call, nothing is on
\* its way that knows of the pet as it was.
LEMMA ToggleKeeps ==
    ASSUME WindowInv, ShowPet \/ HidePet
    PROVE  WindowInv'
  <1> DEFINE r == IF ShowPet THEN [Resting EXCEPT !.pc = "decide", !.unread = published, !.plan = "visible"]
                  ELSE [Resting EXCEPT !.pc = "swap", !.plan = "hide"]
             crossed == Crossed
  <1>1. WindowShape /\ AsksOnce /\ actor["main"].pc = "idle"
    BY DEF WindowInv, ShowPet, HidePet
  <1>2. /\ budget' = [budget EXCEPT !.toggles = @ - 1, !.crossed = crossed]
        /\ UNCHANGED <<published, fresh, windowVisible, scheduled, generation, sleeping, posted>>
        /\ petVisible' <=> ShowPet
        /\ petVisible' <=> ~petVisible
    BY DEF ShowPet, HidePet
  <1>3. actor' = [actor EXCEPT !["main"] = r]
    BY DEF ShowPet, HidePet, SyncOnMain
  <1>4. /\ IsActor(r)
        /\ ShowPet => r.pc = "decide" /\ r.unread = published /\ r.plan = "visible"
        /\ ~ShowPet => r.pc = "swap" /\ r.plan = "hide"
    BY DEF IsActor, Resting
  <1>5. ~crossed => /\ ~budget.crossed /\ actor["task"].pc \in {"idle", "asked"}
                    /\ \A i \in 1 .. Len(posted) : posted[i].kind \notin {"show", "hide"}
    <2>1. DOMAIN posted = 1 .. Len(posted)
      BY <1>1 DEF WindowShape
    <2> QED
      BY <2>1 DEF Crossed
  <1> HIDE DEF r, crossed
  <1>6. /\ budget'.crossed = crossed
        /\ budget' = [publications |-> budget'.publications, toggles |-> budget'.toggles,
                      closes |-> budget'.closes, crossed |-> budget'.crossed]
    <2>1. budget = [publications |-> budget.publications, toggles |-> budget.toggles,
                    closes |-> budget.closes, crossed |-> budget.crossed]
      BY <1>1 DEF WindowShape
    <2>2. budget' = [publications |-> budget.publications, toggles |-> budget.toggles - 1,
                     closes |-> budget.closes, crossed |-> crossed]
      BY <1>2, <2>1
    <2> QED
      BY <2>2
  <1>7. DOMAIN actor' = {"task", "main"} /\ actor'["main"] = r /\ actor'["task"] = actor["task"]
    BY <1>1, <1>3, ActorMoves
  <1>8. WindowShape'
    BY <1>1, <1>2, <1>4, <1>6, <1>7 DEF WindowShape, Acting
  <1>9. AsksOnce'
    BY <1>1, <1>2, <1>7 DEF AsksOnce
  <1>10. ~budget'.crossed => WindowSettles'
    <2> SUFFICES ASSUME ~crossed PROVE WindowSettles'
      BY <1>6
    <2>1. KnowsPet(actor["task"])' /\ MessagesKnowPet'
      BY <1>2, <1>5, <1>7 DEF KnowsPet, MessagesKnowPet, Acting
    <2>2. KnowsPet(actor["main"])'
      BY <1>2, <1>4, <1>7 DEF KnowsPet, Acting
    <2>3. /\ petVisible' /\ published > 0 => WillShow(r)
          /\ ~petVisible' => WillHide(r)
      BY <1>2, <1>4 DEF WillShow, WillHide, Acting
    <2> QED
      BY <1>2, <1>7, <2>1, <2>2, <2>3 DEF WindowSettles
  <1> QED
    BY <1>8, <1>9, <1>10 DEF WindowInv

LEMMA CloseWindowKeeps ==
    ASSUME WindowInv, CloseWindow
    PROVE  WindowInv'
  <1> DEFINE told == IF petVisible THEN "visible" ELSE "hidden"
             r == [Resting EXCEPT !.pc = "decide", !.unread = published, !.plan = told]
  <1>1. WindowShape /\ AsksOnce /\ actor["main"].pc = "idle" /\ windowVisible
    BY DEF WindowInv, CloseWindow
  <1>2. /\ budget' = [budget EXCEPT !.closes = @ - 1] /\ actor' = [actor EXCEPT !["main"] = r]
        /\ UNCHANGED <<published, fresh, petVisible, windowVisible, scheduled, generation, sleeping,
                       posted>>
    BY DEF CloseWindow, SyncOnMain
  <1>3. told = "visible" <=> petVisible
    OBVIOUS
  <1> HIDE DEF told
  <1>4. IsActor(r) /\ r.pc = "decide" /\ r.plan = told
    <2> DEFINE first == [Resting EXCEPT !.pc = "decide"]
               second == [first EXCEPT !.unread = published]
    <2>1. first = [pc |-> "decide", unread |-> 0, plan |-> "none", gen |-> 0]
      BY DEF Resting
    <2>2. r = [second EXCEPT !.plan = told]
      OBVIOUS
    <2> HIDE DEF first, r
    <2>3. second = [pc |-> "decide", unread |-> published, plan |-> "none", gen |-> 0]
      BY <2>1
    <2> HIDE DEF second
    <2>4. r = [pc |-> "decide", unread |-> published, plan |-> told, gen |-> 0]
      BY <2>2, <2>3
    <2> QED
      BY <2>4 DEF IsActor
  <1> HIDE DEF r
  <1>5. /\ budget'.crossed = budget.crossed
        /\ budget' = [publications |-> budget'.publications, toggles |-> budget'.toggles,
                      closes |-> budget'.closes, crossed |-> budget'.crossed]
    BY <1>1, <1>2 DEF WindowShape
  <1>6. DOMAIN actor' = {"task", "main"} /\ actor'["main"] = r /\ actor'["task"] = actor["task"]
    BY <1>1, <1>2, ActorMoves
  <1>7. WindowShape' /\ AsksOnce'
    BY <1>1, <1>2, <1>4, <1>5, <1>6 DEF WindowShape, AsksOnce, Acting
  <1>8. ~budget'.crossed => WindowSettles'
    <2> SUFFICES ASSUME ~budget.crossed PROVE WindowSettles'
      BY <1>5
    <2>1. WindowSettles
      BY DEF WindowInv
    <2>2. KnowsPet(actor["task"])' /\ KnowsPet(actor["main"])' /\ MessagesKnowPet'
      BY <1>2, <1>3, <1>4, <1>6, <2>1 DEF WindowSettles, KnowsPet, MessagesKnowPet, Acting
    <2>3. WillHide(r)
      BY <1>4 DEF WillHide
    <2> QED
      BY <1>1, <1>2, <1>6, <2>1, <2>2, <2>3 DEF WindowSettles
  <1> QED
    BY <1>7, <1>8 DEF WindowInv

LEMMA WindowInitKeeps == WindowInit => WindowInv
  <1> SUFFICES ASSUME WindowInit PROVE WindowInv
    OBVIOUS
  <1> DEFINE at == [Resting EXCEPT !.pc = "decide", !.plan = "visible"]
  <1>1. /\ published = 0 /\ petVisible = TRUE /\ windowVisible = FALSE
        /\ generation = 0 /\ sleeping = {} /\ posted = <<>>
        /\ actor = [task |-> Resting, main |-> at]
        /\ budget = [publications |-> MaxPublications, toggles |-> MaxToggles, closes |-> MaxCloses,
                     crossed |-> FALSE]
    BY DEF WindowInit
  <1>2. IsActor(at) /\ at.pc = "decide" /\ at.plan = "visible"
    <2>1. at = Heading(Resting, "decide", "visible")
      BY DEF Heading
    <2> QED
      BY <2>1, RestingFields, HeadingFields
  <1> HIDE DEF at
  <1>3. DOMAIN actor = {"task", "main"} /\ actor["task"] = Resting /\ actor["main"] = at
    BY <1>1
  <1>4. /\ budget = [publications |-> budget.publications, toggles |-> budget.toggles,
                     closes |-> budget.closes, crossed |-> budget.crossed]
        /\ petVisible /\ Len(posted) = 0 /\ posted \in Seq(Sent)
    BY <1>1
  <1>5. WindowShape
    BY <1>1, <1>2, <1>3, <1>4, RestingFields DEF WindowShape, Acting
  <1>6. AsksOnce /\ MessagesKnowPet
    BY <1>4 DEF AsksOnce, MessagesKnowPet
  <1>7. KnowsPet(actor["task"]) /\ KnowsPet(actor["main"])
    BY <1>2, <1>3, <1>4, RestingFields DEF KnowsPet, Acting
  <1>8. WindowSettles
    BY <1>1, <1>4, <1>6, <1>7 DEF WindowSettles
  <1> QED
    BY <1>5, <1>6, <1>8 DEF WindowInv

LEMMA WindowNextKeeps == WindowInv /\ [WindowNext]_windowVars => WindowInv'
  <1> SUFFICES ASSUME WindowInv, [WindowNext]_windowVars PROVE WindowInv'
    OBVIOUS
  <1>1. CASE (\E unread \in 0 .. 1 : Publish(unread)) \/ ReadPublished
    BY <1>1, PublishKeeps, ReadPublishedKeeps
  <1>2. CASE \E a \in {"task", "main"} :
                Decide(a) \/ NumberHide(a) \/ SwapFlag(a) \/ Renumber(a) \/ Finish(a)
    BY <1>2, DecideKeeps, ActorKeeps, TaskFinishKeeps, MainFinishKeeps
  <1>3. CASE \E g \in sleeping : DelayElapses(g)
    BY <1>3, DelayElapsesKeeps
  <1>4. CASE RunMessage \/ CheckDue \/ HideDue
    BY <1>4, RunMessageKeeps, CheckDueKeeps, HideDueKeeps
  <1>5. CASE ShowPet \/ HidePet \/ CloseWindow
    BY <1>5, ToggleKeeps, CloseWindowKeeps
  <1>6. CASE UNCHANGED windowVars
    BY <1>6 DEF windowVars, WindowInv, WindowShape, AsksOnce, WindowSettles, KnowsPet,
                MessagesKnowPet, WillShow, WillHide, ShowIsPosted
  <1> QED
    BY <1>1, <1>2, <1>3, <1>4, <1>5, <1>6 DEF WindowNext

\* Once nothing is under way (sync_notification_window and its delayed hide, lili/src/lib.rs):
\* a card that is unread while the pet is visible is in a visible window, and no window is
\* left beside a hidden pet, whatever hides were scheduled, cancelled or due meanwhile,
\* unless a toggle of the pet crossed the update task's call.
THEOREM NoCardIsLeftHidden == WindowSpec => []CardsAreVisible
  <1>1. WindowInv => CardsAreVisible
    <2> SUFFICES ASSUME WindowInv, Settled, ~budget.crossed
                 PROVE  /\ published > 0 /\ petVisible => windowVisible
                        /\ ~petVisible => ~windowVisible
      BY DEF CardsAreVisible
    <2>1. WindowSettles /\ ~fresh /\ Len(posted) = 0
      BY DEF WindowInv, Settled
    <2>2. actor["task"].pc = "idle" /\ actor["main"].pc = "idle"
      BY DEF Settled
    <2>3. /\ ~WillShow(actor["task"]) /\ ~WillShow(actor["main"]) /\ ~WillHide(actor["main"])
          /\ ~ShowIsPosted
      BY <2>1, <2>2 DEF WillShow, WillHide, ShowIsPosted, Acting
    <2> QED
      BY <2>1, <2>3 DEF WindowSettles
  <1> QED
    BY WindowInitKeeps, WindowNextKeeps, <1>1, PTL DEF WindowSpec

-------------------------------------------------------------------------------
(***************************************************************************)
(* The part of the window that takes clicks.  Whoever wrote the region     *)
(* last did so for the cards there are, or another write is on its way.    *)
(***************************************************************************)
Mode == {"empty", "top", "bottom", "both", "reflow", "scroll"}

\* The window of the page starts at a card or at none; the rest is shape.
IsPage(p) ==
    /\ p = [cards |-> p.cards, start |-> p.start, fore |-> p.fore, target |-> p.target,
            moves |-> p.moves, moving |-> p.moving, exiting |-> p.exiting,
            reflowing |-> p.reflowing, refocus |-> p.refocus]
    /\ p.cards \subseteq Card /\ p.start \in Nat /\ p.target \in Nat \cup {NoIndex}
    /\ p.moves \in Int

CardsAreKnown == IsPage(page) /\ shown \subseteq Card /\ arrived \in Nat

IsSync(s) ==
    /\ s = [fresh |-> s.fresh,
            task |-> [pc |-> s.task.pc, count |-> s.task.count, mode |-> s.task.mode]]
    /\ s.fresh \in BOOLEAN /\ s.task.pc \in {"idle", "counted", "loaded"}
    /\ s.task.count \in Nat /\ s.task.mode \in Mode

\* The task will correct the region for the cards that are published now.
WillCorrect == sync.fresh \/ sync.task.pc # "idle"

\* What the task has counted is what is published, or it was woken again.
CountsPublished ==
    sync.task.pc # "idle" => sync.task.count = Cardinality(shown) \/ sync.fresh

\* The last report is of the page as it is; a correction that came after it was for the
\* published cards, unless there is another one to come.
LastReportCounts ==
    /\ calls # <<>> => calls[Len(calls)] = HitMode(page)
    /\ calls = <<>> =>
          \/ region = HitMode(page)
          \/ \E m \in Mode, c \in Nat :
                region = Fallback(m, c) /\ (c = Cardinality(shown) \/ WillCorrect)

RegionHolds ==
    /\ CardsAreKnown /\ calls \in Seq(Mode) /\ region \in Mode /\ IsSync(sync)
    /\ CountsPublished /\ LastReportCounts

-------------------------------------------------------------------------------
LEMMA CardsAreFinite ==
    ASSUME NEW S, S \subseteq Card
    PROVE  IsFiniteSet(S) /\ Cardinality(S) \in Nat /\ LastStart(S) \in Nat
  <1>1. IsFiniteSet(Card)
    BY CarouselAssumption, FS_Interval DEF Card
  <1>2. IsFiniteSet(S) /\ Cardinality(S) \in Nat
    BY <1>1, FS_Subset, FS_CardinalityType
  <1> QED
    BY <1>2 DEF LastStart

LEMMA IndexIsNatural ==
    ASSUME NEW S, S \subseteq Card, NEW id
    PROVE  IndexOf(id, S) \in Nat
  <1> DEFINE before == {c \in S : c < id}
  <1>1. before \subseteq Card
    OBVIOUS
  <1> QED
    BY <1>1, CardsAreFinite DEF IndexOf

LEMMA AtMostIsNatural ==
    ASSUME NEW a \in Nat, NEW b \in Nat
    PROVE  AtMost(a, b) \in Nat
  BY DEF AtMost

LEMMA AtLeastIsNatural ==
    ASSUME NEW a \in Int
    PROVE  AtLeast(a, 0) \in Nat
  BY DEF AtLeast

\* One field of the page is another value.
LEMMA PageRewritten ==
    ASSUME NEW p, IsPage(p), NEW v
    PROVE  /\ IsPage([p EXCEPT !.fore = v])
           /\ IsPage([p EXCEPT !.moving = v])
           /\ IsPage([p EXCEPT !.exiting = v])
           /\ IsPage([p EXCEPT !.reflowing = v])
           /\ IsPage([p EXCEPT !.refocus = v])
           /\ v \in Nat => IsPage([p EXCEPT !.start = v])
           /\ v \in Nat \cup {NoIndex} => IsPage([p EXCEPT !.target = v])
           /\ v \in Int => IsPage([p EXCEPT !.moves = v])
  <1> DEFINE cards == p.cards
             start == p.start
             fore == p.fore
             target == p.target
             moves == p.moves
             moving == p.moving
             exiting == p.exiting
             reflowing == p.reflowing
             refocus == p.refocus
  <1>1. p = [cards |-> cards, start |-> start, fore |-> fore, target |-> target, moves |-> moves,
             moving |-> moving, exiting |-> exiting, reflowing |-> reflowing, refocus |-> refocus]
        /\ cards \subseteq Card /\ start \in Nat /\ target \in Nat \cup {NoIndex} /\ moves \in Int
    BY DEF IsPage
  <1> HIDE DEF cards, start, fore, target, moves, moving, exiting, reflowing, refocus
  <1>2. IsPage([p EXCEPT !.fore = v])
    <2>1. [p EXCEPT !.fore = v] =
            [cards |-> cards, start |-> start, fore |-> v, target |-> target, moves |-> moves,
             moving |-> moving, exiting |-> exiting, reflowing |-> reflowing, refocus |-> refocus]
      BY <1>1
    <2> QED
      BY <1>1, <2>1 DEF IsPage
  <1>3. IsPage([p EXCEPT !.moving = v])
    <2>1. [p EXCEPT !.moving = v] =
            [cards |-> cards, start |-> start, fore |-> fore, target |-> target, moves |-> moves,
             moving |-> v, exiting |-> exiting, reflowing |-> reflowing, refocus |-> refocus]
      BY <1>1
    <2> QED
      BY <1>1, <2>1 DEF IsPage
  <1>4. IsPage([p EXCEPT !.exiting = v])
    <2>1. [p EXCEPT !.exiting = v] =
            [cards |-> cards, start |-> start, fore |-> fore, target |-> target, moves |-> moves,
             moving |-> moving, exiting |-> v, reflowing |-> reflowing, refocus |-> refocus]
      BY <1>1
    <2> QED
      BY <1>1, <2>1 DEF IsPage
  <1>5. IsPage([p EXCEPT !.reflowing = v])
    <2>1. [p EXCEPT !.reflowing = v] =
            [cards |-> cards, start |-> start, fore |-> fore, target |-> target, moves |-> moves,
             moving |-> moving, exiting |-> exiting, reflowing |-> v, refocus |-> refocus]
      BY <1>1
    <2> QED
      BY <1>1, <2>1 DEF IsPage
  <1>6. IsPage([p EXCEPT !.refocus = v])
    <2>1. [p EXCEPT !.refocus = v] =
            [cards |-> cards, start |-> start, fore |-> fore, target |-> target, moves |-> moves,
             moving |-> moving, exiting |-> exiting, reflowing |-> reflowing, refocus |-> v]
      BY <1>1
    <2> QED
      BY <1>1, <2>1 DEF IsPage
  <1>7. v \in Nat => IsPage([p EXCEPT !.start = v])
    <2>1. [p EXCEPT !.start = v] =
            [cards |-> cards, start |-> v, fore |-> fore, target |-> target, moves |-> moves,
             moving |-> moving, exiting |-> exiting, reflowing |-> reflowing, refocus |-> refocus]
      BY <1>1
    <2> QED
      BY <1>1, <2>1 DEF IsPage
  <1>8. v \in Nat \cup {NoIndex} => IsPage([p EXCEPT !.target = v])
    <2>1. [p EXCEPT !.target = v] =
            [cards |-> cards, start |-> start, fore |-> fore, target |-> v, moves |-> moves,
             moving |-> moving, exiting |-> exiting, reflowing |-> reflowing, refocus |-> refocus]
      BY <1>1
    <2> QED
      BY <1>1, <2>1 DEF IsPage
  <1>9. v \in Int => IsPage([p EXCEPT !.moves = v])
    <2>1. [p EXCEPT !.moves = v] =
            [cards |-> cards, start |-> start, fore |-> fore, target |-> target, moves |-> v,
             moving |-> moving, exiting |-> exiting, reflowing |-> reflowing, refocus |-> refocus]
      BY <1>1
    <2> QED
      BY <1>1, <2>1 DEF IsPage
  <1> QED
    BY <1>2, <1>3, <1>4, <1>5, <1>6, <1>7, <1>8, <1>9

LEMMA MovesRewritten ==
    ASSUME NEW p, IsPage(p), NEW v \in Int
    PROVE  IsPage([p EXCEPT !.moves = v])
  <1>1. v \in Int => IsPage([p EXCEPT !.moves = v])
    BY PageRewritten
  <1> QED
    BY <1>1

LEMMA ReconciledPage ==
    ASSUME NEW p, IsPage(p), NEW next, next \subseteq Card
    PROVE  IsPage(Reconciled(p, next))
  <1>1. WindowAfter(p, next) \in Nat
    <2> DEFINE gone == {c \in p.cards : next = p.cards \ {c}}
               i == IndexOf(CHOOSE c \in gone : TRUE, p.cards)
               start == AtMost(p.start, LastStart(p.cards))
    <2>1. LastStart(next) \in Nat /\ LastStart(p.cards) \in Nat /\ p.start \in Nat
      BY CardsAreFinite DEF IsPage
    <2>2. i \in Nat
      BY IndexIsNatural DEF IsPage
    <2>3. start \in Nat
      BY <2>1, AtMostIsNatural, AtLeastIsNatural
    <2> HIDE DEF i, start
    <2>4. AtLeast(start - 1, 0) \in Nat
      <3> DEFINE last == start - 1
      <3>1. last \in Int
        BY <2>3
      <3> HIDE DEF last
      <3>2. AtLeast(last, 0) \in Nat
        BY <3>1, AtLeastIsNatural
      <3> QED
        BY <3>2 DEF last
    <2> DEFINE first == IF i <= start THEN AtLeast(start - 1, 0) ELSE start
    <2>5. first \in Nat
      BY <2>3, <2>4
    <2> HIDE DEF first
    <2>6. AtMost(first, LastStart(next)) \in Nat
      BY <2>1, <2>5, AtMostIsNatural, AtLeastIsNatural
    <2>7. WindowAfter(p, next) = IF gone = {} THEN LastStart(next) ELSE AtMost(first, LastStart(next))
      BY DEF WindowAfter, first, i, start
    <2> QED
      BY <2>1, <2>6, <2>7
  <1> DEFINE start == WindowAfter(p, next)
             kept == {c \in p.cards \cap next : /\ IndexOf(c, p.cards) = p.fore
                                                /\ IndexOf(c, next) \in start .. start + 1}
             fore == IF next = {} THEN NoIndex
                     ELSE IF kept = {} THEN start
                     ELSE IndexOf(CHOOSE c \in kept : TRUE, next)
             exiting == p.exiting
             reflowing == p.reflowing /\ Cardinality(next) = 1
             refocus == p.refocus /\ next = {}
  <1>2. Reconciled(p, next) =
          [cards |-> next, start |-> start, fore |-> fore, target |-> NoIndex, moves |-> 0,
           moving |-> "no", exiting |-> exiting, reflowing |-> reflowing, refocus |-> refocus]
    BY DEF Reconciled
  <1> HIDE DEF start, kept, fore, exiting, reflowing, refocus
  <1> QED
    BY <1>1, <1>2 DEF IsPage, start

LEMMA FocusReturnedPage ==
    ASSUME NEW p, IsPage(p)
    PROVE  IsPage(FocusReturned(p))
  BY PageRewritten DEF FocusReturned

LEMMA TargetIsNatural ==
    ASSUME NEW p, IsPage(p)
    PROVE  Target(p) \in Nat
  <1> DEFINE wanted == IF p.target # NoIndex THEN p.target ELSE AtLeast(p.start + p.moves, 0)
  <1>1. LastStart(p.cards) \in Nat
    BY CardsAreFinite DEF IsPage
  <1>2. p.start + p.moves \in Int
    BY DEF IsPage
  <1>3. AtLeast(p.start + p.moves, 0) \in Nat
    BY <1>2, AtLeastIsNatural
  <1>4. wanted \in Nat
    BY <1>3 DEF IsPage
  <1>5. Target(p) = AtMost(wanted, LastStart(p.cards))
    BY DEF Target
  <1> HIDE DEF wanted
  <1> QED
    BY <1>1, <1>4, <1>5, AtMostIsNatural

LEMMA MovedPage ==
    ASSUME NEW p, IsPage(p), NEW target \in Nat
    PROVE  IsPage(MovedTo(p, target))
  <1> DEFINE behind == [p EXCEPT !.fore = p.start]
             ahead == [p EXCEPT !.fore = target]
  <1>1. IsPage(behind) /\ IsPage(ahead)
    BY PageRewritten
  <1>2. IsPage([behind EXCEPT !.start = target]) /\ IsPage([ahead EXCEPT !.start = target])
    <2> HIDE DEF behind, ahead
    <2> QED
      BY <1>1, PageRewritten
  <1>3. MovedTo(p, target) \in {p, ahead, [behind EXCEPT !.start = target], [ahead EXCEPT !.start = target]}
    BY DEF MovedTo, IsPage
  <1> QED
    BY <1>1, <1>2, <1>3

LEMMA ProcessedPage ==
    ASSUME NEW p, IsPage(p)
    PROVE  IsPage(Advanced(p)) /\ IsPage(Jumped(p)) /\ IsPage(Processed(p))
  <1> DEFINE untargeted == [p EXCEPT !.target = NoIndex]
             unmoved == [untargeted EXCEPT !.moves = 0]
             rested == [unmoved EXCEPT !.moving = "no"]
  <1>1. IsPage(untargeted)
    BY PageRewritten
  <1>2. IsPage(unmoved)
    <2> HIDE DEF untargeted
    <2>1. 0 \in Int
      OBVIOUS
    <2> QED
      BY <1>1, <2>1, MovesRewritten
  <1>3. IsPage(rested)
    <2> HIDE DEF unmoved
    <2> QED
      BY <1>2, PageRewritten
  <1>4. Target(p) \in Nat
    BY TargetIsNatural
  <1> DEFINE q == MovedTo(unmoved, Target(p))
             j == MovedTo(rested, Target(p))
             q2 == [q EXCEPT !.moving = IF q.start # p.start THEN "running" ELSE @]
  <1>5. IsPage(q) /\ IsPage(j)
    <2> HIDE DEF unmoved, rested
    <2> QED
      BY <1>2, <1>3, <1>4, MovedPage
  <1>6. Advanced(p) = p \/ Advanced(p) = q2
    BY DEF Advanced
  <1>7. Jumped(p) = j \/ Jumped(p) = [p EXCEPT !.moving = "no"]
    BY DEF Jumped
  <1> HIDE DEF q, j
  <1>8. IsPage(q2)
    BY <1>5, PageRewritten
  <1>9. IsPage([p EXCEPT !.moving = "no"])
    BY PageRewritten
  <1>10. IsPage(Advanced(p))
    BY <1>6, <1>8
  <1>11. IsPage(Jumped(p))
    BY <1>5, <1>7, <1>9
  <1> QED
    BY <1>10, <1>11 DEF Processed

LEMMA CardExitPage ==
    ASSUME NEW p, IsPage(p), NEW id
    PROVE  IsPage(CardExit(p, id))
  <1> DEFINE survives == Cardinality(p.cards) = 1 /\ \E x \in p.exiting : x.id = id /\ x.keeps
             rest == {x \in p.exiting : x.id # id}
             left == [p EXCEPT !.exiting = rest]
             flows == left.reflowing \/ (survives /\ \A x \in rest : ~x.keeps)
             q == [left EXCEPT !.reflowing = flows]
  <1>1. IsPage(left)
    BY PageRewritten
  <1>2. CardExit(p, id) = FocusReturned(q)
    BY DEF CardExit, IsPage
  <1>3. IsPage(q)
    <2> HIDE DEF left, flows
    <2> QED
      BY <1>1, PageRewritten
  <1> HIDE DEF q
  <1> QED
    BY <1>2, <1>3, FocusReturnedPage

LEMMA CarouselKeepsCards ==
    ASSUME CardsAreKnown, CarouselNext
    PROVE  CardsAreKnown'
  <1>1. CASE PageReceives
    <2> DEFINE p == Reconciled(page, shown)
    <2>1. IsPage(p)
      BY ReconciledPage DEF CardsAreKnown
    <2>2. PICK exiting : page' = FocusReturned([p EXCEPT !.exiting = exiting])
      BY <1>1 DEF PageReceives, ReceiveCards, Show, ShowOver
    <2> HIDE DEF p
    <2>3. IsPage(page')
      BY <2>1, <2>2, PageRewritten, FocusReturnedPage
    <2> QED
      BY <1>1, <2>3 DEF PageReceives, CardsAreKnown
  <1>2. ASSUME NEW id, AnimationEnd(id)
        PROVE  CardsAreKnown'
    BY <1>2, CardExitPage DEF AnimationEnd, Show, ShowOver, CardsAreKnown
  <1>3. CASE MoveIsDue
    BY <1>3, PageRewritten DEF MoveIsDue, CardsAreKnown
  <1>4. CASE TransitionEnd
    <2> DEFINE q == [page EXCEPT !.reflowing = FALSE]
               r == [q EXCEPT !.moving = "no"]
    <2>1. IsPage(q)
      BY PageRewritten DEF CardsAreKnown
    <2>2. IsPage(r)
      <3> HIDE DEF q
      <3> QED
        BY <2>1, PageRewritten
    <2>3. page' = q \/ page' = Processed(r)
      BY <1>4 DEF TransitionEnd, ShowOver, SlideFinished
    <2> HIDE DEF q, r
    <2>4. IsPage(page')
      BY <2>1, <2>2, <2>3, ProcessedPage
    <2> QED
      BY <1>4, <2>4 DEF TransitionEnd, CardsAreKnown
  <1>5. ASSUME NEW direction \in {-1, 1}, Wheel(direction)
        PROVE  CardsAreKnown'
    <2> DEFINE q == [page EXCEPT !.moves = direction]
    <2>1. IsPage(q)
      BY MovesRewritten DEF CardsAreKnown
    <2>2. page' = Processed(q)
      BY <1>5 DEF Wheel, Show, ShowOver, MovedByWheel
    <2> HIDE DEF q
    <2> QED
      BY <1>5, <2>1, <2>2, ProcessedPage DEF Wheel, CardsAreKnown
  <1>6. ASSUME NEW id \in Card, FocusCard(id)
        PROVE  CardsAreKnown'
    <2> DEFINE i == IndexOf(id, page.cards)
               target == AtMost(AtLeast(i - 1, 0), LastStart(page.cards))
               q == [page EXCEPT !.target = target]
    <2>1. i \in Nat /\ LastStart(page.cards) \in Nat
      BY IndexIsNatural, CardsAreFinite DEF CardsAreKnown, IsPage
    <2>2. page' = Processed(q)
      BY <1>6 DEF FocusCard, Show, ShowOver
    <2>3. target \in Nat
      <3> HIDE DEF i
      <3> DEFINE last == i - 1
      <3>1. last \in Int
        BY <2>1
      <3> HIDE DEF last
      <3>2. AtLeast(last, 0) \in Nat
        BY <3>1, AtLeastIsNatural
      <3>3. AtMost(AtLeast(last, 0), LastStart(page.cards)) \in Nat
        BY <2>1, <3>2, AtMostIsNatural
      <3> QED
        BY <3>3 DEF last
    <2>4. IsPage(q)
      <3> HIDE DEF target
      <3> QED
        BY <2>3, PageRewritten DEF CardsAreKnown
    <2> HIDE DEF q
    <2> QED
      BY <1>6, <2>2, <2>4, ProcessedPage DEF FocusCard, CardsAreKnown
  <1>7. CASE ReduceMotion
    <2> DEFINE j == Jumped(page)
               q == [j EXCEPT !.exiting = {}]
               r == [q EXCEPT !.reflowing = FALSE]
    <2>1. IsPage(j)
      BY ProcessedPage DEF CardsAreKnown
    <2>2. page' = FocusReturned(r)
      BY <1>7 DEF ReduceMotion, ShowOver
    <2> HIDE DEF j
    <2>3. IsPage(q)
      BY <2>1, PageRewritten
    <2> HIDE DEF q
    <2>4. IsPage(r)
      BY <2>3, PageRewritten
    <2> HIDE DEF r
    <2> QED
      BY <1>7, <2>2, <2>4, FocusReturnedPage DEF ReduceMotion, CardsAreKnown
  <1>8. ASSUME NEW id \in Card, NEW keyboard \in BOOLEAN, Dismiss(id, keyboard)
        PROVE  CardsAreKnown'
    <2> DEFINE back == keyboard /\ page.cards = {id}
    <2>1. page' = [page EXCEPT !.refocus = back]
      BY <1>8 DEF Dismiss
    <2> HIDE DEF back
    <2>2. IsPage(page')
      BY <2>1, PageRewritten DEF CardsAreKnown
    <2> QED
      BY <1>8, <2>2 DEF Dismiss, CardsAreKnown
  <1>9. ASSUME NEW id \in Card, DismissFails(id)
        PROVE  CardsAreKnown'
    <2> DEFINE back == page.refocus /\ page.cards # {id}
    <2>1. page' = [page EXCEPT !.refocus = back]
      BY <1>9 DEF DismissFails
    <2> HIDE DEF back
    <2>2. IsPage(page')
      BY <2>1, PageRewritten DEF CardsAreKnown
    <2> QED
      BY <1>9, <2>2 DEF DismissFails, CardsAreKnown
  <1>10. ASSUME NEW id \in Card, DismissSucceeds(id) \/ Withdraw(id)
         PROVE  CardsAreKnown'
    BY <1>10 DEF DismissSucceeds, Withdraw, Present, CardsAreKnown
  <1>11. ASSUME NEW replaced \in SUBSET Card, Arrive(replaced)
         PROVE  CardsAreKnown'
    <2>1. arrived + 1 \in Card
      BY <1>11, CarouselAssumption DEF Arrive, CardsAreKnown, Card
    <2> QED
      BY <1>11, <2>1 DEF Arrive, Present, CardsAreKnown
  <1> QED
    BY <1>1, <1>2, <1>3, <1>4, <1>5, <1>6, <1>7, <1>8, <1>9, <1>10, <1>11
    DEF CarouselNext, CarouselProgress

-------------------------------------------------------------------------------
\* The first of one or two cards is at the window's start.
LEMMA FirstCard ==
    ASSUME NEW S, S \subseteq Card, S # {}, Cardinality(S) <= 2
    PROVE  \E x \in S : IndexOf(x, S) = 0
  <1>1. S \subseteq Int
    BY CarouselAssumption DEF Card
  <1>2. PICK x \in S : \A c \in S : ~(c < x)
    <2> SUFFICES ASSUME \A x \in S : \E c \in S : c < x
                 PROVE  FALSE
      OBVIOUS
    <2>1. PICK a \in S : TRUE
      OBVIOUS
    <2>2. PICK b \in S : b < a
      BY <2>1
    <2>3. PICK c \in S : c < b
      BY <2>2
    <2>4. a # b /\ b # c /\ a # c
      BY <1>1, <2>2, <2>3
    <2> DEFINE one == {b}
               pair == one \cup {a}
               all == pair \cup {c}
    <2>5. IsFiniteSet(one) /\ Cardinality(one) = 1
      BY FS_Singleton
    <2>6. IsFiniteSet(pair) /\ Cardinality(pair) = 2
      <3>1. a \notin one
        BY <2>4
      <3> HIDE DEF one
      <3> QED
        BY <2>5, <3>1, FS_AddElement
    <2>7. IsFiniteSet(all) /\ Cardinality(all) = 3
      <3>1. c \notin pair
        BY <2>4
      <3> HIDE DEF pair
      <3> QED
        BY <2>6, <3>1, FS_AddElement
    <2>8. all \subseteq S
      OBVIOUS
    <2> HIDE DEF all
    <2> QED
      BY <2>7, <2>8, CardsAreFinite, FS_Subset
  <1>3. {c \in S : c < x} = {}
    BY <1>2
  <1> QED
    BY <1>3, FS_EmptySet DEF IndexOf

\* A page with cards shows the first of them, whatever is leaving or moving.
LEMMA CardsAreSeen ==
    ASSUME NEW p, IsPage(p), p.cards # {}
    PROVE  HitMode(p) # "empty"
  <1>1. Cardinality(p.cards) \in Nat /\ p.cards \subseteq Card /\ p.start \in Nat
    BY CardsAreFinite DEF IsPage
  <1>2. CASE Cardinality(p.cards) <= 2
    <2>1. PICK id \in p.cards : IndexOf(id, p.cards) = 0
      BY <1>1, <1>2, FirstCard
    <2>2. LastStart(p.cards) = 0
      BY <1>1, <1>2 DEF LastStart
    <2>3. AtMost(p.start, LastStart(p.cards)) = 0
      BY <1>1, <2>2 DEF AtMost
    <2>4. RoleAt(0, p) \in {"top", "bottom"}
      <3>1. CASE Cardinality(p.cards) = 1
        BY <2>3, <3>1 DEF RoleAt
      <3>2. CASE Cardinality(p.cards) # 1
        BY <2>3, <3>2 DEF RoleAt
      <3> QED
        BY <3>1, <3>2
    <2>5. Role(id, p) \in {"top", "bottom"}
      BY <2>1, <2>4 DEF Role
    <2>6. Slots(p) # {}
      BY <2>5 DEF Slots
    <2> QED
      BY <1>1, <1>2, <2>6 DEF HitMode
  <1>3. CASE Cardinality(p.cards) > 2
    BY <1>3 DEF HitMode
  <1> QED
    BY <1>1, <1>2, <1>3

LEMMA ModesCoverSlots ==
    ASSUME NEW p
    PROVE  HitMode(p) \in Mode /\ Slots(p) \subseteq Covers(HitMode(p))
  <1>1. Slots(p) \subseteq {"top", "bottom"}
    BY DEF Slots
  <1>2. HitMode(p) \in Mode
    BY DEF HitMode, Mode
  <1>3. \/ HitMode(p) \in {"reflow", "scroll", "both"}
        \/ HitMode(p) = "empty" /\ Slots(p) = {}
        \/ HitMode(p) = "top" /\ Slots(p) = {"top"}
        \/ HitMode(p) = "bottom" /\ Slots(p) = {"bottom"}
    BY DEF HitMode
  <1> QED
    BY <1>1, <1>2, <1>3 DEF Covers

LEMMA CorrectionCovers ==
    ASSUME NEW m \in Mode, NEW c \in Nat
    PROVE  /\ Fallback(m, c) \in Mode
           /\ c # 0 => Covers(Fallback(m, c)) # {}
           /\ c > 1 => Covers(Fallback(m, c)) = {"top", "bottom"}
  <1>1. Fallback(m, c) \in Mode /\ (c = 1 => Fallback(m, c) \in {"top", "bottom", "both", "reflow"})
        /\ (c > 1 => Fallback(m, c) \in {"both", "scroll"})
    BY DEF Fallback, Mode
  <1> QED
    BY <1>1 DEF Covers

LEMMA StepsKeepReports ==
    ASSUME RegionHolds, PageStep
    PROVE  RegionHolds'
  <1> DEFINE mode == HitMode(page)
             next == HitMode(page')
  <1>1. CardsAreKnown'
    BY CarouselKeepsCards DEF PageStep, Reporting, RegionHolds
  <1>2. next \in Mode
    BY ModesCoverSlots
  <1>3. /\ calls' = IF next = mode THEN calls ELSE Append(calls, next)
        /\ sync' = [sync EXCEPT !.fresh = @ \/ shown' # shown] /\ region' = region
    BY DEF PageStep, Reporting
  <1>4. calls \in Seq(Mode) /\ region \in Mode /\ IsSync(sync)
    BY DEF RegionHolds
  <1>5. /\ IsSync(sync') /\ sync'.task = sync.task /\ (sync.fresh => sync'.fresh)
        /\ shown' # shown => sync'.fresh
    <2> DEFINE woken == sync.fresh \/ shown' # shown
               pc == sync.task.pc
               count == sync.task.count
               last == sync.task.mode
               task == [pc |-> pc, count |-> count, mode |-> last]
    <2>1. /\ sync = [fresh |-> sync.fresh, task |-> task]
          /\ pc \in {"idle", "counted", "loaded"} /\ count \in Nat /\ last \in Mode
      BY <1>4 DEF IsSync
    <2>2. sync' = [sync EXCEPT !.fresh = woken]
      BY <1>3
    <2>3. woken \in BOOLEAN /\ (sync.fresh => woken) /\ (shown' # shown => woken)
      OBVIOUS
    <2> HIDE DEF woken, pc, count, last
    <2>4. sync' = [fresh |-> woken, task |-> task] /\ sync.task = task
      BY <2>1, <2>2
    <2>5. sync'.fresh = woken /\ sync'.task = task
      BY <2>4
    <2>6. task.pc = pc /\ task.count = count /\ task.mode = last
      OBVIOUS
    <2>7. IsSync(sync')
      BY <2>1, <2>3, <2>4, <2>5, <2>6 DEF IsSync
    <2> QED
      BY <2>3, <2>4, <2>5, <2>7
  <1>6. CountsPublished'
    BY <1>5 DEF RegionHolds, CountsPublished
  <1>7. WillCorrect => WillCorrect'
    BY <1>5 DEF WillCorrect
  <1> HIDE DEF mode, next
  <1>8. CASE next = mode
    <2>1. LastReportCounts'
      BY <1>3, <1>5, <1>7, <1>8 DEF RegionHolds, LastReportCounts, WillCorrect, mode, next
    <2> QED
      BY <1>1, <1>3, <1>4, <1>5, <1>6, <1>8, <2>1 DEF RegionHolds
  <1>9. CASE next # mode
    <2>1. calls' = Append(calls, next)
      BY <1>3, <1>9
    <2>2. calls' \in Seq(Mode) /\ calls' # <<>> /\ calls'[Len(calls')] = next
      BY <1>2, <1>4, <2>1
    <2>3. LastReportCounts'
      BY <2>2 DEF LastReportCounts, next
    <2> QED
      BY <1>1, <1>3, <1>4, <1>5, <1>6, <2>2, <2>3 DEF RegionHolds
  <1> QED
    BY <1>8, <1>9

LEMMA TaskKeepsReports ==
    ASSUME RegionHolds, ReadCount \/ LoadRegion \/ StoreRegion
    PROVE  RegionHolds'
  <1> DEFINE woken == sync.fresh
             pc == sync.task.pc
             count == sync.task.count
             mode == sync.task.mode
             task == [pc |-> pc, count |-> count, mode |-> mode]
             size == Cardinality(shown)
  <1>1. /\ sync = [fresh |-> woken, task |-> task] /\ woken \in BOOLEAN
        /\ pc \in {"idle", "counted", "loaded"} /\ count \in Nat /\ mode \in Mode
        /\ pc # "idle" => count = size \/ woken
    BY DEF RegionHolds, IsSync, CountsPublished
  <1>2. CardsAreKnown /\ calls \in Seq(Mode) /\ region \in Mode /\ size \in Nat
    BY CardsAreFinite DEF RegionHolds, CardsAreKnown
  <1>3. CardsAreKnown' /\ UNCHANGED <<calls, page, shown>>
    BY <1>2 DEF ReadCount, LoadRegion, StoreRegion, carouselVars, CardsAreKnown
  <1> HIDE DEF woken, pc, count, mode, size
  <1>4. HitMode(page') = HitMode(page)
    BY <1>3
  <1>5. CASE ReadCount
    <2> DEFINE no == FALSE
               empty == "empty"
               none == 0
               counting == "counted"
               counted == [pc |-> counting, count |-> none, mode |-> empty]
               read == [pc |-> counting, count |-> size, mode |-> empty]
    <2>1. Asleep = [pc |-> "idle", count |-> none, mode |-> empty]
      BY DEF Asleep
    <2>2. sync' = [fresh |-> no, task |-> [Asleep EXCEPT !.pc = counting, !.count = size]]
          /\ UNCHANGED region
      BY <1>5 DEF ReadCount, size
    <2>3. no \in BOOLEAN /\ counting \in {"idle", "counted", "loaded"} /\ empty \in Mode
          /\ counting # "idle"
      BY DEF Mode
    <2> HIDE DEF no, empty, none, counting
    <2>4. [Asleep EXCEPT !.pc = counting] = counted
      BY <2>1
    <2>5. [counted EXCEPT !.count = size] = read
      OBVIOUS
    <2> HIDE DEF counted
    <2>6. sync' = [fresh |-> no, task |-> read]
      BY <2>2, <2>4, <2>5
    <2>7. sync'.task.pc = counting /\ sync'.task.count = size /\ sync'.task.mode = empty
      BY <2>6
    <2>8. IsSync(sync')
      BY <1>2, <2>3, <2>6, <2>7 DEF IsSync
    <2>9. CountsPublished' /\ WillCorrect'
      BY <1>3, <2>3, <2>7 DEF CountsPublished, WillCorrect, size
    <2>10. LastReportCounts'
      BY <1>3, <1>4, <2>2, <2>9 DEF LastReportCounts, RegionHolds
    <2> QED
      BY <1>2, <1>3, <2>2, <2>8, <2>9, <2>10 DEF RegionHolds
  <1>6. CASE LoadRegion
    <2> DEFINE loading == "loaded"
               loaded == [pc |-> loading, count |-> count, mode |-> mode]
               read == [pc |-> loading, count |-> count, mode |-> region]
               begun == [fresh |-> woken, task |-> loaded]
    <2>1. pc = "counted" /\ UNCHANGED region
          /\ sync' = [sync EXCEPT !.task.pc = loading, !.task.mode = region]
      BY <1>6 DEF LoadRegion, pc
    <2>2. loading \in {"idle", "counted", "loaded"} /\ loading # "idle" /\ pc # "idle"
      BY <2>1
    <2> HIDE DEF loading
    <2>3. [sync EXCEPT !.task.pc = loading] = begun
      BY <1>1
    <2>4. [begun EXCEPT !.task.mode = region] = [fresh |-> woken, task |-> read]
      OBVIOUS
    <2> HIDE DEF begun
    <2>5. sync' = [fresh |-> woken, task |-> read]
      BY <2>1, <2>3, <2>4
    <2>6. sync'.fresh = woken /\ sync'.task.pc = loading /\ sync'.task.count = count
          /\ sync'.task.mode = region
      BY <2>5
    <2>7. IsSync(sync')
      BY <1>1, <1>2, <2>2, <2>5, <2>6 DEF IsSync
    <2>8. CountsPublished' /\ WillCorrect'
      BY <1>1, <1>3, <2>2, <2>6 DEF CountsPublished, WillCorrect, size
    <2>9. LastReportCounts'
      BY <1>3, <1>4, <2>1, <2>8 DEF LastReportCounts, RegionHolds
    <2> QED
      BY <1>2, <1>3, <2>1, <2>7, <2>8, <2>9 DEF RegionHolds
  <1>7. CASE StoreRegion
    <2> DEFINE idle == "idle"
               empty == "empty"
               none == 0
               rest == [pc |-> idle, count |-> none, mode |-> empty]
    <2>1. pc = "loaded" /\ region' = Fallback(mode, count) /\ sync' = [sync EXCEPT !.task = rest]
      BY <1>7 DEF StoreRegion, pc, mode, count, Asleep
    <2>2. idle = "idle" /\ idle \in {"idle", "counted", "loaded"} /\ none \in Nat /\ empty \in Mode
      BY DEF Mode
    <2> HIDE DEF idle, none, empty
    <2>3. sync' = [fresh |-> woken, task |-> rest]
      BY <1>1, <2>1
    <2>4. sync'.fresh = woken /\ sync'.task.pc = idle /\ sync'.task.count = none
          /\ sync'.task.mode = empty
      BY <2>3
    <2>5. IsSync(sync')
      BY <1>1, <2>2, <2>3, <2>4 DEF IsSync
    <2>6. CountsPublished'
      BY <2>2, <2>4 DEF CountsPublished
    <2>7. region' \in Mode
      BY <1>1, <2>1, CorrectionCovers
    <2>8. count = size \/ woken
      BY <1>1, <2>1
    <2>9. size' = size
      BY <1>3 DEF size
    <2>10. LastReportCounts'
      <3>1. \E m \in Mode, c \in Nat :
               region' = Fallback(m, c) /\ (c = size \/ WillCorrect')
        BY <1>1, <2>1, <2>4, <2>8 DEF WillCorrect
      <3>2. calls' # <<>> => calls'[Len(calls')] = HitMode(page')
        BY <1>3, <1>4 DEF RegionHolds, LastReportCounts
      <3> QED
        BY <1>3, <3>1, <3>2 DEF LastReportCounts, size
    <2> QED
      BY <1>2, <1>3, <2>5, <2>6, <2>7, <2>10 DEF RegionHolds
  <1> QED
    BY <1>5, <1>6, <1>7

LEMMA SettingKeepsReports ==
    ASSUME RegionHolds, SetRegion
    PROVE  RegionHolds'
  <1>1. /\ calls # <<>> /\ region' = Head(calls) /\ calls' = Tail(calls)
        /\ UNCHANGED <<page, shown, arrived, sync>>
    BY DEF SetRegion, carouselVars
  <1>2. calls \in Seq(Mode) /\ calls[Len(calls)] = HitMode(page)
    BY <1>1 DEF RegionHolds, LastReportCounts
  <1>3. /\ region' \in Mode /\ calls' \in Seq(Mode) /\ region' = calls[1]
        /\ Len(calls') = Len(calls) - 1 /\ Len(calls) \in Nat /\ Len(calls) > 0
        /\ \A i \in 1 .. Len(calls') : calls'[i] = calls[i + 1]
    BY <1>1, <1>2
  <1>4. calls' = <<>> => region' = HitMode(page)
    <2>1. calls' = <<>> => Len(calls) = 1
      BY <1>3
    <2> QED
      BY <1>2, <1>3, <2>1
  <1>5. calls' # <<>> => calls'[Len(calls')] = HitMode(page)
    <2>1. calls' # <<>> => Len(calls') \in 1 .. Len(calls')
      BY <1>3
    <2> QED
      BY <1>2, <1>3, <2>1
  <1>6. HitMode(page') = HitMode(page)
    BY <1>1
  <1>7. LastReportCounts'
    BY <1>4, <1>5, <1>6 DEF LastReportCounts
  <1> QED
    BY <1>1, <1>3, <1>7 DEF RegionHolds, CardsAreKnown, CountsPublished

\* When nothing is under way, a window with cards takes clicks, and one with several takes them
\* wherever a card is: for any cards that come, go, leave and move, and any interleaving of the
\* page's reports with the task's load and store (set_notification_hit_region,
\* reconcile_hit_region).
THEOREM CardsAlwaysTakeClicks == RegionSpec => []CardsTakeClicks
  <1>1. RegionInit => RegionHolds
    <2> SUFFICES ASSUME RegionInit
                 PROVE  RegionHolds
      OBVIOUS
    <2>1. PICK n \in 0 .. MaxCards :
             /\ arrived = n /\ shown = 1 .. n
             /\ page = [cards |-> 1 .. n, start |-> LastStart(1 .. n),
                        fore |-> IF n = 0 THEN NoIndex ELSE LastStart(1 .. n),
                        target |-> NoIndex, moves |-> 0, moving |-> "no",
                        exiting |-> {}, reflowing |-> FALSE, refocus |-> FALSE]
      BY DEF RegionInit, CarouselInit
    <2>2. n \in Nat /\ shown \subseteq Card
      BY <2>1, CarouselAssumption DEF Card
    <2>3. IsPage(page)
      <3> DEFINE cards == 1 .. n
                 start == LastStart(cards)
                 fore == IF n = 0 THEN NoIndex ELSE start
                 nobody == {}
                 no == FALSE
      <3>1. page = [cards |-> cards, start |-> start, fore |-> fore, target |-> NoIndex,
                    moves |-> 0, moving |-> "no", exiting |-> nobody, reflowing |-> no,
                    refocus |-> no]
        BY <2>1
      <3>2. cards \subseteq Card /\ start \in Nat
        BY <2>1, <2>2, CardsAreFinite
      <3> HIDE DEF cards, start, fore, nobody, no
      <3> QED
        BY <3>1, <3>2 DEF IsPage
    <2>4. CardsAreKnown
      BY <2>1, <2>2, <2>3 DEF CardsAreKnown
    <2> DEFINE mode == HitMode(page)
    <2>5. mode \in Mode
      BY ModesCoverSlots
    <2>6. calls = <<mode>> /\ region = "empty" /\ sync = [fresh |-> FALSE, task |-> Asleep]
      BY DEF RegionInit, ReportsInit
    <2>7. IsSync(sync) /\ CountsPublished
      <3> DEFINE no == FALSE
      <3>1. sync = [fresh |-> no, task |-> [pc |-> "idle", count |-> 0, mode |-> "empty"]]
        BY <2>6 DEF Asleep
      <3>2. no \in BOOLEAN
        OBVIOUS
      <3> HIDE DEF no
      <3>3. sync.fresh = no /\ sync.task.pc = "idle" /\ sync.task.count = 0 /\ sync.task.mode = "empty"
        BY <3>1
      <3> QED
        BY <3>1, <3>2, <3>3 DEF IsSync, CountsPublished, Mode
    <2> HIDE DEF mode
    <2>8. calls \in Seq(Mode) /\ calls # <<>> /\ calls[Len(calls)] = mode
      BY <2>5, <2>6
    <2> QED
      BY <2>4, <2>6, <2>7, <2>8 DEF RegionHolds, LastReportCounts, Mode, mode
  <1>2. RegionHolds /\ [RegionNext]_<<carouselVars, regionVars>> => RegionHolds'
    <2>1. ASSUME RegionHolds, UNCHANGED <<carouselVars, regionVars>>
          PROVE  RegionHolds'
      <3>1. UNCHANGED <<page, shown, arrived, calls, region, sync>>
        BY <2>1 DEF carouselVars, regionVars
      <3>2. HitMode(page') = HitMode(page)
        BY <3>1
      <3>3. LastReportCounts'
        BY <2>1, <3>1, <3>2 DEF RegionHolds, LastReportCounts, WillCorrect
      <3> QED
        BY <2>1, <3>1, <3>3 DEF RegionHolds, CardsAreKnown, CountsPublished
    <2> QED
      BY <2>1, StepsKeepReports, TaskKeepsReports, SettingKeepsReports DEF RegionNext
  <1>3. RegionHolds => CardsTakeClicks
    <2> SUFFICES ASSUME RegionHolds, Quiet, page.cards # {}
                 PROVE  /\ Covers(region) # {}
                        /\ Cardinality(page.cards) > 1 => Slots(page) \subseteq Covers(region)
      BY DEF CardsTakeClicks
    <2>1. page.cards = shown /\ calls = <<>> /\ ~WillCorrect /\ IsPage(page)
      <3>1. sync = [fresh |-> FALSE, task |-> [pc |-> "idle", count |-> 0, mode |-> "empty"]]
        BY DEF Quiet, Asleep
      <3>2. ~sync.fresh /\ sync.task.pc = "idle"
        BY <3>1
      <3> QED
        BY <3>2 DEF Quiet, WillCorrect, RegionHolds, CardsAreKnown
    <2>2. Cardinality(shown) \in Nat /\ Cardinality(shown) # 0
      <3>1. IsFiniteSet(shown) /\ Cardinality(shown) \in Nat
        BY CardsAreFinite DEF RegionHolds, CardsAreKnown
      <3> QED
        BY <2>1, <3>1, FS_EmptySet
    <2>3. CASE region = HitMode(page)
      <3>1. region \in Mode /\ region # "empty" /\ Slots(page) \subseteq Covers(region)
        BY <2>1, <2>3, CardsAreSeen, ModesCoverSlots
      <3> QED
        BY <3>1 DEF Covers, Mode
    <2>4. ASSUME NEW m \in Mode, region = Fallback(m, Cardinality(shown))
          PROVE  /\ Covers(region) # {}
                 /\ Cardinality(page.cards) > 1 => Slots(page) \subseteq Covers(region)
      BY <2>1, <2>2, <2>4, CorrectionCovers DEF Slots
    <2> QED
      BY <2>1, <2>3, <2>4 DEF RegionHolds, LastReportCounts
  <1> QED
    BY <1>1, <1>2, <1>3, PTL DEF RegionSpec

-------------------------------------------------------------------------------
(***************************************************************************)
(* Clicks on the pet.  A click is counted when it is released; each one is *)
(* pending, taken or withdrawn, but for those the clock came too late for. *)
(***************************************************************************)
Counted ==
    answered.single + 2 * answered.double + answered.withdrawn + answered.lost
        + (IF pending # 0 THEN 1 ELSE 0)

IsAnswered(a) ==
    /\ a = [released |-> a.released, withdrawn |-> a.withdrawn, lost |-> a.lost,
            single |-> a.single, double |-> a.double]
    /\ a.released \in Nat /\ a.withdrawn \in Nat /\ a.lost \in Nat
    /\ a.single \in Nat /\ a.double \in Nat

\* The clock of the preview is the one that polls, so a pending click is never late there.
PolledInTime ==
    /\ surface \in {"pet", "preview"} /\ moment \in Nat \ {0} /\ pending \in Nat
    /\ pending <= moment
    /\ surface = "preview" /\ pending # 0 => moment - pending <= DoubleClickDelay

ClicksAreCounted ==
    /\ IsAnswered(answered) /\ missed \in BOOLEAN
    /\ missed => Counted < answered.released
    /\ ~missed => Counted = answered.released
    /\ IF surface = "preview" THEN ~missed ELSE answered.lost = 0

GestureIsKnown ==
    /\ pointer = [pressed |-> pointer.pressed, dragging |-> pointer.dragging]
    /\ pointer.dragging \in BOOLEAN
    /\ gesture = [presses |-> gesture.presses, lifecycles |-> gesture.lifecycles,
                  far |-> gesture.far]
    /\ gesture.far \in BOOLEAN
    /\ pointer.pressed => pointer.dragging = gesture.far

ClickInv == PolledInTime /\ ClicksAreCounted /\ GestureIsKnown

-------------------------------------------------------------------------------
\* What a step does to the clicks: nothing, or the pending one is withdrawn.
Withdraws ==
    \/ UNCHANGED <<pending, answered>>
    \/ /\ pending # 0 /\ pending' = 0
       /\ answered' = [answered EXCEPT !.withdrawn = @ + 1]

LEMMA WithdrawingKeeps ==
    ASSUME ClickInv, Withdraws, UNCHANGED <<surface, moment, missed>>
    PROVE  PolledInTime' /\ ClicksAreCounted'
  <1>1. CASE UNCHANGED <<pending, answered>>
    BY <1>1 DEF ClickInv, PolledInTime, ClicksAreCounted, Counted
  <1>2. CASE /\ pending # 0 /\ pending' = 0
             /\ answered' = [answered EXCEPT !.withdrawn = @ + 1]
    <2>1. PolledInTime'
      BY <1>2 DEF ClickInv, PolledInTime
    <2>2. /\ IsAnswered(answered') /\ answered'.released = answered.released
          /\ answered'.withdrawn = answered.withdrawn + 1 /\ answered'.lost = answered.lost
          /\ answered'.single = answered.single /\ answered'.double = answered.double
      BY <1>2 DEF ClickInv, ClicksAreCounted, IsAnswered
    <2>3. Counted' = Counted
      BY <1>2, <2>2 DEF Counted, ClickInv, ClicksAreCounted, IsAnswered
    <2> QED
      BY <2>1, <2>2, <2>3 DEF ClickInv, ClicksAreCounted
  <1> QED
    BY <1>1, <1>2 DEF Withdraws

LEMMA ClickingKeeps ==
    ASSUME ClickInv, Clicked, UNCHANGED <<surface, moment>>
    PROVE  PolledInTime' /\ ClicksAreCounted'
  <1>1. CASE pending # 0 /\ moment - pending <= DoubleClickDelay
    <2>1. pending' = 0 /\ missed' = missed
          /\ answered' = [answered EXCEPT !.released = @ + 1, !.double = @ + 1]
      BY <1>1 DEF Clicked
    <2>2. /\ IsAnswered(answered') /\ answered'.released = answered.released + 1
          /\ answered'.double = answered.double + 1
          /\ answered'.single = answered.single /\ answered'.withdrawn = answered.withdrawn
          /\ answered'.lost = answered.lost
      <3> DEFINE released == answered.released
                 withdrawn == answered.withdrawn
                 lost == answered.lost
                 single == answered.single
                 double == answered.double
                 one == released + 1
                 two == double + 1
                 counted == [released |-> one, withdrawn |-> withdrawn, lost |-> lost,
                             single |-> single, double |-> double]
      <3>1. /\ answered = [released |-> released, withdrawn |-> withdrawn, lost |-> lost,
                           single |-> single, double |-> double]
            /\ one \in Nat /\ two \in Nat /\ withdrawn \in Nat /\ lost \in Nat /\ single \in Nat
        BY DEF ClickInv, ClicksAreCounted, IsAnswered
      <3> HIDE DEF released, withdrawn, lost, single, double, one, two
      <3>2. [answered EXCEPT !.released = one] = counted
        BY <3>1
      <3>3. answered' = [[answered EXCEPT !.released = one] EXCEPT !.double = two]
        BY <2>1 DEF one, two, released, double
      <3>4. answered' = [released |-> one, withdrawn |-> withdrawn, lost |-> lost,
                         single |-> single, double |-> two]
        BY <3>2, <3>3
      <3> QED
        BY <3>1, <3>4 DEF IsAnswered, released, withdrawn, lost, single, double, one, two
    <2>3. Counted' = Counted + 1 /\ Counted \in Nat
      BY <1>1, <2>1, <2>2 DEF Counted, ClickInv, ClicksAreCounted, IsAnswered
    <2>4. PolledInTime'
      BY <2>1 DEF ClickInv, PolledInTime
    <2> QED
      BY <2>1, <2>2, <2>3, <2>4 DEF ClickInv, ClicksAreCounted, IsAnswered
  <1>2. CASE ~(pending # 0 /\ moment - pending <= DoubleClickDelay)
    <2>1. pending' = moment /\ missed' = (missed \/ pending # 0)
          /\ answered' = [answered EXCEPT !.released = @ + 1]
      BY <1>2 DEF Clicked
    <2>2. /\ IsAnswered(answered') /\ answered'.released = answered.released + 1
          /\ answered'.double = answered.double
          /\ answered'.single = answered.single /\ answered'.withdrawn = answered.withdrawn
          /\ answered'.lost = answered.lost
      BY <2>1 DEF ClickInv, ClicksAreCounted, IsAnswered
    <2>3. Counted \in Nat /\ Counted' = IF pending = 0 THEN Counted + 1 ELSE Counted
      BY <2>1, <2>2 DEF Counted, ClickInv, ClicksAreCounted, IsAnswered, PolledInTime
    <2>4. PolledInTime'
      BY <2>1, InteractionAssumption DEF ClickInv, PolledInTime
    <2>5. surface = "preview" => pending = 0
      BY <1>2 DEF ClickInv, PolledInTime
    <2>6. missed' \in BOOLEAN /\ (missed' <=> missed \/ pending # 0)
      BY <2>1
    <2>7. answered.released \in Nat /\ (missed => Counted < answered.released)
          /\ (~missed => Counted = answered.released)
          /\ IF surface = "preview" THEN ~missed ELSE answered.lost = 0
      BY DEF ClickInv, ClicksAreCounted, IsAnswered
    <2>8. (missed' => Counted' < answered'.released) /\ (~missed' => Counted' = answered'.released)
      BY <2>2, <2>3, <2>6, <2>7
    <2> QED
      BY <2>2, <2>4, <2>5, <2>6, <2>7, <2>8 DEF ClicksAreCounted
  <1> QED
    BY <1>1, <1>2

LEMMA PollingKeeps ==
    ASSUME ClickInv, NEW at \in 1 .. MaxTime, Poll(at)
    PROVE  PolledInTime' /\ ClicksAreCounted'
  <1>1. moment' = at /\ surface' = surface /\ missed' = missed /\ moment \in Nat \ {0}
        /\ at = IF surface = "pet" THEN moment ELSE moment + 1
    BY DEF Poll, ClickInv, PolledInTime
  <1>2. CASE Due(at)
    <2>1. pending # 0 /\ pending' = 0 /\ answered' = [answered EXCEPT !.single = @ + 1]
      BY <1>2 DEF Poll, Due
    <2>2. PolledInTime'
      BY <1>1, <2>1 DEF ClickInv, PolledInTime
    <2>3. /\ IsAnswered(answered') /\ answered'.released = answered.released
          /\ answered'.single = answered.single + 1
          /\ answered'.withdrawn = answered.withdrawn /\ answered'.double = answered.double
          /\ answered'.lost = answered.lost
      BY <2>1 DEF ClickInv, ClicksAreCounted, IsAnswered
    <2>4. Counted' = Counted
      BY <2>1, <2>3 DEF Counted, ClickInv, ClicksAreCounted, IsAnswered
    <2> QED
      BY <1>1, <2>2, <2>3, <2>4 DEF ClickInv, ClicksAreCounted
  <1>3. CASE ~Due(at)
    <2>1. UNCHANGED <<pending, answered>>
      BY <1>3 DEF Poll
    <2>2. pending # 0 => at - pending <= DoubleClickDelay
      BY <1>1, <1>3, InteractionAssumption DEF Due, ClickInv, PolledInTime
    <2>3. PolledInTime'
      BY <1>1, <2>1, <2>2 DEF ClickInv, PolledInTime
    <2> QED
      BY <1>1, <2>1, <2>3 DEF ClickInv, ClicksAreCounted, Counted
  <1> QED
    BY <1>2, <1>3

LEMMA MovingKeeps ==
    ASSUME ClickInv, NEW far \in BOOLEAN, NEW direction, NEW slow \in BOOLEAN, Move(far, direction, slow)
    PROVE  GestureIsKnown'
  <1> DEFINE p == pointer.pressed
             d == pointer.dragging
             f == gesture.far
             dragging == d \/ far
             went == f \/ far
  <1>1. /\ pointer = [pressed |-> p, dragging |-> d] /\ d \in BOOLEAN /\ f \in BOOLEAN
        /\ gesture = [presses |-> gesture.presses, lifecycles |-> gesture.lifecycles, far |-> f]
        /\ p /\ d = f
    BY DEF ClickInv, GestureIsKnown, Move
  <1>2. pointer' = [pointer EXCEPT !.dragging = dragging] /\ gesture' = [gesture EXCEPT !.far = went]
    BY DEF Move, Dragging
  <1>3. dragging = went /\ dragging \in BOOLEAN /\ went \in BOOLEAN
    BY <1>1
  <1> HIDE DEF p, d, f, dragging, went
  <1>4. pointer' = [pressed |-> p, dragging |-> dragging]
        /\ gesture' = [presses |-> gesture.presses, lifecycles |-> gesture.lifecycles, far |-> went]
    BY <1>1, <1>2
  <1> QED
    BY <1>3, <1>4 DEF GestureIsKnown

LEMMA ResettingKeeps ==
    ASSUME ClickInv, Reset
    PROVE  ClickInv'
  <1>1. /\ surface = "preview" /\ surface' = surface /\ moment' = 1 /\ pending' = 0
        /\ missed' = missed /\ gesture' = gesture /\ pointer' = Released
    BY DEF Reset
  <1>2. PolledInTime'
    BY <1>1 DEF ClickInv, PolledInTime
  <1>3. GestureIsKnown'
    BY <1>1 DEF ClickInv, GestureIsKnown, Released
  <1>4. /\ IsAnswered(answered') /\ answered'.released = answered.released
        /\ answered'.single = answered.single /\ answered'.double = answered.double
        /\ answered'.withdrawn = answered.withdrawn
        /\ answered'.lost = answered.lost + (IF pending # 0 THEN 1 ELSE 0)
    BY DEF Reset, ClickInv, ClicksAreCounted, IsAnswered
  <1>5. Counted' = Counted
    BY <1>1, <1>4 DEF Counted, ClickInv, ClicksAreCounted, IsAnswered
  <1> QED
    BY <1>1, <1>2, <1>3, <1>4, <1>5 DEF ClickInv, ClicksAreCounted

\* Every click that was no drag is answered once, alone or with another one, for any delays and
\* any interleaving of gestures, keys, presentations and the clock: the ones that are not
\* accounted for were followed by another before the clock came (ClickDisambiguator::release,
\* poll), which cannot happen in the preview, or lost to a new controller of the preview
\* (select, select_sprite, restart), whose clock starts again without them; and a gesture that
\* went far stays a drag (PointerTracker::move_to).
THEOREM ClicksAreAnswered == InteractionSpec => []ClicksAnswered
  <1>1. InteractionInit => ClickInv
    <2> SUFFICES ASSUME InteractionInit
                 PROVE  ClickInv
      OBVIOUS
    <2>1. PolledInTime
      BY DEF InteractionInit, PolledInTime
    <2>2. ClicksAreCounted
      <3>1. /\ answered = [released |-> 0, withdrawn |-> 0, lost |-> 0, single |-> 0, double |-> 0]
            /\ pending = 0 /\ missed = FALSE
        BY DEF InteractionInit
      <3>2. IsAnswered(answered) /\ answered.released = 0
        BY <3>1 DEF IsAnswered
      <3>3. Counted = 0
        BY <3>1 DEF Counted
      <3> QED
        BY <3>1, <3>2, <3>3 DEF ClicksAreCounted
    <2>3. GestureIsKnown
      BY DEF InteractionInit, GestureIsKnown, Released
    <2> QED
      BY <2>1, <2>2, <2>3 DEF ClickInv
  <1>2. ClickInv /\ [InteractionNext]_interactionVars => ClickInv'
    <2> SUFFICES ASSUME ClickInv, [InteractionNext]_interactionVars
                 PROVE  ClickInv'
      OBVIOUS
    <2>1. CASE Press
      <3>1. PolledInTime' /\ ClicksAreCounted'
        BY <2>1, WithdrawingKeeps DEF Press, Withdraws
      <3>2. GestureIsKnown'
        BY <2>1 DEF Press, Pressed, ClickInv, GestureIsKnown
      <3> QED
        BY <3>1, <3>2 DEF ClickInv
    <2>2. CASE PressKey
      <3>1. PolledInTime' /\ ClicksAreCounted'
        BY <2>2, WithdrawingKeeps DEF PressKey, Withdraws
      <3> QED
        BY <2>2, <3>1 DEF PressKey, ClickInv, GestureIsKnown
    <2>3. CASE Pass
      <3>1. PolledInTime'
        BY <2>3 DEF Pass, ClickInv, PolledInTime
      <3> QED
        BY <2>3, <3>1 DEF Pass, ClickInv, ClicksAreCounted, Counted, GestureIsKnown
    <2>4. ASSUME NEW at \in 1 .. MaxTime, Poll(at)
          PROVE  ClickInv'
      <3>1. PolledInTime' /\ ClicksAreCounted'
        BY <2>4, PollingKeeps
      <3> QED
        BY <2>4, <3>1 DEF Poll, ClickInv, GestureIsKnown
    <2>5. ASSUME NEW far \in BOOLEAN, NEW slow \in BOOLEAN, NEW direction, Move(far, direction, slow)
          PROVE  ClickInv'
      <3>1. PolledInTime' /\ ClicksAreCounted'
        BY <2>5, WithdrawingKeeps DEF Move, Withdraws
      <3> QED
        BY <2>5, <3>1, MovingKeeps DEF ClickInv
    <2>6. ASSUME NEW cancelled \in BOOLEAN, Release(cancelled)
          PROVE  ClickInv'
      <3>1. PolledInTime' /\ ClicksAreCounted'
        <4>1. CASE Dropped
          BY <2>6, <4>1, WithdrawingKeeps DEF Release, Dropped, Withdraws
        <4>2. CASE Clicked
          BY <2>6, <4>2, ClickingKeeps DEF Release
        <4> QED
          BY <2>6, <4>1, <4>2 DEF Release
      <3>2. GestureIsKnown'
        BY <2>6 DEF Release, Released, ClickInv, GestureIsKnown
      <3> QED
        BY <3>1, <3>2 DEF ClickInv
    <2>7. ASSUME NEW lifecycle, ArriveLifecycle(lifecycle)
          PROVE  ClickInv'
      <3>1. PolledInTime' /\ ClicksAreCounted'
        BY <2>7, WithdrawingKeeps DEF ArriveLifecycle, Withdraws
      <3>2. GestureIsKnown'
        BY <2>7 DEF ArriveLifecycle, ClickInv, GestureIsKnown
      <3> QED
        BY <3>1, <3>2 DEF ClickInv
    <2>8. CASE Reset
      BY <2>8, ResettingKeeps
    <2>9. CASE UNCHANGED interactionVars
      BY <2>9 DEF interactionVars, ClickInv, PolledInTime, ClicksAreCounted, Counted, GestureIsKnown
    <2> QED
      BY <2>1, <2>2, <2>3, <2>4, <2>5, <2>6, <2>7, <2>8, <2>9 DEF InteractionNext
  <1>3. ClickInv => ClicksAnswered
    BY DEF ClickInv, PolledInTime, ClicksAreCounted, GestureIsKnown, ClicksAnswered, Counted
  <1> QED
    BY <1>1, <1>2, <1>3, PTL DEF InteractionSpec

-------------------------------------------------------------------------------
(***************************************************************************)
(* The rounding.                                                           *)
(***************************************************************************)
\* A quotient is the greatest multiple below.
LEMMA Quotient ==
    ASSUME NEW a \in Int, NEW b \in Nat, b > 0
    PROVE  a \div b \in Int /\ b * (a \div b) <= a /\ a < b * (a \div b) + b
OBVIOUS

\* Half a unit away at most, and from a half away from zero.
LEMMA RoundedNear ==
    ASSUME NEW n \in Int, NEW u \in Nat, u > 0
    PROVE  /\ Rounded(n, u) \in Int
           /\ 2 * n - u <= 2 * (u * Rounded(n, u)) /\ 2 * (u * Rounded(n, u)) <= 2 * n + u
           /\ n >= 0 => 2 * n - u < 2 * (u * Rounded(n, u))
           /\ n < 0 => 2 * (u * Rounded(n, u)) < 2 * n + u
<1>1. CASE n >= 0
  <2> DEFINE q == (2 * n + u) \div (2 * u)
  <2>1. q \in Int /\ (2 * u) * q <= 2 * n + u /\ 2 * n + u < (2 * u) * q + 2 * u
    BY Quotient
  <2>2. Rounded(n, u) = q
    BY <1>1 DEF Rounded
  <2>3. (2 * u) * q = 2 * (u * q)
    BY <2>1
  <2> HIDE DEF q
  <2> QED
    BY <1>1, <2>1, <2>2, <2>3
<1>2. CASE n < 0
  <2> DEFINE q == (u - 2 * n) \div (2 * u)
  <2>1. q \in Int /\ (2 * u) * q <= u - 2 * n /\ u - 2 * n < (2 * u) * q + 2 * u
    BY Quotient
  <2>2. Rounded(n, u) = -q
    BY <1>2 DEF Rounded
  <2>3. (2 * u) * q = 2 * (u * q) /\ u * (-q) = -(u * q)
    BY <2>1
  <2> HIDE DEF q
  <2> QED
    BY <1>2, <2>1, <2>2, <2>3
<1> QED
  BY <1>1, <1>2

\* Less than half a unit away there is one multiple.
LEMMA OneMultiple ==
    ASSUME NEW u \in Nat, u > 0, NEW q \in Int, NEW r \in Int, u * q < u * r + u
    PROVE  q <= r
OBVIOUS

LEMMA RoundedIs ==
    ASSUME NEW n \in Int, NEW u \in Nat, u > 0, NEW k \in Int,
           2 * n - u < 2 * (u * k), 2 * (u * k) < 2 * n + u
    PROVE  Rounded(n, u) = k
<1> DEFINE r == Rounded(n, u)
<1>1. r \in Int /\ 2 * n - u <= 2 * (u * r) /\ 2 * (u * r) <= 2 * n + u
  BY RoundedNear
<1> HIDE DEF r
<1>2. u * r \in Int /\ u * k \in Int
  BY <1>1
<1>3. u * r < u * k + u /\ u * k < u * r + u
  BY <1>1, <1>2
<1>4. r <= k /\ k <= r
  BY <1>1, <1>3, OneMultiple
<1> QED
  BY <1>1, <1>4 DEF r

LEMMA RoundedMonotone ==
    ASSUME NEW a \in Int, NEW b \in Int, a <= b, NEW u \in Nat, u > 0
    PROVE  Rounded(a, u) <= Rounded(b, u)
<1> DEFINE p == Rounded(a, u)
           q == Rounded(b, u)
<1>1. /\ p \in Int /\ 2 * a - u <= 2 * (u * p) /\ 2 * (u * p) <= 2 * a + u
      /\ a < 0 => 2 * (u * p) < 2 * a + u
  BY RoundedNear
<1>2. /\ q \in Int /\ 2 * b - u <= 2 * (u * q) /\ 2 * (u * q) <= 2 * b + u
      /\ b >= 0 => 2 * b - u < 2 * (u * q)
  BY RoundedNear
<1> HIDE DEF p, q
<1>3. u * p \in Int /\ u * q \in Int
  BY <1>1, <1>2
<1>4. CASE b >= 0 \/ a < 0
  <2>1. u * p < u * q + u
    BY <1>1, <1>2, <1>3, <1>4
  <2> QED
    BY <1>1, <1>2, <2>1, OneMultiple DEF p, q
<1> QED
  BY <1>4

(***************************************************************************)
(* A distance from the edge of a display, in logical pixels and back.      *)
(***************************************************************************)
Logical(n, s) == Rounded(n * 1000, s)
Back(n, s) == Rounded(Logical(n, s) * s, 1000)

LEMMA BackNear ==
    ASSUME NEW n \in Int, NEW s \in Nat, s > 0
    PROVE  /\ Logical(n, s) \in Int /\ Back(n, s) \in Int
           /\ 2 * (s * Logical(n, s)) <= 2 * (n * 1000) + s
           /\ 2 * (n * 1000) - s <= 2 * (s * Logical(n, s))
           /\ 2 * (1000 * Back(n, s)) <= 2 * (s * Logical(n, s)) + 1000
           /\ 2 * (s * Logical(n, s)) - 1000 <= 2 * (1000 * Back(n, s))
<1> DEFINE l == Logical(n, s)
<1>1. /\ l \in Int /\ 2 * (s * l) <= 2 * (n * 1000) + s /\ 2 * (n * 1000) - s <= 2 * (s * l)
  BY RoundedNear DEF Logical
<1> HIDE DEF l
<1> DEFINE m == l * s
<1>2. m \in Int
  BY <1>1
<1>3. s * l = m
  BY <1>1
<1> HIDE DEF m
<1>4. /\ Rounded(m, 1000) \in Int
      /\ 2 * (1000 * Rounded(m, 1000)) <= 2 * m + 1000
      /\ 2 * m - 1000 <= 2 * (1000 * Rounded(m, 1000))
  BY <1>2, RoundedNear
<1>5. Back(n, s) = Rounded(m, 1000)
  BY DEF Back, l, m
<1> DEFINE b == Back(n, s)
<1>6. /\ b \in Int
      /\ 2 * (1000 * b) <= 2 * (s * l) + 1000
      /\ 2 * (s * l) - 1000 <= 2 * (1000 * b)
  BY <1>2, <1>4, <1>5, <1>3
<1> HIDE DEF b
<1>7. /\ l \in Int /\ b \in Int
      /\ 2 * (s * l) <= 2 * (n * 1000) + s
      /\ 2 * (n * 1000) - s <= 2 * (s * l)
      /\ 2 * (1000 * b) <= 2 * (s * l) + 1000
      /\ 2 * (s * l) - 1000 <= 2 * (1000 * b)
  BY <1>1, <1>6
<1> QED
  BY <1>7 DEF l, b

LEMMA BackIsWhole ==
    ASSUME NEW n \in Int, NEW s \in Nat, s > 0
    PROVE  Logical(n, s) \in Int /\ Back(n, s) \in Int
BY BackNear

\* There and back is half a logical pixel and half a physical one at most.
LEMMA BackIsClose ==
    ASSUME NEW n \in Int, NEW s \in Nat, s > 0
    PROVE  2000 * (Back(n, s) - n) <= s + 1000 /\ 2000 * (n - Back(n, s)) <= s + 1000
<1> DEFINE l == Logical(n, s)
           b == Back(n, s)
<1>1. /\ l \in Int /\ b \in Int
      /\ 2 * (s * l) <= 2 * (n * 1000) + s /\ 2 * (n * 1000) - s <= 2 * (s * l)
      /\ 2 * (1000 * b) <= 2 * (s * l) + 1000 /\ 2 * (s * l) - 1000 <= 2 * (1000 * b)
  BY BackNear
<1> HIDE DEF l, b
<1>2. s * l \in Int
  BY <1>1
<1>3. 2000 * (b - n) <= s + 1000 /\ 2000 * (n - b) <= s + 1000
  BY <1>1, <1>2
<1> QED
  BY <1>3 DEF b

\* A display that is not magnified loses nothing.
LEMMA BackOnSmall ==
    ASSUME NEW n \in Int, NEW s \in Nat, s > 0, s <= 1000
    PROVE  Back(n, s) = n
<1> DEFINE l == Logical(n, s)
<1>1. l \in Int /\ 2 * (s * l) <= 2 * (n * 1000) + s /\ 2 * (n * 1000) - s <= 2 * (s * l)
  BY BackNear
<1> HIDE DEF l
<1>2. l * s \in Int /\ l * s = s * l
  BY <1>1
<1>3. CASE s < 1000
  <2>1. 2 * (l * s) - 1000 < 2 * (1000 * n) /\ 2 * (1000 * n) < 2 * (l * s) + 1000
    BY <1>1, <1>2, <1>3
  <2> QED
    BY <1>2, <2>1, RoundedIs DEF Back, l
<1>4. CASE s = 1000
  <2>1. Logical(n, s) = n
    BY <1>4, RoundedIs DEF Logical
  <2>2. Rounded(n * s, 1000) = n
    BY <1>4, RoundedIs
  <2> QED
    BY <2>1, <2>2 DEF Back
<1> QED
  BY <1>3, <1>4

\* A magnified one gives every logical pixel a physical one.
LEMMA LogicalOfBack ==
    ASSUME NEW n \in Int, NEW s \in Nat, s > 1000
    PROVE  Logical(Back(n, s), s) = Logical(n, s)
<1> DEFINE l == Logical(n, s)
           b == Back(n, s)
<1>1. /\ l \in Int /\ b \in Int
      /\ 2 * (1000 * b) <= 2 * (s * l) + 1000 /\ 2 * (s * l) - 1000 <= 2 * (1000 * b)
  BY BackNear
<1> HIDE DEF l, b
<1>2. s * l \in Int
  BY <1>1
<1>3. 2 * (b * 1000) - s < 2 * (s * l) /\ 2 * (s * l) < 2 * (b * 1000) + s
  BY <1>1, <1>2
<1>4. Rounded(b * 1000, s) = l
  BY <1>1, <1>3, RoundedIs
<1> QED
  BY <1>4 DEF b, l, Logical

\* On the way back everything comes back to the same place.
LEMMA BackBetween ==
    ASSUME NEW n \in Int, NEW y \in Int, NEW s \in Nat, s > 0,
           \/ n <= y /\ y <= Back(n, s)
           \/ Back(n, s) <= y /\ y <= n
    PROVE  Back(y, s) = Back(n, s)
<1>1. CASE s <= 1000
  <2>1. Back(n, s) = n /\ Back(y, s) = y
    BY <1>1, BackOnSmall
  <2> QED
    BY <2>1
<1>2. CASE s > 1000
  <2> DEFINE b == Back(n, s)
  <2>1. b \in Int /\ Logical(b, s) = Logical(n, s)
    BY <1>2, BackNear, LogicalOfBack
  <2>2. n * 1000 \in Int /\ y * 1000 \in Int /\ b * 1000 \in Int
    BY <2>1
  <2>3. Logical(n, s) \in Int /\ Logical(y, s) \in Int
    BY BackNear
  <2> HIDE DEF b
  <2>4. CASE n <= y /\ y <= b
    <3>1. n * 1000 <= y * 1000 /\ y * 1000 <= b * 1000
      BY <2>1, <2>4
    <3>2. Logical(n, s) <= Logical(y, s) /\ Logical(y, s) <= Logical(b, s)
      BY <2>2, <3>1, RoundedMonotone DEF Logical
    <3> QED
      BY <2>1, <2>3, <3>2 DEF Back
  <2>5. CASE b <= y /\ y <= n
    <3>1. b * 1000 <= y * 1000 /\ y * 1000 <= n * 1000
      BY <2>1, <2>5
    <3>2. Logical(b, s) <= Logical(y, s) /\ Logical(y, s) <= Logical(n, s)
      BY <2>2, <3>1, RoundedMonotone DEF Logical
    <3> QED
      BY <2>1, <2>3, <3>2 DEF Back
  <2> QED
    BY <2>4, <2>5 DEF b
<1> QED
  BY <1>1, <1>2

(***************************************************************************)
(* A display, and the window that stays in its sight.                      *)
(***************************************************************************)
IsDisplay(d) == /\ d.start \in Int /\ d.length \in Nat /\ d.length > 0
                /\ d.scale \in Nat /\ d.scale >= MinScale

Low(d) == d.start - Physical(PetSize, d) + Least(Margin, Physical(PetSize, d) \div 2)
High(d) == d.start + d.length - Least(Margin, Physical(PetSize, d) \div 2)
InSight(at, d) == Low(d) <= at /\ at <= High(d)
Pulled(at, d) == d.start + Back(at - d.start, d.scale)

LEMMA ArrangedDisplays ==
    ASSUME NEW ds \in Arrangement
    PROVE  /\ \A d \in ds : IsDisplay(d)
           /\ \A d, e \in ds : d.id = e.id => d = e
           /\ \E d \in ds : d.primary
BY PlacementAssumption DEF IsDisplay

LEMMA PhysicalNear ==
    ASSUME NEW d, IsDisplay(d), NEW n \in Int
    PROVE  /\ Physical(n, d) \in Int
           /\ 2 * (n * d.scale) - 1000 <= 2 * (1000 * Physical(n, d))
<1> DEFINE m == n * d.scale
<1>1. m \in Int
  BY DEF IsDisplay
<1> HIDE DEF m
<1>2. Rounded(m, 1000) \in Int /\ 2 * m - 1000 <= 2 * (1000 * Rounded(m, 1000))
  BY <1>1, RoundedNear
<1> QED
  BY <1>2 DEF m, Physical

\* Two pixels of the pet at least; some of it always fits.
LEMMA Sights ==
    ASSUME NEW d, IsDisplay(d)
    PROVE  /\ Physical(PetSize, d) \in Int /\ Low(d) \in Int /\ High(d) \in Int
           /\ Low(d) <= High(d)
           /\ d.start - Physical(PetSize, d) < Low(d) /\ High(d) < d.start + d.length
           /\ InSight(d.start + (d.length - Physical(PetSize, d)) \div 2, d)
<1> DEFINE p == Physical(PetSize, d)
           margin == Least(Margin, p \div 2)
<1>1. p \in Int /\ p >= 2
  <2>1. PetSize * d.scale \in Int /\ PetSize * d.scale >= 360 * 250
    BY DEF IsDisplay, PetSize, MinScale
  <2>2. p \in Int /\ 2 * (PetSize * d.scale) - 1000 <= 2 * (1000 * p)
    BY PhysicalNear DEF PetSize
  <2> HIDE DEF p
  <2> QED
    BY <2>1, <2>2
<1> HIDE DEF p
<1>2. margin \in Int /\ margin >= 1 /\ 2 * margin <= p
  BY <1>1 DEF Least, Margin
<1>3. Low(d) = d.start - p + margin /\ High(d) = d.start + d.length - margin
  BY DEF Low, High, p
<1> HIDE DEF margin
<1>4. d.start \in Int /\ d.length \in Int /\ d.length > 0
  BY DEF IsDisplay
<1>5. /\ Low(d) \in Int /\ High(d) \in Int /\ Low(d) <= High(d)
      /\ d.start - p < Low(d) /\ High(d) < d.start + d.length
      /\ InSight(d.start + (d.length - p) \div 2, d)
  BY <1>1, <1>2, <1>3, <1>4 DEF InSight
<1> QED
  BY <1>1, <1>5 DEF p

\* What is in sight of a display is shown on it.
LEMMA SeenIsShown ==
    ASSUME NEW ds \in Arrangement, NEW d \in ds, NEW at \in Int, InSight(at, d)
    PROVE  d \in MonitorsAt(at, ds)
<1>1. IsDisplay(d)
  BY ArrangedDisplays
<1>2. at < d.start + d.length /\ at + Physical(PetSize, d) > d.start
  BY <1>1, Sights DEF InSight, IsDisplay
<1> QED
  BY <1>2 DEF MonitorsAt

\* The clamp.
LEMMA ClampedIs ==
    ASSUME NEW low \in Int, NEW high \in Int, low <= high, NEW n \in Int
    PROVE  /\ Clamped(low, high, n) \in Int
           /\ low <= Clamped(low, high, n) /\ Clamped(low, high, n) <= high
           /\ low <= n /\ n <= high => Clamped(low, high, n) = n
           /\ n < low => Clamped(low, high, n) = low
           /\ n > high => Clamped(low, high, n) = high
BY DEF Clamped, Most, Least

LEMMA PulledIsWhole ==
    ASSUME NEW d, IsDisplay(d), NEW at \in Int
    PROVE  Pulled(at, d) \in Int /\ Logical(at - d.start, d.scale) \in Int
<1> DEFINE n == at - d.start
           s == d.scale
<1>1. n \in Int /\ s \in Nat /\ s > 0 /\ d.start \in Int
  BY DEF IsDisplay, MinScale
<1>2. Pulled(at, d) = d.start + Back(n, s)
  BY DEF Pulled
<1> HIDE DEF n, s
<1>3. Logical(n, s) \in Int /\ Back(n, s) \in Int
  BY <1>1, BackIsWhole
<1>4. Pulled(at, d) \in Int
  BY <1>1, <1>2, <1>3
<1> QED
  BY <1>3, <1>4 DEF n, s

\* A placement that names a display is resolved on it.
LEMMA ResolvedOn ==
    ASSUME NEW ds \in Arrangement, NEW d \in ds, NEW at \in Int,
           NEW placement, placement.display = d.id,
           placement.logical = Rounded((at - d.start) * 1000, d.scale)
    PROVE  /\ Resolved(placement, ds) = Clamped(Low(d), High(d), Pulled(at, d))
           /\ d.start + Physical(placement.logical, d) = Pulled(at, d)
           /\ Pulled(at, d) \in Int /\ placement.logical \in Int
<1>1. IsDisplay(d)
  BY ArrangedDisplays
<1>2. {k \in ds : k.id = placement.display} = {d}
  BY ArrangedDisplays
<1>3. (CHOOSE k \in {d} : TRUE) = d
  OBVIOUS
<1>4. d.start + Physical(placement.logical, d) = Pulled(at, d)
  BY DEF Pulled, Physical, Back, Logical
<1>5. Pulled(at, d) \in Int /\ placement.logical \in Int
  BY <1>1, PulledIsWhole DEF Logical
<1>6. Resolved(placement, ds) = Clamped(Low(d), High(d), Pulled(at, d))
  <2> DEFINE named == {k \in ds : k.id = placement.display}
             e == IF named # {} THEN CHOOSE k \in named : TRUE ELSE CHOOSE k \in ds : k.primary
  <2>1. Resolved(placement, ds)
          = Clamped(Low(e), High(e), e.start + Physical(placement.logical, e))
    BY DEF Resolved, Low, High
  <2>2. named = {d}
    BY <1>2
  <2> HIDE DEF named
  <2>3. e = d
    BY <1>3, <2>2
  <2> HIDE DEF e
  <2> QED
    BY <1>4, <2>1, <2>3
<1> QED
  BY <1>4, <1>5, <1>6

\* Wherever the saved pet is put, some display shows it.
LEMMA ResolvedIsSeen ==
    ASSUME NEW ds \in Arrangement, NEW placement, placement.logical \in Int
    PROVE  \E d \in ds : /\ InSight(Resolved(placement, ds), d)
                         /\ Resolved(placement, ds) \in Int
<1> DEFINE named == {d \in ds : d.id = placement.display}
           e == IF named # {} THEN CHOOSE n \in named : TRUE ELSE CHOOSE p \in ds : p.primary
<1>1. e \in ds
  BY ArrangedDisplays
<1>2. Resolved(placement, ds)
        = Clamped(Low(e), High(e), e.start + Physical(placement.logical, e))
  BY DEF Resolved, Low, High
<1> HIDE DEF e
<1>3. IsDisplay(e)
  BY <1>1, ArrangedDisplays
<1>4. e.start + Physical(placement.logical, e) \in Int
  <2>1. Physical(placement.logical, e) \in Int /\ e.start \in Int
    BY <1>3, PhysicalNear DEF IsDisplay
  <2> QED
    BY <2>1
<1>5. InSight(Resolved(placement, ds), e) /\ Resolved(placement, ds) \in Int
  BY <1>2, <1>3, <1>4, Sights, ClampedIs DEF InSight
<1> QED
  BY <1>1, <1>5

(***************************************************************************)
(* What a move to the saved place does to the pet on one display.          *)
(***************************************************************************)
Left(at, d) == Clamped(Low(d), High(d), Pulled(at, d))
Close(a, b, d) == 2 * 1000 * Distance(a, b) <= d.scale + 1000

LEMMA PulledBetween ==
    ASSUME NEW d, IsDisplay(d), NEW at \in Int, NEW y \in Int,
           \/ at <= y /\ y <= Pulled(at, d)
           \/ Pulled(at, d) <= y /\ y <= at
    PROVE  Pulled(y, d) = Pulled(at, d)
<1> DEFINE n == at - d.start
           m == y - d.start
           s == d.scale
<1>1. n \in Int /\ m \in Int /\ s \in Nat /\ s > 0 /\ d.start \in Int
  BY DEF IsDisplay, MinScale
<1>2. /\ Pulled(at, d) = d.start + Back(n, s) /\ at = d.start + n
      /\ Pulled(y, d) = d.start + Back(m, s) /\ y = d.start + m
  BY <1>1 DEF Pulled
<1> HIDE DEF n, m, s
<1>3. Back(n, s) \in Int /\ Back(m, s) \in Int
  BY <1>1, BackIsWhole
<1>4. (n <= m /\ m <= Back(n, s)) \/ (Back(n, s) <= m /\ m <= n)
  BY <1>1, <1>2, <1>3
<1>5. Back(m, s) = Back(n, s)
  BY <1>1, <1>4, BackBetween
<1> QED
  BY <1>2, <1>5

LEMMA PulledIsClose ==
    ASSUME NEW d, IsDisplay(d), NEW at \in Int
    PROVE  /\ 2000 * (Pulled(at, d) - at) <= d.scale + 1000
           /\ 2000 * (at - Pulled(at, d)) <= d.scale + 1000
<1> DEFINE n == at - d.start
           s == d.scale
<1>1. n \in Int /\ s \in Nat /\ s > 0 /\ d.start \in Int
  BY DEF IsDisplay, MinScale
<1>2. Pulled(at, d) = d.start + Back(n, s) /\ at = d.start + n
  BY <1>1 DEF Pulled
<1> HIDE DEF n
<1>3. d.scale = s
  OBVIOUS
<1> HIDE DEF s
<1>4. Back(n, s) \in Int
  BY <1>1, BackIsWhole
<1>5. 2000 * (Back(n, s) - n) <= s + 1000 /\ 2000 * (n - Back(n, s)) <= s + 1000
  BY <1>1, BackIsClose
<1> QED
  BY <1>1, <1>2, <1>3, <1>4, <1>5

\* A pet that is not pushed stays where it was but for the rounding, and from then on.
LEMMA PulledRests ==
    ASSUME NEW d, IsDisplay(d), NEW at \in Int, Left(at, d) = Pulled(at, d)
    PROVE  Close(Left(at, d), at, d) /\ Left(Left(at, d), d) = Left(at, d)
<1> DEFINE y == Pulled(at, d)
<1>1. y \in Int
  BY PulledIsWhole
<1>2. Pulled(y, d) = y
  <2>1. (at <= y /\ y <= y) \/ (y <= y /\ y <= at)
    BY <1>1
  <2> QED
    BY <1>1, <2>1, PulledBetween
<1>3. 2000 * (y - at) <= d.scale + 1000 /\ 2000 * (at - y) <= d.scale + 1000
  BY PulledIsClose
<1>4. Left(at, d) = y /\ d.scale \in Int
  BY DEF IsDisplay
<1> HIDE DEF y
<1>5. Left(y, d) = Left(at, d)
  BY <1>2 DEF Left, y
<1>6. Close(y, at, d)
  BY <1>1, <1>3, <1>4 DEF Close, Distance
<1> QED
  BY <1>4, <1>5, <1>6

\* So does one in sight, which is pushed between the two.
LEMMA SeenRests ==
    ASSUME NEW d, IsDisplay(d), NEW at \in Int, InSight(at, d)
    PROVE  Close(Left(at, d), at, d) /\ Left(Left(at, d), d) = Left(at, d)
<1> DEFINE y == Left(at, d)
           p == Pulled(at, d)
<1>1. p \in Int /\ Low(d) \in Int /\ High(d) \in Int /\ Low(d) <= High(d) /\ d.scale \in Int
  BY PulledIsWhole, Sights DEF IsDisplay
<1>2. /\ y \in Int
      /\ (at <= y /\ y <= p) \/ (p <= y /\ y <= at)
  <2>1. y = Clamped(Low(d), High(d), p) /\ Low(d) <= at /\ at <= High(d)
    BY DEF Left, InSight
  <2> HIDE DEF y, p
  <2> QED
    BY <1>1, <2>1 DEF Clamped, Most, Least
<1>3. Pulled(y, d) = p
  BY <1>2, PulledBetween
<1>4. 2000 * (p - at) <= d.scale + 1000 /\ 2000 * (at - p) <= d.scale + 1000
  BY PulledIsClose
<1>5. Left(y, d) = y
  BY <1>3 DEF Left
<1> HIDE DEF y, p
<1>6. Close(y, at, d)
  BY <1>1, <1>2, <1>4 DEF Close, Distance
<1> QED
  BY <1>5, <1>6 DEF y

LEMMA LeftIsSeen ==
    ASSUME NEW d, IsDisplay(d), NEW at \in Int
    PROVE  Left(at, d) \in Int /\ InSight(Left(at, d), d)
BY Sights, PulledIsWhole, ClampedIs DEF Left, InSight

-------------------------------------------------------------------------------
(***************************************************************************)
(* The invariant.                                                          *)
(***************************************************************************)
Whole ==
    /\ displays \in Arrangement /\ position \in Int /\ settled \in Int /\ stored.logical \in Int
    /\ grabbed.pointer \in Int /\ grabbed.origin \in Int /\ grabbed.scale \in Int
    /\ \A c \in commits : /\ c = [id |-> c.id, step |-> c.step, placement |-> c.placement]
                          /\ c.placement.logical \in Int

\* The notifications are where the pet's display wants them unless a move is to be handled.
NoteIsBeside == ~moved => \E d \in Monitors : note = Layout(position, d)

\* A pet that is not where it was left is where its display leaves it.
Rests(d) ==
    /\ position = settled \/ (Left(position, d) = position /\ Close(position, settled, d))
    /\ ~moved => InSight(position, d)
PetRests == \A d : Monitors = {d} => Rests(d)

\* Where the pet comes to rest, and wherever rounding has moved it, one display shows it.
OnOneDisplay == ~moved \/ position # settled => \E d : Monitors = {d}

LEMMA MonitorsAreDisplays ==
    ASSUME NEW ds \in Arrangement, NEW at
    PROVE  MonitorsAt(at, ds) \subseteq ds
BY DEF MonitorsAt

LEMMA SavedIsLeft ==
    ASSUME Whole, NEW d \in displays
    PROVE  /\ Resolved(PlacementOn(d), displays) = Left(position, d)
           /\ d.start + Physical(PlacementOn(d).logical, d) = Pulled(position, d)
           /\ PlacementOn(d).logical \in Int
<1> DEFINE saved == PlacementOn(d)
<1>1. saved.display = d.id /\ saved.logical = Rounded((position - d.start) * 1000, d.scale)
  BY DEF PlacementOn
<1>2. position \in Int /\ displays \in Arrangement
  BY DEF Whole
<1> HIDE DEF saved
<1>3. /\ Resolved(saved, displays) = Clamped(Low(d), High(d), Pulled(position, d))
      /\ d.start + Physical(saved.logical, d) = Pulled(position, d)
      /\ saved.logical \in Int
  BY <1>1, <1>2, ResolvedOn
<1> QED
  BY <1>3 DEF saved, Left

LEMMA MonitorsAreWhole ==
    ASSUME Whole, NEW d \in Monitors
    PROVE  d \in displays /\ IsDisplay(d)
BY MonitorsAreDisplays, ArrangedDisplays DEF Monitors, Whole

LEMMA WholeStart == PlacementInit => Whole
<1> SUFFICES ASSUME PlacementInit PROVE Whole
  OBVIOUS
<1>1. displays \in Arrangement
  BY DEF PlacementInit
<1>2. PICK d \in displays : /\ d.primary
                            /\ position = d.start + (d.length - Physical(PetSize, d)) \div 2
                            /\ stored = PlacementOn(d) /\ note = Layout(position, d)
  BY DEF PlacementInit
<1>3. IsDisplay(d)
  BY <1>1, ArrangedDisplays
<1>4. Physical(PetSize, d) \in Int /\ d.start \in Int /\ d.length \in Int
  BY <1>3, Sights DEF IsDisplay
<1>5. position \in Int
  BY <1>2, <1>4
<1>6. Logical(position - d.start, d.scale) \in Int
  BY <1>3, <1>5, PulledIsWhole
<1>7. stored.logical \in Int
  BY <1>2, <1>6 DEF PlacementOn, Logical
<1>8. settled = position /\ grabbed = NoAnchor /\ commits = {}
  BY DEF PlacementInit
<1> QED
  BY <1>1, <1>5, <1>7, <1>8 DEF Whole, NoAnchor

LEMMA WholeStep ==
    ASSUME Whole, [PlacementNext]_placementVars
    PROVE  Whole'
<1>1. ASSUME NEW p \in Point, Grab(p) PROVE Whole'
  <2>1. PICK d \in Monitors :
              grabbed' = [held |-> TRUE, pointer |-> p, origin |-> position, scale |-> d.scale]
    BY <1>1 DEF Grab
  <2>2. d.scale \in Int /\ p \in Int
    BY MonitorsAreWhole, PlacementAssumption DEF IsDisplay
  <2>3. grabbed'.pointer = p /\ grabbed'.origin = position /\ grabbed'.scale = d.scale
    BY <2>1
  <2> QED
    BY <1>1, <2>2, <2>3 DEF Grab, Whole
<1>2. ASSUME NEW p \in Point, DragTo(p) PROVE Whole'
  <2> DEFINE m == (p - grabbed.pointer) * grabbed.scale
  <2>1. p \in Int /\ grabbed.pointer \in Int /\ grabbed.scale \in Int /\ grabbed.origin \in Int
    BY PlacementAssumption DEF Whole
  <2>2. m \in Int
    BY <2>1
  <2>3. position' = grabbed.origin + Rounded(m, 1000)
    BY <1>2 DEF DragTo
  <2> HIDE DEF m
  <2>4. Rounded(m, 1000) \in Int
    BY <2>2, RoundedNear
  <2>5. position' \in Int
    BY <2>1, <2>3, <2>4
  <2> QED
    BY <1>2, <2>5 DEF DragTo, Whole
<1>3. CASE LetGo
  <2> DEFINE c == [id |-> tally.drags, step |-> "finish", placement |-> stored]
  <2>1. c.placement = stored /\ c = [id |-> c.id, step |-> c.step, placement |-> c.placement]
    OBVIOUS
  <2>2. commits' = commits \cup {c}
    BY <1>3 DEF LetGo
  <2> HIDE DEF c
  <2> QED
    BY <1>3, <2>1, <2>2 DEF LetGo, Whole
<1>4. CASE HandleMoved
  <2>1. PICK d \in Monitors :
              /\ position' = Resolved(PlacementOn(d), displays)
              /\ settled' = IF position' = d.start + Physical(PlacementOn(d).logical, d)
                            THEN settled ELSE position'
    BY <1>4 DEF HandleMoved
  <2>2. position' = Left(position, d) /\ IsDisplay(d) /\ position \in Int
    BY <2>1, SavedIsLeft, MonitorsAreWhole DEF Whole
  <2>3. position' \in Int
    BY <2>2, LeftIsSeen
  <2>4. settled' \in Int
    BY <2>1, <2>3 DEF Whole
  <2> QED
    BY <1>4, <2>3, <2>4 DEF HandleMoved, Whole
<1>5. ASSUME NEW c \in commits, FinishDrag(c) PROVE Whole'
  <2> DEFINE b == [c EXCEPT !.step = "read"]
  <2>1. c = [id |-> c.id, step |-> c.step, placement |-> c.placement] /\ c.placement.logical \in Int
    BY DEF Whole
  <2>2. b = [id |-> c.id, step |-> "read", placement |-> c.placement]
    BY <2>1
  <2>3. b = [id |-> b.id, step |-> b.step, placement |-> b.placement] /\ b.placement = c.placement
    BY <2>2
  <2>4. commits' = (commits \ {c}) \cup {b} /\ grabbed' = NoAnchor
    BY <1>5 DEF FinishDrag
  <2> HIDE DEF b
  <2> QED
    BY <1>5, <2>1, <2>3, <2>4 DEF FinishDrag, Whole, NoAnchor
<1>6. ASSUME NEW c \in commits, ReadPlacement(c) PROVE Whole'
  <2> DEFINE saved(d) == [id |-> c.id, step |-> "save", placement |-> PlacementOn(d)]
  <2>1. PICK d \in Monitors : commits' = (commits \ {c}) \cup {saved(d)}
    BY <1>6 DEF ReadPlacement
  <2> DEFINE b == saved(d)
  <2>2. b = [id |-> b.id, step |-> b.step, placement |-> b.placement]
        /\ b.placement = PlacementOn(d)
    OBVIOUS
  <2>3. PlacementOn(d).logical \in Int
    BY SavedIsLeft, MonitorsAreWhole
  <2>4. commits' = (commits \ {c}) \cup {b}
    BY <2>1
  <2> HIDE DEF b, saved
  <2> QED
    BY <1>6, <2>2, <2>3, <2>4 DEF ReadPlacement, Whole
<1>7. ASSUME NEW c \in commits, SavePlacement(c) PROVE Whole'
  BY <1>7 DEF SavePlacement, Whole
<1>8. ASSUME NEW ds \in Arrangement, ChangeDisplays(ds) PROVE Whole'
  BY <1>8 DEF ChangeDisplays, Whole
<1>9. ASSUME NEW orderly \in BOOLEAN, NEW ds \in Arrangement, Restart(orderly, ds) PROVE Whole'
  <2>1. PICK d \in Monitors : stored' = IF orderly THEN PlacementOn(d) ELSE stored
    BY <1>9 DEF Restart
  <2>2. stored'.logical \in Int
    BY <2>1, SavedIsLeft, MonitorsAreWhole DEF Whole
  <2>3. position' = Resolved(stored', ds)
    BY <1>9 DEF Restart
  <2>4. position' \in Int
    BY <2>2, <2>3, ResolvedIsSeen
  <2>5. displays' = ds /\ grabbed' = NoAnchor /\ commits' = {}
        /\ (settled' = settled \/ settled' = position')
    BY <1>9 DEF Restart
  <2> QED
    BY <2>2, <2>4, <2>5 DEF Whole, NoAnchor
<1>10. CASE UNCHANGED placementVars
  BY <1>10 DEF placementVars, Whole
<1> QED
  BY <1>1, <1>2, <1>3, <1>4, <1>5, <1>6, <1>7, <1>8, <1>9, <1>10 DEF PlacementNext

LEMMA NoteStep ==
    ASSUME NoteIsBeside, [PlacementNext]_placementVars
    PROVE  NoteIsBeside'
<1>1. ASSUME UNCHANGED <<displays, position, moved, note>> PROVE NoteIsBeside'
  BY <1>1 DEF NoteIsBeside, Monitors
<1>2. ASSUME NEW p \in Point, Grab(p) PROVE NoteIsBeside'
  BY <1>1, <1>2 DEF Grab
<1>3. ASSUME NEW p \in Point, DragTo(p) PROVE NoteIsBeside'
  <2>1. displays' = displays /\ note' = note /\ (~moved' => ~moved /\ position' = position)
    BY <1>3 DEF DragTo
  <2> QED
    BY <2>1 DEF NoteIsBeside, Monitors
<1>4. CASE LetGo
  BY <1>1, <1>4 DEF LetGo
<1>5. CASE HandleMoved
  BY <1>5 DEF HandleMoved, PositionNotification, NoteIsBeside, Monitors
<1>6. ASSUME NEW c \in commits, FinishDrag(c) \/ ReadPlacement(c) \/ SavePlacement(c)
      PROVE  NoteIsBeside'
  BY <1>1, <1>6 DEF FinishDrag, ReadPlacement, SavePlacement
<1>7. ASSUME NEW ds \in Arrangement, ChangeDisplays(ds) PROVE NoteIsBeside'
  BY <1>7 DEF ChangeDisplays, NoteIsBeside
<1>8. ASSUME NEW orderly \in BOOLEAN, NEW ds \in Arrangement, Restart(orderly, ds)
      PROVE  NoteIsBeside'
  BY <1>8 DEF Restart, PositionNotification, NoteIsBeside, Monitors
<1>9. CASE UNCHANGED placementVars
  BY <1>1, <1>9 DEF placementVars
<1> QED
  BY <1>2, <1>3, <1>4, <1>5, <1>6, <1>7, <1>8, <1>9 DEF PlacementNext

\* A pet at rest where it was left is in sight there; one that moves on has been left.
LEMMA RestStep ==
    ASSUME Whole, Whole', PetRests, OnOneDisplay, [PlacementNext]_placementVars
    PROVE  PetRests'
<1>1. \A d \in Monitors : d \in displays /\ IsDisplay(d)
  BY MonitorsAreWhole
<1>2. \A d \in Monitors : Monitors = {d} => Rests(d)
  BY DEF PetRests
<1>3. position \in Int /\ displays \in Arrangement
  BY DEF Whole
<1>4. ASSUME UNCHANGED <<displays, position, moved, settled>> PROVE PetRests'
  <2>1. Monitors' = Monitors
    BY <1>4 DEF Monitors
  <2> QED
    BY <1>4, <2>1 DEF PetRests, Rests
<1>5. ASSUME NEW p \in Point, Grab(p) PROVE PetRests'
  BY <1>4, <1>5 DEF Grab
<1>6. ASSUME NEW p \in Point, DragTo(p) PROVE PetRests'
  <2>1. settled' = position' /\ displays' = displays
    BY <1>6 DEF DragTo
  <2>2. ASSUME NEW e, Monitors' = {e}, ~moved' PROVE InSight(position', e)
    <3>1. position' = position /\ ~moved
      BY <1>6, <2>2 DEF DragTo
    <3>2. Monitors = {e}
      BY <2>1, <2>2, <3>1 DEF Monitors
    <3> QED
      BY <3>1, <3>2 DEF PetRests, Rests
  <2> QED
    BY <2>1, <2>2 DEF PetRests, Rests
<1>7. CASE LetGo
  BY <1>4, <1>7 DEF LetGo
<1>8. CASE HandleMoved
  <2>1. PICK d \in Monitors :
              /\ position' = Resolved(PlacementOn(d), displays)
              /\ settled' = IF position' = d.start + Physical(PlacementOn(d).logical, d)
                            THEN settled ELSE position'
              /\ displays' = displays
    BY <1>8 DEF HandleMoved
  <2>2. /\ position' = Left(position, d)
        /\ settled' = IF position' = Pulled(position, d) THEN settled ELSE position'
    BY <1>1, <2>1, SavedIsLeft
  <2>3. position' \in Int /\ InSight(position', d)
    BY <1>1, <1>3, <2>2, LeftIsSeen
  <2>4. d \in Monitors'
    BY <1>1, <1>3, <2>1, <2>3, SeenIsShown DEF Monitors
  <2>5. position' = settled' \/ (Left(position', d) = position' /\ Close(position', settled', d))
    <3>1. CASE position' # Pulled(position, d)
      BY <2>2, <3>1
    <3>2. CASE position' = Pulled(position, d) /\ position = settled
      BY <1>1, <1>3, <2>2, <3>2, PulledRests
    <3>3. CASE position' = Pulled(position, d) /\ position # settled
      <4>1. Monitors = {d}
        BY <3>3 DEF OnOneDisplay
      <4> QED
        BY <1>2, <2>2, <3>3, <4>1 DEF Rests
    <3> QED
      BY <3>1, <3>2, <3>3
  <2>6. ASSUME NEW e, Monitors' = {e} PROVE Rests(e)'
    <3>1. e = d
      BY <2>4, <2>6
    <3> QED
      BY <2>3, <2>5, <3>1 DEF Rests
  <2> QED
    BY <2>6 DEF PetRests
<1>9. ASSUME NEW c \in commits, FinishDrag(c) \/ ReadPlacement(c) \/ SavePlacement(c)
      PROVE  PetRests'
  BY <1>4, <1>9 DEF FinishDrag, ReadPlacement, SavePlacement
<1>10. ASSUME NEW ds \in Arrangement, ChangeDisplays(ds) PROVE PetRests'
  BY <1>10 DEF ChangeDisplays, PetRests, Rests
<1>11. ASSUME NEW orderly \in BOOLEAN, NEW ds \in Arrangement, Restart(orderly, ds)
       PROVE  PetRests'
  <2>1. PICK d : Monitors = {d}
    BY <1>11 DEF Restart, OnOneDisplay
  <2>2. /\ stored' = IF orderly THEN PlacementOn(d) ELSE stored
        /\ displays' = ds /\ position' = Resolved(stored', ds) /\ ~moved
        /\ settled' = IF orderly /\ ds = displays THEN settled ELSE position'
    BY <1>11, <2>1 DEF Restart
  <2>3. d \in displays /\ IsDisplay(d) /\ Rests(d)
    BY <1>1, <1>2, <2>1
  <2>4. CASE orderly /\ ds = displays
    <3>1. position' = Left(position, d) /\ settled' = settled
      BY <2>2, <2>3, <2>4, SavedIsLeft
    <3>2. InSight(position, d)
      BY <2>2, <2>3 DEF Rests
    <3>3. position' = settled' \/ (Left(position', d) = position' /\ Close(position', settled', d))
      <4>1. CASE position = settled
        BY <1>3, <2>3, <3>1, <3>2, <4>1, SeenRests
      <4>2. CASE position # settled
        BY <2>3, <3>1, <4>2 DEF Rests
      <4> QED
        BY <4>1, <4>2
    <3>4. InSight(position', d) /\ position' \in Int
      BY <1>3, <2>3, <3>1, LeftIsSeen
    <3>5. d \in Monitors'
      BY <1>3, <2>2, <2>3, <2>4, <3>4, SeenIsShown DEF Monitors
    <3> QED
      BY <3>3, <3>4, <3>5 DEF PetRests, Rests
  <2>5. CASE ~(orderly /\ ds = displays)
    <3>1. settled' = position'
      BY <2>2, <2>5
    <3>2. stored'.logical \in Int
      BY DEF Whole
    <3>3. PICK e \in ds : InSight(position', e) /\ position' \in Int
      BY <2>2, <3>2, ResolvedIsSeen
    <3>4. e \in Monitors'
      BY <2>2, <3>3, SeenIsShown DEF Monitors
    <3> QED
      BY <3>1, <3>3, <3>4 DEF PetRests, Rests
  <2> QED
    BY <2>4, <2>5
<1>12. CASE UNCHANGED placementVars
  BY <1>4, <1>12 DEF placementVars
<1> QED
  BY <1>5, <1>6, <1>7, <1>8, <1>9, <1>10, <1>11, <1>12 DEF PlacementNext

LEMMA RestStart == PlacementInit => PetRests /\ NoteIsBeside
<1> SUFFICES ASSUME PlacementInit PROVE PetRests /\ NoteIsBeside
  OBVIOUS
<1>1. PICK d \in displays : /\ d.primary
                            /\ position = d.start + (d.length - Physical(PetSize, d)) \div 2
                            /\ stored = PlacementOn(d) /\ note = Layout(position, d)
  BY DEF PlacementInit
<1>2. Whole
  BY WholeStart
<1>3. IsDisplay(d) /\ displays \in Arrangement /\ position \in Int
  BY <1>2, ArrangedDisplays DEF Whole
<1>4. InSight(position, d)
  BY <1>1, <1>3, Sights
<1>5. d \in Monitors
  BY <1>1, <1>3, <1>4, SeenIsShown DEF Monitors
<1>6. settled = position
  BY DEF PlacementInit
<1> QED
  BY <1>1, <1>4, <1>5, <1>6 DEF PetRests, Rests, NoteIsBeside

\* Whenever no move of the pet waits to be handled, the notifications are where a display
\* that shows the pet wants them (position_notification_window), drags, restarts and
\* changed displays included.
THEOREM NotificationsAreBeside == PlacementSpec => []NoteIsBeside
<1>1. PlacementInit => NoteIsBeside
  BY RestStart
<1>2. NoteIsBeside /\ [PlacementNext]_placementVars => NoteIsBeside'
  BY NoteStep
<1> QED
  BY <1>1, <1>2, PTL DEF PlacementSpec

\* However often the placement is rounded to logical pixels and back, by a drag's commit,
\* by the check of a move or by a restart, the pet is at most half a logical and half a
\* physical pixel from where it was left, and the notifications are beside it: on every
\* display and from every start, as long as it comes to rest on one display at a time.
THEOREM PetStaysWhereItIsLeft == PlacementSpec /\ []OnOneDisplay => []PetDoesNotCreep
<1>1. PlacementInit => Whole /\ PetRests /\ NoteIsBeside
  BY WholeStart, RestStart
<1>2. Whole /\ [PlacementNext]_placementVars => Whole'
  BY WholeStep
<1>3. NoteIsBeside /\ [PlacementNext]_placementVars => NoteIsBeside'
  BY NoteStep
<1>4. Whole /\ Whole' /\ PetRests /\ OnOneDisplay /\ [PlacementNext]_placementVars
      => PetRests'
  BY RestStep
<1>5. Whole /\ PetRests /\ NoteIsBeside => PetDoesNotCreep
  <2> SUFFICES ASSUME Whole, PetRests, NoteIsBeside, NEW d \in displays, ~moved, Monitors = {d}
               PROVE  /\ 2 * 1000 * Distance(position, settled) <= d.scale + 1000
                      /\ note = Layout(position, d)
    BY DEF PetDoesNotCreep
  <2>1. note = Layout(position, d)
    BY DEF NoteIsBeside
  <2>2. Rests(d) /\ position \in Int /\ IsDisplay(d)
    BY MonitorsAreWhole DEF PetRests, Whole
  <2>3. CASE position = settled
    BY <2>1, <2>2, <2>3 DEF Distance, IsDisplay
  <2>4. CASE position # settled
    BY <2>1, <2>2, <2>4 DEF Rests, Close
  <2> QED
    BY <2>3, <2>4
<1> QED
  BY <1>1, <1>2, <1>3, <1>4, <1>5, PTL DEF PlacementSpec

===============================================================================
