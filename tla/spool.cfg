CONSTANTS
    Payload <- FourPayloads
    Drainer = {d1, d2}
    Token = {1, 2, 3, 4}
    NoToken = 0
    MaxCount = 2
    MaxBytes = 3
    MaxAge = 1
    Lease = 1
    MaxDelay = 1
    MaxClock = 2
    MaxInserts = 3
    Writer = {1, 2}
    Claimer = {11, 12}
    Crews <- SmallCrews
    Priority <- RequestThenCompletion
    MaxFiles = 1
    MaxOldLocks = 1
    MaxDeaths = 1
    MaxRecoveries = 1
    Opener = {1, 2, 3}
    Embedded <- Builds
    MaxFailures = 1
    HookInput <- Hooks
    MaxHooks = 2
    MaxMillis = 1
    Homes = {"no home", "h"}
    Desk = {1, 2}
    Caller = {11, 12}
    InboxCapacity = 1
    PluginVersion = {"0.1.0", "0.1.1"}
    CompatibleVersion = {"0.1.0"}
    CodexHome = {"home", "other"}
    SelectedHome = "home"
    Inspected = TRUE
    MaxInstances = 2
    MaxEvents = 1
    MaxCodexChanges = 2
SPECIFICATION MCSpec
SYMMETRY DrainerSymmetry
INVARIANTS
    RowsBounded
    SpoolAccounted
    NothingVanishes
    ClaimIsExclusive
    StoredIsKept
    OpensInTime
    OneIdentityPerHook
    LiveDesktopIsReached
    CleanupIsEarned
PROPERTIES
    ClaimedIsKept
CHECK_DEADLOCK FALSE
