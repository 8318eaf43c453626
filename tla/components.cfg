CONSTANTS
    Loads <- MixedLoads
    Keys = 3
    Context <- InteractionContext
    Filters <- FailureFilter
    Mode <- ActionMode
    MaxParallel <- ActionParallel
    QueueCapacity <- ActionQueue
    GlobalConcurrency = 2
    TitleCapacity = 2
    Runs <- SuccessfulRun
    MaxPublications = 2
    MaxToggles = 2
    MaxCloses = 1
    MaxCards = 3
    RegionCards = 2
    Surface = {"Stop"}
    MaxEdits = 1
    MaxCrashes = 1
    MaxPlans = 2
    Viewer = {"pet"}
    Publisher = {1, 2}
    Backlog = 1
    MaxRevision = 3
    MaxBreaks = 1
    MaxLoads = 2
    Choice = {1, 2}
    MaxShows = 2
    MaxChoices = 2
    MaxFailedFetches = 1
    DoubleClickDelay = 1
    WaveDuration = 2
    JumpDuration = 2
    DragHold = 1
    MaxTime = 4
    MaxPresses = 3
    MaxLifecycles = 2
    Arrangement <- Displays
    Point = {100, 101}
    MaxDrags = 1
    MaxArrivals = 1
    MaxStarts = 2
    File <- Files
    MaxFileEdits = 1
    DesktopSlots = 4
SPECIFICATION MCSpec
INVARIANTS
    OneProcessPerKey
    CardsAreVisible
    CardsTakeClicks
    UserEditsKept
    CompleteMeansRemoved
    ClicksAnswered
    PetDoesNotCreep
    ValidActionsRemain
PROPERTIES
    EveryCallAnswered
    CarouselComesToRest
    DocumentsCatchUp
    PageFollowsSelection
CHECK_DEADLOCK FALSE
