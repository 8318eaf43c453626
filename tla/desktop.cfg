CONSTANTS
    Event <- TwoCards
    Session = {1, 2}
    Turn = {1}
    MaxRecent = 2
    MaxRetired = 1
    MaxPersisted = 2
    MinimumDwell = 0
    ReminderDuration = 0
    MaxNow = 0
    MaxRevision = 9
    MaxRestarts = 0
    TimersInOrder = TRUE
    Plans <- DesktopPlans
    PetPackages = {1, 2}
    Dir = {1, 2}
    Pet = {1, 2}
    MaxPackageEdits = 2
    MaxSelections = 2
    MaxAppStarts = 2
    Frame = {0, 1}
    MaxFrames = 2
    Delta = {2, 30, 105}
    Choosable = {1, 2, 3}
    Item = {1, 2}
    NativeTime = {1, 2}
    Budgets <- MenuBudgets
    Angle = {0, 89, 90, 91, 1440, 2789, 2790, 2879}
SPECIFICATION MCSpec
CHECK_DEADLOCK FALSE
INVARIANTS
    SequentialIsCurrent
    PendingIsWorkedOn
    NoCardForgotten
    FeedbackStands
    PetIsServed
    FramesAreDrawn
    MenusTellTruth
PROPERTIES
    ShapeFollowsPet
    TrayFollowsSelection
