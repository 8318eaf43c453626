CONSTANTS
    Event <- PresentationEvents
    Session = {1, 2}
    Turn = {1}
    MaxRecent = 1
    MaxRetired = 1
    MaxPersisted = 1
    MinimumDwell = 1
    ReminderDuration = 2
    MaxNow = 3
    MaxRevision = 4
    MaxRestarts = 1
    TimersInOrder = TRUE
SPECIFICATION FairSpec
INVARIANTS
    NeverUnderstated
PROPERTIES
    ReminderEnds
CHECK_DEADLOCK FALSE
