CONSTANTS
    Event <- OverlappingEvents
    Session = {1}
    Turn = {1, 2}
    MaxRecent = 4
    MaxRetired = 2
    MaxPersisted = 1
    MinimumDwell = 0
    ReminderDuration = 0
    MaxNow = 0
    MaxRevision = 4
    MaxRestarts = 0
    TimersInOrder = TRUE
SPECIFICATION Spec
INVARIANTS
    AppliedStateIsRestorable
CHECK_DEADLOCK FALSE
