CONSTANTS
    Event <- RetimedEvents
    Session = {1}
    Turn = {1}
    MaxRecent = 4
    MaxRetired = 2
    MaxPersisted = 1
    MinimumDwell = 0
    ReminderDuration = 0
    MaxNow = 0
    MaxRevision = 5
    MaxRestarts = 1
    TimersInOrder = TRUE
SPECIFICATION Spec
INVARIANTS
    DismissedStaysDismissed
CHECK_DEADLOCK FALSE
