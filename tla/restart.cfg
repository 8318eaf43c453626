CONSTANTS
    Event <- RestartEvents
    Session = {1}
    Turn = {1, 2}
    MaxRecent = 2
    MaxRetired = 1
    MaxPersisted = 1
    MinimumDwell = 0
    ReminderDuration = 0
    MaxNow = 0
    MaxRevision = 7
    MaxRestarts = 2
    TimersInOrder = TRUE
SPECIFICATION Spec
INVARIANTS
    DurableIsCurrent
CHECK_DEADLOCK FALSE
