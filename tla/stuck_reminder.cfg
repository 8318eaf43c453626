CONSTANTS
    Event <- PulseEvents
    Session = {1, 2}
    Turn = {1}
    MaxRecent = 4
    MaxRetired = 2
    MaxPersisted = 2
    MinimumDwell = 1
    ReminderDuration = 2
    MaxNow = 4
    MaxRevision = 4
    MaxRestarts = 0
    TimersInOrder = FALSE
SPECIFICATION FairSpec
PROPERTIES
    ReminderEnds
CHECK_DEADLOCK FALSE
