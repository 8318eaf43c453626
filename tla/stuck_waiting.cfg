CONSTANTS
    Event <- AbandonedEvents
    Session = {1, 2}
    Turn = {1}
    MaxRecent = 4
    MaxRetired = 2
    MaxPersisted = 2
    MinimumDwell = 1
    ReminderDuration = 1
    MaxNow = 4
    MaxRevision = 4
    MaxRestarts = 0
    TimersInOrder = TRUE
SPECIFICATION FairSpec
PROPERTIES
    WaitingEnds
CHECK_DEADLOCK FALSE
