CONSTANTS
    Event <- OrderEvents
    Session = {1}
    Turn = {1, 2}
    MaxRecent = 7
    MaxRetired = 1
    MaxPersisted = 1
    MinimumDwell = 0
    ReminderDuration = 0
    MaxNow = 0
    MaxRevision = 6
    MaxRestarts = 0
    TimersInOrder = TRUE
SPECIFICATION Spec
INVARIANTS
    LatestCardOnly
    EndsAreFinal
PROPERTIES
    RevisionsAgree
CHECK_DEADLOCK FALSE
