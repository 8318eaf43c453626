CONSTANTS
    Event <- OfflineEvents
    Session = {1}
    Turn = {1, 2}
    MaxRecent = 2
    MaxRetired = 1
    MaxPersisted = 1
    MinimumDwell = 0
    ReminderDuration = 0
    MaxNow = 0
    MaxRevision = 5
    MaxRestarts = 0
    TimersInOrder = TRUE
    MaxCount = 2
    MaxBytes = 2
    MaxAge = 1
    Lease = 1
    MaxDelay = 1
    MaxClock = 2
    FreshFor = 1
SPECIFICATION DeliverySpec
CHECK_DEADLOCK FALSE
INVARIANTS
    OfflineCompletionShown
