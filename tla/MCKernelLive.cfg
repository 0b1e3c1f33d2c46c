CONSTANTS
    MaxTask = 2
    MaxCall = 5
    Kinds = {"sync", "sleep", "usleep", "async", "ipc"}
    Lapses = {"busy"}
    Faults = {"heap", "timer"}
SPECIFICATION FairSpec
CHECK_DEADLOCK FALSE
INVARIANTS
    NotificationNotLost
PROPERTIES
    SmcReturns
    PendingAnswered
