CONSTANTS
    MaxTask = 2
    MaxCall = 5
    Kinds = {"async"}
    Lapses = {"busy", "two_async"}
    Faults = {}
SPECIFICATION Spec
CHECK_DEADLOCK FALSE
INVARIANTS
    NotificationNotLost
