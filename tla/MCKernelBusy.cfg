CONSTANTS
    MaxTask = 1
    MaxCall = 4
    Kinds = {"async"}
    Lapses = {"busy"}
    Faults = {}
SPECIFICATION Spec
CHECK_DEADLOCK FALSE
PROPERTIES
    PendingTaskNotRestarted
