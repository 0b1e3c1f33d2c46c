CONSTANTS
    MaxTask = 2
    MaxCall = 5
    Kinds = {"sync", "usleep", "async", "ipc"}
    Lapses = {"busy", "two_async", "overlap", "close_pending", "unregister", "signal"}
    Faults = {"map", "heap", "timer"}
SPECIFICATION Spec
CHECK_DEADLOCK FALSE
INVARIANTS
    KernelInv
    NsOnlyWhenIdle
