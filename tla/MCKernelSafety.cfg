CONSTANTS
    MaxTask = 3
    MaxCall = 5
    Kinds = {"sync", "sleep", "usleep", "async", "ipc"}
    Lapses = {}
    Faults = {"heap", "timer"}
SPECIFICATION Spec
CHECK_DEADLOCK FALSE
INVARIANTS
    TypeOK
    ReadyShape
    NsOnlyWhenIdle
    ReadyLockUncontended
    CommonHeapUncontended
    ReplyIsForTheCall
    AnswerIsResult
    WaitFramesAlive
    NoUseAfterFree
    NeverDies
    IpcCallerParked
PROPERTIES
    CommandNotOverwritten
    PendingTaskNotRestarted
    KeepsPromise
