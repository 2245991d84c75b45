\* A reader times out while others are ready.
CONSTANTS
    Tasks = {t1, t2, t3, t4}
    None = None
    MaxPriority = 2
    Forever = 3
    Objects = {l1}
    Kind <- RwLockKinds
    Messages = {}
    Delays = {1}
    StartPriorities = {1}
    Calls = {}
    ReadTimeouts = {2}
    WriteTimeouts = {2}
    MaxNesting = 1
    SuspendsAcquirers = FALSE
    RestartsAcquirers = FALSE
SPECIFICATION Spec
INVARIANT ReadyTasksAreQueued
CHECK_DEADLOCK FALSE
