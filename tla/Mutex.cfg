\* Three tasks and the idle task compete for two mutexes.
CONSTANTS
    Tasks = {t1, t2, t3, t4}
    None = None
    MaxPriority = 2
    Forever = 3
    Objects = {m1, m2}
    Kind <- MutexKinds
    Messages = {}
    Delays = {1}
    StartPriorities = {1, 2}
    Calls = {"finish", "suspend", "resume", "start"}
    Timeouts = {0, 2, 3}
    AbortOnTimeout = {m2}
    Levels = 3
    MaxNesting = 2
    SuspendsAcquirers = FALSE
SPECIFICATION Spec
INVARIANTS KernelSurvives Agreement WaitersAreListed NeverHalts
PROPERTIES WokenByGrant ImplementsLock
SYMMETRY Symmetry
CHECK_DEADLOCK FALSE
