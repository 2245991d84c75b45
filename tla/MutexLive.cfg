\* Tasks of one priority acquire and release under FairSpec.  No nesting: an
\* owner that acquires again before each release never gives a mutex back.
CONSTANTS
    Tasks = {t1, t2, t3, t4}
    None = None
    MaxPriority = 2
    Forever = 3
    Objects = {m1}
    Kind <- MutexKinds
    Messages = {}
    Delays = {1}
    StartPriorities = {1}
    Calls = {"delay"}
    Timeouts = {1, 3}
    AbortOnTimeout = {}
    Levels = 2
    MaxNesting = 1
    SuspendsAcquirers = FALSE
SPECIFICATION FairSpec
PROPERTY Granted
CHECK_DEADLOCK FALSE
