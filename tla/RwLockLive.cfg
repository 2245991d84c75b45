\* Tasks of one priority under FairSpec.
CONSTANTS
    Tasks = {t1, t2, t3, t4}
    None = None
    MaxPriority = 2
    Forever = 3
    Objects = {l1}
    Kind <- RwLockKinds
    Messages = {}
    Delays = {1}
    StartPriorities = {1}
    Calls = {}
    ReadTimeouts = {3}
    WriteTimeouts = {3}
    MaxNesting = 1
    SuspendsAcquirers = FALSE
    RestartsAcquirers = FALSE
SPECIFICATION FairSpec
PROPERTY ReadersEnter
CHECK_DEADLOCK FALSE
