\* Three tasks of two priorities read and write.  Readers wait for ever or not
\* at all: RwLockTimeout shows what a reader that times out does.
CONSTANTS
    Tasks = {t1, t2, t3, t4}
    None = None
    MaxPriority = 2
    Forever = 3
    Objects = {l1}
    Kind <- RwLockKinds
    Messages = {}
    Delays = {1}
    StartPriorities = {1, 2}
    Calls = {"delay", "finish", "start", "suspend", "resume"}
    ReadTimeouts = {0, 3}
    WriteTimeouts = {0, 2, 3}
    MaxNesting = 2
    SuspendsAcquirers = FALSE
    RestartsAcquirers = FALSE
SPECIFICATION Spec
INVARIANTS KernelSurvives Agreement Exclusion NobodyWaitsOutside WaitersAreListed
SYMMETRY Symmetry
CHECK_DEADLOCK FALSE
