\* Three tasks and the idle task acquire and release, of two priorities.
CONSTANTS
    Tasks = {t1, t2, t3, t4}
    None = None
    MaxPriority = 2
    Forever = 3
    Objects = {s1}
    Kind <- SemaphoreKinds
    Messages = {}
    Delays = {1}
    StartPriorities = {1, 2}
    Calls = {"delay", "finish", "start", "start_waiting", "suspend", "resume"}
    Timeouts = {0, 2, 3}
    Tokens = 1
    MaxTokens = 2
    SuspendsAcquirers = TRUE
    RestartsAcquirers = FALSE
SPECIFICATION Spec
INVARIANT TokensConserved
PROPERTY BlockersHalt
SYMMETRY Symmetry
CHECK_DEADLOCK FALSE
