\* Three tasks and a device: senders and receivers queue up behind each
\* other, are suspended, abort and are started again, and the device's
\* interrupt may override the scheduler.
CONSTANTS
    Tasks = {t1, t2, t3, t4}
    None = None
    MaxPriority = 2
    Forever = 3
    Objects = {q1}
    Kind <- QueueKinds
    Messages = {x, y}
    Delays = {1}
    StartPriorities = {1}
    Calls = {"abort", "start", "suspend", "resume"}
    Timeouts = {0, 2}
    Size = 2
    QueueOnly = {}
    DeviceMessages = {y}
SPECIFICATION Spec
INVARIANTS KernelSurvives OneKindBlocked WaitersAreListed
PROPERTIES WokenWithResult ImplementsChannel
SYMMETRY Symmetry
VIEW Relevant
CHECK_DEADLOCK FALSE
