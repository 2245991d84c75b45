\* Receivers and senders of a queue with OS_QUEUE_FLAGS_QUEUE_ONLY.
CONSTANTS
    Tasks = {t1, t2, t3, t4}
    None = None
    MaxPriority = 2
    Forever = 3
    Objects = {q1}
    Kind <- QueueKinds
    Messages = {x}
    Delays = {1}
    StartPriorities = {1}
    Calls = {}
    Timeouts = {2, 3}
    Size = 1
    QueueOnly = {q1}
    DeviceMessages = {}
SPECIFICATION Spec
INVARIANT BlockedSendersSend
CHECK_DEADLOCK FALSE
