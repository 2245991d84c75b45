\* The idle task and three others under FairSpec; every call but the
\* self-suspending ones.
CONSTANTS
    Tasks = {t1, t2, t3, t4}
    None = None
    MaxPriority = 2
    Forever = 3
    Objects = {}
    Kind <- NoKinds
    Messages = {}
    Delays = {1, 2}
    StartPriorities = {1, 2}
    Calls = {"delay", "panic", "abort", "finish", "suspend", "resume", "start", "teardown"}
SPECIFICATION FairSpec
INVARIANTS QueueDiscipline QueuesSorted OneActive Invariant NeverHalts
PROPERTIES BestIsChosen NoEarlyWake SleepersWake NoStarvation
CHECK_DEADLOCK FALSE
