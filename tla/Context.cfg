\* The idle task and two others, on both processors.
CONSTANTS
    Tasks = {idle, t1, t2}
    Idle = idle
    None = None
    Archs = {"m0", "m4"}
    StackSize <- Stacks
    Below = 4
    MaxLocals <- Locals
    Signalled = {t1}
    t1 = t1
    t2 = t2
    Values = {1}
    Signals <- SomeSignals
    Junk = Junk
    Magic = Magic
    Canned = Canned
    Params = Params
    Handler = Handler
    TaskFinished = TaskFinished
    Xpsr = Xpsr
    Success = Success
    TimedOut = TimedOut
    Invalid = Invalid
    Message = Message
SPECIFICATION Spec
INVARIANTS RegistersSurvive ResultsArrive OverflowsFound
PROPERTY LatestRuns
CHECK_DEADLOCK FALSE
