------------------------------ MODULE Handlers ------------------------------
(***************************************************************************)
(* The scheduler of arduino-osh on one core: starting the system, the      *)
(* SysTick and PendSV exceptions, and the calls that change which tasks    *)
(* may run.  The handlers of os.c and service.c are atomic here: an SVC    *)
(* handler runs at the highest exception priority, SysTick is preempted    *)
(* only by device interrupts (which Queue has), and thread code runs only  *)
(* when no switch is pending, because PendSV follows SysTick before the    *)
(* processor returns to a thread.                                          *)
(*                                                                         *)
(* Time is relative: a tick of the clock brings every delay one nearer.    *)
(* Calls says which calls the application makes.  Scheduler is the system  *)
(* these actions make up by themselves; Mutex, Queue, RwLock and Semaphore *)
(* add the calls on their objects to them.                                 *)
(***************************************************************************)
EXTENDS Kernel

CONSTANTS
    Delays,           \* the ms arguments of os_delay
    StartPriorities,  \* the priorities tasks are given
    Calls             \* the calls the application makes once started

CallNames == {"delay", "panic", "abort", "finish", "suspend", "suspend_self",
              "resume", "resume_self", "start", "start_waiting", "teardown"}

ASSUME DelaysAssumption == Delays \subseteq 0 .. Forever
ASSUME PrioritiesAssumption == StartPriorities \subseteq 0 .. MaxPriority
ASSUME CallsAssumption == Calls \subseteq CallNames

VARIABLE osg

\* What the C run-time leaves behind.
Zeroed == osg = ZeroKernel

(***************************************************************************)
(* Before the system starts: main() on the one stack there is.             *)
(***************************************************************************)

\* os_initialize
Initialize ==
    /\ osg.state = "DEFAULT"
    /\ osg' = [osg EXCEPT !.state = "INITIALIZED"]

\* os_task_initialize_options: the first task becomes the idle task.
Initialized(g, t, status, p) ==
    LET first == g.idle = None
        set == [g EXCEPT
                    !.status[t] = status, !.delay[t] = 0, !.flags[t] = {},
                    !.waits[t] = {}, !.tasks = @ \cup {t},
                    !.priority[t] = IF first THEN IdlePriority ELSE p,
                    !.idle = IF first THEN t ELSE @,
                    !.state = "TASKS_INITIALIZED"]
    IN  IF status = "IDLE" THEN RunqueueAdd(set, t) ELSE set

\* A task structure is initialised once, the idle task as running (the
\* assertion of os.c:229).  IDLE is OS_TASK_START_RUNNING.
TaskInitialize(t, status, p) ==
    /\ osg.state \in {"INITIALIZED", "TASKS_INITIALIZED"}
    /\ t \notin osg.tasks
    /\ osg.idle = None => status = "IDLE"
    /\ osg' = Initialized(osg, t, status, p)

\* os_start: the idle task runs first.
Start ==
    /\ osg.state = "TASKS_INITIALIZED"
    /\ osg' = [OsAssert(osg, osg.runqueue # <<>>, "os.c:370") EXCEPT
                  !.running = osg.idle, !.status[osg.idle] = "ACTIVE",
                  !.state = "STARTED"]

\* os_teardown, called between two test programs.  The task structures are
\* gone with the program that owned them.
Teardown ==
    /\ "teardown" \in Calls
    /\ osg.state \in {"INITIALIZED", "TASKS_INITIALIZED"}
    /\ osg' = ZeroKernel

(***************************************************************************)
(* Exceptions.                                                             *)
(***************************************************************************)

Elapse(g) ==
    [g EXCEPT !.delay =
        [t \in Tasks |-> IF @[t] \in {0, Forever} THEN @[t] ELSE @[t] - 1]]

\* SysTick: the clock advances and osi_irs_systick may schedule.
SysTick ==
    /\ osg.state = "STARTED"
    /\ osg.halted = {}
    /\ osg' = ScheduleIfNone(Elapse(osg))

PendSV ==
    /\ osg.scheduled # None
    /\ osg.halted = {}
    /\ osg' = Switch(osg)

(***************************************************************************)
(* Calls of the running task.                                              *)
(***************************************************************************)

\* A task's code runs: no exception is active or pending.
InThread ==
    /\ osg.state = "STARTED"
    /\ osg.halted = {}
    /\ osg.scheduled = None

\* The function of a task that is not the idle task is at a call of its own.
InTask ==
    /\ InThread
    /\ osg.running # osg.idle
    /\ osg.status[osg.running] \notin LeftStatus

\* os_delay.  A task of the idle priority busy-waits instead.
Delay(ms) ==
    /\ "delay" \in Calls
    /\ InTask
    /\ osg.priority[osg.running] # IdlePriority
    /\ osg' = SvcReturn(SvcDelay(osg, ms), osg.running, Returning("TO"))

Panic ==
    /\ "panic" \in Calls
    /\ InTask
    /\ osg' = SvcReturn(SvcLeave(osg, "PANIC"), osg.running, Returning("SUCCESS"))

Abort ==
    /\ "abort" \in Calls
    /\ InTask
    /\ osg' = SvcReturn(SvcLeave(osg, "ABORTED"), osg.running, Returning("SUCCESS"))

\* task_finished: the handler has returned; the task spins until a switch.
Finish ==
    /\ "finish" \in Calls
    /\ InTask
    /\ osg' = StatusSet(OsAssert(osg, osg.status[osg.running] = "ACTIVE", "os.c:907"),
                        osg.running, "FINISHED")

(***************************************************************************)
(* Calls about a task, made without an SVC by whichever task runs.  Each   *)
(* caller respects the status the call asserts.                            *)
(***************************************************************************)
Suspend(t) ==
    /\ InThread
    /\ osg.status[osg.running] \notin LeftStatus
    /\ t \in osg.tasks \ {osg.idle}
    /\ IF t = osg.running THEN "suspend_self" \in Calls ELSE "suspend" \in Calls
    /\ osg.status[t] \in RunningStatus
    /\ osg' = StatusSet(osg, t, "SUSPENDED")

Resume(t) ==
    /\ InThread
    /\ osg.status[osg.running] \notin LeftStatus
    /\ t \in osg.tasks
    /\ IF t = osg.running THEN "resume_self" \in Calls ELSE "resume" \in Calls
    /\ osg.status[t] = "SUSPENDED"
    /\ osg' = StatusSet(osg, t, "IDLE")

\* os_task_start_options: from any status but IDLE and ACTIVE.
Started(g, t, p) ==
    LET fresh == [g EXCEPT
            !.delay[t] = 0, !.flags[t] = {},
            !.waits[t] = {o \in @ : Kind[o] = "semaphore"},
            !.blocked = [o \in Objects |->
                SubSeq(@[o], 1, IF Contains(@[o], t)
                                THEN FirstIndex(@[o], {t})
                                ELSE Len(@[o]))],
            !.priority[t] = p, !.status[t] = "IDLE"]
    IN  RunqueueAdd(RunqueueRemove(WaitqueueRemove(fresh, t), t), t)

TaskStart(t, p) ==
    /\ IF osg.status[t] = "WAIT" THEN "start_waiting" \in Calls ELSE "start" \in Calls
    /\ InThread
    /\ osg.status[osg.running] \notin LeftStatus
    /\ t \in osg.tasks \ {osg.running, osg.idle}
    /\ osg.status[t] \notin RunningStatus
    /\ osg' = Started(osg, t, p)

\* The steps before the first task runs.
Boot ==
    \/ Initialize
    \/ \E t \in Tasks, status \in {"IDLE", "SUSPENDED"}, p \in StartPriorities :
           TaskInitialize(t, status, p)
    \/ Start
    \/ Teardown

(***************************************************************************)
(* What the modules built on these actions share.                          *)
(***************************************************************************)

\* ENABLED <<SysTick>>_osg
TickDue ==
    /\ osg.state = "STARTED"
    /\ osg.halted = {}
    /\ ScheduleIfNone(Elapse(osg)) # osg

\* The clock keeps ticking and the processor takes a pending PendSV.  The
\* first conjunct is WF_osg(SysTick), written out so that TLC need not
\* evaluate the handler under ENABLED.  Nothing is assumed of the application.
Fairness ==
    /\ []<>~TickDue \/ []<><<SysTick>>_osg
    /\ WF_osg(PendSV)

\* The task whose code runs, or will run as soon as PendSV is taken.
Chosen(g) == IF g.scheduled # None THEN g.scheduled ELSE g.running

\* The inductive invariant.  A started system schedules, and its running
\* task never waits while no switch is pending: svc_delay, svc_panic and
\* svc_abort have found another task or their last assertion has failed.
\* Before that no task is ACTIVE and only initialised tasks are queued.
Invariant ==
    /\ KernelInv(osg)
    /\ osg.state = "STARTED" =>
           Scheduling(osg) /\ (osg.halted # {} \/ Awake(osg))
    /\ osg.state # "STARTED" =>
           /\ osg.running = None
           /\ osg.scheduled = None
           /\ \A t \in Tasks : osg.status[t] # "ACTIVE"
           /\ \A t \in Tasks \ osg.tasks : osg.status[t] = "NEW"
    /\ osg.state = "TASKS_INITIALIZED" =>
           osg.idle \in osg.tasks /\ osg.status[osg.idle] = "IDLE"
    /\ osg.state \in {"DEFAULT", "INITIALIZED"} => osg.idle = None

=============================================================================
