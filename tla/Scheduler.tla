----------------------------- MODULE Scheduler -----------------------------
(***************************************************************************)
(* The scheduler by itself: tasks that start, sleep, end, and suspend,     *)
(* resume and restart each other, under the clock.                         *)
(***************************************************************************)
EXTENDS Handlers

\* There is nothing here that a device could send to.
ASSUME NoInterrupts == ~Interruptible

vars == <<osg>>

Init == Zeroed

(***************************************************************************)
(* The specification.                                                      *)
(***************************************************************************)
Next ==
    \/ Boot
    \/ SysTick
    \/ PendSV
    \/ \E ms \in Delays : Delay(ms)
    \/ Panic
    \/ Abort
    \/ Finish
    \/ \E t \in Tasks : Suspend(t) \/ Resume(t)
    \/ \E t \in Tasks, p \in StartPriorities : TaskStart(t, p)

Spec == Init /\ [][Next]_vars

FairSpec == Spec /\ Fairness

(***************************************************************************)
(* Properties.                                                             *)
(***************************************************************************)

\* The kernel record has the shape the C types give it (types.h).
TypeOK == osg \in Kernel

\* The runqueue holds exactly the IDLE and ACTIVE tasks and the waitqueue
\* exactly the WAIT tasks, each once, whatever handlers moved them
\* (osi_task_status_set, osi_dispatch, os_task_start_options).
QueueDiscipline == QueuesMatchStatus(osg)

\* The runqueue is in order of priority ("scheduler error(pri)" of
\* osi_priority_check) and the waitqueue in order of wake-up time, which
\* find_new_task and the wake-up loop of osi_schedule rely on.
QueuesSorted == RunqueueSorted(osg) /\ WaitqueueSorted(osg)

\* Only the chosen task is ACTIVE, and a pending switch is to another task
\* (svc_delay's OS_ASSERT(osg.scheduled != osg.running)).
OneActive ==
    /\ \A t \in Tasks : osg.status[t] = "ACTIVE" => t = Chosen(osg)
    /\ osg.scheduled # None => osg.scheduled # osg.running

\* No OS_ASSERT of the kernel fails and find_new_task always returns.
NeverHalts == osg.halted = {}

Best(g, t) ==
    t # None /\ \A u \in Ready(g) : g.priority[u] <= g.priority[t]

\* Whenever the processor is given to another task, no ready task outranks
\* it: the "scheduler panic" of osi_priority_check never happens.  And a
\* SysTick never leaves a ready task behind that outranks the chosen one.
BestIsChosen ==
    [][(Chosen(osg) # None /\ Chosen(osg') # Chosen(osg))
            \/ (SysTick /\ osg.scheduled = None)
        => Best(osg', Chosen(osg'))]_vars

\* A waiting task is not woken before its time: what takes it out of the
\* waitqueue is its own time-out or a restart (osi_schedule's now >= delay).
NoEarlyWake ==
    [][\A t \in Tasks :
        osg.status[t] = "WAIT" /\ osg.delay[t] > 1 /\ osg'.status[t] # "WAIT"
            => \E p \in StartPriorities : TaskStart(t, p)]_vars

\* A task waiting for a finite time leaves the waitqueue, although each
\* osi_schedule wakes one task only and new sleepers keep arriving.
SleepersWake ==
    \A t \in Tasks :
        osg.status[t] = "WAIT" /\ osg.delay[t] # Forever ~> osg.status[t] # "WAIT"

\* Equal priorities take turns: no task stays ready for ever, never run,
\* while no ready task outranks it (the walk of find_new_task begins
\* behind the running task).  Only two tasks that suspend and resume each
\* other between ticks can starve a third one: they keep moving to the tail
\* of their priority.
NoStarvation ==
    \A t \in Tasks :
        <>[](osg.state = "STARTED" /\ osg.status[t] = "IDLE" /\ Best(osg, t))
            => []<><<\E u \in Tasks : Suspend(u)>>_vars

=============================================================================
