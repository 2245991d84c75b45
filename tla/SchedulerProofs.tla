--------------------------- MODULE SchedulerProofs ---------------------------
(***************************************************************************)
(* Invariant is inductive for Scheduler, whatever the tasks, their         *)
(* priorities and delays and the calls the application makes, and implies  *)
(* the type invariant and three of the safety invariants the runs check.   *)
(***************************************************************************)
EXTENDS Scheduler, HandlersProofs

\* The invariant of Scheduler.tla is inductive.
THEOREM InvariantHolds == Spec => []Invariant
<1>1. Invariant /\ [Next]_vars => Invariant'
  BY BootStep, ExceptionStep, ServiceStep, TaskStep, StutterStep DEF Next, vars
<1>. QED  BY InitInvariant, <1>1, PTL DEF Spec, Init

-----------------------------------------------------------------------------
(***************************************************************************)
(* What follows from it.                                                   *)
(***************************************************************************)

\* The kernel record keeps the shape the C types give it.
THEOREM TypeCorrect == Spec => []TypeOK
<1>1. Invariant => TypeOK
  BY DEF Invariant, KernelInv, TypeOK
<1>. QED  BY <1>1, InvariantHolds, PTL

\* No sequence of calls and exceptions, of any number of tasks, brings a
\* queue and the statuses it stands for out of step: osi_task_status_set,
\* osi_dispatch and os_task_start_options make every move they imply.
THEOREM QueuesHoldTheRightTasks == Spec => []QueueDiscipline
<1>1. Invariant => QueueDiscipline
  BY DEF Invariant, KernelInv, QueueDiscipline
<1>. QED  BY <1>1, InvariantHolds, PTL

\* Nor does it bring a queue out of order, although priorities change on a
\* restart and every delay with every tick.
THEOREM QueuesStaySorted == Spec => []QueuesSorted
<1>1. Invariant => QueuesSorted
  BY DEF Invariant, KernelInv, QueuesSorted
<1>. QED  BY <1>1, InvariantHolds, PTL

\* At most one task is ACTIVE, the one that runs or that PendSV is about to
\* switch to, and a pending switch is never to the running task itself.
THEOREM AtMostOneActive == Spec => []OneActive
<1>1. Invariant => OneActive
  <2>. SUFFICES ASSUME Invariant PROVE OneActive
    OBVIOUS
  <2>1. CASE osg.state = "STARTED"
    BY <2>1, NoInterrupts DEF Invariant, Scheduling, OneActive, Chosen
  <2>2. CASE osg.state # "STARTED"
    BY <2>2 DEF Invariant, OneActive
  <2>. QED  BY <2>1, <2>2
<1>. QED  BY <1>1, InvariantHolds, PTL

-----------------------------------------------------------------------------
(***************************************************************************)
(* A disciplined application: no task suspends itself, no delay is 0 and   *)
(* no task but the idle task has its priority, 0.  Without each of these   *)
(* an assertion can fail (see the findings and hazards in PROJECT.json).   *)
(***************************************************************************)
Disciplined == "suspend_self" \notin Calls /\ 0 \notin Delays /\ 0 \notin StartPriorities

\* Nobody is inside a call on an object.
NoCaller == [t \in Tasks |-> None]

SafeInvariant == Invariant /\ Healthy(osg, NoCaller)

\* t's time has come, or it is restarted.
WokenInTime(t) ==
    osg.status[t] = "WAIT" /\ osg.delay[t] > 1 /\ osg'.status[t] # "WAIT"
        => \E p \in StartPriorities : TaskStart(t, p)

\* Every action of a disciplined application.
LEMMA SafeStep ==
    ASSUME Disciplined, SafeInvariant, Next
    PROVE  /\ SafeInvariant' /\ Undisturbed(osg, osg', NoCaller)
           /\ SysTick /\ osg.scheduled = None => BestRuns(osg')
           /\ \A t \in Tasks : WokenInTime(t)
<1>1. NoCaller \in Callers /\ \A t \in Tasks : NoCaller[t] = None
  BY DEF NoCaller, Callers
<1>2. Invariant /\ Healthy(osg, NoCaller)
  BY DEF SafeInvariant
<1>3. Invariant'
  BY <1>2, BootStep, ExceptionStep, ServiceStep, TaskStep DEF Next
<1>4. "suspend_self" \notin Calls /\ 0 \notin Delays /\ 0 \notin StartPriorities
  BY DEF Disciplined
<1>5. SysTick /\ osg.scheduled = None => BestRuns(osg')
  BY <1>1, <1>2, TickHealthy
<1>. DEFINE Good == Healthy(osg', NoCaller) /\ Undisturbed(osg, osg', NoCaller)
<1>6. SleepOn(osg, osg', Tasks) => \A t \in Tasks : WokenInTime(t)
  BY DEF SleepOn, WokenInTime
<1>7. Good /\ \A t \in Tasks : WokenInTime(t)
  <2>. HIDE DEF Good
  <2>1. CASE Boot
    BY <1>1, <1>2, <1>4, <1>6, <2>1, BootHealthy DEF Good
  <2>2. CASE SysTick
    BY <1>1, <1>2, <1>6, <2>2, TickHealthy DEF Good
  <2>3. CASE PendSV
    BY <1>1, <1>2, <1>6, <2>3, PendHealthy DEF Good
  <2>4. CASE (\E ms \in Delays : Delay(ms)) \/ Panic \/ Abort \/ Finish
    <3>1. InThread
      BY <2>4 DEF Delay, Panic, Abort, Finish, InTask
    <3>2. osg.running \in Tasks
      BY <1>2, <3>1, InThreadFacts
    <3>. QED  BY <1>1, <1>2, <1>4, <1>6, <2>4, <3>2, ServiceHealthy DEF Good
  <2>5. ASSUME NEW t \in Tasks, Suspend(t) \/ Resume(t) PROVE Good /\ SleepOn(osg, osg', Tasks)
    BY <1>1, <1>2, <1>4, <2>5, SuspendHealthy DEF Good
  <2>6. ASSUME NEW t \in Tasks, NEW p \in StartPriorities, TaskStart(t, p)
        PROVE  Good /\ \A u \in Tasks : WokenInTime(u)
    <3>1. Good /\ SleepOn(osg, osg', Tasks \ {t})
      BY <1>1, <1>2, <1>4, <2>6, StartHealthy DEF Good
    <3>. QED  BY <2>6, <3>1 DEF SleepOn, WokenInTime
  <2>. QED  BY <1>6, <2>1, <2>2, <2>3, <2>4, <2>5, <2>6 DEF Next
<1>. QED  BY <1>3, <1>5, <1>7 DEF SafeInvariant

\* The initial state and stuttering steps.
LEMMA SafeHolds == ASSUME Disciplined PROVE Spec => []SafeInvariant
<1>1. Init => SafeInvariant
  BY InitInvariant, InitHealthy DEF SafeInvariant, Init, NoCaller
<1>2. SafeInvariant /\ [Next]_vars => SafeInvariant'
  <2>1. ASSUME SafeInvariant, UNCHANGED vars PROVE SafeInvariant'
    BY <2>1, StutterStep DEF SafeInvariant, vars, NoCaller, Healthy
  <2>. QED  BY <2>1, SafeStep
<1>. QED  BY <1>1, <1>2, PTL DEF Spec

\* No OS_ASSERT of os.c or service.c ever fails and no walk is endless: what
\* each asserts follows from SafeInvariant.
THEOREM NoAssertionFails == ASSUME Disciplined PROVE Spec => []NeverHalts
<1>1. SafeInvariant => NeverHalts
  BY DEF SafeInvariant, Healthy, NeverHalts
<1>. QED  BY <1>1, SafeHolds, PTL

\* Whoever osi_schedule gives the processor to is outranked by no ready task,
\* wherever the walk of find_new_task begins and whoever it wakes first.
THEOREM ChoosesTheBest == ASSUME Disciplined PROVE Spec => BestIsChosen
<1>. DEFINE A == (Chosen(osg) # None /\ Chosen(osg') # Chosen(osg))
                    \/ (SysTick /\ osg.scheduled = None)
                 => Best(osg', Chosen(osg'))
<1>1. ASSUME SafeInvariant, Next PROVE A
  <2>. SUFFICES ASSUME (Chosen(osg) # None /\ Chosen(osg') # Chosen(osg))
                          \/ (SysTick /\ osg.scheduled = None)
                PROVE  Best(osg', Chosen(osg'))
    OBVIOUS
  <2>1. SafeInvariant' /\ Undisturbed(osg, osg', NoCaller)
          /\ (SysTick /\ osg.scheduled = None => BestRuns(osg'))
    BY <1>1, SafeStep
  <2>2. BestRuns(osg')
    BY <2>1 DEF Undisturbed
  <2>3. osg.state = "STARTED"
    BY <1>1, NoneAssumption DEF SafeInvariant, Invariant, Chosen, SysTick
  <2>4. Scheduling(osg')
    BY <2>1, <2>3 DEF Undisturbed, SafeInvariant, Invariant
  <2>5. Chosen(osg') # None
    BY <2>4, NoneAssumption DEF Scheduling, Chosen
  <2>. QED  BY <2>2, <2>5 DEF Best, BestRuns, Chosen
<1>2. SafeInvariant /\ [Next]_vars => [A]_vars
  BY <1>1
<1>. QED  BY <1>2, SafeHolds, PTL DEF Spec, BestIsChosen

\* osi_schedule wakes whose time has come, and nothing else wakes a sleeper
\* but a restart.
THEOREM NobodyWakesEarly == ASSUME Disciplined PROVE Spec => NoEarlyWake
<1>1. SafeInvariant /\ [Next]_vars => [\A t \in Tasks : WokenInTime(t)]_vars
  BY SafeStep
<1>2. [\A t \in Tasks : WokenInTime(t)]_vars <=>
      [\A t \in Tasks :
        osg.status[t] = "WAIT" /\ osg.delay[t] > 1 /\ osg'.status[t] # "WAIT"
            => \E p \in StartPriorities : TaskStart(t, p)]_vars
  BY DEF WokenInTime
<1>. QED  BY <1>1, <1>2, SafeHolds, PTL DEF Spec, NoEarlyWake

=============================================================================
