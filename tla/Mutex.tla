------------------------------- MODULE Mutex -------------------------------
(***************************************************************************)
(* The mutexes of arduino-osh (mutex.c) and the tasks that use them, on    *)
(* top of the scheduler.  A task's os_mutex_acquire is two steps: the      *)
(* service call, in which the task may be switched away and wait, and its  *)
(* return into the task, which reads the status left in the task's frame.  *)
(* Between the two a release may grant the mutex to the task, its time may *)
(* run out, or both.                                                       *)
(***************************************************************************)
EXTENDS Handlers

CONSTANTS
    Timeouts,          \* the timeouts of os_mutex_acquire
    AbortOnTimeout,    \* the mutexes with OS_MUTEX_FLAG_ABORT_ON_TIMEOUT
    Levels,            \* 2^16: mutex->level is a uint16_t
    MaxNesting,        \* how often the application nests acquires
    SuspendsAcquirers  \* may it suspend a task inside os_mutex_acquire?

ASSUME AllMutexes == \A o \in Objects : Kind[o] = "mutex"
ASSUME TimeoutsAssumption == Timeouts \subseteq 0 .. Forever
ASSUME AbortAssumption == AbortOnTimeout \subseteq Objects
ASSUME LevelsAssumption == Levels \in Nat \ {0, 1} /\ MaxNesting \in 1 .. Levels
ASSUME SuspendsAssumption == SuspendsAcquirers \in BOOLEAN

VARIABLES
    mutex,    \* mutex[o]: owner and level
    calling,  \* calling[t]: the mutex t is inside os_mutex_acquire of
    held      \* held[t][o]: acquires of o that returned to t, less releases

vars == <<osg, mutex, calling, held>>

\* osi_mutex_create
Created == [owner |-> None, level |-> 0]

Init ==
    /\ Zeroed
    /\ mutex = [o \in Objects |-> Created]
    /\ calling = [t \in Tasks |-> None]
    /\ held = [t \in Tasks |-> [o \in Objects |-> 0]]

(***************************************************************************)
(* Steps of the scheduler and calls that do not concern a mutex.           *)
(***************************************************************************)
AtACall == InThread /\ calling[osg.running] = None

Background ==
    /\ Boot \/ SysTick \/ PendSV
    /\ UNCHANGED <<mutex, calling, held>>

Call ==
    /\ AtACall
    /\ (\E ms \in Delays : Delay(ms)) \/ Panic \/ Abort \/ Finish
    /\ UNCHANGED <<mutex, calling, held>>

SuspendOrResume(t) ==
    /\ AtACall
    /\ calling[t] = None \/ SuspendsAcquirers
    /\ Suspend(t) \/ Resume(t)
    /\ UNCHANGED <<mutex, calling, held>>

\* A restarted task begins anew; mutexes it owns stay its own.
Restart(t, p) ==
    /\ AtACall
    /\ TaskStart(t, p)
    /\ calling' = [calling EXCEPT ![t] = None]
    /\ UNCHANGED <<mutex, held>>

(***************************************************************************)
(* os_mutex_acquire                                                        *)
(***************************************************************************)

\* mutex->level++ of a uint16_t.  The limit of mutex.c:65 is UINT32_MAX,
\* which it never reaches.
Deeper(level) == (level + 1) % Levels

\* osi_mutex_acquire: take a free mutex, take one's own again, give up at
\* once, or block.
Acquire(o, to) ==
    LET t == osg.running
        m == mutex[o]
        checked == OsAssert(osg, osg.waits[t] \subseteq {o}, "mutex.c:55")
    IN  /\ InTask /\ AtACall
        /\ held[t][o] < MaxNesting
        /\ calling' = [calling EXCEPT ![t] = o]
        /\ \/ /\ m.level = 0
              /\ mutex' = [mutex EXCEPT ![o] = [owner |-> t, level |-> 1]]
              /\ osg' = SvcReturn(checked, t, Returning("SUCCESS"))
           \/ /\ m.level # 0 /\ m.owner = t
              /\ mutex' = [mutex EXCEPT ![o].level = Deeper(@)]
              /\ osg' = SvcReturn(checked, t, Returning("SUCCESS"))
           \/ /\ m.level # 0 /\ m.owner # t /\ to = 0
              /\ mutex' = mutex
              /\ osg' = SvcReturn(checked, t, Returning("TO"))
           \/ /\ m.level # 0 /\ m.owner # t /\ to # 0
              /\ mutex' = mutex
              /\ osg' = SvcReturn(SvcBlock(BlockedAppend(checked, o, t), to, "mutex"),
                                  t, Returning("TO"))
        /\ UNCHANGED held

\* Back in the task, which looks at the status it was given.
AcquireReturns ==
    LET t == osg.running
        o == calling[t]
        status == osg.ret[t].status
    IN  /\ InTask
        /\ o # None
        /\ calling' = [calling EXCEPT ![t] = None]
        /\ held' = IF status = "SUCCESS" THEN [held EXCEPT ![t][o] = @ + 1] ELSE held
        /\ osg' = IF status = "TO" /\ o \in AbortOnTimeout
                  THEN SvcReturn(SvcLeave(osg, "ABORTED"), t, Returning("SUCCESS"))
                  ELSE osg
        /\ UNCHANGED mutex

(***************************************************************************)
(* os_mutex_release                                                        *)
(***************************************************************************)

\* The first blocked task becomes the owner, and its acquire succeeds.
Grant(g, o) ==
    LET t == Head(g.blocked[o])
    IN  DispatchOrQueue([BlockedDequeue(g, o) EXCEPT !.ret[t].status = "SUCCESS"], t)

\* A task releases what it holds.
Release(o) ==
    LET t == osg.running
        m == mutex[o]
        checked == OsAssert(OsAssert(osg, m.level > 0, "mutex.c:83"), m.owner = t, "mutex.c:84")
        last == OsAssert(checked, osg.waits[t] = {}, "mutex.c:92")
        waiters == osg.blocked[o]
    IN  /\ InTask /\ AtACall
        /\ held[t][o] > 0
        /\ held' = [held EXCEPT ![t][o] = @ - 1]
        /\ \/ /\ m.level # 1
              /\ mutex' = [mutex EXCEPT ![o].level = (@ - 1) % Levels]
              /\ osg' = SvcReturn(checked, t, Returning("SUCCESS"))
           \/ /\ m.level = 1 /\ waiters = <<>>
              /\ mutex' = [mutex EXCEPT ![o] = Created]
              /\ osg' = SvcReturn(last, t, Returning("SUCCESS"))
           \/ /\ m.level = 1 /\ waiters # <<>>
              /\ mutex' = [mutex EXCEPT ![o] = [owner |-> Head(waiters), level |-> 1]]
              /\ osg' = SvcReturn(Grant(last, o), t, Returning("SUCCESS"))
        /\ UNCHANGED calling

(***************************************************************************)
(* The specification.                                                      *)
(***************************************************************************)
Next ==
    \/ Background
    \/ Call
    \/ \E t \in Tasks : SuspendOrResume(t)
    \/ \E t \in Tasks, p \in StartPriorities : Restart(t, p)
    \/ \E o \in Objects, to \in Timeouts : Acquire(o, to)
    \/ AcquireReturns
    \/ \E o \in Objects : Release(o)

Spec == Init /\ [][Next]_vars

\* ENABLED of AcquireReturns and of Release(o), when t runs.
CanReturn(t) == InTask /\ osg.running = t /\ calling[t] # None
CanRelease(t, o) ==
    InTask /\ osg.running = t /\ calling[t] = None /\ held[t][o] > 0

\* The clock and PendSV go on.  A task that gets the processor again and
\* again leaves os_mutex_acquire and, in the end, releases what it holds:
\* SF_vars of the two actions, written out as in Scheduler.
FairSpec ==
    /\ Spec
    /\ Fairness
    /\ \A t \in Tasks :
           /\ []<>CanReturn(t) => []<><<CanReturn(t) /\ AcquireReturns>>_vars
           /\ \A o \in Objects :
                  []<>CanRelease(t, o) => []<><<CanRelease(t, o) /\ Release(o)>>_vars

(***************************************************************************)
(* Properties.                                                             *)
(***************************************************************************)

\* The types of types.h; a level fits its uint16_t.
TypeOK ==
    /\ osg \in Kernel
    /\ mutex \in [Objects -> [owner: Tasks \cup {None}, level: 0 .. Levels - 1]]
    /\ calling \in [Tasks -> Objects \cup {None}]
    /\ held \in [Tasks -> [Objects -> 0 .. MaxNesting]]

\* The queues and the switching of the scheduler survive what mutexes do to
\* them: a granted task moves between the queues inside osi_dispatch.
KernelSurvives == TypeOK /\ Invariant

\* t has been told, or will be on its return, that it has o.
Succeeding(t, o) == calling[t] = o /\ osg.ret[t].status = "SUCCESS"

\* The mutex and the tasks agree on who has it and how often, also while
\* the owner has not seen its grant yet, and also when a release grants the
\* mutex to a task whose time-out has just passed.
Agreement ==
    \A o \in Objects, t \in Tasks :
        held[t][o] + (IF Succeeding(t, o) THEN 1 ELSE 0)
            = IF mutex[o].owner = t THEN mutex[o].level ELSE 0

\* A task asleep for a mutex is in the list a release looks at, so that its
\* grant cannot be lost; and who is in the list has not returned from its
\* call with a time-out.
WaitersAreListed ==
    \A o \in Objects, t \in Tasks :
        /\ calling[t] = o /\ osg.status[t] = "WAIT" =>
               Contains(osg.blocked[o], t) /\ mutex[o].owner \notin {None, t}
        /\ Contains(osg.blocked[o], t) =>
               calling[t] = o /\ osg.ret[t].status = "TO" /\ o \in osg.waits[t]

\* No OS_ASSERT of os.c, service.c, utilities.h or mutex.c fails.
NeverHalts == osg.halted = {}

\* A task asleep before its time-out is woken by a grant, or restarted.
WokenByGrant ==
    [][\A t \in Tasks :
        osg.status[t] = "WAIT" /\ osg.delay[t] > 1 /\ osg'.status[t] # "WAIT"
            => calling[t] # None /\ mutex'[calling[t]].owner = t]_vars

\* The locks the mutexes are: owner, level and list of blocked tasks.
L == INSTANCE Lock WITH
    Locks <- Objects,
    lock <- [o \in Objects |-> [holder |-> mutex[o].owner, depth |-> mutex[o].level,
                                queue |-> osg.blocked[o]]]

\* The mutexes are locks with first-come first-served queues (Lock.tla),
\* whatever the scheduler and the other mutexes do.
ImplementsLock == L!Spec

\* Among tasks of one priority, whoever waits for a mutex for ever gets it.
Granted ==
    \A t \in Tasks, o \in Objects :
        calling[t] = o /\ osg.status[t] = "WAIT" /\ osg.delay[t] = Forever
            ~> held[t][o] > 0

=============================================================================
