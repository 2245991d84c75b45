------------------------------- MODULE RwLock -------------------------------
(***************************************************************************)
(* The reader-writer locks of arduino-osh (rwlock.c) and the tasks that    *)
(* use them, on top of the scheduler.  As with a mutex, acquiring is the   *)
(* service call and its return into the task.  A release lets in the first *)
(* waiting writer, like a mutex, or one reader, whom it only moves to the  *)
(* runqueue.                                                               *)
(***************************************************************************)
EXTENDS Handlers

CONSTANTS
    ReadTimeouts, WriteTimeouts,     \* the timeouts of os_rwlock_acquire_*
    MaxNesting,                      \* how often a task enters a lock at once
    SuspendsAcquirers,  \* may the application suspend a task inside an acquire?
    RestartsAcquirers   \* may it restart one?

ASSUME AllRwLocks == \A o \in Objects : Kind[o] = "rwlock"
ASSUME TimeoutsAssumption == ReadTimeouts \cup WriteTimeouts \subseteq 0 .. Forever
ASSUME NestingAssumption == MaxNesting \in Nat \ {0}
ASSUME SuspendsAssumption == SuspendsAcquirers \in BOOLEAN
ASSUME RestartsAssumption == RestartsAcquirers \in BOOLEAN

VARIABLES
    rwlock,   \* rwlock[o]: readers, writers and writer
    desired,  \* desired[t]: task->c.desired
    calling,  \* calling[t]: the acquire t is inside of
    held      \* held[t][o][mode]: acquires that returned to t, less releases

vars == <<osg, rwlock, desired, calling, held>>

Modes == {"READ", "WRITE"}
Acquires == [mode: Modes, lock: Objects]

ASSUME NoAcquireAssumption == None \notin Acquires

\* osi_rwlock_create
Created == [readers |-> 0, writers |-> 0, writer |-> None]

Init ==
    /\ Zeroed
    /\ rwlock = [o \in Objects |-> Created]
    /\ desired = [t \in Tasks |-> "NONE"]
    /\ calling = [t \in Tasks |-> None]
    /\ held = [t \in Tasks |-> [o \in Objects |-> [mode \in Modes |-> 0]]]

\* osi_dispatch clears c.desired with the flags of a task that was blocked,
\* and so does os_task_start_options.
Desiring(d, g) == [t \in Tasks |-> IF g.flags[t] = {} THEN "NONE" ELSE d[t]]

(***************************************************************************)
(* Steps of the scheduler and calls that do not concern a lock.            *)
(***************************************************************************)
AtACall == InThread /\ calling[osg.running] = None

Background ==
    /\ Boot \/ SysTick \/ PendSV
    /\ desired' = Desiring(desired, osg')
    /\ UNCHANGED <<rwlock, calling, held>>

OtherCall ==
    /\ AtACall
    /\ (\E ms \in Delays : Delay(ms)) \/ Panic \/ Abort \/ Finish
    /\ desired' = Desiring(desired, osg')
    /\ UNCHANGED <<rwlock, calling, held>>

SuspendOrResume(t) ==
    /\ AtACall
    /\ calling[t] = None \/ SuspendsAcquirers
    /\ Suspend(t) \/ Resume(t)
    /\ desired' = Desiring(desired, osg')
    /\ UNCHANGED <<rwlock, calling, held>>

\* A restarted task begins anew; locks it is in count it on.
Restart(t, p) ==
    /\ AtACall
    /\ calling[t] = None \/ RestartsAcquirers
    /\ TaskStart(t, p)
    /\ desired' = Desiring(desired, osg')
    /\ calling' = [calling EXCEPT ![t] = None]
    /\ UNCHANGED <<rwlock, held>>

(***************************************************************************)
(* osi_rwlock_acquire_read, osi_rwlock_acquire_write                       *)
(***************************************************************************)
\* Mutant of CanEnter: a writer looks at the writers only.
WriterPassesReaders(r, mode) == r.writers = 0

CanEnter(r, mode) == r.writers = 0 /\ (mode = "WRITE" => r.readers = 0)

Entered(r, mode, t) ==
    IF mode = "READ" THEN [r EXCEPT !.readers = @ + 1]
    ELSE [r EXCEPT !.writers = @ + 1, !.writer = t]

Acquire(o, mode, to) ==
    LET t == osg.running
        r == rwlock[o]
        checked == OsAssert(osg, osg.waits[t] \subseteq {o}, "rwlock.c:42")
    IN  /\ InTask /\ AtACall
        /\ held[t][o]["READ"] + held[t][o]["WRITE"] < MaxNesting
        /\ calling' = [calling EXCEPT ![t] = [mode |-> mode, lock |-> o]]
        /\ \/ /\ CanEnter(r, mode)
              /\ rwlock' = [rwlock EXCEPT ![o] = Entered(@, mode, t)]
              /\ osg' = SvcReturn(checked, t, Returning("SUCCESS"))
              /\ UNCHANGED desired
           \/ /\ ~CanEnter(r, mode) /\ to = 0
              /\ osg' = SvcReturn(checked, t, Returning("TO"))
              /\ UNCHANGED <<rwlock, desired>>
           \/ /\ ~CanEnter(r, mode) /\ to # 0
              /\ osg' = SvcReturn(SvcBlock(BlockedAppend(checked, o, t), to, "rwlock"),
                                  t, Returning("TO"))
              /\ desired' = Desiring([desired EXCEPT ![t] = mode], osg')
              /\ UNCHANGED rwlock
        /\ UNCHANGED held

\* Back in the task: a writer asserts that it is alone.
AcquireReturns ==
    LET t == osg.running
        o == calling[t].lock
        mode == calling[t].mode
        entered == osg.ret[t].status = "SUCCESS"
        alone == rwlock[o].readers = 0 /\ rwlock[o].writers = 1
    IN  /\ InTask
        /\ calling[t] # None
        /\ calling' = [calling EXCEPT ![t] = None]
        /\ held' = IF entered THEN [held EXCEPT ![t][o][mode] = @ + 1] ELSE held
        /\ osg' = OsAssert(osg, entered /\ mode = "WRITE" => alone, "service.c:299")
        /\ UNCHANGED <<rwlock, desired>>

(***************************************************************************)
(* osi_rwlock_release                                                      *)
(***************************************************************************)

\* The lock after its caller has left it.
Left(r) ==
    LET reader == IF r.readers > 0 THEN [r EXCEPT !.readers = @ - 1] ELSE r
    IN  IF r.writers > 0 THEN [reader EXCEPT !.writers = @ - 1, !.writer = None] ELSE reader

\* Mutant of Unlisted: the result written by osi_rwlock_acquire_* stands.
UnlistedOnly(g, o, t) == [g EXCEPT !.blocked[o] = RemoveFirst(@, t)]

Unlisted(g, o, t) ==
    [g EXCEPT !.blocked[o] = RemoveFirst(@, t), !.ret[t].status = "SUCCESS"]

\* Mutant of FirstReader: a release looks for writers only.
NoReader(o) == None

\* The reader a release lets in, also when writers are before it.  The loop
\* clears the link it goes on by, so that there is never a second one.
FirstReader(o) == FirstOf(osg.blocked[o], {t \in Tasks : desired[t] = "READ"})

\* A task releases what it holds.
Release(o) ==
    LET t == osg.running
        r == rwlock[o]
        left == Left(r)
        waiting == osg.blocked[o]
        asserted == OsAssert(osg, r.readers > 0 \/ r.writers = 1, "rwlock.c:88")
        checked == OsAssert(asserted, r.writers > 0 => r.writer = t, "rwlock.c:95")
        writerNext == waiting # <<>> /\ left.readers = 0 /\ desired[Head(waiting)] = "WRITE"
        next == IF writerNext THEN Head(waiting) ELSE FirstReader(o)
        mode == IF held[t][o]["READ"] > 0 THEN "READ" ELSE "WRITE"
    IN  /\ InTask /\ AtACall
        /\ held[t][o][mode] > 0
        /\ held' = [held EXCEPT ![t][o][mode] = @ - 1]
        /\ \/ /\ next = None
              /\ rwlock' = [rwlock EXCEPT ![o] = left]
              /\ osg' = SvcReturn(checked, t, Returning("SUCCESS"))
              /\ UNCHANGED desired
           \/ /\ next # None
              /\ rwlock' = [rwlock EXCEPT ![o] = Entered(left, desired[next], next)]
              /\ osg' = SvcReturn(IF writerNext
                                  THEN DispatchOrQueue(Unlisted(checked, o, next), next)
                                  ELSE StatusSet(Unlisted(checked, o, next), next, "IDLE"),
                                  t, Returning("SUCCESS"))
              /\ desired' = Desiring([desired EXCEPT ![next] = "NONE"], osg')
        /\ UNCHANGED calling

(***************************************************************************)
(* The specification.                                                      *)
(***************************************************************************)
Next ==
    \/ Background
    \/ OtherCall
    \/ \E t \in Tasks : SuspendOrResume(t)
    \/ \E t \in Tasks, p \in StartPriorities : Restart(t, p)
    \/ \E o \in Objects, to \in ReadTimeouts : Acquire(o, "READ", to)
    \/ \E o \in Objects, to \in WriteTimeouts : Acquire(o, "WRITE", to)
    \/ AcquireReturns
    \/ \E o \in Objects : Release(o)

Spec == Init /\ [][Next]_vars

\* ENABLED of AcquireReturns and of Release(o), when t runs.
CanReturn(t) == InTask /\ osg.running = t /\ calling[t] # None
CanRelease(t, o) ==
    /\ InTask /\ osg.running = t /\ calling[t] = None
    /\ \E mode \in Modes : held[t][o][mode] > 0

\* The clock and PendSV go on; a task that runs again and again leaves its
\* acquire and releases what it holds, as in Mutex.
FairSpec ==
    /\ Spec
    /\ Fairness
    /\ \A t \in Tasks :
           /\ []<>CanReturn(t) => []<><<CanReturn(t) /\ AcquireReturns>>_vars
           /\ \A o \in Objects :
                  []<>CanRelease(t, o) => []<><<CanRelease(t, o) /\ Release(o)>>_vars

(***************************************************************************)
(* Properties.                                                             *)
(***************************************************************************)

\* The types of types.h, and one writer at most.
TypeOK ==
    /\ osg \in Kernel
    /\ rwlock \in [Objects -> [readers: Nat, writers: 0 .. 1, writer: Tasks \cup {None}]]
    /\ desired \in [Tasks -> Modes \cup {"NONE"}]
    /\ calling \in [Tasks -> Acquires \cup {None}]
    /\ held \in [Tasks -> [Objects -> [Modes -> 0 .. MaxNesting]]]

\* No OS_ASSERT of os.c, service.c, utilities.h or rwlock.c fails, and the
\* queues and the switching of the scheduler survive what the locks do: a
\* release moves a reader between the queues itself.
KernelSurvives == TypeOK /\ Invariant /\ osg.halted = {}

\* t holds o in this way, or will learn on its return that it does.
Holds(t, o, mode) ==
    held[t][o][mode] +
        (IF calling[t] = [mode |-> mode, lock |-> o] /\ osg.ret[t].status = "SUCCESS"
         THEN 1 ELSE 0)

\* Each entry of a reader, one for each time it has entered.
Reads(o) == {e \in Tasks \X (1 .. MaxNesting) : e[2] <= Holds(e[1], o, "READ")}

\* The lock counts exactly the readers and the writer that know, or are
\* about to learn, that they are in, also when a time-out and a release met.
Agreement ==
    \A o \in Objects :
        /\ rwlock[o].readers = Cardinality(Reads(o))
        /\ \A t \in Tasks :
               Holds(t, o, "WRITE") = IF rwlock[o].writer = t THEN rwlock[o].writers ELSE 0

\* A writer is alone from the moment it is let in until its release.
Exclusion ==
    \A o \in Objects : rwlock[o].writers > 0 => rwlock[o].readers = 0

\* Nobody waits at a lock that nobody is in: the last release always lets
\* somebody in, although it looks at one writer or one reader only.
NobodyWaitsOutside ==
    \A o \in Objects : osg.blocked[o] # <<>> => rwlock[o].readers + rwlock[o].writers > 0

\* A task asleep in an acquire is in the list, desiring what it asked for.
WaitersAreListed ==
    \A o \in Objects, t \in Tasks :
        /\ calling[t] # None /\ osg.status[t] = "WAIT" =>
               Contains(osg.blocked[calling[t].lock], t)
        /\ Contains(osg.blocked[o], t) =>
               /\ calling[t] = [mode |-> desired[t], lock |-> o]
               /\ osg.ret[t].status = "TO" /\ osg.waits[t] = {o}

\* Whoever waits to read for ever gets in: releases reach the readers behind
\* waiting writers, and in the end the first of them.
ReadersEnter ==
    \A t \in Tasks, o \in Objects :
        calling[t] = [mode |-> "READ", lock |-> o] /\ osg.status[t] = "WAIT"
            /\ osg.delay[t] = Forever
            ~> held[t][o]["READ"] > 0

\* types.h: the runqueue is the "Queue of tasks waiting for a turn to run",
\* also when a release lets in a reader whose time-out has just passed.
ReadyTasksAreQueued ==
    \A t \in Ready(osg) : Contains(osg.runqueue, t)

=============================================================================
