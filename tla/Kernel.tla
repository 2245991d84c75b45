------------------------------- MODULE Kernel -------------------------------
(***************************************************************************)
(* The kernel of arduino-osh: os.c and the parts of service.c and          *)
(* utilities.h every service shares.  There are no variables here.  The C  *)
(* global `osg' and the task structures it links are one record, and each  *)
(* C function that changes them is an operator from a kernel record to a   *)
(* kernel record; a component module keeps the record in its variable osg  *)
(* and composes these operators into one action per handler.               *)
(*                                                                         *)
(* Fields that are not one C field each:                                   *)
(*   runqueue, waitqueue  the lists linked by nrp, as sequences            *)
(*   blocked[o]           the list linked by nblocked that object o heads  *)
(*   waits[t]             the objects the pointers task->mutex, ->queue,   *)
(*                        ->semaphore and ->rwlock point to                *)
(*   delay[t]             task->delay less os_uptime(), never below 0      *)
(*   ret[t]               the r0, r1 that t will see when its service call *)
(*                        returns (osi_task_stacked_return_tuple)          *)
(*   halted               the OS_ASSERTs that failed, by source line: a    *)
(*                        failed assertion resets the MCU                  *)
(***************************************************************************)
EXTENDS Integers, SequencesExt

CONSTANTS
    Tasks,        \* the os_task_t structures of the application
    None,         \* NULL
    MaxPriority,  \* OS_PRIORITY_HIGHEST (0xff)
    Forever,      \* UINT32_MAX as a timeout or delay
    Objects,      \* the mutexes, queues, semaphores and rwlocks
    Kind,         \* Kind[o]: which of the four o is
    Messages      \* what a queue carries

Kinds == {"mutex", "queue", "semaphore", "rwlock"}

ASSUME NoneAssumption == None \notin Tasks \cup Messages \cup Objects \cup Kinds
ASSUME MaxPriorityAssumption == MaxPriority \in Nat
ASSUME ForeverAssumption == Forever \in Nat \ {0}
ASSUME KindAssumption == Kind \in [Objects -> Kinds]

(***************************************************************************)
(* types.h                                                                 *)
(***************************************************************************)
RunningStatus == {"IDLE", "ACTIVE"}          \* os_task_status_is_running
LeftStatus == {"FINISHED", "PANIC", "ABORTED"}
Statuses == RunningStatus \cup LeftStatus \cup {"WAIT", "SUSPENDED", "NEW"}
OsStates == {"DEFAULT", "INITIALIZED", "TASKS_INITIALIZED", "STARTED"}

\* OS_TASK_FLAG_*: the bits of each flag.  SEMAPHORE is 3, not 4.
FlagBits == {1, 2, 4}
Flag == [mutex |-> {1}, queue |-> {2}, semaphore |-> {1, 2}, rwlock |-> {4}]

IdlePriority == 0

Codes == {"SUCCESS", "ERROR", "TO", "MEM"}
Return == [status: Codes, value: Messages \cup {None}]
Returning(code) == [status |-> code, value |-> None]

\* The OS_ASSERTs a step can fail, and a walk that does not end.
Halts == {"os.c:370", "os.c:465", "os.c:582", "os.c:624 endless walk",
          "os.c:907", "os.c:946", "os.c:1042", "service.c:21", "service.c:40",
          "service.c:56", "blocked_append", "blocked_enq", "blocked_deq",
          "mutex.c:55", "mutex.c:83", "mutex.c:84", "mutex.c:92", "queue.c nblocked",
          "rwlock.c:42", "rwlock.c:88", "rwlock.c:95", "service.c:299", "semaphore.c:47"}

Kernel ==
    [state: OsStates, running: Tasks \cup {None}, scheduled: Tasks \cup {None},
     idle: Tasks \cup {None}, tasks: SUBSET Tasks,
     runqueue: Seq(Tasks), waitqueue: Seq(Tasks),
     status: [Tasks -> Statuses], priority: [Tasks -> 0 .. MaxPriority],
     delay: [Tasks -> 0 .. Forever], flags: [Tasks -> SUBSET FlagBits],
     waits: [Tasks -> SUBSET Objects], blocked: [Objects -> Seq(Tasks)],
     ret: [Tasks -> Return], halted: SUBSET Halts]

\* The zeroed osg and task structures a program starts with.
ZeroKernel ==
    [state |-> "DEFAULT", running |-> None, scheduled |-> None,
     idle |-> None, tasks |-> {}, runqueue |-> <<>>, waitqueue |-> <<>>,
     status |-> [t \in Tasks |-> "NEW"], priority |-> [t \in Tasks |-> 0],
     delay |-> [t \in Tasks |-> 0], flags |-> [t \in Tasks |-> {}],
     waits |-> [t \in Tasks |-> {}], blocked |-> [o \in Objects |-> <<>>],
     ret |-> [t \in Tasks |-> Returning("SUCCESS")], halted |-> {}]

\* OS_ASSERT(condition) at line `where': osi_assert resets the MCU.
OsAssert(g, condition, where) ==
    IF condition THEN g ELSE [g EXCEPT !.halted = @ \cup {where}]

(***************************************************************************)
(* Walks along a list: the position of the first element of s that is in   *)
(* S, or 0, and that element, or NULL.                                     *)
(***************************************************************************)
FirstIndex(s, S) == SelectInSeq(s, LAMBDA u : u \in S)
FirstOf(s, S) == IF FirstIndex(s, S) = 0 THEN None ELSE s[FirstIndex(s, S)]

(***************************************************************************)
(* The two scheduler lists.                                                *)
(***************************************************************************)

\* Mutant of Slot: the walk compares nothing and links in at the tail.
SlotAtTail(s, Behind) == Len(s) + 1

\* Where a walk of s links a task in: before the first element of Behind.
Slot(s, Behind) ==
    IF FirstIndex(s, Behind) = 0 THEN Len(s) + 1 ELSE FirstIndex(s, Behind)

Lower(g, t) == {u \in Tasks : g.priority[t] > g.priority[u]}
Later(g, t) == {u \in Tasks : g.delay[t] < g.delay[u]}

\* The walk sets task->nrp to NULL before it looks for the task, so adding
\* a task that is queued already cuts off everything behind it.
RunqueueAdd(g, t) ==
    LET queue == g.runqueue
        queued == Contains(queue, t)
        checked == OsAssert(g, queue = <<>> \/ g.status[t] \notin {"WAIT", "FINISHED"},
                          "os.c:946")
    IN  [checked EXCEPT !.runqueue =
            IF queued
            THEN SubSeq(queue, 1, FirstIndex(queue, {t}))
            ELSE InsertAt(queue, Slot(queue, Lower(g, t)), t)]

RunqueueRemove(g, t) == [g EXCEPT !.runqueue = RemoveFirst(@, t)]

WaitqueueAdd(g, t) ==
    LET queue == g.waitqueue
    IN  [OsAssert(g, ~Contains(queue, t), "os.c:1042") EXCEPT !.waitqueue =
            InsertAt(queue, Slot(queue, Later(g, t)), t)]

WaitqueueRemove(g, t) == [g EXCEPT !.waitqueue = RemoveFirst(@, t)]

\* Mutant of StatusSet: a task that starts to wait stays in the runqueue.
StatusSetKeepsQueued(g, t, new) ==
    LET set == [g EXCEPT !.status[t] = new]
    IN  IF new = "WAIT" THEN WaitqueueAdd(set, t)
        ELSE IF new = "IDLE" THEN RunqueueAdd(WaitqueueRemove(set, t), t)
        ELSE RunqueueRemove(WaitqueueRemove(set, t), t)

(***************************************************************************)
(* osi_task_status_set: the new status and the list moves it implies.      *)
(***************************************************************************)
StatusSet(g, t, new) ==
    LET set == [g EXCEPT !.status[t] = new]
    IN  CASE new = "WAIT" -> WaitqueueAdd(RunqueueRemove(set, t), t)
          [] new \in LeftStatus -> RunqueueRemove(set, t)
          [] new = "SUSPENDED" -> RunqueueRemove(WaitqueueRemove(set, t), t)
          [] new = "IDLE" ->
                RunqueueAdd(IF g.status[t] = "WAIT" THEN WaitqueueRemove(set, t)
                                                    ELSE set, t)

(***************************************************************************)
(* The lists of blocked tasks (utilities.h and each service's blocked_enq).*)
(***************************************************************************)
\* Mutant of BlockedAppend: the last to come is the first in the list.
BlockedPrepend(g, o, t) ==
    [g EXCEPT !.blocked[o] = <<t>> \o @,
              !.waits[t] = {p \in @ : Kind[p] # Kind[o]} \cup {o}]

BlockedAppend(g, o, t) ==
    LET sameKind == {p \in g.waits[t] : Kind[p] = Kind[o]}
        unlinked == /\ ~Contains(g.blocked[o], t)
                    /\ \A p \in Objects :
                           Contains(g.blocked[p], t) => Last(g.blocked[p]) = t
    IN  [OsAssert(OsAssert(g, unlinked, "blocked_append"), sameKind = {}, "blocked_enq")
            EXCEPT !.blocked[o] = Append(@, t),
                   !.waits[t] = (@ \ sameKind) \cup {o}]

\* Mutant of BlockedDequeue: the list is emptied.
BlockedClear(g, o) == [g EXCEPT !.blocked[o] = <<>>]

\* blocked_deq: the first blocked task leaves the list, its pointer stays.
BlockedDequeue(g, o) ==
    [OsAssert(g, o \in g.waits[Head(g.blocked[o])], "blocked_deq")
        EXCEPT !.blocked[o] = Tail(@)]

\* The flag tests of osi_dispatch, in their order.  The first that succeeds
\* clears the flags, so the later ones fail.
FlagTests == <<"mutex", "queue", "semaphore", "rwlock">>

\* Mutants of Unblock: the task stays in the list; its pointer stays set.
UnblockStaysListed(g, t) ==
    IF g.flags[t] = {} THEN g ELSE [g EXCEPT !.waits[t] = {}, !.flags[t] = {}]

UnblockKeepsPointer(g, t) ==
    IF g.flags[t] = {} THEN g
    ELSE [g EXCEPT !.blocked = [o \in Objects |-> RemoveFirst(@[o], t)],
                   !.flags[t] = {}]

\* A flagged task must wait for one object, of the flag's kind.  It leaves
\* that object's list, if it is still there, and forgets the object.
Unblock(g, t) ==
    LET kind == FirstOf(FlagTests, {k \in Kinds : Flag[k] \subseteq g.flags[t]})
        waitsForKind == \E o \in Objects : g.waits[t] = {o} /\ Kind[o] = kind
    IN  IF kind = None THEN g
        ELSE [OsAssert(g, waitsForKind, "os.c:465")
                EXCEPT !.blocked = [o \in Objects |->
                            IF o \in g.waits[t] THEN RemoveFirst(@[o], t) ELSE @[o]],
                       !.waits[t] = {o \in @ : Kind[o] # kind},
                       !.flags[t] = {}]

(***************************************************************************)
(* osi_dispatch: choose t to be switched to at the end of this exception.  *)
(***************************************************************************)
\* Mutant of Demote: a preempted task stays ACTIVE.
DemoteNobody(g) ==
    IF g.status[g.running] \in LeftStatus \cup {"SUSPENDED"}
    THEN RunqueueRemove(g, g.running) ELSE g

Demote(g) ==
    LET status == g.status[g.running]
    IN  IF status = "ACTIVE" THEN [g EXCEPT !.status[g.running] = "IDLE"]
        ELSE IF status \in LeftStatus \cup {"SUSPENDED"} THEN RunqueueRemove(g, g.running)
        ELSE g

\* Mutant of Activate: a task that was waiting does not change queues.
ActivateInPlace(g, t) ==
    [g EXCEPT !.delay[t] = 0, !.flags[t] = {}, !.status[t] = "ACTIVE",
              !.scheduled = t]

Activate(g, t) ==
    LET active == [g EXCEPT !.delay[t] = 0, !.flags[t] = {}, !.status[t] = "ACTIVE"]
        queued == IF g.status[t] = "WAIT"
                  THEN RunqueueAdd(WaitqueueRemove(active, t), t) ELSE active
    IN  [OsAssert(queued, t = g.idle => Len(queued.runqueue) = 1, "os.c:582")
            EXCEPT !.scheduled = t]

Dispatch(g, t) ==
    IF g.running = t THEN g
    ELSE Activate(Demote(Unblock(g, t)), t)

(***************************************************************************)
(* find_new_task: walk the runqueue once around, starting behind the       *)
(* running task, and stop at the first task of higher priority.            *)
(***************************************************************************)
Ready(g) == {u \in Tasks : g.status[u] \in RunningStatus}

\* Mutant of Walk: begins at the head of the runqueue.
WalkFromHead(g) == g.runqueue

\* The order of the walk.  A running task that has left the runqueue either
\* has no successor or one in the waitqueue, whose tasks are passed over.
Walk(g) ==
    LET queue == g.runqueue
        at == FirstIndex(queue, {g.running})
    IN  SubSeq(queue, at + 1, Len(queue)) \o SubSeq(queue, 1, at)

\* Mutants of FindNewTask: one never drops down in priority, one stops at
\* the first task that is not lower.
FindNoLowerTask(g) ==
    LET ours == g.priority[g.running]
        found == FirstOf(Walk(g), {u \in Ready(g) : g.priority[u] > ours})
    IN  IF found # None THEN found
        ELSE FirstOf(Walk(g), {u \in Ready(g) : g.priority[u] = ours})

FindFirst(g) ==
    LET ours == g.priority[g.running]
        found == FirstOf(Walk(g), {u \in Ready(g) : g.priority[u] >= ours})
    IN  IF found # None \/ g.running \in Ready(g) THEN found
        ELSE FirstOf(Walk(g), Ready(g))

FindNewTask(g) ==
    LET ours == g.priority[g.running]
        higher == {u \in Ready(g) : g.priority[u] > ours}
        equal == {u \in Ready(g) : g.priority[u] = ours}
        lower == {u \in Ready(g) : g.priority[u] < ours}
        found == FirstOf(Walk(g), higher)
        peer == FirstOf(Walk(g), equal)
    IN  IF found # None THEN found
        ELSE IF peer # None THEN peer
        ELSE IF g.running \in Ready(g) THEN None
        ELSE FirstOf(Walk(g), lower)

\* The walk ends when it is back at the first task or at the first lower
\* one.  Begun in the waitqueue it never meets its first task again.
WalkNeverEnds(g) ==
    LET at == FirstIndex(g.waitqueue, {g.running})
    IN  /\ at \in 1 .. Len(g.waitqueue) - 1
        /\ g.runqueue # <<>>
        /\ \A u \in ToSet(g.runqueue) \cap Ready(g) :
               g.priority[u] = g.priority[g.running]

(***************************************************************************)
(* osi_schedule                                                            *)
(***************************************************************************)

\* Mutant of WakeOne: one tick early.
WakeEarly(g) ==
    LET first == FirstOf(g.waitqueue, {u \in Tasks : g.delay[u] <= 1})
    IN  IF first = None THEN g ELSE StatusSet(g, first, "IDLE")

\* The first waiting task whose time has come, and only that one.
WakeOne(g) ==
    LET expired == {u \in Tasks : g.delay[u] = 0}
        first == FirstOf(g.waitqueue, expired)
    IN  IF first = None THEN g ELSE StatusSet(g, first, "IDLE")

\* Mutant of Schedule: looks for sleepers only when nothing else can run.
ScheduleBeforeWaking(g) ==
    LET new == FindNewTask(g)
        woken == WakeOne(g)
    IN  IF g.status[g.running] = "IDLE" \/ g.scheduled # None THEN g
        ELSE IF new \notin {None, g.running} THEN Dispatch(g, new)
        ELSE IF FindNewTask(woken) \in {None, g.running} THEN woken
        ELSE Dispatch(woken, FindNewTask(woken))

Schedule(g) ==
    IF g.status[g.running] = "IDLE" \/ g.scheduled # None THEN g
    ELSE LET woken == WakeOne(g)
             new == FindNewTask(woken)
         IN  IF WalkNeverEnds(woken) THEN OsAssert(woken, FALSE, "os.c:624 endless walk")
             ELSE IF new \in {None, g.running} THEN woken
             ELSE Dispatch(woken, new)

ScheduleIfNone(g) == IF g.scheduled = None THEN Schedule(g) ELSE g

HasHigherPriority(g, t) ==
    \E u \in ToSet(g.runqueue) \cap Ready(g) : g.priority[u] > g.priority[t]

\* What a service does with the task it has just granted something.
DispatchOrQueue(g, t) ==
    IF ~HasHigherPriority(g, t) THEN Dispatch(g, t)
    ELSE ScheduleIfNone(IF t \in Ready(g) THEN g ELSE StatusSet(g, t, "IDLE"))

(***************************************************************************)
(* service.c: giving up the processor inside a service call.               *)
(***************************************************************************)
AssertSwitching(g, where) ==
    OsAssert(g, g.scheduled \notin {None, g.running}, where)

\* Mutant of SvcDelay: waits for the next tick to find another task.
SvcDelayUnscheduled(g, ms) ==
    StatusSet([g EXCEPT !.delay[g.running] = ms], g.running, "WAIT")

SvcDelay(g, ms) ==
    LET timed == [OsAssert(g, g.scheduled # g.running, "service.c:21")
                    EXCEPT !.delay[g.running] = ms]
    IN  AssertSwitching(ScheduleIfNone(StatusSet(timed, g.running, "WAIT")),
                        "service.c:40")

SvcBlock(g, ms, kind) ==
    SvcDelay([g EXCEPT !.flags[g.running] = @ \cup Flag[kind]], ms)

\* svc_panic and svc_abort
SvcLeave(g, new) ==
    AssertSwitching(ScheduleIfNone(StatusSet(g, g.running, new)), "service.c:56")

(***************************************************************************)
(* The exception exits (arch/m0.s, arch/m4.s).                             *)
(***************************************************************************)

\* running := scheduled, scheduled := NULL
Switch(g) ==
    IF g.scheduled \in {None, g.running} THEN g
    ELSE [g EXCEPT !.running = g.scheduled, !.scheduled = None]

\* SVC_Handler stores the function's result into the caller's frame first.
SvcReturn(g, caller, result) == Switch([g EXCEPT !.ret[caller] = result])

(***************************************************************************)
(* What the lists must look like between two handlers.                     *)
(***************************************************************************)
NoDuplicates(s) == \A i, j \in 1 .. Len(s) : s[i] = s[j] => i = j

\* types.h: the runqueue holds the running tasks, the waitqueue the waiting.
QueuesMatchStatus(g) ==
    /\ NoDuplicates(g.runqueue)
    /\ NoDuplicates(g.waitqueue)
    /\ \A t \in Tasks : Contains(g.runqueue, t) <=> g.status[t] \in RunningStatus
    /\ \A t \in Tasks : Contains(g.waitqueue, t) <=> g.status[t] = "WAIT"

\* "scheduler error(pri)" of osi_priority_check
RunqueueSorted(g) ==
    \A i, j \in 1 .. Len(g.runqueue) :
        i <= j => g.priority[g.runqueue[i]] >= g.priority[g.runqueue[j]]

WaitqueueSorted(g) ==
    \A i, j \in 1 .. Len(g.waitqueue) :
        i <= j => g.delay[g.waitqueue[i]] <= g.delay[g.waitqueue[j]]

KernelInv(g) ==
    g \in Kernel /\ QueuesMatchStatus(g) /\ RunqueueSorted(g) /\ WaitqueueSorted(g)

\* Interrupts of devices send to queues (os_queue_enqueue_isr) and do nothing
\* else that the kernel sees.
Interruptible == \E o \in Objects : Kind[o] = "queue"

\* What holds of a started system between two handlers, and between the
\* steps of one: a pending switch is to another task, which is ACTIVE, and
\* only the task chosen to run is, unless an interrupt has overridden it.
Scheduling(g) ==
    /\ KernelInv(g)
    /\ g.state = "STARTED"
    /\ g.running \in Tasks
    /\ g.scheduled # g.running
    /\ g.scheduled # None => g.status[g.scheduled] = "ACTIVE"
    /\ \A t \in Tasks : g.status[t] = "ACTIVE" =>
           Interruptible \/ t = IF g.scheduled # None THEN g.scheduled ELSE g.running

\* A handler that has to give the processor away has done so.
Awake(g) == g.scheduled # None \/ g.status[g.running] # "WAIT"

=============================================================================
