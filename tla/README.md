# arduino-osh in TLA+

arduino-osh is a small preemptive kernel for Cortex-M0+/M4 boards: tasks with
priorities, a tick, mutexes, queues, semaphores and reader-writer locks, with
its own printf and a channel to a debug probe. This directory holds TLA+
modules of its scheduler, of the objects tasks wait for, of the context switch
and of the output path, TLC configurations that check them on small instances,
and TLAPS proofs about them for every instance. Paths below are relative to
the repository; `os.c`, `types.h` and so on are in `src/`.

    tlc -config Scheduler.cfg MCScheduler.tla      # check an instance
    tlapm SchedulerProofs.tla                      # check the proofs

## The system

| part | state | operations |
| --- | --- | --- |
| kernel lists (`os.c`, `utilities.h`) | `osg.running`, `osg.scheduled`, `osg.runqueue`, `osg.waitqueue`, and per task `status`, `priority`, `delay`, `flags`, `nrp`, `nblocked` | `osi_task_status_set`, `osi_schedule`, `find_new_task`, `osi_dispatch`, `osi_dispatch_or_queue` |
| start-up (`os.c`) | `osg.state`, `osg.idle`, `osg.tasks` | `os_initialize`, `os_task_initialize_options`, `os_start`, `os_teardown` |
| exceptions (`os.c`, `arch/*.s`) | the stacked frame of each task | SysTick, PendSV, SVC |
| task calls (`os.c`, `service.c`) | | `os_delay`, `os_panic`, `os_abort`, `os_task_start`, `os_task_suspend`, `os_task_resume`, the return of a handler |
| mutexes (`mutex.c`) | `owner`, `level`, `blocked`, and per task `mutex` | acquire, release |
| queues (`queue.c`) | a ring of messages, `status`, `blocked`, and per task `queue`, `c.message` | enqueue, dequeue, enqueue from an interrupt |
| reader-writer locks (`rwlock.c`) | `readers`, `writers`, `writer`, `blocked`, and per task `rwlock`, `c.desired` | acquire for reading or writing, release |
| semaphores (`semaphore.c`) | `tokens`, `blocked`, and per task `semaphore` | acquire, release |
| signals (`signals.c`) | a word per task | signal, check |
| contexts (`arch/*.s`, `os.c`, `syscalls.h`) | the stacks, `sp`, `stack_kind`, the processor's registers | `initialize_stack`, SVC and PendSV, `osi_stack_check`, results and grants |
| debug channel (`segger/SEGGER_RTT.c`) | ring buffers with offsets that the target and the probe share | write, read, configure, switch terminals |
| formatted output (`printf.cpp`, `segger/tiny_printf.c`, `segger/SEGGER_RTT_printf.c`) | the output buffer and its offset | conversions, output functions |
| glue | | hooks, fault reports, the Arduino and the Linux platform |

The kernel's objects share the kernel lists and nothing else. A service call runs in the
SVC handler: it changes its own object, may put the calling task to sleep
(`svc_block`, `svc_delay`) or wake a blocked one (`osi_dispatch_or_queue`), and
writes results into the stacked frames of tasks that are asleep. Both ways end
in `osi_dispatch`, which chooses `osg.scheduled`; the exit of the handler, or
PendSV, makes it `osg.running`. Underneath, the handlers in assembler keep the
registers of each task in a frame on its own stack. Printing is a library: its
characters go to a buffer of the caller or through RTT to the probe, and
nothing of it feeds back into the kernel.

What is hard about it:

* a task is in several structures at once (a scheduler queue, an object's list
  of blocked tasks, pointers and flags of its own), and each of a time-out, a
  grant, a switch and a restart updates only some of them;
* a time-out takes effect in steps: the tick makes the sleeper IDLE, a later
  dispatch takes it off the object's list, and in between a release may grant
  it the object after all;
* priorities, round robin, and lists whose order the algorithms rely on;
* preemption: SysTick between any two steps of a task, device interrupts
  between steps of SysTick;
* assertions that reset the MCU;
* frames of two shapes on the M4, written to by others while their task sleeps;
* a probe that reads and moves offsets while a task is in the middle of a write.

What makes each part correct:

* kernel lists and scheduler: each task is in the one queue its status names,
  once; the queues are sorted; the task that gets the processor is a ready one
  of the highest priority; equals take turns; sleepers wake, and not early;
* mutexes: one owner, who knows it; grants in order, to waiters only, and never
  lost, also when a grant meets a time-out;
* queues: first in, first out, nothing lost or duplicated, and each call returns
  what has happened to its message;
* reader-writer locks: writers alone, counts that match the tasks inside, nobody
  asleep at a free lock;
* semaphores: tokens conserved;
* contexts: a task finds its registers, its stack and its results again, and no
  overflow goes unnoticed into a switch;
* debug channel: what is written and read agree at every moment, each character
  reaches its terminal, and only blocking modes block;
* formatted output: truncated output is terminated inside the buffer, numbers
  read back, characters are sent once and in order.

## Modules

`Kernel.tla` has no variables. The C global `osg` and the tasks it links are
one record, and each C function that changes them is an operator from a record
to a record: `RunqueueAdd`, `StatusSet`, `Unblock`, `Demote`, `Activate`,
`Dispatch`, `FindNewTask`, `Schedule`, `DispatchOrQueue`, `SvcDelay`,
`SvcReturn` and so on. A handler composes them in the order of the code, so
that one handler is one action. Lists linked by pointers are sequences;
time is relative (`delay[t]` is how long `t` has yet to wait, `Forever` is
`UINT32_MAX`); a failed `OS_ASSERT` adds its source line to `halted`, after
which the system takes no step, as the MCU would be reset. `find_new_task` is
written by its result (the first task of higher priority on the walk, else the
first equal one, else, if the running task cannot go on, the first lower one);
`WalkNeverEnds` says when its loop does not end.

`Handlers.tla` has the variable `osg` and one action per handler or call:
`Initialize`, `TaskInitialize`, `Start`, `Teardown`, `SysTick`, `PendSV`,
`Delay`, `Panic`, `Abort`, `Finish`, `Suspend`, `Resume`, `TaskStart`, and the
invariant of the scheduler (`Invariant`). `Scheduler.tla` is the kernel by
itself: any of these in any order, and what is then true. The
constant `Calls` says which calls the application makes. A task's code runs
only when no switch is pending (`InThread`): SVC switches on its way out and
PendSV follows SysTick before the processor returns to a task. A call's
assertions about its arguments (such as `os_task_resume` of a task that is not
suspended) are guards: callers respect them. Assertions about the kernel's own
state are not.

`Mutex.tla` adds `mutex` (owner and level of each), `calling` (the mutex a task
is inside `os_mutex_acquire` of) and `held` (what the tasks themselves believe:
acquires that returned success, less releases). `Acquire` is the service call
and `AcquireReturns` the code behind it in the task, which reads the status
from the task's frame and aborts the task if the mutex says so; everything
else may happen in between. `Release` is the service call of a task that holds
the mutex. The actions of `Handlers` go on beside them, `Suspend`, `TaskStart`
and the end of a task with conditions about the mutexes of the task.

`Lock.tla` is the abstract lock, one for each mutex: a holder, a depth, a queue
served in order, in which a waiter may give up during anybody's step. In
`Mutex!ImplementsLock` the `owner`, the `level` and the list of blocked tasks
of each mutex are those of its lock.

`Queue.tla` adds `queue` (ring, indices, status of each), `message` (the
`c.message` of each task) and `calling`. `Enqueue` and `Dequeue` are the
service calls with their four cases each, `Returns` the return into the task,
and `Interrupt` is `osi_queue_enqueue_isr`, which comes whenever no handler
runs, also between SysTick and PendSV: `osi_dispatch_or_queue` then replaces
the task SysTick chose, which stays ACTIVE without running, so that
`OneActive` does not hold here and `Queue!KernelSurvives` says what does. A slot
keeps its message after it has been taken, as in the code. Devices send
messages of their own (`DeviceMessages`) so that the two can be told apart.

`Channel.tla` is the abstract channel, one for each queue: a bounded buffer, senders
that wait with their messages, receivers that wait, and the outcome of every call in
progress. As with `Lock`, a waiter may give up during anybody's step.
`Queue!ImplementsChannel` maps the ring from `last` on to the buffer and the one
list of blocked tasks, read by `status`, to senders or receivers.

`RwLock.tla` adds `rwlock` (readers, writers, the writer), `desired`, `calling`
and what the tasks believe they hold. A release wakes readers in a loop over
the list that it unlinks from while it walks; the module has the loop by its
result, that the first one enters.

`Semaphore.tla` adds the tokens, `calling` and what each task holds. In the code
`OS_TASK_FLAG_SEMAPHORE` has the bits of the mutex flag and the queue flag
together, so that `osi_dispatch` takes its mutex branch for a task that waited
for a semaphore and fails the assertion of `os.c:465` there; the module keeps
that, and `BlockersHalt` says it. `SuspendsAcquirers` and `RestartsAcquirers` say
whether the application suspends or restarts a task that is inside an acquire, as
they do in `RwLock`.

These modules share the shape of `Mutex`: they extend `Handlers`, and add the
calls on their own objects. Objects of different kinds
do not meet in one module, since they share nothing but the kernel record.
`KernelSurvives` in each says that its calls keep the scheduler's invariant (in
`Queue`, the part of it that holds there).

`Context.tla` is the layer below: `mcu` is the processor with its stacks, and
`view[t]` what task `t` must find in its registers. Its operators are the
halves of the two handlers: `Enter` and `Leave` (what the hardware stacks and
unstacks, with FPU registers or without), `Save` and `Load` (the assembler),
`StackCheck`, `ReturnRegs`, `Returned`. `Block`, `Grant` and `Signal` are the service calls
a task makes, by their effect on frames, and `PendSVEntry` and `PendSVSwitch` the two parts
of PendSV between which an interrupt can come on the M4. Registers that are
always saved together are one word. Whom the kernel dispatches is left open:
any ready task, which includes what `Kernel` would choose.

`Rtt.tla` is SEGGER RTT: `ring` the buffers with their contents and offsets,
`job[t]` a write in progress, `host` what the probe makes of the bytes,
`stream` what has been written and not read. A write begins with one of the calls
(`Write`, `PutChar`, `WriteSkip`, `SetTerminal`, `TerminalOut`) and goes on in
rounds of `Copy` and `Publish`, between which the probe reads (`HostReads`);
the lock keeps other tasks out.

`Formats.tla` has the conversions of printf as operators, each returning the
characters it puts out. `Printf.tla` has the loop around them and the two output
functions: into a buffer of limited size (`OutBuffer`, `Terminate`), and through
a bulk buffer to RTT (`OutRtt`, `Flush`), whose up-buffer skips, trims or blocks: how
much of a write it accepts (`Accepts`) is left open, within what its mode allows.

`HandlersProofs.tla`, `SchedulerProofs.tla`, `MutexProofs.tla`, `QueueProofs.tla`,
`RwLockProofs.tla`, `SemaphoreProofs.tla`, `RttProofs.tla` and `PrintfProofs.tla` hold the
lemmas and theorems, the `MC*.tla` modules what TLC needs to instantiate the constants. In all modules
an operator introduced by a comment that begins "Mutant of" is not part of the
model: it is what the next definition would be with a plausible bug, and shows
that a property notices it.

## Runs

| run | instance | shows |
| --- | --- | --- |
| `Scheduler.cfg` | idle task and 3 tasks, priorities 1 and 2, delays 1 and 2; tasks sleep, finish, panic, abort, suspend, resume and start each other; programs are torn down before they start | `QueueDiscipline`, `QueuesSorted`, `OneActive`, `Invariant`, `NeverHalts`, `BestIsChosen`, `NoEarlyWake`, `SleepersWake`, `NoStarvation` |
| `Mutex.cfg` | idle task and 3 tasks, two mutexes, one that aborts on time-out; nesting 2; owners finish, are suspended and restarted | `KernelSurvives`, `Agreement`, `WaitersAreListed`, `NeverHalts`, `WokenByGrant`, `ImplementsLock` |
| `MutexLive.cfg` | idle task and 3 tasks of one priority, one mutex | `Granted` |
| `Queue.cfg` | idle task, 3 tasks of one priority and a device; a ring of two, time-outs of 0 and 2; tasks abort, are suspended and restarted | `KernelSurvives`, `OneKindBlocked`, `WaitersAreListed`, `WokenWithResult`, `ImplementsChannel` |
| `RwLock.cfg` | idle task and 3 tasks, priorities 1 and 2, one lock, readers that do not time out | `KernelSurvives`, `Agreement`, `Exclusion`, `NobodyWaitsOutside`, `WaitersAreListed` |
| `RwLockLive.cfg` | idle task and 3 tasks of one priority, one lock, all wait for ever | `ReadersEnter` |
| `Semaphore.cfg` | idle task and 3 tasks, priorities 1 and 2, one semaphore; tasks sleep, finish, are suspended, also inside an acquire, and restarted, also as they sleep, but not inside an acquire | `TokensConserved`, `BlockersHalt` |
| `Context.cfg` | idle task and 2 tasks on both processors, stacks of 23, 13 and 12 words; one signal, and on the M0 a second | `RegistersSurvive`, `ResultsArrive`, `OverflowsFound`, `LatestRuns` |
| `Rtt.cfg` | two tasks and a probe; rings of 5, 2 and 3 bytes; texts of 1, 2 and 6 characters | `RingsIntact`, `OnItsTerminal`, `NoBlockNeverWaits`, `WritersFinish` |
| `Printf.cfg` | some 2500 directives, buffers of 0, 3 and 16, a bulk buffer of 3, an up-buffer of each mode | `Truncates`, `NumbersReadBack`, `SentInOrder` |

Bounds. The interesting cases of the lists need three elements (a head, a
middle and a tail) and those of priorities two levels above the idle task;
`Forever` is 3, so that a wait of 1 and of 2 ticks end in different orders and
a wait of 3 does not end. Three competitors for a mutex give an owner, a waiter
that times out and a waiter behind it; two senders and a receiver are what it
takes to refill a ring from the first of several senders, and a ring of two
is the smallest whose contents have an order and whose indices wrap. `Levels`
stands for 2^16, `MaxNesting` bounds how deep the application nests and
`MaxTokens` how many tokens it releases into a semaphore. The state space of
each run is finite without further bounds. Tasks are interchangeable before they are
initialised, so the safety runs of the objects use symmetry. Symmetry is not
sound for liveness, so the runs with a liveness property do without, and
leave calls out instead: `Scheduler.cfg` the restart of a waiting task and a
delay for ever, `RwLockLive.cfg` writers that time out, who only make way for
the readers. `Queue.cfg` also has a `VIEW`: `Relevant` leaves out the delays of
tasks that do not wait, the free places of a ring and the messages of tasks
that wait for nothing. Every step writes these before one reads them (a
delay in `SvcDelay` and `SvcBlock`, a place in `Put`, a message in `Enqueue`), so
states that differ in nothing else have the same properties and steps to
states that again differ in nothing else.

The stacks of `Context.cfg` are as small as makes the difference: on the larger
one a basic context and a word of the task's own fit, an extended context and
a word do not, and on the smaller not even an extended context; `Below` is
what lies under a stack and gets overwritten. A second signal is refused, which
is another result but no other context, so one of the processors will do for it. The rings of `Rtt.cfg`
hold one text and a switch but not two, so that they wrap, fill up and make writers wait; one text is longer
than the ring. `Uses` has an application write to the terminal or to the other
buffers, which have nothing in common but the lock. In `Printf.cfg` the work
buffer (`BufferSize`) has 12 characters instead of 32 and shorts are three
bits wide (`ShortSize`, `CharSize`), so that both limits are reached; `SIZE_MAX` is 20, more
than the work buffer holds, which is all that matters of it; floats are twentieths (`Denominator`),
which has halves, nines and both sides of each. The directives cross every flag with
widths and precisions below, at and above the length of the number.

Fairness. The clock ticks for ever (weak fairness of SysTick) and a pending
PendSV is taken (weak fairness): that is the hardware. Nothing is assumed of
the tasks in `Scheduler.cfg`: a task may spin for ever. Its `NoStarvation`
allows for the one way applications can starve a task: two tasks that suspend
and resume each other between ticks move to the tail of their priority every
time. `MutexLive.cfg` also
assumes that a task which gets the processor again and again leaves
`os_mutex_acquire` and in the end releases what it holds (strong fairness per
task, since it is preempted in between). `RwLockLive.cfg` assumes the same of
its lock; both leave suspension out.
The conditions of fairness are written out with predicates such as `TickDue`
and `CanRelease`, which are the actions' ENABLED. In `Rtt.cfg` a task goes on
with a write it has begun, as nothing on the target can stop it for good, and
an attached probe reads on (weak fairness of each): without a probe a
blocking write does wait for ever, under the lock.

Violations. Two runs check something the source itself says and find it
false; each is a finding in `PROJECT.json`.

| run | statement | what happens |
| --- | --- | --- |
| `QueueOnlySend.cfg` | queue.c:156 | with `OS_QUEUE_FLAGS_QUEUE_ONLY` a sender blocks behind receivers, and the queue takes them for senders |
| `RwLockTimeout.cfg` | types.h:318 | a release queues a reader that its time-out has queued already and cuts the runqueue off behind it |

A third is in `Semaphore`, as a property that holds: a task that has blocked on
a semaphore is dispatched as if it waited for a mutex, and
`OS_ASSERT(task->mutex != NULL)` fails (`BlockersHalt`).

### Calls the passing runs leave out

Some legal calls break properties of the passing runs. The modules have these
calls; the passing configurations leave them out, and a change of the
constants named shows what happens:

| in | with | is violated | because |
| --- | --- | --- | --- |
| `Scheduler.cfg` | 0 in `Delays` | `NeverHalts` (service.c:40) | `os_delay(0)` of the highest ready task finds only itself |
| `Scheduler.cfg` | 0 in `StartPriorities` | `NeverHalts` (os.c:582) | a task of `OS_PRIORITY_LOWEST` takes turns with the idle task, which then is not alone |
| `Scheduler.cfg` | `"suspend_self"` in `Calls` | `NeverHalts` (os.c:907) | the handler of a task that suspended itself returns before the tick |
| `Scheduler.cfg` | `"suspend_self"`, `"resume_self"` in `Calls` | `SleepersWake`, `NoStarvation` | a task that suspends and resumes itself runs as IDLE, and `osi_schedule` then returns at once on every tick |
| `Mutex.cfg` | `MaxNesting = Levels` | `Agreement` | mutex.c:65 compares the 16-bit level with `UINT32_MAX`: the level wraps to 0, which means free |
| `Mutex.cfg` | `"start_waiting"` in `Calls` | `NeverHalts` (mutex.c:28), `WaitersAreListed` | a restarted waiter stays in the mutex's list and cuts off those behind it |
| `Mutex.cfg` | `SuspendsAcquirers = TRUE` | `KernelSurvives`, `Agreement` | a timed-out waiter that is suspended and then granted runs without being queued (os.c:562) |
| `Queue.cfg` | `QueueOnly = {q1}` | `OneKindBlocked` | a message goes into the ring while receivers go on waiting (queue.c:101) |
| `RwLock.cfg` | `SuspendsAcquirers = TRUE` | `KernelSurvives` | as for a mutex: a timed-out writer that is suspended and then let in runs without being queued |
| `RwLock.cfg` | `RestartsAcquirers = TRUE`, `"start_waiting"` in `Calls` | `KernelSurvives`, `NobodyWaitsOutside`, `WaitersAreListed` | a restarted waiter stays in the lock's list, cuts off those behind it and may be let into the lock |
| `Semaphore.cfg` | `RestartsAcquirers = TRUE` | `TokensConserved` | a release takes the restarted task off the list (semaphore.c:67-71) and its token is gone, as is that of a task restarted after it got one |
| `Semaphore.cfg` | `RestartsAcquirers = TRUE` | `BlockersHalt` | os.c:277-290 leave `task->semaphore`, so that the assertion of semaphore.c:19 fails when the restarted task blocks again, though no blocker was dispatched |
| `RwLock.cfg` | readers with time-outs | `KernelSurvives` | as in `RwLockTimeout.cfg` |
| `Rtt.cfg` | `NoLock` for `Unlocked` | `OnItsTerminal` | the M0's `SEGGER_RTT_LOCK` is empty: another task writes into a torn switch |

`Queue` has the restart of a waiting task (`"start_waiting"`, not in `Queue.cfg`) and
not the suspension of a task inside a call on a queue, of which `Mutex` and `RwLock` show
what it does to whoever is then granted something. The tasks of `Queue.cfg` have one priority; that the runqueue stays in order
when an interrupt overrides a choice among several is proved (`SchedulerSurvivesQueues`,
any priorities) and not checked. In `Semaphore.cfg` suspending a task inside an acquire
breaks neither property. No run says that the mutex of an owner which has ended or
was restarted becomes free again: it does not, and `Granted` assumes that owners release.

### Where printf and RTT differ from what one expects

The modules follow the code in these; the properties leave out exactly the
cases named.

* A sign or a `0x` takes the place of a digit when the number fills its field:
  `%2d` of -12 is `-2`, `%#.3x` loses digits (`Crowded`).
* `%+.0d` of 0 drops a digit there is none of: the length, a `size_t`, wraps, and the loop
  that reverses the buffer puts out memory. So do `%-+.3d` and `%- .3d` of 0, since `-`
  leaves out the zeros of the precision. `Shortened` has the wrap, and `NumbersReadBack` says
  that these (`Runaway`) are all the directives that put out memory.
* `%.1f` of 0.95: a halfway fraction that rounds up to one digit more does not
  roll over, and zeros fill the work buffer (`Nines`).
* A left-justified `%f` is padded from the start of the output and not of its
  field.
* `-` also turns the zeros of a precision off; `%hhd` is unsigned on ARM, where
  char is.
* Through an up-buffer in trim mode characters arrive twice: a full bulk buffer of which a
  part was accepted stays as it is (SEGGER_RTT_printf.c:124-128), and every further
  character sends it again, from its first character on. `SentInOrder` allows this
  (`Resent`) and nothing else.
* `SEGGER_RTT_printf` counts the bulk buffer twice in what it returns, and after
  a failed write goes on counting from -1 once a later one succeeds.
* `SEGGER_RTT_WriteWithOverwriteNoLock` loses its place when the text is longer
  than the buffer.
* RTT's `INIT` check precedes its lock; a blocking write without a probe never
  returns, with interrupts masked.

## Proofs

The assumptions are those of the modules on their constants: `None` is no task,
message, object, kind of object, acquire of a lock, call on a queue or result of one, `Forever` is
positive, delays are at most `Forever` and priorities at most `MaxPriority`. The set of tasks
need not be finite. `Scheduler` assumes that there are no queues (`NoInterrupts`): only
through a queue does an interrupt schedule a task, and with one `OneActive` does not
hold.

### The scheduler

`SchedulerProofs.tla` proves for every set of tasks, every priority and delay
and every choice of `Calls`, so also for the calls the passing runs leave out:

* `InvariantHolds`: `Spec => []Invariant`;
* `TypeCorrect`, `QueuesHoldTheRightTasks`, `QueuesStaySorted`,
  `AtMostOneActive`: the type invariant and the three structural invariants
  of `Scheduler.cfg`.

`Invariant` is inductive where the properties alone are not. That the queues
match the statuses is needed to know that a task linked in is not linked
already (else `runqueue_add` cuts the list); that only the chosen task is
ACTIVE, and a pending switch is to another task, is needed in `osi_dispatch`,
which demotes the running task only if it is ACTIVE; that the running task
never waits between handlers (`Awake`, or an assertion has failed) is needed
because a tick then could wake and queue it again. Before the start it says
that only initialised tasks are queued.

For an application that is `Disciplined` it proves as well:

* `NoAssertionFails`: `[]NeverHalts`, none of the kernel's assertions fails;
* `ChoosesTheBest`: `BestIsChosen`, after a tick the task that runs next is a
  ready one of the highest priority;
* `NobodyWakesEarly`: `NoEarlyWake`, a wait ends when its time is over or the
  task is restarted.

`Disciplined` says that no task suspends itself, no delay is 0 and no task but
the idle task has priority 0. Each of the three is needed: without it
`NeverHalts` is violated, as the table above shows. The invariant is
`Invariant` with `Healthy`, which says what keeps each assertion of `os.c` and
`service.c` true: nothing has halted; the idle task is always ready and alone
in its priority (`IdleKept`), so that whoever gives the processor up finds
somebody else, and nobody takes turns with the idle task; the running task is
awake, and unless a switch is pending it is ACTIVE or has just ended; and the
flags, `waits` and `blocked` lists fit the calls tasks are inside of
(`Blocking`), so that `osi_dispatch` finds the object it is to unlink a task
from, and the task in its list.

The lemmas are in `HandlersProofs`. Those about `Kernel` go the way of the code: what inserting into,
removing from and walking along a list return; that each list operation keeps
its list sorted and free of duplicates; that each status change keeps
`KernelInv`; and from these that `Dispatch`, `Schedule`, `SvcDelay`,
`SvcLeave` and the exits keep `Scheduling`. That part of `Scheduling` which says that
nobody but the chosen task is ACTIVE is left out where interrupts can override the choice
(`Interruptible`): the task they replace stays ACTIVE, and the lemmas show that nothing
else depends on it. Then comes each action of
`Handlers`: that it keeps `Invariant` and `Healthy`, who leaves which list of
blocked tasks by it, and that nobody wakes by it before its time (`SleepOn`). It has
the three things service calls on objects are made of, too: to block, to grant,
and to return. Its parameter is who is inside a call on which object, so that
the objects can use it.

### Mutexes

`MutexProofs.tla` proves for any number of tasks and mutexes, some of which may abort on
a time-out, and every `Disciplined` application:

* `SchedulerSurvivesMutexes`, `NoAssertionOfMutexesFails`: the scheduler's
  invariant (`KernelSurvives`) and `NeverHalts` for the mutex's calls;
* `OwnersAgree`: `Agreement`, what the tasks believe to hold is what `owner`
  and `level` say;
* `NoWaiterIsLost`: `WaitersAreListed`, a task asleep in an acquire is in the
  list of a mutex that somebody else owns;
* `OnlyGrantsWake`: `WokenByGrant`, before its time is over a waiter wakes only
  as the owner;
* `MutexesAreLocks`: `ImplementsLock`, every step is one of `Lock`, or leaves all locks alone.

`Disciplined` here adds what the table above names for `Mutex.cfg`: no task
inside an acquire is suspended, no waiting task is restarted, and the nesting
stays below what a `uint16_t` counts.

The inductive invariant (`SafeInvariant`) is `Invariant` with six parts. `Healthy` is as above, with
the mutex a task acquires. `Told` is where time-outs and grants meet: whoever is in
a list has the status of a time-out in its frame, and the mutex of the list is
somebody else's, so that a task that wakes and finds success there has been
taken off the list by a grant, and one that finds the time-out still is on it, or has been
unlinked by `osi_dispatch`. `Owned` says that a mutex with an owner has a positive
level and one without has 0, `Agreeing` that the owner is the task that believes to hold the mutex or
is about to return with it, and `Nesting` that the level is below its
width. For each action a lemma proves the invariant, the change of each lock
and `WokenByGrant` together (`StepSound`), because all three need to know who
left which list. The
refinement is then that each change of a mutex and its list is one of
`Lock!Changes`, the initial states being the same: an acquire is `Take`, `TakeAgain` or
`Wait`, a release `GiveBack`, `GiveAway` or `HandOver`, and every other step,
like each of these for the other mutexes, lets at most one waiter of a list give up.

### Queues

`QueueProofs.tla` proves for any number of tasks and queues, a ring of any size,
interrupts that send at any moment outside the handlers, and every `Disciplined` application:

* `SchedulerSurvivesQueues`: `KernelSurvives`, no assertion of the kernel or of
  queue.c fails, the lists match the statuses and stay sorted, and the indices
  stay inside the ring;
* `ListsHoldOneKind`: `OneKindBlocked`;
* `NoWaiterIsMissed`: `WaitersAreListed`;
* `OnlyMessagesWake`: `WokenWithResult`, a sender wakes early only when its message
  has been taken and a receiver only with a message;
* `QueuesAreChannels`: `ImplementsChannel`, every step is one of `Channel`.

`Disciplined` here adds to that of the scheduler that no queue has
`OS_QUEUE_FLAGS_QUEUE_ONLY`, for which `QueueOnlySend.cfg` shows `OneKindBlocked`
wrong, and that no waiting task is restarted; the module itself suspends no task inside a call. Nothing is assumed of the time-outs,
nor of how many queues a device sends to.

The inductive invariant (`SafeInvariant`) is `Invariant` with `Healthy`, for the
queue a task calls, and three parts. `Told` is that of the mutexes: whoever is in a list has the
status of a time-out in its frame. `IsRing` says that `first` is where `last`
and `number` put it, so that a message taken is the oldest and a message put is behind the
others. `OneKindIn` says that a list with somebody in it has the status of what they wait
for, the ring is full or empty accordingly, and each of them is inside the call that
waits for that. Its two halves exclude each other because a ring has room for
at least one message. That `status` is stale when the last waiter has left, and may be written
before the first comes, is harmless because of the list being empty then: this
is what `NobodyWaits` (whoever may put or take without waking finds the list empty)
and `OneKindJoins` (whoever waits joins waiters of its own kind) say.

An interrupt makes the difference from the mutexes. It may find a switch pending, which
`osi_dispatch_or_queue` overrides (`InterruptGrants`), where the grant
of a task finds none (`TaskGrants`). Each step is proved to keep the invariant,
to make of each channel what it may and to wake nobody without a result
(`StepSound`). `KeepsChannel` is that for one queue, and `OthersAlone` and
`AloneKeeps` settle it for all queues but the one called. The refinement rests on lemmas
about `Channel` alone, one for each of its steps (`SendLaterChanges` to
`ReturnChanges`), and on what the ring and the list show of a channel (`Contents`, `Posted`):
a refill takes the oldest message and puts the first sender's behind the others in one step.

### Reader-writer locks

`RwLockProofs.tla` proves for any number of tasks and locks, and every
`Disciplined` application:

* `KernelSurvivesRwLocks`: `KernelSurvives`, the types, the scheduler's
  invariant and that no assertion fails, also not that of service.c:299, by
  which a writer that returns from its acquire says it is alone;
* `LocksAreCounted`: `Agreement`, `readers`, `writers` and `writer` are exactly
  the entries of the tasks that are in, or have been let in and do not know yet;
* `WritersAreAlone`: `Exclusion`;
* `NobodyWaitsAtFreeLocks`: `NobodyWaitsOutside`;
* `NoRwLockWaiterIsLost`: `WaitersAreListed`.

`Disciplined` here adds to that of the scheduler what `RwLock.cfg` has: no task inside
an acquire is suspended or restarted, which the table above shows to be needed, and,
other than in `RwLockTimeout.cfg`, readers wait for ever or not at all, and for ever
is more than a tick. Writers may have any time-out.

The inductive invariant (`SafeInvariant`) is again `Invariant` with `Healthy`,
for the lock a task acquires, and four parts. `Told` says of whoever is in a list
that it is inside the acquire that `c.desired` names, that it will be told its
time is out unless a release tells it otherwise, that somebody is in the lock,
and, if it wants to read, that it is asleep for ever. The last is what makes
`osi_task_status_set(task, IDLE)` safe in `osi_rwlock_release`, which moves the
reader without asking where it is queued, and it needs from every action of
`Handlers` that a wait for ever goes on (`SleepOn`). `Fits` says that each lock is
`Sane` (no reader beside a writer, a `writer` exactly when `writers` is 1) and
that it `Counts` what is `Taken`: a task's acquires that have returned and the
one it is promised. The readers are counted as the cardinality of a set with one element for each
entry, so that an entry more is one element more (`EntryAdded`) and no sum over
tasks is needed. `Nesting` leaves room for the acquires in progress.

Acquiring and releasing are then one step of `Taken` each: an acquire that gets
in, and a release for whomever it lets in, is `EntersLock`, and a release for
its caller `LeavesLock`, from which the assertions of rwlock.c:88 and 95
follow. That a release which finds nobody leaves no waiter at a free lock
(`NobodyFound`) rests on the walk for readers: if it finds none, the first in
the list is a writer, and a writer is passed over only while readers are in.

### Semaphores

`SemaphoreProofs.tla` proves for any number of tasks and semaphores, any
time-outs and any number of tokens:

* `TokensAreConserved`: `TokensConserved`, for every application that is `Considerate`:
  it neither restarts nor suspends a task inside an acquire;
* `OnlyBlockersHalt`: `BlockersHalt`, for one that is `Disciplined`, which means
  `Considerate` and as the scheduler's theorems have it (no task suspends itself, no
  delay is 0, no task but the idle task has priority 0).

Both are false of applications that restart acquirers, as the table above shows. Of
those that suspend them the theorems say nothing: `Semaphore.cfg` finds both properties
true with suspension, but the scheduler's invariant, on which the proofs rest, is not.

The lemmas about healthy systems do not apply here, because a system in which a
task blocks on a semaphore is not healthy: dispatching that task fails an
assertion. So the inductive invariant (`SafeInvariant`) is the scheduler's
`Invariant` with what the accounts need and no more. Who is in a semaphore's list
is inside the acquire of that semaphore, points to it alone, is flagged for it and
has not been dispatched (`Listed`), and will be told that its time is out
(`Told`), so it holds no token before a release says so. While nothing has
halted, the task that runs or is to run next is in no list (`Apart`): one that a
release has found is off its list already, and dispatching one that is still in a
list, when its time is out, fails the assertion. So a task that returns from its
acquire, or blocks again, is never one a later release may still find. That the
tasks with a token are finitely many is part of `Balanced`, so that one more of
them is one more in the sum though the set of tasks may be infinite.

For `OnlyBlockersHalt` the invariant (`HaltInvariant`) adds what holds until the
assertion fails (`Fit`): the idle task is ready and alone in its priority; a task
without flags points to nothing, and one with flags has those of a semaphore and is
inside of its acquire (`Marked`), which the idle task never is; whoever runs or has
been chosen has none, and is awake. Then every other assertion holds for the
reasons it holds in the scheduler alone, and that of os.c:465 is a question of who
is chosen: `BlockersDisagree` says that the flag tests of `osi_dispatch` find the mutex's
flag in a semaphore's, while `waits` names no mutex. So each
lemma of `HandlersProofs` about a schedule, a task that gives the processor up and a
grant says which task it dispatches and that the assertions failed are those of that
task (`Asserted`), and not only that none fails in a healthy system. Every step is then
`Judged`: it halts if, and only if, it chooses a task that has blocked, and else
leaves the system fit.

### The debug channel

`RttProofs.tla` proves for any number of buffers of any size, any texts and modes, and any
number of callers:

* `RingsStayIntact`: `RingsIntact`, the offsets of a buffer stay inside it and
  enclose what has been written and not read, in order;
* `NonBlockingModesDoNotBlock`: `NoBlockNeverWaits`, what is written in a mode that
  promises not to block has room from its first byte to its last;
* `OutputOnItsTerminal`: `OnItsTerminal`, the host shows each character on the terminal it is
  meant for and ends at the active one.

The inductive invariant (`RttInv`) says of each buffer that it is `Sound`: its
offsets are in range, they are as far apart as its stream is long, and byte by
byte they enclose it (`Holds`). Nothing is said of the bytes outside the
offsets, except of those a write has copied and not published. Such a write is
`Busy`: what it has copied lies ahead of `WrOff` in the order it will be read
(`Ahead`) and fits into the free room, the offset it began its round with is
still `WrOff`, and `_WriteNoCheck` has one piece which fits as a whole, since
it copies without asking for room. That the probe reads between a `Copy` and its
`Publish` does no harm, since reading moves only `RdOff` and never makes the room
smaller; that no other caller writes there is `OneWriter`, which is the lock. Before
`INIT` all buffers have the size 0 and are empty.

The second theorem needs more (`RoomInv`): the pieces still to be written in such a mode, the
switches of the terminal among them, `Fits` into the room of the buffer as it is.
`TerminalOut` looks for that room, or trims its text to it, when it begins (`BeginFits`), with
the other calls nothing is begun that does not fit; a `Copy` changes
neither side, a `Publish` takes as much off both, and the probe only makes
room (`ProbeFits`). Here, too, it is the lock that keeps the others out of the room: with two
writers in progress each would have to leave room for the other.

The third is about what the host makes of the bytes. `Leads(h, s, id)` says that the
bytes `s` take the host from the state `h` to terminal `id`, with nothing amiss
at any byte on the way. The invariant (`TermInv`) is that the unread bytes of the
terminal's buffer, with the pieces still to come of the write in progress,
lead from the host's state to the active terminal. A call therefore only has to show
that its own pieces lead from the terminal that was active to the one that is (`TextLeads`,
also of a trimmed text; `SwitchLeads`; `OutLeads` for a switch, a text and the switch back),
since what leads to a
terminal can be followed by what leads on from there (`LeadsOn`). `Publish` moves bytes from
the pieces to the stream and leaves the whole as it is (`FlatLess`); the probe takes
the host some way along it (`LeadsShown`). Every other call leaves the terminal's stream
alone: no buffer that is configured, read on the target or overwritten is the
terminal's. What the host makes of some bytes is computed by recursion over them; that there
is one such computation (`OneWay`) is shown by a least place where two of them differ.

The lemmas are about one buffer: that `Wrapped` is the remainder on the offsets
that occur (`WrappedIsMod`), and what draining, placing bytes ahead, publishing them and
appending without the two steps do to what the offsets enclose (`DrainedRing`,
`PlacedRing`, `PublishedRing`, `AppendedRing`). Wrapping is settled there once, so
that no action has to split a write at the end of the buffer. `OverwriteKept` is the
overwriting write: it first drops as many of the oldest bytes as it needs
room for, and then appends. The assumptions are those of `Rtt`: a buffer has more
than one byte, texts are not empty, and characters, terminals and the escape
are different bytes.

### Formatted output

`PrintfProofs.tla` proves for every set of directives, every size of the
caller's buffer and of the bulk buffer, and every mode of the up-buffer:

* `OutputIsTruncated`: `Spec => []Truncates`. The inductive invariant
  (`BufferInv`) says that the buffer agrees with the output as far as both
  reach, while the loop runs; the zero then takes the last place.
* `OutputIsInOrder`: `Spec => []SentInOrder`. Unless the up-buffer trims, `SentInv` says
  that what has been sent and what the bulk buffer holds are together an ascending
  sequence of positions in the output: a refused buffer stays where it is, so
  that a retry cannot send it twice, and what is lost is the characters that come
  meanwhile. In blocking mode nothing is refused and the lengths add up. In trim mode that
  is false, and `TrimInv` says instead that the bulk buffer holds consecutive positions
  (`Pending`) which come behind all that was sent, or is full and a part of it is
  what was sent last (`Behind`). Any beginning of it can then be sent (`SendPrefix`): it either
  goes on or starts the buffer over, which is `Resent`.

The proofs do not depend on what a conversion puts out. Their assumptions are
that the sizes are natural numbers and the bulk buffer's is positive.

### What is only model-checked

All of `Context` (`RegistersSurvive`, `ResultsArrive`, `OverflowsFound`: an inductive
invariant for the words on each stack, with an exception between any two steps, has not
been worked out), and the conversions (`NumbersReadBack`, which says what recursive
definitions compute: induction over data, which the prover's library can state only
with a parameter it cannot instantiate).
Everything under fairness (`SleepersWake`, `NoStarvation`, `Granted`, `ReadersEnter`,
`WritersFinish`): liveness and ENABLED are out of the prover's reach.

## Not modelled

* Interrupts inside the handlers of `os.c`: each handler is atomic. A device
  interrupt inside SysTick, and SysTick inside `os_task_start`, `suspend` and
  `resume` on the M0 (its `OS_LOCK` is empty), are therefore not covered. The
  interrupts inside PendSV, which decide who runs, are in `Context`.
* The wrap of the 32-bit clock: time is relative.
* In `Context`: the dead words below a stack pointer (any value); lazy stacking of FPU
  registers (eager); the M0's `HardFault_Handler`; `os_task_start` is atomic.
* In `Rtt`: overwriting writes longer than their buffer; the calls that only
  ask or name (`HasKey`, `HasData`, `SetNameUpBuffer`); the assembler
  `WriteSkipNoLock` of the M4, which does what the C one does.
* In `Printf`: the scanning of a format's text, arguments of `%f` above 2^31 and
  precisions above 9, the legacy `osi_printf` that is compiled out, what
  `SEGGER_RTT_printf` returns.
* Run-time accounting, hooks, fault reports, the Arduino and Linux platform code:
  output and start-up that do not feed back into the kernel's state.

## Plan

The order was: kernel and scheduler, mutexes, the scheduler's proofs, queues,
reader-writer locks, semaphores, contexts, RTT, printf. What is left:

1. `Interrupts`: SysTick split at the loop of `osi_schedule`, the thread-mode
   calls split at their list operations, with and without `OS_LOCK`.
2. `Clock`: 32-bit arithmetic of `os_uptime() + ms` and `now >= delay`.
3. An abstract lock of readers and writers for `RwLock` to implement, if its
   order of entry can be stated without repeating the loop.
4. Proofs: `RegistersSurvive` and `ResultsArrive` for `Context`.
