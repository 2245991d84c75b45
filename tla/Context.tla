------------------------------ MODULE Context ------------------------------
(***************************************************************************)
(* What the kernel modules take for granted: that a task gets its          *)
(* registers back when it is switched in again, and the result of its      *)
(* service call with them.  SVC_Handler and PendSV_Handler of arch/m0.s    *)
(* and arch/m4.s, the SVC macros, the frames initialize_stack builds, and  *)
(* the stack check, on the stacks of the tasks; and os_signal, as a        *)
(* service call that needs no scheduling.                                  *)
(*                                                                         *)
(* A word here is a register or a group saved together: low is r4 - r7,    *)
(* high r8 - r11, s0 is s0 - s15 and FPSCR, s16 is s16 - s31.  A stack is  *)
(* a function from addresses, that grow upwards from 0; words below 0 are  *)
(* what lies below it in memory.  Words below the stack pointer are Junk,  *)
(* for an interrupt may overwrite them any time: of stack_paint's magic    *)
(* words only the one at 0 is kept.  Lazy stacking is eager here: handlers *)
(* that switch always touch the FPU registers first.                       *)
(*                                                                         *)
(* Which task is dispatched is left open here; Kernel has those rules.     *)
(***************************************************************************)
EXTENDS Integers, SequencesExt

CONSTANTS
    Tasks,
    Idle,        \* osg.idle
    None,        \* NULL
    Archs,       \* "m0": SAMD21, "m4": SAMD51
    StackSize,   \* StackSize[t]: words of t's stack
    Below,       \* bound: words modelled below a stack
    MaxLocals,   \* bound: MaxLocals[t] words t pushes
    Signalled,   \* the tasks signals are sent to
    Values,      \* what tasks compute
    Signals,     \* Signals[a]: those tasks send on processor a, 0 among them

    \* Words that no task computes.
    Junk, Magic, Canned, Params, Handler, TaskFinished, Xpsr,
    Success, TimedOut, Invalid, Message

ASSUME ContextAssumption ==
    /\ Idle \in Tasks /\ None \notin Tasks
    /\ Archs \subseteq {"m0", "m4"}
    /\ StackSize \in [Tasks -> Nat \ {0}]
    /\ Below \in Nat /\ MaxLocals \in [Tasks -> Nat]
    /\ Signalled \subseteq Tasks
    /\ Signals \in [Archs -> SUBSET Nat]

VARIABLES
    arch,
    mcu,     \* the processor, the stacks and the kernel's fields
    view     \* view[t]: the registers as t's program must find them

vars == <<arch, mcu, view>>

Addresses(t) == -Below .. StackSize[t] - 1

\* What task t leaves in its registers and on its stack.
Computed(t, v) == <<t, v>>
Local(t) == <<t, "local">>

-----------------------------------------------------------------------------
(***************************************************************************)
(* The processor: exception entry and return on the process stack.         *)
(***************************************************************************)

\* The word k above the process stack pointer.
Word(m, k) ==
    LET i == m.psp.at + k
    IN IF i \in Addresses(m.psp.of) THEN m.memory[m.psp.of][i] ELSE Junk

Overwritten(stack, first, words) ==
    [i \in DOMAIN stack |->
        IF i - first + 1 \in DOMAIN words THEN words[i - first + 1] ELSE stack[i]]

Push(m, words) ==
    LET at == m.psp.at - Len(words)
    IN [m EXCEPT !.memory[m.psp.of] = Overwritten(@, at, words), !.psp.at = at]

Pop(m, n) ==
    [m EXCEPT !.memory[m.psp.of] =
                  Overwritten(@, m.psp.at, [k \in 1 .. n |-> Junk]),
              !.psp.at = @ + n]

\* Bit 4 of EXC_RETURN is 0 for an extended frame; returning from one makes
\* the FPU context active again (CONTROL.FPCA).  Without one the FPU holds
\* whatever others left there.
Enter(m) ==
    LET r == m.r
    IN [Push(m, <<r.r0, r.r1, r.r2, r.r3, r.r12, r.lr, r.pc, Xpsr>>
                    \o (IF m.fpca THEN <<r.s0>> ELSE <<>>))
        EXCEPT !.extended = m.fpca, !.fpca = FALSE]

Leave(m) ==
    LET r == [m.r EXCEPT !.r0 = Word(m, 0), !.r1 = Word(m, 1), !.r2 = Word(m, 2),
                         !.r3 = Word(m, 3), !.r12 = Word(m, 4), !.lr = Word(m, 5),
                         !.pc = Word(m, 6), !.s0 = IF m.extended THEN Word(m, 8) ELSE Junk,
                         !.s16 = IF m.extended THEN @ ELSE Junk]
    IN [Pop(m, IF m.extended THEN 9 ELSE 8)
        EXCEPT !.r = r, !.fpca = m.extended, !.extended = FALSE]

-----------------------------------------------------------------------------
(***************************************************************************)
(* The context of a task, below its exception frame: r4 - r11, and on the  *)
(* M4 s16 - s31 when the frame is extended.  stmdb puts low registers at   *)
(* low addresses; the M0 stores r4 - r7 first and r8 - r11 below.          *)
(***************************************************************************)
Save(m) ==
    LET r == m.r
        s == Push(m, (IF arch = "m4" THEN <<r.low, r.high>> ELSE <<r.high, r.low>>)
                         \o (IF m.extended THEN <<r.s16>> ELSE <<>>))
    IN [s EXCEPT !.sp[m.running] = s.psp.at,
                 !.stack_kind[m.running] = IF m.extended THEN 1 ELSE 0]

Load(n, t) ==
    LET m == [n EXCEPT !.psp = [of |-> t, at |-> n.sp[t]], !.extended = n.stack_kind[t] = 1]
        r == [m.r EXCEPT !.low = Word(m, IF arch = "m4" THEN 0 ELSE 1),
                         !.high = Word(m, IF arch = "m4" THEN 1 ELSE 0),
                         !.s16 = IF m.extended THEN Word(m, 2) ELSE Junk]
    IN [Pop(m, IF m.extended THEN 3 ELSE 2) EXCEPT !.r = r]

\* Mutant of StackCheck: only the stack pointer is compared.
StackPointerCheck(m) ==
    IF m.sp[m.running] < 0 THEN [m EXCEPT !.reset = TRUE] ELSE m

\* osi_stack_check; osi_panic resets the MCU.
StackCheck(m) ==
    IF m.sp[m.running] < 0 \/ m.memory[m.running][0] # Magic
    THEN [m EXCEPT !.reset = TRUE]
    ELSE m

\* Mutant of ReturnRegs: as if all frames were basic.
BasicReturnRegs(m, t) == m.sp[t] + 2

\* Where r0 and r1 of a task's exception frame are (osi_task_return_regs).
ReturnRegs(m, t) == m.sp[t] + IF m.stack_kind[t] = 1 THEN 3 ELSE 2

-----------------------------------------------------------------------------
\* A painted stack, and a frame on it from which Leave enters the handler.
InitialStack(t) ==
    LET frame == <<Canned, Canned, Params, Canned, Canned, Canned, Canned,
                   TaskFinished, Handler, Xpsr>>
    IN Overwritten([i \in Addresses(t) |-> IF i = 0 THEN Magic ELSE Junk],
                   StackSize[t] - Len(frame), frame)

InitialView(t) ==
    [r |-> [r0 |-> Params, r1 |-> Canned, r2 |-> Canned, r3 |-> Canned, r12 |-> Canned,
            lr |-> TaskFinished, pc |-> Handler, low |-> Canned, high |-> Canned,
            s0 |-> Junk, s16 |-> Junk],
     fpca |-> FALSE, at |-> StackSize[t]]

\* os_start adds 16 bytes to the idle task's stack pointer, not 16 words.
IdleBase == StackSize[Idle] - 9
IdleView == [InitialView(Idle) EXCEPT !.at = IdleBase, !.r.lr = Junk]
Base(t) == IF t = Idle THEN IdleBase ELSE StackSize[t]

Init ==
    /\ arch \in Archs
    /\ view = [t \in Tasks |-> IF t = Idle THEN IdleView ELSE InitialView(t)]
    /\ mcu = [r |-> IdleView.r, fpca |-> FALSE, extended |-> FALSE,
              psp |-> [of |-> Idle, at |-> IdleBase],
              memory |-> [t \in Tasks |-> InitialStack(t)],
              sp |-> [t \in Tasks |-> StackSize[t] - 10],
              stack_kind |-> [t \in Tasks |-> 0],
              status |-> [t \in Tasks |-> "READY"],
              signal |-> [t \in Tasks |-> 0],
              running |-> Idle, scheduled |-> None,
              pended |-> FALSE,       \* PendSV is pending
              handler |-> "none",     \* or "PendSV", between reading osg and cpsid
              reset |-> FALSE]

-----------------------------------------------------------------------------
(***************************************************************************)
(* The kernel, as far as contexts go.  A task waits for a status (mutexes, *)
(* semaphores, rwlocks, delays) or for a status and a value (queues).      *)
(***************************************************************************)
Waits == {"WAIT for status", "WAIT for tuple"}
Ready(m) == {t \in Tasks : m.status[t] = "READY"}

\* osi_dispatch: the switch itself is left to SVC_Handler or PendSV_Handler.
Dispatch(m, t) == [m EXCEPT !.scheduled = t, !.pended = TRUE]

\* What osi_schedule may do: another task's turn, or nobody's.
Schedules(m) ==
    IF m.scheduled # None THEN {m}
    ELSE {Dispatch(m, t) : t \in Ready(m) \ {m.running}}
             \cup (IF m.running \in Ready(m) THEN {m} ELSE {})

\* osi_task_set_stacked_return, osi_task_stacked_return_tuple: the result of
\* a waiting task goes into its frame.
Granted(m, t) ==
    LET words == IF m.status[t] = "WAIT for tuple" THEN <<Success, Message>> ELSE <<Success>>
    IN [m EXCEPT !.memory[t] = Overwritten(@, ReturnRegs(m, t), words),
                 !.status[t] = "READY"]

GrantedView(m, t) ==
    [view EXCEPT ![t].r.r0 = Success,
                 ![t].r.r1 = IF m.status[t] = "WAIT for tuple" THEN Message ELSE @]

\* osi_dispatch_or_queue.
GrantOutcomes(m, t) ==
    LET g == Granted(m, t)
    IN (IF t # m.running THEN {Dispatch(g, t)} ELSE {}) \cup Schedules(g)

-----------------------------------------------------------------------------
(***************************************************************************)
(* The application: its code changes registers and stack as it likes.      *)
(***************************************************************************)
InThread == ~mcu.reset /\ mcu.handler = "none" /\ ~mcu.pended
Self == mcu.running
InTask == InThread /\ mcu.status[Self] = "READY"

Compute(v, fpca) ==
    /\ InTask
    /\ fpca \in (IF arch = "m4" THEN {TRUE, mcu.fpca} ELSE {FALSE})
    /\ LET w == Computed(Self, v)
           r == [mcu.r EXCEPT !.r0 = w, !.r1 = w, !.r2 = w, !.r3 = w, !.r12 = w, !.pc = w,
                              !.low = w, !.high = w,
                              !.s0 = IF fpca THEN w ELSE @, !.s16 = IF fpca THEN w ELSE @]
       IN /\ mcu' = [mcu EXCEPT !.r = r, !.fpca = fpca]
          /\ view' = [view EXCEPT ![Self].r = r, ![Self].fpca = fpca]
    /\ UNCHANGED arch

PushLocal ==
    /\ InTask
    /\ Base(Self) - mcu.psp.at < MaxLocals[Self]
    /\ mcu' = Push(mcu, <<Local(Self)>>)
    /\ view' = [view EXCEPT ![Self].at = @ - 1]
    /\ UNCHANGED arch

PopLocal ==
    /\ InTask
    /\ mcu.psp.at < Base(Self)
    /\ mcu' = Pop(mcu, 1)
    /\ view' = [view EXCEPT ![Self].at = @ + 1]
    /\ UNCHANGED arch

\* A call so deep that it used up the stack, and returned.
DeepCall ==
    /\ InTask
    /\ mcu' = [mcu EXCEPT !.memory[Self][0] = Junk]
    /\ UNCHANGED <<arch, view>>

\* The handler returns into task_finished, that waits for the next tick.
Spent == [x \in DOMAIN mcu.r |-> IF x = "pc" THEN TaskFinished ELSE Junk]

Finish ==
    /\ InTask
    /\ Self # Idle
    /\ mcu.psp.at = Base(Self)
    /\ mcu.r.lr = TaskFinished
    /\ mcu' = [mcu EXCEPT !.r = Spent, !.status[Self] = "FINISHED"]
    /\ view' = [view EXCEPT ![Self].r = Spent]
    /\ UNCHANGED arch

\* Mutant of Restarted: the kind of the frame that is gone is kept.
RestartedInPlace(m, t) ==
    [m EXCEPT !.memory[t] = InitialStack(t), !.sp[t] = StackSize[t] - 10,
              !.status[t] = "READY", !.signal[t] = 0]

\* os_task_start_options, of a task that waits or has finished.
Restarted(m, t) ==
    [m EXCEPT !.memory[t] = InitialStack(t), !.sp[t] = StackSize[t] - 10,
              !.stack_kind[t] = 0, !.status[t] = "READY", !.signal[t] = 0]

TaskStart(t) ==
    /\ InTask
    /\ t # Self
    /\ mcu.status[t] \in Waits \cup {"FINISHED"}
    /\ mcu' = Restarted(mcu, t)
    /\ view' = [view EXCEPT ![t] = InitialView(t)]
    /\ UNCHANGED arch

-----------------------------------------------------------------------------
(***************************************************************************)
(* Service calls: the SVC macros put the arguments into r0 - r3 and the    *)
(* function into r12, and SVC_Handler calls it.  Nothing preempts SVC.     *)
(***************************************************************************)

\* What a C function leaves: its result, and junk in the registers it may use.
Returned(m, status, value) ==
    [m EXCEPT !.r.r0 = status, !.r.r1 = value, !.r.r2 = Junk, !.r.r3 = Junk,
              !.r.r12 = Junk, !.r.lr = Junk]

\* stm psp, {r0 - r2}
StoreResult(m) ==
    [m EXCEPT !.memory[m.psp.of] = Overwritten(@, m.psp.at, <<m.r.r0, m.r.r1, m.r.r2>>)]

\* Both handlers begin by reading osg.
Observed(m) == [m EXCEPT !.r.r1 = m.running, !.r.r2 = m.scheduled]

Switch(m, t) ==
    LET s == StackCheck(Save(m))
    IN IF s.reset THEN s
       ELSE Load([s EXCEPT !.running = t, !.scheduled = None], t)

\* A switch that is not cut short by a reset goes on in thread mode.
Done(m) == IF m.reset THEN m ELSE Leave(m)

SvcExit(m) ==
    LET o == Observed(StoreResult(m))
    IN IF o.r.r2 \in {None, o.r.r1} THEN Leave(o) ELSE Done(Switch(o, o.r.r2))

Served(status, value) ==
    [view EXCEPT ![Self].r.r0 = status, ![Self].r.r1 = value, ![Self].r.r2 = Junk]

\* A call that has the task wait: an acquire, a dequeue, a delay.  It
\* returns TO unless a grant comes first (svc_delay).
Block(wait) ==
    /\ InTask
    /\ Self # Idle
    /\ LET value == IF wait = "WAIT for tuple" THEN None ELSE Junk
           m == Returned([Enter(mcu) EXCEPT !.status[Self] = wait], TimedOut, value)
       IN /\ \E s \in Schedules(m) : mcu' = SvcExit(s)
          /\ view' = Served(TimedOut, value)
    /\ UNCHANGED arch

\* A call that lets another task go on: a release, an enqueue.
Grant(t) ==
    /\ InTask
    /\ mcu.status[t] \in Waits
    /\ \E m \in GrantOutcomes(Enter(mcu), t) : mcu' = SvcExit(Returned(m, Success, Junk))
    /\ view' = [GrantedView(mcu, t) EXCEPT ![Self] = Served(Success, Junk)[Self]]
    /\ UNCHANGED arch

\* osi_signal.  A task keeps the first signal it is sent.
SignalStatus(t, signal) == IF mcu.signal[t] \in {0, signal} THEN Success ELSE Invalid

Kept(t, signal) == IF mcu.signal[t] = 0 THEN signal ELSE mcu.signal[t]

Signal(t, signal) ==
    /\ InTask
    /\ IF signal = 0    \* OS_ASSERT(signal > 0)
       THEN mcu' = [mcu EXCEPT !.reset = TRUE] /\ UNCHANGED view
       ELSE /\ mcu' = SvcExit(Returned([Enter(mcu) EXCEPT !.signal[t] = Kept(t, signal)],
                                       SignalStatus(t, signal), Junk))
            /\ view' = Served(SignalStatus(t, signal), Junk)
    /\ UNCHANGED arch

-----------------------------------------------------------------------------
(***************************************************************************)
(* Interrupts.  From thread mode they push a frame on the process stack.   *)
(* The M4 takes them in PendSV_Handler too, before its cpsid.              *)
(***************************************************************************)
Interruptible ==
    ~mcu.reset /\ (mcu.handler = "none" \/ (mcu.handler = "PendSV" /\ arch = "m4"))

Entered == IF mcu.handler = "none" THEN Enter(mcu) ELSE mcu
Left(m) == IF mcu.handler = "none" THEN Leave(m) ELSE m

\* osi_irs_systick.  A waiting task whose time is over is ready again.
SysTick ==
    /\ Interruptible
    /\ \E over \in {{}} \cup {{t} : t \in {u \in Tasks : mcu.status[u] \in Waits}} :
           LET m == [Entered EXCEPT !.status = [t \in Tasks |->
                        IF t \in over THEN "READY" ELSE mcu.status[t]]]
           IN \E s \in Schedules(m) : mcu' = Left(s)
    /\ UNCHANGED <<arch, view>>

\* A device's os_queue_enqueue.
DeviceInterrupt(t) ==
    /\ Interruptible
    /\ mcu.status[t] = "WAIT for tuple"
    /\ \E m \in GrantOutcomes(Entered, t) : mcu' = Left(m)
    /\ view' = GrantedView(mcu, t)
    /\ UNCHANGED arch

PendSVEntry ==
    /\ ~mcu.reset /\ mcu.handler = "none" /\ mcu.pended
    /\ LET m == Observed([Enter(mcu) EXCEPT !.pended = FALSE])
       IN mcu' = IF m.r.r2 \in {None, m.r.r1} THEN Leave(m)
                 ELSE [m EXCEPT !.handler = "PendSV"]
    /\ UNCHANGED <<arch, view>>

\* Mutant of SwitchedTo: r2 still holds what was scheduled.
FirstScheduled(m) == m.r.r2

\* PendSV_Handler reads osg.scheduled again when interrupts are off.
SwitchedTo(m) == m.scheduled

\* The M0 checks the stack of the new task as well.
PendSVSwitch ==
    /\ ~mcu.reset /\ mcu.handler = "PendSV"
    /\ LET m == Switch(mcu, SwitchedTo(mcu))
       IN mcu' = [Done(IF arch = "m0" THEN StackCheck(m) ELSE m) EXCEPT !.handler = "none"]
    /\ UNCHANGED <<arch, view>>

Next ==
    \/ \E v \in Values, fpca \in BOOLEAN : Compute(v, fpca)
    \/ PushLocal \/ PopLocal \/ DeepCall \/ Finish
    \/ \E t \in Tasks : TaskStart(t) \/ Grant(t) \/ DeviceInterrupt(t)
    \/ \E wait \in Waits : Block(wait)
    \/ \E t \in Signalled, signal \in Signals[arch] : Signal(t, signal)
    \/ SysTick \/ PendSVEntry \/ PendSVSwitch

Spec == Init /\ [][Next]_vars

-----------------------------------------------------------------------------
(***************************************************************************)
(* Properties.                                                             *)
(***************************************************************************)
Running == ~mcu.reset /\ mcu.handler = "none"

\* Whenever a task's code runs, it finds the registers, the stack pointer
\* and the stack it left, whatever switches, interrupts, restarts and FPU
\* contexts of others came between (PendSV_Handler, SVC_Handler,
\* initialize_stack).
RegistersSurvive ==
    Running =>
        LET v == view[Self]
            Saved == {"r2", "r3", "r12", "lr", "low", "high"}
                         \cup IF v.fpca THEN {"s0", "s16"} ELSE {}
        IN /\ mcu.psp = [of |-> Self, at |-> v.at]
           /\ mcu.fpca = v.fpca
           /\ \A x \in Saved : mcu.r[x] = v.r[x]
           /\ \A i \in v.at .. Base(Self) - 1 : mcu.memory[Self][i] = Local(Self)

\* A service call returns its result to the task that made it: the status
\* the kernel returned or, when another task or a device has granted what it
\* waited for meanwhile, the granted status and value, in r0 and r1 of its
\* own frame (SVC_Handler's stm, osi_task_return_regs).
ResultsArrive ==
    Running => /\ mcu.r.r0 = view[Self].r.r0
               /\ mcu.r.r1 = view[Self].r.r1

\* No task that has overflowed its stack is switched out unnoticed: the
\* contexts of the others lie within their stacks, above the magic word
\* (osi_stack_check).
OverflowsFound ==
    ~mcu.reset => \A t \in Tasks \ {Self} :
                      mcu.sp[t] > 0 /\ mcu.memory[t][0] = Magic

\* PendSV switches to the task the kernel has scheduled last, also when an
\* interrupt schedules another one after PendSV_Handler has looked.
LatestRuns ==
    [][PendSVSwitch /\ ~mcu'.reset => mcu'.running = mcu.scheduled]_vars

=============================================================================
