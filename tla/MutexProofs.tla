----------------------------- MODULE MutexProofs -----------------------------
(***************************************************************************)
(* The mutexes of a disciplined application, for any number of tasks and   *)
(* mutexes: nothing halts, the mutexes and the tasks agree on who has      *)
(* what, no waiter is forgotten, and Mutex implements Lock.                *)
(***************************************************************************)
EXTENDS Mutex, HandlersProofs

(***************************************************************************)
(* What is assumed of the application.  It suspends nobody but tasks that  *)
(* are inside no os_mutex_acquire, and no task itself; it restarts no      *)
(* waiting task; its delays are not 0; only the idle task has priority 0;  *)
(* and it nests no mutex deeper than a uint16_t can count.                 *)
(***************************************************************************)
Disciplined ==
    /\ ~SuspendsAcquirers
    /\ "suspend_self" \notin Calls /\ "start_waiting" \notin Calls
    /\ 0 \notin Delays /\ 0 \notin StartPriorities
    /\ MaxNesting < Levels

(***************************************************************************)
(* The inductive invariant, of a kernel record g, the mutexes m, the calls *)
(* c that tasks are inside of and the acquires h that have returned.       *)
(***************************************************************************)

\* Whoever is in a list will be told that its time is out, unless a release
\* tells it something else, and the mutex of the list is somebody else's.
Told(g, m) ==
    \A o \in Objects, t \in Tasks :
        Contains(g.blocked[o], t) => g.ret[t].status = "TO" /\ m[o].owner \notin {None, t}

\* The level is that of the owner.
Owned(m) == \A o \in Objects : m[o].level = 0 <=> m[o].owner = None

\* Agreement, and room for the acquires that have not returned.
Promised(g, c, t, o) == IF c[t] = o /\ g.ret[t].status = "SUCCESS" THEN 1 ELSE 0
Agreeing(g, m, c, h) ==
    \A o \in Objects, t \in Tasks :
        h[t][o] + Promised(g, c, t, o) = IF m[o].owner = t THEN m[o].level ELSE 0
Nesting(c, h) == \A o \in Objects, t \in Tasks : c[t] = o => h[t][o] < MaxNesting

Typed(m, c, h) ==
    /\ m \in [Objects -> [owner: Tasks \cup {None}, level: 0 .. Levels - 1]]
    /\ c \in [Tasks -> Objects \cup {None}]
    /\ h \in [Tasks -> [Objects -> 0 .. MaxNesting]]

Sound(g, m, c, h) ==
    /\ Typed(m, c, h) /\ Healthy(g, c) /\ Told(g, m) /\ Owned(m)
    /\ Agreeing(g, m, c, h) /\ Nesting(c, h)

SafeInvariant == Invariant /\ Sound(osg, mutex, calling, held)

\* A mutex as Lock sees it.
LockOf(m, g, o) == [holder |-> m[o].owner, depth |-> m[o].level, queue |-> g.blocked[o]]

\* What a step does to each lock.
LocksChange(g, m, gn, mn) ==
    \A o \in Objects : L!Changes(LockOf(m, g, o), LockOf(mn, gn, o))

\* t's time has come, or a grant wakes it.
WokenInTime(t) ==
    osg.status[t] = "WAIT" /\ osg.delay[t] > 1 /\ osg'.status[t] # "WAIT"
        => calling[t] # None /\ mutex'[calling[t]].owner = t

\* What each step must show.
StepSound ==
    /\ SafeInvariant'
    /\ LocksChange(osg, mutex, osg', mutex')
    /\ \A t \in Tasks : WokenInTime(t)

-----------------------------------------------------------------------------

\* All objects are mutexes, so whatever tasks call is one.
LEMMA MutexesPlain ==
    /\ Plain = Objects /\ Callers = [Tasks -> Objects \cup {None}]
BY AllMutexes DEF Plain, Callers

\* The initial state.
LEMMA InitSound == Init => SafeInvariant /\ L!Init
<1>. SUFFICES ASSUME Init PROVE SafeInvariant /\ L!Init
  OBVIOUS
<1>1. Invariant /\ Healthy(osg, calling)
  BY InitInvariant, InitHealthy DEF Init
<1>2. /\ mutex = [o \in Objects |-> [owner |-> None, level |-> 0]]
      /\ calling = [t \in Tasks |-> None] /\ held = [t \in Tasks |-> [o \in Objects |-> 0]]
      /\ osg.blocked = [o \in Objects |-> <<>>]
  BY DEF Init, Created, Zeroed, ZeroKernel
<1>3. Typed(mutex, calling, held)
  BY <1>2, LevelsAssumption DEF Typed
<1>4. Told(osg, mutex)
  BY <1>2 DEF Told, Contains
<1>5. Owned(mutex)
  BY <1>2 DEF Owned
<1>6. \A o \in Objects, t \in Tasks : calling[t] # o /\ None # t
  BY <1>2, NoneAssumption
<1>7. Agreeing(osg, mutex, calling, held) /\ Nesting(calling, held)
  BY <1>2, <1>6 DEF Agreeing, Nesting, Promised
<1>8. L!Init
  BY <1>2 DEF L!Init, L!Free
<1>. QED  BY <1>1, <1>3, <1>4, <1>5, <1>7, <1>8 DEF SafeInvariant, Sound

\* Lock's operators on sequences are those of this module.
LEMMA SameOperators ==
    /\ \A q, i : L!RemoveAt(q, i) = RemoveAt(q, i)
    /\ \A q, x : L!Contains(q, x) <=> Contains(q, x)
    /\ \A q : L!AtMostOneLeaves(q) = {q} \cup {RemoveAt(q, i) : i \in 1 .. Len(q)}
<1>1. \A q, i : L!RemoveAt(q, i) = RemoveAt(q, i)
  BY DEF RemoveAt, L!RemoveAt
<1>2. \A q, x : L!Contains(q, x) <=> Contains(q, x)
  BY DEF Contains, L!Contains
<1>3. \A q : L!AtMostOneLeaves(q) = {q} \cup {RemoveAt(q, i) : i \in 1 .. Len(q)}
  BY <1>1 DEF L!AtMostOneLeaves
<1>. QED  BY <1>1, <1>2, <1>3

\* A lock whose holder and depth stay as they are, and that one may leave.
LEMMA GiveUpFacts ==
    ASSUME NEW g, NEW m, NEW gn, NEW mn, NEW o \in Objects, mn[o] = m[o],
           gn.blocked[o] \in {g.blocked[o]} \cup
                               {RemoveAt(g.blocked[o], i) : i \in 1 .. Len(g.blocked[o])}
    PROVE  L!Changes(LockOf(m, g, o), LockOf(mn, gn, o))
<1>1. gn.blocked[o] \in L!AtMostOneLeaves(g.blocked[o])
  BY SameOperators, Zenon
<1>2. LockOf(mn, gn, o) = L!Queued(LockOf(m, g, o), gn.blocked[o])
  BY DEF LockOf, L!Queued
<1>3. LockOf(m, g, o).queue = g.blocked[o]
  BY DEF LockOf
<1>4. L!GiveUp(LockOf(m, g, o), LockOf(mn, gn, o))
  BY <1>1, <1>2, <1>3 DEF L!GiveUp
<1>. QED  BY <1>4 DEF L!Changes

\* The steps that grant nobody anything.
LEMMA QuietStep ==
    ASSUME NEW g, g.blocked \in [Objects -> Seq(Tasks)], NEW gn,
           NEW m, NEW c, NEW h, Sound(g, m, c, h), Healthy(gn, c), Undisturbed(g, gn, c)
    PROVE  Sound(gn, m, c, h) /\ LocksChange(g, m, gn, m)
<1>1. /\ OneLeaves(g, gn) /\ \A t \in Tasks : c[t] # None => gn.ret[t] = g.ret[t]
      /\ \A o \in Objects : o # None
  BY NoneAssumption DEF Undisturbed
<1>2. LocksChange(g, m, gn, m)
  BY <1>1, GiveUpFacts DEF LocksChange, OneLeaves
<1>3. Told(gn, m)
  <2>. SUFFICES ASSUME NEW o \in Objects, NEW t \in Tasks, Contains(gn.blocked[o], t)
                PROVE  gn.ret[t].status = "TO" /\ m[o].owner \notin {None, t}
    BY DEF Told
  <2>1. Contains(g.blocked[o], t)
    BY <1>1, LeavingFacts DEF OneLeaves
  <2>2. c[t] = o
    BY <2>1 DEF Sound, Healthy, Blocking, Listing
  <2>. QED  BY <1>1, <2>1, <2>2 DEF Sound, Told
<1>4. Agreeing(gn, m, c, h)
  <2>1. \A o \in Objects, t \in Tasks : c[t] = o => gn.ret[t] = g.ret[t]
    BY <1>1
  <2>. QED  BY <2>1 DEF Sound, Agreeing, Promised
<1>. QED  BY <1>2, <1>3, <1>4 DEF Sound

\* A step of the scheduler, or a call that does not concern a mutex.
LEMMA UnconcernedStep ==
    ASSUME SafeInvariant, Invariant', Healthy(osg', calling), Undisturbed(osg, osg', calling),
           SleepOn(osg, osg', Tasks), UNCHANGED <<mutex, calling, held>>
    PROVE  StepSound
<1>1. Sound(osg, mutex, calling, held) /\ osg.blocked \in [Objects -> Seq(Tasks)]
  BY DEF SafeInvariant, Invariant, KernelInv, Kernel
<1>2. Sound(osg', mutex, calling, held) /\ LocksChange(osg, mutex, osg', mutex)
  BY <1>1, QuietStep
<1>3. SafeInvariant'
  BY <1>2 DEF SafeInvariant
<1>. QED  BY <1>2, <1>3 DEF StepSound, SleepOn, WokenInTime

\* What the running task of a sound system may rely on.
LEMMA SoundFacts ==
    ASSUME SafeInvariant
    PROVE  /\ Invariant /\ Healthy(osg, calling) /\ calling \in Callers
           /\ Sound(osg, mutex, calling, held)
BY MutexesPlain DEF SafeInvariant, Sound, Typed

\* A step of the scheduler.
LEMMA BackgroundStep ==
    ASSUME Disciplined, SafeInvariant, Background
    PROVE  StepSound
<1>1. Boot \/ SysTick \/ PendSV
  BY DEF Background
<1>2. 0 \notin StartPriorities
  BY DEF Disciplined
<1>3. Invariant'
  BY <1>1, SoundFacts, BootStep, ExceptionStep
<1>4. /\ Healthy(osg', calling) /\ Undisturbed(osg, osg', calling)
      /\ SleepOn(osg, osg', Tasks)
  BY <1>1, <1>2, SoundFacts, BootHealthy, TickHealthy, PendHealthy
<1>. QED  BY <1>3, <1>4, UnconcernedStep DEF Background

\* A call that does not concern a mutex.
LEMMA CallStep ==
    ASSUME Disciplined, SafeInvariant, Call
    PROVE  StepSound
<1>1. calling[osg.running] = None /\ 0 \notin Delays
        /\ ((\E ms \in Delays : Delay(ms)) \/ Panic \/ Abort \/ Finish)
  BY DEF Disciplined, Call, AtACall
<1>2. Invariant'
  BY <1>1, SoundFacts, ServiceStep
<1>3. /\ Healthy(osg', calling) /\ Undisturbed(osg, osg', calling)
      /\ SleepOn(osg, osg', Tasks)
  BY <1>1, SoundFacts, ServiceHealthy
<1>. QED  BY <1>2, <1>3, UnconcernedStep DEF Call

\* os_task_suspend and os_task_resume, of tasks inside no acquire.
LEMMA SuspendOrResumeStep ==
    ASSUME Disciplined, SafeInvariant, NEW t \in Tasks, SuspendOrResume(t)
    PROVE  StepSound
<1>1. calling[t] = None /\ (Suspend(t) \/ Resume(t)) /\ "suspend_self" \notin Calls
  BY DEF Disciplined, SuspendOrResume
<1>2. Invariant'
  BY <1>1, SoundFacts, TaskStep
<1>3. /\ Healthy(osg', calling) /\ Undisturbed(osg, osg', calling)
      /\ SleepOn(osg, osg', Tasks)
  BY <1>1, SoundFacts, SuspendHealthy
<1>. QED  BY <1>2, <1>3, UnconcernedStep DEF SuspendOrResume

\* os_task_start of a task that is inside no acquire and holds what it held.
LEMMA RestartStep ==
    ASSUME Disciplined, SafeInvariant, NEW t \in Tasks, NEW p \in StartPriorities, Restart(t, p)
    PROVE  StepSound
<1>1. TaskStart(t, p) /\ calling' = [calling EXCEPT ![t] = None] /\ UNCHANGED <<mutex, held>>
  BY DEF Restart
<1>2. p # 0 /\ osg.status[t] \notin RunningStatus \cup {"WAIT"}
  BY <1>1 DEF Disciplined, TaskStart
<1>3. calling[t] = None
  BY <1>2, SoundFacts DEF Healthy, Blocking, Inside
<1>4. calling' = calling
  BY <1>1, <1>3, SoundFacts DEF Callers
<1>5. Invariant'
  BY <1>1, SoundFacts, TaskStep
<1>6. /\ Healthy(osg', calling) /\ Undisturbed(osg, osg', calling)
      /\ SleepOn(osg, osg', Tasks)
  BY <1>1, <1>2, <1>3, SoundFacts, StartHealthy
<1>. QED  BY <1>1, <1>4, <1>5, <1>6, UnconcernedStep

\* The running task of a sound system, and the call it enters or returns from.
LEMMA CallerFacts ==
    ASSUME SafeInvariant, InTask, NEW t \in Tasks, t = osg.running, NEW o \in Objects \cup {None}
    PROVE  /\ Scheduling(osg) /\ Awake(osg) /\ osg.scheduled = None /\ osg.halted = {}
           /\ osg.status[t] = "ACTIVE" /\ osg.waits[t] = {} /\ IdleKept(osg)
           /\ [calling EXCEPT ![t] = o] \in Callers
           /\ Healthy(osg, [calling EXCEPT ![t] = o])
           /\ \A p \in Objects : ~Contains(osg.blocked[p], t)
<1>1. /\ Scheduling(osg) /\ Awake(osg) /\ osg.scheduled = None /\ osg.halted = {}
      /\ osg.status[t] = "ACTIVE" /\ osg.waits[t] = {} /\ t \in osg.tasks \ {osg.idle}
      /\ osg.tasks \subseteq Tasks /\ osg.state = "STARTED"
  BY SoundFacts, HealthyThread DEF InTask, InThread, LeftStatus, Kernel
<1>2. IdleKept(osg) /\ Blocking(osg, calling) /\ calling \in Callers /\ o \in Plain \cup {None}
  BY SoundFacts, MutexesPlain DEF Healthy
<1>3. /\ [calling EXCEPT ![t] = o] \in Callers /\ Blocking(osg, [calling EXCEPT ![t] = o])
      /\ \A p \in Objects : ~Contains(osg.blocked[p], t)
  BY <1>1, <1>2, CallerKept
<1>. QED  BY <1>1, <1>2, <1>3 DEF Healthy

\* Back in the task: it has the mutex, or its time is out, in which case it
\* may abort.
LEMMA AcquireReturnsStep ==
    ASSUME Disciplined, SafeInvariant, AcquireReturns
    PROVE  StepSound
<1>. DEFINE t == osg.running
            o == calling[t]
            n == [calling EXCEPT ![t] = None]
<1>1. /\ InTask /\ o # None /\ calling' = n /\ mutex' = mutex
      /\ held' = IF osg.ret[t].status = "SUCCESS" THEN [held EXCEPT ![t][o] = @ + 1] ELSE held
      /\ \/ osg' = osg
         \/ osg' = SvcReturn(SvcLeave(osg, "ABORTED"), t, Returning("SUCCESS"))
  BY DEF AcquireReturns
<1>2. /\ Sound(osg, mutex, calling, held) /\ Typed(mutex, calling, held) /\ Invariant
      /\ t \in Tasks /\ osg.blocked \in [Objects -> Seq(Tasks)]
  BY <1>1, InThreadFacts DEF SafeInvariant, Sound, InTask, Invariant, KernelInv, Kernel
<1>3. n \in Callers /\ Healthy(osg, n)
  BY <1>1, <1>2, CallerFacts
<1>4. o \in Objects /\ \A u \in Tasks : n[u] = IF u = t THEN None ELSE calling[u]
  BY <1>1, <1>2 DEF Typed
<1>5. \A u \in Tasks, p \in Objects : held'[u][p] =
          IF u = t /\ p = o /\ osg.ret[t].status = "SUCCESS" THEN held[u][p] + 1 ELSE held[u][p]
  BY <1>1, <1>2, <1>4 DEF Typed
<1>. HIDE DEF n
<1>6. Typed(mutex, n, held')
  <2>1. held[t][o] < MaxNesting /\ held[t][o] \in 0 .. MaxNesting /\ MaxNesting \in Nat
    BY <1>2, <1>4, LevelsAssumption DEF Sound, Nesting, Typed
  <2>2. held[t][o] + 1 \in 0 .. MaxNesting
    BY <2>1
  <2>3. held' \in [Tasks -> [Objects -> 0 .. MaxNesting]]
    BY <1>1, <1>2, <1>4, <2>2 DEF Typed
  <2>. QED  BY <1>2, <1>3, <2>3, MutexesPlain DEF Typed
<1>7. Agreeing(osg, mutex, n, held')
  <2>. SUFFICES ASSUME NEW p \in Objects, NEW u \in Tasks
                PROVE  held'[u][p] + Promised(osg, n, u, p)
                          = IF mutex[p].owner = u THEN mutex[p].level ELSE 0
    BY DEF Agreeing
  <2>1. held[u][p] + Promised(osg, calling, u, p)
            = IF mutex[p].owner = u THEN mutex[p].level ELSE 0
    BY <1>2 DEF Sound, Agreeing
  <2>2. held'[u][p] + Promised(osg, n, u, p) = held[u][p] + Promised(osg, calling, u, p)
    <3>1. held[u][p] \in Int /\ p # None
      BY <1>2, LevelsAssumption, NoneAssumption DEF Typed
    <3>. QED  BY <1>4, <1>5, <3>1 DEF Promised
  <2>. QED  BY <2>1, <2>2
<1>8. Nesting(n, held')
  <2>1. \A u \in Tasks, p \in Objects : n[u] = p => calling[u] = p /\ held'[u][p] = held[u][p]
    BY <1>4, <1>5, NoneAssumption
  <2>. QED  BY <1>2, <2>1 DEF Sound, Nesting
<1>9. Sound(osg, mutex, n, held')
  BY <1>2, <1>3, <1>6, <1>7, <1>8 DEF Sound
<1>10. /\ Healthy(osg', n) /\ Undisturbed(osg, osg', n) /\ SleepOn(osg, osg', Tasks)
       /\ Invariant'
  <2>1. CASE osg' = osg
    <3>1. Undisturbed(osg, osg, n) /\ SleepOn(osg, osg, Tasks)
      BY DEF Undisturbed, OneLeaves, SleepOn
    <3>. QED  BY <1>2, <1>3, <2>1, <3>1, StutterStep
  <2>2. CASE osg' = SvcReturn(SvcLeave(osg, "ABORTED"), t, Returning("SUCCESS"))
    <3>1. n[osg.running] = None /\ "ABORTED" \in LeftStatus
      BY <1>2, <1>4 DEF LeftStatus
    <3>. QED  BY <1>1, <1>2, <1>3, <2>2, <3>1, LeaveHealthy
  <2>. QED  BY <1>1, <2>1, <2>2
<1>11. Sound(osg', mutex, n, held') /\ LocksChange(osg, mutex, osg', mutex)
  BY <1>2, <1>9, <1>10, QuietStep
<1>. QED  BY <1>1, <1>10, <1>11 DEF StepSound, SafeInvariant, SleepOn, WokenInTime

\* A service call that only returns to its caller.
LEMMA ReturnsFacts ==
    ASSUME SafeInvariant, InTask, NEW t \in Tasks, t = osg.running, NEW n, Healthy(osg, n),
           NEW result \in Return, osg' = SvcReturn(osg, t, result)
    PROVE  /\ Healthy(osg', n) /\ Invariant' /\ osg'.blocked = osg.blocked
           /\ osg'.ret = [osg.ret EXCEPT ![t] = result]
           /\ SleepOn(osg, osg', Tasks)
<1>1. /\ Scheduling(osg) /\ Awake(osg) /\ osg.scheduled = None /\ osg.halted = {}
      /\ osg.status[osg.running] \in LeftStatus \cup {"ACTIVE"}
      /\ IdleKept(osg) /\ Blocking(osg, n)
  BY CallerFacts DEF Healthy
<1>2. /\ Healthy(osg', n) /\ Scheduling(osg') /\ Awake(osg')
      /\ osg'.blocked = osg.blocked /\ osg'.status = osg.status /\ osg'.delay = osg.delay
      /\ osg'.ret = [osg.ret EXCEPT ![t] = result]
  BY <1>1, ReturnHealthy
<1>3. Invariant'
  BY <1>2 DEF Invariant, Scheduling
<1>. QED  BY <1>2, <1>3 DEF SleepOn

\* The cases of osi_mutex_acquire.
AcquireCase(t, o, to) ==
    LET m == mutex[o]
    IN  \/ /\ m.level = 0
           /\ mutex' = [mutex EXCEPT ![o] = [owner |-> t, level |-> 1]]
           /\ osg' = SvcReturn(osg, t, Returning("SUCCESS"))
        \/ /\ m.level # 0 /\ m.owner = t
           /\ mutex' = [mutex EXCEPT ![o].level = Deeper(@)]
           /\ osg' = SvcReturn(osg, t, Returning("SUCCESS"))
        \/ /\ m.level # 0 /\ m.owner # t /\ to = 0
           /\ mutex' = mutex
           /\ osg' = SvcReturn(osg, t, Returning("TO"))
        \/ /\ m.level # 0 /\ m.owner # t /\ to # 0
           /\ mutex' = mutex
           /\ osg' = SvcReturn(SvcBlock(BlockedAppend(osg, o, t), to, "mutex"),
                               t, Returning("TO"))

\* The ways of osi_mutex_acquire.
LEMMA AcquireCases ==
    ASSUME SafeInvariant, NEW o \in Objects, NEW to, Acquire(o, to)
    PROVE  AcquireCase(osg.running, o, to)
<1>1. InTask /\ osg.running \in Tasks
  BY InThreadFacts, SoundFacts DEF Acquire, InTask
<1>2. osg.waits[osg.running] = {}
  BY <1>1, CallerFacts
<1>3. OsAssert(osg, osg.waits[osg.running] \subseteq {o}, "mutex.c:55") = osg
  BY <1>2 DEF OsAssert
<1>. QED  BY <1>3, Zenon DEF Acquire, AcquireCase

\* What t has of the mutex o once it owns, or holds once more, what m says.
Has(m, o, t) == IF m[o].owner = t THEN m[o].level ELSE 0

\* t enters the acquire of o and is promised what code says.
Enters(n, gn, t, o, code) ==
    /\ n = [calling EXCEPT ![t] = o]
    /\ gn.ret = [osg.ret EXCEPT ![t] = Returning(code)]

\* Only the mutex o changes, and of it only t has more: one if it succeeds.
Gains(m, mn, t, o, code) ==
    /\ \A p \in Objects : p # o => mn[p] = m[p]
    /\ \A u \in Tasks : u # t => Has(mn, o, u) = Has(m, o, u)
    /\ Has(mn, o, t) = IF code = "SUCCESS" THEN Has(m, o, t) + 1 ELSE Has(m, o, t)

\* After an acquire, mutex and tasks agree.
LEMMA AcquireAgrees ==
    ASSUME SafeInvariant, NEW t \in Tasks, NEW o \in Objects, calling[t] = None,
           held[t][o] < MaxNesting, NEW code \in {"SUCCESS", "TO"},
           NEW n, NEW gn, Enters(n, gn, t, o, code), NEW mn, Gains(mutex, mn, t, o, code)
    PROVE  Agreeing(gn, mn, n, held) /\ Nesting(n, held)
<1>0. /\ n = [calling EXCEPT ![t] = o] /\ gn.ret = [osg.ret EXCEPT ![t] = Returning(code)]
      /\ \A p \in Objects : p # o => mn[p] = mutex[p]
      /\ \A u \in Tasks : u # t => Has(mn, o, u) = Has(mutex, o, u)
      /\ Has(mn, o, t) = IF code = "SUCCESS" THEN Has(mutex, o, t) + 1 ELSE Has(mutex, o, t)
  BY DEF Enters, Gains
<1>1. /\ calling \in [Tasks -> Objects \cup {None}] /\ held \in [Tasks -> [Objects -> 0 .. MaxNesting]]
      /\ osg.ret \in [Tasks -> Return] /\ MaxNesting \in Nat
  BY LevelsAssumption DEF SafeInvariant, Sound, Typed, Invariant, KernelInv, Kernel
<1>2. \A u \in Tasks : n[u] = IF u = t THEN o ELSE calling[u]
  BY <1>0, <1>1
<1>3. \A u \in Tasks : gn.ret[u] = IF u = t THEN Returning(code) ELSE osg.ret[u]
  BY <1>0, <1>1
<1>4. Returning(code).status = code
  BY DEF Returning
<1>5. \A p \in Objects : p # None
  BY NoneAssumption
<1>6. \A p \in Objects, u \in Tasks : held[u][p] + Promised(osg, calling, u, p) = Has(mutex, p, u)
  BY DEF SafeInvariant, Sound, Agreeing, Has
<1>7. Agreeing(gn, mn, n, held)
  <2>. SUFFICES ASSUME NEW p \in Objects, NEW u \in Tasks
                PROVE  held[u][p] + Promised(gn, n, u, p) = Has(mn, p, u)
    BY DEF Agreeing, Has
  <2>1. held[u][p] \in Int
    BY <1>1
  <2>2. held[u][p] + Promised(osg, calling, u, p) = Has(mutex, p, u)
    BY <1>6
  <2>3. CASE u = t /\ p = o
    <3>1. Promised(osg, calling, u, p) = 0
      BY <1>5, <2>3 DEF Promised
    <3>2. Promised(gn, n, u, p) = IF code = "SUCCESS" THEN 1 ELSE 0
      BY <1>2, <1>3, <1>4, <2>3 DEF Promised
    <3>3. held[t][o] = Has(mutex, o, t)
      BY <2>1, <2>2, <2>3, <3>1
    <3>. QED  BY <1>0, <2>1, <2>3, <3>2, <3>3
  <2>4. CASE u = t /\ p # o
    <3>1. Promised(osg, calling, u, p) = 0 /\ Promised(gn, n, u, p) = 0
      BY <1>2, <1>5, <2>4 DEF Promised
    <3>2. Has(mn, p, u) = Has(mutex, p, u)
      BY <1>0, <2>4 DEF Has
    <3>. QED  BY <2>2, <3>1, <3>2
  <2>5. CASE u # t
    <3>1. Promised(gn, n, u, p) = Promised(osg, calling, u, p)
      BY <1>2, <1>3, <2>5 DEF Promised
    <3>2. Has(mn, p, u) = Has(mutex, p, u)
      BY <1>0, <2>5 DEF Has
    <3>. QED  BY <2>2, <3>1, <3>2
  <2>. QED  BY <2>3, <2>4, <2>5
<1>8. Nesting(n, held)
  BY <1>2 DEF SafeInvariant, Sound, Nesting
<1>. QED  BY <1>7, <1>8

\* The acquires that do not block.
LEMMA AcquiredAtOnce ==
    ASSUME Disciplined, SafeInvariant, NEW o \in Objects, NEW to, Acquire(o, to),
           NEW code \in {"SUCCESS", "TO"},
           osg' = SvcReturn(osg, osg.running, Returning(code)),
           mutex' \in [Objects -> [owner: Tasks \cup {None}, level: 0 .. Levels - 1]],
           mutex'[o].level = 0 <=> mutex'[o].owner = None,
           mutex[o].owner # None => mutex'[o].owner = mutex[o].owner,
           Gains(mutex, mutex', osg.running, o, code),
           L!Changes(LockOf(mutex, osg, o), LockOf(mutex', osg, o))
    PROVE  StepSound
<1>. DEFINE t == osg.running
            n == [calling EXCEPT ![t] = o]
<1>1. /\ InTask /\ calling[t] = None /\ held[t][o] < MaxNesting /\ calling' = n /\ held' = held
  BY DEF Acquire, AtACall
<1>2. t \in Tasks /\ Sound(osg, mutex, calling, held) /\ Returning(code) \in Return
  BY <1>1, InThreadFacts, SoundFacts DEF InTask, Returning, Return, Codes
<1>3. n \in Callers /\ Healthy(osg, n)
  BY <1>1, <1>2, CallerFacts
<1>4. /\ Healthy(osg', n) /\ Invariant' /\ osg'.blocked = osg.blocked
      /\ osg'.ret = [osg.ret EXCEPT ![t] = Returning(code)] /\ SleepOn(osg, osg', Tasks)
  BY <1>1, <1>2, <1>3, ReturnsFacts
<1>5. Agreeing(osg', mutex', n, held) /\ Nesting(n, held)
  <2>1. Enters(n, osg', t, o, code)
    BY <1>4 DEF Enters
  <2>. HIDE DEF n, t
  <2>2. Gains(mutex, mutex', t, o, code)
    BY DEF t
  <2>. QED  BY <1>1, <1>2, <2>1, <2>2, AcquireAgrees
<1>6. \A p \in Objects : p # o => mutex'[p] = mutex[p]
  BY DEF Gains
<1>7. Told(osg', mutex')
  <2>. SUFFICES ASSUME NEW p \in Objects, NEW u \in Tasks, Contains(osg.blocked[p], u)
                PROVE  osg'.ret[u].status = "TO" /\ mutex'[p].owner \notin {None, u}
    BY <1>4 DEF Told
  <2>1. osg.ret[u].status = "TO" /\ mutex[p].owner \notin {None, u}
    BY <1>2 DEF Sound, Told
  <2>2. u # t
    BY <1>1, <1>2, CallerFacts
  <2>3. osg'.ret[u] = osg.ret[u]
    BY <1>2, <1>4, <2>2 DEF SafeInvariant, Invariant, KernelInv, Kernel
  <2>. QED  BY <1>6, <2>1, <2>3
<1>8. Owned(mutex')
  BY <1>2, <1>6 DEF Sound, Owned
<1>9. Typed(mutex', n, held)
  BY <1>2, <1>3, MutexesPlain DEF Sound, Typed
<1>10. Sound(osg', mutex', n, held)
  BY <1>4, <1>5, <1>7, <1>8, <1>9 DEF Sound
<1>11. LocksChange(osg, mutex, osg', mutex')
  <2>. SUFFICES ASSUME NEW p \in Objects
                PROVE  L!Changes(LockOf(mutex, osg, p), LockOf(mutex', osg', p))
    BY DEF LocksChange
  <2>1. LockOf(mutex', osg', p) = LockOf(mutex', osg, p)
    BY <1>4 DEF LockOf
  <2>2. CASE p = o
    BY <2>1, <2>2
  <2>3. CASE p # o
    BY <1>4, <1>6, <2>3, GiveUpFacts
  <2>. QED  BY <2>2, <2>3
<1>. QED  BY <1>1, <1>4, <1>10, <1>11 DEF StepSound, SafeInvariant, SleepOn, WokenInTime

\* A task that enters os_mutex_acquire, and blocks.
LEMMA AcquireBlocks ==
    ASSUME Disciplined, SafeInvariant, NEW o \in Objects, NEW to \in Timeouts, Acquire(o, to),
           to # 0, mutex[o].level # 0, mutex[o].owner # osg.running, mutex' = mutex,
           osg' = SvcReturn(SvcBlock(BlockedAppend(osg, o, osg.running), to, "mutex"),
                            osg.running, Returning("TO"))
    PROVE  StepSound
<1>. DEFINE t == osg.running
            n == [calling EXCEPT ![t] = o]
<1>1. /\ InTask /\ calling[t] = None /\ held[t][o] < MaxNesting /\ calling' = n /\ held' = held
  BY DEF Acquire, AtACall
<1>2. /\ t \in Tasks /\ Sound(osg, mutex, calling, held) /\ Returning("TO") \in Return
      /\ Kind[o] = "mutex" /\ to \in 0 .. Forever /\ o \in Plain
      /\ osg.blocked \in [Objects -> Seq(Tasks)] /\ osg.ret \in [Tasks -> Return]
  BY <1>1, InThreadFacts, SoundFacts, AllMutexes, TimeoutsAssumption, MutexesPlain
     DEF InTask, Returning, Return, Codes, Invariant, KernelInv, Kernel
<1>3. /\ Healthy(osg', n) /\ Scheduling(osg') /\ Awake(osg')
      /\ osg'.ret = [osg.ret EXCEPT ![t] = Returning("TO")]
      /\ JoinsAndOneLeaves(osg, osg', o, t) /\ SleepOn(osg, osg', Tasks)
  <2>1. BlocksOn(t, o, to, Returning("TO"))
    BY <1>2 DEF BlocksOn
  <2>2. PICK c \in Callers : c = calling /\ Invariant /\ Healthy(osg, c)
    BY SoundFacts
  <2>3. InTask /\ c[t] = None /\ n = [c EXCEPT ![t] = o]
    BY <1>1, <2>2
  <2>4. /\ Healthy(osg', [c EXCEPT ![t] = o]) /\ Scheduling(osg') /\ Awake(osg')
        /\ osg'.ret = [osg.ret EXCEPT ![t] = Returning("TO")]
        /\ JoinsAndOneLeaves(osg, osg', o, t) /\ SleepOn(osg, osg', Tasks)
    BY <1>2, <2>1, <2>2, <2>3, BlockHealthy
  <2>. QED  BY <2>3, <2>4
<1>4. Invariant'
  BY <1>3 DEF Invariant, Scheduling
<1>5. Agreeing(osg', mutex, n, held) /\ Nesting(n, held)
  <2>1. Enters(n, osg', t, o, "TO")
    BY <1>3 DEF Enters
  <2>2. Gains(mutex, mutex, t, o, "TO")
    BY DEF Gains
  <2>. HIDE DEF n, t
  <2>. QED  BY <1>1, <1>2, <2>1, <2>2, AcquireAgrees
<1>6. \A p \in Objects, u \in Tasks :
          Contains(osg'.blocked[p], u) => Contains(osg.blocked[p], u) \/ (p = o /\ u = t)
  <2>. SUFFICES ASSUME NEW p \in Objects, NEW u \in Tasks, Contains(osg'.blocked[p], u)
                PROVE  Contains(osg.blocked[p], u) \/ (p = o /\ u = t)
    OBVIOUS
  <2>1. CASE p = o
    <3>1. PICK q : q = Append(osg.blocked[o], t)
      OBVIOUS
    <3>2. osg.blocked[o] \in Seq(Tasks) /\ NoDuplicates(osg.blocked[o])
                /\ ~Contains(osg.blocked[o], t)
      BY <1>1, <1>2, CallerFacts DEF Sound, Healthy, Blocking, Listing
    <3>3. q \in Seq(Tasks) /\ \A v \in Tasks : Contains(q, v) <=> Contains(osg.blocked[o], v) \/ v = t
      BY <1>2, <3>1, <3>2, AppendFacts
    <3>4. osg'.blocked[o] \in {q} \cup {RemoveAt(q, i) : i \in 1 .. Len(q)}
      BY <1>3, <3>1, Zenon DEF JoinsAndOneLeaves
    <3>5. Contains(osg'.blocked[o], u)
      BY <2>1
    <3>6. Contains(q, u)
      BY <3>3, <3>4, <3>5, LeavingFacts
    <3>. QED  BY <2>1, <3>3, <3>6
  <2>2. CASE p # o
    <3>1. /\ osg'.blocked[p] \in {osg.blocked[p]} \cup
                                 {RemoveAt(osg.blocked[p], i) : i \in 1 .. Len(osg.blocked[p])}
          /\ osg.blocked[p] \in Seq(Tasks)
      BY <1>2, <1>3, <2>2 DEF JoinsAndOneLeaves
    <3>. QED  BY <3>1, LeavingFacts
  <2>. QED  BY <2>1, <2>2
<1>7. mutex[o].owner \notin {None, t}
  BY <1>2 DEF Sound, Owned
<1>8. Told(osg', mutex)
  <2>. SUFFICES ASSUME NEW p \in Objects, NEW u \in Tasks, Contains(osg'.blocked[p], u)
                PROVE  osg'.ret[u].status = "TO" /\ mutex[p].owner \notin {None, u}
    BY DEF Told
  <2>1. \A v \in Tasks : osg'.ret[v] = IF v = t THEN Returning("TO") ELSE osg.ret[v]
    BY <1>2, <1>3
  <2>2. Returning("TO").status = "TO"
    BY DEF Returning
  <2>3. CASE Contains(osg.blocked[p], u)
    BY <1>2, <2>1, <2>2, <2>3 DEF Sound, Told
  <2>4. CASE p = o /\ u = t
    BY <1>2, <1>7, <2>1, <2>2, <2>4
  <2>. QED  BY <1>6, <2>3, <2>4
<1>9. Sound(osg', mutex, n, held)
  <2>1. Typed(mutex, n, held)
    BY <1>2, MutexesPlain DEF Sound, Typed
  <2>. QED  BY <1>2, <1>3, <1>5, <1>8, <2>1 DEF Sound
<1>10. LocksChange(osg, mutex, osg', mutex)
  <2>. SUFFICES ASSUME NEW p \in Objects
                PROVE  L!Changes(LockOf(mutex, osg, p), LockOf(mutex, osg', p))
    BY DEF LocksChange
  <2>1. CASE p = o
    <3>1. osg'.blocked[o] \in L!AtMostOneLeaves(Append(osg.blocked[o], t))
      BY <1>3, SameOperators, Zenon DEF JoinsAndOneLeaves
    <3>2. LockOf(mutex, osg', o) = L!Queued(LockOf(mutex, osg, o), osg'.blocked[o])
      BY DEF LockOf, L!Queued
    <3>3. LockOf(mutex, osg, o).holder = mutex[o].owner
          /\ LockOf(mutex, osg, o).queue = osg.blocked[o]
      BY DEF LockOf
    <3>4. ~L!Contains(osg.blocked[o], t)
      BY <1>1, <1>2, CallerFacts, SameOperators
    <3>5. L!Wait(LockOf(mutex, osg, o), LockOf(mutex, osg', o))
      BY <1>2, <1>7, <3>1, <3>2, <3>3, <3>4 DEF L!Wait
    <3>. QED  BY <2>1, <3>5 DEF L!Changes
  <2>2. CASE p # o
    BY <1>3, <2>2, GiveUpFacts DEF JoinsAndOneLeaves
  <2>. QED  BY <2>1, <2>2
<1>. QED  BY <1>1, <1>3, <1>4, <1>9, <1>10 DEF StepSound, SafeInvariant, SleepOn, WokenInTime

\* os_mutex_acquire.
LEMMA AcquireStep ==
    ASSUME Disciplined, SafeInvariant, NEW o \in Objects, NEW to \in Timeouts, Acquire(o, to)
    PROVE  StepSound
<1>. DEFINE t == osg.running
            m == mutex[o]
<1>1. /\ InTask /\ calling[t] = None /\ held[t][o] < MaxNesting
      /\ Sound(osg, mutex, calling, held) /\ t \in Tasks
  BY InThreadFacts, SoundFacts DEF Acquire, AtACall, InTask
<1>2. /\ mutex \in [Objects -> [owner: Tasks \cup {None}, level: 0 .. Levels - 1]]
      /\ held[t][o] \in Nat /\ m.level \in Nat /\ Levels \in Nat /\ Levels > 1
      /\ None \notin Tasks
  BY <1>1, LevelsAssumption, NoneAssumption DEF Sound, Typed
<1>3. held[t][o] = Has(mutex, o, t)
  <2>1. Promised(osg, calling, t, o) = 0
    BY <1>1, NoneAssumption DEF Promised
  <2>2. held[t][o] + Promised(osg, calling, t, o) = Has(mutex, o, t)
    BY <1>1 DEF Sound, Agreeing, Has
  <2>. QED  BY <1>2, <2>1, <2>2
<1>4. m.level = 0 <=> m.owner = None
  BY <1>1 DEF Sound, Owned
<1>5. AcquireCase(t, o, to)
  BY AcquireCases
<1>6. CASE /\ m.level = 0 /\ mutex' = [mutex EXCEPT ![o] = [owner |-> t, level |-> 1]]
           /\ osg' = SvcReturn(osg, t, Returning("SUCCESS"))
  <2>1. mutex'[o] = [owner |-> t, level |-> 1] /\ \A p \in Objects : p # o => mutex'[p] = mutex[p]
    BY <1>2, <1>6
  <2>2. mutex' \in [Objects -> [owner: Tasks \cup {None}, level: 0 .. Levels - 1]]
    BY <1>1, <1>2, <1>6
  <2>3. Gains(mutex, mutex', t, o, "SUCCESS")
    BY <1>1, <1>2, <1>4, <1>6, <2>1 DEF Gains, Has
  <2>4. L!Take(LockOf(mutex, osg, o), LockOf(mutex', osg, o))
    <3>1. LockOf(mutex, osg, o).holder = None
      BY <1>4, <1>6 DEF LockOf
    <3>2. /\ LockOf(mutex', osg, o) = [holder |-> t, depth |-> 1, queue |-> osg.blocked[o]]
          /\ LockOf(mutex, osg, o).queue = osg.blocked[o]
      BY <2>1 DEF LockOf
    <3>. QED  BY <1>1, <3>1, <3>2 DEF L!Take
  <2>5. L!Changes(LockOf(mutex, osg, o), LockOf(mutex', osg, o))
    BY <2>4 DEF L!Changes
  <2>6. /\ mutex'[o].level = 0 <=> mutex'[o].owner = None
        /\ mutex[o].owner # None => mutex'[o].owner = mutex[o].owner
    BY <1>1, <1>2, <1>4, <1>6, <2>1
  <2>. QED  BY <1>6, <2>2, <2>3, <2>5, <2>6, AcquiredAtOnce
<1>7. CASE /\ m.level # 0 /\ m.owner = t /\ mutex' = [mutex EXCEPT ![o].level = Deeper(@)]
           /\ osg' = SvcReturn(osg, t, Returning("SUCCESS"))
  <2>1. m.level + 1 < Levels /\ Deeper(m.level) = m.level + 1
    <3>1. m.level = held[t][o] /\ MaxNesting < Levels /\ MaxNesting \in Nat
      BY <1>3, <1>7, LevelsAssumption DEF Has, Disciplined
    <3>2. m.level + 1 < Levels
      BY <1>1, <1>2, <3>1
    <3>. QED  BY <1>2, <3>2 DEF Deeper
  <2>2. /\ mutex'[o] = [owner |-> t, level |-> m.level + 1]
        /\ \A p \in Objects : p # o => mutex'[p] = mutex[p]
    BY <1>2, <1>7, <2>1
  <2>3. mutex' \in [Objects -> [owner: Tasks \cup {None}, level: 0 .. Levels - 1]]
    <3>1. m.level + 1 \in 0 .. Levels - 1
      BY <1>2, <2>1
    <3>. QED  BY <1>2, <1>7, <2>1, <3>1
  <2>4. Gains(mutex, mutex', t, o, "SUCCESS")
    BY <1>2, <1>7, <2>2 DEF Gains, Has
  <2>5. L!TakeAgain(LockOf(mutex, osg, o), LockOf(mutex', osg, o))
    BY <1>1, <1>2, <1>7, <2>2 DEF L!TakeAgain, LockOf
  <2>6. L!Changes(LockOf(mutex, osg, o), LockOf(mutex', osg, o))
    BY <2>5 DEF L!Changes
  <2>7. /\ mutex'[o].level = 0 <=> mutex'[o].owner = None
        /\ mutex[o].owner # None => mutex'[o].owner = mutex[o].owner
    BY <1>1, <1>2, <1>7, <2>2
  <2>. QED  BY <1>7, <2>3, <2>4, <2>6, <2>7, AcquiredAtOnce
<1>8. CASE /\ m.level # 0 /\ m.owner # t /\ to = 0 /\ mutex' = mutex
           /\ osg' = SvcReturn(osg, t, Returning("TO"))
  <2>1. Gains(mutex, mutex', t, o, "TO")
    BY <1>8 DEF Gains
  <2>2. L!Changes(LockOf(mutex, osg, o), LockOf(mutex', osg, o))
    BY <1>8, GiveUpFacts
  <2>. QED  BY <1>2, <1>4, <1>8, <2>1, <2>2, AcquiredAtOnce
<1>9. CASE /\ m.level # 0 /\ m.owner # t /\ to # 0 /\ mutex' = mutex
           /\ osg' = SvcReturn(SvcBlock(BlockedAppend(osg, o, t), to, "mutex"),
                               t, Returning("TO"))
  BY <1>9, AcquireBlocks
<1>. QED  BY <1>5, <1>6, <1>7, <1>8, <1>9 DEF AcquireCase

-----------------------------------------------------------------------------

\* The cases of osi_mutex_release.
ReleaseCase(t, o) ==
    LET m == mutex[o]
    IN  \/ /\ m.level # 1
           /\ mutex' = [mutex EXCEPT ![o].level = (@ - 1) % Levels]
           /\ osg' = SvcReturn(osg, t, Returning("SUCCESS"))
        \/ /\ m.level = 1 /\ osg.blocked[o] = <<>>
           /\ mutex' = [mutex EXCEPT ![o] = Created]
           /\ osg' = SvcReturn(osg, t, Returning("SUCCESS"))
        \/ /\ m.level = 1 /\ osg.blocked[o] # <<>>
           /\ mutex' = [mutex EXCEPT ![o] = [owner |-> Head(osg.blocked[o]), level |-> 1]]
           /\ osg' = SvcReturn(Grant(osg, o), t, Returning("SUCCESS"))

\* What t releases is its own, so that no assertion fails.
LEMMA ReleaseFacts ==
    ASSUME SafeInvariant, NEW t \in Tasks, t = osg.running, NEW o \in Objects, Release(o)
    PROVE  /\ InTask /\ calling[t] = None /\ held[t][o] > 0
           /\ calling' = calling /\ held' = [held EXCEPT ![t][o] = @ - 1]
           /\ mutex[o].owner = t /\ mutex[o].level = held[t][o]
           /\ ReleaseCase(t, o)
<1>1. /\ InTask /\ calling[t] = None /\ held[t][o] > 0
      /\ calling' = calling /\ held' = [held EXCEPT ![t][o] = @ - 1]
  BY DEF Release, AtACall
<1>2. held[t][o] \in Nat
  BY LevelsAssumption DEF SafeInvariant, Sound, Typed
<1>3. held[t][o] + Promised(osg, calling, t, o)
          = IF mutex[o].owner = t THEN mutex[o].level ELSE 0
  BY DEF SafeInvariant, Sound, Agreeing
<1>4. Promised(osg, calling, t, o) = 0
  BY <1>1, NoneAssumption DEF Promised
<1>5. mutex[o].owner = t /\ mutex[o].level = held[t][o]
  BY <1>1, <1>2, <1>3, <1>4
<1>6. osg.waits[t] = {}
  BY <1>1, CallerFacts
<1>7. OsAssert(OsAssert(osg, mutex[o].level > 0, "mutex.c:83"), mutex[o].owner = t, "mutex.c:84")
          = osg
  BY <1>1, <1>5 DEF OsAssert
<1>8. OsAssert(osg, osg.waits[t] = {}, "mutex.c:92") = osg
  BY <1>6 DEF OsAssert
<1>9. ReleaseCase(t, o)
  BY <1>7, <1>8, Zenon DEF Release, ReleaseCase
<1>. QED  BY <1>1, <1>5, <1>9

\* Only the mutex o changes; t has one less, and nobody else has more than
\* it is promised.
Loses(gn, mn, t, o) ==
    /\ \A p \in Objects : p # o => mn[p] = mutex[p]
    /\ Has(mn, o, t) = Has(mutex, o, t) - 1
    /\ \A u \in Tasks, p \in Objects : u # t =>
           Promised(gn, calling, u, p) - Has(mn, p, u)
               = Promised(osg, calling, u, p) - Has(mutex, p, u)

\* After a release, mutex and tasks agree.
LEMMA ReleaseAgrees ==
    ASSUME SafeInvariant, NEW t \in Tasks, NEW o \in Objects, calling[t] = None,
           held[t][o] > 0, NEW gn, NEW mn, Typed(mn, calling, held), Loses(gn, mn, t, o),
           NEW h, h = [held EXCEPT ![t][o] = @ - 1]
    PROVE  Agreeing(gn, mn, calling, h) /\ Nesting(calling, h) /\ Typed(mn, calling, h)
<1>1. /\ held \in [Tasks -> [Objects -> 0 .. MaxNesting]] /\ MaxNesting \in Nat
      /\ \A p \in Objects : p # None
  BY LevelsAssumption, NoneAssumption DEF SafeInvariant, Sound, Typed
<1>2. \A u \in Tasks, p \in Objects :
          h[u][p] = IF u = t /\ p = o THEN held[u][p] - 1 ELSE held[u][p]
  BY <1>1
<1>3. \A u \in Tasks, p \in Objects :
          /\ held[u][p] + Promised(osg, calling, u, p) = Has(mutex, p, u)
          /\ held[u][p] \in Int /\ Has(mutex, p, u) \in Int /\ Has(mn, p, u) \in Int
          /\ Promised(osg, calling, u, p) \in Int /\ Promised(gn, calling, u, p) \in Int
  <2>1. \A u \in Tasks, p \in Objects :
            held[u][p] + Promised(osg, calling, u, p) = Has(mutex, p, u)
    BY DEF SafeInvariant, Sound, Agreeing, Has
  <2>2. \A u \in Tasks, p \in Objects :
            /\ held[u][p] \in Int /\ Has(mutex, p, u) \in Int /\ Has(mn, p, u) \in Int
    BY LevelsAssumption DEF SafeInvariant, Sound, Typed, Has
  <2>. QED  BY <2>1, <2>2 DEF Promised
<1>4. Agreeing(gn, mn, calling, h)
  <2>. SUFFICES ASSUME NEW p \in Objects, NEW u \in Tasks
                PROVE  h[u][p] + Promised(gn, calling, u, p) = Has(mn, p, u)
    BY DEF Agreeing, Has
  <2>1. CASE u # t
    <3>1. Promised(gn, calling, u, p) - Has(mn, p, u)
               = Promised(osg, calling, u, p) - Has(mutex, p, u)
      BY <2>1 DEF Loses
    <3>. QED  BY <1>2, <1>3, <2>1, <3>1
  <2>2. CASE u = t
    <3>1. Promised(gn, calling, u, p) = 0 /\ Promised(osg, calling, u, p) = 0
      BY <1>1, <2>2 DEF Promised
    <3>2. Has(mn, p, u) = IF p = o THEN Has(mutex, p, u) - 1 ELSE Has(mutex, p, u)
      BY <2>2 DEF Loses, Has
    <3>. QED  BY <1>2, <1>3, <2>2, <3>1, <3>2
  <2>. QED  BY <2>1, <2>2
<1>5. Nesting(calling, h)
  BY <1>1, <1>2 DEF SafeInvariant, Sound, Nesting
<1>6. Typed(mn, calling, h)
  <2>1. held[t][o] - 1 \in 0 .. MaxNesting
    BY <1>1
  <2>. QED  BY <1>1, <2>1 DEF Typed
<1>. QED  BY <1>4, <1>5, <1>6

\* The releases that grant nobody the mutex.
LEMMA ReleasedAlone ==
    ASSUME Disciplined, SafeInvariant, NEW t \in Tasks, t = osg.running, NEW o \in Objects,
           Release(o), osg' = SvcReturn(osg, t, Returning("SUCCESS")),
           mutex' \in [Objects -> [owner: Tasks \cup {None}, level: 0 .. Levels - 1]],
           \A p \in Objects : p # o => mutex'[p] = mutex[p],
           mutex'[o].level = 0 <=> mutex'[o].owner = None,
           Has(mutex', o, t) = Has(mutex, o, t) - 1,
           \A u \in Tasks : u # t => Has(mutex', o, u) = Has(mutex, o, u),
           osg.blocked[o] # <<>> => mutex'[o].owner = mutex[o].owner,
           L!Changes(LockOf(mutex, osg, o), LockOf(mutex', osg, o))
    PROVE  StepSound
<1>1. /\ InTask /\ calling[t] = None /\ held[t][o] > 0 /\ calling' = calling
      /\ held' = [held EXCEPT ![t][o] = @ - 1]
  BY ReleaseFacts
<1>2. /\ Sound(osg, mutex, calling, held) /\ Returning("SUCCESS") \in Return
      /\ Healthy(osg, calling) /\ osg.ret \in [Tasks -> Return]
  BY SoundFacts DEF Returning, Return, Codes, Invariant, KernelInv, Kernel
<1>3. /\ Healthy(osg', calling) /\ Invariant' /\ osg'.blocked = osg.blocked
      /\ osg'.ret = [osg.ret EXCEPT ![t] = Returning("SUCCESS")] /\ SleepOn(osg, osg', Tasks)
  BY <1>1, <1>2, ReturnsFacts
<1>4. \A u \in Tasks : u # t => osg'.ret[u] = osg.ret[u]
  BY <1>2, <1>3
<1>5. Typed(mutex', calling, held)
  BY <1>2 DEF Sound, Typed
<1>6. Loses(osg', mutex', t, o)
  <2>1. \A u \in Tasks, p \in Objects : u # t =>
            Promised(osg', calling, u, p) = Promised(osg, calling, u, p)
    BY <1>4 DEF Promised
  <2>2. \A u \in Tasks, p \in Objects : u # t => Has(mutex', p, u) = Has(mutex, p, u)
    BY DEF Has
  <2>. QED  BY <2>1, <2>2 DEF Loses
<1>7. Agreeing(osg', mutex', calling, held') /\ Nesting(calling, held') /\ Typed(mutex', calling, held')
  BY <1>1, <1>5, <1>6, ReleaseAgrees
<1>8. Told(osg', mutex')
  <2>. SUFFICES ASSUME NEW p \in Objects, NEW u \in Tasks, Contains(osg.blocked[p], u)
                PROVE  osg'.ret[u].status = "TO" /\ mutex'[p].owner \notin {None, u}
    BY <1>3 DEF Told
  <2>1. osg.ret[u].status = "TO" /\ mutex[p].owner \notin {None, u}
    BY <1>2 DEF Sound, Told
  <2>2. u # t
    BY <1>1, CallerFacts
  <2>3. p = o => osg.blocked[o] # <<>>
    BY DEF Contains
  <2>. QED  BY <1>4, <2>1, <2>2, <2>3
<1>9. Owned(mutex')
  BY <1>2 DEF Sound, Owned
<1>10. Sound(osg', mutex', calling, held')
  BY <1>3, <1>7, <1>8, <1>9 DEF Sound
<1>11. LocksChange(osg, mutex, osg', mutex')
  <2>. SUFFICES ASSUME NEW p \in Objects
                PROVE  L!Changes(LockOf(mutex, osg, p), LockOf(mutex', osg', p))
    BY DEF LocksChange
  <2>1. LockOf(mutex', osg', p) = LockOf(mutex', osg, p)
    BY <1>3 DEF LockOf
  <2>2. CASE p = o
    BY <2>1, <2>2
  <2>3. CASE p # o
    BY <1>3, <2>3, GiveUpFacts
  <2>. QED  BY <2>2, <2>3
<1>. QED  BY <1>1, <1>3, <1>10, <1>11 DEF StepSound, SafeInvariant, SleepOn, WokenInTime

\* What a grant makes of the kernel, and the return to the task that granted.
LEMMA GrantFacts ==
    ASSUME SafeInvariant, InTask, NEW t \in Tasks, t = osg.running, calling[t] = None,
           NEW o \in Objects, NEW f \in Tasks, IsFirst(osg, o, f), NEW x, x = Grant(osg, o)
    PROVE  /\ Scheduling(x) /\ Awake(x) /\ x.halted = {} /\ IdleKept(x) /\ Blocking(x, calling)
           /\ x.scheduled # None \/ x.status[x.running] \in LeftStatus \cup {"ACTIVE"}
           /\ calling[f] = o /\ f # osg.running /\ Contains(osg.blocked[o], f)
           /\ FirstAndOneLeave(osg, x, o) /\ SleepOn(osg, x, Tasks \ {f})
           /\ x.ret = [osg.ret EXCEPT ![f].status = "SUCCESS"]
<1>1. /\ Scheduling(osg) /\ Awake(osg) /\ osg.scheduled = None /\ osg.halted = {}
      /\ IdleKept(osg) /\ osg.status[osg.running] \in LeftStatus \cup {"ACTIVE"}
      /\ Blocking(osg, calling) /\ calling \in Callers /\ o \in Plain
  BY SoundFacts, CallerFacts, MutexesPlain DEF Healthy
<1>2. calling[f] = o /\ f # osg.running
  <2>1. Contains(osg.blocked[o], f)
    <3>1. osg.blocked[o] \in Seq(Tasks) /\ NoDuplicates(osg.blocked[o])
      BY <1>1 DEF Scheduling, KernelInv, Kernel, Blocking, Listing
    <3>. QED  BY <3>1, TailFacts DEF IsFirst
  <2>. QED  BY <1>1, <2>1, NoneAssumption DEF Blocking, Listing
<1>3. PICK result \in Return : /\ Gives(osg, x, o, f, result)
                               /\ result = [osg.ret[f] EXCEPT !.status = "SUCCESS"]
  <2>1. x = DispatchOrQueue([BlockedDequeue(osg, o) EXCEPT !.ret[f].status = "SUCCESS"], f)
    BY Zenon DEF Grant, IsFirst
  <2>. QED  BY <1>1, <2>1, GivesSuccess DEF Scheduling, KernelInv
<1>4. IsGiven(osg, x, calling, o, f, result)
  BY <1>1, <1>2, <1>3, GrantKept
<1>. QED  BY <1>2, <1>3, <1>4 DEF IsGiven

\* The new owner's acquire returns success.
LEMMA GrantReturns ==
    ASSUME SafeInvariant, InTask, NEW t \in Tasks, t = osg.running, calling[t] = None,
           NEW o \in Objects, NEW f \in Tasks, IsFirst(osg, o, f), NEW x, x = Grant(osg, o),
           NEW h, h = SvcReturn(x, t, Returning("SUCCESS"))
    PROVE  /\ Healthy(h, calling) /\ Scheduling(h) /\ Awake(h)
           /\ h.blocked = x.blocked /\ h.status = x.status
           /\ h.ret = [x.ret EXCEPT ![t] = Returning("SUCCESS")]
<1>1. /\ Scheduling(x) /\ Awake(x) /\ x.halted = {} /\ IdleKept(x) /\ Blocking(x, calling)
      /\ x.scheduled # None \/ x.status[x.running] \in LeftStatus \cup {"ACTIVE"}
  BY GrantFacts
<1>2. Returning("SUCCESS") \in Return
  BY DEF Returning, Return, Codes
<1>. QED  BY <1>1, <1>2, ReturnHealthy

\* A release of o grants it to f.
Granting(t, o, f) ==
    /\ mutex' = [mutex EXCEPT ![o] = [owner |-> f, level |-> 1]]
    /\ osg' = SvcReturn(Grant(osg, o), t, Returning("SUCCESS"))

\* The release that grants the mutex to the first task in its list.
LEMMA ReleaseGrants ==
    ASSUME Disciplined, SafeInvariant, NEW t \in Tasks, t = osg.running, NEW o \in Objects,
           Release(o), mutex[o].level = 1, NEW f \in Tasks, IsFirst(osg, o, f), Granting(t, o, f)
    PROVE  StepSound
<1>1. /\ InTask /\ calling[t] = None /\ held[t][o] > 0 /\ calling' = calling
      /\ held' = [held EXCEPT ![t][o] = @ - 1] /\ mutex[o].owner = t
  BY ReleaseFacts
<1>2. /\ Sound(osg, mutex, calling, held) /\ Returning("SUCCESS") \in Return
      /\ calling \in Callers /\ Healthy(osg, calling) /\ osg.ret \in [Tasks -> Return]
      /\ osg.blocked \in [Objects -> Seq(Tasks)] /\ o \in Plain
      /\ mutex \in [Objects -> [owner: Tasks \cup {None}, level: 0 .. Levels - 1]]
  BY SoundFacts, MutexesPlain
     DEF Returning, Return, Codes, Invariant, KernelInv, Kernel, Sound, Typed
<1>3. PICK x : x = Grant(osg, o)
  OBVIOUS
<1>4. /\ Scheduling(x) /\ Awake(x) /\ x.halted = {} /\ IdleKept(x) /\ Blocking(x, calling)
      /\ x.scheduled # None \/ x.status[x.running] \in LeftStatus \cup {"ACTIVE"}
      /\ calling[f] = o /\ f # osg.running /\ Contains(osg.blocked[o], f)
      /\ FirstAndOneLeave(osg, x, o) /\ SleepOn(osg, x, Tasks \ {f})
      /\ x.ret = [osg.ret EXCEPT ![f].status = "SUCCESS"]
  BY <1>1, <1>3, GrantFacts
<1>5. /\ Healthy(osg', calling) /\ Scheduling(osg') /\ Awake(osg')
      /\ osg'.blocked = x.blocked /\ osg'.status = x.status
      /\ osg'.ret = [x.ret EXCEPT ![t] = Returning("SUCCESS")]
  <2>1. PICK h : h = SvcReturn(x, t, Returning("SUCCESS"))
    OBVIOUS
  <2>2. /\ Healthy(h, calling) /\ Scheduling(h) /\ Awake(h)
        /\ h.blocked = x.blocked /\ h.status = x.status
        /\ h.ret = [x.ret EXCEPT ![t] = Returning("SUCCESS")]
    BY <1>1, <1>2, <1>3, <2>1, GrantReturns
  <2>3. osg' = h
    BY <1>3, <2>1 DEF Granting
  <2>. QED  BY <2>2, <2>3
<1>6. Invariant'
  BY <1>5 DEF Invariant, Scheduling
<1>7. /\ osg'.ret[f].status = "SUCCESS"
      /\ \A u \in Tasks : u \notin {f, t} => osg'.ret[u] = osg.ret[u]
  <2>1. x.ret[f].status = "SUCCESS" /\ \A u \in Tasks : u # f => x.ret[u] = osg.ret[u]
    <3>1. osg.ret[f] \in Return
      BY <1>2
    <3>. QED  BY <1>2, <1>4, <3>1 DEF Return
  <2>2. x.ret \in [Tasks -> Return]
    BY <1>4 DEF Scheduling, KernelInv, Kernel
  <2>. QED  BY <1>4, <1>5, <2>1, <2>2
<1>8. mutex'[o] = [owner |-> f, level |-> 1] /\ \A p \in Objects : p # o => mutex'[p] = mutex[p]
  BY <1>2 DEF Granting
<1>9. osg.ret[f].status = "TO" /\ f # t
  BY <1>2, <1>4 DEF Sound, Told
<1>10. Loses(osg', mutex', t, o)
  <2>1. Has(mutex', o, t) = Has(mutex, o, t) - 1
    BY <1>1, <1>8, <1>9 DEF Has
  <2>2. \A u \in Tasks, p \in Objects : u \notin {f, t} =>
            /\ Promised(osg', calling, u, p) = Promised(osg, calling, u, p)
            /\ Has(mutex', p, u) = Has(mutex, p, u)
    BY <1>1, <1>7, <1>8 DEF Promised, Has
  <2>3. \A p \in Objects :
            Promised(osg', calling, f, p) - Has(mutex', p, f)
                = Promised(osg, calling, f, p) - Has(mutex, p, f)
    <3>. SUFFICES ASSUME NEW p \in Objects
                  PROVE  Promised(osg', calling, f, p) - Has(mutex', p, f)
                            = Promised(osg, calling, f, p) - Has(mutex, p, f)
      OBVIOUS
    <3>1. CASE p = o
      <4>1. Promised(osg', calling, f, p) = 1 /\ Promised(osg, calling, f, p) = 0
        BY <1>4, <1>7, <1>9, <3>1 DEF Promised
      <4>2. Has(mutex', p, f) = 1 /\ Has(mutex, p, f) = 0
        BY <1>1, <1>8, <1>9, <3>1 DEF Has
      <4>. QED  BY <4>1, <4>2
    <3>2. CASE p # o
      <4>1. Promised(osg', calling, f, p) = 0 /\ Promised(osg, calling, f, p) = 0
        BY <1>4, <3>2 DEF Promised
      <4>2. Has(mutex', p, f) = Has(mutex, p, f)
        BY <1>8, <3>2 DEF Has
      <4>. QED  BY <4>1, <4>2
    <3>. QED  BY <3>1, <3>2
  <2>4. \A u \in Tasks, p \in Objects : u # t =>
           Promised(osg', calling, u, p) - Has(mutex', p, u)
               = Promised(osg, calling, u, p) - Has(mutex, p, u)
    BY <2>2, <2>3
  <2>. QED  BY <1>8, <2>1, <2>4 DEF Loses
<1>11. Agreeing(osg', mutex', calling, held') /\ Nesting(calling, held') /\ Typed(mutex', calling, held')
  <2>1. Typed(mutex', calling, held)
    <3>1. [owner |-> f, level |-> 1] \in [owner: Tasks \cup {None}, level: 0 .. Levels - 1]
      BY LevelsAssumption
    <3>. QED  BY <1>2, <3>1 DEF Sound, Typed, Granting
  <2>. QED  BY <1>1, <1>10, <2>1, ReleaseAgrees
<1>12. PICK q : q = Tail(osg.blocked[o])
  OBVIOUS
<1>13. q \in Seq(Tasks) /\ \A u \in Tasks : Contains(q, u) <=> Contains(osg.blocked[o], u) /\ u # f
  <2>1. osg.blocked[o] \in Seq(Tasks) /\ NoDuplicates(osg.blocked[o])
    BY <1>2 DEF Sound, Healthy, Blocking, Listing
  <2>. QED  BY <1>12, <2>1, TailFacts DEF IsFirst
<1>14. x.blocked[o] \in {q} \cup {RemoveAt(q, i) : i \in 1 .. Len(q)}
  BY <1>4, <1>12, ZenonT(40) DEF FirstAndOneLeave
<1>15. \A p \in Objects : p # o =>
           x.blocked[p] \in {osg.blocked[p]} \cup
                   {RemoveAt(osg.blocked[p], i) : i \in 1 .. Len(osg.blocked[p])}
  BY <1>4 DEF FirstAndOneLeave
<1>16. \A p \in Objects, u \in Tasks :
           Contains(x.blocked[p], u) => Contains(osg.blocked[p], u) /\ u # f
  <2>. SUFFICES ASSUME NEW p \in Objects, NEW u \in Tasks, Contains(x.blocked[p], u)
                PROVE  Contains(osg.blocked[p], u) /\ u # f
    OBVIOUS
  <2>1. CASE p = o
    <3>1. Contains(q, u)
      BY <1>13, <1>14, <2>1, LeavingFacts
    <3>. QED  BY <1>13, <2>1, <3>1
  <2>2. CASE p # o
    <3>1. Contains(osg.blocked[p], u)
      BY <1>2, <1>15, <2>2, LeavingFacts
    <3>2. calling[u] = p
      BY <1>2, <3>1 DEF Healthy, Blocking, Listing
    <3>. QED  BY <1>4, <2>2, <3>1, <3>2
  <2>. QED  BY <2>1, <2>2
<1>17. Told(osg', mutex')
  <2>. SUFFICES ASSUME NEW p \in Objects, NEW u \in Tasks, Contains(x.blocked[p], u)
                PROVE  osg'.ret[u].status = "TO" /\ mutex'[p].owner \notin {None, u}
    BY <1>5 DEF Told
  <2>1. Contains(osg.blocked[p], u) /\ u # f
    BY <1>16
  <2>2. osg.ret[u].status = "TO" /\ mutex[p].owner \notin {None, u}
    BY <1>2, <2>1 DEF Sound, Told
  <2>3. u # t
    BY <1>1, <2>1, CallerFacts
  <2>4. f # None
    BY NoneAssumption
  <2>. QED  BY <1>7, <1>8, <2>1, <2>2, <2>3, <2>4
<1>18. Owned(mutex')
  <2>1. mutex'[o].level = 1 /\ mutex'[o].owner = f /\ f # None
    BY <1>8, NoneAssumption
  <2>2. \A p \in Objects : p # o => (mutex'[p].level = 0 <=> mutex'[p].owner = None)
    BY <1>2, <1>8 DEF Sound, Owned
  <2>. QED  BY <2>1, <2>2 DEF Owned
<1>19. Sound(osg', mutex', calling, held')
  BY <1>5, <1>11, <1>17, <1>18 DEF Sound
<1>20. LocksChange(osg, mutex, osg', mutex')
  <2>. SUFFICES ASSUME NEW p \in Objects
                PROVE  L!Changes(LockOf(mutex, osg, p), LockOf(mutex', osg', p))
    BY DEF LocksChange
  <2>1. CASE p = o
    <3>1. x.blocked[o] \in L!AtMostOneLeaves(q)
      BY <1>14, SameOperators, Zenon
    <3>2. LockOf(mutex', osg', o) = [holder |-> f, depth |-> 1, queue |-> x.blocked[o]]
      BY <1>5, <1>8 DEF LockOf
    <3>3. LockOf(mutex, osg, o).depth = 1 /\ LockOf(mutex, osg, o).queue = osg.blocked[o]
      BY DEF LockOf
    <3>4. L!HandOver(LockOf(mutex, osg, o), LockOf(mutex', osg', o))
      BY <1>12, <3>1, <3>2, <3>3 DEF L!HandOver, IsFirst
    <3>. QED  BY <2>1, <3>4 DEF L!Changes
  <2>2. CASE p # o
    BY <1>5, <1>8, <1>15, <2>2, GiveUpFacts
  <2>. QED  BY <2>1, <2>2
<1>21. \A u \in Tasks : WokenInTime(u)
  <2>1. calling[f] # None /\ mutex'[calling[f]].owner = f
    BY <1>4, <1>8, NoneAssumption
  <2>2. \A u \in Tasks : u # f => WokenInTime(u)
    BY <1>4, <1>5 DEF SleepOn, WokenInTime
  <2>. QED  BY <2>1, <2>2 DEF WokenInTime
<1>. QED  BY <1>1, <1>6, <1>19, <1>20, <1>21 DEF StepSound, SafeInvariant

\* A level that does not wrap.
LEMMA SmallMod == ASSUME NEW n \in Nat, NEW b \in Nat, n < b PROVE n % b = n
OBVIOUS

\* os_mutex_release.
LEMMA ReleaseStep ==
    ASSUME Disciplined, SafeInvariant, NEW o \in Objects, Release(o)
    PROVE  StepSound
<1>. DEFINE m == mutex[o]
<1>1. PICK t \in Tasks : t = osg.running
  BY InThreadFacts, SoundFacts DEF Release, InTask
<1>2. /\ held[t][o] > 0 /\ m.owner = t /\ m.level = held[t][o] /\ ReleaseCase(t, o)
  BY <1>1, ReleaseFacts
<1>3. /\ mutex \in [Objects -> [owner: Tasks \cup {None}, level: 0 .. Levels - 1]]
      /\ Levels \in Nat /\ m.level \in 0 .. Levels - 1
      /\ osg.blocked \in [Objects -> Seq(Tasks)] /\ None \notin Tasks
  BY SoundFacts, LevelsAssumption, NoneAssumption
     DEF Sound, Typed, Invariant, KernelInv, Kernel
<1>4. CASE /\ m.level # 1 /\ mutex' = [mutex EXCEPT ![o].level = (@ - 1) % Levels]
           /\ osg' = SvcReturn(osg, t, Returning("SUCCESS"))
  <2>1. m.level - 1 \in 0 .. Levels - 1 /\ m.level > 1 /\ (m.level - 1) % Levels = m.level - 1
    <3>1. m.level - 1 \in 0 .. Levels - 1 /\ m.level > 1
      BY <1>2, <1>3, <1>4
    <3>2. m.level - 1 \in Nat /\ m.level - 1 < Levels
      BY <1>3, <3>1
    <3>. QED  BY <1>3, <3>1, <3>2, SmallMod
  <2>2. /\ mutex'[o] = [owner |-> t, level |-> m.level - 1]
        /\ \A p \in Objects : p # o => mutex'[p] = mutex[p]
    BY <1>2, <1>3, <1>4, <2>1
  <2>3. mutex' \in [Objects -> [owner: Tasks \cup {None}, level: 0 .. Levels - 1]]
    BY <1>3, <1>4, <2>1
  <2>4. /\ Has(mutex', o, t) = Has(mutex, o, t) - 1
        /\ \A u \in Tasks : u # t => Has(mutex', o, u) = Has(mutex, o, u)
    BY <1>2, <2>2 DEF Has
  <2>5. /\ mutex'[o].level = 0 <=> mutex'[o].owner = None
        /\ mutex'[o].owner = mutex[o].owner
    BY <1>2, <1>3, <2>1, <2>2
  <2>6. L!Changes(LockOf(mutex, osg, o), LockOf(mutex', osg, o))
    <3>1. L!GiveBack(LockOf(mutex, osg, o), LockOf(mutex', osg, o))
      BY <1>2, <2>1, <2>2 DEF L!GiveBack, LockOf
    <3>. QED  BY <3>1 DEF L!Changes
  <2>. QED  BY <1>1, <1>4, <2>2, <2>3, <2>4, <2>5, <2>6, ReleasedAlone
<1>5. CASE /\ m.level = 1 /\ osg.blocked[o] = <<>> /\ mutex' = [mutex EXCEPT ![o] = Created]
           /\ osg' = SvcReturn(osg, t, Returning("SUCCESS"))
  <2>1. /\ mutex'[o] = [owner |-> None, level |-> 0]
        /\ \A p \in Objects : p # o => mutex'[p] = mutex[p]
    BY <1>3, <1>5 DEF Created
  <2>2. mutex' \in [Objects -> [owner: Tasks \cup {None}, level: 0 .. Levels - 1]]
    BY <1>3, <1>5 DEF Created
  <2>3. /\ Has(mutex', o, t) = Has(mutex, o, t) - 1
        /\ \A u \in Tasks : u # t => Has(mutex', o, u) = Has(mutex, o, u)
    BY <1>2, <1>3, <1>5, <2>1 DEF Has
  <2>4. L!Changes(LockOf(mutex, osg, o), LockOf(mutex', osg, o))
    <3>1. L!GiveAway(LockOf(mutex, osg, o), LockOf(mutex', osg, o))
      BY <1>5, <2>1 DEF L!GiveAway, L!Free, LockOf
    <3>. QED  BY <3>1 DEF L!Changes
  <2>5. (mutex'[o].level = 0 <=> mutex'[o].owner = None) /\ osg.blocked[o] = <<>>
    BY <1>5, <2>1
  <2>. QED  BY <1>1, <1>5, <2>1, <2>2, <2>3, <2>4, <2>5, ReleasedAlone
<1>6. CASE /\ m.level = 1 /\ osg.blocked[o] # <<>>
           /\ mutex' = [mutex EXCEPT ![o] = [owner |-> Head(osg.blocked[o]), level |-> 1]]
           /\ osg' = SvcReturn(Grant(osg, o), t, Returning("SUCCESS"))
  <2>1. PICK f \in Tasks : f = Head(osg.blocked[o])
    BY <1>3, <1>6
  <2>2. IsFirst(osg, o, f) /\ Granting(t, o, f) /\ mutex[o].level = 1
    BY <1>6, <2>1 DEF IsFirst, Granting
  <2>. QED  BY <1>1, <2>2, ReleaseGrants
<1>. QED  BY <1>2, <1>4, <1>5, <1>6 DEF ReleaseCase

-----------------------------------------------------------------------------
(***************************************************************************)
(* The theorems.                                                           *)
(***************************************************************************)

\* Every step of the specification keeps the invariant and changes each lock
\* as it may.
LEMMA NextSound ==
    ASSUME Disciplined, SafeInvariant, [Next]_vars
    PROVE  StepSound
<1>1. CASE Next
  BY <1>1, BackgroundStep, CallStep, SuspendOrResumeStep, RestartStep, AcquireStep,
     AcquireReturnsStep, ReleaseStep DEF Next
<1>2. CASE UNCHANGED vars
  <2>1. osg' = osg /\ mutex' = mutex /\ calling' = calling /\ held' = held
    BY <1>2 DEF vars
  <2>2. Invariant'
    BY <2>1, SoundFacts, StutterStep
  <2>3. Healthy(osg', calling) /\ Undisturbed(osg, osg', calling) /\ SleepOn(osg, osg', Tasks)
    BY <2>1, SoundFacts DEF Undisturbed, OneLeaves, SleepOn
  <2>. QED  BY <2>1, <2>2, <2>3, UnconcernedStep
<1>. QED  BY <1>1, <1>2

\* The inductive invariant holds.
LEMMA SafeHolds == ASSUME Disciplined PROVE Spec => []SafeInvariant
<1>1. Init => SafeInvariant
  BY InitSound
<1>2. SafeInvariant /\ [Next]_vars => SafeInvariant'
  BY NextSound DEF StepSound
<1>. QED  BY <1>1, <1>2, PTL DEF Spec

\* What mutexes do to the scheduler's queues leaves them in order: the types
\* are right, and the queues and the switching survive osi_dispatch moving a
\* granted task between them.
THEOREM SchedulerSurvivesMutexes == ASSUME Disciplined PROVE Spec => []KernelSurvives
<1>1. SafeInvariant => KernelSurvives
  BY DEF SafeInvariant, Sound, Typed, KernelSurvives, TypeOK, Invariant, KernelInv
<1>. QED  BY <1>1, SafeHolds, PTL

\* The mutex and the tasks agree on who has it and how often, whether or not
\* the owner has returned from os_mutex_acquire yet.
THEOREM OwnersAgree == ASSUME Disciplined PROVE Spec => []Agreement
<1>1. SafeInvariant => Agreement
  BY DEF SafeInvariant, Sound, Agreeing, Promised, Agreement, Succeeding
<1>. QED  BY <1>1, SafeHolds, PTL

\* No waiter is forgotten: it is in the list os_mutex_release looks at, and
\* whoever is in a list is still inside os_mutex_acquire.
THEOREM NoWaiterIsLost == ASSUME Disciplined PROVE Spec => []WaitersAreListed
<1>1. SafeInvariant => WaitersAreListed
  <2>. SUFFICES ASSUME SafeInvariant, NEW o \in Objects, NEW t \in Tasks
                PROVE  /\ calling[t] = o /\ osg.status[t] = "WAIT" =>
                              Contains(osg.blocked[o], t) /\ mutex[o].owner \notin {None, t}
                       /\ Contains(osg.blocked[o], t) =>
                              calling[t] = o /\ osg.ret[t].status = "TO" /\ o \in osg.waits[t]
    BY DEF WaitersAreListed
  <2>1. /\ Blocking(osg, calling) /\ Told(osg, mutex) /\ o # None
    BY NoneAssumption DEF SafeInvariant, Sound, Healthy
  <2>2. calling[t] = o /\ osg.status[t] = "WAIT" => Contains(osg.blocked[o], t)
    BY <2>1 DEF Blocking, ListedAsleep
  <2>3. Contains(osg.blocked[o], t) =>
            /\ calling[t] = o /\ o \in osg.waits[t]
            /\ osg.ret[t].status = "TO" /\ mutex[o].owner \notin {None, t}
    BY <2>1 DEF Blocking, Listing, Flagging, Told
  <2>. QED  BY <2>2, <2>3
<1>. QED  BY <1>1, SafeHolds, PTL

\* No OS_ASSERT of os.c, service.c, utilities.h or mutex.c fails.
THEOREM NoAssertionOfMutexesFails == ASSUME Disciplined PROVE Spec => []NeverHalts
<1>1. SafeInvariant => NeverHalts
  BY DEF SafeInvariant, Sound, Healthy, NeverHalts
<1>. QED  BY <1>1, SafeHolds, PTL

\* Only a grant of os_mutex_release ends a sleep before its time-out.
THEOREM OnlyGrantsWake == ASSUME Disciplined PROVE Spec => WokenByGrant
<1>1. SafeInvariant /\ [Next]_vars =>
          [\A t \in Tasks :
              osg.status[t] = "WAIT" /\ osg.delay[t] > 1 /\ osg'.status[t] # "WAIT"
                  => calling[t] # None /\ mutex'[calling[t]].owner = t]_vars
  BY NextSound DEF StepSound, WokenInTime
<1>. QED  BY <1>1, SafeHolds, PTL DEF Spec, WokenByGrant

\* Every call of mutex.c, and every switch and time-out of the scheduler, is
\* a step of the locks of Lock.tla or leaves them alone.
THEOREM MutexesAreLocks == ASSUME Disciplined PROVE Spec => ImplementsLock
<1>. DEFINE lock == [o \in Objects |-> [holder |-> mutex[o].owner, depth |-> mutex[o].level,
                                        queue |-> osg.blocked[o]]]
<1>1. Init => L!Init
  BY InitSound
<1>2. SafeInvariant /\ [Next]_vars => [L!Next]_lock
  <2>. SUFFICES ASSUME SafeInvariant, [Next]_vars PROVE L!Next
    OBVIOUS
  <2>1. LocksChange(osg, mutex, osg', mutex')
    BY NextSound DEF StepSound
  <2>2. \A o \in Objects : /\ lock[o] = LockOf(mutex, osg, o)
                           /\ lock'[o] = LockOf(mutex', osg', o)
    BY DEF LockOf
  <2>. QED  BY <2>1, <2>2 DEF L!Next, LocksChange
<1>. QED  BY <1>1, <1>2, SafeHolds, PTL DEF Spec, ImplementsLock, L!Spec

=============================================================================
