--------------------------- MODULE SemaphoreProofs ---------------------------
(***************************************************************************)
(* No token of a semaphore is lost or made, whatever the tasks, the        *)
(* semaphores, their tokens and the time-outs, by an application that      *)
(* neither suspends nor restarts a task inside of os_semaphore_acquire.    *)
(* The accounts balance up to the assertion that ends a behaviour in which *)
(* somebody blocks, and in the state that fails it.  That the assertion is *)
(* the only one to fail, and when it does, is proved for an application    *)
(* none of whose calls halts the scheduler.                                *)
(***************************************************************************)
EXTENDS Semaphore, HandlersProofs, FiniteSetTheorems

-----------------------------------------------------------------------------
(***************************************************************************)
(* The lists of blocked tasks.  The lemmas of HandlersProofs that keep     *)
(* assertions true do not apply: a semaphore's flag is two other flags.    *)
(***************************************************************************)

\* What is known of a task in the list of o: it is inside of its acquire,
\* points to it, is flagged and has not been given the processor.
Linked(g, c, o, t) ==
    /\ c[t] = o
    /\ g.waits[t] = {o} /\ Flag.semaphore \subseteq g.flags[t]
    /\ g.status[t] \in {"WAIT", "IDLE"}

Listed(g, c) ==
    /\ g.blocked \in [Objects -> Seq(Tasks)]
    /\ \A o \in Objects : NoDuplicates(g.blocked[o])
    /\ \A o \in Objects, t \in Tasks : Contains(g.blocked[o], t) => Linked(g, c, o, t)

\* t is in no list.
Unlisted(g, t) == \A o \in Objects : ~Contains(g.blocked[o], t)

\* From g to h tasks may have left lists; of those left in them nothing has
\* changed, but that a time-out may have made them ready.
Thins(g, h) ==
    /\ h.blocked \in [Objects -> Seq(Tasks)]
    /\ \A o \in Objects : NoDuplicates(h.blocked[o])
    /\ \A o \in Objects, t \in Tasks : Contains(h.blocked[o], t) =>
           /\ Contains(g.blocked[o], t)
           /\ h.waits[t] = g.waits[t] /\ h.flags[t] = g.flags[t]
           /\ h.status[t] \in {g.status[t], "IDLE"}

\* What is known of the tasks in lists stays known when lists only get shorter.
LEMMA ThinsListed ==
    ASSUME NEW g, NEW h, NEW c, Listed(g, c), Thins(g, h)
    PROVE  Listed(h, c) /\ \A t \in Tasks : Unlisted(g, t) => Unlisted(h, t)
BY DEF Thins, Listed, Linked, Unlisted

\* Two steps of this kind are one.
LEMMA ThinsAgain ==
    ASSUME NEW g, NEW w, NEW h, Thins(g, w), Thins(w, h)
    PROVE  Thins(g, h)
BY DEF Thins

\* The lists are as they were, and so is all that is known of their tasks.
LEMMA ThinsNothing ==
    ASSUME NEW g, NEW c, Listed(g, c), NEW h, h.blocked = g.blocked,
           \A t \in Tasks : Unlisted(g, t) \/
               (h.waits[t] = g.waits[t] /\ h.flags[t] = g.flags[t] /\ h.status[t] = g.status[t])
    PROVE  Thins(g, h)
BY DEF Thins, Listed, Unlisted

\* The flag tests of osi_dispatch take a semaphore's flag for a mutex's.
LEMMA SemaphoreFlagFound ==
    ASSUME NEW g, NEW t \in Tasks, Flag.semaphore \subseteq g.flags[t]
    PROVE  FlagKind(g, t) # None
<1>. DEFINE T == {k \in Kinds : Flag[k] \subseteq g.flags[t]}
<1>1. FlagTests \in Seq(Kinds) /\ Len(FlagTests) = 4 /\ FlagTests[1] = "mutex"
  BY DEF FlagTests, Kinds
<1>2. FlagTests[1] \in T
  BY <1>1 DEF Flag, Kinds
<1>3. None \notin Kinds
  BY NoneAssumption
<1>. HIDE DEF T
<1>4. FirstOf(FlagTests, T) # None
  BY <1>1, <1>2, <1>3, FirstOfIsFirst
<1>. QED  BY <1>4 DEF FlagKind, T

\* Whoever is chosen leaves the list it is in.
LEMMA PicksThins ==
    ASSUME NEW g, NEW c, Listed(g, c), NEW h, NEW d \in Tasks \cup {None}, Picks(g, h, d)
    PROVE  /\ Thins(g, h) /\ h.ret = g.ret
           /\ d # None => Unlisted(h, d) /\ Chosen(h) = d
           /\ d = None => Chosen(h) = Chosen(g)
<1>1. CASE d = None
  <2>1. /\ h.blocked = g.blocked /\ h.scheduled = g.scheduled /\ h.running = g.running
        /\ h.ret = g.ret
        /\ \A t \in Tasks : /\ h.waits[t] = g.waits[t] /\ h.flags[t] = g.flags[t]
                            /\ h.status[t] \in {g.status[t], "IDLE"}
    BY <1>1, NoneAssumption DEF Picks, Steady
  <2>. QED  BY <1>1, <2>1 DEF Thins, Listed, Chosen
<1>2. CASE d # None
  <2>1. /\ d \in Tasks /\ h.scheduled = d /\ h.ret = g.ret
        /\ h.blocked = Delisted(g, d)
        /\ \A t \in Tasks : t # d =>
               /\ h.waits[t] = g.waits[t] /\ h.flags[t] = g.flags[t]
               /\ h.status[t] \in {g.status[t], "IDLE"}
    BY <1>2 DEF Picks, Steady
  <2>2. ASSUME NEW o \in Objects
        PROVE  /\ h.blocked[o] \in Seq(Tasks) /\ NoDuplicates(h.blocked[o])
               /\ \A t \in Tasks : Contains(h.blocked[o], t) => Contains(g.blocked[o], t) /\ t # d
    <3>1. g.blocked[o] \in Seq(Tasks) /\ NoDuplicates(g.blocked[o])
      BY DEF Listed
    <3>2. CASE FlagKind(g, d) # None /\ o \in g.waits[d]
      <4>1. h.blocked[o] = RemoveFirst(g.blocked[o], d)
        BY <2>1, <3>2 DEF Delisted
      <4>. QED  BY <2>1, <3>1, <4>1, RemoveFirstFacts
    <3>3. CASE ~(FlagKind(g, d) # None /\ o \in g.waits[d])
      <4>1. h.blocked[o] = g.blocked[o]
        BY <2>1, <3>3 DEF Delisted
      <4>2. ~Contains(g.blocked[o], d)
        BY <2>1, <3>3, SemaphoreFlagFound DEF Listed, Linked
      <4>. QED  BY <3>1, <4>1, <4>2
    <3>. QED  BY <3>2, <3>3
  <2>3. h.blocked \in [Objects -> Seq(Tasks)]
    BY <2>1, <2>2 DEF Delisted
  <2>. QED  BY <1>2, <2>1, <2>2, <2>3 DEF Thins, Unlisted, Chosen
<1>. QED  BY <1>1, <1>2

\* A task that is in no list gets another status or delay.
LEMMA MovedThins ==
    ASSUME NEW g, NEW c, Listed(g, c), g \in Kernel, NEW t \in Tasks, Unlisted(g, t),
           NEW w, NEW new, NEW ms, Moved(g, w, t, new, ms)
    PROVE  Thins(g, w)
<1>1. /\ w.blocked = g.blocked /\ w.waits = g.waits /\ w.flags = g.flags
      /\ \A u \in Tasks : u # t => w.status[u] = g.status[u]
  BY DEF Moved, Kernel
<1>. QED  BY <1>1, ThinsNothing

\* What is left when the running task has given the processor up: either an
\* assertion has failed or the task chosen has left its list.
LEMMA GivenUp ==
    ASSUME NEW g, NEW x, NEW new, NEW ms, GivesUp(g, x, new, ms), NEW c,
           \A w : Moved(g, w, g.running, new, ms) => Listed(w, c)
    PROVE  /\ \E w : Moved(g, w, g.running, new, ms) /\ Thins(w, x)
           /\ x.halted = {} => Unlisted(x, Chosen(x))
           /\ x.ret = g.ret
<1>0. PICK w : \E d \in Tasks \cup {None} :
          Moved(g, w, g.running, new, ms) /\ Picks(w, x, d) /\ (x.halted # {} \/ d # None)
  BY Zenon DEF GivesUp
<1>1. PICK d \in Tasks \cup {None} :
          Moved(g, w, g.running, new, ms) /\ Picks(w, x, d) /\ (x.halted # {} \/ d # None)
  BY <1>0
<1>2. Listed(w, c)
  BY <1>1
<1>3. /\ Thins(w, x) /\ x.ret = w.ret
      /\ d # None => Unlisted(x, d) /\ Chosen(x) = d
  BY <1>1, <1>2, PicksThins
<1>4. w.ret = g.ret
  BY <1>1 DEF Moved, Steady
<1>. QED  BY <1>1, <1>3, <1>4

\* SVC_Handler stores a result and switches.
LEMMA ReturnThins ==
    ASSUME NEW x, Scheduling(x), NEW c, Listed(x, c), NEW t \in Tasks, NEW result \in Return,
           NEW h, h = SvcReturn(x, t, result)
    PROVE  /\ Thins(x, h) /\ h.blocked = x.blocked /\ h.ret = [x.ret EXCEPT ![t] = result]
           /\ h.halted = x.halted /\ h.state = x.state /\ Chosen(h) = Chosen(x)
<1>1. Switched(x, h) /\ h.ret = [x.ret EXCEPT ![t] = result]
  BY SvcReturnInv
<1>2. Thins(x, h)
  BY <1>1, ThinsNothing DEF Switched
<1>. QED  BY <1>1, <1>2 DEF Switched, Chosen

\* osi_schedule, as SysTick calls it.
LEMMA ScheduleThins ==
    ASSUME NEW g, NEW c, Listed(g, c), Unlisted(g, Chosen(g)), NEW h, Schedules(g, h)
    PROVE  Thins(g, h) /\ h.ret = g.ret /\ Unlisted(h, Chosen(h))
<1>1. PICK d \in Tasks \cup {None} : Picks(g, h, d)
  BY DEF Schedules
<1>2. /\ Thins(g, h) /\ h.ret = g.ret
      /\ d # None => Unlisted(h, d) /\ Chosen(h) = d
      /\ d = None => Chosen(h) = Chosen(g)
  BY <1>1, PicksThins
<1>3. d = None => h.blocked = g.blocked
  BY <1>1 DEF Picks
<1>. QED  BY <1>2, <1>3 DEF Unlisted

-----------------------------------------------------------------------------
(***************************************************************************)
(* The inductive invariant.                                                *)
(***************************************************************************)

\* Whoever is still in a list will be told of a time-out.
Told(g) == \A o \in Objects, t \in Tasks : Contains(g.blocked[o], t) => g.ret[t].status = "TO"

\* No task whose code runs, or is about to run, is in a list.
Apart(g) == g.state = "STARTED" /\ g.halted = {} => Unlisted(g, Chosen(g))

\* The accounts of o, when S are the tasks that have its token.
Balanced(n, m, S) == IsFiniteSet(S) /\ m = n + Cardinality(S)

SafeInvariant ==
    /\ Invariant
    /\ TypeOK
    /\ Listed(osg, calling) /\ Told(osg) /\ Apart(osg)
    /\ osg.state # "STARTED" => \A t \in Tasks : calling[t] = None
    /\ \A o \in Objects : Balanced(tokens[o], credit[o], Succeeding(o))
    /\ \A o \in Objects : osg.blocked[o] # <<>> => tokens[o] = 0

\* A step that is no semaphore call leaves the accounts alone.
LEMMA UnconcernedKept ==
    ASSUME SafeInvariant, Invariant', Thins(osg, osg'), Apart(osg'),
           \A t \in Tasks : calling[t] # None => osg'.ret[t] = osg.ret[t],
           osg'.state # "STARTED" => \A t \in Tasks : calling[t] = None,
           UNCHANGED <<tokens, calling, credit>>
    PROVE  SafeInvariant'
<1>1. Listed(osg', calling)
  BY ThinsListed DEF SafeInvariant
<1>2. Told(osg')
  <2>. SUFFICES ASSUME NEW o \in Objects, NEW t \in Tasks, Contains(osg'.blocked[o], t)
                PROVE  osg'.ret[t].status = "TO"
    BY DEF Told
  <2>1. Contains(osg.blocked[o], t)
    BY DEF Thins
  <2>2. calling[t] = o /\ o # None
    BY <2>1, NoneAssumption DEF SafeInvariant, Listed, Linked
  <2>. QED  BY <2>1, <2>2 DEF SafeInvariant, Told
<1>3. \A o \in Objects : Succeeding(o)' = Succeeding(o)
  BY NoneAssumption DEF Succeeding
<1>4. \A o \in Objects : osg'.blocked[o] # <<>> => osg.blocked[o] # <<>>
  <2>. SUFFICES ASSUME NEW o \in Objects, osg'.blocked[o] # <<>> PROVE osg.blocked[o] # <<>>
    OBVIOUS
  <2>1. osg'.blocked[o] \in Seq(Tasks) /\ NoDuplicates(osg'.blocked[o])
    BY DEF Thins
  <2>2. Contains(osg.blocked[o], Head(osg'.blocked[o]))
    BY <2>1, TailFacts DEF Thins
  <2>. QED  BY <2>2 DEF Contains
<1>5. TypeOK'
  BY DEF SafeInvariant, TypeOK, Invariant, KernelInv
<1>. QED  BY <1>1, <1>2, <1>3, <1>4, <1>5 DEF SafeInvariant

\* What the running task of a sound system may rely on.
LEMMA ThreadFacts ==
    ASSUME SafeInvariant, InThread
    PROVE  /\ Scheduling(osg) /\ Awake(osg) /\ osg.scheduled = None /\ osg.halted = {}
           /\ osg \in Kernel /\ osg.state = "STARTED"
           /\ osg.running \in Tasks /\ osg.status[osg.running] # "WAIT"
           /\ Listed(osg, calling) /\ Unlisted(osg, osg.running)
           /\ \A code \in Codes : Returning(code) \in Return
<1>1. Invariant /\ Apart(osg) /\ osg.halted = {} /\ osg.state = "STARTED" /\ osg.scheduled = None
      /\ Listed(osg, calling)
  BY DEF SafeInvariant, InThread
<1>2. Unlisted(osg, osg.running)
  BY <1>1 DEF Apart, Chosen
<1>. QED  BY <1>1, <1>2, InThreadFacts
          DEF Scheduling, KernelInv, Returning, Return

\* main() before the first task runs: nobody is inside of a call.
LEMMA BootKept == ASSUME SafeInvariant, Boot, UNCHANGED <<tokens, calling, credit>>
                  PROVE  SafeInvariant'
<1>1. Invariant /\ Invariant' /\ Listed(osg, calling) /\ KernelInv(osg) /\ osg \in Kernel
  BY BootStep DEF SafeInvariant, Invariant, KernelInv
<1>2. osg.state # "STARTED" /\ osg.running = None /\ osg.scheduled = None
      /\ \A t \in Tasks : osg.status[t] # "ACTIVE"
  BY <1>1 DEF Boot, Initialize, TaskInitialize, Start, Teardown, Invariant
<1>3. \A t \in Tasks : calling[t] = None
  BY <1>2 DEF SafeInvariant
<1>4. \A t \in Tasks : Unlisted(osg, t)
  BY <1>1, <1>3, NoneAssumption DEF Unlisted, Listed, Linked
<1>5. osg'.blocked = osg.blocked \/ osg'.blocked = [o \in Objects |-> <<>>]
  <2>1. CASE Initialize
    BY <1>1, <2>1 DEF Initialize, Kernel
  <2>2. ASSUME NEW t \in Tasks, NEW new \in {"IDLE", "SUSPENDED"}, NEW p \in StartPriorities,
               TaskInitialize(t, new, p)
        PROVE  osg'.blocked = osg.blocked
    <3>1. osg' = Initialized(osg, t, new, p) /\ t \notin osg.tasks
      BY <2>2 DEF TaskInitialize
    <3>2. osg.status[t] = "NEW" /\ p \in 0 .. MaxPriority
      BY <1>1, <1>2, <3>1, PrioritiesAssumption DEF Invariant
    <3>3. Initializes(osg, osg', t, new, p)
      BY <1>1, <3>1, <3>2, InitializedInv, Zenon
    <3>. QED  BY <3>3 DEF Initializes
  <2>3. CASE Start
    <3>1. osg.idle \in Tasks /\ osg.status[osg.idle] = "IDLE"
      BY <1>1, <2>3 DEF Start, Invariant, Kernel
    <3>2. osg' = [OsAssert(osg, osg.runqueue # <<>>, "os.c:370") EXCEPT
                      !.running = osg.idle, !.status[osg.idle] = "ACTIVE", !.state = "STARTED"]
      BY <2>3 DEF Start
    <3>3. osg' = [osg EXCEPT !.running = osg.idle, !.status[osg.idle] = "ACTIVE",
                             !.state = "STARTED"]
      BY <1>1, <1>2, <3>1, <3>2, StartInv, Zenon
    <3>. QED  BY <1>1, <3>3 DEF Kernel
  <2>4. CASE Teardown
    BY <2>4 DEF Teardown, ZeroKernel
  <2>. QED  BY <2>1, <2>2, <2>3, <2>4 DEF Boot
<1>6. /\ \A o \in Objects, t \in Tasks : ~Contains(osg'.blocked[o], t)
      /\ \A o \in Objects : NoDuplicates(osg'.blocked[o])
      /\ osg'.blocked \in [Objects -> Seq(Tasks)]
  BY <1>1, <1>4, <1>5 DEF Unlisted, Listed, Contains, NoDuplicates
<1>7. Thins(osg, osg')
  BY <1>6 DEF Thins
<1>8. Apart(osg')
  <2>1. \A x : ~(x \in Tasks) \/ Unlisted(osg', x)
    BY <1>6 DEF Unlisted
  <2>2. osg'.state = "STARTED" => Chosen(osg') \in Tasks
    BY <1>1 DEF Invariant, Scheduling, KernelInv, Kernel, Chosen
  <2>. QED  BY <2>1, <2>2 DEF Apart
<1>. QED  BY <1>1, <1>3, <1>7, <1>8, UnconcernedKept

\* The exceptions.
LEMMA ExceptionKept ==
    ASSUME SafeInvariant, SysTick \/ PendSV, UNCHANGED <<tokens, calling, credit>>
    PROVE  SafeInvariant'
<1>1. /\ Invariant /\ Invariant' /\ Listed(osg, calling) /\ Apart(osg)
      /\ osg.halted = {}
  BY ExceptionStep DEF SafeInvariant, SysTick, PendSV
<1>2. osg.state = "STARTED" /\ Scheduling(osg) /\ Unlisted(osg, Chosen(osg))
  BY <1>1 DEF SysTick, PendSV, Invariant, Apart
<1>3. CASE SysTick
  <2>1. PICK e : e = Elapse(osg)
    OBVIOUS
  <2>2. /\ Scheduling(e) /\ Steady(osg, e) /\ e.scheduled = osg.scheduled
        /\ e.status = osg.status /\ e.flags = osg.flags /\ e.waits = osg.waits
        /\ e.blocked = osg.blocked
    BY <1>2, <2>1, ElapseInv
  <2>3. Schedules(e, osg')
    BY <1>3, <2>1, <2>2, ScheduleIfNoneInv DEF SysTick
  <2>4. Thins(osg, e)
    BY <1>1, <2>2, ThinsNothing
  <2>5. Listed(e, calling) /\ Unlisted(e, Chosen(e))
    BY <1>1, <1>2, <2>2, <2>4, ThinsListed DEF Chosen, Steady, Unlisted
  <2>6. Thins(e, osg') /\ osg'.ret = e.ret /\ Unlisted(osg', Chosen(osg'))
    BY <2>3, <2>5, ScheduleThins
  <2>7. Thins(osg, osg') /\ osg'.ret = osg.ret /\ osg'.state = "STARTED"
    BY <1>2, <2>2, <2>3, <2>4, <2>6, ThinsAgain DEF Steady, Schedules, Scheduling
  <2>. QED  BY <1>1, <2>6, <2>7, UnconcernedKept DEF Apart
<1>4. CASE PendSV
  <2>1. Switched(osg, osg') /\ osg'.ret = osg.ret
    BY <1>2, <1>4, SwitchInv DEF PendSV
  <2>2. Thins(osg, osg')
    BY <1>1, <2>1, ThinsNothing DEF Switched
  <2>3. Apart(osg') /\ osg'.state = "STARTED"
    BY <1>2, <2>1 DEF Apart, Switched, Chosen, Unlisted
  <2>. QED  BY <1>1, <2>1, <2>2, <2>3, UnconcernedKept
<1>. QED  BY <1>3, <1>4

\* A task that is inside of no call gives the processor up.
LEMMA GivesUpSafe ==
    ASSUME SafeInvariant, InThread, Invariant', calling[osg.running] = None,
           NEW x, NEW new, NEW ms, GivesUp(osg, x, new, ms), NEW code \in Codes,
           osg' = SvcReturn(x, osg.running, Returning(code)),
           UNCHANGED <<tokens, calling, credit>>
    PROVE  SafeInvariant'
<1>1. /\ Scheduling(osg) /\ osg \in Kernel /\ osg.running \in Tasks /\ Returning(code) \in Return
      /\ Listed(osg, calling) /\ Unlisted(osg, osg.running) /\ osg.ret \in [Tasks -> Return]
  BY ThreadFacts DEF Kernel
<1>2. \A w : Moved(osg, w, osg.running, new, ms) => Thins(osg, w) /\ Listed(w, calling)
  BY <1>1, MovedThins, ThinsListed
<1>3. /\ \E w : Moved(osg, w, osg.running, new, ms) /\ Thins(w, x)
      /\ x.halted = {} => Unlisted(x, Chosen(x))
      /\ x.ret = osg.ret
  BY <1>2, GivenUp
<1>4. Thins(osg, x) /\ Listed(x, calling) /\ Scheduling(x)
  BY <1>1, <1>2, <1>3, ThinsAgain, ThinsListed DEF GivesUp
<1>5. /\ Thins(x, osg') /\ osg'.blocked = x.blocked /\ osg'.halted = x.halted
      /\ osg'.ret = [x.ret EXCEPT ![osg.running] = Returning(code)] /\ Chosen(osg') = Chosen(x)
      /\ osg'.state = x.state
  BY <1>1, <1>4, ReturnThins
<1>6. Thins(osg, osg') /\ Apart(osg')
  BY <1>3, <1>4, <1>5, ThinsAgain DEF Apart, Unlisted
<1>7. /\ \A t \in Tasks : calling[t] # None => osg'.ret[t] = osg.ret[t]
      /\ osg'.state # "STARTED" => \A t \in Tasks : calling[t] = None
  <2>1. osg'.state = "STARTED"
    BY <1>4, <1>5 DEF Scheduling
  <2>. QED  BY <1>1, <1>3, <1>5, <2>1
<1>. QED  BY <1>6, <1>7, UnconcernedKept

\* A task that is inside of no call gets another status, is restarted, or
\* has an assertion about it fail.
LEMMA ChangeSafe ==
    ASSUME SafeInvariant, InThread, Invariant', NEW t \in Tasks, calling[t] = None,
           osg'.running = osg.running, osg'.scheduled = osg.scheduled, osg'.ret = osg.ret,
           osg'.state = osg.state,
           \A o \in Objects : ~Contains(osg.blocked[o], t) => osg'.blocked[o] = osg.blocked[o],
           \A u \in Tasks : u # t => /\ osg'.waits[u] = osg.waits[u] /\ osg'.flags[u] = osg.flags[u]
                                     /\ osg'.status[u] = osg.status[u],
           UNCHANGED <<tokens, calling, credit>>
    PROVE  SafeInvariant'
<1>1. /\ Listed(osg, calling) /\ Unlisted(osg, Chosen(osg)) /\ osg.state = "STARTED"
      /\ osg \in Kernel
  BY ThreadFacts DEF Chosen
<1>2. Unlisted(osg, t)
  BY <1>1, NoneAssumption DEF Unlisted, Listed, Linked
<1>3. osg'.blocked = osg.blocked
  <2>1. osg'.blocked \in [Objects -> Seq(Tasks)]
    BY DEF Invariant, KernelInv, Kernel
  <2>. QED  BY <1>1, <1>2, <2>1 DEF Unlisted, Listed
<1>4. Thins(osg, osg')
  BY <1>1, <1>2, <1>3, ThinsNothing
<1>5. Apart(osg')
  BY <1>1, <1>3 DEF Apart, Chosen, Unlisted
<1>. QED  BY <1>1, <1>4, <1>5, UnconcernedKept

\* The application lets a task inside of os_semaphore_acquire be.
Considerate == ~SuspendsAcquirers /\ ~RestartsAcquirers

\* The calls that are not about semaphores.
Elsewhere ==
    \/ OtherCall
    \/ \E t \in Tasks : SuspendOrResume(t)
    \/ \E t \in Tasks, p \in StartPriorities : Restart(t, p)

\* A considerate restart is of a task that was inside of no acquire.
LEMMA ElsewhereFacts ==
    ASSUME Considerate, SafeInvariant, Elsewhere
    PROVE  /\ AtACall /\ UNCHANGED <<tokens, calling, credit>>
           /\ \/ \E ms \in Delays : Delay(ms)
              \/ Panic \/ Abort \/ Finish
              \/ \E t \in Tasks : calling[t] = None /\ (Suspend(t) \/ Resume(t))
              \/ \E t \in Tasks, p \in StartPriorities : calling[t] = None /\ TaskStart(t, p)
<1>1. CASE OtherCall
  BY <1>1 DEF OtherCall
<1>2. ASSUME NEW t \in Tasks, SuspendOrResume(t)
      PROVE  /\ AtACall /\ UNCHANGED <<tokens, calling, credit>>
             /\ calling[t] = None /\ (Suspend(t) \/ Resume(t))
  BY <1>2 DEF SuspendOrResume, Considerate
<1>3. ASSUME NEW t \in Tasks, NEW p \in StartPriorities, Restart(t, p)
      PROVE  /\ AtACall /\ UNCHANGED <<tokens, calling, credit>>
             /\ calling[t] = None /\ TaskStart(t, p)
  <2>1. calling[t] = None /\ calling' = [calling EXCEPT ![t] = None]
    BY <1>3 DEF Restart, Considerate
  <2>2. calling' = calling
    BY <2>1 DEF SafeInvariant, TypeOK
  <2>. QED  BY <1>3, <2>1, <2>2 DEF Restart
<1>. QED  BY <1>1, <1>2, <1>3 DEF Elsewhere

\* They leave the accounts alone.
LEMMA OtherCallKept == ASSUME Considerate, SafeInvariant, Elsewhere PROVE SafeInvariant'
<1>0. calling[osg.running] = None /\ UNCHANGED <<tokens, calling, credit>> /\ InThread
  BY ElsewhereFacts DEF AtACall
<1>1. /\ Scheduling(osg) /\ osg.scheduled = None /\ osg \in Kernel
      /\ osg.running \in Tasks /\ osg.status[osg.running] # "WAIT" /\ Invariant
      /\ "TO" \in Codes /\ "SUCCESS" \in Codes
  BY <1>0, ThreadFacts DEF Codes, SafeInvariant
<1>2. ASSUME NEW ms \in Delays, Delay(ms) PROVE SafeInvariant'
  <2>1. osg' = SvcReturn(SvcDelay(osg, ms), osg.running, Returning("TO"))
    BY <1>2 DEF Delay
  <2>2. ms \in 0 .. Forever
    BY DelaysAssumption
  <2>3. GivesUp(osg, SvcDelay(osg, ms), "WAIT", ms)
    BY <1>1, <2>2, SvcDelayInv
  <2>4. Invariant'
    BY <1>1, <1>2, ServiceStep
  <2>. QED  BY <1>0, <1>1, <2>1, <2>3, <2>4, GivesUpSafe
<1>3. ASSUME NEW new \in LeftStatus, Invariant',
             osg' = SvcReturn(SvcLeave(osg, new), osg.running, Returning("SUCCESS"))
      PROVE  SafeInvariant'
  <2>1. GivesUp(osg, SvcLeave(osg, new), new, osg.delay[osg.running])
    BY <1>1, SvcLeaveInv
  <2>. QED  BY <1>0, <1>1, <1>3, <2>1, GivesUpSafe
<1>4. CASE Panic \/ Abort
  <2>1. Invariant'
    BY <1>1, <1>4, ServiceStep
  <2>. QED  BY <1>3, <1>4, <2>1 DEF Panic, Abort, LeftStatus
<1>5. CASE Finish
  <2>1. PICK w : w = OsAssert(osg, osg.status[osg.running] = "ACTIVE", "os.c:907")
    OBVIOUS
  <2>2. Scheduling(w)
    BY <1>1, <2>1, OsAssertInv DEF Halts
  <2>3. Frame(osg, w) /\ w.status = osg.status
    <3>1. "os.c:907" \in Halts
      BY DEF Halts
    <3>2. CASE osg.status[osg.running] = "ACTIVE"
      BY <2>1, <3>2 DEF OsAssert, Frame
    <3>3. CASE osg.status[osg.running] # "ACTIVE"
      <4>1. w = [osg EXCEPT !.halted = @ \cup {"os.c:907"}]
        BY <2>1, <3>3 DEF OsAssert
      <4>. QED  BY <1>1, <3>1, <4>1, HaltedFacts
    <3>. QED  BY <3>2, <3>3
  <2>4. Changes(w, osg', osg.running, "FINISHED")
    <3>1. osg' = StatusSet(w, osg.running, "FINISHED")
      BY <1>5, <2>1 DEF Finish
    <3>. QED  BY <1>1, <2>2, <2>3, <3>1, StatusChange DEF Frame, LeftStatus
  <2>5. /\ Frame(osg, osg')
        /\ \A u \in Tasks : u # osg.running => osg'.status[u] = osg.status[u]
    BY <1>1, <2>3, <2>4 DEF Changes, Frame, Kernel
  <2>6. Invariant'
    BY <1>1, <1>5, ServiceStep
  <2>. QED  BY <1>0, <1>1, <2>5, <2>6, ChangeSafe DEF Frame
<1>6. ASSUME NEW t \in Tasks, calling[t] = None, Suspend(t) \/ Resume(t) PROVE SafeInvariant'
  <2>1. PICK new \in {"SUSPENDED", "IDLE"} : Changes(osg, osg', t, new)
    <3>1. CASE Suspend(t)
      BY <1>1, <3>1, StatusChange DEF Suspend, LeftStatus
    <3>2. CASE Resume(t)
      BY <1>1, <3>2, StatusChange DEF Resume, LeftStatus, RunningStatus
    <3>. QED  BY <1>6, <3>1, <3>2
  <2>2. /\ Frame(osg, osg')
        /\ \A u \in Tasks : u # t => osg'.status[u] = osg.status[u]
    BY <1>1, <2>1 DEF Changes, Kernel
  <2>3. Invariant'
    BY <1>1, <1>6, TaskStep
  <2>. QED  BY <1>0, <1>6, <2>2, <2>3, ChangeSafe DEF Frame
<1>7. ASSUME NEW t \in Tasks, NEW p \in StartPriorities, calling[t] = None, TaskStart(t, p)
      PROVE  SafeInvariant'
  <2>1. osg' = Started(osg, t, p) /\ osg.status[t] \notin RunningStatus /\ t # osg.running
          /\ p \in 0 .. MaxPriority
    BY <1>7, PrioritiesAssumption DEF TaskStart
  <2>2. Restarts(osg, osg', t, p)
    BY <1>1, <2>1, StartedInv
  <2>3. /\ osg'.running = osg.running /\ osg'.scheduled = osg.scheduled /\ osg'.ret = osg.ret
        /\ osg'.state = osg.state
        /\ \A u \in Tasks : u # t => /\ osg'.waits[u] = osg.waits[u] /\ osg'.flags[u] = osg.flags[u]
                                     /\ osg'.status[u] = osg.status[u]
        /\ \A o \in Objects : ~Contains(osg.blocked[o], t) => osg'.blocked[o] = osg.blocked[o]
    BY <1>1, <2>2 DEF Restarts, Scheduling, Kernel
  <2>4. Invariant'
    BY <1>1, <1>7, TaskStep
  <2>. QED  BY <1>0, <1>7, <2>3, <2>4, ChangeSafe
<1>. QED  BY <1>2, <1>4, <1>5, <1>6, <1>7, ElsewhereFacts

-----------------------------------------------------------------------------
(***************************************************************************)
(* The calls about a semaphore.                                            *)
(***************************************************************************)

\* An assertion leaves everything as it is but what has halted.
LEMMA AssertFacts ==
    ASSUME NEW g, Scheduling(g), NEW condition, NEW where \in Halts,
           NEW h, h = OsAssert(g, condition, where)
    PROVE  /\ Scheduling(h) /\ Frame(g, h) /\ h.status = g.status
           /\ h.runqueue = g.runqueue /\ h.waitqueue = g.waitqueue
<1>1. Scheduling(h)
  BY OsAssertInv
<1>2. CASE h = g
  BY <1>1, <1>2 DEF Frame
<1>3. CASE h = [g EXCEPT !.halted = @ \cup {where}]
  BY <1>1, <1>3, HaltedFacts DEF Scheduling, KernelInv
<1>. QED  BY <1>2, <1>3 DEF OsAssert

\* What a service call leaves keeps the scheduler's invariant.
LEMMA ReturnInvariant ==
    ASSUME NEW x, Scheduling(x), x.halted # {} \/ Awake(x),
           NEW t \in Tasks, NEW result \in Return, osg' = SvcReturn(x, t, result)
    PROVE  Invariant'
<1>1. PICK h : h = osg'
  OBVIOUS
<1>2. Scheduling(h) /\ (Awake(x) => Awake(h)) /\ Switched(x, h)
  BY <1>1, SvcReturnInv
<1>. QED  BY <1>1, <1>2 DEF Invariant, Scheduling, Switched

\* A task that is in no list enters a call or leaves one.
LEMMA ListedElsewhere ==
    ASSUME NEW g, NEW c, Listed(g, c), NEW t \in Tasks, Unlisted(g, t),
           NEW n, \A u \in Tasks : u # t => n[u] = c[u]
    PROVE  Listed(g, n)
BY DEF Listed, Linked, Unlisted

\* t enters an acquire of o, whose result the code is.
Entered(t, o, code) ==
    /\ calling[t] = None /\ calling' = [calling EXCEPT ![t] = o]
    /\ osg'.ret = [osg.ret EXCEPT ![t] = Returning(code)]

\* Who has o's token then.
LEMMA SucceedingEntered ==
    ASSUME TypeOK, NEW t \in Tasks, NEW o \in Objects, NEW code \in Codes, Entered(t, o, code)
    PROVE  /\ \A p \in Objects : Succeeding(p)' =
                  IF p = o /\ code = "SUCCESS" THEN Succeeding(p) \cup {t} ELSE Succeeding(p)
           /\ t \notin Succeeding(o)
<1>1. /\ \A u \in Tasks : calling'[u] = IF u = t THEN o ELSE calling[u]
      /\ \A u \in Tasks : osg'.ret[u] = IF u = t THEN Returning(code) ELSE osg.ret[u]
      /\ calling[t] = None /\ \A p \in Objects : p # None
  BY NoneAssumption DEF TypeOK, Kernel, Entered
<1>2. Returning(code).status = code
  BY DEF Returning
<1>3. ASSUME NEW p \in Objects
      PROVE  Succeeding(p)' =
                 IF p = o /\ code = "SUCCESS" THEN Succeeding(p) \cup {t} ELSE Succeeding(p)
  BY <1>1, <1>2 DEF Succeeding
<1>. QED  BY <1>1, <1>3 DEF Succeeding

\* One more has a token, one fewer, or nobody else.
LEMMA BalancedMoves ==
    ASSUME NEW n \in Nat, NEW m \in Nat, NEW S, Balanced(n, m, S), NEW t
    PROVE  /\ t \notin S /\ n > 0 => Balanced(n - 1, m, S \cup {t})
           /\ t \notin S => Balanced(n, m + 1, S \cup {t})
           /\ t \in S => Balanced(n, m - 1, S \ {t}) /\ m > 0
           /\ Balanced(n + 1, m + 1, S) /\ n <= m
<1>1. IsFiniteSet(S) /\ m = n + Cardinality(S) /\ Cardinality(S) \in Nat
  BY FS_CardinalityType DEF Balanced
<1>2. /\ IsFiniteSet(S \cup {t}) /\ IsFiniteSet(S \ {t})
      /\ t \notin S => Cardinality(S \cup {t}) = Cardinality(S) + 1
      /\ t \in S => Cardinality(S \ {t}) = Cardinality(S) - 1
  BY <1>1, FS_AddElement, FS_RemoveElement
<1>3. t \in S => Cardinality(S) > 0
  BY <1>1, <1>2, FS_CardinalityType
<1>. QED  BY <1>1, <1>2, <1>3 DEF Balanced

\* The lists have not grown, so a list that is not empty was not.
LEMMA ThinsEmpty ==
    ASSUME NEW g, NEW h, Thins(g, h), NEW o \in Objects, h.blocked[o] # <<>>
    PROVE  g.blocked[o] # <<>>
<1>1. h.blocked[o] \in Seq(Tasks) /\ NoDuplicates(h.blocked[o])
  BY DEF Thins
<1>2. Contains(g.blocked[o], Head(h.blocked[o]))
  BY <1>1, TailFacts DEF Thins
<1>. QED  BY <1>2 DEF Contains

\* osi_semaphore_acquire, when it does not block.
LEMMA AcquireAtOnce ==
    ASSUME SafeInvariant, InThread, NEW o \in Objects, calling[osg.running] = None,
           calling' = [calling EXCEPT ![osg.running] = o], credit' = credit,
           NEW code \in {"SUCCESS", "TO"},
           code = "SUCCESS" => CanTake(o) /\ tokens' = [tokens EXCEPT ![o] = @ - 1],
           code = "TO" => UNCHANGED tokens,
           osg' = SvcReturn(OsAssert(osg, osg.waits[osg.running] \subseteq {o}, "semaphore.c:47"),
                            osg.running, Returning(code))
    PROVE  SafeInvariant'
<1>. DEFINE t == osg.running
<1>1. PICK x : x = OsAssert(osg, osg.waits[osg.running] \subseteq {o}, "semaphore.c:47")
  OBVIOUS
<1>2. /\ Scheduling(osg) /\ Awake(osg) /\ t \in Tasks /\ osg.state = "STARTED"
      /\ Listed(osg, calling) /\ Unlisted(osg, t) /\ osg.scheduled = None
      /\ Returning(code) \in Return /\ osg.ret \in [Tasks -> Return] /\ code \in Codes
  BY ThreadFacts DEF Codes, Kernel
<1>3. Scheduling(x) /\ Frame(osg, x) /\ x.status = osg.status
  <2>1. "semaphore.c:47" \in Halts
    BY DEF Halts
  <2>. QED  BY <1>1, <1>2, <2>1, AssertFacts
<1>4. Awake(x) /\ Listed(x, calling) /\ Thins(osg, x)
  BY <1>2, <1>3, ThinsNothing, ThinsListed DEF Awake, Frame
<1>5. /\ Thins(x, osg') /\ osg'.blocked = x.blocked /\ osg'.halted = x.halted
      /\ osg'.ret = [osg.ret EXCEPT ![t] = Returning(code)] /\ Chosen(osg') = Chosen(x)
      /\ osg'.state = x.state
  <2>1. osg' = SvcReturn(x, t, Returning(code))
    BY <1>1
  <2>. QED  BY <1>2, <1>3, <1>4, <2>1, ReturnThins DEF Frame
<1>6. Invariant'
  BY <1>1, <1>2, <1>3, <1>4, ReturnInvariant
<1>7. osg'.blocked = osg.blocked /\ Chosen(osg') = t /\ osg'.state = "STARTED"
  BY <1>2, <1>3, <1>5 DEF Frame, Chosen
<1>8. Listed(osg', calling')
  <2>1. Listed(osg', calling) /\ Unlisted(osg', t)
    BY <1>2, <1>4, <1>5, ThinsListed
  <2>2. \A u \in Tasks : u # t => calling'[u] = calling[u]
    BY <1>2 DEF SafeInvariant, TypeOK
  <2>. QED  BY <1>2, <2>1, <2>2 DEF Listed, Linked, Unlisted
<1>9. Told(osg') /\ Apart(osg')
  <2>1. \A u \in Tasks : u # t => osg'.ret[u] = osg.ret[u]
    BY <1>2, <1>5
  <2>2. Told(osg')
    BY <1>2, <1>7, <2>1 DEF SafeInvariant, Told, Unlisted
  <2>3. Apart(osg')
    BY <1>2, <1>7 DEF Apart, Unlisted
  <2>. QED  BY <2>2, <2>3
<1>10. /\ \A p \in Objects : Succeeding(p)' =
             IF p = o /\ code = "SUCCESS" THEN Succeeding(p) \cup {t} ELSE Succeeding(p)
       /\ t \notin Succeeding(o)
  <2>1. Entered(t, o, code)
    BY <1>5 DEF Entered
  <2>. QED  BY <1>2, <2>1, SucceedingEntered DEF SafeInvariant
<1>11. /\ tokens \in [Objects -> 0 .. MaxTokens] /\ credit \in [Objects -> 0 .. MaxTokens]
       /\ MaxTokens \in Nat /\ calling \in [Tasks -> Objects \cup {None}]
       /\ \A p \in Objects : Balanced(tokens[p], credit[p], Succeeding(p))
       /\ \A p \in Objects : osg.blocked[p] # <<>> => tokens[p] = 0
  BY TokensAssumption DEF SafeInvariant, TypeOK
<1>12. \A p \in Objects : tokens'[p] = IF p = o /\ code = "SUCCESS" THEN tokens[p] - 1 ELSE tokens[p]
  BY <1>11
<1>13. code = "SUCCESS" => tokens[o] > 0
  BY DEF CanTake
<1>14. tokens' \in [Objects -> 0 .. MaxTokens]
  <2>1. code = "SUCCESS" => tokens[o] - 1 \in 0 .. MaxTokens
    BY <1>11, <1>13
  <2>. QED  BY <1>11, <2>1
<1>15. ASSUME NEW p \in Objects
       PROVE  /\ Balanced(tokens'[p], credit'[p], Succeeding(p)')
              /\ osg'.blocked[p] # <<>> => tokens'[p] = 0
  <2>1. tokens[p] \in Nat /\ credit[p] \in Nat
    BY <1>11
  <2>2. CASE p = o /\ code = "SUCCESS"
    <3>1. Balanced(tokens[p], credit[p], Succeeding(p)) /\ tokens[p] > 0 /\ t \notin Succeeding(p)
      BY <1>10, <1>11, <1>13, <2>2
    <3>2. Balanced(tokens[p] - 1, credit[p], Succeeding(p) \cup {t})
      BY <2>1, <3>1, BalancedMoves
    <3>3. Succeeding(p)' = Succeeding(p) \cup {t} /\ tokens'[p] = tokens[p] - 1
      BY <1>10, <1>12, <2>2
    <3>4. osg'.blocked[p] = <<>>
      BY <1>7, <1>11, <3>1
    <3>. QED  BY <3>2, <3>3, <3>4
  <2>3. CASE ~(p = o /\ code = "SUCCESS")
    BY <1>7, <1>10, <1>11, <1>12, <2>3
  <2>. QED  BY <2>2, <2>3
<1>16. TypeOK'
  BY <1>2, <1>6, <1>11, <1>14 DEF TypeOK, Invariant, KernelInv
<1>. QED  BY <1>6, <1>7, <1>8, <1>9, <1>15, <1>16 DEF SafeInvariant

\* The record when o's list is q and t points to o alone and has the flags f.
Linking(y, t, o, q, f) == [y EXCEPT !.blocked[o] = q, !.waits[t] = {o}, !.flags[t] = f]

\* Whoever is linked in is last in the list, and nothing else has changed.
LEMMA LinkingIn ==
    ASSUME NEW y \in Kernel, NEW t \in Tasks, NEW o \in Objects, NEW q \in Seq(Tasks),
           NEW f \in SUBSET FlagBits, NEW g,
           g = Linking(y, t, o, q, f)
    PROVE  /\ g \in Kernel
           /\ g.state = y.state /\ g.running = y.running /\ g.idle = y.idle
           /\ g.tasks = y.tasks /\ g.priority = y.priority /\ g.ret = y.ret
           /\ g.status = y.status /\ g.scheduled = y.scheduled /\ g.halted = y.halted
           /\ g.delay = y.delay /\ g.runqueue = y.runqueue /\ g.waitqueue = y.waitqueue
           /\ g.blocked = [y.blocked EXCEPT ![o] = q] /\ g.waits = [y.waits EXCEPT ![t] = {o}]
           /\ g.flags = [y.flags EXCEPT ![t] = f]
BY DEF Kernel, Linking

\* What a task that blocks on o has done before it gives the processor up.
Joining(k, o) ==
    [BlockedAppend(OsAssert(k, k.waits[k.running] \subseteq {o}, "semaphore.c:47"), o, k.running)
        EXCEPT !.flags[k.running] = @ \cup Flag["semaphore"]]

\* What that leaves: it is last in the list, flagged, and points to o alone.
Joined(k, g, o) ==
    /\ Scheduling(g) /\ Steady(k, g) /\ g.status = k.status /\ g.scheduled = k.scheduled
    /\ g.blocked = [k.blocked EXCEPT ![o] = Append(@, k.running)]
    /\ g.waits = [k.waits EXCEPT ![k.running] = {o}]
    /\ g.flags = [k.flags EXCEPT ![k.running] = @ \cup Flag.semaphore]

\* A task that is in no list blocks on o: blocked_append and the flag.
LEMMA JoiningFacts ==
    ASSUME NEW k, Scheduling(k), NEW o \in Objects, NEW g, g = Joining(k, o)
    PROVE  Joined(k, g, o)
<1>. DEFINE t == k.running
            checked == OsAssert(k, k.waits[t] \subseteq {o}, "semaphore.c:47")
            same == {p \in checked.waits[t] : Kind[p] = Kind[o]}
            unlinked == /\ ~Contains(checked.blocked[o], t)
                        /\ \A p \in Objects :
                               Contains(checked.blocked[p], t) => Last(checked.blocked[p]) = t
            first == OsAssert(checked, unlinked, "blocked_append")
            y == OsAssert(first, same = {}, "blocked_enq")
            b == [y EXCEPT !.blocked[o] = Append(@, t), !.waits[t] = (@ \ same) \cup {o}]
<1>1. t \in Tasks /\ k \in Kernel
  BY DEF Scheduling, KernelInv
<1>2. /\ "semaphore.c:47" \in Halts /\ "blocked_append" \in Halts /\ "blocked_enq" \in Halts
  BY DEF Halts
<1>3. /\ Scheduling(checked) /\ Frame(k, checked) /\ checked.status = k.status
      /\ checked.runqueue = k.runqueue /\ checked.waitqueue = k.waitqueue
  BY <1>2, AssertFacts
<1>. HIDE DEF checked, unlinked
<1>4. /\ Scheduling(first) /\ Frame(checked, first) /\ first.status = checked.status
      /\ first.runqueue = checked.runqueue /\ first.waitqueue = checked.waitqueue
  BY <1>2, <1>3, AssertFacts
<1>. HIDE DEF first
<1>0. /\ Scheduling(y) /\ Frame(first, y) /\ y.status = first.status
      /\ y.runqueue = first.runqueue /\ y.waitqueue = first.waitqueue
  BY <1>2, <1>4, AssertFacts
<1>. HIDE DEF y
<1>5. /\ Scheduling(y) /\ Frame(k, y) /\ y.status = k.status
      /\ y.runqueue = k.runqueue /\ y.waitqueue = k.waitqueue
  BY <1>0, <1>3, <1>4 DEF Frame
<1>6. (y.waits[t] \ same) \cup {o} = {o}
  <2>1. y.waits = checked.waits /\ y.waits \in [Tasks -> SUBSET Objects]
    BY <1>3, <1>5 DEF Frame, Scheduling, KernelInv, Kernel
  <2>2. same = checked.waits[t]
    BY <1>1, <2>1, AllSemaphores
  <2>. QED  BY <2>1, <2>2
<1>7. g = [b EXCEPT !.flags[t] = @ \cup Flag["semaphore"]]
  BY Zenon DEF Joining, BlockedAppend, checked, unlinked, first, y
<1>. HIDE DEF same
<1>8. /\ g \in Kernel /\ Steady(k, g) /\ g.status = k.status /\ g.scheduled = k.scheduled
      /\ g.delay = k.delay /\ g.runqueue = k.runqueue /\ g.waitqueue = k.waitqueue
      /\ g.blocked = [k.blocked EXCEPT ![o] = Append(@, t)]
      /\ g.waits = [k.waits EXCEPT ![t] = {o}]
      /\ g.flags = [k.flags EXCEPT ![t] = @ \cup Flag.semaphore]
  <2>1. /\ y \in Kernel /\ y.state = k.state /\ y.running = k.running /\ y.idle = k.idle
        /\ y.tasks = k.tasks /\ y.priority = k.priority /\ y.ret = k.ret
        /\ y.scheduled = k.scheduled /\ y.delay = k.delay /\ y.flags = k.flags
        /\ y.waits = k.waits /\ y.blocked = k.blocked
    BY <1>5 DEF Frame, Scheduling, KernelInv
  <2>2. Append(y.blocked[o], t) \in Seq(Tasks)
    BY <1>1, <2>1, AppendProperties DEF Kernel
  <2>3. y.flags[t] \cup Flag.semaphore \in SUBSET FlagBits
    BY <1>1, <2>1 DEF Kernel, Flag, FlagBits
  <2>4. g = [y EXCEPT !.blocked[o] = Append(@, t), !.waits[t] = {o},
                      !.flags[t] = @ \cup Flag.semaphore]
    <3>1. b = [y EXCEPT !.blocked[o] = Append(@, t), !.waits[t] = {o}]
      BY <1>6
    <3>2. b.flags = y.flags
      BY <2>1 DEF Kernel
    <3>3. g = [b EXCEPT !.flags[t] = @ \cup Flag.semaphore]
      BY <1>7
    <3>. HIDE DEF b
    <3>. QED  BY <3>1, <3>3
  <2>5. PICK q, f : q = Append(y.blocked[o], t) /\ f = y.flags[t] \cup Flag.semaphore
    OBVIOUS
  <2>6. g = Linking(y, t, o, q, f)
    BY <2>4, <2>5 DEF Linking
  <2>7. /\ g \in Kernel /\ Steady(y, g) /\ g.status = y.status /\ g.scheduled = y.scheduled
        /\ g.delay = y.delay /\ g.runqueue = y.runqueue /\ g.waitqueue = y.waitqueue
        /\ g.blocked = [y.blocked EXCEPT ![o] = q] /\ g.waits = [y.waits EXCEPT ![t] = {o}]
        /\ g.flags = [y.flags EXCEPT ![t] = f]
    <3>1. q \in Seq(Tasks) /\ f \in SUBSET FlagBits /\ y \in Kernel
      BY <2>1, <2>2, <2>3, <2>5
    <3>. QED  BY <1>1, <2>6, <3>1, LinkingIn DEF Steady
  <2>. QED  BY <1>5, <2>1, <2>5, <2>7 DEF Steady
<1>9. Scheduling(g)
  BY <1>8 DEF Scheduling, Steady, KernelInv, QueuesMatchStatus, RunqueueSorted, WaitqueueSorted
<1>. QED  BY <1>8, <1>9 DEF Joined

\* osi_semaphore_acquire, when it blocks.
LEMMA AcquireBlocks ==
    ASSUME SafeInvariant, InThread, NEW o \in Objects, calling[osg.running] = None,
           calling' = [calling EXCEPT ![osg.running] = o], UNCHANGED <<tokens, credit>>,
           ~CanTake(o), NEW to \in 0 .. Forever,
           osg' = SvcReturn(SvcDelay(Joining(osg, o), to), osg.running, Returning("TO"))
    PROVE  SafeInvariant'
<1>1. PICK t, g, x, n : /\ t = osg.running /\ g = Joining(osg, o) /\ x = SvcDelay(g, to)
                        /\ n = calling'
  OBVIOUS
<1>2. /\ Scheduling(osg) /\ t \in Tasks /\ osg.state = "STARTED" /\ osg \in Kernel
      /\ osg.status[t] # "WAIT"
      /\ Listed(osg, calling) /\ Unlisted(osg, t) /\ osg.scheduled = None
      /\ Returning("TO") \in Return /\ "TO" \in Codes
  BY <1>1, ThreadFacts DEF Codes
<1>3. /\ Scheduling(g) /\ Steady(osg, g) /\ g.status = osg.status /\ g.scheduled = None
      /\ g.blocked = [osg.blocked EXCEPT ![o] = Append(@, t)]
      /\ g.waits = [osg.waits EXCEPT ![t] = {o}]
      /\ g.flags = [osg.flags EXCEPT ![t] = @ \cup Flag.semaphore]
  <2>1. Joined(osg, g, o)
    BY <1>1, <1>2, JoiningFacts
  <2>. QED  BY <1>1, <1>2, <2>1 DEF Joined
<1>4. /\ \A p \in Objects :
             g.blocked[p] = IF p = o THEN Append(osg.blocked[o], t) ELSE osg.blocked[p]
      /\ \A u \in Tasks : g.waits[u] = IF u = t THEN {o} ELSE osg.waits[u]
      /\ Flag.semaphore \subseteq g.flags[t]
      /\ \A u \in Tasks : u # t => g.flags[u] = osg.flags[u]
      /\ \A u \in Tasks : n[u] = IF u = t THEN o ELSE calling[u]
      /\ g.running = t
  BY <1>1, <1>2, <1>3 DEF Kernel, Steady, SafeInvariant, TypeOK
<1>5. \A p \in Objects :
          /\ g.blocked[p] \in Seq(Tasks) /\ NoDuplicates(g.blocked[p])
          /\ \A u \in Tasks : Contains(g.blocked[p], u)
                                 <=> Contains(osg.blocked[p], u) \/ (p = o /\ u = t)
  <2>1. \A p \in Objects : NoDuplicates(osg.blocked[p]) /\ osg.blocked[p] \in Seq(Tasks)
    BY <1>2 DEF Listed
  <2>2. ~Contains(osg.blocked[o], t)
    BY <1>2 DEF Unlisted
  <2>3. LET q == Append(osg.blocked[o], t)
        IN  /\ q \in Seq(Tasks) /\ NoDuplicates(q)
            /\ \A u \in Tasks : Contains(q, u) <=> Contains(osg.blocked[o], u) \/ u = t
    BY <1>2, <2>1, <2>2, AppendFacts
  <2>. QED  BY <1>4, <2>1, <2>3
<1>6. GivesUp(g, x, "WAIT", to)
  <2>1. g.status[g.running] # "WAIT"
    BY <1>2, <1>3, <1>4
  <2>. QED  BY <1>1, <1>3, <2>1, SvcDelayInv
<1>7. ASSUME NEW w, Moved(g, w, g.running, "WAIT", to)
      PROVE  Listed(w, n) /\ w.blocked = g.blocked
  <2>1. /\ w.flags = g.flags /\ w.waits = g.waits /\ w.blocked = g.blocked
        /\ \A u \in Tasks : w.status[u] = IF u = t THEN "WAIT" ELSE osg.status[u]
    BY <1>2, <1>3, <1>4, <1>7 DEF Moved, Kernel
  <2>2. g.blocked \in [Objects -> Seq(Tasks)]
    BY <1>3 DEF Scheduling, KernelInv, Kernel
  <2>3. ASSUME NEW p \in Objects, NEW u \in Tasks, Contains(w.blocked[p], u)
        PROVE  Linked(w, n, p, u)
    <3>1. CASE u = t
      <4>1. p = o
        BY <1>2, <1>5, <2>1, <2>3, <3>1 DEF Unlisted
      <4>. QED  BY <1>4, <2>1, <3>1, <4>1 DEF Linked
    <3>2. CASE u # t
      <4>1. Linked(osg, calling, p, u)
        BY <1>2, <1>5, <2>1, <2>3, <3>2 DEF Listed
      <4>. QED  BY <1>4, <2>1, <3>2, <4>1 DEF Linked
    <3>. QED  BY <3>1, <3>2
  <2>. QED  BY <1>5, <2>1, <2>2, <2>3 DEF Listed
<1>8. /\ \E w : Moved(g, w, g.running, "WAIT", to) /\ Thins(w, x)
      /\ x.halted = {} => Unlisted(x, Chosen(x))
      /\ x.ret = osg.ret
  <2>1. /\ \E w : Moved(g, w, g.running, "WAIT", to) /\ Thins(w, x)
        /\ x.halted = {} => Unlisted(x, Chosen(x))
        /\ x.ret = g.ret
    BY <1>6, <1>7, GivenUp
  <2>. QED  BY <1>3, <2>1 DEF Steady
<1>9. PICK w : Moved(g, w, g.running, "WAIT", to) /\ Thins(w, x)
  BY <1>8
<1>10. Listed(w, n) /\ w.blocked = g.blocked /\ Listed(x, n) /\ Scheduling(x)
       /\ (x.halted # {} \/ x.scheduled # None)
  BY <1>6, <1>7, <1>9, ThinsListed DEF GivesUp
<1>11. /\ Thins(x, osg') /\ osg'.blocked = x.blocked /\ osg'.halted = x.halted
       /\ osg'.ret = [osg.ret EXCEPT ![t] = Returning("TO")] /\ Chosen(osg') = Chosen(x)
       /\ osg'.state = x.state
  <2>1. osg' = SvcReturn(x, t, Returning("TO"))
    BY <1>1
  <2>. QED  BY <1>2, <1>8, <1>10, <2>1, ReturnThins
<1>12. Invariant'
  BY <1>1, <1>2, <1>10, ReturnInvariant DEF Awake
<1>13. Listed(osg', calling') /\ Apart(osg') /\ osg'.state = "STARTED"
  <2>1. Listed(osg', n)
    BY <1>10, <1>11, ThinsListed
  <2>2. Apart(osg') /\ osg'.state = "STARTED"
    BY <1>8, <1>10, <1>11 DEF Apart, Unlisted, Scheduling
  <2>. QED  BY <1>1, <2>1, <2>2
<1>14. \A p \in Objects, u \in Tasks : Contains(osg'.blocked[p], u) =>
           Contains(osg.blocked[p], u) \/ (p = o /\ u = t)
  BY <1>5, <1>9, <1>10, <1>11 DEF Thins
<1>15. Told(osg')
  <2>1. /\ \A u \in Tasks : osg'.ret[u] = IF u = t THEN Returning("TO") ELSE osg.ret[u]
        /\ Returning("TO").status = "TO"
    BY <1>2, <1>11 DEF Kernel, Returning
  <2>. QED  BY <1>14, <2>1 DEF SafeInvariant, Told
<1>16. \A p \in Objects : Succeeding(p)' = Succeeding(p)
  <2>0. PICK code \in Codes : code = "TO" /\ code # "SUCCESS"
    BY <1>2
  <2>1. TypeOK /\ Entered(t, o, code)
    BY <1>1, <1>11, <2>0 DEF SafeInvariant, Entered
  <2>2. \A p \in Objects : Succeeding(p)' =
            IF p = o /\ code = "SUCCESS" THEN Succeeding(p) \cup {t} ELSE Succeeding(p)
    BY <1>2, <2>1, SucceedingEntered
  <2>. QED  BY <2>0, <2>2
<1>17. \A p \in Objects : osg'.blocked[p] # <<>> => tokens[p] = 0
  <2>. SUFFICES ASSUME NEW p \in Objects, osg'.blocked[p] # <<>> PROVE tokens[p] = 0
    OBVIOUS
  <2>1. tokens[o] = 0
    BY DEF SafeInvariant, TypeOK, CanTake
  <2>2. CASE p # o
    <3>1. g.blocked[p] # <<>>
      BY <1>9, <1>10, <1>11, ThinsEmpty
    <3>. QED  BY <1>4, <2>2, <3>1 DEF SafeInvariant
  <2>. QED  BY <2>1, <2>2
<1>18. TypeOK'
  BY <1>2, <1>12 DEF SafeInvariant, TypeOK, Invariant, KernelInv
<1>. QED  BY <1>12, <1>13, <1>15, <1>16, <1>17, <1>18 DEF SafeInvariant

\* osi_semaphore_acquire
LEMMA AcquireKept ==
    ASSUME SafeInvariant, NEW o \in Objects, NEW to \in Timeouts, Acquire(o, to)
    PROVE  SafeInvariant'
<1>1. /\ InThread /\ calling[osg.running] = None /\ credit' = credit
      /\ calling' = [calling EXCEPT ![osg.running] = o] /\ to \in 0 .. Forever
  BY TimeoutsAssumption DEF Acquire, AtACall, InTask
<1>. DEFINE checked == OsAssert(osg, osg.waits[osg.running] \subseteq {o}, "semaphore.c:47")
<1>2. CASE /\ CanTake(o) /\ tokens' = [tokens EXCEPT ![o] = @ - 1]
           /\ osg' = SvcReturn(checked, osg.running, Returning("SUCCESS"))
  BY <1>1, <1>2, AcquireAtOnce
<1>3. CASE /\ UNCHANGED tokens
           /\ osg' = SvcReturn(checked, osg.running, Returning("TO"))
  BY <1>1, <1>3, AcquireAtOnce
<1>4. CASE /\ ~CanTake(o) /\ UNCHANGED tokens
           /\ osg' = SvcReturn(SvcBlock(BlockedAppend(checked, o, osg.running), to, "semaphore"),
                               osg.running, Returning("TO"))
  <2>1. osg' = SvcReturn(SvcDelay(Joining(osg, o), to), osg.running, Returning("TO"))
    <3>1. PICK b : b = BlockedAppend(checked, o, osg.running)
      OBVIOUS
    <3>2. b.running = osg.running
      <4>1. osg \in Kernel /\ checked.running = osg.running
        BY <1>1, ThreadFacts DEF OsAssert, Kernel
      <4>. QED  BY <3>1, <4>1 DEF BlockedAppend, OsAssert, Kernel
    <3>3. SvcBlock(b, to, "semaphore") = SvcDelay(Joining(osg, o), to)
      BY <3>1, <3>2, Zenon DEF SvcBlock, Joining
    <3>. QED  BY <1>4, <3>1, <3>3
  <2>. QED  BY <1>1, <1>4, <2>1, AcquireBlocks
<1>. QED  BY <1>2, <1>3, <1>4 DEF Acquire

\* os_semaphore_acquire returns to the task that called it.
LEMMA AcquireReturnsKept == ASSUME SafeInvariant, AcquireReturns PROVE SafeInvariant'
<1>1. PICK t, o, n : t = osg.running /\ o = calling[t] /\ n = calling'
  OBVIOUS
<1>2. /\ InThread /\ o # None /\ UNCHANGED <<osg, tokens>>
      /\ n = [calling EXCEPT ![t] = None]
      /\ credit' = [credit EXCEPT ![o] = @ - IF osg.ret[t].status = "SUCCESS" THEN 1 ELSE 0]
  BY <1>1 DEF AcquireReturns, InTask
<1>3. /\ t \in Tasks /\ Listed(osg, calling) /\ Unlisted(osg, t) /\ osg.state = "STARTED"
      /\ Told(osg) /\ Apart(osg)
  BY <1>1, <1>2, ThreadFacts DEF SafeInvariant
<1>4. /\ tokens \in [Objects -> 0 .. MaxTokens] /\ credit \in [Objects -> 0 .. MaxTokens]
      /\ MaxTokens \in Nat /\ calling \in [Tasks -> Objects \cup {None}] /\ o \in Objects
      /\ \A p \in Objects : Balanced(tokens[p], credit[p], Succeeding(p))
  BY <1>1, <1>2, <1>3, TokensAssumption DEF SafeInvariant, TypeOK
<1>5. \A u \in Tasks : n[u] = IF u = t THEN None ELSE calling[u]
  BY <1>2, <1>4
<1>6. Listed(osg, n)
  BY <1>3, <1>5, ListedElsewhere
<1>7. \A p \in Objects : Succeeding(p)' = Succeeding(p) \ {t}
  BY <1>1, <1>2, <1>5, NoneAssumption DEF Succeeding
<1>8. /\ t \in Succeeding(o) <=> osg.ret[t].status = "SUCCESS"
      /\ \A p \in Objects : p # o => t \notin Succeeding(p)
  BY <1>1, <1>3 DEF Succeeding
<1>9. \A p \in Objects : credit'[p] =
          IF p = o /\ t \in Succeeding(o) THEN credit[p] - 1 ELSE credit[p]
  BY <1>2, <1>4, <1>8
<1>10. ASSUME NEW p \in Objects
       PROVE  Balanced(tokens[p], credit'[p], Succeeding(p)') /\ credit'[p] \in 0 .. MaxTokens
  <2>1. tokens[p] \in Nat /\ credit[p] \in Nat /\ Balanced(tokens[p], credit[p], Succeeding(p))
    BY <1>4
  <2>2. CASE p = o /\ t \in Succeeding(o)
    <3>1. Balanced(tokens[p], credit[p] - 1, Succeeding(p) \ {t}) /\ credit[p] > 0
      BY <2>1, <2>2, BalancedMoves
    <3>2. credit'[p] = credit[p] - 1 /\ Succeeding(p)' = Succeeding(p) \ {t}
      BY <1>7, <1>9, <2>2
    <3>. QED  BY <1>4, <3>1, <3>2
  <2>3. CASE ~(p = o /\ t \in Succeeding(o))
    <3>1. Succeeding(p)' = Succeeding(p) /\ credit'[p] = credit[p]
      BY <1>7, <1>8, <1>9, <2>3
    <3>. QED  BY <1>4, <2>1, <3>1
  <2>. QED  BY <2>2, <2>3
<1>11. credit' \in [Objects -> 0 .. MaxTokens]
  <2>1. credit' = [p \in Objects |-> credit'[p]]
    BY <1>2, <1>4
  <2>. QED  BY <1>10, <2>1
<1>12. TypeOK'
  BY <1>1, <1>2, <1>4, <1>11 DEF SafeInvariant, TypeOK
<1>13. Invariant'
  BY <1>2, StutterStep DEF SafeInvariant
<1>. QED  BY <1>1, <1>2, <1>3, <1>6, <1>10, <1>12, <1>13 DEF SafeInvariant

\* Taking f off o's list and telling it that it has a token changes no more.
Handed(k, g, o, f, q) ==
    /\ g \in Kernel /\ g.state = k.state /\ g.running = k.running
    /\ g.idle = k.idle /\ g.halted = k.halted
    /\ g.tasks = k.tasks /\ g.priority = k.priority
    /\ g.status = k.status /\ g.delay = k.delay
    /\ g.scheduled = k.scheduled /\ g.runqueue = k.runqueue /\ g.waitqueue = k.waitqueue
    /\ g.waits = k.waits /\ g.flags = k.flags
    /\ g.blocked = [k.blocked EXCEPT ![o] = q]
    /\ g.ret = [k.ret EXCEPT ![f].status = "SUCCESS"]

HandedFrom(k, o, f, q) == [k EXCEPT !.blocked[o] = q, !.ret[f].status = "SUCCESS"]

\* Of the kernel's record the list and the result of f have changed.
LEMMA UnlinkedFacts ==
    ASSUME NEW k \in Kernel, NEW o \in Objects, NEW f \in Tasks, NEW q \in Seq(Tasks),
           NEW g, g = HandedFrom(k, o, f, q)
    PROVE  Handed(k, g, o, f, q)
<1>1. k.ret[f] \in Return
  BY DEF Kernel
<1>2. [k.ret[f] EXCEPT !.status = "SUCCESS"] \in Return
  BY <1>1 DEF Return, Codes
<1>. QED  BY <1>2 DEF Kernel, HandedFrom, Handed

\* f is taken off o's list and told that it has a token.
TokenOut(k, o, f) == [BlockedDequeue(k, o) EXCEPT !.ret[f].status = "SUCCESS"]

\* What that makes of the first in the list.
TokenTaken(k, g, o, f) ==
    /\ Scheduling(g) /\ Thins(k, g) /\ Unlisted(g, f) /\ f \in Tasks
    /\ Contains(k.blocked[o], f) /\ g.scheduled = k.scheduled /\ g.running = k.running
    /\ g.status = k.status /\ g.ret = [k.ret EXCEPT ![f].status = "SUCCESS"]
    /\ g.state = k.state /\ g.idle = k.idle /\ g.tasks = k.tasks /\ g.priority = k.priority
    /\ g.flags = k.flags /\ g.waits = k.waits /\ g.halted = k.halted

\* The first in the list is in no list after that, and has SUCCESS to return.
LEMMA TokenHanded ==
    ASSUME NEW k, Scheduling(k), NEW c, Listed(k, c), NEW o \in Objects, NEW f,
           IsFirst(k, o, f), NEW g, g = TokenOut(k, o, f)
    PROVE  TokenTaken(k, g, o, f)
<1>1. /\ k \in Kernel /\ k.blocked[o] \in Seq(Tasks) /\ k.blocked[o] # <<>>
      /\ NoDuplicates(k.blocked[o]) /\ f = Head(k.blocked[o])
      /\ k.blocked \in [Objects -> Seq(Tasks)] /\ k.ret \in [Tasks -> Return]
  BY DEF Scheduling, KernelInv, Listed, IsFirst, Kernel
<1>2. PICK q : q = Tail(k.blocked[o])
  OBVIOUS
<1>3. /\ f \in Tasks /\ Contains(k.blocked[o], f) /\ q \in Seq(Tasks) /\ NoDuplicates(q)
      /\ \A u \in Tasks : Contains(q, u) <=> Contains(k.blocked[o], u) /\ u # f
  BY <1>1, <1>2, TailFacts
<1>4. Linked(k, c, o, f)
  BY <1>3 DEF Listed
<1>5. g = HandedFrom(k, o, f, q)
  <2>1. BlockedDequeue(k, o) = [k EXCEPT !.blocked[o] = q]
    BY <1>1, <1>2, <1>4 DEF BlockedDequeue, OsAssert, Linked
  <2>2. [k EXCEPT !.blocked[o] = q].ret = k.ret
    BY <1>1 DEF Kernel
  <2>. QED  BY <2>1, <2>2 DEF HandedFrom, TokenOut
<1>6. /\ g \in Kernel /\ g.state = k.state /\ g.running = k.running
      /\ g.idle = k.idle /\ g.halted = k.halted
      /\ g.tasks = k.tasks /\ g.priority = k.priority
      /\ g.status = k.status /\ g.delay = k.delay
      /\ g.scheduled = k.scheduled /\ g.runqueue = k.runqueue /\ g.waitqueue = k.waitqueue
      /\ g.waits = k.waits /\ g.flags = k.flags
      /\ g.blocked = [k.blocked EXCEPT ![o] = q]
      /\ g.ret = [k.ret EXCEPT ![f].status = "SUCCESS"]
  <2>1. Handed(k, g, o, f, q)
    BY <1>1, <1>3, <1>5, UnlinkedFacts
  <2>. QED  BY <2>1 DEF Handed
<1>7. Scheduling(g)
  BY <1>6 DEF Scheduling, KernelInv, QueuesMatchStatus, RunqueueSorted, WaitqueueSorted
<1>8. \A p \in Objects : g.blocked[p] = IF p = o THEN q ELSE k.blocked[p]
  BY <1>1, <1>6
<1>9. Thins(k, g)
  <2>1. g.blocked \in [Objects -> Seq(Tasks)]
    BY <1>6 DEF Kernel
  <2>2. \A p \in Objects : NoDuplicates(g.blocked[p])
    BY <1>3, <1>8 DEF Listed
  <2>3. \A p \in Objects, u \in Tasks : Contains(g.blocked[p], u) => Contains(k.blocked[p], u)
    BY <1>3, <1>8
  <2>. QED  BY <1>6, <2>1, <2>2, <2>3 DEF Thins
<1>10. Unlisted(g, f)
  BY <1>3, <1>4, <1>8 DEF Unlisted, Listed, Linked
<1>. QED  BY <1>3, <1>6, <1>7, <1>9, <1>10 DEF TokenTaken

\* osi_semaphore_release, when nobody waits.
LEMMA ReleasePuts ==
    ASSUME SafeInvariant, InThread, NEW o \in Objects, calling[osg.running] = None,
           UNCHANGED calling, osg.blocked[o] = <<>>, credit[o] < MaxTokens,
           credit' = [credit EXCEPT ![o] = @ + 1], tokens' = [tokens EXCEPT ![o] = @ + 1],
           osg' = SvcReturn(osg, osg.running, Returning("SUCCESS"))
    PROVE  SafeInvariant'
<1>1. PICK t : t = osg.running
  OBVIOUS
<1>2. /\ Scheduling(osg) /\ Awake(osg) /\ t \in Tasks /\ osg.state = "STARTED"
      /\ Listed(osg, calling) /\ Unlisted(osg, t) /\ osg.scheduled = None
      /\ Returning("SUCCESS") \in Return
  BY <1>1, ThreadFacts DEF Codes
<1>3. /\ Thins(osg, osg') /\ osg'.blocked = osg.blocked /\ osg'.halted = osg.halted
      /\ osg'.ret = [osg.ret EXCEPT ![t] = Returning("SUCCESS")] /\ Chosen(osg') = Chosen(osg)
      /\ osg'.state = osg.state
  BY <1>1, <1>2, ReturnThins
<1>4. Invariant'
  BY <1>1, <1>2, ReturnInvariant
<1>5. /\ Listed(osg', calling') /\ Apart(osg')
      /\ \A u \in Tasks : u # t => osg'.ret[u] = osg.ret[u]
  <2>1. Listed(osg', calling) /\ Unlisted(osg', t)
    BY <1>2, <1>3, ThinsListed
  <2>2. Chosen(osg') = t
    BY <1>1, <1>2, <1>3 DEF Chosen
  <2>3. \A u \in Tasks : u # t => osg'.ret[u] = osg.ret[u]
    BY <1>2, <1>3 DEF Scheduling, KernelInv, Kernel
  <2>. QED  BY <2>1, <2>2, <2>3 DEF Apart
<1>6. Told(osg')
  BY <1>2, <1>3, <1>5 DEF SafeInvariant, Told, Unlisted
<1>7. \A p \in Objects : Succeeding(p)' = Succeeding(p)
  BY <1>1, <1>5, NoneAssumption DEF Succeeding
<1>8. /\ tokens \in [Objects -> 0 .. MaxTokens] /\ credit \in [Objects -> 0 .. MaxTokens]
      /\ MaxTokens \in Nat
      /\ \A p \in Objects : Balanced(tokens[p], credit[p], Succeeding(p))
      /\ \A p \in Objects : osg.blocked[p] # <<>> => tokens[p] = 0
  BY TokensAssumption DEF SafeInvariant, TypeOK
<1>9. /\ tokens[o] + 1 \in 0 .. MaxTokens /\ credit[o] + 1 \in 0 .. MaxTokens
      /\ Balanced(tokens[o] + 1, credit[o] + 1, Succeeding(o))
  <2>1. tokens[o] \in Nat /\ credit[o] \in Nat /\ Balanced(tokens[o], credit[o], Succeeding(o))
    BY <1>8
  <2>2. Balanced(tokens[o] + 1, credit[o] + 1, Succeeding(o)) /\ tokens[o] <= credit[o]
    BY <2>1, BalancedMoves
  <2>. QED  BY <1>8, <2>1, <2>2
<1>10. TypeOK'
  BY <1>4, <1>8, <1>9 DEF SafeInvariant, TypeOK, Invariant, KernelInv
<1>11. \A p \in Objects : Balanced(tokens'[p], credit'[p], Succeeding(p)')
  BY <1>7, <1>8, <1>9
<1>12. \A p \in Objects : osg'.blocked[p] # <<>> => tokens'[p] = 0
  BY <1>3, <1>8
<1>. QED  BY <1>2, <1>3, <1>4, <1>5, <1>6, <1>10, <1>11, <1>12 DEF SafeInvariant

\* osi_semaphore_release, when somebody waits: the first does no longer.
LEMMA ReleaseHands ==
    ASSUME SafeInvariant, InThread, NEW o \in Objects, calling[osg.running] = None,
           UNCHANGED <<calling, tokens>>, osg.blocked[o] # <<>>, credit[o] < MaxTokens,
           credit' = [credit EXCEPT ![o] = @ + 1], NEW f, f = Head(osg.blocked[o]),
           osg' = SvcReturn(DispatchOrQueue(TokenOut(osg, o, f), f),
                            osg.running, Returning("SUCCESS"))
    PROVE  SafeInvariant'
<1>1. PICK t, g, x : t = osg.running /\ g = TokenOut(osg, o, f) /\ x = DispatchOrQueue(g, f)
  OBVIOUS
<1>2. /\ Scheduling(osg) /\ Awake(osg) /\ t \in Tasks /\ osg.state = "STARTED"
      /\ Listed(osg, calling) /\ Unlisted(osg, t) /\ osg.scheduled = None
      /\ Returning("SUCCESS") \in Return /\ osg.ret \in [Tasks -> Return]
  BY <1>1, ThreadFacts DEF Codes, Kernel
<1>3. /\ Scheduling(g) /\ Thins(osg, g) /\ Unlisted(g, f) /\ f \in Tasks
      /\ Contains(osg.blocked[o], f) /\ g.scheduled = osg.scheduled /\ g.running = osg.running
      /\ g.status = osg.status /\ g.ret = [osg.ret EXCEPT ![f].status = "SUCCESS"]
  <2>1. IsFirst(osg, o, f)
    BY DEF IsFirst
  <2>2. TokenTaken(osg, g, o, f)
    BY <1>1, <1>2, <2>1, TokenHanded
  <2>. QED  BY <2>2 DEF TokenTaken
<1>4. Linked(osg, calling, o, f) /\ osg.ret[f].status = "TO" /\ f # t
  BY <1>2, <1>3 DEF Listed, SafeInvariant, Told, Unlisted
<1>5. Grants(g, x, f)
  <2>1. g.status[f] \in RunningStatus \cup {"WAIT"} /\ g.scheduled = None
    BY <1>2, <1>3, <1>4 DEF Linked, RunningStatus
  <2>. QED  BY <1>1, <1>3, <2>1, DispatchOrQueueInv
<1>6. PICK w, new : \E d \in Tasks \cup {None} :
          Moved(g, w, f, new, g.delay[f]) /\ Picks(w, x, d)
  BY <1>5, Zenon DEF Grants
<1>7. PICK d \in Tasks \cup {None} : Moved(g, w, f, new, g.delay[f]) /\ Picks(w, x, d)
  BY <1>6
<1>8. Listed(g, calling) /\ Thins(g, w) /\ Listed(w, calling) /\ Unlisted(w, t)
  <2>1. Listed(g, calling) /\ Unlisted(g, t)
    BY <1>2, <1>3, ThinsListed
  <2>2. Thins(g, w)
    BY <1>3, <1>7, <2>1, MovedThins DEF Scheduling, KernelInv
  <2>. QED  BY <1>2, <2>1, <2>2, ThinsListed
<1>9. /\ Thins(w, x) /\ x.ret = w.ret
      /\ d # None => Unlisted(x, d) /\ Chosen(x) = d
      /\ d = None => Chosen(x) = Chosen(w)
  BY <1>7, <1>8, PicksThins
<1>10. /\ Scheduling(x) /\ Awake(x) /\ x.ret = g.ret /\ Chosen(w) = t
  <2>1. Scheduling(x) /\ (Awake(g) => Awake(x))
    BY <1>5, Zenon DEF Grants
  <2>2. Awake(g)
    BY <1>2, <1>3 DEF Awake
  <2>3. w.ret = g.ret /\ w.running = g.running /\ w.scheduled = g.scheduled
    BY <1>7 DEF Moved, Steady
  <2>4. Chosen(w) = t
    BY <1>1, <1>2, <1>3, <2>3 DEF Chosen
  <2>. QED  BY <1>9, <2>1, <2>2, <2>3, <2>4
<1>11. Thins(osg, x) /\ Listed(x, calling) /\ Unlisted(x, t) /\ Unlisted(x, Chosen(x))
  <2>1. Thins(osg, x)
    BY <1>3, <1>8, <1>9, ThinsAgain
  <2>2. Listed(x, calling) /\ Unlisted(x, t)
    BY <1>2, <2>1, ThinsListed
  <2>. QED  BY <1>9, <1>10, <2>1, <2>2
<1>12. /\ Thins(x, osg') /\ osg'.blocked = x.blocked /\ osg'.halted = x.halted
       /\ osg'.ret = [g.ret EXCEPT ![t] = Returning("SUCCESS")] /\ Chosen(osg') = Chosen(x)
       /\ osg'.state = x.state
  <2>1. osg' = SvcReturn(x, t, Returning("SUCCESS"))
    BY <1>1
  <2>. QED  BY <1>2, <1>10, <1>11, <2>1, ReturnThins
<1>13. Invariant'
  BY <1>1, <1>2, <1>10, ReturnInvariant
<1>14. Listed(osg', calling') /\ Apart(osg') /\ osg'.state = "STARTED"
  <2>1. Listed(osg', calling)
    BY <1>11, <1>12, ThinsListed
  <2>. QED  BY <1>10, <1>11, <1>12, <2>1 DEF Apart, Unlisted, Scheduling
<1>15. /\ \A u \in Tasks : u # t /\ u # f => osg'.ret[u] = osg.ret[u]
       /\ osg'.ret[f].status = "SUCCESS"
  <2>1. PICK r : r = [osg.ret[f] EXCEPT !.status = "SUCCESS"]
    OBVIOUS
  <2>2. osg.ret[f] \in Return /\ r.status = "SUCCESS"
    BY <1>2, <1>3, <2>1 DEF Return
  <2>3. g.ret = [osg.ret EXCEPT ![f] = r]
    BY <1>3, <2>1
  <2>4. \A u \in Tasks : g.ret[u] = IF u = f THEN r ELSE osg.ret[u]
    BY <1>2, <1>3, <2>3
  <2>5. \A u \in Tasks : osg'.ret[u] = IF u = t THEN Returning("SUCCESS") ELSE g.ret[u]
    <3>1. g.ret \in [Tasks -> Return]
      BY <1>3 DEF Scheduling, KernelInv, Kernel
    <3>. QED  BY <1>12, <3>1
  <2>. QED  BY <1>3, <1>4, <2>2, <2>4, <2>5
<1>16. Told(osg')
  <2>. SUFFICES ASSUME NEW p \in Objects, NEW u \in Tasks, Contains(osg'.blocked[p], u)
                PROVE  osg'.ret[u].status = "TO"
    BY DEF Told
  <2>1. Contains(x.blocked[p], u) /\ Contains(osg.blocked[p], u)
    BY <1>11, <1>12 DEF Thins
  <2>2. Contains(g.blocked[p], u)
    BY <1>8, <1>9, <2>1 DEF Thins
  <2>3. u # t /\ u # f
    BY <1>3, <1>11, <2>1, <2>2 DEF Unlisted
  <2>. QED  BY <1>15, <2>1, <2>3 DEF SafeInvariant, Told
<1>17. /\ \A p \in Objects : Succeeding(p)' = IF p = o THEN Succeeding(p) \cup {f} ELSE Succeeding(p)
       /\ f \notin Succeeding(o)
  <2>1. calling[t] = None /\ calling[f] = o /\ \A p \in Objects : p # None
    BY <1>1, <1>4, NoneAssumption DEF Linked
  <2>2. ASSUME NEW p \in Objects
        PROVE  Succeeding(p)' = IF p = o THEN Succeeding(p) \cup {f} ELSE Succeeding(p)
    <3>1. f \in Tasks /\ p # None /\ UNCHANGED calling
      BY <1>3, <2>1
    <3>2. CASE p = o
      BY <1>15, <2>1, <3>1, <3>2 DEF Succeeding
    <3>3. CASE p # o
      BY <1>15, <2>1, <3>1, <3>3 DEF Succeeding
    <3>. QED  BY <3>2, <3>3
  <2>. QED  BY <1>4, <2>2 DEF Succeeding
<1>18. /\ tokens \in [Objects -> 0 .. MaxTokens] /\ credit \in [Objects -> 0 .. MaxTokens]
       /\ MaxTokens \in Nat
       /\ \A p \in Objects : Balanced(tokens[p], credit[p], Succeeding(p))
       /\ \A p \in Objects : osg.blocked[p] # <<>> => tokens[p] = 0
  BY TokensAssumption DEF SafeInvariant, TypeOK
<1>19. credit[o] + 1 \in 0 .. MaxTokens /\ Balanced(tokens[o], credit[o] + 1, Succeeding(o) \cup {f})
  <2>1. tokens[o] \in Nat /\ credit[o] \in Nat /\ Balanced(tokens[o], credit[o], Succeeding(o))
    BY <1>18
  <2>2. Balanced(tokens[o], credit[o] + 1, Succeeding(o) \cup {f})
    BY <1>17, <2>1, BalancedMoves
  <2>. QED  BY <1>18, <2>1, <2>2
<1>20. TypeOK'
  BY <1>13, <1>18, <1>19 DEF SafeInvariant, TypeOK, Invariant, KernelInv
<1>21. \A p \in Objects : Balanced(tokens'[p], credit'[p], Succeeding(p)')
  BY <1>17, <1>18, <1>19
<1>22. \A p \in Objects : osg'.blocked[p] # <<>> => tokens'[p] = 0
  BY <1>11, <1>12, <1>18, ThinsEmpty
<1>. QED  BY <1>13, <1>14, <1>16, <1>20, <1>21, <1>22 DEF SafeInvariant

\* osi_semaphore_release
LEMMA ReleaseKept ==
    ASSUME SafeInvariant, NEW o \in Objects, Release(o)
    PROVE  SafeInvariant'
<1>. DEFINE f == Head(osg.blocked[o])
<1>1. /\ InThread /\ calling[osg.running] = None /\ UNCHANGED calling
      /\ credit[o] < MaxTokens /\ credit' = [credit EXCEPT ![o] = @ + 1]
  BY DEF Release, AtACall, InTask
<1>2. CASE /\ osg.blocked[o] # <<>> /\ UNCHANGED tokens
           /\ osg' = SvcReturn(DispatchOrQueue(TokenOut(osg, o, f), f),
                               osg.running, Returning("SUCCESS"))
  BY <1>1, <1>2, ReleaseHands
<1>3. CASE /\ osg.blocked[o] = <<>> /\ tokens' = [tokens EXCEPT ![o] = @ + 1]
           /\ osg' = SvcReturn(osg, osg.running, Returning("SUCCESS"))
  BY <1>1, <1>3, ReleasePuts
<1>. QED  BY <1>2, <1>3 DEF Release, HandedOver, TokenOut

-----------------------------------------------------------------------------
\* No semaphore has been waited for, and its tokens are its credit.
LEMMA InitSafe == Init => SafeInvariant
<1>. SUFFICES ASSUME Init PROVE SafeInvariant
  OBVIOUS
<1>1. Invariant
  BY InitInvariant DEF Init
<1>2. /\ \A o \in Objects : osg.blocked[o] = <<>>
      /\ osg.state # "STARTED" /\ \A t \in Tasks : calling[t] = None
      /\ \A o \in Objects : tokens[o] = Tokens /\ credit[o] = Tokens
  BY DEF Init, Zeroed, ZeroKernel, Created
<1>3. osg \in Kernel /\ \A o \in Objects, t \in Tasks : ~Contains(osg.blocked[o], t)
  BY <1>1, <1>2 DEF Invariant, KernelInv, Contains
<1>4. Listed(osg, calling) /\ Told(osg) /\ Apart(osg)
  BY <1>2, <1>3 DEF Listed, Told, Apart, Kernel, NoDuplicates
<1>5. \A o \in Objects : Balanced(tokens[o], credit[o], Succeeding(o))
  <2>. SUFFICES ASSUME NEW o \in Objects PROVE Balanced(tokens[o], credit[o], Succeeding(o))
    OBVIOUS
  <2>1. Succeeding(o) = {}
    BY <1>2, NoneAssumption DEF Succeeding
  <2>2. IsFiniteSet({}) /\ Cardinality({}) = 0
    BY FS_EmptySet
  <2>3. Tokens \in Nat
    BY TokensAssumption
  <2>. QED  BY <1>2, <2>1, <2>2, <2>3 DEF Balanced
<1>6. TypeOK
  BY <1>3, TokensAssumption DEF TypeOK, Init, Created
<1>. QED  BY <1>1, <1>2, <1>4, <1>5, <1>6 DEF SafeInvariant

\* Every state of every behaviour is sound.
LEMMA SafeHolds == ASSUME Considerate PROVE Spec => []SafeInvariant
<1>1. SafeInvariant /\ [Next]_vars => SafeInvariant'
  <2>. SUFFICES ASSUME SafeInvariant, [Next]_vars PROVE SafeInvariant'
    OBVIOUS
  <2>1. CASE Background
    BY <2>1, BootKept, ExceptionKept DEF Background
  <2>2. CASE UNCHANGED vars
    <3>1. osg' = osg /\ tokens' = tokens /\ calling' = calling /\ credit' = credit
      BY <2>2 DEF vars
    <3>2. Invariant'
      BY <3>1, StutterStep DEF SafeInvariant
    <3>3. \A o \in Objects : Succeeding(o)' = Succeeding(o)
      BY <3>1 DEF Succeeding
    <3>. QED  BY <3>1, <3>2, <3>3 DEF SafeInvariant, TypeOK
  <2>. QED  BY <2>1, <2>2, OtherCallKept, AcquireKept, AcquireReturnsKept, ReleaseKept
            DEF Next, Elsewhere
<1>. QED  BY InitSafe, <1>1, PTL DEF Spec

\* However tasks of any number acquire and release, whatever times out, and
\* whichever tasks are suspended and restarted that are not inside of an
\* acquire: what was put into a semaphore is in it or with a task that
\* os_semaphore_acquire told so, never twice and never nowhere, and no token
\* lies in a semaphore that somebody waits for.  That no task is restarted
\* inside of os_semaphore_acquire (os.c:273) is needed: it stays in the list,
\* and a token it has been or will be given is lost.  Of tasks suspended there
\* the statement is true in the run of the module, and not proved here.
THEOREM TokensAreConserved == ASSUME Considerate PROVE Spec => []TokensConserved
<1>1. SafeInvariant => TokensConserved
  BY DEF SafeInvariant, Balanced, TokensConserved
<1>. QED  BY <1>1, SafeHolds, PTL

-----------------------------------------------------------------------------
(***************************************************************************)
(* Who halts the system.  Of the assertions of the scheduler and of        *)
(* semaphore.c only that of os.c:465 can fail, and only for a task that    *)
(* has blocked.                                                            *)
(***************************************************************************)

(***************************************************************************)
(* What is assumed of the application: it lets tasks inside of an acquire  *)
(* be, no task suspends itself, no delay is 0, and only the idle task has  *)
(* priority 0.                                                             *)
(***************************************************************************)
Disciplined ==
    /\ Considerate
    /\ "suspend_self" \notin Calls /\ 0 \notin Delays /\ 0 \notin StartPriorities

\* A task without flags points to nothing; one that has blocked in an
\* acquire keeps the semaphore's flag until it has the processor.
Marked(g, c) ==
    \A t \in Tasks :
        \/ g.flags[t] = {} /\ g.waits[t] = {}
        \/ g.flags[t] = Flag.semaphore /\ c[t] # None

\* The idle task acquires nothing.
Acquirers(g, c) == \A t \in Tasks : c[t] # None => t \in g.tasks \ {g.idle}

\* Nobody that has blocked runs or is about to.
Fit(g, c) ==
    /\ IdleKept(g) /\ Marked(g, c) /\ Acquirers(g, c)
    /\ g.flags[Chosen(g)] = {}
    /\ g.scheduled # None \/ g.status[g.running] \in LeftStatus \cup {"ACTIVE"}

Unhalted ==
    IF osg.state = "STARTED" THEN osg.halted = {} => Fit(osg, calling)
                             ELSE Healthy(osg, calling)

HaltInvariant == SafeInvariant /\ Unhalted

\* From g to h a task that has blocked has been chosen.
BlockerChosen(g, h) ==
    \E t \in Tasks : Chosen(h) = t /\ Chosen(g) # t /\ g.flags[t] = Flag.semaphore

\* That is when h has halted; else h, in which tasks are inside of the calls
\* c, is fit.
Judged(g, h, c) ==
    /\ h.halted # {} <=> BlockerChosen(g, h)
    /\ h.halted = {} => Fit(h, c)

\* The flag of a semaphore is two flags.
LEMMA SemaphoreFlags == Flag.semaphore # {}
BY DEF Flag

\* osi_dispatch takes a task flagged for a semaphore for one blocked on a
\* mutex, which its pointer denies.
LEMMA BlockersDisagree ==
    ASSUME NEW g, NEW t \in Tasks
    PROVE  /\ g.flags[t] = {} => FlagKind(g, t) = None /\ FlagsAgree(g, t)
           /\ g.flags[t] = Flag.semaphore => ~FlagsAgree(g, t)
<1>1. g.flags[t] = {} => FlagKind(g, t) = None
  BY FlagKindFacts
<1>. DEFINE T == {k \in Kinds : Flag[k] \subseteq g.flags[t]}
<1>2. FlagTests \in Seq(Kinds) /\ Len(FlagTests) = 4 /\ FlagTests[1] = "mutex"
  BY DEF FlagTests, Kinds
<1>3. None \notin Kinds
  BY NoneAssumption
<1>4. ASSUME g.flags[t] = Flag.semaphore PROVE FlagKind(g, t) = "mutex"
  <2>1. FlagTests[1] \in T
    BY <1>2, <1>4 DEF Flag, Kinds
  <2>. HIDE DEF T
  <2>2. /\ FirstOf(FlagTests, T) = None => \A j \in 1 .. Len(FlagTests) : FlagTests[j] \notin T
        /\ FirstOf(FlagTests, T) # None =>
               \E n \in 1 .. Len(FlagTests) :
                   /\ FlagTests[n] = FirstOf(FlagTests, T)
                   /\ \A j \in 1 .. Len(FlagTests) : FlagTests[j] \in T => n <= j
    BY <1>2, <1>3, FirstOfIsFirst
  <2>3. 1 \in 1 .. Len(FlagTests)
    BY <1>2
  <2>4. FirstOf(FlagTests, T) # None
    BY <2>1, <2>2, <2>3
  <2>5. PICK n \in 1 .. Len(FlagTests) :
            /\ FlagTests[n] = FirstOf(FlagTests, T)
            /\ \A j \in 1 .. Len(FlagTests) : FlagTests[j] \in T => n <= j
    BY <2>2, <2>4
  <2>6. n = 1
    BY <2>1, <2>3, <2>5
  <2>. QED  BY <1>2, <2>5, <2>6 DEF FlagKind, T
<1>5. g.flags[t] = Flag.semaphore => ~FlagsAgree(g, t)
  BY <1>3, <1>4, AllSemaphores DEF FlagsAgree, Kinds
<1>. QED  BY <1>1, <1>5 DEF FlagsAgree

\* Whoever is chosen without an assertion failing had no flags.
LEMMA PickedHalts ==
    ASSUME NEW g, NEW c, Marked(g, c), g.halted = {}, NEW d \in Tasks \cup {None},
           NEW w, w.flags = g.flags, w.waits = g.waits, NEW h, Picks(w, h, d),
           h.halted = Asserted(g, d)
    PROVE  /\ h.halted # {} <=> d # None /\ g.flags[d] = Flag.semaphore
           /\ h.halted = {} => Marked(h, c) /\ (d # None => h.flags[d] = {})
<1>1. CASE d = None
  <2>1. \A t \in Tasks : h.flags[t] = g.flags[t] /\ h.waits[t] = g.waits[t]
    BY <1>1, NoneAssumption DEF Picks
  <2>. QED  BY <1>1, <2>1 DEF Marked, Asserted
<1>2. CASE d # None
  <2>1. /\ d \in Tasks /\ h.flags[d] = {} /\ h.waits[d] = Pointers(w, d)
        /\ \A t \in Tasks : t # d => h.flags[t] = g.flags[t] /\ h.waits[t] = g.waits[t]
    BY <1>2 DEF Picks
  <2>2. g.flags[d] = {} \/ g.flags[d] = Flag.semaphore
    BY <2>1 DEF Marked
  <2>3. CASE g.flags[d] = {}
    <3>1. FlagsAgree(g, d) /\ FlagKind(w, d) = None /\ g.waits[d] = {}
      BY <2>1, <2>3, BlockersDisagree, SemaphoreFlags DEF Marked
    <3>2. h.halted = {} /\ h.waits[d] = {}
      BY <2>1, <3>1 DEF Asserted, Pointers
    <3>. QED  BY <2>1, <2>3, <3>2, SemaphoreFlags DEF Marked
  <2>4. CASE g.flags[d] = Flag.semaphore
    <3>1. ~FlagsAgree(g, d)
      BY <2>1, <2>4, BlockersDisagree
    <3>2. h.halted # {}
      BY <1>2, <3>1 DEF Asserted
    <3>. QED  BY <1>2, <2>4, <3>2
  <2>. QED  BY <2>2, <2>3, <2>4
<1>. QED  BY <1>1, <1>2

\* A step in which no task is chosen and no flag is set or reset.
LEMMA KeptJudged ==
    ASSUME NEW g, g.halted = {}, NEW h, h.halted = {}, NEW c, Fit(h, c),
           Chosen(h) = Chosen(g)
    PROVE  Judged(g, h, c)
BY DEF Judged, BlockerChosen

\* A step that chooses d, or nobody, in a fit system.  The task that runs
\* before it, in k, may have been flagged since.
LEMMA PicksJudged ==
    ASSUME NEW k, NEW g, NEW c, Marked(g, c), g.halted = {}, Acquirers(g, c),
           g.scheduled = None, k.scheduled = None, k.running = g.running, g.running \in Tasks,
           \A t \in Tasks : t # g.running => k.flags[t] = g.flags[t],
           NEW w, w.flags = g.flags, w.waits = g.waits, w.tasks = g.tasks, w.idle = g.idle,
           w.running = g.running, w.scheduled = None, w.tasks \subseteq Tasks, IdleKept(w),
           NEW d \in Tasks \cup {None}, NEW h, Picks(w, h, d), h.halted = Asserted(g, d),
           d # None => w.status[d] # "NEW",
           d = None => /\ g.flags[g.running] = {}
                       /\ w.status[w.running] \in LeftStatus \cup {"ACTIVE"}
    PROVE  Judged(k, h, c)
<1>1. /\ h.halted # {} <=> d # None /\ g.flags[d] = Flag.semaphore
      /\ h.halted = {} => Marked(h, c) /\ (d # None => h.flags[d] = {})
  BY PickedHalts
<1>2. IdleKept(h)
  BY PicksIdle
<1>3. Acquirers(h, c)
  BY DEF Acquirers, Picks, Steady
<1>4. CASE d = None
  <2>1. /\ h.scheduled = None /\ h.running = g.running /\ h.flags[g.running] = {}
        /\ h.status[h.running] = w.status[w.running]
    BY <1>4, NoneAssumption DEF Picks, Steady, MayBecomeIdle, LeftStatus
  <2>2. Chosen(h) = Chosen(k) /\ h.halted = {}
    BY <1>1, <1>4, <2>1 DEF Chosen
  <2>3. Fit(h, c)
    BY <1>1, <1>2, <1>3, <1>4, <2>1, <2>2 DEF Fit, Chosen
  <2>. QED  BY <2>2, <2>3 DEF Judged, BlockerChosen
<1>5. CASE d # None
  <2>1. d \in Tasks /\ d # g.running /\ h.scheduled = d /\ Chosen(k) = g.running
    BY <1>5 DEF Picks, Chosen
  <2>2. Chosen(h) = d /\ k.flags[d] = g.flags[d]
    BY <1>5, <2>1 DEF Chosen
  <2>3. h.halted # {} <=> BlockerChosen(k, h)
    BY <1>1, <1>5, <2>1, <2>2 DEF BlockerChosen
  <2>4. h.halted = {} => Fit(h, c)
    BY <1>1, <1>2, <1>3, <1>5, <2>1, <2>2 DEF Fit
  <2>. QED  BY <2>3, <2>4 DEF Judged
<1>. QED  BY <1>4, <1>5

\* The running task gives the processor up, for whoever is next.
LEMMA GivesUpJudged ==
    ASSUME NEW g, Scheduling(g), g.scheduled = None, g.halted = {}, IdleKept(g),
           g.running # g.idle, NEW c, Marked(g, c), Acquirers(g, c),
           NEW new, NEW ms, new = "WAIT" => ms # 0, NEW x, GivesUp(g, x, new, ms),
           NEW k, k.scheduled = None, k.running = g.running,
           \A t \in Tasks : t # g.running => k.flags[t] = g.flags[t]
    PROVE  Judged(k, x, c)
<1>1. IdleReady(g) /\ g \in Kernel /\ g.running \in g.tasks \ {g.idle} /\ g.running \in Tasks
  BY IdleKeptReady DEF Scheduling, KernelInv, IdleKept
<1>2. PICK w : \E d \in Tasks :
          /\ Moved(g, w, g.running, new, ms)
          /\ Picks(w, x, d) /\ Due(w, d) /\ x.halted = Asserted(g, d)
  BY <1>1 DEF GivesUp
<1>3. PICK d \in Tasks : Picks(w, x, d) /\ Due(w, d) /\ x.halted = Asserted(g, d)
  BY <1>2
<1>4. /\ Moved(g, w, g.running, new, ms)
      /\ w.flags = g.flags /\ w.waits = g.waits /\ w.tasks = g.tasks /\ w.idle = g.idle
      /\ w.running = g.running /\ w.scheduled = None
  BY <1>2 DEF Moved, Steady
<1>5. IdleKept(w) /\ w.tasks \subseteq Tasks
  BY <1>1, <1>4, MovedIdle DEF Kernel
<1>6. d # None /\ w.status[d] # "NEW"
  BY <1>3, NoneAssumption DEF Due, RunningStatus
<1>. QED  BY <1>1, <1>3, <1>4, <1>5, <1>6, PicksJudged

\* PendSV and SVC_Handler switch to the task chosen, if there is one.
LEMMA SwitchJudged ==
    ASSUME NEW k, NEW x, Scheduling(x), NEW c, Judged(k, x, c), NEW h, Switched(x, h)
    PROVE  Judged(k, h, c)
<1>1. Switched(x, h)
  OBVIOUS
<1>2. Chosen(h) = Chosen(x) /\ (IdleKept(x) => IdleKept(h)) /\ h.halted = x.halted
  BY <1>1, SwitchedKept DEF Switched
<1>3. ASSUME Fit(x, c) PROVE Fit(h, c)
  <2>1. /\ h.flags = x.flags /\ h.waits = x.waits /\ h.tasks = x.tasks /\ h.idle = x.idle
        /\ h.status = x.status /\ h.scheduled = None /\ h.running = Chosen(x)
    BY <1>1 DEF Switched, Chosen
  <2>2. x.status[Chosen(x)] \in LeftStatus \cup {"ACTIVE"}
    BY <1>3 DEF Fit, Scheduling, Chosen
  <2>. QED  BY <1>2, <1>3, <2>1, <2>2 DEF Fit, Marked, Acquirers
<1>. QED  BY <1>2, <1>3 DEF Judged, BlockerChosen

\* What the running task of a fit system may rely on.
LEMMA FitThread ==
    ASSUME HaltInvariant, InThread
    PROVE  /\ SafeInvariant /\ Invariant /\ Fit(osg, calling) /\ IdleKept(osg)
           /\ Marked(osg, calling) /\ Acquirers(osg, calling)
           /\ Scheduling(osg) /\ osg \in Kernel /\ osg.scheduled = None /\ osg.halted = {}
           /\ osg.running \in Tasks /\ osg.running \in osg.tasks
           /\ osg.flags[osg.running] = {} /\ osg.waits[osg.running] = {}
           /\ osg.status[osg.running] \in LeftStatus \cup {"ACTIVE"}
<1>1. SafeInvariant /\ osg.halted = {} /\ osg.state = "STARTED" /\ osg.scheduled = None
  BY DEF HaltInvariant, InThread
<1>2. Fit(osg, calling)
  BY <1>1 DEF HaltInvariant, Unhalted
<1>3. /\ Scheduling(osg) /\ osg \in Kernel /\ osg.running \in Tasks
  BY <1>1, ThreadFacts
<1>4. /\ osg.flags[osg.running] = {}
      /\ osg.status[osg.running] \in LeftStatus \cup {"ACTIVE"}
  BY <1>1, <1>2 DEF Fit, Chosen
<1>5. osg.waits[osg.running] = {}
  BY <1>2, <1>3, <1>4, SemaphoreFlags DEF Fit, Marked
<1>. QED  BY <1>1, <1>2, <1>3, <1>4, <1>5 DEF Fit, IdleKept, SafeInvariant

\* What every step shows.
HaltStep ==
    /\ osg.halted = {} => (osg'.halted # {} <=> BlockerChosen(osg, osg'))
    /\ Unhalted'

\* In a started system.
LEMMA JudgedStep ==
    ASSUME osg.halted = {}, osg'.state = "STARTED", Judged(osg, osg', calling')
    PROVE  HaltStep
BY DEF HaltStep, Judged, Unhalted

\* The steps before the first task runs.
LEMMA BootHalts ==
    ASSUME Disciplined, HaltInvariant, Boot, UNCHANGED calling
    PROVE  HaltStep
<1>1. Invariant /\ Invariant' /\ osg.state # "STARTED" /\ Healthy(osg, calling)
  <2>1. Invariant /\ Invariant'
    BY BootStep DEF HaltInvariant, SafeInvariant
  <2>2. osg.state # "STARTED"
    BY DEF Boot, Initialize, TaskInitialize, Start, Teardown
  <2>. QED  BY <2>1, <2>2 DEF HaltInvariant, Unhalted
<1>2. \A t \in Tasks : calling[t] = None
  BY <1>1 DEF Healthy
<1>3. calling \in Callers
  BY <1>2 DEF HaltInvariant, SafeInvariant, TypeOK, Callers
<1>4. Healthy(osg', calling)
  BY <1>1, <1>3, BootHealthy DEF Disciplined
<1>5. osg.halted = {} /\ osg'.halted = {}
  BY <1>1, <1>4 DEF Healthy
<1>6. \A t \in Tasks : /\ osg.flags[t] = {}
                       /\ osg'.flags[t] = {} /\ osg'.waits[t] = {}
  BY <1>1, <1>2, <1>4, NoneAssumption DEF Healthy, Blocking, Flagging
<1>7. ~BlockerChosen(osg, osg')
  BY <1>6, SemaphoreFlags DEF BlockerChosen
<1>8. ASSUME osg'.state = "STARTED" PROVE Fit(osg', calling)
  <2>1. Chosen(osg') \in Tasks
    BY <1>1, <1>8 DEF Invariant, Scheduling, KernelInv, Kernel, Chosen
  <2>2. osg'.scheduled # None \/ osg'.status[osg'.running] \in LeftStatus \cup {"ACTIVE"}
    BY <1>4, <1>8 DEF Healthy
  <2>. QED  BY <1>2, <1>4, <1>6, <2>1, <2>2 DEF Fit, Healthy, Marked, Acquirers
<1>. QED  BY <1>4, <1>5, <1>7, <1>8 DEF HaltStep, Unhalted

\* SysTick wakes a task whose time-out has passed and chooses the next.
LEMMA TickHalts ==
    ASSUME HaltInvariant, SysTick, UNCHANGED calling
    PROVE  HaltStep
<1>1. PICK e : e = Elapse(osg)
  OBVIOUS
<1>2. /\ osg' = ScheduleIfNone(e) /\ osg.state = "STARTED" /\ osg.halted = {}
      /\ Fit(osg, calling) /\ Scheduling(osg)
  BY <1>1 DEF SysTick, HaltInvariant, SafeInvariant, Invariant, Unhalted
<1>3. /\ Scheduling(e) /\ e.halted = {} /\ Steady(osg, e) /\ e.scheduled = osg.scheduled
      /\ e.status = osg.status /\ e.flags = osg.flags /\ e.waits = osg.waits
  BY <1>1, <1>2, ElapseInv
<1>4. Fit(e, calling) /\ Chosen(e) = Chosen(osg)
  BY <1>2, <1>3 DEF Fit, IdleKept, Marked, Acquirers, Chosen, Steady
<1>5. Schedules(e, osg')
  BY <1>2, <1>3, ScheduleIfNoneInv
<1>6. osg'.state = "STARTED"
  BY <1>5 DEF Schedules, Scheduling
<1>7. CASE osg.scheduled # None
  <2>1. osg' = e
    BY <1>3, <1>5, <1>7 DEF Schedules
  <2>. QED  BY <1>2, <1>3, <1>4, <1>6, <2>1, KeptJudged, JudgedStep
<1>8. CASE osg.scheduled = None
  <2>1. PICK d \in Tasks \cup {None} :
            Picks(e, osg', d) /\ (d # None => Due(e, d)) /\ osg'.halted = Asserted(e, d)
    BY <1>3, <1>4, <1>5, IdleKeptReady DEF Schedules, Fit
  <2>2. /\ e.tasks \subseteq Tasks /\ e.running \in Tasks /\ e.running = osg.running
        /\ e.scheduled = None
    BY <1>3, <1>8 DEF Scheduling, KernelInv, Kernel, Steady
  <2>3. d # None => e.status[d] # "NEW"
    BY <2>1 DEF Due, RunningStatus
  <2>4. e.flags[e.running] = {} /\ e.status[e.running] \in LeftStatus \cup {"ACTIVE"}
    BY <1>4, <2>2 DEF Fit, Chosen
  <2>5. Marked(e, calling) /\ Acquirers(e, calling) /\ IdleKept(e)
    BY <1>4 DEF Fit
  <2>6. Judged(osg, osg', calling)
    BY <1>3, <1>8, <2>1, <2>2, <2>3, <2>4, <2>5, PicksJudged
  <2>. QED  BY <1>2, <1>6, <2>6, JudgedStep
<1>. QED  BY <1>7, <1>8

\* PendSV switches.
LEMMA PendHalts ==
    ASSUME HaltInvariant, PendSV, UNCHANGED calling
    PROVE  HaltStep
<1>1. Invariant /\ osg' = Switch(osg) /\ osg.halted = {} /\ osg.scheduled # None
  BY DEF PendSV, HaltInvariant, SafeInvariant
<1>2. Scheduling(osg) /\ Fit(osg, calling)
  BY <1>1 DEF Invariant, HaltInvariant, Unhalted
<1>3. Switched(osg, osg') /\ osg'.state = "STARTED"
  BY <1>1, <1>2, SwitchInv DEF Scheduling
<1>4. Judged(osg, osg', calling)
  BY <1>1, <1>2, <1>3, KeptJudged, SwitchJudged
<1>. QED  BY <1>1, <1>3, <1>4, JudgedStep

\* A service call that leaves x to SVC_Handler.
LEMMA ReturnHalts ==
    ASSUME osg.halted = {}, NEW x, Scheduling(x), Judged(osg, x, calling'),
           NEW t \in Tasks, NEW result \in Return, osg' = SvcReturn(x, t, result)
    PROVE  HaltStep
<1>1. Switched(x, osg')
  BY SvcReturnInv
<1>2. Judged(osg, osg', calling')
  BY <1>1, SwitchJudged
<1>3. osg'.state = "STARTED"
  BY <1>1 DEF Switched, Scheduling
<1>. QED  BY <1>2, <1>3, JudgedStep

\* svc_delay, svc_panic and svc_abort of a task that is inside of no acquire.
LEMMA LeaverHalts ==
    ASSUME HaltInvariant, InTask, UNCHANGED calling, NEW new, NEW ms, new = "WAIT" => ms # 0,
           NEW x, GivesUp(osg, x, new, ms), NEW code \in Codes,
           osg' = SvcReturn(x, osg.running, Returning(code))
    PROVE  HaltStep
<1>1. InThread /\ osg.running # osg.idle
  BY DEF InTask
<1>2. /\ Scheduling(osg) /\ osg.scheduled = None /\ osg.halted = {} /\ IdleKept(osg)
      /\ Marked(osg, calling) /\ Acquirers(osg, calling) /\ osg.running \in Tasks
  BY <1>1, FitThread
<1>3. Judged(osg, x, calling)
  BY <1>1, <1>2, GivesUpJudged
<1>4. Scheduling(x) /\ Returning(code) \in Return
  BY <1>1, ThreadFacts DEF GivesUp, HaltInvariant
<1>. QED  BY <1>2, <1>3, <1>4, ReturnHalts

\* A task that is inside of no acquire, and not the idle task, gets another
\* status.
LEMMA ChangeHalts ==
    ASSUME HaltInvariant, InThread, UNCHANGED calling, NEW t \in osg.tasks \ {osg.idle},
           NEW new, Changes(osg, osg', t, new), t = osg.running => new \in LeftStatus
    PROVE  HaltStep
<1>1. /\ Scheduling(osg) /\ osg \in Kernel /\ osg.scheduled = None /\ osg.halted = {}
      /\ Fit(osg, calling) /\ IdleKept(osg) /\ osg.running \in Tasks
      /\ osg.status[osg.running] \in LeftStatus \cup {"ACTIVE"}
  BY FitThread
<1>2. t \in Tasks
  BY <1>1 DEF Kernel
<1>3. Moved(osg, osg', t, new, osg.delay[t])
  <2>1. osg.delay = [osg.delay EXCEPT ![t] = osg.delay[t]]
    BY <1>1, <1>2 DEF Kernel
  <2>. QED  BY <2>1 DEF Changes, Frame, Steady, Moved
<1>4. IdleKept(osg')
  BY <1>1, <1>3, MovedIdle
<1>5. /\ osg'.scheduled = None /\ osg'.running = osg.running /\ osg'.halted = {}
      /\ osg'.state = "STARTED" /\ osg'.flags = osg.flags /\ osg'.waits = osg.waits
      /\ osg'.tasks = osg.tasks /\ osg'.idle = osg.idle
      /\ osg'.status[osg.running] = IF osg.running = t THEN new ELSE osg.status[osg.running]
  BY <1>1, <1>2 DEF Changes, Frame, Kernel, InThread
<1>6. Chosen(osg') = Chosen(osg)
  BY <1>1, <1>5 DEF Chosen
<1>7. Fit(osg', calling)
  BY <1>1, <1>4, <1>5, <1>6 DEF Fit, Marked, Acquirers
<1>. QED  BY <1>1, <1>5, <1>6, <1>7, KeptJudged, JudgedStep

\* os_task_start of a task that is inside of no acquire.
LEMMA StartHalts ==
    ASSUME Disciplined, HaltInvariant, UNCHANGED calling, NEW t \in Tasks, calling[t] = None,
           NEW p \in StartPriorities, TaskStart(t, p)
    PROVE  HaltStep
<1>1. /\ InThread /\ osg' = Started(osg, t, p) /\ osg.status[t] \notin RunningStatus
      /\ t \in osg.tasks \ {osg.running, osg.idle}
  BY DEF TaskStart
<1>2. /\ Scheduling(osg) /\ osg \in Kernel /\ osg.scheduled = None /\ osg.halted = {}
      /\ Fit(osg, calling) /\ IdleKept(osg) /\ Marked(osg, calling)
      /\ osg.running \in Tasks /\ osg.running \in osg.tasks
      /\ osg.status[osg.running] \in LeftStatus \cup {"ACTIVE"}
  BY <1>1, FitThread
<1>3. p \in 0 .. MaxPriority /\ p > 0
  BY PrioritiesAssumption, MaxPriorityAssumption DEF Disciplined
<1>4. Restarts(osg, osg', t, p)
  BY <1>1, <1>2, <1>3, StartedInv
<1>5. /\ osg'.running = osg.running /\ osg'.scheduled = None /\ osg'.halted = {}
      /\ osg'.idle = osg.idle /\ osg'.tasks = osg.tasks /\ osg'.state = "STARTED"
  BY <1>2, <1>4 DEF Restarts, Scheduling
<1>6. osg.flags[t] = {} /\ osg.waits[t] = {}
  BY <1>2 DEF Marked
<1>7. /\ \A u \in Tasks : osg'.status[u] = IF u = t THEN "IDLE" ELSE osg.status[u]
      /\ \A u \in Tasks : osg'.priority[u] = IF u = t THEN p ELSE osg.priority[u]
      /\ \A u \in Tasks : osg'.flags[u] = IF u = t THEN {} ELSE osg.flags[u]
      /\ \A u \in Tasks : u # t => osg'.waits[u] = osg.waits[u]
  BY <1>2, <1>4 DEF Restarts, Kernel
<1>8. osg'.waits[t] = {}
  <2>1. osg'.waits[t] = {o \in osg.waits[t] : Kind[o] = "semaphore"}
    BY <1>2, <1>4 DEF Restarts, Kernel
  <2>. QED  BY <1>6, <2>1
<1>9. IdleKept(osg')
  <2>1. osg.tasks \subseteq Tasks /\ t # osg.idle
    BY <1>1, <1>2 DEF Kernel
  <2>2. \A u \in Tasks \ osg.tasks : osg'.status[u] = "NEW"
    BY <1>1, <1>2, <1>7 DEF IdleKept
  <2>3. /\ osg.idle \in osg.tasks /\ osg'.status[osg.idle] \in RunningStatus
        /\ osg'.priority[osg.idle] = 0
    BY <1>1, <1>2, <1>7, <2>1 DEF IdleKept
  <2>4. \A u \in osg.tasks \ {osg.idle} : osg'.priority[u] > 0
    BY <1>2, <1>3, <1>7, <2>1 DEF IdleKept
  <2>. QED  BY <1>2, <1>5, <2>2, <2>3, <2>4 DEF IdleKept
<1>10. Chosen(osg') = Chosen(osg) /\ Chosen(osg) = osg.running
  BY <1>2, <1>5 DEF Chosen
<1>11. Fit(osg', calling)
  <2>1. Marked(osg', calling)
    BY <1>2, <1>7, <1>8 DEF Marked
  <2>2. Acquirers(osg', calling)
    BY <1>2, <1>5 DEF Fit, Acquirers
  <2>3. /\ osg'.flags[Chosen(osg')] = {}
        /\ osg'.status[osg'.running] \in LeftStatus \cup {"ACTIVE"}
    BY <1>1, <1>2, <1>5, <1>7, <1>10 DEF Fit
  <2>. QED  BY <1>9, <2>1, <2>2, <2>3 DEF Fit
<1>. QED  BY <1>2, <1>5, <1>10, <1>11, KeptJudged, JudgedStep

\* The calls that are not about semaphores.
LEMMA OtherCallHalts ==
    ASSUME Disciplined, HaltInvariant, Elsewhere
    PROVE  HaltStep
<1>0. UNCHANGED calling /\ InThread
  BY ElsewhereFacts DEF AtACall, Disciplined, HaltInvariant
<1>1. /\ Scheduling(osg) /\ osg.scheduled = None /\ osg \in Kernel
      /\ osg.running \in Tasks /\ osg.running \in osg.tasks /\ IdleKept(osg)
      /\ osg.status[osg.running] \in LeftStatus \cup {"ACTIVE"}
      /\ osg.status[osg.running] # "WAIT" /\ "TO" \in Codes /\ "SUCCESS" \in Codes
  BY <1>0, FitThread DEF Codes, LeftStatus
<1>2. ASSUME NEW ms \in Delays, Delay(ms) PROVE HaltStep
  <2>1. InTask /\ osg' = SvcReturn(SvcDelay(osg, ms), osg.running, Returning("TO"))
    BY <1>2 DEF Delay
  <2>2. ms \in 0 .. Forever /\ ms # 0
    BY DelaysAssumption DEF Disciplined
  <2>3. GivesUp(osg, SvcDelay(osg, ms), "WAIT", ms)
    BY <1>1, <2>2, SvcDelayInv
  <2>. QED  BY <1>0, <1>1, <2>1, <2>2, <2>3, LeaverHalts
<1>3. ASSUME NEW new \in LeftStatus, InTask,
             osg' = SvcReturn(SvcLeave(osg, new), osg.running, Returning("SUCCESS"))
      PROVE  HaltStep
  <2>1. GivesUp(osg, SvcLeave(osg, new), new, osg.delay[osg.running])
    BY <1>1, SvcLeaveInv
  <2>2. new # "WAIT"
    BY DEF LeftStatus
  <2>. QED  BY <1>0, <1>1, <1>3, <2>1, <2>2, LeaverHalts
<1>4. CASE Panic \/ Abort
  BY <1>3, <1>4 DEF Panic, Abort, LeftStatus
<1>5. CASE Finish
  <2>1. osg.status[osg.running] = "ACTIVE" /\ osg.running \in osg.tasks \ {osg.idle}
    BY <1>1, <1>5 DEF Finish, InTask
  <2>2. osg' = StatusSet(osg, osg.running, "FINISHED")
    BY <1>5, <2>1 DEF Finish, OsAssert
  <2>3. "FINISHED" \in LeftStatus
    BY DEF LeftStatus
  <2>4. Changes(osg, osg', osg.running, "FINISHED")
    BY <1>1, <2>1, <2>2, <2>3, StatusChange
  <2>. QED  BY <1>0, <2>1, <2>3, <2>4, ChangeHalts
<1>6. ASSUME NEW t \in Tasks, Suspend(t) PROVE HaltStep
  <2>1. /\ t \in osg.tasks \ {osg.idle} /\ t # osg.running /\ osg.status[t] \in RunningStatus
        /\ osg' = StatusSet(osg, t, "SUSPENDED")
    BY <1>6 DEF Suspend, Disciplined
  <2>2. "SUSPENDED" \notin LeftStatus /\ osg.status[t] # "WAIT"
    BY <2>1 DEF LeftStatus, RunningStatus
  <2>3. Changes(osg, osg', t, "SUSPENDED")
    BY <1>1, <2>1, <2>2, StatusChange
  <2>. QED  BY <1>0, <2>1, <2>3, ChangeHalts
<1>7. ASSUME NEW t \in Tasks, Resume(t) PROVE HaltStep
  <2>1. t \in osg.tasks /\ osg.status[t] = "SUSPENDED" /\ osg' = StatusSet(osg, t, "IDLE")
    BY <1>7 DEF Resume
  <2>2. t # osg.idle /\ t # osg.running /\ osg.status[t] \notin RunningStatus
    BY <1>1, <2>1 DEF IdleKept, LeftStatus, RunningStatus
  <2>3. Changes(osg, osg', t, "IDLE")
    BY <1>1, <2>1, <2>2, StatusChange DEF LeftStatus
  <2>. QED  BY <1>0, <2>1, <2>2, <2>3, ChangeHalts
<1>8. ASSUME NEW t \in Tasks, NEW p \in StartPriorities, calling[t] = None, TaskStart(t, p)
      PROVE  HaltStep
  BY <1>0, <1>8, StartHalts
<1>. QED  BY <1>2, <1>4, <1>5, <1>6, <1>7, <1>8, ElsewhereFacts DEF Disciplined, HaltInvariant

\* A task that points to nothing and is in no list blocks without an
\* assertion failing.
LEMMA JoiningHalts ==
    ASSUME NEW k, Scheduling(k), NEW o \in Objects, k.waits[k.running] = {},
           Unlisted(k, k.running), NEW g, g = Joining(k, o)
    PROVE  g.halted = k.halted
<1>. DEFINE t == k.running
            same == {p \in k.waits[t] : Kind[p] = Kind[o]}
            unlinked == /\ ~Contains(k.blocked[o], t)
                        /\ \A p \in Objects :
                               Contains(k.blocked[p], t) => Last(k.blocked[p]) = t
            b == [k EXCEPT !.blocked[o] = Append(@, t), !.waits[t] = (@ \ same) \cup {o}]
<1>1. k \in Kernel /\ unlinked /\ same = {} /\ k.waits[t] \subseteq {o}
  BY DEF Scheduling, KernelInv, Unlisted
<1>2. OsAssert(k, k.waits[t] \subseteq {o}, "semaphore.c:47") = k
  BY <1>1 DEF OsAssert
<1>3. OsAssert(OsAssert(k, unlinked, "blocked_append"), same = {}, "blocked_enq") = k
  BY <1>1 DEF OsAssert
<1>4. BlockedAppend(k, o, t) = b
  BY <1>3, Zenon DEF BlockedAppend
<1>. HIDE DEF unlinked, same, t
<1>5. b.halted = k.halted
  BY <1>1 DEF Kernel
<1>. HIDE DEF b
<1>6. g = [b EXCEPT !.flags[t] = @ \cup Flag["semaphore"]]
  BY <1>2, <1>4 DEF Joining, t
<1>7. b \in [DOMAIN b -> {b[p] : p \in DOMAIN b}]
  BY <1>1 DEF Kernel, b
<1>. QED  BY <1>5, <1>6, <1>7

\* The running task enters or leaves an acquire.  If it has not been flagged,
\* the system stays fit.
LEMMA CallingFit ==
    ASSUME HaltInvariant, InTask, NEW o \in Objects \cup {None},
           calling' = [calling EXCEPT ![osg.running] = o]
    PROVE  /\ Judged(osg, osg, calling') /\ Acquirers(osg, calling')
           /\ \A u \in Tasks : u # osg.running => calling'[u] = calling[u]
           /\ calling'[osg.running] = o
<1>1. InThread /\ osg.running # osg.idle
  BY DEF InTask
<1>2. /\ Fit(osg, calling) /\ osg.running \in Tasks /\ osg.running \in osg.tasks
      /\ osg.flags[osg.running] = {} /\ osg.waits[osg.running] = {} /\ osg.halted = {}
      /\ TypeOK
  BY <1>1, FitThread DEF SafeInvariant
<1>3. \A u \in Tasks : calling'[u] = IF u = osg.running THEN o ELSE calling[u]
  BY <1>2 DEF TypeOK
<1>4. Acquirers(osg, calling') /\ Marked(osg, calling')
  BY <1>1, <1>2, <1>3 DEF Fit, Acquirers, Marked
<1>5. Fit(osg, calling')
  BY <1>2, <1>4 DEF Fit
<1>. QED  BY <1>2, <1>3, <1>4, <1>5, KeptJudged

\* osi_semaphore_acquire, when a token is there or nobody waits for one.
LEMMA AtOnceHalts ==
    ASSUME HaltInvariant, InTask, NEW o \in Objects,
           calling' = [calling EXCEPT ![osg.running] = o], NEW code \in Codes,
           osg' = SvcReturn(OsAssert(osg, osg.waits[osg.running] \subseteq {o}, "semaphore.c:47"),
                            osg.running, Returning(code))
    PROVE  HaltStep
<1>1. InThread
  BY DEF InTask
<1>2. /\ osg.waits[osg.running] = {} /\ osg.running \in Tasks /\ Scheduling(osg)
      /\ osg.halted = {} /\ Returning(code) \in Return
  BY <1>1, FitThread, ThreadFacts
<1>3. Judged(osg, osg, calling')
  BY CallingFit
<1>4. osg' = SvcReturn(osg, osg.running, Returning(code))
  BY <1>2 DEF OsAssert
<1>. QED  BY <1>2, <1>3, <1>4, ReturnHalts

\* osi_semaphore_acquire, when it blocks.
LEMMA BlocksHalts ==
    ASSUME HaltInvariant, InTask, NEW o \in Objects,
           calling' = [calling EXCEPT ![osg.running] = o], NEW to \in 0 .. Forever, to # 0,
           osg' = SvcReturn(SvcDelay(Joining(osg, o), to), osg.running, Returning("TO"))
    PROVE  HaltStep
<1>1. PICK t, g, x, n : /\ t = osg.running /\ g = Joining(osg, o) /\ x = SvcDelay(g, to)
                        /\ n = calling'
  OBVIOUS
<1>2. /\ Scheduling(osg) /\ t \in Tasks /\ t # osg.idle /\ osg \in Kernel /\ osg.status[t] # "WAIT"
      /\ Unlisted(osg, t) /\ osg.scheduled = None /\ osg.halted = {} /\ osg.waits[t] = {}
      /\ osg.flags[t] = {} /\ Marked(osg, calling) /\ IdleKept(osg)
      /\ Returning("TO") \in Return
  BY <1>1, FitThread, ThreadFacts DEF InTask, Codes
<1>3. /\ Acquirers(osg, n) /\ n[t] = o /\ \A u \in Tasks : u # t => n[u] = calling[u]
  BY <1>1, CallingFit
<1>4. /\ Scheduling(g) /\ Steady(osg, g) /\ g.status = osg.status /\ g.scheduled = None
      /\ g.waits = [osg.waits EXCEPT ![t] = {o}]
      /\ g.flags = [osg.flags EXCEPT ![t] = @ \cup Flag.semaphore]
  <2>1. Joined(osg, g, o)
    BY <1>1, <1>2, JoiningFacts
  <2>. QED  BY <1>1, <1>2, <2>1 DEF Joined
<1>5. g.halted = {}
  BY <1>1, <1>2, JoiningHalts
<1>6. /\ \A u \in Tasks : g.waits[u] = IF u = t THEN {o} ELSE osg.waits[u]
      /\ \A u \in Tasks : g.flags[u] = IF u = t THEN Flag.semaphore ELSE osg.flags[u]
      /\ g.running = t /\ g.idle = osg.idle /\ g.tasks = osg.tasks
  BY <1>1, <1>2, <1>4 DEF Kernel, Steady
<1>7. Marked(g, n) /\ Acquirers(g, n)
  BY <1>2, <1>3, <1>6, NoneAssumption DEF Marked, Acquirers
<1>8. IdleKept(g)
  BY <1>2, <1>4 DEF IdleKept, Steady
<1>9. GivesUp(g, x, "WAIT", to)
  BY <1>1, <1>2, <1>4, <1>6, SvcDelayInv
<1>10. /\ osg.running = g.running /\ g.running # g.idle
       /\ \A u \in Tasks : u # g.running => osg.flags[u] = g.flags[u]
  BY <1>1, <1>2, <1>6
<1>11. Judged(osg, x, n)
  BY <1>2, <1>4, <1>5, <1>7, <1>8, <1>9, <1>10, GivesUpJudged
<1>. QED  BY <1>1, <1>2, <1>9, <1>11, ReturnHalts DEF GivesUp

\* osi_semaphore_acquire
LEMMA AcquireHalts ==
    ASSUME HaltInvariant, NEW o \in Objects, NEW to \in Timeouts, Acquire(o, to)
    PROVE  HaltStep
<1>1. /\ InTask /\ InThread /\ to \in 0 .. Forever /\ "SUCCESS" \in Codes /\ "TO" \in Codes
      /\ calling' = [calling EXCEPT ![osg.running] = o]
  BY TimeoutsAssumption DEF Acquire, InTask, Codes
<1>. DEFINE checked == OsAssert(osg, osg.waits[osg.running] \subseteq {o}, "semaphore.c:47")
<1>2. CASE osg' = SvcReturn(checked, osg.running, Returning("SUCCESS"))
  BY <1>1, <1>2, AtOnceHalts
<1>3. CASE osg' = SvcReturn(checked, osg.running, Returning("TO"))
  BY <1>1, <1>3, AtOnceHalts
<1>4. CASE /\ to # 0
           /\ osg' = SvcReturn(SvcBlock(BlockedAppend(checked, o, osg.running), to, "semaphore"),
                               osg.running, Returning("TO"))
  <2>1. PICK b : b = BlockedAppend(checked, o, osg.running)
    OBVIOUS
  <2>2. b.running = osg.running
    <3>1. osg \in Kernel /\ checked.running = osg.running
      BY <1>1, FitThread DEF OsAssert, Kernel
    <3>. QED  BY <2>1, <3>1 DEF BlockedAppend, OsAssert, Kernel
  <2>3. SvcBlock(b, to, "semaphore") = SvcDelay(Joining(osg, o), to)
    BY <2>1, <2>2, Zenon DEF SvcBlock, Joining
  <2>4. osg' = SvcReturn(SvcDelay(Joining(osg, o), to), osg.running, Returning("TO"))
    BY <1>4, <2>1, <2>3
  <2>. QED  BY <1>1, <1>4, <2>4, BlocksHalts
<1>. QED  BY <1>2, <1>3, <1>4 DEF Acquire

\* os_semaphore_acquire returns.
LEMMA AcquireReturnsHalts == ASSUME HaltInvariant, AcquireReturns PROVE HaltStep
<1>1. /\ InTask /\ InThread /\ osg' = osg
      /\ calling' = [calling EXCEPT ![osg.running] = None]
  BY DEF AcquireReturns, InTask
<1>2. osg.halted = {} /\ osg.state = "STARTED"
  BY <1>1 DEF InThread
<1>3. Judged(osg, osg, calling')
  BY <1>1, CallingFit
<1>4. Judged(osg, osg', calling') /\ osg'.state = "STARTED"
  BY <1>1, <1>2, <1>3
<1>. QED  BY <1>2, <1>4, JudgedStep

\* osi_semaphore_release, when somebody waits.
LEMMA HandsHalts ==
    ASSUME HaltInvariant, InTask, UNCHANGED calling, NEW o \in Objects,
           osg.blocked[o] # <<>>, NEW f, f = Head(osg.blocked[o]),
           osg' = SvcReturn(DispatchOrQueue(TokenOut(osg, o, f), f),
                            osg.running, Returning("SUCCESS"))
    PROVE  HaltStep
<1>1. PICK t, g, x : t = osg.running /\ g = TokenOut(osg, o, f) /\ x = DispatchOrQueue(g, f)
  OBVIOUS
<1>2. /\ Scheduling(osg) /\ t \in Tasks /\ osg \in Kernel /\ osg.scheduled = None
      /\ osg.halted = {} /\ osg.flags[t] = {}
      /\ osg.status[t] \in LeftStatus \cup {"ACTIVE"}
      /\ Listed(osg, calling) /\ Unlisted(osg, t) /\ IdleKept(osg)
      /\ Marked(osg, calling) /\ Acquirers(osg, calling) /\ Returning("SUCCESS") \in Return
  BY <1>1, FitThread, ThreadFacts DEF InTask, Codes
<1>3. TokenTaken(osg, g, o, f)
  <2>1. IsFirst(osg, o, f)
    BY DEF IsFirst
  <2>. QED  BY <1>1, <1>2, <2>1, TokenHanded
<1>4. /\ Scheduling(g) /\ f \in Tasks /\ g.scheduled = None /\ g.running = t
      /\ g.status = osg.status /\ g.idle = osg.idle /\ g.tasks = osg.tasks
      /\ g.flags = osg.flags /\ g.waits = osg.waits /\ g.halted = {}
  BY <1>1, <1>2, <1>3 DEF TokenTaken
<1>5. Linked(osg, calling, o, f) /\ f # t
  BY <1>2, <1>3 DEF TokenTaken, Listed, Unlisted
<1>6. f \in g.tasks \ {g.idle}
  BY <1>2, <1>4, <1>5, NoneAssumption DEF Linked, Acquirers
<1>7. /\ IdleKept(g) /\ IdleReady(g)
  <2>1. IdleKept(g)
    BY <1>2, <1>3 DEF IdleKept, TokenTaken
  <2>. QED  BY <1>4, <2>1, IdleKeptReady
<1>8. Grants(g, x, f)
  <2>1. g.status[f] \in RunningStatus \cup {"WAIT"}
    BY <1>4, <1>5 DEF Linked, RunningStatus
  <2>. QED  BY <1>1, <1>4, <2>1, DispatchOrQueueInv
<1>9. PICK w, new : \E d \in Tasks \cup {None} :
          /\ Moved(g, w, f, new, g.delay[f])
          /\ new # g.status[f] => g.status[f] = "WAIT" /\ new = "IDLE"
          /\ Picks(w, x, d) /\ (d \notin {None, f} => Due(w, d))
          /\ x.halted = Asserted(g, d)
  BY <1>6, <1>7, <1>8, Zenon DEF Grants
<1>10. PICK d \in Tasks \cup {None} :
          /\ Moved(g, w, f, new, g.delay[f])
          /\ new # g.status[f] => g.status[f] = "WAIT" /\ new = "IDLE"
          /\ Picks(w, x, d) /\ (d \notin {None, f} => Due(w, d))
          /\ x.halted = Asserted(g, d)
  BY <1>9
<1>11. /\ w.flags = g.flags /\ w.waits = g.waits /\ w.tasks = g.tasks /\ w.idle = g.idle
       /\ w.running = g.running /\ w.scheduled = None
       /\ \A u \in Tasks : w.status[u] = IF u = f THEN new ELSE osg.status[u]
  BY <1>2, <1>4, <1>10 DEF Moved, Steady, Kernel
<1>12. IdleKept(w) /\ w.tasks \subseteq Tasks
  BY <1>4, <1>6, <1>7, <1>10, <1>11, MovedIdle DEF Scheduling, KernelInv, Kernel
<1>13. d # None => w.status[d] # "NEW"
  <2>1. new # "NEW"
    BY <1>4, <1>5, <1>10 DEF Linked
  <2>. QED  BY <1>4, <1>10, <1>11, <2>1 DEF Due, RunningStatus
<1>14. /\ g.flags[g.running] = {} /\ w.status[w.running] \in LeftStatus \cup {"ACTIVE"}
       /\ osg.running = g.running /\ g.running \in Tasks
       /\ \A u \in Tasks : u # g.running => osg.flags[u] = g.flags[u]
  BY <1>1, <1>2, <1>4, <1>5, <1>11
<1>15. Marked(g, calling) /\ Acquirers(g, calling)
  BY <1>2, <1>4 DEF Marked, Acquirers
<1>16. Picks(w, x, d) /\ x.halted = Asserted(g, d)
  BY <1>10
<1>17. /\ w.flags = g.flags /\ w.waits = g.waits /\ w.tasks = g.tasks /\ w.idle = g.idle
       /\ w.running = g.running /\ w.scheduled = None
  BY <1>11
<1>18. Judged(osg, x, calling)
  <2>1. g.scheduled = None /\ g.halted = {} /\ osg.scheduled = None
    BY <1>2, <1>4
  <2>. QED  BY <1>12, <1>13, <1>14, <1>15, <1>16, <1>17, <2>1, PicksJudged
<1>. QED  BY <1>1, <1>2, <1>8, <1>18, ReturnHalts DEF Grants

\* osi_semaphore_release
LEMMA ReleaseHalts == ASSUME HaltInvariant, NEW o \in Objects, Release(o) PROVE HaltStep
<1>. DEFINE f == Head(osg.blocked[o])
<1>1. InTask /\ UNCHANGED calling /\ InThread
  BY DEF Release, InTask
<1>2. CASE /\ osg.blocked[o] # <<>>
           /\ osg' = SvcReturn(DispatchOrQueue(TokenOut(osg, o, f), f),
                               osg.running, Returning("SUCCESS"))
  BY <1>1, <1>2, HandsHalts
<1>3. CASE osg' = SvcReturn(osg, osg.running, Returning("SUCCESS"))
  <2>1. /\ Scheduling(osg) /\ osg.running \in Tasks /\ osg.halted = {} /\ Fit(osg, calling')
        /\ Returning("SUCCESS") \in Return
    BY <1>1, FitThread, ThreadFacts DEF Codes
  <2>2. Judged(osg, osg, calling')
    BY <2>1, KeptJudged
  <2>. QED  BY <1>3, <2>1, <2>2, ReturnHalts
<1>. QED  BY <1>2, <1>3 DEF Release, HandedOver, TokenOut

\* Every step.
LEMMA NextHalts == ASSUME Disciplined, HaltInvariant, [Next]_vars PROVE HaltStep
<1>1. CASE Background
  BY <1>1, BootHalts, TickHalts, PendHalts DEF Background
<1>2. CASE UNCHANGED vars
  <2>1. osg' = osg /\ calling' = calling
    BY <1>2 DEF vars
  <2>2. Unhalted'
    BY <2>1 DEF HaltInvariant, Unhalted
  <2>. QED  BY <2>1, <2>2 DEF HaltStep, BlockerChosen
<1>. QED  BY <1>1, <1>2, OtherCallHalts, AcquireHalts, AcquireReturnsHalts, ReleaseHalts
          DEF Next, Elsewhere

\* The system halts when a task that blocked in os_semaphore_acquire is given
\* the processor, by a release or when its time-out has passed, and never
\* else: osi_dispatch takes OS_TASK_FLAG_SEMAPHORE for the mutex's flag, and
\* os.c:465 asserts that the task waits for a mutex.  Every other assertion of
\* os.c and of semaphore.c holds if the application is disciplined: it neither
\* suspends nor restarts a task inside of an acquire (a restarted one fails
\* semaphore.c:19 when it blocks again), no task suspends itself or sleeps for
\* 0 ms, and only the idle task has priority 0.
THEOREM OnlyBlockersHalt == ASSUME Disciplined PROVE Spec => BlockersHalt
<1>1. Init => Unhalted
  <2>. SUFFICES ASSUME Init PROVE Unhalted
    OBVIOUS
  <2>1. calling = [t \in Tasks |-> None] /\ Zeroed
    BY DEF Init
  <2>2. Healthy(osg, calling) /\ osg.state # "STARTED"
    BY <2>1, InitHealthy DEF Zeroed, ZeroKernel
  <2>. QED  BY <2>2 DEF Unhalted
<1>2. SafeInvariant /\ Unhalted /\ [Next]_vars => Unhalted'
  BY NextHalts DEF HaltInvariant, HaltStep
<1>3. SafeInvariant /\ Unhalted /\ [Next]_vars
          => [osg.halted = {} =>
                  (osg'.halted # {}
                      <=> \E t \in Tasks : /\ Chosen(osg') = t /\ Chosen(osg) # t
                                           /\ osg.flags[t] = Flag.semaphore)]_vars
  BY NextHalts DEF HaltInvariant, HaltStep, BlockerChosen
<1>4. Spec => []SafeInvariant
  BY SafeHolds DEF Disciplined
<1>. QED  BY <1>1, <1>2, <1>3, <1>4, PTL DEF Spec, BlockersHalt

=============================================================================
