----------------------------- MODULE Semaphore -----------------------------
(***************************************************************************)
(* The semaphores of arduino-osh (semaphore.c) and the tasks that use      *)
(* them, on top of the scheduler.  Any task may release.  A task that has  *)
(* blocked fails an assertion when osi_dispatch gives it the processor     *)
(* (OS_TASK_FLAG_SEMAPHORE is 3, and so has the mutex's flag), which is    *)
(* where the behaviours in which somebody blocks end.                      *)
(***************************************************************************)
EXTENDS Handlers

CONSTANTS
    Timeouts,  \* the timeouts of os_semaphore_acquire
    Tokens,    \* the tokens of each semaphore's definition
    MaxTokens, \* how many tokens the application releases into a semaphore
    SuspendsAcquirers, \* may it suspend a task inside os_semaphore_acquire?
    RestartsAcquirers  \* may it restart one?

ASSUME AllSemaphores == \A o \in Objects : Kind[o] = "semaphore"
ASSUME TimeoutsAssumption == Timeouts \subseteq 0 .. Forever
ASSUME TokensAssumption == Tokens \in 0 .. MaxTokens /\ MaxTokens \in Nat
ASSUME SuspendsAssumption == SuspendsAcquirers \in BOOLEAN
ASSUME RestartsAssumption == RestartsAcquirers \in BOOLEAN

VARIABLES
    tokens,   \* tokens[o]: semaphore->tokens
    calling,  \* calling[t]: the semaphore t is inside os_semaphore_acquire of
    credit    \* credit[o]: Tokens and releases, less acquires that returned

vars == <<osg, tokens, calling, credit>>

\* osi_semaphore_create
Created == [o \in Objects |-> Tokens]

Init ==
    /\ Zeroed
    /\ tokens = Created
    /\ calling = [t \in Tasks |-> None]
    /\ credit = Created

AtACall == InThread /\ calling[osg.running] = None

Background ==
    /\ Boot \/ SysTick \/ PendSV
    /\ UNCHANGED <<tokens, calling, credit>>

OtherCall ==
    /\ AtACall
    /\ (\E ms \in Delays : Delay(ms)) \/ Panic \/ Abort \/ Finish
    /\ UNCHANGED <<tokens, calling, credit>>

SuspendOrResume(t) ==
    /\ AtACall
    /\ calling[t] = None \/ SuspendsAcquirers
    /\ Suspend(t) \/ Resume(t)
    /\ UNCHANGED <<tokens, calling, credit>>

\* A restarted task begins anew.  If it was inside of os_semaphore_acquire,
\* semaphore->blocked and task->semaphore stay as they are.
Restart(t, p) ==
    /\ AtACall
    /\ calling[t] = None \/ RestartsAcquirers
    /\ TaskStart(t, p)
    /\ calling' = [calling EXCEPT ![t] = None]
    /\ UNCHANGED <<tokens, credit>>

CanTake(o) == tokens[o] > 0

\* osi_semaphore_acquire
Acquire(o, to) ==
    LET t == osg.running
        checked == OsAssert(osg, osg.waits[t] \subseteq {o}, "semaphore.c:47")
    IN  /\ InTask /\ AtACall
        /\ calling' = [calling EXCEPT ![t] = o]
        /\ \/ /\ CanTake(o)
              /\ tokens' = [tokens EXCEPT ![o] = @ - 1]
              /\ osg' = SvcReturn(checked, t, Returning("SUCCESS"))
           \/ /\ ~CanTake(o) /\ to = 0
              /\ osg' = SvcReturn(checked, t, Returning("TO"))
              /\ UNCHANGED tokens
           \/ /\ ~CanTake(o) /\ to # 0
              /\ osg' = SvcReturn(SvcBlock(BlockedAppend(checked, o, t), to, "semaphore"),
                                  t, Returning("TO"))
              /\ UNCHANGED tokens
        /\ UNCHANGED credit

AcquireReturns ==
    LET t == osg.running
        o == calling[t]
        taken == IF osg.ret[t].status = "SUCCESS" THEN 1 ELSE 0
    IN  /\ InTask
        /\ o # None
        /\ calling' = [calling EXCEPT ![t] = None]
        /\ credit' = [credit EXCEPT ![o] = @ - taken]
        /\ UNCHANGED <<osg, tokens>>

\* Mutant of HandedOver: the release does not look for waiters.
NeverHandedOver(o) == FALSE

\* A released token goes to the first blocked task.
HandedOver(o) == osg.blocked[o] # <<>>

\* osi_semaphore_release
Release(o) ==
    LET t == osg.running
        waiter == Head(osg.blocked[o])
        woken == [BlockedDequeue(osg, o) EXCEPT !.ret[waiter].status = "SUCCESS"]
    IN  /\ InTask /\ AtACall
        /\ credit[o] < MaxTokens
        /\ credit' = [credit EXCEPT ![o] = @ + 1]
        /\ \/ /\ HandedOver(o)
              /\ osg' = SvcReturn(DispatchOrQueue(woken, waiter), t, Returning("SUCCESS"))
              /\ UNCHANGED tokens
           \/ /\ ~HandedOver(o)
              /\ tokens' = [tokens EXCEPT ![o] = @ + 1]
              /\ osg' = SvcReturn(osg, t, Returning("SUCCESS"))
        /\ UNCHANGED calling

Next ==
    \/ Background
    \/ OtherCall
    \/ \E t \in Tasks : SuspendOrResume(t)
    \/ \E t \in Tasks, p \in StartPriorities : Restart(t, p)
    \/ \E o \in Objects, to \in Timeouts : Acquire(o, to)
    \/ AcquireReturns
    \/ \E o \in Objects : Release(o)

Spec == Init /\ [][Next]_vars

(***************************************************************************)
(* Properties.                                                             *)
(***************************************************************************)

\* The types of types.h; no token is taken that is not there.
TypeOK ==
    /\ osg \in Kernel
    /\ tokens \in [Objects -> 0 .. MaxTokens]
    /\ calling \in [Tasks -> Objects \cup {None}]
    /\ credit \in [Objects -> 0 .. MaxTokens]

\* Tasks that have taken a token of o and not returned with it yet.
Succeeding(o) ==
    {t \in Tasks : calling[t] = o /\ osg.ret[t].status = "SUCCESS"}

\* Tokens are neither lost nor made: what was put in, less what tasks have
\* got or will get on their return, is there, and nobody waits beside it.
\* With RestartsAcquirers it is false: the token of a task restarted between
\* a grant and its return is gone, and a release hands the next one to a task
\* restarted in the list.
TokensConserved ==
    /\ TypeOK
    /\ \A o \in Objects :
           /\ credit[o] = tokens[o] + Cardinality(Succeeding(o))
           /\ osg.blocked[o] # <<>> => tokens[o] = 0

\* The system halts when, and only when, a task that has blocked for a token
\* is given the processor, by a release or after its time-out: its flags are
\* those of a mutex and of a queue, and osi_dispatch asserts that it waits
\* for a mutex.  With RestartsAcquirers it is false: a task restarted inside
\* of an acquire fails blocked_enq when it blocks again.
BlockersHalt ==
    [][osg.halted = {} =>
        (osg'.halted # {}
            <=> \E t \in Tasks : /\ Chosen(osg') = t /\ Chosen(osg) # t
                                 /\ osg.flags[t] = Flag.semaphore)]_vars

=============================================================================
