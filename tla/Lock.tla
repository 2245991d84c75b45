-------------------------------- MODULE Lock --------------------------------
(***************************************************************************)
(* What mutexes promise.  Each lock has one holder, who may take it again  *)
(* and must give it back as often; a first-come first-served queue of      *)
(* waiters; and no time at which it is free while somebody waits.  A       *)
(* waiter may give up at any moment, also at that of somebody else's step: *)
(* a kernel call that switches tasks can be what ends a waiter's time-out, *)
(* at the lock of the call or at another one.                              *)
(***************************************************************************)
EXTENDS Naturals, SequencesExt

CONSTANTS Tasks, None, Locks

VARIABLE lock  \* lock[l]: holder, depth and queue

Free == [holder |-> None, depth |-> 0, queue |-> <<>>]

Init == lock = [l \in Locks |-> Free]

(***************************************************************************)
(* What can become of a lock k in a step: the next m.                      *)
(***************************************************************************)

\* q, or what is left of it when one waiter gives up.
AtMostOneLeaves(q) == {q} \cup {RemoveAt(q, i) : i \in 1 .. Len(q)}

\* k with another queue.
Queued(k, q) == [k EXCEPT !.queue = q]

Take(k, m) ==
    /\ k.holder = None
    /\ \E t \in Tasks : m = [holder |-> t, depth |-> 1, queue |-> k.queue]

TakeAgain(k, m) ==
    /\ k.holder # None
    /\ m = [k EXCEPT !.depth = @ + 1]

Wait(k, m) ==
    \E t \in Tasks :
        /\ k.holder \notin {None, t}
        /\ ~Contains(k.queue, t)
        /\ \E q \in AtMostOneLeaves(Append(k.queue, t)) : m = Queued(k, q)

GiveUp(k, m) ==
    \E q \in AtMostOneLeaves(k.queue) : m = Queued(k, q)

GiveBack(k, m) ==
    /\ k.depth > 1
    /\ m = [k EXCEPT !.depth = @ - 1]

\* The last release of a lock nobody waits for.
GiveAway(k, m) ==
    /\ k.depth = 1
    /\ k.queue = <<>>
    /\ m = Free

\* The last release gives the lock to the first waiter.
HandOver(k, m) ==
    /\ k.depth = 1
    /\ k.queue # <<>>
    /\ \E q \in AtMostOneLeaves(Tail(k.queue)) :
           m = [holder |-> Head(k.queue), depth |-> 1, queue |-> q]

Changes(k, m) ==
    \/ Take(k, m) \/ TakeAgain(k, m) \/ Wait(k, m) \/ GiveUp(k, m)
    \/ GiveBack(k, m) \/ GiveAway(k, m) \/ HandOver(k, m)

Next ==
    /\ DOMAIN lock' = Locks
    /\ \A l \in Locks : Changes(lock[l], lock'[l])

Spec == Init /\ [][Next]_lock

=============================================================================
