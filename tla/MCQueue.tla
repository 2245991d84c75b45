------------------------------ MODULE MCQueue ------------------------------
(***************************************************************************)
(* Small instances of Queue.                                               *)
(***************************************************************************)
EXTENDS Queue

QueueKinds == [o \in Objects |-> "queue"]

\* No action tells one task from another but by its state.
Symmetry == Permutations(Tasks)

\* What a later step can depend on.  Nothing reads the delay of a task that
\* does not wait, the free places of a ring or the message of a task that is
\* not blocked before it writes them, so states that differ in nothing else
\* are one.
Relevant ==
    <<[osg EXCEPT !.delay =
          [t \in Tasks |-> IF osg.status[t] = "WAIT" THEN @[t] ELSE 0]],
      [o \in Objects |-> [queue[o] EXCEPT !.messages = Contents(queue[o])]],
      [t \in Tasks |-> IF osg.waits[t] = {} THEN None ELSE message[t]],
      calling>>

=============================================================================
