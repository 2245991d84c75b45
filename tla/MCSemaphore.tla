---------------------------- MODULE MCSemaphore ----------------------------
(***************************************************************************)
(* Small instances of Semaphore.                                           *)
(***************************************************************************)
EXTENDS Semaphore

SemaphoreKinds == [o \in Objects |-> "semaphore"]

\* No action tells one task from another but by its state.
Symmetry == Permutations(Tasks)

=============================================================================
