------------------------------ MODULE MCMutex ------------------------------
(***************************************************************************)
(* Small instances of Mutex.                                               *)
(***************************************************************************)
EXTENDS Mutex

MutexKinds == [o \in Objects |-> "mutex"]

\* No action tells one task from another but by its state.
Symmetry == Permutations(Tasks)

=============================================================================
