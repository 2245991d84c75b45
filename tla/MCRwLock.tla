------------------------------ MODULE MCRwLock ------------------------------
(***************************************************************************)
(* Small instances of RwLock.                                              *)
(***************************************************************************)
EXTENDS RwLock

RwLockKinds == [o \in Objects |-> "rwlock"]

\* No action tells one task from another but by its state.
Symmetry == Permutations(Tasks)

=============================================================================
