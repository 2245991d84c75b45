---------------------------- MODULE MCScheduler ----------------------------
(***************************************************************************)
(* Small instances of Scheduler: no synchronisation objects, so the kernel *)
(* constants that describe them are empty.                                 *)
(***************************************************************************)
EXTENDS Scheduler

NoKinds == [o \in {} |-> "mutex"]

=============================================================================
