----------------------------- MODULE MCContext -----------------------------
(***************************************************************************)
(* A small instance of Context: stacks on which a basic context and one    *)
(* word of the task fit, but not an extended one and a word.  The task     *)
(* with the smaller stack cannot be switched out with an extended one.     *)
(***************************************************************************)
EXTENDS Context

CONSTANTS t1, t2

Stacks == [t \in Tasks |-> IF t = Idle THEN 23 ELSE IF t = t1 THEN 13 ELSE 12]
Locals == [t \in Tasks |-> IF t = t1 THEN 1 ELSE 0]

\* A second signal, which is refused, on one of them.
SomeSignals == [a \in Archs |-> IF a = "m0" THEN {0, 1, 2} ELSE {0, 1}]

=============================================================================
