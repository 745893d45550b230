-------------------------- MODULE MCFiberScheduler --------------------------
(* Small instances of FiberScheduler for TLC. *)
EXTENDS FiberScheduler

CONSTANTS f1, f2, f3, f4, emitters, execution

\* Three emitters and one execution fiber: an interactive session has one lane
\* per reactor, and the fiber its commands run on.
GroupOfMC == [f \in Fiber |-> IF f = f3 THEN execution ELSE emitters]

=============================================================================
