---------------------------- MODULE MCEventQueue ----------------------------
(* Instances of EventQueue for TLC. *)
EXTENDS EventQueue

CONSTANTS x1, x2, e1, e2, e3, e4

MCExecutor == {x1}
MCExecutors2 == {x1, x2}
MCEvents4 == {e1, e2, e3, e4}

\* e1 queues e2 while it runs; nothing else queues anything.
MCChild == [e \in Events |-> IF e = e1 THEN e2 ELSE NoEvent]
MCAwaited == {e2}
=============================================================================
