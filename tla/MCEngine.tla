------------------------------ MODULE MCEngine ------------------------------
(* Instances of Engine for TLC. *)
EXTENDS Engine

CONSTANTS w1, w2, q1, s1, s2

MCWorkers == {w1, w2}
MCByQueue1 == {q1}
MCByWorker1 == {s1}
MCByWorker2 == {s1, s2}
=============================================================================
