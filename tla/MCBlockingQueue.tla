-------------------------- MODULE MCBlockingQueue --------------------------
(* Instances of BlockingQueue for TLC. *)
EXTENDS BlockingQueue

CONSTANTS c1, c2, c3, p1, p2, a, b, nothing

MCPoppers == {c1, c2, c3}
MCPushers == {p1, p2}
MCItems == {a, b}
=============================================================================
