-------------------------- MODULE MCCoreLifecycle --------------------------
(* Instances of CoreLifecycle for TLC. *)
EXTENDS CoreLifecycle

MCInts == {-1, 0, 1, 2}
MCDefaults == [s \in Names |-> CASE s = "workers" -> 1 [] s = "log_async" -> 0 [] OTHER -> 2]
=============================================================================
