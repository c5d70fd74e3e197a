------------------------ MODULE MCRunnerSupervisor ------------------------
(* A supervised runner for TLC: one tick is about ten seconds. *)
EXTENDS RunnerSupervisor

AllFaults == {"crash", "freeze", "export"}
=============================================================================
