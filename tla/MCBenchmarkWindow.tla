-------------------------- MODULE MCBenchmarkWindow --------------------------
(* The benchmark window for TLC: two runs, one earlier result and a new one. *)
EXTENDS BenchmarkWindow
=============================================================================
