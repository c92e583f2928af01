--------------------------- MODULE MCBenchmarkRun ---------------------------
(* Instance of the benchmark script for TLC: see the .cfg file.            *)
EXTENDS BenchmarkRun
=============================================================================
