---------------------------- MODULE MCGoConsumer ----------------------------
(* GoConsumer on small instances.  Partitions are interchangeable; the run  *)
(* that checks liveness has one partition and no symmetry.                  *)
EXTENDS GoConsumer, TLC

Symmetry == Permutations(Partitions)
=============================================================================
