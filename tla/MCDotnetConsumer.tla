-------------------------- MODULE MCDotnetConsumer --------------------------
(* DotnetConsumer on small instances.  Partitions are interchangeable; the  *)
(* run that checks liveness has one partition and no symmetry.              *)
EXTENDS DotnetConsumer, TLC

Symmetry == Permutations(Partitions)
=============================================================================
