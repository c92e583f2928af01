---------------------------- MODULE MCGoService ----------------------------
(* GoService on small instances.  Orders and workers are interchangeable.   *)
EXTENDS GoService, TLC

Symmetry == Permutations(Orders) \cup Permutations(Workers)
=============================================================================
