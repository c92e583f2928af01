--------------------------- MODULE MCDotnetService ---------------------------
(* Instance of the .NET service for TLC: see the .cfg file.                *)
EXTENDS DotnetService, TLC

Symmetry == Permutations(Orders)
=============================================================================
