---------------------------- MODULE MCDispatcher ----------------------------
(* Dispatcher on a small instance.  Jobs, workers and stoppers are          *)
(* interchangeable, but the run checks liveness as well, for which TLC's    *)
(* symmetry reduction is not sound.                                         *)
EXTENDS Dispatcher
=============================================================================
