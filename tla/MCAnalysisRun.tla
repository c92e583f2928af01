---------------------------- MODULE MCAnalysisRun ----------------------------
(* Instance of the analysis pipeline for TLC: see the .cfg.                *)
EXTENDS AnalysisRun
=============================================================================
