-------------------------- MODULE MCEvaluationRun ---------------------------
(* Small instances of EvaluationRun for TLC. *)
EXTENDS EvaluationRun

CONSTANTS j1, j2, c1, c2
=============================================================================
