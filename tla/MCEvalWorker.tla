---------------------------- MODULE MCEvalWorker ----------------------------
(* Instances of EvalWorker for TLC. *)
EXTENDS EvalWorker
=============================================================================
