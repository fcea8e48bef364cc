----------------------------- MODULE MCEvalRun ------------------------------
(* Instances of EvalRun for TLC. *)
EXTENDS EvalRun, TLC

(* Attempts are interchangeable, and so are configurations. *)
Attempts == Permutations(Proc) \cup Permutations(Hash)
=============================================================================
