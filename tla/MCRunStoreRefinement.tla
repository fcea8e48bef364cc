------------------------ MODULE MCRunStoreRefinement ------------------------
(* Instances of RunStoreRefinement for TLC. *)
EXTENDS RunStoreRefinement, TLC

StepPermutations == Permutations(Step)
=============================================================================
