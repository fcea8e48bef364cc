----------------------------- MODULE MCRunStore -----------------------------
(* Instances of RunStore for TLC. *)
EXTENDS RunStore, TLC

(* Ids and clients are interchangeable: no definition tells one from another. *)
ClientsAndSteps == Permutations(Client) \cup Permutations(Step)
=============================================================================
