---------------------------- MODULE MCCustomRun -----------------------------
(* Instances of CustomRun for TLC. *)
EXTENDS CustomRun

CONSTANT w1

OneHome == [p \in Proc |-> w1]
=============================================================================
