--------------------------- MODULE MCDatasetCache ---------------------------
(* Instances of DatasetCache for TLC. *)
EXTENDS DatasetCache

CONSTANTS l1, l2, l3, s1, s2

(* Two loops at one source and one, if there is a third, at another. *)
Sources == [l \in Loop |-> IF l = l3 THEN s2 ELSE s1]
Sizes == [s \in Source |-> IF s = s1 THEN 3 ELSE 1]
Limits == [l \in Loop |-> IF l = l1 THEN 4 ELSE 3]
=============================================================================
