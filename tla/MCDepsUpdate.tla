---------------------------- MODULE MCDepsUpdate ----------------------------
(* Instances of DepsUpdate.                                                *)
EXTENDS DepsUpdate
CONSTANTS p1, p2, p3, k1, k2

OneTag == [p \in Process |-> "deps"]

Check == [cmd |-> "check", force |-> FALSE, backup |-> TRUE]
Update(force, backs) == [cmd |-> "update", force |-> force, backup |-> backs]

Updates == {Update(FALSE, TRUE), Update(FALSE, FALSE)}
Ordinary == Updates \cup {Check}
Mixed == {Update(FALSE, TRUE), Update(TRUE, FALSE)}
=============================================================================
