------------------------------ MODULE MCZendGc ------------------------------
(* Instances of ZendGc.                                                    *)
EXTENDS ZendGc, TLC

CONSTANTS n1, n2, n3

(* Objects of one class are alike.                                         *)
Alike == Permutations(Destructor) \cup Permutations(Node \ Destructor)
=============================================================================
