------------------------------ MODULE MCOpcache ------------------------------
(* Instances of Opcache.                                                   *)
EXTENDS Opcache, TLC

(* The processes may change places; only for runs without liveness.        *)
Alike == Permutations(Process)
=============================================================================
