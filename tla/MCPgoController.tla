-------------------------- MODULE MCPgoController --------------------------
(* Instances of PgoController.                                             *)
EXTENDS PgoController, TLC
CONSTANTS i1, i2, t1, t2

Roles == [p \in Process |-> IF p \in {i1, i2} THEN "pgo_init" ELSE "pgo_train"]
OneCase == <<"c1">>
TwoCases == <<"c1", "c2">>

Line(cmd, force, want) == [cmd |-> cmd, force |-> force, want |-> want]
Everything == {Line("train", FALSE, {"c1"}), Line("init", FALSE, {}),
               Line("up", FALSE, {}), Line("down", TRUE, {}),
               Line("down", FALSE, {}), Line("check_init", FALSE, {})}
InitAndTrain == {Line("init", FALSE, {}), Line("train", FALSE, Case)}
(* Bound: the lock files are there already.                                *)
MCInit == Init /\ files = TagSet
MCSpec == MCInit /\ [][Next]_vars
(* Bound: what runs beside each other.                                     *)
SameLock == {{"init"}, {"train"}, {"init", "check_init"}}
AnyTwo == {{"init"}, {"train"}, {"init", "train"}}
Twins == Permutations({i1, i2}) \cup Permutations({t1, t2})
=============================================================================
