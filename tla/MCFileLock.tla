----------------------------- MODULE MCFileLock -----------------------------
(* Instances of FileLock: three processes on one tag and a fourth one on   *)
(* another, so that locks that must not exclude each other are there too.  *)
EXTENDS FileLock, TLC
CONSTANTS p1, p2, p3, p4

FourProcesses == {p1, p2, p3, p4}
TwoTags == (p1 :> "deps") @@ (p2 :> "deps") @@ (p3 :> "deps") @@ (p4 :> "pgo")
=============================================================================
