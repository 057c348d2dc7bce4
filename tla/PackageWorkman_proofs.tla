------------------------ MODULE PackageWorkman_proofs ------------------------
(* Proofs about PackageWorkman, for any list of packages.                  *)
EXTENDS PackageWorkman, TLAPS

(* Positions in the list are numbers.                                      *)
LEMMA Positions ==
    /\ DOMAIN Packages \subseteq Nat
    /\ \A i \in DOMAIN Packages : Packages[i] \in Package
BY PackageAssumption DEF Package

LEMMA PackageInit == Init => PackageInv
<1> SUFFICES ASSUME Init PROVE PackageInv
  OBVIOUS
<1>1. force \in BOOLEAN /\ healthy \in BOOLEAN
  BY DEF Init
<1>2. TypeOK
  BY <1>1 DEF Init, TypeOK, Content, Phases, MaxRetry
<1> QED
  BY <1>2 DEF Init, PackageInv, PhaseInv, PassedInv, SuccessInstalls

(* The two switches stay switches.                                         *)
LEMMA StepSwitches ==
    ASSUME TypeOK, [Next]_vars
    PROVE  force' \in BOOLEAN /\ healthy' \in BOOLEAN
BY DEF TypeOK, Next, Step, vars, Begin, Finish, LookIntoCache, Open, Receive, Install, Copy,
       Unzip, Extract, Clear, Remove, Rename, DropCache, Kill, Heal, Goto, Fail, NextPackage

(* Every step keeps the types.                                             *)
LEMMA StepTypes ==
    ASSUME TypeOK, [Next]_vars
    PROVE  TypeOK'
<1> USE Positions DEF TypeOK, Content, Phases, MaxRetry, Current, Goto, Fail, NextPackage
<1>0. force' \in BOOLEAN /\ healthy' \in BOOLEAN
  BY StepSwitches
<1>1. CASE \E f \in BOOLEAN : Begin(f)
  BY <1>0, <1>1 DEF Begin
<1>2. CASE Finish
  BY <1>0, <1>2 DEF Finish
<1>3. CASE LookIntoCache
  BY <1>0, <1>3 DEF LookIntoCache
<1>4. CASE Open
  BY <1>0, <1>4 DEF Open
<1>5. CASE Receive
  BY <1>0, <1>5 DEF Receive
<1>6. CASE Install
  BY <1>0, <1>6 DEF Install
<1>7. CASE Copy
  BY <1>0, <1>7 DEF Copy
<1>8. CASE Unzip \/ Extract \/ Clear \/ Remove
  BY <1>0, <1>8 DEF Unzip, Extract, Clear, Remove
<1>9. CASE Rename \/ DropCache
  BY <1>0, <1>9 DEF Rename, DropCache
<1>10. CASE Kill \/ Heal \/ UNCHANGED vars
  BY <1>0, <1>10 DEF Kill, Heal, vars
<1> QED
  BY <1>1, <1>2, <1>3, <1>4, <1>5, <1>6, <1>7, <1>8, <1>9, <1>10 DEF Next, Step
(* Every step takes the running command into a phase of which it is true.  *)
LEMMA StepPhases ==
    ASSUME TypeOK, PhaseInv, [Next]_vars
    PROVE  PhaseInv'
<1> USE Positions DEF TypeOK, PhaseInv, Content, Current, Goto, Fail, NextPackage
<1>1. CASE \E f \in BOOLEAN : Begin(f)
  BY <1>1 DEF Begin
<1>2. CASE Finish
  BY <1>2 DEF Finish
<1>3. CASE LookIntoCache
  BY <1>3 DEF LookIntoCache
<1>4. CASE Open
  BY <1>4 DEF Open
<1>5. CASE Receive
  BY <1>5 DEF Receive
<1>6. CASE Install
  BY <1>6 DEF Install
<1>7. CASE Copy
  BY <1>7 DEF Copy
<1>8. CASE Unzip
  <2>1. cache[Current] \in {"broken", "whole"} /\ healthy' = healthy
    BY <1>8 DEF Unzip
  <2> QED
    BY <1>8, <2>1 DEF Unzip
<1>9. CASE Extract
  BY <1>9 DEF Extract
<1>10. CASE Clear
  BY <1>10 DEF Clear
<1>11. CASE Remove
  <2>1. pc' = "drop" => ~healthy'
    BY <1>11 DEF Remove
  <2> QED
    BY <1>11, <2>1 DEF Remove
<1>12. CASE Rename \/ DropCache
  BY <1>12 DEF Rename, DropCache
<1>13. CASE Kill \/ Heal \/ UNCHANGED vars
  BY <1>13 DEF Kill, Heal, vars
<1> QED
  BY <1>1, <1>2, <1>3, <1>4, <1>5, <1>6, <1>7, <1>8, <1>9, <1>10, <1>11, <1>12, <1>13
     DEF Next, Step

(* A step changes the files of no package but the current one, and that is *)
(* none of those passed, since a package is listed once.                   *)
LEMMA StepPassed ==
    ASSUME TypeOK, PhaseInv, PassedInv, [Next]_vars
    PROVE  PassedInv'
<1> SUFFICES ASSUME pc' # "idle", NEW i \in DOMAIN Packages, i < idx'
             PROVE  /\ target'[Packages[i]] # "none"
                    /\ force' => target'[Packages[i]] = "whole" /\ cache'[Packages[i]] = "whole"
  BY DEF PassedInv
<1> USE Positions, PackageAssumption DEF TypeOK, Content, Current, Goto, Fail, NextPackage
<1>1. CASE \E f \in BOOLEAN : Begin(f)
  BY <1>1 DEF Begin
<1>2. CASE LookIntoCache
  BY <1>2 DEF LookIntoCache, PassedInv
<1>3. CASE Open \/ Receive
  <2>1. Packages[i] # Current
    BY <1>3 DEF Open, Receive
  <2> QED
    BY <1>3, <2>1 DEF Open, Receive, PassedInv
<1>4. CASE Install \/ Unzip \/ Extract \/ Clear \/ Remove
  <2>1. i < idx => Packages[i] # Current
    BY <1>4 DEF Install, Unzip, Extract, Clear, Remove
  <2> QED
    BY <1>4, <2>1 DEF Install, Unzip, Extract, Clear, Remove, PassedInv, PhaseInv
<1>5. CASE Copy
  <2>1. i < idx => Packages[i] # Current
    BY <1>5 DEF Copy
  <2> QED
    BY <1>5, <2>1 DEF Copy, PassedInv, PhaseInv
<1>6. CASE Rename
  <2>1. i < idx => Packages[i] # Current
    BY <1>6 DEF Rename
  <2> QED
    BY <1>6, <2>1 DEF Rename, PassedInv, PhaseInv
<1>7. CASE Finish \/ DropCache \/ Kill \/ Heal \/ UNCHANGED vars
  BY <1>7 DEF Finish, DropCache, Kill, Heal, vars, PassedInv
<1> QED
  BY <1>1, <1>2, <1>3, <1>4, <1>5, <1>6, <1>7 DEF Next, Step

(* At the end of the list all packages are passed.                         *)
LEMMA StepSuccess ==
    ASSUME TypeOK, PhaseInv, PassedInv, SuccessInstalls, [Next]_vars
    PROVE  SuccessInstalls'
<1> SUFFICES ASSUME report' = "done" PROVE SuccessInstalls'
  BY DEF SuccessInstalls
<1>1. CASE Finish
  <2>1. \A i \in DOMAIN Packages : i < idx
    BY <1>1, PackageAssumption DEF Finish, TypeOK
  <2> QED
    BY <1>1, <2>1 DEF Finish, PassedInv, SuccessInstalls, Package
<1>2. CASE Heal \/ UNCHANGED vars
  BY <1>2 DEF Heal, vars, SuccessInstalls
<1>3. CASE (\E f \in BOOLEAN : Begin(f)) \/ Kill
  BY <1>3 DEF Begin, Kill
<1>4. CASE Step /\ ~Finish
  BY <1>4 DEF Step, PhaseInv, LookIntoCache, Open, Receive, Install, Copy, Unzip, Extract, Clear,
     Remove, Rename, DropCache, Goto, Fail, NextPackage
<1> QED
  BY <1>1, <1>2, <1>3, <1>4 DEF Next

LEMMA StepInv == ASSUME PackageInv, [Next]_vars PROVE PackageInv'
BY StepTypes, StepPhases, StepPassed, StepSuccess DEF PackageInv

(* The invariant holds, whatever fails or is killed.                       *)
THEOREM PackageInvHolds == Spec => []PackageInv
BY PackageInit, StepInv, PTL DEF Spec

(* An --init that ends well has everything at its place (the model of      *)
(* PackageWorkman.php:20-55).                                              *)
THEOREM SuccessIsInstalled == Spec => []SuccessInstalls
<1>1. PackageInv => SuccessInstalls
  BY DEF PackageInv
<1> QED
  BY <1>1, PackageInvHolds, PTL

(* Without --force only Rename touches the target of an archive.           *)
THEOREM UnforcedIsHarmless == Spec => UnforcedNeverBreaks
<1> DEFINE Harmless == ~force => \A k \in Zips : target[k] # "broken" => target'[k] # "broken"
<1>1. PackageInv /\ [Next]_vars => Harmless
  <2> SUFFICES ASSUME PackageInv, [Next]_vars, ~force, NEW k \in Zips, target[k] # "broken"
               PROVE  target'[k] # "broken"
    OBVIOUS
  <2> USE DEF PackageInv, TypeOK, PhaseInv
  <2>0. k \in Package
    BY PackageAssumption
  <2>1. CASE Copy
    BY <2>0, <2>1 DEF Copy, Goto, Fail, NextPackage, Content
  <2>2. CASE Clear
    BY <2>0, <2>2 DEF Clear, Goto
  <2>3. CASE Remove
    BY <2>3 DEF Remove
  <2>4. CASE Rename
    BY <2>0, <2>4 DEF Rename, Goto, NextPackage
  <2>5. CASE UNCHANGED target
    BY <2>5
  <2> QED
    BY <2>1, <2>2, <2>3, <2>4, <2>5 DEF Next, Step, vars, Begin, Finish, LookIntoCache, Open,
       Receive, Install, Unzip, Extract, DropCache, Kill, Heal
<1> QED
  BY <1>1, PackageInvHolds, PTL DEF Spec, UnforcedNeverBreaks

(* Of the steps that end a command with an exception, only DropCache is    *)
(* left once nothing goes wrong.                                           *)
THEOREM FailureDropsAnArchive == Spec => FailureIsProgress
<1> DEFINE Progress == healthy /\ report' = "failed" /\ report # "failed"
                         => BrokenZips' \subseteq BrokenZips /\ BrokenZips' # BrokenZips
<1>1. PackageInv /\ [Next]_vars => Progress
  <2> SUFFICES ASSUME PackageInv, [Next]_vars, healthy, report' = "failed", report # "failed"
               PROVE  BrokenZips' \subseteq BrokenZips /\ BrokenZips' # BrokenZips
    OBVIOUS
  <2>1. DropCache
    BY DEF Next, Step, vars, Begin, Finish, LookIntoCache, Open, Receive, Install, Copy, Unzip,
       Extract, Clear, Remove, Rename, Kill, Heal, Goto, Fail, NextPackage
  <2>2. Current \in BrokenZips /\ Current \in Package
    BY <2>1, Positions DEF DropCache, BrokenZips, PackageInv, TypeOK, PhaseInv, Current
  <2>3. cache' = [cache EXCEPT ![Current] = "none"] /\ cache \in [Package -> Content]
    BY <2>1 DEF DropCache, PackageInv, TypeOK
  <2>4. \A k \in Package : cache'[k] = "broken" => cache[k] = "broken"
    BY <2>3
  <2>5. cache'[Current] = "none"
    BY <2>2, <2>3
  <2> QED
    BY <2>2, <2>4, <2>5, PackageAssumption DEF BrokenZips
<1> QED
  BY <1>1, PackageInvHolds, PTL DEF Spec, FailureIsProgress
=============================================================================
