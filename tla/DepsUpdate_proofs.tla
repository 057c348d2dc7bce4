-------------------------- MODULE DepsUpdate_proofs --------------------------
(***************************************************************************)
(* Proofs about DepsUpdate, for any processes, packages and bounds.        *)
(***************************************************************************)
EXTENDS DepsUpdate, FileLock_proofs

-----------------------------------------------------------------------------
(* The lock: every step leaves it alone or is one of its operations.       *)
LEMMA EndKeepsLock ==
    ASSUME LockInv, NEW p \in Process, NEW o, End(p, o)
    PROVE  LockInv'
<1>1. CASE UNCHANGED lockVars
  BY <1>1 DEF LockInv, LockTypeOK, Locked, lockVars
<1>2. CASE Destruct(p)
  BY <1>2, DestructKeepsInv
<1> QED
  BY <1>1, <1>2 DEF End

LEMMA NextKeepsLock ==
    ASSUME LockInv, [Next]_vars
    PROVE  LockInv'
<1>1. CASE UNCHANGED lockVars
  BY <1>1 DEF LockInv, LockTypeOK, Locked, lockVars
<1>2. ASSUME NEW p \in Process, NEW o, End(p, o) PROVE LockInv'
  BY <1>2, EndKeepsLock
<1>3. ASSUME NEW p \in Process, TakeLock(p) PROVE LockInv'
  BY <1>3, NewKeepsInv DEF TakeLock, Modes
<1>4. ASSUME NEW p \in Process, WaitForOther(p) PROVE LockInv'
  BY <1>4, RequestKeepsInv DEF WaitForOther, Modes
<1>5. ASSUME NEW p \in Process, OSGrant(p) PROVE LockInv'
  BY <1>5, GrantKeepsInv DEF OSGrant
<1>6. ASSUME NEW p \in Process, Crash(p) PROVE LockInv'
  BY <1>6, KilledKeepsInv DEF Crash
<1>7. ASSUME NEW p \in Process,
             Start(p) \/ Compare(p) \/ WaitOver(p) \/ GetData(p) \/ Build(p) \/ Clear(p)
             \/ Fail(p)
      PROVE  LockInv'
  BY <1>1, <1>2, <1>7 DEF Start, Compare, WaitOver, GetData, Build, Clear, Fail
<1>8. ASSUME NEW p \in Process,
             BackupFile(p) \/ BackupDone(p) \/ RemoveFile(p) \/ RemoveDir(p)
             \/ MakeDir(p) \/ PlaceFile(p) \/ FetchToSave(p) \/ Truncate(p) \/ Write(p)
      PROVE  LockInv'
  BY <1>1, <1>2, <1>8 DEF BackupFile, BackupDone, RemoveFile, RemoveDir, MakeDir,
                          PlaceFile, FetchToSave, Truncate, Write
<1>9. CASE Publish \/ RemoveDeps \/ UNCHANGED vars
  BY <1>1, <1>9 DEF Publish, RemoveDeps, vars
<1> QED
  BY <1>3, <1>4, <1>5, <1>6, <1>7, <1>8, <1>9 DEF Next, Step

-----------------------------------------------------------------------------
(* Types.                                                                  *)
USE DEF dir, locals, depsVars, vars

LEMMA ValueTypes ==
    /\ NoFiles \in Tree
    /\ 0 \in Fetched
    /\ NoCommand \in Commands
    /\ Phases = {"idle", "compare", "lock", "wait", "waited", "getData", "build", "clear",
                 "backup", "remove", "mkdir", "place", "truncate", "write"}
    /\ \A tree \in Tree : FilesOf(tree) \in SUBSET Package
    /\ \A tree \in Tree, k \in Package, f \in Fetched : [tree EXCEPT ![k] = f] \in Tree
    /\ \A tree \in Tree, k \in Package : tree[k] \in Fetched
<1> USE DepsAssumption
<1>1. NoFiles \in Tree
  BY DEF NoFiles, Tree
<1>2. 0 \in Fetched
  BY DEF Fetched
<1>3. NoCommand \in Commands
  BY DEF NoCommand
<1>4. Phases = {"idle", "compare", "lock", "wait", "waited", "getData", "build", "clear",
                 "backup", "remove", "mkdir", "place", "truncate", "write"}
  BY DEF Phases, UpdatePhases
<1>5. \A tree \in Tree : FilesOf(tree) \in SUBSET Package
  BY DEF FilesOf
<1>6. \A tree \in Tree, k \in Package, f \in Fetched : [tree EXCEPT ![k] = f] \in Tree
  BY DEF Tree, Fetched
<1>7. \A tree \in Tree, k \in Package : tree[k] \in Fetched
  BY DEF Tree, Fetched
<1> QED
  BY <1>1, <1>2, <1>3, <1>4, <1>5, <1>6, <1>7

LEMMA FetchType == ASSUME WorldTypeOK PROVE \A s \in Fetch : s \in Fetched
<1>1. server \in 0 .. MaxSeries /\ 0 \in 0 .. MaxSeries
  BY DepsAssumption DEF WorldTypeOK
<1> QED
  BY <1>1 DEF Fetch, Fetched

LEMMA InitType == Init => TypeOK
<1> SUFFICES ASSUME Init PROVE TypeOK
  OBVIOUS
<1>1. LockTypeOK
  BY LockInitInv DEF Init, LockInv
<1>2. Full(1) \in Tree /\ 1 \in 1 .. MaxSeries /\ 1 \in Fetched
  BY DepsAssumption DEF Full, Tree, Fetched
<1>3. WorldTypeOK
  <2>1. minute \in Nat /\ backup \in [0 .. minute -> Tree]
    BY ValueTypes DEF Init
  <2>2. series \in [TagSet -> Fetched \cup {NoSeries}]
    BY <1>2 DEF Init
  <2> QED
    BY <1>2, <2>1, <2>2, ValueTypes DEF Init, WorldTypeOK
<1>4. LocalTypeOK
  <2>0. minute = 0 /\ stamp = [p \in Process |-> 0]
    BY DEF Init
  <2>1. stamp \in [Process -> 0 .. minute]
    <3>1. 0 \in 0 .. minute
      BY <2>0
    <3> QED
      BY <2>0, <3>1
  <2>2. todo \in [Process -> SUBSET Package]
    BY DEF Init
  <2>3. pc \in [Process -> Phases]
    BY ValueTypes DEF Init
  <2>4. report \in [Process -> Outcomes]
    BY DEF Init, Outcomes
  <2>5. seen \in [Process -> Fetched] /\ tmp \in [Process -> Tree] /\ opt \in [Process -> Commands]
    BY ValueTypes DEF Init
  <2> QED
    BY <2>1, <2>2, <2>3, <2>4, <2>5 DEF LocalTypeOK
<1> QED
  BY <1>1, <1>3, <1>4 DEF TypeOK

LEMMA LeaveType ==
    ASSUME LocalTypeOK, minute \in Nat, UNCHANGED minute,
           NEW p \in Process, NEW o \in Outcomes, Leave(p, o)
    PROVE  LocalTypeOK'
<1>1. 0 \in 0 .. minute
  OBVIOUS
<1> QED
  BY <1>1, ValueTypes DEF LocalTypeOK, Leave

LEMMA GotoType ==
    ASSUME LocalTypeOK, NEW p \in Process, NEW phase \in Phases, Goto(p, phase)
    PROVE  pc' \in [Process -> Phases] /\ report' \in [Process -> Outcomes]
BY DEF LocalTypeOK, Goto

(* Every step keeps the types of the processes' variables.                 *)
LEMMA NextLocalType ==
    ASSUME TypeOK, [Next]_vars
    PROVE  LocalTypeOK'
<1>0. LocalTypeOK /\ WorldTypeOK /\ minute \in Nat /\ deps \in Tree
  BY DEF TypeOK, WorldTypeOK
<1>1. ASSUME NEW p \in Process, Start(p) PROVE LocalTypeOK'
  <2>1. opt' \in [Process -> Commands] /\ seen' \in [Process -> Fetched]
    BY <1>0, <1>1, FetchType DEF Start, LocalTypeOK
  <2>2. pc' \in [Process -> Phases] /\ report' \in [Process -> Outcomes]
    BY <1>0, <1>1, ValueTypes DEF Start, LocalTypeOK, Outcomes
  <2>3. UNCHANGED <<tmp, todo, stamp, minute>>
    BY <1>1 DEF Start
  <2> QED
    BY <1>0, <2>1, <2>2, <2>3 DEF LocalTypeOK
<1>2. ASSUME NEW p \in Process, NEW o \in Outcomes, Leave(p, o), UNCHANGED minute
      PROVE  LocalTypeOK'
  BY <1>0, <1>2, LeaveType
<1>3. ASSUME NEW p \in Process, NEW phase \in Phases, Goto(p, phase), UNCHANGED <<locals, minute>>
      PROVE  LocalTypeOK'
  BY <1>0, <1>3, GotoType DEF LocalTypeOK
<1>4. ASSUME NEW p \in Process, Compare(p) PROVE LocalTypeOK'
  BY <1>2, <1>3, <1>4, ValueTypes DEF Compare, End, Outcomes
<1>5. ASSUME NEW p \in Process, TakeLock(p) \/ WaitForOther(p) \/ Truncate(p)
      PROVE  LocalTypeOK'
  BY <1>3, <1>5, ValueTypes DEF TakeLock, WaitForOther, Truncate
<1>6. ASSUME NEW p \in Process, WaitOver(p) \/ Fail(p) \/ Write(p) \/ Crash(p)
      PROVE  LocalTypeOK'
  BY <1>2, <1>6 DEF WaitOver, Fail, Write, Crash, End, Outcomes
<1>7. ASSUME NEW p \in Process, GetData(p) PROVE LocalTypeOK'
  <2>1. PICK s \in Fetch :
          \/ End(p, "error")
          \/ seen' = [seen EXCEPT ![p] = s] /\ Goto(p, "build") /\ UNCHANGED <<opt, tmp, todo, stamp>>
    BY <1>7 DEF GetData
  <2>2. UNCHANGED minute
    BY <1>7 DEF GetData
  <2>3. CASE End(p, "error")
    BY <1>2, <2>2, <2>3 DEF End, Outcomes
  <2>4. CASE seen' = [seen EXCEPT ![p] = s] /\ Goto(p, "build") /\ UNCHANGED <<opt, tmp, todo, stamp>>
    BY <1>0, <2>2, <2>4, GotoType, FetchType, ValueTypes DEF LocalTypeOK
  <2> QED
    BY <2>1, <2>3, <2>4
<1>8. ASSUME NEW p \in Process, Build(p) PROVE LocalTypeOK'
  <2>1. PICK got : tmp' = [tmp EXCEPT ![p] = [k \in Package |-> IF k \in got THEN seen[p] ELSE 0]]
    BY <1>8 DEF Build
  <2>2. seen[p] \in 0 .. MaxSeries /\ 0 \in 0 .. MaxSeries
    BY <1>0, ValueTypes DEF LocalTypeOK, Fetched
  <2>3. [k \in Package |-> IF k \in got THEN seen[p] ELSE 0] \in Tree
    BY <2>2 DEF Tree
  <2>4. tmp' \in [Process -> Tree]
    BY <1>0, <2>1, <2>3 DEF LocalTypeOK
  <2> QED
    BY <1>0, <1>8, <2>4, GotoType, ValueTypes DEF Build, LocalTypeOK
<1>9. ASSUME NEW p \in Process, Clear(p) PROVE LocalTypeOK'
  <2>1. PICK m \in Nat : m >= minute /\ minute' = m /\ stamp' \in [Process -> 0 .. m]
    <3>1. CASE UNCHANGED <<stamp, minute>>
      BY <1>0, <3>1 DEF LocalTypeOK
    <3>2. ASSUME NEW m \in Minutes, stamp' = [stamp EXCEPT ![p] = m], minute' = m
          PROVE  m \in Nat /\ m >= minute /\ stamp' \in [Process -> 0 .. m]
      <4>1. m \in Nat /\ m >= minute
        BY <1>0, <3>2 DEF Minutes
      <4>2. \A i \in 0 .. minute : i \in 0 .. m
        BY <1>0, <4>1
      <4>3. m \in 0 .. m
        BY <4>1
      <4> QED
        BY <1>0, <3>2, <4>1, <4>2, <4>3 DEF LocalTypeOK
    <3> QED
      BY <1>0, <1>9, <3>1, <3>2 DEF Clear
  <2>2. PICK phase \in Phases : Goto(p, phase)
    BY <1>9, ValueTypes DEF Clear
  <2>3. todo' \in [Process -> SUBSET Package]
    BY <1>0, <1>9, ValueTypes DEF Clear, LocalTypeOK
  <2>4. UNCHANGED <<opt, seen, tmp>>
    BY <1>9 DEF Clear
  <2> QED
    BY <1>0, <2>1, <2>2, <2>3, <2>4, GotoType DEF LocalTypeOK
<1>10. ASSUME NEW p \in Process, BackupFile(p) \/ RemoveFile(p) PROVE LocalTypeOK'
  <2>1. UNCHANGED minute
    BY <1>10 DEF BackupFile, RemoveFile
  <2>2. CASE End(p, "error")
    BY <1>2, <2>1, <2>2 DEF End, Outcomes
  <2>3. ASSUME NEW k, todo' = [todo EXCEPT ![p] = @ \ {k}],
               UNCHANGED <<pc, report, opt, seen, tmp, stamp>>
        PROVE  LocalTypeOK'
    BY <1>0, <2>1, <2>3 DEF LocalTypeOK
  <2> QED
    BY <1>10, <2>2, <2>3 DEF BackupFile, RemoveFile
<1>11. ASSUME NEW p \in Process, BackupDone(p) \/ MakeDir(p) PROVE LocalTypeOK'
  <2>1. PICK tree \in Tree : todo' = [todo EXCEPT ![p] = FilesOf(tree)]
    BY <1>0, <1>11 DEF BackupDone, MakeDir, LocalTypeOK
  <2>2. PICK phase \in Phases : Goto(p, phase)
    BY <1>11, ValueTypes DEF BackupDone, MakeDir
  <2>3. UNCHANGED <<opt, seen, tmp, stamp, minute>>
    BY <1>11 DEF BackupDone, MakeDir
  <2> QED
    BY <1>0, <2>1, <2>2, <2>3, GotoType, ValueTypes DEF LocalTypeOK
<1>12. ASSUME NEW p \in Process, RemoveDir(p) PROVE LocalTypeOK'
  BY <1>2, <1>3, <1>12, ValueTypes DEF RemoveDir, End, Outcomes
<1>13. ASSUME NEW p \in Process, PlaceFile(p) PROVE LocalTypeOK'
  BY <1>0, <1>13 DEF PlaceFile, LocalTypeOK
<1>14. ASSUME NEW p \in Process, FetchToSave(p) PROVE LocalTypeOK'
  BY <1>0, <1>14, GotoType, FetchType, ValueTypes DEF FetchToSave, LocalTypeOK
<1>15. CASE UNCHANGED <<pc, locals, report, minute>>
  BY <1>0, <1>15 DEF LocalTypeOK
<1> QED
  BY <1>1, <1>4, <1>5, <1>6, <1>7, <1>8, <1>9, <1>10, <1>11, <1>12, <1>13, <1>14,
     <1>15 DEF Next, Step, OSGrant, Publish, RemoveDeps

(* And the types of what they share.                                       *)
LEMMA NextWorldType ==
    ASSUME TypeOK, [Next]_vars
    PROVE  WorldTypeOK'
<1>0. LocalTypeOK /\ WorldTypeOK
  BY DEF TypeOK
<1>1. CASE UNCHANGED <<server, dir, minute, series>>
  BY <1>0, <1>1 DEF WorldTypeOK
<1>2. ASSUME NEW p \in Process, Clear(p) PROVE WorldTypeOK'
  <2>1. CASE UNCHANGED <<minute, backup>>
    BY <1>0, <1>2, <2>1 DEF Clear, WorldTypeOK
  <2>2. ASSUME NEW m \in Minutes, minute' = m,
               backup' = [i \in 0 .. m |-> IF i <= minute THEN backup[i] ELSE NoFiles]
        PROVE  WorldTypeOK'
    <3>1. m \in Nat /\ minute \in Nat
      BY <1>0, <2>2 DEF Minutes, WorldTypeOK
    <3>2. \A i \in 0 .. m : i <= minute => backup[i] \in Tree
      BY <1>0, <3>1 DEF WorldTypeOK
    <3>3. backup' \in [0 .. m -> Tree]
      BY <2>2, <3>2, ValueTypes
    <3> QED
      BY <1>0, <1>2, <2>2, <3>1, <3>3 DEF Clear, WorldTypeOK
  <2> QED
    BY <1>2, <2>1, <2>2 DEF Clear
<1>3. ASSUME NEW p \in Process, BackupFile(p) PROVE WorldTypeOK'
  <2>1. PICK k \in todo[p] :
          \/ UNCHANGED dir
          \/ /\ backup' = [backup EXCEPT ![stamp[p]][k] = deps[k]]
             /\ deps' = [deps EXCEPT ![k] = 0]
             /\ UNCHANGED depsDir
    BY <1>3 DEF BackupFile
  <2>2. k \in Package /\ stamp[p] \in 0 .. minute
    BY <1>0 DEF LocalTypeOK
  <2>3. CASE UNCHANGED dir
    BY <1>1, <1>3, <2>3 DEF BackupFile
  <2>4. CASE /\ backup' = [backup EXCEPT ![stamp[p]][k] = deps[k]]
             /\ deps' = [deps EXCEPT ![k] = 0]
             /\ UNCHANGED depsDir
    <3>1. deps \in Tree /\ backup[stamp[p]] \in Tree
      BY <1>0, <2>2 DEF WorldTypeOK
    <3>2. deps' \in Tree /\ [backup[stamp[p]] EXCEPT ![k] = deps[k]] \in Tree
      BY <2>2, <2>4, <3>1, ValueTypes
    <3>3. backup' \in [0 .. minute -> Tree]
      BY <1>0, <2>2, <2>4, <3>2 DEF WorldTypeOK
    <3> QED
      BY <1>0, <1>3, <2>4, <3>2, <3>3 DEF BackupFile, WorldTypeOK
  <2> QED
    BY <2>1, <2>3, <2>4
<1>4. ASSUME NEW p \in Process, RemoveFile(p) \/ PlaceFile(p) PROVE WorldTypeOK'
  <2>1. PICK k \in todo[p] :
          \/ UNCHANGED deps
          \/ deps' = [deps EXCEPT ![k] = 0]
          \/ deps' = [deps EXCEPT ![k] = tmp[p][k]]
    BY <1>4 DEF RemoveFile, PlaceFile
  <2>2. k \in Package /\ tmp[p] \in Tree /\ deps \in Tree
    BY <1>0 DEF LocalTypeOK, WorldTypeOK
  <2>3. deps' \in Tree
    BY <2>1, <2>2, ValueTypes
  <2>4. depsDir' \in BOOLEAN /\ UNCHANGED <<server, backup, minute, series>>
    BY <1>0, <1>4 DEF RemoveFile, PlaceFile, WorldTypeOK
  <2> QED
    BY <1>0, <2>3, <2>4 DEF WorldTypeOK
<1>5. ASSUME NEW p \in Process, RemoveDir(p) \/ MakeDir(p) PROVE WorldTypeOK'
  <2>1. depsDir' \in BOOLEAN /\ UNCHANGED <<server, deps, backup, minute, series>>
    BY <1>0, <1>5 DEF RemoveDir, MakeDir, WorldTypeOK
  <2> QED
    BY <1>0, <2>1 DEF WorldTypeOK
<1>6. ASSUME NEW p \in Process, Truncate(p) \/ Write(p) PROVE WorldTypeOK'
  <2>1. PICK f \in Fetched : series' = [series EXCEPT ![Tag[p]] = f]
    BY <1>0, <1>6, ValueTypes DEF Truncate, Write, LocalTypeOK
  <2>2. UNCHANGED <<server, dir, minute>>
    BY <1>6 DEF Truncate, Write
  <2> QED
    BY <1>0, <2>1, <2>2 DEF WorldTypeOK
<1>7. CASE Publish
  <2>1. server' \in 1 .. MaxSeries
    BY <1>0, <1>7, DepsAssumption DEF Publish, WorldTypeOK
  <2> QED
    BY <1>0, <1>7, <2>1 DEF Publish, WorldTypeOK
<1>8. CASE RemoveDeps
  BY <1>0, <1>8, ValueTypes DEF RemoveDeps, WorldTypeOK
<1>9. ASSUME NEW p \in Process,
             \/ Start(p) \/ Compare(p) \/ TakeLock(p) \/ WaitForOther(p) \/ WaitOver(p)
             \/ OSGrant(p) \/ GetData(p) \/ Build(p) \/ BackupDone(p) \/ FetchToSave(p)
             \/ Fail(p) \/ Crash(p)
      PROVE  WorldTypeOK'
  BY <1>1, <1>9 DEF Start, Compare, TakeLock, WaitForOther, WaitOver, OSGrant, GetData,
                    Build, BackupDone, FetchToSave, Fail, Crash
<1>10. CASE UNCHANGED vars
  BY <1>1, <1>10
<1> QED
  BY <1>2, <1>3, <1>4, <1>5, <1>6, <1>7, <1>8, <1>9, <1>10 DEF Next, Step

LEMMA NextType ==
    ASSUME TypeOK, LockInv, [Next]_vars
    PROVE  TypeOK'
BY NextKeepsLock, NextLocalType, NextWorldType DEF TypeOK, LockInv

(* Type correctness, and that the lock keeps its invariant in use.         *)
THEOREM TypeCorrect == Spec => [](TypeOK /\ LockInv)
<1>1. Init => TypeOK /\ LockInv
  BY InitType, LockInitInv DEF Init
<1>2. TypeOK /\ LockInv /\ [Next]_vars => (TypeOK /\ LockInv)'
  BY NextType, NextKeepsLock
<1> QED
  BY <1>1, <1>2, PTL DEF Spec

-----------------------------------------------------------------------------
(* How the phases use the lock.  What LockUse says of one process:         *)
LockUseOf(p) ==
    /\ pc[p] \in {"idle", "compare", "lock"} => status[p] = "none"
    /\ pc[p] = "wait" => status[p] = "unlocked"
    /\ pc[p] = "waited" => status[p] \in {"waiting", "locked"}
    /\ Updating(p) => status[p] = IF opt[p].force THEN "none" ELSE "locked"
    /\ status[p] # "none" => mode[p] = "ex"
    /\ pc[p] = "compare" /\ opt[p].cmd = "update" => ~opt[p].force
    /\ pc[p] \in {"lock", "wait", "waited"} => ~opt[p].force

(* A step of p does not concern the others.                                *)
LEMMA LockUseOthers ==
    ASSUME TypeOK, LockUse, NEW p \in Process, NEW q \in Process \ {p},
           status'[q] = status[q], mode'[q] = mode[q], pc'[q] = pc[q], opt'[q] = opt[q]
    PROVE  LockUseOf(q)'
BY DEF LockUse, LockUseOf, Updating

(* A process that has ended uses no lock.                                  *)
LEMMA LeaveLockUse ==
    ASSUME TypeOK, LockUse, NEW p \in Process, NEW o, Leave(p, o),
           status'[p] = "none"
    PROVE  LockUseOf(p)'
<1>1. pc'[p] = "idle"
  BY DEF Leave, TypeOK, LocalTypeOK
<1> QED
  BY <1>1 DEF LockUseOf, Updating, UpdatePhases

(* Steps from one update phase to another.                                 *)
LEMMA PhaseLockUse ==
    ASSUME TypeOK, LockUse, NEW p \in Process,
           Updating(p), Updating(p)', opt'[p] = opt[p],
           status'[p] = status[p], mode'[p] = mode[p]
    PROVE  LockUseOf(p)'
BY DEF LockUse, LockUseOf, Updating, UpdatePhases

LEMMA NextLockUse ==
    ASSUME TypeOK, LockInv, LockUse, [Next]_vars
    PROVE  LockUse'
<1>0. /\ status \in [Process -> {"none", "unlocked", "waiting", "locked"}]
      /\ mode \in [Process -> Modes]
      /\ pc \in [Process -> Phases] /\ opt \in [Process -> Commands]
  BY DEF TypeOK, LockTypeOK, LocalTypeOK
<1>1. SUFFICES ASSUME NEW p \in Process, NEW q \in Process,
                      Start(p) \/ Step(p) \/ OSGrant(p) \/ Fail(p) \/ Crash(p)
               PROVE  LockUseOf(q)'
  <2>1. CASE UNCHANGED <<pc, opt, status, mode>>
    BY <2>1 DEF LockUse, Updating
  <2>2. CASE Publish \/ RemoveDeps \/ UNCHANGED vars
    BY <2>1, <2>2 DEF Publish, RemoveDeps, lockVars
  <2>3. LockUse' <=> \A q \in Process : LockUseOf(q)'
    BY DEF LockUse, LockUseOf
  <2> QED
    BY <1>1, <2>2, <2>3 DEF Next
<1>2. CASE q # p
  <2>1. pc'[q] = pc[q] /\ opt'[q] = opt[q]
    BY <1>0, <1>1, <1>2 DEF Start, Step, OSGrant, Fail, Crash, Compare, TakeLock, WaitForOther,
         WaitOver, GetData, Build, Clear, BackupFile, BackupDone, RemoveFile, RemoveDir,
         MakeDir, PlaceFile, FetchToSave, Truncate, Write, Goto, End, Leave
  <2>2. status'[q] = status[q] /\ mode'[q] = mode[q]
    BY <1>0, <1>1, <1>2 DEF Start, Step, OSGrant, Fail, Crash, Compare, TakeLock, WaitForOther,
         WaitOver, GetData, Build, Clear, BackupFile, BackupDone, RemoveFile, RemoveDir,
         MakeDir, PlaceFile, FetchToSave, Truncate, Write, End,
         New, Request, DoLock, Grant, Destruct, Killed, lockVars
  <2> QED
    BY <1>2, <2>1, <2>2, LockUseOthers
<1>3. LockUseOf(p)'
  <2>0. LockUseOf(p)
    BY DEF LockUse, LockUseOf
  <2>1. ASSUME NEW o, End(p, o) PROVE LockUseOf(p)'
    <3>1. status'[p] = "none"
      BY <1>0, <2>1 DEF End, Destruct, lockVars
    <3> QED
      BY <2>1, <3>1, LeaveLockUse DEF End
  <2>2. CASE Start(p)
    BY <1>0, <2>0, <2>2 DEF Start, LockUseOf, Updating, UpdatePhases, lockVars
  <2>3. CASE Compare(p)
    <3>1. CASE Goto(p, "lock") /\ UNCHANGED <<opt, status, mode>> /\ opt[p].cmd = "update"
      BY <1>0, <2>0, <2>3, <3>1 DEF Compare, Goto, LockUseOf, Updating, UpdatePhases
    <3> QED
      BY <2>1, <2>3, <3>1 DEF Compare, lockVars
  <2>4. CASE TakeLock(p)
    <3>1. /\ status[p] = "none" /\ ~opt[p].force /\ UNCHANGED opt
          /\ DoLock(p, "ex", FALSE)
          /\ pc'[p] = IF Locked(p)' THEN "getData" ELSE "wait"
      BY <1>0, <2>0, <2>4 DEF TakeLock, New, Goto, LockUseOf
    <3>2. mode'[p] = "ex" /\ status'[p] \in {"locked", "unlocked"}
      BY <1>0, <3>1 DEF DoLock, Locked, CanOpen
    <3> QED
      BY <3>1, <3>2 DEF Locked, LockUseOf, Updating, UpdatePhases
  <2>5. CASE WaitForOther(p)
    <3>1. /\ status[p] = "unlocked" /\ ~opt[p].force /\ UNCHANGED opt
          /\ DoLock(p, "ex", TRUE) /\ pc'[p] = "waited"
      BY <1>0, <2>0, <2>5 DEF WaitForOther, Request, Goto, LockUseOf
    <3>2. mode'[p] = "ex" /\ status'[p] \in {"locked", "waiting"}
      BY <1>0, <3>1 DEF DoLock, Locked, CanOpen
    <3> QED
      BY <3>1, <3>2 DEF LockUseOf, Updating, UpdatePhases
  <2>6. CASE OSGrant(p)
    BY <1>0, <2>0, <2>6 DEF OSGrant, Grant, LockUseOf, Updating, UpdatePhases, Phases
  <2>7. CASE WaitOver(p) \/ Fail(p) \/ Write(p)
    BY <2>1, <2>7 DEF WaitOver, Fail, Write
  <2>8. CASE Crash(p)
    <3>1. Leave(p, "killed") /\ status'[p] = "none"
      BY <1>0, <2>8 DEF Crash, Killed
    <3> QED
      BY <3>1, LeaveLockUse
  <2>9. CASE UNCHANGED <<pc, opt, status, mode>>
    BY <2>0, <2>9 DEF LockUseOf, Updating
  <2>10. ASSUME NEW phase \in UpdatePhases, Goto(p, phase), Updating(p),
                UNCHANGED <<opt, status, mode>>
         PROVE  LockUseOf(p)'
    <3>1. pc'[p] = phase
      BY <1>0, <2>10 DEF Goto
    <3> QED
      BY <2>10, <3>1, PhaseLockUse DEF Updating
  <2>11. CASE GetData(p) \/ Build(p) \/ Clear(p) \/ BackupDone(p) \/ MakeDir(p)
    BY <2>1, <2>10, <2>11 DEF GetData, Build, Clear, BackupDone, MakeDir, Updating, UpdatePhases, lockVars
  <2>12. CASE RemoveDir(p) \/ FetchToSave(p) \/ Truncate(p)
    BY <2>1, <2>10, <2>12 DEF RemoveDir, FetchToSave, Truncate, Updating, UpdatePhases, lockVars
  <2>13. CASE BackupFile(p) \/ RemoveFile(p) \/ PlaceFile(p)
    BY <2>1, <2>9, <2>13 DEF BackupFile, RemoveFile, PlaceFile, lockVars
  <2> QED
    BY <1>1, <2>2, <2>3, <2>4, <2>5, <2>6, <2>7, <2>8, <2>11, <2>12, <2>13 DEF Step
<1> QED
  BY <1>1, <1>2, <1>3

LEMMA InitLockUse == Init => LockUse
BY DEF Init, LockInit, LockUse, Updating, UpdatePhases

(* In every behaviour the phases use the lock as LockUse says.             *)
THEOREM LockUseCorrect == Spec => []LockUse
<1>1. TypeOK /\ LockInv /\ LockUse /\ [Next]_vars => LockUse'
  BY NextLockUse
<1> QED
  BY <1>1, InitLockUse, TypeCorrect, PTL DEF Spec

-----------------------------------------------------------------------------
(* Two updates under the lock of one path are one and the same.            *)
LEMMA OneUpdater ==
    ASSUME TypeOK, LockInv, LockUse,
           NEW p \in Process, NEW q \in Process, Tag[p] = Tag[q],
           Updating(p), Updating(q), ~opt[p].force, ~opt[q].force
    PROVE  p = q
<1>1. status[p] = "locked" /\ status[q] = "locked" /\ mode[p] = "ex" /\ mode[q] = "ex"
  BY DEF LockUse
<1>2. granted[p] = "ex" /\ granted[q] = "ex"
  BY <1>1 DEF LockInv, Locked
<1> QED
  BY <1>2 DEF LockInv

(* Where all commands spell the path alike, updates are isolated from each *)
(* other but for forced ones, whatever goes wrong (Manager.php:56-72).     *)
THEOREM UpdatesIsolated ==
    ASSUME \A p, q \in Process : Tag[p] = Tag[q]
    PROVE  Spec => Isolated
<1>1. ASSUME TypeOK, LockInv, LockUse, [Next]_vars,
             NEW p \in Process, Updating(p), NoneForced, UNCHANGED <<pc[p], todo[p]>>
      PROVE  UNCHANGED <<dir, series>>
  <2>0. /\ pc \in [Process -> Phases] /\ todo \in [Process -> SUBSET Package]
        /\ opt \in [Process -> Commands]
    BY <1>1 DEF TypeOK, LocalTypeOK
  <2>1. ASSUME NEW q \in Process, q # p, Updating(q) PROVE FALSE
    <3>1. ~opt[p].force /\ ~opt[q].force
      BY <1>1, <2>1 DEF NoneForced, Updating, UpdatePhases
    <3> QED
      BY <1>1, <2>1, <3>1, OneUpdater
  <2>2. CASE Publish \/ RemoveDeps \/ UNCHANGED vars
    BY <1>1, <2>2 DEF Publish, RemoveDeps, AllIdle, Updating, UpdatePhases
  <2>3. ASSUME NEW q \in Process,
               \/ Start(q) \/ Compare(q) \/ TakeLock(q) \/ WaitForOther(q) \/ WaitOver(q)
               \/ OSGrant(q) \/ GetData(q) \/ Build(q) \/ BackupDone(q) \/ FetchToSave(q)
               \/ Fail(q) \/ Crash(q)
        PROVE  UNCHANGED <<dir, series>>
    BY <2>3 DEF Start, Compare, TakeLock, WaitForOther, WaitOver, OSGrant, GetData,
                Build, BackupDone, FetchToSave, Fail, Crash
  <2>4. ASSUME NEW q \in Process,
               \/ Clear(q) \/ BackupFile(q) \/ RemoveFile(q) \/ RemoveDir(q) \/ MakeDir(q)
               \/ PlaceFile(q) \/ Truncate(q) \/ Write(q)
        PROVE  UNCHANGED <<dir, series>>
    <3>1. Updating(q)
      BY <2>4 DEF Clear, BackupFile, RemoveFile, RemoveDir, MakeDir, PlaceFile, Truncate,
                  Write, Updating, UpdatePhases
    <3>2. q = p
      BY <2>1, <3>1
    <3>3. CASE Clear(p) \/ RemoveDir(p) \/ MakeDir(p) \/ Truncate(p) \/ Write(p)
      BY <1>1, <2>0, <3>3 DEF Clear, RemoveDir, MakeDir, Truncate, Write, Goto, End, Leave
    <3>4. CASE BackupFile(p) \/ RemoveFile(p) \/ PlaceFile(p)
      <4>1. CASE End(p, "error")
        BY <1>1, <2>0, <4>1 DEF End, Leave, Updating, UpdatePhases
      <4>2. ASSUME NEW k \in todo[p], todo' = [todo EXCEPT ![p] = @ \ {k}] PROVE FALSE
        BY <1>1, <2>0, <4>2
      <4> QED
        BY <3>4, <4>1, <4>2 DEF BackupFile, RemoveFile, PlaceFile
    <3> QED
      BY <2>4, <3>2, <3>3, <3>4
  <2> QED
    BY <1>1, <2>2, <2>3, <2>4 DEF Next, Step
<1>2. TypeOK /\ LockInv /\ LockUse /\ [Next]_vars
        => [\A p \in Process :
              Updating(p) /\ NoneForced /\ UNCHANGED <<pc[p], todo[p]>>
                 => UNCHANGED <<dir, series>>]_vars
  BY <1>1
<1> QED
  BY <1>2, TypeCorrect, LockUseCorrect, PTL DEF Spec, Isolated

-----------------------------------------------------------------------------
(* While nothing goes wrong, updates of one directory leave it whole: the  *)
(* proofs that AllClearIsTrue and WaiterReportTrue hold for any number of  *)
(* processes, packages and series.                                         *)

USE DEF dir, locals, depsVars, vars

(* Nobody uses --force, all spell the path alike, the server is reachable  *)
(* and publishes between updates only, file system calls succeed and no    *)
(* process is killed.  The user may remove the directory between updates.  *)
Calm ==
    /\ \A c \in Commands : ~c.force
    /\ \A p, q \in Process : Tag[p] = Tag[q]
    /\ Events \subseteq {"removeDeps"}

LEMMA CalmFetch == ASSUME Calm PROVE Fetch = {server}
BY DEF Calm, Fetch

LEMMA Types ==
    ASSUME DepsInv
    PROVE  /\ TypeOK /\ LockInv /\ LockUse /\ Tidy
           /\ pc \in [Process -> Phases] /\ opt \in [Process -> Commands]
           /\ seen \in [Process -> Fetched] /\ tmp \in [Process -> Tree]
           /\ todo \in [Process -> SUBSET Package] /\ report \in [Process -> Outcomes]
           /\ deps \in Tree /\ series \in [TagSet -> Fetched \cup {NoSeries}]
           /\ server \in 1 .. MaxSeries
BY DEF DepsInv, TypeOK, LocalTypeOK, WorldTypeOK

(* While p updates, no one else does.                                      *)
LEMMA Alone ==
    ASSUME DepsInv, Calm, NEW p \in Process, NEW q \in Process, q # p, Updating(p)
    PROVE  ~Updating(q)
<1>1. ~opt[p].force /\ ~opt[q].force
  BY Types DEF Calm
<1>2. Tag[p] = Tag[q]
  BY DEF Calm
<1> QED
  BY <1>1, <1>2, Types, OneUpdater

(* Someone holds the lock that p was refused.                              *)
LEMMA Holder ==
    ASSUME DepsInv, Calm, NEW p \in Process, ~Compatible(p, "ex")
    PROVE  \E q \in Process : q # p /\ (Updating(q) \/ pc[q] = "waited")
<1>1. PICK q \in Process \ {p} : granted[q] # "no"
  BY DEF Compatible
<1>2. Locked(q)
  BY <1>1, Types DEF LockInv
<1>3. pc[q] \notin {"idle", "compare", "lock", "wait"}
  BY <1>2, Types DEF LockUse, Locked
<1>4. pc[q] = "waited" \/ pc[q] \in UpdatePhases
  BY <1>3, Types DEF Phases
<1> QED
  BY <1>1, <1>4 DEF Updating

(* A step of p that neither starts nor ends an update and leaves what the  *)
(* processes share alone keeps Tidy if it keeps InPhase(p).                *)
LEMMA PrivateStep ==
    ASSUME DepsInv, NEW p \in Process,
           UNCHANGED <<server, depsDir, deps, series>>,
           \A q \in Process \ {p} : /\ pc'[q] = pc[q] /\ seen'[q] = seen[q]
                                    /\ tmp'[q] = tmp[q] /\ todo'[q] = todo[q],
           (Updating(p)' <=> Updating(p)),
           InPhase(p)'
    PROVE  Tidy'
<1>1. Quiet' <=> Quiet
  BY DEF Quiet, Updating
<1>2. ASSUME NEW q \in Process \ {p} PROVE InPhase(q)'
  BY <1>1, <1>2, Types DEF Tidy, InPhase
<1>3. \A q \in Process : InPhase(q)'
  BY <1>2
<1>4. AllClearIsTrue'
  BY <1>1, Types DEF Tidy, AllClearIsTrue, AllClear
<1> QED
  BY <1>3, <1>4, Types DEF Tidy

(* A step of an update that is not its last.                               *)
LEMMA UpdaterStep ==
    ASSUME DepsInv, Calm, NEW p \in Process, Updating(p), Updating(p)',
           UNCHANGED server,
           \A q \in Process \ {p} : pc'[q] = pc[q] /\ seen'[q] = seen[q],
           InPhase(p)',
           ~depsDir' => deps' = NoFiles,
           \A t \in TagSet : series'[t] <= server
    PROVE  Tidy'
<1>1. ~Quiet'
  BY DEF Quiet
<1>2. ASSUME NEW q \in Process \ {p} PROVE InPhase(q)'
  <2>1. pc'[q] \notin UpdatePhases
    BY Alone DEF Updating
  <2>2. pc[q] # "idle" => seen[q] = server
    BY Types DEF Tidy, InPhase
  <2> QED
    BY <1>1, <2>1, <2>2 DEF InPhase, UpdatePhases
<1>3. \A q \in Process : InPhase(q)'
  BY <1>2
<1>4. AllClearIsTrue'
  BY <1>1 DEF AllClearIsTrue
<1> QED
  BY <1>3, <1>4 DEF Tidy

-----------------------------------------------------------------------------
(* The steps before an update and of those who only wait.                  *)
LEMMA OutsideTidy ==
    ASSUME DepsInv, Calm, NEW p \in Process,
           Start(p) \/ Compare(p) \/ TakeLock(p) \/ WaitForOther(p) \/ WaitOver(p) \/ OSGrant(p)
    PROVE  Tidy'
<1>0. InPhase(p)
  BY Types DEF Tidy
<1>1. CASE Start(p)
  <2>1. pc[p] = "idle" /\ pc'[p] = "compare" /\ seen'[p] = server
    BY <1>1, Types, CalmFetch DEF Start, Calm
  <2>2. \A q \in Process \ {p} : /\ pc'[q] = pc[q] /\ seen'[q] = seen[q]
                                 /\ tmp'[q] = tmp[q] /\ todo'[q] = todo[q]
    BY <1>1, Types DEF Start
  <2>3. UNCHANGED <<server, depsDir, deps, series>>
    BY <1>1 DEF Start
  <2>4. InPhase(p)' /\ (Updating(p)' <=> Updating(p))
    BY <2>1, <2>3 DEF InPhase, Updating, UpdatePhases
  <2> QED
    BY <2>2, <2>3, <2>4, PrivateStep
<1>2. ASSUME NEW o, End(p, o), ~Updating(p), UNCHANGED <<server, dir, series>> PROVE Tidy'
  <2>1. pc'[p] = "idle"
    BY <1>2, Types DEF End, Leave
  <2>2. \A q \in Process \ {p} : /\ pc'[q] = pc[q] /\ seen'[q] = seen[q]
                                 /\ tmp'[q] = tmp[q] /\ todo'[q] = todo[q]
    BY <1>2, Types DEF End, Leave
  <2>3. InPhase(p)' /\ (Updating(p)' <=> Updating(p))
    BY <1>2, <2>1 DEF InPhase, Updating, UpdatePhases
  <2> QED
    BY <1>2, <2>2, <2>3, PrivateStep
<1>3. CASE Compare(p)
  <2>1. CASE Goto(p, "lock") /\ UNCHANGED <<locals, lockVars>>
    <3>1. pc[p] = "compare" /\ pc'[p] = "lock" /\ UNCHANGED <<seen, server, depsDir, deps, series>>
      BY <1>3, <2>1, Types DEF Compare, Goto
    <3>2. \A q \in Process \ {p} : /\ pc'[q] = pc[q] /\ seen'[q] = seen[q]
                                   /\ tmp'[q] = tmp[q] /\ todo'[q] = todo[q]
      BY <2>1, Types DEF Goto
    <3>3. InPhase(p)' /\ (Updating(p)' <=> Updating(p))
      BY <1>0, <3>1 DEF InPhase, Updating, UpdatePhases
    <3> QED
      BY <3>1, <3>2, <3>3, PrivateStep
  <2> QED
    BY <1>2, <1>3, <2>1 DEF Compare, Updating, UpdatePhases
<1>4. CASE TakeLock(p)
  <2>1. pc[p] = "lock" /\ UNCHANGED <<locals, server, depsDir, deps, series>>
    BY <1>4 DEF TakeLock
  <2>2. \A q \in Process \ {p} : /\ pc'[q] = pc[q] /\ seen'[q] = seen[q]
                                 /\ tmp'[q] = tmp[q] /\ todo'[q] = todo[q]
    BY <1>4, Types DEF TakeLock, Goto
  <2>3. CASE pc'[p] = "getData"
    <3>1. ~Quiet'
      BY <2>3 DEF Quiet, Updating, UpdatePhases
    <3>2. ASSUME NEW q \in Process \ {p} PROVE InPhase(q)'
      BY <2>1, <2>2, <3>1, Types DEF Tidy, InPhase
    <3>3. InPhase(p)'
      BY <1>0, <2>1, <2>3, <3>1 DEF InPhase
    <3>4. \A q \in Process : InPhase(q)'
      BY <3>2, <3>3
    <3> QED
      BY <2>1, <3>1, <3>4, Types DEF Tidy, AllClearIsTrue
  <2>4. CASE pc'[p] = "wait"
    <3>1. ~Compatible(p, "ex")
      <4>1. ~Locked(p)' /\ status[p] = "none" /\ DoLock(p, "ex", FALSE)
        BY <1>4, <2>4, Types DEF TakeLock, New, Goto
      <4> QED
        BY <4>1, Types DEF DoLock, Locked, CanOpen, lockVars, TypeOK, LockTypeOK
    <3>2. PICK q \in Process : q # p /\ (Updating(q) \/ pc[q] = "waited")
      BY <3>1, Holder
    <3>3. Quiet' => deps = Full(server)
      <4>1. Quiet' => Quiet
        BY <2>1, <2>2 DEF Quiet, Updating, UpdatePhases
      <4>2. Quiet => pc[q] = "waited"
        BY <3>2 DEF Quiet
      <4> QED
        BY <4>1, <4>2, Types DEF Tidy, InPhase
    <3>4. InPhase(p)' /\ (Updating(p)' <=> Updating(p))
      BY <1>0, <2>1, <2>4, <3>3 DEF InPhase, Full, Updating, UpdatePhases
    <3> QED
      BY <2>1, <2>2, <3>4, PrivateStep
  <2> QED
    BY <1>4, <2>3, <2>4, Types DEF TakeLock, Goto
<1>5. CASE WaitForOther(p)
  <2>1. pc[p] = "wait" /\ pc'[p] = "waited" /\ UNCHANGED <<locals, server, depsDir, deps, series>>
    BY <1>5, Types DEF WaitForOther, Goto
  <2>2. \A q \in Process \ {p} : /\ pc'[q] = pc[q] /\ seen'[q] = seen[q]
                                 /\ tmp'[q] = tmp[q] /\ todo'[q] = todo[q]
    BY <1>5, Types DEF WaitForOther, Goto
  <2>3. (Updating(p)' <=> Updating(p))
    BY <2>1 DEF Updating, UpdatePhases
  <2>4. Quiet' => Quiet
    BY <2>2, <2>3 DEF Quiet, Updating
  <2>5. InPhase(p)'
    BY <1>0, <2>1, <2>4 DEF InPhase, Full
  <2> QED
    BY <2>1, <2>2, <2>3, <2>5, PrivateStep
<1>6. CASE WaitOver(p)
  BY <1>2, <1>6 DEF WaitOver, Updating, UpdatePhases
<1>7. CASE OSGrant(p)
  <2>1. UNCHANGED depsVars
    BY <1>7 DEF OSGrant
  <2> QED
    BY <2>1, Types DEF Tidy, InPhase, AllClearIsTrue, AllClear, Quiet, Updating, Full, FilesOf
<1> QED
  BY <1>1, <1>3, <1>4, <1>5, <1>6, <1>7

-----------------------------------------------------------------------------
(* The steps of an update.                                                 *)
LEMMA OthersStay ==
    ASSUME DepsInv, NEW p \in Process, NEW q \in Process \ {p},
           \/ GetData(p) \/ Build(p) \/ Clear(p) \/ BackupFile(p) \/ BackupDone(p)
           \/ RemoveFile(p) \/ RemoveDir(p) \/ MakeDir(p) \/ PlaceFile(p)
           \/ FetchToSave(p) \/ Truncate(p) \/ Write(p)
    PROVE  pc'[q] = pc[q] /\ seen'[q] = seen[q] /\ UNCHANGED server
BY Types DEF GetData, Build, Clear, BackupFile, BackupDone, RemoveFile, RemoveDir, MakeDir,
             PlaceFile, FetchToSave, Truncate, Write, Goto, End, Leave

(* No step of an update but the last one ends it.                          *)
LEMMA UpdateTidy ==
    ASSUME DepsInv, Calm, NEW p \in Process,
           \/ GetData(p) \/ Build(p) \/ Clear(p) \/ BackupFile(p) \/ BackupDone(p)
           \/ RemoveFile(p) \/ RemoveDir(p) \/ MakeDir(p) \/ PlaceFile(p)
           \/ FetchToSave(p) \/ Truncate(p)
    PROVE  Tidy'
<1>0. /\ InPhase(p) /\ Fetch = {server} /\ server \in Nat /\ server # 0
      /\ ~depsDir => deps = NoFiles
      /\ \A t \in TagSet : series[t] <= server
  BY Types, CalmFetch DEF Tidy
<1>1. SUFFICES ASSUME TRUE
               PROVE  /\ Updating(p) /\ Updating(p)' /\ UNCHANGED server /\ InPhase(p)'
                      /\ ~depsDir' => deps' = NoFiles
                      /\ \A t \in TagSet : series'[t] <= server
  <2>1. UNCHANGED server
    BY DEF GetData, Build, Clear, BackupFile, BackupDone, RemoveFile, RemoveDir, MakeDir,
           PlaceFile, FetchToSave, Truncate
  <2> QED
    BY <2>1, OthersStay, UpdaterStep
<1>2. CASE GetData(p)
  <2>1. /\ pc[p] = "getData" /\ pc'[p] = "build" /\ seen'[p] = server
        /\ UNCHANGED <<server, depsDir, deps, series>>
    BY <1>0, <1>2, Types DEF GetData, Goto
  <2> QED
    BY <1>0, <2>1 DEF Updating, UpdatePhases, InPhase
<1>3. CASE Build(p)
  <2>1. /\ pc[p] = "build" /\ pc'[p] = "clear" /\ seen'[p] = seen[p]
        /\ UNCHANGED <<server, depsDir, deps, series>>
    BY <1>3, Types DEF Build, Goto
  <2>2. seen[p] = server
    BY <1>0, <2>1 DEF InPhase
  <2>3. tmp'[p] = Full(server)
    <3>1. "fetch" \notin Events
      BY DEF Calm
    <3>2. tmp' = [tmp EXCEPT ![p] = [k \in Package |-> IF k \in Package THEN seen[p] ELSE 0]]
      BY <1>3, <3>1 DEF Build
    <3>3. tmp'[p] = [k \in Package |-> seen[p]]
      BY <3>2, Types
    <3> QED
      BY <2>2, <3>3 DEF Full
  <2>4. Updating(p) /\ Updating(p)'
    BY <2>1 DEF Updating, UpdatePhases
  <2>5. InPhase(p)'
    BY <2>1, <2>2, <2>3 DEF InPhase, Full
  <2> QED
    BY <1>0, <2>1, <2>4, <2>5
<1>4. CASE Clear(p)
  <2>1. /\ pc[p] = "clear" /\ UNCHANGED <<server, depsDir, deps, series, seen, tmp>>
        /\ \/ pc'[p] \in {"backup", "remove"} /\ depsDir /\ todo'[p] = FilesOf(deps)
           \/ pc'[p] = "mkdir" /\ ~depsDir
    BY <1>4, Types DEF Clear, Goto
  <2>2. Updating(p) /\ Updating(p)'
    BY <2>1 DEF Updating, UpdatePhases
  <2>3. InPhase(p)'
    BY <1>0, <2>1 DEF InPhase, Full, FilesOf
  <2> QED
    BY <1>0, <2>1, <2>2, <2>3
<1>5. CASE BackupFile(p) \/ RemoveFile(p)
  <2>1. pc[p] \in {"backup", "remove"} /\ depsDir /\ todo[p] = FilesOf(deps) /\ seen[p] = server
    BY <1>0, <1>5 DEF BackupFile, RemoveFile, InPhase
  <2>2. PICK k \in todo[p] :
          /\ deps' = [deps EXCEPT ![k] = 0] /\ todo' = [todo EXCEPT ![p] = @ \ {k}]
          /\ UNCHANGED <<pc, seen, tmp, server, depsDir, series>>
    <3>1. \A k \in todo[p] : deps[k] # 0
      BY <2>1 DEF FilesOf
    <3> QED
      BY <1>5, <3>1 DEF BackupFile, RemoveFile
  <2>3. deps \in [Package -> 0 .. MaxSeries]
    BY Types DEF Tree
  <2>4. todo'[p] = FilesOf(deps')
    <3>1. todo'[p] = todo[p] \ {k}
      BY <2>2, Types
    <3>2. \A i \in Package : deps'[i] = IF i = k THEN 0 ELSE deps[i]
      BY <2>2, <2>3
    <3> QED
      BY <2>1, <3>1, <3>2 DEF FilesOf
  <2>5. Updating(p) /\ Updating(p)'
    BY <2>1, <2>2 DEF Updating, UpdatePhases
  <2>6. tmp[p] = Full(server)
    BY <1>0, <2>1 DEF InPhase
  <2>7. InPhase(p)'
    BY <2>1, <2>2, <2>4, <2>6 DEF InPhase, Full, FilesOf
  <2> QED
    BY <1>0, <2>1, <2>2, <2>5, <2>7
<1>6. CASE BackupDone(p)
  <2>1. /\ pc[p] = "backup" /\ pc'[p] = "remove" /\ todo'[p] = FilesOf(deps)
        /\ UNCHANGED <<server, depsDir, deps, series, seen, tmp>>
    BY <1>6, Types DEF BackupDone, Goto
  <2>2. Updating(p) /\ Updating(p)'
    BY <2>1 DEF Updating, UpdatePhases
  <2>3. InPhase(p)'
    BY <1>0, <2>1 DEF InPhase, Full, FilesOf
  <2> QED
    BY <1>0, <2>1, <2>2, <2>3
<1>7. CASE RemoveDir(p)
  <2>1. pc[p] = "remove" /\ todo[p] = {} /\ depsDir /\ todo[p] = FilesOf(deps)
    BY <1>0, <1>7 DEF RemoveDir, InPhase
  <2>2. deps = NoFiles
    <3>1. \A k \in Package : deps[k] = 0
      BY <2>1 DEF FilesOf
    <3>2. deps = [k \in Package |-> deps[k]]
      BY Types DEF Tree
    <3> QED
      BY <3>1, <3>2 DEF NoFiles
  <2>3. pc'[p] = "mkdir" /\ UNCHANGED <<server, deps, series, seen, tmp>>
    BY <1>7, <2>1, <2>2, Types DEF RemoveDir, Goto
  <2>4. Updating(p) /\ Updating(p)'
    BY <2>1, <2>3 DEF Updating, UpdatePhases
  <2>5. InPhase(p)'
    BY <1>0, <2>1, <2>2, <2>3 DEF InPhase, Full, NoFiles
  <2> QED
    BY <1>0, <2>2, <2>3, <2>4, <2>5
<1>8. CASE MakeDir(p)
  <2>1. /\ pc[p] = "mkdir" /\ pc'[p] = "place" /\ depsDir' /\ todo'[p] = FilesOf(tmp[p])
        /\ UNCHANGED <<server, deps, series, seen, tmp>>
    BY <1>8, Types DEF MakeDir, Goto
  <2>2. tmp[p] = Full(server)
    BY <1>0, <2>1 DEF InPhase
  <2>3. FilesOf(tmp[p]) = Package
    BY <1>0, <2>2 DEF FilesOf, Full
  <2>4. Updating(p) /\ Updating(p)'
    BY <2>1 DEF Updating, UpdatePhases
  <2>5. InPhase(p)'
    BY <1>0, <2>1, <2>3 DEF InPhase, Full
  <2> QED
    BY <1>0, <2>1, <2>4, <2>5
<1>9. CASE PlaceFile(p)
  <2>1. /\ pc[p] = "place" /\ seen[p] = server /\ tmp[p] = Full(server)
        /\ \A k \in Package \ todo[p] : deps[k] = server
    BY <1>0, <1>9 DEF PlaceFile, InPhase
  <2>2. PICK k \in todo[p] :
          /\ deps' = [deps EXCEPT ![k] = tmp[p][k]] /\ todo' = [todo EXCEPT ![p] = @ \ {k}]
          /\ depsDir' /\ UNCHANGED <<pc, seen, tmp, server, series>>
    BY <1>9 DEF PlaceFile
  <2>3. k \in Package /\ deps \in [Package -> 0 .. MaxSeries]
    BY Types DEF Tree
  <2>4. \A i \in Package \ todo'[p] : deps'[i] = server
    <3>1. todo'[p] = todo[p] \ {k} /\ tmp[p][k] = server
      BY <2>1, <2>2, <2>3, Types DEF Full
    <3> QED
      BY <2>1, <2>2, <2>3, <3>1
  <2>5. Updating(p) /\ Updating(p)'
    BY <2>1, <2>2 DEF Updating, UpdatePhases
  <2>6. InPhase(p)'
    BY <2>1, <2>2, <2>4 DEF InPhase, Full
  <2> QED
    BY <1>0, <2>2, <2>5, <2>6
<1>10. CASE FetchToSave(p)
  <2>1. /\ pc[p] = "place" /\ pc'[p] = "truncate" /\ todo[p] = {} /\ seen'[p] = server
        /\ UNCHANGED <<server, depsDir, deps, series>>
    BY <1>0, <1>10, Types DEF FetchToSave, Goto
  <2>2. depsDir /\ \A k \in Package : deps[k] = server
    BY <1>0, <2>1 DEF InPhase
  <2>3. deps = Full(server)
    <3>1. deps = [k \in Package |-> deps[k]]
      BY Types DEF Tree
    <3> QED
      BY <2>2, <3>1 DEF Full
  <2>4. Updating(p) /\ Updating(p)'
    BY <2>1 DEF Updating, UpdatePhases
  <2>5. InPhase(p)'
    BY <2>1, <2>2, <2>3 DEF InPhase, Full
  <2> QED
    BY <1>0, <2>1, <2>4, <2>5
<1>11. CASE Truncate(p)
  <2>1. /\ pc[p] = "truncate" /\ pc'[p] = "write" /\ UNCHANGED <<server, depsDir, deps, seen>>
        /\ series' = [series EXCEPT ![Tag[p]] = 0]
    BY <1>11, Types DEF Truncate, Goto
  <2>2. \A t \in TagSet : series'[t] <= server
    BY <1>0, <2>1, Types
  <2>3. Updating(p) /\ Updating(p)'
    BY <2>1 DEF Updating, UpdatePhases
  <2>4. InPhase(p)'
    BY <1>0, <2>1 DEF InPhase, Full
  <2> QED
    BY <1>0, <2>1, <2>2, <2>3, <2>4
<1> QED
  BY <1>2, <1>3, <1>4, <1>5, <1>6, <1>7, <1>8, <1>9, <1>10, <1>11

(* The last step leaves the directory whole and the saved list to match.   *)
LEMMA WriteTidy ==
    ASSUME DepsInv, Calm, NEW p \in Process, Write(p)
    PROVE  Tidy'
<1>1. /\ pc[p] = "write" /\ pc'[p] = "idle" /\ UNCHANGED <<server, depsDir, deps>>
      /\ series' = [series EXCEPT ![Tag[p]] = seen[p]]
  BY Types DEF Write, End, Leave
<1>2. depsDir /\ deps = Full(server) /\ seen[p] = server
  BY <1>1, Types DEF Tidy, InPhase
<1>3. \A t \in TagSet : series'[t] <= server'
  <2>1. \A t \in TagSet : series[t] <= server
    BY Types DEF Tidy
  <2> QED
    BY <1>1, <1>2, <2>1, Types
<1>4. ASSUME NEW q \in Process \ {p} PROVE InPhase(q)'
  <2>1. pc'[q] = pc[q] /\ seen'[q] = seen[q]
    BY <1>4, OthersStay
  <2>2. pc'[q] \notin UpdatePhases
    BY <1>1, <2>1, Alone DEF Updating, UpdatePhases
  <2>3. pc[q] # "idle" => seen[q] = server
    BY Types DEF Tidy, InPhase
  <2> QED
    BY <1>1, <1>2, <2>1, <2>2, <2>3 DEF InPhase, UpdatePhases, Full
<1>5. InPhase(p)'
  BY <1>1 DEF InPhase
<1>6. \A q \in Process : InPhase(q)'
  BY <1>4, <1>5
<1>7. AllClearIsTrue'
  BY <1>1, <1>2 DEF AllClearIsTrue, Full
<1> QED
  BY <1>1, <1>2, <1>3, <1>6, <1>7 DEF Tidy

(* The world moves only while all processes are idle.                      *)
LEMMA WorldTidy ==
    ASSUME DepsInv, Calm, Publish \/ RemoveDeps
    PROVE  Tidy'
<1>1. AllIdle /\ UNCHANGED <<pc, series>>
  BY DEF Publish, RemoveDeps, Calm
<1>2. \A q \in Process : InPhase(q)'
  BY <1>1 DEF AllIdle, InPhase
<1>3. \A t \in TagSet : series[t] <= server /\ series[t] \in Int
  BY Types DEF Tidy, Fetched, NoSeries
<1>4. CASE Publish
  <2>1. server' = server + 1 /\ server \in Nat /\ UNCHANGED <<depsDir, deps>>
    BY <1>4, Types DEF Publish
  <2>2. \A t \in TagSet : series'[t] <= server' /\ series'[t] # server'
    BY <1>1, <1>3, <2>1
  <2>3. AllClearIsTrue'
    BY <2>2 DEF AllClearIsTrue, AllClear
  <2>4. ~depsDir' => deps' = NoFiles
    BY <2>1, Types DEF Tidy, NoFiles
  <2> QED
    BY <1>2, <2>2, <2>3, <2>4 DEF Tidy
<1>5. CASE RemoveDeps
  <2>1. ~depsDir' /\ deps' = NoFiles /\ UNCHANGED server
    BY <1>5 DEF RemoveDeps
  <2>2. AllClearIsTrue'
    BY <2>1 DEF AllClearIsTrue, AllClear
  <2> QED
    BY <1>1, <1>2, <1>3, <2>1, <2>2 DEF Tidy, NoFiles
<1> QED
  BY <1>4, <1>5

LEMMA NextDepsInv == ASSUME DepsInv, Calm, [Next]_vars PROVE DepsInv'
<1>1. Tidy'
  <2>1. CASE UNCHANGED vars
    BY <2>1, Types DEF Tidy, InPhase, AllClearIsTrue, AllClear, Quiet, Updating, Full, FilesOf, NoFiles
  <2>2. ASSUME NEW p \in Process, Fail(p) \/ Crash(p) PROVE FALSE
    BY <2>2 DEF Fail, Crash, Calm
  <2>3. ASSUME NEW p \in Process, Start(p) \/ Step(p) \/ OSGrant(p) PROVE Tidy'
    BY <2>3, OutsideTidy, UpdateTidy, WriteTidy DEF Step
  <2> QED
    BY <2>1, <2>2, <2>3, WorldTidy DEF Next
<1>2. TypeOK' /\ LockInv' /\ LockUse'
  BY Types, NextType, NextKeepsLock, NextLockUse
<1> QED
  BY <1>1, <1>2 DEF DepsInv

LEMMA InitDepsInv == ASSUME Init PROVE DepsInv
<1>1. TypeOK /\ LockInv /\ LockUse
  BY InitType, LockInitInv, InitLockUse DEF Init
<1>2. \A q \in Process : InPhase(q)
  BY DEF Init, InPhase
<1>3. server = 1
  BY DEF Init
<1>4. \A t \in TagSet : series[t] <= server
  <2>1. CASE series = [t \in TagSet |-> NoSeries]
    BY <1>3, <2>1 DEF NoSeries
  <2>2. CASE series \in [TagSet -> {NoSeries, 1}]
    BY <1>3, <2>2 DEF NoSeries
  <2> QED
    BY <2>1, <2>2 DEF Init
<1>5. CASE depsDir = FALSE /\ deps = NoFiles
  <2>1. (~depsDir => deps = NoFiles) /\ AllClearIsTrue
    BY <1>5 DEF AllClearIsTrue, AllClear
  <2> QED
    BY <1>1, <1>2, <1>4, <2>1 DEF DepsInv, Tidy
<1>6. CASE depsDir = TRUE /\ deps = Full(1)
  <2>1. (~depsDir => deps = NoFiles) /\ AllClearIsTrue
    BY <1>3, <1>6 DEF AllClearIsTrue
  <2> QED
    BY <1>1, <1>2, <1>4, <2>1 DEF DepsInv, Tidy
<1> QED
  BY <1>5, <1>6 DEF Init

(* The directory is whole between updates and on its way there during one. *)
THEOREM DepsInvHolds == ASSUME Calm PROVE Spec => []DepsInv
<1>1. DepsInv /\ [Next]_vars => DepsInv'
  BY NextDepsInv
<1>2. Init => DepsInv
  BY InitDepsInv
<1> QED
  BY <1>1, <1>2, PTL DEF Spec

-----------------------------------------------------------------------------
(* --check says "No updates" only of a whole directory (Series.php:86).    *)
THEOREM AllClearHolds == ASSUME Calm PROVE Spec => []AllClearIsTrue
<1>1. DepsInv => AllClearIsTrue
  BY DEF DepsInv, Tidy
<1> QED
  BY <1>1, DepsInvHolds, PTL

(* Nobody but p moves p from one phase to the next.                        *)
LEMMA OwnStep ==
    ASSUME DepsInv, Calm, [Next]_vars, NEW p \in Process,
           pc[p] # "idle", pc'[p] # pc[p]
    PROVE  Step(p)
<1>1. ASSUME NEW q \in Process \ {p},
             Start(q) \/ Step(q) \/ OSGrant(q) \/ Fail(q) \/ Crash(q)
      PROVE  FALSE
  <2>1. CASE Start(q) \/ OSGrant(q) \/ Fail(q) \/ Crash(q)
    BY <2>1, Types DEF Start, OSGrant, Fail, Crash, Calm
  <2>2. CASE Compare(q) \/ WaitOver(q) \/ TakeLock(q) \/ WaitForOther(q)
    BY <2>2, Types DEF Compare, WaitOver, TakeLock, WaitForOther, Goto, End, Leave
  <2> QED
    BY <1>1, <2>1, <2>2, OthersStay DEF Step
<1>2. ~(Publish \/ RemoveDeps \/ UNCHANGED vars)
  BY DEF Publish, RemoveDeps
<1>3. ~(Start(p) \/ OSGrant(p) \/ Fail(p) \/ Crash(p))
  BY DEF Start, OSGrant, Fail, Crash, Calm
<1> QED
  BY <1>1, <1>2, <1>3 DEF Next

(* A process that waited and reports the other's work (Manager.php:64)     *)
(* finds it done: it holds the lock by then, so no update is running.      *)
THEOREM WaitersAreToldTheTruth == ASSUME Calm PROVE Spec => WaiterReportTrue
<1>1. ASSUME DepsInv, NEW p \in Process, [Next]_vars,
             pc[p] = "waited", pc'[p] = "idle", report'[p] = "byother"
      PROVE  deps = Full(server)
  <2>1. WaitOver(p)
    BY <1>1, OwnStep DEF Step, Compare, TakeLock, WaitForOther, GetData, Build, Clear,
         BackupFile, BackupDone, RemoveFile, RemoveDir, MakeDir, PlaceFile, FetchToSave,
         Truncate, Write
  <2>2. status[p] = "locked" /\ mode[p] = "ex"
    BY <1>1, <2>1, Types DEF WaitOver, Locked, LockUse
  <2>3. Quiet
    <3>1. ASSUME NEW q \in Process, Updating(q) PROVE FALSE
      <4>1. q # p /\ Tag[p] = Tag[q]
        BY <1>1, <3>1 DEF Updating, UpdatePhases, Calm
      <4>2. ~opt[q].force
        BY <1>1, Types DEF Calm
      <4>3. status[q] = "locked" /\ mode[q] = "ex"
        BY <1>1, <3>1, <4>2, Types DEF LockUse
      <4>4. granted[q] = "ex" /\ granted[p] = "ex"
        BY <1>1, <2>2, <4>3, Types DEF LockInv, Locked
      <4> QED
        BY <1>1, <4>1, <4>4, Types DEF LockInv
    <3> QED
      BY <3>1 DEF Quiet
  <2> QED
    BY <1>1, <2>3, Types DEF Tidy, InPhase
<1>2. DepsInv /\ [Next]_vars
        => [\A p \in Process :
              pc[p] = "waited" /\ pc'[p] = "idle" /\ report'[p] = "byother"
                 => deps = Full(server)]_vars
  BY <1>1
<1> QED
  BY <1>2, DepsInvHolds, PTL DEF Spec, WaiterReportTrue
-----------------------------------------------------------------------------
(* What an update does, it does wholly, whoever fails or is killed.        *)

(* Nobody uses --force, all spell the path alike, and the server is        *)
(* reachable and publishes between commands only.  File system calls may   *)
(* fail and processes be killed, and the user may remove the directory     *)
(* between commands.                                                       *)
Reachable ==
    /\ \A c \in Commands : ~c.force
    /\ \A p, q \in Process : Tag[p] = Tag[q]
    /\ "publish" \notin Events /\ "fetch" \notin Events

Progress(p) ==
    /\ pc[p] # "idle" => seen[p] = server /\ report[p] = ""
    /\ pc[p] \in {"clear", "backup", "remove", "mkdir", "place"} => tmp[p] = Full(server)
    /\ pc[p] = "place" => depsDir /\ \A k \in Package \ todo[p] : deps[k] = server
    /\ pc[p] \in {"truncate", "write"} => depsDir /\ deps = Full(server)

WholeInv ==
    /\ TypeOK /\ LockInv /\ LockUse
    /\ \A p \in Process : Progress(p)

LEMMA WholeTypes ==
    ASSUME WholeInv
    PROVE  /\ pc \in [Process -> Phases] /\ opt \in [Process -> Commands]
           /\ seen \in [Process -> Fetched] /\ tmp \in [Process -> Tree]
           /\ todo \in [Process -> SUBSET Package] /\ report \in [Process -> Outcomes]
           /\ deps \in [Package -> 0 .. MaxSeries] /\ depsDir \in BOOLEAN
           /\ series \in [TagSet -> Fetched \cup {NoSeries}]
           /\ server \in 1 .. MaxSeries
BY DEF WholeInv, TypeOK, LocalTypeOK, WorldTypeOK, Tree

(* What a process does by itself, and what befalls it.                     *)
Act(p) == Start(p) \/ Step(p) \/ OSGrant(p) \/ Fail(p) \/ Crash(p)

Outside(p) ==
    \/ Start(p) \/ Compare(p) \/ TakeLock(p) \/ WaitForOther(p) \/ WaitOver(p) \/ OSGrant(p)

(* The steps of an update but for the last one.                            *)
Inside(p) ==
    \/ GetData(p) \/ Build(p) \/ Clear(p) \/ BackupFile(p) \/ BackupDone(p)
    \/ RemoveFile(p) \/ RemoveDir(p) \/ MakeDir(p) \/ PlaceFile(p)
    \/ FetchToSave(p) \/ Truncate(p)

LEMMA ActCases ==
    ASSUME NEW p \in Process
    PROVE  Act(p) <=> Outside(p) \/ Inside(p) \/ Write(p) \/ Fail(p) \/ Crash(p)
BY DEF Act, Outside, Inside, Step

LEMMA NextCases ==
    ASSUME [Next]_vars
    PROVE  (\E p \in Process : Act(p)) \/ Publish \/ RemoveDeps \/ UNCHANGED vars
BY DEF Next, Act

(* A step of p leaves the others where they are.                           *)
LEMMA ActOfOne ==
    ASSUME WholeInv, NEW p \in Process, Act(p), NEW q \in Process \ {p}
    PROVE  /\ pc'[q] = pc[q] /\ seen'[q] = seen[q] /\ tmp'[q] = tmp[q]
           /\ todo'[q] = todo[q] /\ report'[q] = report[q] /\ UNCHANGED server
<1>1. CASE Outside(p)
  BY <1>1, WholeTypes DEF Outside, Start, Compare, TakeLock, WaitForOther, WaitOver, OSGrant,
                          Goto, End, Leave
<1>2. CASE Inside(p)
  BY <1>2, WholeTypes DEF Inside, GetData, Build, Clear, BackupFile, BackupDone, RemoveFile,
                          RemoveDir, MakeDir, PlaceFile, FetchToSave, Truncate, Goto, End, Leave
<1>3. CASE Write(p) \/ Fail(p) \/ Crash(p)
  BY <1>3, WholeTypes DEF Write, Fail, Crash, End, Leave
<1> QED
  BY <1>1, <1>2, <1>3, ActCases

(* The steps of an update are those of one process at a time.              *)
LEMMA InsideUpdates ==
    ASSUME WholeInv, NEW p \in Process, Inside(p) \/ Write(p)
    PROVE  Updating(p) /\ UNCHANGED server
BY DEF Inside, GetData, Build, Clear, BackupFile, BackupDone, RemoveFile, RemoveDir, MakeDir,
       PlaceFile, FetchToSave, Truncate, Write, Updating, UpdatePhases

LEMMA OneAtWork ==
    ASSUME WholeInv, Reachable, NEW p \in Process, NEW q \in Process, Updating(p), Updating(q)
    PROVE  p = q
<1>1. ~opt[p].force /\ ~opt[q].force /\ Tag[p] = Tag[q]
  BY WholeTypes DEF Reachable
<1> QED
  BY <1>1, OneUpdater DEF WholeInv

LEMMA OutsideLeaves ==
    ASSUME NEW p \in Process, Outside(p) \/ Fail(p) \/ Crash(p)
    PROVE  UNCHANGED <<server, depsDir, deps, series>>
BY DEF Outside, Start, Compare, TakeLock, WaitForOther, WaitOver, OSGrant, Fail, Crash

LEMMA OthersProgress ==
    ASSUME WholeInv, Reachable, NEW p \in Process, Act(p), NEW q \in Process \ {p}
    PROVE  Progress(q)'
<1>0. /\ pc'[q] = pc[q] /\ seen'[q] = seen[q] /\ tmp'[q] = tmp[q]
      /\ todo'[q] = todo[q] /\ report'[q] = report[q] /\ UNCHANGED server
  BY ActOfOne
<1>1. Progress(q)
  BY DEF WholeInv
<1>2. CASE ~Updating(q)
  BY <1>0, <1>1, <1>2 DEF Progress, Updating, UpdatePhases
<1>3. CASE Updating(q)
  <2>1. ~Inside(p) /\ ~Write(p)
    BY <1>3, InsideUpdates, OneAtWork
  <2>2. UNCHANGED <<server, depsDir, deps, series>>
    BY <2>1, ActCases, OutsideLeaves
  <2> QED
    BY <1>0, <1>1, <2>2 DEF Progress, Full
<1> QED
  BY <1>2, <1>3

LEMMA GoneProgress ==
    ASSUME WholeInv, NEW p \in Process, NEW o, Leave(p, o)
    PROVE  Progress(p)'
<1>1. pc'[p] = "idle"
  BY WholeTypes DEF Leave
<1> QED
  BY <1>1 DEF Progress

LEMMA OutsideProgress ==
    ASSUME WholeInv, Reachable, NEW p \in Process, Outside(p)
    PROVE  Progress(p)'
<1>0. Progress(p)
  BY DEF WholeInv
<1>1. CASE Start(p)
  <2>1. pc'[p] = "compare" /\ seen'[p] = server /\ report'[p] = "" /\ UNCHANGED server
    BY <1>1, WholeTypes DEF Start, Fetch, Reachable
  <2> QED
    BY <2>1 DEF Progress
<1>2. ASSUME NEW phase \in {"lock", "getData", "wait", "waited"}, Goto(p, phase),
             pc[p] # "idle", UNCHANGED <<seen, server>>
      PROVE  Progress(p)'
  <2>1. pc'[p] = phase /\ report'[p] = ""
    BY <1>0, <1>2, WholeTypes DEF Goto, Progress
  <2> QED
    BY <1>0, <1>2, <2>1 DEF Progress
<1>3. CASE Compare(p) \/ TakeLock(p) \/ WaitForOther(p) \/ WaitOver(p)
  BY <1>2, <1>3, GoneProgress DEF Compare, TakeLock, WaitForOther, WaitOver, End
<1>4. CASE OSGrant(p)
  <2>1. UNCHANGED depsVars
    BY <1>4 DEF OSGrant
  <2> QED
    BY <1>0, <2>1 DEF Progress, Full
<1> QED
  BY <1>1, <1>3, <1>4 DEF Outside

(* The steps of an update go on with it, or end it in an error.            *)
LEMMA InsideGoesOn ==
    ASSUME WholeInv, NEW p \in Process, Inside(p)
    PROVE  \/ Updating(p)' /\ UNCHANGED report
           \/ End(p, "error") /\ UNCHANGED <<depsDir, deps, series>>
<1>1. pc[p] \in UpdatePhases
  BY InsideUpdates DEF Updating
<1>2. ASSUME NEW phase \in UpdatePhases, Goto(p, phase) PROVE Updating(p)' /\ UNCHANGED report
  BY <1>2, WholeTypes DEF Goto, Updating
<1>3. ASSUME UNCHANGED <<pc, report>> PROVE Updating(p)' /\ UNCHANGED report
  BY <1>1, <1>3 DEF Updating
<1>4. CASE GetData(p) \/ RemoveDir(p)
  BY <1>1, <1>2, <1>4 DEF GetData, RemoveDir, Updating, UpdatePhases
<1>5. CASE BackupFile(p) \/ RemoveFile(p) \/ PlaceFile(p)
  BY <1>1, <1>3, <1>5 DEF BackupFile, RemoveFile, PlaceFile, Updating
<1>6. CASE Build(p) \/ Clear(p) \/ BackupDone(p) \/ MakeDir(p) \/ FetchToSave(p) \/ Truncate(p)
  BY <1>1, <1>2, <1>6 DEF Build, Clear, BackupDone, MakeDir, FetchToSave, Truncate, Updating,
                          UpdatePhases
<1> QED
  BY <1>4, <1>5, <1>6 DEF Inside

LEMMA InsideProgress ==
    ASSUME WholeInv, Reachable, NEW p \in Process, Inside(p)
    PROVE  Progress(p)'
<1>0. Progress(p) /\ Fetch = {server} /\ server \in Nat /\ server # 0
  BY WholeTypes DEF WholeInv, Fetch, Reachable
<1>1. Updating(p) /\ seen[p] = server /\ report[p] = "" /\ UNCHANGED server
  BY <1>0, InsideUpdates DEF Progress, Updating, UpdatePhases
<1>2. ASSUME NEW o, End(p, o) PROVE Progress(p)'
  BY <1>2, GoneProgress DEF End
<1>3. ASSUME NEW phase \in {"build", "clear", "backup", "remove", "mkdir"}, pc'[p] = phase,
             report'[p] = report[p], seen'[p] = server,
             phase # "build" => tmp'[p] = Full(server)
      PROVE  Progress(p)'
  BY <1>1, <1>3 DEF Progress, Full
<1>4. CASE GetData(p)
  <2>1. pc'[p] = "build" /\ seen'[p] = server /\ report'[p] = report[p]
    BY <1>0, <1>4, WholeTypes DEF GetData, Goto
  <2> QED
    BY <1>3, <2>1
<1>5. CASE Build(p)
  <2>1. "fetch" \notin Events
    BY DEF Reachable
  <2>2. tmp' = [tmp EXCEPT ![p] = [k \in Package |-> IF k \in Package THEN seen[p] ELSE 0]]
    BY <1>5, <2>1 DEF Build
  <2>3. tmp'[p] = [k \in Package |-> seen[p]]
    BY <2>2, WholeTypes
  <2>4. tmp'[p] = Full(server)
    BY <1>1, <2>3 DEF Full
  <2>5. pc'[p] = "clear" /\ seen'[p] = seen[p] /\ report'[p] = report[p]
    BY <1>5, WholeTypes DEF Build, Goto
  <2> QED
    BY <1>1, <1>3, <2>4, <2>5
<1>6. CASE Clear(p) \/ BackupDone(p)
  <2>1. pc'[p] \in {"backup", "remove", "mkdir"} /\ UNCHANGED <<seen, tmp, report>>
    BY <1>6, WholeTypes DEF Clear, BackupDone, Goto
  <2>2. tmp[p] = Full(server)
    BY <1>0, <1>6 DEF Clear, BackupDone, Progress
  <2> QED
    BY <1>1, <1>3, <2>1, <2>2
<1>7. CASE BackupFile(p) \/ RemoveFile(p)
  <2>1. CASE UNCHANGED <<pc, report, seen, tmp>>
    <3>1. pc[p] \in {"backup", "remove"} /\ tmp[p] = Full(server)
      BY <1>0, <1>7 DEF BackupFile, RemoveFile, Progress
    <3> QED
      BY <1>1, <1>3, <2>1, <3>1
  <2> QED
    BY <1>2, <1>7, <2>1 DEF BackupFile, RemoveFile
<1>8. CASE RemoveDir(p)
  <2>1. CASE Goto(p, "mkdir") /\ UNCHANGED locals
    <3>1. tmp[p] = Full(server)
      BY <1>0, <1>8 DEF RemoveDir, Progress
    <3>2. pc'[p] = "mkdir"
      BY <2>1, WholeTypes DEF Goto
    <3> QED
      BY <1>1, <1>3, <2>1, <3>1, <3>2 DEF Goto
  <2> QED
    BY <1>2, <1>8, <2>1 DEF RemoveDir
<1>9. CASE MakeDir(p)
  <2>1. /\ pc'[p] = "place" /\ depsDir' /\ todo'[p] = FilesOf(tmp[p])
        /\ UNCHANGED <<seen, tmp, report>>
    BY <1>9, WholeTypes DEF MakeDir, Goto
  <2>2. tmp[p] = Full(server)
    BY <1>0, <1>9 DEF MakeDir, Progress
  <2>3. FilesOf(tmp[p]) = Package
    BY <1>0, <2>2 DEF FilesOf, Full
  <2> QED
    BY <1>1, <2>1, <2>2, <2>3 DEF Progress, Full
<1>10. CASE PlaceFile(p)
  <2>1. /\ pc[p] = "place" /\ tmp[p] = Full(server)
        /\ \A k \in Package \ todo[p] : deps[k] = server
    BY <1>0, <1>10 DEF PlaceFile, Progress
  <2>2. PICK k \in todo[p] :
          /\ deps' = [deps EXCEPT ![k] = tmp[p][k]] /\ todo' = [todo EXCEPT ![p] = @ \ {k}]
          /\ depsDir' /\ UNCHANGED <<pc, seen, tmp, report>>
    BY <1>10 DEF PlaceFile
  <2>3. todo'[p] = todo[p] \ {k} /\ k \in Package /\ tmp[p][k] = server
    BY <2>1, <2>2, WholeTypes DEF Full
  <2>4. \A i \in Package \ todo'[p] : deps'[i] = server
    BY <2>1, <2>2, <2>3, WholeTypes
  <2> QED
    BY <1>1, <2>1, <2>2, <2>4 DEF Progress, Full
<1>11. CASE FetchToSave(p)
  <2>1. /\ pc[p] = "place" /\ pc'[p] = "truncate" /\ todo[p] = {} /\ seen'[p] = server
        /\ UNCHANGED <<depsDir, deps, report>>
    BY <1>0, <1>11, WholeTypes DEF FetchToSave, Goto
  <2>2. depsDir /\ \A k \in Package : deps[k] = server
    BY <1>0, <2>1 DEF Progress
  <2>3. deps = [k \in Package |-> deps[k]]
    BY WholeTypes
  <2>4. deps = Full(server)
    BY <2>2, <2>3 DEF Full
  <2> QED
    BY <1>1, <2>1, <2>2, <2>4 DEF Progress, Full
<1>12. CASE Truncate(p)
  <2>1. /\ pc[p] = "truncate" /\ pc'[p] = "write" /\ UNCHANGED <<depsDir, deps, seen, report>>
    BY <1>12, WholeTypes DEF Truncate, Goto
  <2> QED
    BY <1>0, <1>1, <2>1 DEF Progress, Full
<1> QED
  BY <1>4, <1>5, <1>6, <1>7, <1>8, <1>9, <1>10, <1>11, <1>12 DEF Inside

LEMMA NextWholeInv == ASSUME WholeInv, Reachable, [Next]_vars PROVE WholeInv'
<1>1. TypeOK' /\ LockInv' /\ LockUse'
  BY NextType, NextKeepsLock, NextLockUse DEF WholeInv
<1>2. CASE UNCHANGED vars
  BY <1>1, <1>2 DEF WholeInv, Progress, Full
<1>3. CASE Publish \/ RemoveDeps
  <2>1. \A q \in Process : pc'[q] = "idle"
    BY <1>3 DEF Publish, RemoveDeps, Reachable, AllIdle
  <2> QED
    BY <1>1, <2>1 DEF WholeInv, Progress
<1>4. ASSUME NEW p \in Process, Act(p) PROVE WholeInv'
  <2>1. Progress(p)'
    BY <1>4, ActCases, OutsideProgress, InsideProgress, GoneProgress DEF Write, Fail, Crash, End
  <2>2. \A q \in Process : Progress(q)'
    BY <1>4, <2>1, OthersProgress
  <2> QED
    BY <1>1, <2>2 DEF WholeInv
<1> QED
  BY <1>2, <1>3, <1>4, NextCases

LEMMA InitWholeInv == ASSUME Init PROVE WholeInv
<1>1. TypeOK /\ LockInv /\ LockUse
  BY InitType, LockInitInv, InitLockUse DEF Init
<1>2. \A q \in Process : Progress(q)
  BY DEF Init, Progress
<1> QED
  BY <1>1, <1>2 DEF WholeInv

(* An update that reports success (Manager.php:139) has every package of   *)
(* the series whose list it saves, whatever befell the updates before it   *)
(* and those beside it.                                                    *)
THEOREM SuccessMeansWhole == ASSUME Reachable PROVE Spec => SuccessIsWhole
<1>1. ASSUME WholeInv, NEW p \in Process, [Next]_vars,
             pc[p] = "write", report'[p] = "success", pc'[p] = "idle"
      PROVE  deps = Full(series'[Tag[p]])
  <2>1. Act(p)
    <3>1. ASSUME NEW q \in Process, Act(q), q # p PROVE FALSE
      BY <1>1, <3>1, ActOfOne
    <3>2. ~(Publish \/ RemoveDeps \/ UNCHANGED vars)
      BY <1>1 DEF Publish, RemoveDeps
    <3> QED
      BY <1>1, <3>1, <3>2, NextCases
  <2>2. ~Outside(p)
    BY <1>1 DEF Outside, Start, Compare, TakeLock, WaitForOther, WaitOver, OSGrant
  <2>3. ~Inside(p)
    BY <1>1 DEF Inside, GetData, Build, Clear, BackupFile, BackupDone, RemoveFile, RemoveDir,
         MakeDir, PlaceFile, FetchToSave, Truncate
  <2>4. ~Fail(p) /\ ~Crash(p)
    BY <1>1, WholeTypes DEF Fail, Crash, End, Leave
  <2>5. series' = [series EXCEPT ![Tag[p]] = seen[p]]
    BY <2>1, <2>2, <2>3, <2>4, ActCases DEF Write
  <2>6. deps = Full(server) /\ seen[p] = server
    BY <1>1 DEF WholeInv, Progress
  <2>7. series'[Tag[p]] = seen[p]
    BY <1>1, <2>5, WholeTypes DEF TagSet
  <2> QED
    BY <2>6, <2>7
<1>2. WholeInv /\ [Next]_vars
        => [\A p \in Process :
              pc[p] = "write" /\ report'[p] = "success" /\ pc'[p] = "idle"
                 => deps = Full(series'[Tag[p]])]_vars
  BY <1>1
<1>3. WholeInv /\ [Next]_vars => WholeInv'
  BY NextWholeInv
<1>4. Init => WholeInv
  BY InitWholeInv
<1> QED
  BY <1>2, <1>3, <1>4, PTL DEF Spec, SuccessIsWhole
-----------------------------------------------------------------------------
(* No package file is lost, whatever fails and whoever is killed.          *)

(* Nobody uses --force, all spell the path alike, no two backups begin in  *)
(* one minute, and the user does not remove the directory.  Fetches and    *)
(* file system calls may fail, processes may be killed, and the server may *)
(* publish at any time.                                                    *)
Orderly ==
    /\ \A c \in Commands : ~c.force
    /\ \A p, q \in Process : Tag[p] = Tag[q]
    /\ Events \subseteq {"publish", "fetch", "fs", "crash"}

(* Where the files are in each phase: what is still to be moved into the   *)
(* backup has no copy there yet, a directory that was backed up is empty   *)
(* when it is removed, and what is placed replaces nothing else.           *)
FilesSafe(p) ==
    /\ pc[p] = "backup" => /\ todo[p] = FilesOf(deps)
                           /\ \A k \in todo[p] : backup[stamp[p]][k] = 0
    /\ pc[p] = "remove" => /\ todo[p] = FilesOf(deps)
                           /\ opt[p].backup => deps = NoFiles
    /\ pc[p] = "mkdir" => deps = NoFiles
    /\ pc[p] = "place" => \A k \in Package : deps[k] \in {0, tmp[p][k]}

LossInv ==
    /\ TypeOK /\ LockInv /\ LockUse
    /\ ~depsDir => deps = NoFiles
    /\ \A p \in Process : FilesSafe(p)

LEMMA LossTypes ==
    ASSUME LossInv
    PROVE  /\ pc \in [Process -> Phases] /\ opt \in [Process -> Commands]
           /\ seen \in [Process -> Fetched] /\ tmp \in [Process -> Tree]
           /\ todo \in [Process -> SUBSET Package] /\ stamp \in [Process -> 0 .. minute]
           /\ report \in [Process -> Outcomes]
           /\ deps \in Tree /\ deps \in [Package -> 0 .. MaxSeries]
           /\ minute \in Nat /\ backup \in [0 .. minute -> Tree]
           /\ depsDir \in BOOLEAN /\ server \in 1 .. MaxSeries
BY DEF LossInv, TypeOK, LocalTypeOK, WorldTypeOK, Tree

(* The steps that touch the directory or the backups belong to an update,  *)
(* and no other update is running.                                         *)
Moves(p) ==
    \/ Clear(p) \/ BackupFile(p) \/ BackupDone(p) \/ RemoveFile(p) \/ RemoveDir(p)
    \/ MakeDir(p) \/ PlaceFile(p)

LEMMA MovesAlone ==
    ASSUME LossInv, Orderly, NEW p \in Process, Moves(p), NEW q \in Process \ {p}
    PROVE  ~Updating(q) /\ pc'[q] = pc[q]
<1>1. Updating(p)
  BY DEF Moves, Clear, BackupFile, BackupDone, RemoveFile, RemoveDir, MakeDir, PlaceFile,
         Updating, UpdatePhases
<1>2. ~opt[p].force /\ ~opt[q].force /\ Tag[p] = Tag[q]
  BY LossTypes DEF Orderly
<1>3. ~Updating(q)
  BY <1>1, <1>2, OneUpdater DEF LossInv
<1>4. pc'[q] = pc[q]
  BY LossTypes DEF Moves, Clear, BackupFile, BackupDone, RemoveFile, RemoveDir, MakeDir,
                   PlaceFile, Goto, End, Leave
<1> QED
  BY <1>3, <1>4

LEMMA MovesOthersSafe ==
    ASSUME LossInv, Orderly, NEW p \in Process, Moves(p), NEW q \in Process \ {p}
    PROVE  FilesSafe(q)'
BY MovesAlone DEF FilesSafe, Updating, UpdatePhases

(* All other steps leave the directory and the backups alone.              *)
LEMMA OtherSteps ==
    ASSUME LossInv, Orderly, [Next]_vars, \A p \in Process : ~Moves(p)
    PROVE  /\ UNCHANGED dir
           /\ \A p \in Process : FilesSafe(p)'
<1>1. ASSUME NEW p \in Process, NEW o, End(p, o), UNCHANGED <<dir, minute>>
      PROVE  \A q \in Process : FilesSafe(q)'
  <2>1. pc'[p] = "idle"
    BY <1>1, LossTypes DEF End, Leave
  <2>2. \A q \in Process \ {p} : /\ pc'[q] = pc[q] /\ todo'[q] = todo[q] /\ opt'[q] = opt[q]
                                 /\ stamp'[q] = stamp[q] /\ tmp'[q] = tmp[q]
    BY <1>1, LossTypes DEF End, Leave
  <2> QED
    BY <1>1, <2>1, <2>2 DEF LossInv, FilesSafe
<1>2. ASSUME NEW p \in Process, UNCHANGED dir, pc'[p] \notin {"backup", "remove", "mkdir", "place"},
             \A q \in Process \ {p} : /\ pc'[q] = pc[q] /\ todo'[q] = todo[q] /\ opt'[q] = opt[q]
                                      /\ stamp'[q] = stamp[q] /\ tmp'[q] = tmp[q]
      PROVE  \A q \in Process : FilesSafe(q)'
  BY <1>2 DEF LossInv, FilesSafe
<1>3. ASSUME NEW p \in Process, Start(p) \/ TakeLock(p) \/ WaitForOther(p)
      PROVE  UNCHANGED dir /\ \A q \in Process : FilesSafe(q)'
  <2>1. pc'[p] \notin {"backup", "remove", "mkdir", "place"} /\ UNCHANGED dir
    BY <1>3, LossTypes DEF Start, TakeLock, WaitForOther, Goto
  <2>2. \A q \in Process \ {p} : /\ pc'[q] = pc[q] /\ todo'[q] = todo[q] /\ opt'[q] = opt[q]
                                 /\ stamp'[q] = stamp[q] /\ tmp'[q] = tmp[q]
    BY <1>3, LossTypes DEF Start, TakeLock, WaitForOther, Goto
  <2> QED
    BY <1>2, <2>1, <2>2
<1>4. ASSUME NEW p \in Process, Compare(p) \/ GetData(p)
      PROVE  UNCHANGED dir /\ \A q \in Process : FilesSafe(q)'
  <2>1. UNCHANGED <<dir, minute>>
    BY <1>4 DEF Compare, GetData
  <2>2. CASE \E o \in Outcomes : End(p, o)
    BY <1>1, <2>1, <2>2
  <2>3. CASE ~\E o \in Outcomes : End(p, o)
    <3>1. pc'[p] \notin {"backup", "remove", "mkdir", "place"}
      BY <1>4, <2>3, LossTypes DEF Compare, GetData, Goto, Outcomes
    <3>2. \A q \in Process \ {p} : /\ pc'[q] = pc[q] /\ todo'[q] = todo[q] /\ opt'[q] = opt[q]
                                   /\ stamp'[q] = stamp[q] /\ tmp'[q] = tmp[q]
      BY <1>4, <2>3, LossTypes DEF Compare, GetData, Goto, Outcomes
    <3> QED
      BY <1>2, <2>1, <3>1, <3>2
  <2> QED
    BY <2>1, <2>2, <2>3
<1>5. ASSUME NEW p \in Process, WaitOver(p) \/ Fail(p) \/ Write(p)
      PROVE  UNCHANGED dir /\ \A q \in Process : FilesSafe(q)'
  BY <1>1, <1>5 DEF WaitOver, Fail, Write
<1>6. ASSUME NEW p \in Process, Crash(p)
      PROVE  UNCHANGED dir /\ \A q \in Process : FilesSafe(q)'
  <2>1. pc'[p] = "idle" /\ UNCHANGED dir
    BY <1>6, LossTypes DEF Crash, Leave
  <2>2. \A q \in Process \ {p} : /\ pc'[q] = pc[q] /\ todo'[q] = todo[q] /\ opt'[q] = opt[q]
                                 /\ stamp'[q] = stamp[q] /\ tmp'[q] = tmp[q]
    BY <1>6, LossTypes DEF Crash, Leave
  <2> QED
    BY <1>2, <2>1, <2>2
<1>7. ASSUME NEW p \in Process, Build(p) \/ FetchToSave(p) \/ Truncate(p)
      PROVE  UNCHANGED dir /\ \A q \in Process : FilesSafe(q)'
  <2>1. pc'[p] \notin {"backup", "remove", "mkdir", "place"} /\ UNCHANGED dir
    BY <1>7, LossTypes DEF Build, FetchToSave, Truncate, Goto
  <2>2. \A q \in Process \ {p} : /\ pc'[q] = pc[q] /\ todo'[q] = todo[q] /\ opt'[q] = opt[q]
                                 /\ stamp'[q] = stamp[q] /\ tmp'[q] = tmp[q]
    BY <1>7, LossTypes DEF Build, FetchToSave, Truncate, Goto
  <2> QED
    BY <1>2, <2>1, <2>2
<1>8. CASE UNCHANGED <<pc, locals, dir>>
  BY <1>8 DEF LossInv, FilesSafe, FilesOf, NoFiles
<1>9. ~RemoveDeps
  BY DEF RemoveDeps, Orderly
<1> QED
  BY <1>3, <1>4, <1>5, <1>6, <1>7, <1>8, <1>9 DEF Next, Step, Moves, OSGrant, Publish

(* The two loops that empty the directory take what they listed.           *)
LEMMA Emptied ==
    ASSUME LossInv, NEW p \in Process, todo[p] = {}, todo[p] = FilesOf(deps)
    PROVE  deps = NoFiles
<1>1. \A k \in Package : deps[k] = 0
  BY DEF FilesOf
<1>2. deps = [k \in Package |-> deps[k]]
  BY LossTypes
<1> QED
  BY <1>1, <1>2 DEF NoFiles

LEMMA MoveOutSafe ==
    ASSUME LossInv, Orderly, NEW p \in Process,
           Clear(p) \/ BackupFile(p) \/ BackupDone(p) \/ RemoveFile(p)
    PROVE  FilesSafe(p)' /\ (~depsDir' => deps' = NoFiles)
<1>0. FilesSafe(p) /\ (~depsDir => deps = NoFiles)
  BY DEF LossInv
<1>1. ASSUME NEW o, End(p, o) PROVE FilesSafe(p)'
  <2>1. pc'[p] = "idle"
    BY <1>1, LossTypes DEF End, Leave
  <2> QED
    BY <2>1 DEF FilesSafe
<1>2. CASE Clear(p)
  <2>1. UNCHANGED <<depsDir, deps, opt>>
    BY <1>2 DEF Clear
  <2>2. CASE depsDir /\ opt[p].backup
    <3>1. /\ pc'[p] = "backup" /\ todo'[p] = FilesOf(deps)
          /\ stamp'[p] = minute + 1
          /\ backup' = [i \in 0 .. minute + 1 |-> IF i <= minute THEN backup[i] ELSE NoFiles]
      BY <1>2, <2>2, LossTypes DEF Clear, Goto, Minutes, Orderly
    <3>2. minute + 1 \in 0 .. minute + 1 /\ ~(minute + 1 <= minute)
      BY LossTypes
    <3>3. backup'[stamp'[p]] = NoFiles
      BY <3>1, <3>2
    <3>4. \A k \in todo'[p] : backup'[stamp'[p]][k] = 0
      BY <3>1, <3>3 DEF FilesOf, NoFiles
    <3> QED
      BY <1>0, <2>1, <3>1, <3>4 DEF FilesSafe, FilesOf, NoFiles
  <2>3. CASE depsDir /\ ~opt[p].backup
    <3>1. pc'[p] = "remove" /\ todo'[p] = FilesOf(deps)
      BY <1>2, <2>3, LossTypes DEF Clear, Goto
    <3> QED
      BY <1>0, <2>1, <2>3, <3>1 DEF FilesSafe, FilesOf, NoFiles
  <2>4. CASE ~depsDir
    <3>1. pc'[p] = "mkdir"
      BY <1>2, <2>4, LossTypes DEF Clear, Goto
    <3> QED
      BY <1>0, <2>1, <2>4, <3>1 DEF FilesSafe, NoFiles
  <2> QED
    BY <2>2, <2>3, <2>4
<1>3. CASE BackupFile(p)
  <2>1. /\ pc[p] = "backup" /\ todo[p] = FilesOf(deps)
        /\ \A k \in todo[p] : backup[stamp[p]][k] = 0
    BY <1>0, <1>3 DEF BackupFile, FilesSafe
  <2>2. PICK k \in todo[p] :
          /\ backup' = [backup EXCEPT ![stamp[p]][k] = deps[k]]
          /\ deps' = [deps EXCEPT ![k] = 0]
          /\ todo' = [todo EXCEPT ![p] = @ \ {k}]
          /\ UNCHANGED <<depsDir, pc, stamp>>
    <3>1. \A k \in todo[p] : deps[k] # 0
      BY <2>1 DEF FilesOf
    <3> QED
      BY <1>3, <3>1 DEF BackupFile
  <2>3. todo'[p] = todo[p] \ {k} /\ \A i \in Package : deps'[i] = IF i = k THEN 0 ELSE deps[i]
    BY <2>2, LossTypes
  <2>4. todo'[p] = FilesOf(deps')
    BY <2>1, <2>3 DEF FilesOf
  <2>5. \A i \in todo'[p] : backup'[stamp'[p]][i] = 0
    <3>1. stamp[p] \in 0 .. minute /\ backup[stamp[p]] \in [Package -> 0 .. MaxSeries]
      BY LossTypes DEF Tree
    <3>2. backup'[stamp[p]] = [backup[stamp[p]] EXCEPT ![k] = deps[k]]
      BY <2>2, <3>1, LossTypes
    <3>3. \A i \in todo'[p] : i # k /\ i \in todo[p] /\ i \in Package
      BY <2>3, LossTypes
    <3> QED
      BY <2>1, <2>2, <3>1, <3>2, <3>3
  <2>6. ~depsDir' => deps' = NoFiles
    <3>1. ASSUME ~depsDir PROVE FALSE
      BY <1>0, <2>1, <2>2, <3>1 DEF FilesOf, NoFiles
    <3> QED
      BY <2>2, <3>1
  <2> QED
    BY <2>1, <2>2, <2>4, <2>5, <2>6 DEF FilesSafe, FilesOf
<1>4. CASE BackupDone(p)
  <2>1. /\ pc'[p] = "remove" /\ todo[p] = {} /\ todo[p] = FilesOf(deps)
        /\ todo'[p] = FilesOf(deps) /\ UNCHANGED <<depsDir, deps>>
    BY <1>0, <1>4, LossTypes DEF BackupDone, Goto, FilesSafe
  <2>2. deps = NoFiles
    BY <2>1, Emptied
  <2> QED
    BY <2>1, <2>2 DEF FilesSafe, FilesOf, NoFiles
<1>5. CASE RemoveFile(p)
  <2>1. /\ pc[p] = "remove" /\ todo[p] = FilesOf(deps)
        /\ opt[p].backup => deps = NoFiles
    BY <1>0, <1>5 DEF RemoveFile, FilesSafe
  <2>2. PICK k \in todo[p] :
          /\ deps' = [deps EXCEPT ![k] = 0]
          /\ todo' = [todo EXCEPT ![p] = @ \ {k}]
          /\ UNCHANGED <<depsDir, pc, opt>>
    <3>1. \A k \in todo[p] : deps[k] # 0
      BY <2>1 DEF FilesOf
    <3> QED
      BY <1>5, <3>1 DEF RemoveFile
  <2>3. todo'[p] = todo[p] \ {k} /\ \A i \in Package : deps'[i] = IF i = k THEN 0 ELSE deps[i]
    BY <2>2, LossTypes
  <2>4. todo'[p] = FilesOf(deps')
    BY <2>1, <2>3 DEF FilesOf
  <2>5. depsDir /\ ~opt[p].backup
    BY <1>0, <2>1, <2>2 DEF FilesOf, NoFiles
  <2> QED
    BY <2>1, <2>2, <2>4, <2>5 DEF FilesSafe, FilesOf
<1> QED
  BY <1>2, <1>3, <1>4, <1>5

LEMMA MoveInSafe ==
    ASSUME LossInv, Orderly, NEW p \in Process, RemoveDir(p) \/ MakeDir(p) \/ PlaceFile(p)
    PROVE  FilesSafe(p)' /\ (~depsDir' => deps' = NoFiles)
<1>0. FilesSafe(p) /\ (~depsDir => deps = NoFiles)
  BY DEF LossInv
<1>1. CASE RemoveDir(p)
  <2>1. pc[p] = "remove" /\ todo[p] = {} /\ todo[p] = FilesOf(deps) /\ UNCHANGED deps
    BY <1>0, <1>1 DEF RemoveDir, FilesSafe
  <2>2. deps = NoFiles /\ deps' = NoFiles
    BY <2>1, Emptied DEF NoFiles
  <2>3. pc'[p] \in {"mkdir", "idle"}
    BY <1>1, LossTypes DEF RemoveDir, Goto, End, Leave
  <2> QED
    BY <2>2, <2>3 DEF FilesSafe, NoFiles
<1>2. CASE MakeDir(p)
  <2>1. pc'[p] = "place" /\ deps = NoFiles /\ UNCHANGED deps /\ depsDir'
    BY <1>0, <1>2, LossTypes DEF MakeDir, Goto, FilesSafe
  <2>2. \A k \in Package : deps'[k] = 0
    BY <2>1 DEF NoFiles
  <2> QED
    BY <2>1, <2>2 DEF FilesSafe
<1>3. CASE PlaceFile(p)
  <2>1. /\ pc[p] = "place" /\ UNCHANGED <<pc, tmp>> /\ depsDir'
        /\ \A k \in Package : deps[k] \in {0, tmp[p][k]}
    BY <1>0, <1>3 DEF PlaceFile, FilesSafe
  <2>2. PICK k \in todo[p] : deps' = [deps EXCEPT ![k] = tmp[p][k]]
    BY <1>3 DEF PlaceFile
  <2>3. \A i \in Package : deps'[i] = IF i = k THEN tmp[p][k] ELSE deps[i]
    BY <2>2, LossTypes
  <2> QED
    BY <2>1, <2>3 DEF FilesSafe
<1> QED
  BY <1>1, <1>2, <1>3

LEMMA NextLossInv == ASSUME LossInv, Orderly, [Next]_vars PROVE LossInv'
<1>1. TypeOK' /\ LockInv' /\ LockUse'
  BY NextType, NextKeepsLock, NextLockUse DEF LossInv
<1>2. CASE \A p \in Process : ~Moves(p)
  <2>1. ~depsDir' => deps' = NoFiles
    BY <1>2, OtherSteps DEF LossInv, NoFiles
  <2> QED
    BY <1>1, <1>2, <2>1, OtherSteps DEF LossInv
<1>3. ASSUME NEW p \in Process, Moves(p) PROVE LossInv'
  <2>1. FilesSafe(p)' /\ (~depsDir' => deps' = NoFiles)
    BY <1>3, MoveOutSafe, MoveInSafe DEF Moves
  <2>2. \A q \in Process : FilesSafe(q)'
    BY <1>3, <2>1, MovesOthersSafe
  <2> QED
    BY <1>1, <2>1, <2>2 DEF LossInv
<1> QED
  BY <1>2, <1>3

(* What a step of an update does to the copies of one package's file.      *)
LEMMA MoveKeeps ==
    ASSUME LossInv, Orderly, NEW p \in Process, Moves(p),
           pc[p] = "remove" => opt[p].backup, NEW k \in Package
    PROVE  Kept(k) \ {0} \subseteq Kept(k)'
<1>0. FilesSafe(p) /\ (~depsDir => deps = NoFiles) /\ DOMAIN backup = 0 .. minute
  BY LossTypes DEF LossInv
<1>1. SUFFICES /\ deps[k] # 0 => deps[k] \in Kept(k)'
               /\ \A m \in DOMAIN backup : backup[m][k] # 0 => backup[m][k] \in Kept(k)'
  BY DEF Kept
<1>2. CASE UNCHANGED <<deps, backup>>
  BY <1>2 DEF Kept
<1>3. CASE Clear(p)
  <2>1. CASE UNCHANGED backup
    BY <1>2, <1>3, <2>1 DEF Clear
  <2>2. ASSUME NEW m \in Minutes,
               backup' = [i \in 0 .. m |-> IF i <= minute THEN backup[i] ELSE NoFiles]
        PROVE  \A i \in DOMAIN backup : i \in DOMAIN backup' /\ backup'[i] = backup[i]
    BY <1>0, <2>2, LossTypes DEF Minutes, Orderly
  <2>3. deps' = deps
    BY <1>3 DEF Clear
  <2>4. CASE \A i \in DOMAIN backup : i \in DOMAIN backup' /\ backup'[i] = backup[i]
    BY <2>3, <2>4 DEF Kept
  <2> QED
    BY <1>3, <2>1, <2>2, <2>4 DEF Clear
<1>4. CASE BackupFile(p)
  <2>1. /\ pc[p] = "backup" /\ todo[p] = FilesOf(deps)
        /\ \A i \in todo[p] : backup[stamp[p]][i] = 0
    BY <1>0, <1>4 DEF BackupFile, FilesSafe
  <2>2. PICK j \in todo[p] :
          /\ backup' = [backup EXCEPT ![stamp[p]][j] = deps[j]]
          /\ deps' = [deps EXCEPT ![j] = 0]
    <3>1. \A i \in todo[p] : deps[i] # 0
      BY <2>1 DEF FilesOf
    <3> QED
      BY <1>4, <3>1 DEF BackupFile
  <2>3. stamp[p] \in 0 .. minute /\ j \in Package
    BY LossTypes
  <2>4. DOMAIN backup' = 0 .. minute
    BY <2>2, LossTypes
  <2>5. \A m \in 0 .. minute : backup[m] \in [Package -> 0 .. MaxSeries]
    BY LossTypes DEF Tree
  <2>6. \A m \in 0 .. minute : backup'[m][k] = IF m = stamp[p] /\ k = j THEN deps[k] ELSE backup[m][k]
    BY <2>2, <2>3, <2>5, LossTypes
  <2>7. deps[k] # 0 => deps[k] \in Kept(k)'
    <3>1. CASE k = j
      BY <2>3, <2>4, <2>6, <3>1 DEF Kept
    <3>2. CASE k # j
      BY <2>2, <3>2, LossTypes DEF Kept
    <3> QED
      BY <3>1, <3>2
  <2>8. \A m \in DOMAIN backup : backup[m][k] # 0 => backup'[m][k] = backup[m][k]
    BY <1>0, <2>1, <2>6
  <2> QED
    BY <1>0, <2>4, <2>7, <2>8 DEF Kept
<1>5. CASE BackupDone(p) \/ RemoveDir(p) \/ MakeDir(p)
  BY <1>2, <1>5 DEF BackupDone, RemoveDir, MakeDir
<1>6. CASE RemoveFile(p)
  <2>1. pc[p] = "remove" /\ deps = NoFiles /\ todo[p] = FilesOf(deps)
    BY <1>0, <1>6 DEF RemoveFile, FilesSafe
  <2>2. todo[p] = {}
    BY <2>1 DEF FilesOf, NoFiles
  <2> QED
    BY <1>6, <2>2 DEF RemoveFile
<1>7. CASE PlaceFile(p)
  <2>1. /\ pc[p] = "place" /\ UNCHANGED backup
        /\ \A i \in Package : deps[i] \in {0, tmp[p][i]}
    BY <1>0, <1>7 DEF PlaceFile, FilesSafe
  <2>2. PICK j \in todo[p] : deps' = [deps EXCEPT ![j] = tmp[p][j]]
    BY <1>7 DEF PlaceFile
  <2>3. deps[k] # 0 => deps'[k] = deps[k]
    BY <2>1, <2>2, LossTypes
  <2> QED
    BY <2>1, <2>3 DEF Kept
<1> QED
  BY <1>3, <1>4, <1>5, <1>6, <1>7 DEF Moves

LEMMA InitLossInv == ASSUME Init PROVE LossInv
<1>1. TypeOK /\ LockInv /\ LockUse
  BY InitType, LockInitInv, InitLockUse DEF Init
<1>2. \A q \in Process : FilesSafe(q)
  BY DEF Init, FilesSafe
<1>3. ~depsDir => deps = NoFiles
  BY DEF Init
<1> QED
  BY <1>1, <1>2, <1>3 DEF LossInv

(* Where updates are not forced and all spell the path alike, no package   *)
(* file disappears from the directory and its backups, however many        *)
(* updates compete, fail or are killed, wherever they stand                *)
(* (Manager.php:100-111, FileOps.php: mv() and rm()).                      *)
THEOREM NothingIsLost == ASSUME Orderly PROVE Spec => NothingLost
<1>1. ASSUME LossInv, [Next]_vars, \A p \in Process : pc[p] = "remove" => opt[p].backup,
             NEW k \in Package
      PROVE  Kept(k) \ {0} \subseteq Kept(k)'
  <2>1. CASE \E p \in Process : Moves(p)
    BY <1>1, <2>1, MoveKeeps
  <2>2. CASE \A p \in Process : ~Moves(p)
    BY <1>1, <2>2, OtherSteps DEF Kept
  <2> QED
    BY <2>1, <2>2
<1>2. LossInv /\ [Next]_vars
        => [(\A p \in Process : pc[p] = "remove" => opt[p].backup)
              => \A k \in Package : Kept(k) \ {0} \subseteq Kept(k)']_vars
  BY <1>1
<1>3. LossInv /\ [Next]_vars => LossInv'
  BY NextLossInv
<1>4. Init => LossInv
  BY InitLossInv
<1> QED
  BY <1>2, <1>3, <1>4, PTL DEF Spec, NothingLost
-----------------------------------------------------------------------------
(* One user, whose updates may fail at any step or be killed.              *)

(* One process, the server reachable and publishing between commands only. *)
(* The user may not remove the directory: its saved list would stay        *)
(* behind, and vouch for what a killed update makes of it.                 *)
Lone ==
    /\ \A c \in Commands : ~c.force
    /\ \A p, q \in Process : p = q
    /\ Events \subseteq {"fs", "crash", "sameMinute"}

(* The saved list never vouches for a directory that is not whole, not     *)
(* even in the middle of an update.                                        *)
SavedTrue ==
    \A t \in TagSet : /\ series[t] <= server
                      /\ series[t] = server => depsDir /\ deps = Full(server)

Turn(p) ==
    /\ pc[p] \notin {"wait", "waited"}
    /\ pc[p] = "lock" \/ Updating(p) => series[Tag[p]] # server

CrashInv == WholeInv /\ SavedTrue /\ \A p \in Process : Turn(p)

LEMMA LoneReachable == ASSUME Lone PROVE Reachable
BY DEF Lone, Reachable

(* A step that leaves alone what the saved list is about, ...              *)
LEMMA LeftAlone ==
    ASSUME CrashInv, Lone, NEW p \in Process, Turn(p)',
           UNCHANGED <<server, depsDir, deps, series>>
    PROVE  SavedTrue' /\ \A q \in Process : Turn(q)'
<1>1. \A q \in Process : q = p
  BY DEF Lone
<1>2. SavedTrue'
  BY DEF CrashInv, SavedTrue, Full
<1> QED
  BY <1>1, <1>2

(* ... and one of an update, while the saved list names an older series.   *)
LEMMA Outdated ==
    ASSUME CrashInv, Lone, NEW p \in Process, Inside(p), ~Truncate(p)
    PROVE  SavedTrue' /\ \A q \in Process : Turn(q)'
<1>0. Updating(p) /\ UNCHANGED server
  BY InsideUpdates DEF CrashInv
<1>1. \A q \in Process : q = p
  BY DEF Lone
<1>2. \A t \in TagSet : t = Tag[p]
  BY <1>1 DEF TagSet
<1>3. series[Tag[p]] # server /\ \A t \in TagSet : series[t] <= server
  BY <1>0 DEF CrashInv, Turn, SavedTrue
<1>4. UNCHANGED series
  BY DEF Inside, GetData, Build, Clear, BackupFile, BackupDone, RemoveFile, RemoveDir, MakeDir,
         PlaceFile, FetchToSave
<1>5. SavedTrue'
  BY <1>0, <1>2, <1>3, <1>4 DEF SavedTrue
<1>6. pc'[p] \notin {"wait", "waited", "lock"}
  BY InsideGoesOn, WholeTypes DEF CrashInv, End, Leave, Updating, UpdatePhases
<1>7. Turn(p)'
  BY <1>0, <1>3, <1>4, <1>6 DEF Turn
<1> QED
  BY <1>1, <1>5, <1>7

LEMMA GoneTurn ==
    ASSUME CrashInv, NEW p \in Process, NEW o, Leave(p, o)
    PROVE  Turn(p)'
<1>1. pc'[p] = "idle"
  BY WholeTypes DEF CrashInv, Leave
<1> QED
  BY <1>1 DEF Turn, Updating, UpdatePhases

LEMMA OutsideCrash ==
    ASSUME CrashInv, Lone, NEW p \in Process, Outside(p) \/ Fail(p) \/ Crash(p)
    PROVE  SavedTrue' /\ \A q \in Process : Turn(q)'
<1>0. WholeInv /\ Turn(p) /\ Progress(p)
  BY DEF CrashInv, WholeInv
<1>1. UNCHANGED <<server, depsDir, deps, series>>
  BY OutsideLeaves
<1>2. SUFFICES Turn(p)'
  BY <1>1, <1>2, LeftAlone
<1>3. CASE Start(p)
  <2>1. pc'[p] = "compare"
    BY <1>0, <1>3, WholeTypes DEF Start, Lone
  <2> QED
    BY <2>1 DEF Turn, Updating, UpdatePhases
<1>4. CASE Compare(p)
  <2>1. CASE Goto(p, "lock") /\ UpdatesAvailable(p)
    <3>1. pc'[p] = "lock" /\ seen[p] = server
      BY <1>0, <1>4, <2>1, WholeTypes DEF Compare, Goto, Progress
    <3>2. series[Tag[p]] # server
      BY <2>1, <3>1 DEF UpdatesAvailable, CrashInv, SavedTrue, TagSet
    <3> QED
      BY <1>1, <3>1, <3>2 DEF Turn
  <2> QED
    BY <1>4, <2>1, GoneTurn DEF Compare, End
<1>5. CASE TakeLock(p)
  <2>1. pc[p] = "lock" /\ status[p] = "none" /\ DoLock(p, "ex", FALSE)
    BY <1>5 DEF TakeLock, New
  <2>2. Compatible(p, "ex")
    BY DEF Compatible, Lone
  <2>3. Locked(p)'
    BY <1>0, <2>1, <2>2 DEF DoLock, Locked, CanOpen, WholeInv, LockInv, LockTypeOK
  <2>4. pc'[p] = "getData"
    BY <1>0, <1>5, <2>3, WholeTypes DEF TakeLock, Goto
  <2> QED
    BY <1>0, <1>1, <2>1, <2>4 DEF Turn
<1>6. ~WaitForOther(p) /\ ~WaitOver(p)
  BY <1>0 DEF WaitForOther, WaitOver, Turn
<1>7. CASE OSGrant(p)
  <2>1. UNCHANGED depsVars
    BY <1>7 DEF OSGrant
  <2> QED
    BY <1>0, <2>1 DEF Turn, Updating
<1>8. CASE Fail(p) \/ Crash(p)
  BY <1>8, GoneTurn DEF Crash, Fail, End
<1> QED
  BY <1>3, <1>4, <1>5, <1>6, <1>7, <1>8 DEF Outside

(* The list is saved when the directory is whole, and not before.          *)
LEMMA SaveCrash ==
    ASSUME CrashInv, Lone, NEW p \in Process, Truncate(p) \/ Write(p)
    PROVE  SavedTrue' /\ \A q \in Process : Turn(q)'
<1>0. WholeInv /\ Progress(p) /\ \A q \in Process : q = p
  BY DEF CrashInv, WholeInv, Lone
<1>1. \A t \in TagSet : t = Tag[p]
  BY <1>0 DEF TagSet
<1>2. depsDir /\ deps = Full(server) /\ seen[p] = server
  BY <1>0 DEF Truncate, Write, Progress
<1>3. server' = server /\ depsDir' = depsDir /\ deps' = deps
  BY DEF Truncate, Write
<1>4. server \in Nat /\ server # 0 /\ Tag[p] \in TagSet
  BY <1>0, WholeTypes DEF TagSet
<1>5. CASE Truncate(p)
  <2>1. pc'[p] = "write" /\ series'[Tag[p]] = 0
    BY <1>0, <1>4, <1>5, WholeTypes DEF Truncate, Goto
  <2>2. 0 <= server' /\ 0 # server'
    BY <1>3, <1>4
  <2>3. Turn(p)'
    BY <2>1, <2>2 DEF Turn
  <2>4. \A t \in TagSet : series'[t] = 0
    BY <1>1, <2>1, Zenon
  <2>5. SavedTrue'
    BY <2>2, <2>4 DEF SavedTrue
  <2> QED
    BY <1>0, <2>3, <2>5
<1>6. CASE Write(p)
  <2>1. series'[Tag[p]] = server
    BY <1>0, <1>2, <1>4, <1>6, WholeTypes DEF Write
  <2>2. \A t \in TagSet : series'[t] = server
    BY <1>1, <2>1, Zenon
  <2>3. server' <= server'
    BY <1>3, <1>4
  <2>4. depsDir' /\ deps' = Full(server)'
    BY <1>2, <1>3 DEF Full
  <2>5. SavedTrue'
    BY <1>3, <2>2, <2>3, <2>4 DEF SavedTrue
  <2>6. Turn(p)'
    BY <1>6, GoneTurn DEF Write, End
  <2> QED
    BY <1>0, <2>5, <2>6
<1> QED
  BY <1>5, <1>6

LEMMA NextCrashInv == ASSUME CrashInv, Lone, [Next]_vars PROVE CrashInv'
<1>1. WholeInv'
  BY NextWholeInv, LoneReachable DEF CrashInv
<1>2. CASE UNCHANGED vars
  BY <1>1, <1>2 DEF CrashInv, SavedTrue, Turn, Updating, Full
<1>3. CASE Publish
  <2>1. /\ server' = server + 1 /\ \A q \in Process : pc'[q] = "idle"
        /\ UNCHANGED <<series, depsDir, deps>>
    BY <1>3 DEF Publish, Lone, AllIdle
  <2>2. \A q \in Process : Turn(q)'
    BY <2>1 DEF Turn, Updating, UpdatePhases
  <2>3. \A t \in TagSet : series[t] <= server /\ series[t] \in Int /\ server \in Int
    BY WholeTypes DEF CrashInv, SavedTrue, Fetched, NoSeries
  <2>4. \A t \in TagSet : series'[t] <= server' /\ series'[t] # server'
    BY <2>1, <2>3
  <2>5. SavedTrue'
    BY <2>4 DEF SavedTrue
  <2> QED
    BY <1>1, <2>2, <2>5 DEF CrashInv
<1>4. ~RemoveDeps
  BY DEF RemoveDeps, Lone
<1>5. ASSUME NEW p \in Process, Act(p)
      PROVE  SavedTrue' /\ \A q \in Process : Turn(q)'
  BY <1>5, ActCases, OutsideCrash, Outdated, SaveCrash
<1> QED
  BY <1>1, <1>2, <1>3, <1>4, <1>5, NextCases DEF CrashInv

LEMMA InitCrashInv == ASSUME Init PROVE CrashInv
<1>1. WholeInv
  BY InitWholeInv
<1>2. \A q \in Process : Turn(q)
  BY DEF Init, Turn, Updating, UpdatePhases
<1>3. server = 1
  BY DEF Init
<1>4. CASE depsDir = FALSE /\ series = [t \in TagSet |-> NoSeries]
  <2>1. SavedTrue
    BY <1>3, <1>4 DEF SavedTrue, NoSeries
  <2> QED
    BY <1>1, <1>2, <2>1 DEF CrashInv
<1>5. CASE depsDir = TRUE /\ deps = Full(1) /\ series \in [TagSet -> {NoSeries, 1}]
  <2>1. SavedTrue
    BY <1>3, <1>5 DEF SavedTrue, NoSeries
  <2> QED
    BY <1>1, <1>2, <2>1 DEF CrashInv
<1> QED
  BY <1>4, <1>5 DEF Init

LEMMA CrashInvHolds == ASSUME Lone PROVE Spec => []CrashInv
<1>1. CrashInv /\ [Next]_vars => CrashInv'
  BY NextCrashInv
<1>2. Init => CrashInv
  BY InitCrashInv
<1> QED
  BY <1>1, <1>2, PTL DEF Spec

(* An update that broke off, at whatever step, is never taken for an       *)
(* installed one: --check vouches only for a whole directory (Series.php:  *)
(* 86, Manager.php:49, Cache.php:57).                                      *)
THEOREM AllClearAfterCrash == ASSUME Lone PROVE Spec => []AllClearIsTrue
<1>1. CrashInv => AllClearIsTrue
  BY DEF CrashInv, SavedTrue, AllClearIsTrue, AllClear
<1> QED
  BY <1>1, CrashInvHolds, PTL
-----------------------------------------------------------------------------
(* phpsdk_deps keeps the promises of DepsService, step by step.            *)

(* What the steps of the service see of the directory.                     *)
InstalledOf(there, tree) ==
    IF there /\ \E v \in 1 .. MaxSeries : tree = Full(v)
      THEN CHOOSE v \in 1 .. MaxSeries : tree = Full(v) ELSE 0
RecordedOf(there, saved) == IF there THEN saved[OneSpelling] ELSE NoSeries
Installed == InstalledOf(depsDir, deps)
Recorded == RecordedOf(depsDir, series)
Updaters == {p \in Process : Updating(p)}
Trusty == Recorded = server => Installed = server

(* The promises are made where nobody uses --force, all spell the path     *)
(* alike, the server is reachable and publishes between commands only, and *)
(* a series is not empty.                                                  *)
Regular == Reachable /\ Process # {} /\ Package # {}

(* What both kinds of behaviours below have in common.                     *)
RegularInv ==
    /\ WholeInv
    /\ \A p \in Process : pc[p] = "waited" /\ Quiet
                            => depsDir /\ deps = Full(server) /\ series[Tag[p]] = server

LEMMA RegularTypes ==
    ASSUME RegularInv
    PROVE  /\ WholeInv
           /\ pc \in [Process -> Phases] /\ opt \in [Process -> Commands]
           /\ seen \in [Process -> Fetched] /\ report \in [Process -> Outcomes]
           /\ deps \in [Package -> 0 .. MaxSeries] /\ depsDir \in BOOLEAN
           /\ series \in [TagSet -> Fetched \cup {NoSeries}]
           /\ server \in 1 .. MaxSeries
BY WholeTypes DEF RegularInv, WholeInv, Progress

LEMMA Spelling == ASSUME Regular, NEW p \in Process PROVE Tag[p] = OneSpelling
<1>1. OneSpelling \in TagSet
  BY DEF OneSpelling, TagSet
<1> QED
  BY <1>1 DEF Regular, Reachable, TagSet

LEMMA FullsDiffer ==
    ASSUME Regular, NEW v, NEW w, Full(v) = Full(w)
    PROVE  v = w
<1>1. PICK k \in Package : TRUE
  BY DEF Regular, Reachable
<1>2. Full(v)[k] = v /\ Full(w)[k] = w
  BY DEF Full
<1> QED
  BY <1>2

LEMMA WholeIsInstalled ==
    ASSUME Regular, NEW v \in 1 .. MaxSeries, depsDir, deps = Full(v)
    PROVE  Installed = v
BY FullsDiffer DEF Installed, InstalledOf

LEMMA ServiceTypes ==
    ASSUME Regular
    PROVE  /\ \A there, tree : InstalledOf(there, tree) \in 0 .. MaxSeries
           /\ \A there : \A saved \in [TagSet -> Fetched \cup {NoSeries}] :
                RecordedOf(there, saved) \in -1 .. MaxSeries
<1>1. MaxSeries \in Nat
  BY DepsAssumption
<1>2. ASSUME NEW there, NEW tree PROVE InstalledOf(there, tree) \in 0 .. MaxSeries
  <2>1. CASE there /\ \E v \in 1 .. MaxSeries : tree = Full(v)
    <3>1. InstalledOf(there, tree) \in 1 .. MaxSeries
      BY <2>1 DEF InstalledOf
    <3> QED
      BY <1>1, <3>1
  <2>2. CASE ~(there /\ \E v \in 1 .. MaxSeries : tree = Full(v))
    BY <1>1, <2>2 DEF InstalledOf
  <2> QED
    BY <2>1, <2>2
<1>3. ASSUME NEW there, NEW saved \in [TagSet -> Fetched \cup {NoSeries}]
      PROVE  RecordedOf(there, saved) \in -1 .. MaxSeries
  <2>1. OneSpelling \in TagSet
    BY DEF OneSpelling, TagSet, Regular, Reachable
  <2>2. saved[OneSpelling] \in Fetched \cup {NoSeries}
    BY <2>1
  <2> QED
    BY <1>1, <2>2 DEF RecordedOf, Fetched, NoSeries
<1> QED
  BY <1>2, <1>3

(* The actions of the service in these terms.                              *)
LEMMA ServiceSteps ==
    /\ Service!ServiceInit <=>
         /\ server = 1 /\ Installed \in {0, 1} /\ Recorded \in {-1, 1}
         /\ Trusty /\ Updaters = {} /\ report = [p \in Process |-> ""]
    /\ \A p \in Process : Service!Ask(p) <=>
         report' = [report EXCEPT ![p] = ""] /\ UNCHANGED <<server, Installed, Recorded, Updaters>>
    /\ \A p \in Process : Service!Answer(p) <=>
         /\ p \notin Updaters /\ report[p] = ""
         /\ \/ report' = [report EXCEPT ![p] = "none"] /\ Recorded = server
            \/ report' = [report EXCEPT ![p] = "updates"] /\ Recorded # server
            \/ report' = [report EXCEPT ![p] = "byother"]
               /\ Updaters = {} /\ Recorded = server /\ Installed = server
            \/ \E o \in {"error", "killed"} : report' = [report EXCEPT ![p] = o]
         /\ UNCHANGED <<server, Installed, Recorded, Updaters>>
    /\ \A p \in Process : Service!Begin(p) <=>
         /\ Updaters = {} /\ report[p] = "" /\ Updaters' = {p}
         /\ UNCHANGED <<server, Installed, Recorded, report>>
    /\ Service!Change <=>
         /\ Updaters # {} /\ Installed' \in 0 .. MaxSeries /\ Recorded' \in -1 .. MaxSeries
         /\ UNCHANGED <<server, Updaters, report>>
    /\ \A p \in Process : Service!Commit(p) <=>
         /\ Updaters = {p} /\ Installed = server /\ Recorded' = server
         /\ report' = [report EXCEPT ![p] = "success"] /\ Updaters' = {}
         /\ UNCHANGED <<server, Installed>>
    /\ \A p \in Process : Service!Abandon(p) <=>
         /\ Updaters = {p} /\ Trusty
         /\ \E o \in {"error", "killed"} : report' = [report EXCEPT ![p] = o]
         /\ Updaters' = {} /\ UNCHANGED <<server, Installed, Recorded>>
    /\ Service!Release <=>
         /\ Updaters = {} /\ server < MaxSeries /\ server' = server + 1
         /\ UNCHANGED <<Installed, Recorded, Updaters, report>>
    /\ Service!Drop <=>
         /\ Updaters = {} /\ Installed' = 0 /\ Recorded' = -1
         /\ UNCHANGED <<server, Updaters, report>>
    /\ UNCHANGED Service!serviceVars <=>
         UNCHANGED <<server, Installed, Recorded, Updaters, report>>
BY DEF Service!ServiceInit, Service!Ask, Service!Answer, Service!Begin, Service!Change,
       Service!Commit, Service!Abandon, Service!Release, Service!Drop, Service!serviceVars,
       Service!Sound, Service!Broken, Service!NoSeries,
       Installed, InstalledOf, Recorded, RecordedOf, Updaters, Trusty, NoSeries

Promised == Service!ServiceNext \/ UNCHANGED Service!serviceVars

LEMMA ServiceCases ==
    /\ \A p \in Process :
         Service!Ask(p) \/ Service!Answer(p) \/ Service!Begin(p) \/ Service!Commit(p)
         \/ Service!Abandon(p) => Promised
    /\ Service!Change \/ Service!Release \/ Service!Drop => Promised
    /\ UNCHANGED Service!serviceVars => Promised
BY DEF Promised, Service!ServiceNext

LEMMA UpdatersAfter ==
    ASSUME RegularInv, NEW p \in Process,
           Act(p)
    PROVE  Updaters' = IF Updating(p)' THEN Updaters \cup {p} ELSE Updaters \ {p}
BY RegularTypes, ActOfOne DEF Updaters, Updating

(* At most one process updates.                                            *)
LEMMA SoleUpdater ==
    ASSUME RegularInv, Regular, NEW p \in Process, Updating(p)
    PROVE  Updaters = {p}
BY RegularTypes, OneAtWork DEF Updaters, Regular, Reachable

LEMMA SeenAlike ==
    ASSUME UNCHANGED <<depsDir, deps, series>>
    PROVE  UNCHANGED <<Installed, Recorded>>
BY DEF Installed, Recorded

(* A process that does not update ends.                                    *)
LEMMA AnswerPromised ==
    ASSUME RegularInv, Regular, NEW p \in Process, pc[p] # "idle", ~Updating(p), NEW o,
           Act(p),
           Leave(p, o), UNCHANGED <<server, depsDir, deps, series>>,
           \/ o = "none" /\ Recorded = server
           \/ o = "updates" /\ Recorded # server
           \/ o = "byother" /\ Updaters = {} /\ Recorded = server /\ Installed = server
           \/ o \in {"error", "killed"}
    PROVE  Promised
<1>1. report[p] = "" /\ report' = [report EXCEPT ![p] = o]
  BY DEF RegularInv, WholeInv, Progress, Leave
<1>2. p \notin Updaters /\ UNCHANGED Updaters
  <2>1. pc'[p] = "idle"
    BY RegularTypes DEF Leave
  <2> QED
    BY <2>1, UpdatersAfter DEF Updaters, Updating, UpdatePhases
<1>3. Service!Answer(p)
  BY <1>1, <1>2, SeenAlike, ServiceSteps
<1> QED
  BY <1>3, ServiceCases

(* What a process does before an update, or instead of one.                *)
LEMMA OutsidePromised ==
    ASSUME RegularInv, Regular, NEW p \in Process, Outside(p)
    PROVE  Promised
<1>0. /\ UNCHANGED <<server, depsDir, deps, series>> /\ UNCHANGED <<Installed, Recorded>>
      /\ Act(p)
  <2>1. UNCHANGED <<server, depsDir, deps, series>>
    BY OutsideLeaves
  <2> QED
    BY <2>1, SeenAlike, ActCases
<1>1. ASSUME UNCHANGED report, Updating(p)' <=> Updating(p) PROVE Promised
  <2>1. UNCHANGED Updaters
    BY <1>0, <1>1, UpdatersAfter DEF Updaters
  <2>2. UNCHANGED Service!serviceVars
    BY <1>0, <1>1, <2>1, ServiceSteps
  <2> QED
    BY <2>2, ServiceCases
<1>2. CASE Start(p)
  <2>1. pc[p] = "idle" /\ pc'[p] = "compare" /\ report' = [report EXCEPT ![p] = ""]
    BY <1>2, RegularTypes DEF Start, Regular, Reachable
  <2>2. UNCHANGED Updaters
    BY <1>0, <1>2, <2>1, UpdatersAfter DEF Updaters, Updating, UpdatePhases
  <2>3. Service!Ask(p)
    BY <1>0, <2>1, <2>2, ServiceSteps
  <2> QED
    BY <2>3, ServiceCases
<1>3. CASE Compare(p)
  <2>1. pc[p] = "compare" /\ seen[p] = server
    BY <1>3 DEF Compare, RegularInv, WholeInv, Progress
  <2>2. Recorded = server <=> ~UpdatesAvailable(p)
    <3>1. server # NoSeries
      BY RegularTypes DEF NoSeries
    <3> QED
      BY <2>1, <3>1, Spelling DEF Recorded, RecordedOf, UpdatesAvailable
  <2>3. CASE Goto(p, "lock")
    <3>1. pc'[p] = "lock" /\ UNCHANGED report
      BY <2>3, RegularTypes DEF Goto
    <3> QED
      BY <1>1, <2>1, <3>1 DEF Updating, UpdatePhases
  <2>4. CASE ~UpdatesAvailable(p) /\ Leave(p, "none")
    BY <1>0, <1>3, <2>1, <2>2, <2>4, AnswerPromised DEF Step, Updating, UpdatePhases
  <2>5. CASE UpdatesAvailable(p) /\ Leave(p, "updates")
    BY <1>0, <1>3, <2>1, <2>2, <2>5, AnswerPromised DEF Step, Updating, UpdatePhases
  <2> QED
    BY <1>3, <2>3, <2>4, <2>5 DEF Compare, End
<1>4. CASE TakeLock(p)
  <2>1. /\ pc[p] = "lock" /\ UNCHANGED report /\ report[p] = ""
        /\ pc'[p] = IF Locked(p)' THEN "getData" ELSE "wait"
        /\ status[p] = "none" /\ DoLock(p, "ex", FALSE)
    BY <1>4, RegularTypes DEF TakeLock, New, Goto, RegularInv, WholeInv, Progress
  <2>2. CASE ~Locked(p)'
    BY <1>1, <2>1, <2>2 DEF Updating, UpdatePhases
  <2>3. CASE Locked(p)'
    <3>1. Compatible(p, "ex")
      BY <2>1, <2>3 DEF DoLock, Locked, CanOpen, lockVars, RegularInv, WholeInv, Progress, LockInv, LockTypeOK
    <3>2. ASSUME NEW q \in Process, Updating(q) PROVE FALSE
      <4>1. q # p
        BY <2>1, <3>2 DEF Updating, UpdatePhases
      <4>2. ~opt[q].force /\ Tag[q] = Tag[p]
        BY RegularTypes DEF Regular, Reachable
      <4>3. status[q] = "locked" /\ mode[q] = "ex"
        BY <3>2, <4>2 DEF RegularInv, WholeInv, Progress, LockUse
      <4>4. granted[q] = "ex"
        BY <4>3 DEF RegularInv, WholeInv, Progress, LockInv, Locked
      <4> QED
        BY <3>1, <4>1, <4>2, <4>4 DEF Compatible
    <3>3. Updaters = {}
      BY <3>2 DEF Updaters
    <3>4. Updaters' = {p}
      BY <1>0, <1>4, <2>1, <2>3, <3>3, UpdatersAfter DEF Updating, UpdatePhases
    <3>5. Service!Begin(p)
      BY <1>0, <2>1, <3>3, <3>4, ServiceSteps
    <3> QED
      BY <3>5, ServiceCases
  <2> QED
    BY <2>2, <2>3
<1>5. CASE WaitForOther(p) \/ OSGrant(p)
  <2>1. UNCHANGED report /\ (Updating(p)' <=> Updating(p))
    BY <1>5, RegularTypes DEF WaitForOther, OSGrant, Goto, Updating, UpdatePhases
  <2> QED
    BY <1>1, <2>1
<1>6. CASE WaitOver(p)
  <2>1. pc[p] = "waited" /\ Locked(p) /\ Leave(p, "byother")
    BY <1>6 DEF WaitOver, End
  <2>2. ASSUME NEW q \in Process, Updating(q) PROVE FALSE
    <3>1. q # p
      BY <2>1, <2>2 DEF Updating, UpdatePhases
    <3>2. ~opt[q].force /\ Tag[q] = Tag[p]
      BY RegularTypes DEF Regular, Reachable
    <3>3. status[q] = "locked" /\ mode[q] = "ex" /\ mode[p] = "ex"
      BY <2>1, <2>2, <3>2 DEF RegularInv, WholeInv, Progress, LockUse, Locked
    <3>4. granted[q] = "ex" /\ granted[p] = "ex"
      BY <2>1, <3>3 DEF RegularInv, WholeInv, Progress, LockInv, Locked
    <3> QED
      BY <3>1, <3>2, <3>4 DEF RegularInv, WholeInv, Progress, LockInv
  <2>3. Updaters = {} /\ Quiet
    BY <2>2 DEF Updaters, Quiet
  <2>4. depsDir /\ deps = Full(server) /\ series[Tag[p]] = server
    BY <2>1, <2>3 DEF RegularInv, WholeInv, Progress
  <2>5. Installed = server /\ Recorded = server
    BY <2>4, RegularTypes, WholeIsInstalled, Spelling DEF Recorded, RecordedOf
  <2> QED
    BY <1>0, <1>6, <2>1, <2>3, <2>5, AnswerPromised DEF Step, Updating, UpdatePhases
<1> QED
  BY <1>2, <1>3, <1>4, <1>5, <1>6 DEF Outside

(* A step in the middle of an update.                                      *)
LEMMA ChangePromised ==
    ASSUME RegularInv, Regular, [Next]_vars, NEW p \in Process, Act(p),
           Updating(p), Updating(p)', UNCHANGED <<server, report>>
    PROVE  Promised
<1>1. Updaters # {} /\ UNCHANGED Updaters
  BY UpdatersAfter DEF Updaters
<1>2. series' \in [TagSet -> Fetched \cup {NoSeries}]
  BY RegularTypes, NextWorldType DEF WholeInv, WorldTypeOK
<1>3. Installed' \in 0 .. MaxSeries
  BY ServiceTypes DEF Installed
<1>4. Recorded' \in -1 .. MaxSeries
  BY <1>2, ServiceTypes DEF Recorded
<1>5. Service!Change
  BY <1>1, <1>3, <1>4, ServiceSteps
<1> QED
  BY <1>5, ServiceCases

(* An update that fails, or is killed.                                     *)
LEMMA AbandonPromised ==
    ASSUME RegularInv, Regular, NEW p \in Process, Updating(p), NEW o \in {"error", "killed"},
           Act(p), Leave(p, o), UNCHANGED server, Trusty, UNCHANGED <<Installed, Recorded>>
    PROVE  Promised
<1>1. Updaters = {p}
  BY SoleUpdater
<1>2. report' = [report EXCEPT ![p] = o] /\ pc'[p] = "idle"
  BY RegularTypes DEF Leave
<1>3. Updaters' = {}
  BY <1>1, <1>2, UpdatersAfter DEF Updating, UpdatePhases
<1>4. Service!Abandon(p)
  BY <1>1, <1>2, <1>3, ServiceSteps
<1> QED
  BY <1>4, ServiceCases

LEMMA WritePromised ==
    ASSUME RegularInv, Regular, NEW p \in Process, Write(p)
    PROVE  Promised
<1>1. /\ pc[p] = "write" /\ Leave(p, "success") /\ UNCHANGED <<server, depsDir, deps>>
      /\ series' = [series EXCEPT ![Tag[p]] = seen[p]]
  BY DEF Write, End
<1>2. depsDir /\ deps = Full(server) /\ seen[p] = server
  BY <1>1 DEF RegularInv, WholeInv, Progress
<1>3. Updating(p)
  BY <1>1 DEF Updating, UpdatePhases
<1>4. Updaters = {p}
  BY <1>3, SoleUpdater
<1>5. report' = [report EXCEPT ![p] = "success"] /\ pc'[p] = "idle"
  BY <1>1, RegularTypes DEF Leave
<1>6. Updaters' = {}
  BY <1>4, <1>5, UpdatersAfter, ActCases DEF Updating, UpdatePhases
<1>7. Installed = server /\ UNCHANGED Installed
  BY <1>1, <1>2, RegularTypes, WholeIsInstalled DEF Installed
<1>8. Recorded' = server
  <2>1. Tag[p] \in TagSet /\ Tag[p] = OneSpelling
    BY Spelling DEF TagSet
  <2>2. series'[OneSpelling] = server
    BY <1>1, <1>2, <2>1, RegularTypes
  <2> QED
    BY <1>1, <1>2, <2>2 DEF Recorded, RecordedOf
<1>9. Service!Commit(p)
  BY <1>1, <1>4, <1>5, <1>6, <1>7, <1>8, ServiceSteps
<1> QED
  BY <1>9, ServiceCases

LEMMA WorldPromised ==
    ASSUME RegularInv, Regular, Publish \/ RemoveDeps
    PROVE  Promised
<1>1. Updaters = {} /\ UNCHANGED <<Updaters, report>>
  BY DEF Publish, RemoveDeps, Regular, Reachable, AllIdle, Updaters, Updating, UpdatePhases
<1>2. CASE Publish
  <2>1. /\ server < MaxSeries /\ server' = server + 1
        /\ UNCHANGED <<depsDir, deps, series>>
    BY <1>2 DEF Publish
  <2>2. Service!Release
    BY <1>1, <2>1, SeenAlike, ServiceSteps
  <2> QED
    BY <2>2, ServiceCases
<1>3. CASE RemoveDeps
  <2>1. depsDir' = FALSE /\ UNCHANGED server
    BY <1>3 DEF RemoveDeps
  <2>2. Installed' = 0 /\ Recorded' = -1
    BY <2>1 DEF Installed, InstalledOf, Recorded, RecordedOf, NoSeries
  <2>3. Service!Drop
    BY <1>1, <2>1, <2>2, ServiceSteps
  <2> QED
    BY <2>3, ServiceCases
<1> QED
  BY <1>2, <1>3

(* Every step is one of the service's, or none, if an update that breaks   *)
(* off leaves a record that may be trusted.                                *)
LEMMA StepPromised ==
    ASSUME RegularInv, Regular, [Next]_vars,
           \A p \in Process : Updating(p) /\ report'[p] \in {"error", "killed"} => Trusty
    PROVE  Promised
<1>1. CASE UNCHANGED vars
  <2>1. UNCHANGED Updaters
    BY <1>1 DEF Updaters, Updating
  <2>2. UNCHANGED Service!serviceVars
    BY <1>1, <2>1, SeenAlike, ServiceSteps
  <2> QED
    BY <2>2, ServiceCases
<1>2. ASSUME NEW p \in Process, Updating(p), NEW o \in {"error", "killed"},
             Act(p), Leave(p, o),
             UNCHANGED <<server, depsDir, deps, series>>
      PROVE  Promised
  <2>1. report'[p] = o
    BY <1>2, RegularTypes DEF Leave
  <2> QED
    BY <1>2, <2>1, SeenAlike, AbandonPromised
<1>3. ASSUME NEW p \in Process, Inside(p) PROVE Promised
  <2>1. Updating(p) /\ UNCHANGED server
    BY <1>3, RegularTypes, InsideUpdates
  <2>2. CASE Updating(p)' /\ UNCHANGED report
    BY <1>3, <2>1, <2>2, ActCases, ChangePromised
  <2>3. CASE End(p, "error") /\ UNCHANGED <<depsDir, deps, series>>
    BY <1>2, <1>3, <2>1, <2>3, ActCases DEF End
  <2> QED
    BY <1>3, <2>2, <2>3, RegularTypes, InsideGoesOn
<1>4. ASSUME NEW p \in Process, Fail(p) PROVE Promised
  <2>1. pc[p] # "idle" /\ Leave(p, "error") /\ UNCHANGED <<server, depsDir, deps, series>>
    BY <1>4 DEF Fail, End, UpdatePhases
  <2> QED
    BY <1>2, <1>4, <2>1, ActCases, AnswerPromised
<1>5. ASSUME NEW p \in Process, Crash(p) PROVE Promised
  <2>1. pc[p] # "idle" /\ Leave(p, "killed") /\ UNCHANGED <<server, depsDir, deps, series>>
    BY <1>5 DEF Crash
  <2> QED
    BY <1>2, <1>5, <2>1, ActCases, AnswerPromised
<1> QED
  BY <1>1, <1>3, <1>4, <1>5, NextCases, ActCases, OutsidePromised, WritePromised, WorldPromised

LEMMA InitPromised == ASSUME Init, Regular PROVE Service!ServiceInit
<1>1. server = 1 /\ Updaters = {} /\ report = [p \in Process |-> ""]
  BY DEF Init, Updaters, Updating, UpdatePhases
<1>2. CASE depsDir = FALSE
  <2>1. Installed = 0 /\ Recorded = -1
    BY <1>2 DEF Installed, InstalledOf, Recorded, RecordedOf, NoSeries
  <2>2. Recorded # server
    <3>1. -1 # 1
      OBVIOUS
    <3> QED
      BY <1>1, <2>1, <3>1
  <2>3. Trusty /\ Installed \in {0, 1} /\ Recorded \in {-1, 1}
    BY <2>1, <2>2 DEF Trusty
  <2> QED
    BY <1>1, <2>3, ServiceSteps
<1>3. CASE depsDir = TRUE /\ deps = Full(1) /\ series \in [TagSet -> {NoSeries, 1}]
  <2>1. Installed = 1
    BY <1>3, WholeIsInstalled, DepsAssumption
  <2>2. OneSpelling \in TagSet
    BY DEF OneSpelling, TagSet, Regular, Reachable
  <2>3. Recorded \in {-1, 1}
    BY <1>3, <2>2 DEF Recorded, RecordedOf, NoSeries
  <2> QED
    BY <1>1, <2>1, <2>3, ServiceSteps DEF Trusty
<1> QED
  BY <1>2, <1>3 DEF Init

(* One user keeps the promises whatever fails and whenever it is killed.   *)
THEOREM LonePromises ==
    ASSUME Lone, Process # {}, Package # {}
    PROVE  Spec => KeepsPromises
<1>0. Regular
  BY LoneReachable DEF Regular, Reachable
<1>1. ASSUME CrashInv, [Next]_vars PROVE [Service!ServiceNext]_(Service!serviceVars)
  <2>1. RegularInv
    BY <1>1 DEF CrashInv, Turn, RegularInv, WholeInv, Progress
  <2>2. Trusty
    <3>1. OneSpelling \in TagSet
      BY DEF OneSpelling, TagSet
    <3>2. server # NoSeries
      BY <2>1, RegularTypes DEF NoSeries
    <3>3. Recorded = server => depsDir /\ deps = Full(server)
      BY <1>1, <3>1, <3>2 DEF CrashInv, SavedTrue, Recorded, RecordedOf
    <3> QED
      BY <1>0, <2>1, <3>3, RegularTypes, WholeIsInstalled DEF Trusty
  <2> QED
    BY <1>0, <1>1, <2>1, <2>2, StepPromised DEF Promised
<1>2. Init => Service!ServiceInit
  BY <1>0, InitPromised
<1> QED
  BY <1>1, <1>2, CrashInvHolds, PTL DEF Spec, KeepsPromises, Service!ServiceSpec

(* Many users keep them while nothing fails.  Those who wait find the      *)
(* newest series recorded as well as installed when no update is running.  *)
CalmInv ==
    /\ WholeInv /\ DepsInv
    /\ \A p \in Process : pc[p] \in {"wait", "waited"} /\ Quiet
                            => depsDir /\ series[Tag[p]] = server

LEMMA CalmRegular ==
    ASSUME CalmInv
    PROVE  RegularInv
BY Types DEF CalmInv, RegularInv, Tidy, InPhase

LEMMA CalmReachable == ASSUME Calm PROVE Reachable
BY DEF Calm, Reachable

(* No update fails.                                                        *)
LEMMA NoErrors ==
    ASSUME DepsInv, Calm, NEW p \in Process, Inside(p)
    PROVE  Updating(p)' /\ UNCHANGED report
<1>0. InPhase(p) /\ Fetch = {server} /\ server # 0
  BY Types, CalmFetch DEF Tidy
<1>1. ASSUME NEW phase \in UpdatePhases, Goto(p, phase) PROVE Updating(p)' /\ UNCHANGED report
  BY <1>1, Types DEF Goto, Updating
<1>2. CASE GetData(p)
  <2>1. Goto(p, "build")
    BY <1>0, <1>2 DEF GetData
  <2> QED
    BY <1>1, <2>1 DEF UpdatePhases
<1>3. CASE RemoveDir(p)
  <2>1. pc[p] = "remove" /\ todo[p] = {} /\ depsDir /\ todo[p] = FilesOf(deps)
    BY <1>0, <1>3 DEF RemoveDir, InPhase
  <2>2. deps = NoFiles
    <3>1. \A k \in Package : deps[k] = 0
      BY <2>1 DEF FilesOf
    <3>2. deps = [k \in Package |-> deps[k]]
      BY Types DEF Tree
    <3> QED
      BY <3>1, <3>2 DEF NoFiles
  <2>3. Goto(p, "mkdir")
    BY <1>3, <2>1, <2>2 DEF RemoveDir
  <2> QED
    BY <1>1, <2>3 DEF UpdatePhases
<1>4. CASE BackupFile(p) \/ RemoveFile(p)
  <2>1. pc[p] \in {"backup", "remove"} /\ \A k \in todo[p] : deps[k] # 0
    BY <1>0, <1>4 DEF BackupFile, RemoveFile, InPhase, FilesOf
  <2>2. UNCHANGED <<pc, report>>
    BY <1>4, <2>1 DEF BackupFile, RemoveFile
  <2> QED
    BY <2>1, <2>2 DEF Updating, UpdatePhases
<1>5. CASE PlaceFile(p)
  BY <1>5 DEF PlaceFile, Updating, UpdatePhases
<1>6. CASE Build(p) \/ Clear(p) \/ BackupDone(p) \/ MakeDir(p) \/ FetchToSave(p) \/ Truncate(p)
  BY <1>1, <1>6 DEF Build, Clear, BackupDone, MakeDir, FetchToSave, Truncate, UpdatePhases
<1> QED
  BY <1>2, <1>3, <1>4, <1>5, <1>6 DEF Inside

(* What those who wait find.                                               *)
LEMMA NextWaiters ==
    ASSUME CalmInv, Calm, [Next]_vars, NEW p \in Process,
           pc'[p] \in {"wait", "waited"}, Quiet'
    PROVE  depsDir' /\ series'[Tag[p]] = server'
<1>0. DepsInv /\ WholeInv /\ pc[p] \in {"lock", "wait", "waited"}
  <2>1. DepsInv /\ WholeInv
    BY DEF CalmInv
  <2>2. CASE pc'[p] = pc[p]
    BY <2>1, <2>2
  <2>3. CASE pc'[p] # pc[p]
    <3>1. Act(p)
      <4>1. ASSUME NEW q \in Process, q # p, Act(q) PROVE FALSE
        BY <2>1, <2>3, <4>1, ActOfOne
      <4>2. ~(Publish \/ RemoveDeps \/ UNCHANGED vars)
        BY <2>3 DEF Publish, RemoveDeps
      <4> QED
        BY <4>1, <4>2, NextCases
    <3>2. ~(Inside(p) \/ Write(p) \/ Fail(p) \/ Crash(p))
      <4>1. pc'[p] \notin UpdatePhases /\ pc'[p] # "idle"
        BY DEF UpdatePhases
      <4> QED
        BY <2>1, <4>1, NoErrors, Types DEF Write, Fail, Crash, End, Leave, Updating
    <3>3. Outside(p)
      BY <3>1, <3>2, ActCases
    <3>4. TakeLock(p) \/ WaitForOther(p)
      BY <2>1, <2>3, <3>3, Types DEF Outside, Start, Compare, WaitOver, OSGrant, Goto, End, Leave, Calm
    <3> QED
      BY <2>1, <3>4 DEF TakeLock, WaitForOther
  <2> QED
    BY <2>2, <2>3
<1>1. pc[p] # "idle"
  BY <1>0
<1>2. CASE ~Quiet
  <2>1. PICK r \in Process : Updating(r)
    BY <1>2 DEF Quiet
  <2>2. ~Updating(r)'
    BY DEF Quiet
  <2>3. Step(r)
    <3>1. pc[r] # "idle" /\ pc'[r] # pc[r]
      BY <2>1, <2>2 DEF Updating, UpdatePhases
    <3> QED
      BY <1>0, <3>1, OwnStep
  <2>4. Write(r)
    <3>1. ~(Compare(r) \/ TakeLock(r) \/ WaitForOther(r) \/ WaitOver(r))
      BY <2>1 DEF Compare, TakeLock, WaitForOther, WaitOver, Updating, UpdatePhases
    <3> QED
      BY <1>0, <2>2, <2>3, <3>1, NoErrors DEF Step, Inside
  <2>5. /\ pc[r] = "write" /\ UNCHANGED <<server, depsDir>>
        /\ series' = [series EXCEPT ![Tag[r]] = seen[r]]
    BY <2>4 DEF Write
  <2>6. depsDir /\ seen[r] = server
    BY <1>0, <2>5, Types DEF Tidy, InPhase
  <2>7. Tag[p] = Tag[r] /\ Tag[r] \in TagSet
    BY DEF Calm, TagSet
  <2> QED
    BY <1>0, <2>5, <2>6, <2>7, Types
<1>3. CASE Quiet
  <2>1. UNCHANGED <<server, depsDir, series>>
    <3>1. ~Publish /\ ~RemoveDeps
      BY <1>1 DEF Publish, RemoveDeps, AllIdle, Calm
    <3>2. ASSUME NEW q \in Process, Act(q)
          PROVE  UNCHANGED <<server, depsDir, series>>
      <4>1. ~Inside(q) /\ ~Write(q)
        BY <1>0, <1>3, InsideUpdates DEF Quiet
      <4> QED
        BY <3>2, <4>1, ActCases, OutsideLeaves
    <3> QED
      BY <3>1, <3>2, NextCases
  <2>2. depsDir /\ series[Tag[p]] = server
    <3>1. CASE pc[p] \in {"wait", "waited"}
      BY <1>3, <3>1 DEF CalmInv
    <3>2. CASE pc[p] = "lock"
      <4>1. pc'[p] # pc[p]
        BY <3>2
      <4>2. Step(p)
        BY <1>0, <1>1, <4>1, OwnStep
      <4>3. TakeLock(p)
        BY <3>2, <4>2 DEF Step, Compare, WaitForOther, WaitOver, GetData, Build, Clear,
             BackupFile, BackupDone, RemoveFile, RemoveDir, MakeDir, PlaceFile,
             FetchToSave, Truncate, Write
      <4>4. ~Locked(p)' /\ status[p] = "none" /\ DoLock(p, "ex", FALSE)
        BY <1>0, <4>3, Types DEF TakeLock, New, Goto
      <4>5. ~Compatible(p, "ex")
        BY <1>0, <4>4, Types DEF DoLock, Locked, CanOpen, lockVars, TypeOK, LockTypeOK
      <4>6. PICK q \in Process : q # p /\ (Updating(q) \/ pc[q] = "waited")
        BY <1>0, <4>5, Holder
      <4>7. pc[q] = "waited"
        BY <1>3, <4>6 DEF Quiet
      <4>8. Tag[p] = Tag[q]
        BY DEF Calm
      <4> QED
        BY <1>3, <4>7, <4>8 DEF CalmInv
    <3> QED
      BY <1>0, <3>1, <3>2
  <2> QED
    BY <2>1, <2>2
<1> QED
  BY <1>2, <1>3

(* Any number of users who update one directory at once keep the promises  *)
(* of DepsService to each other: whoever is told that it has nothing to    *)
(* do, or that another did it, finds the newest series installed           *)
(* (Manager.php:49-139).                                                   *)
THEOREM CalmPromises ==
    ASSUME Calm, Process # {}, Package # {}
    PROVE  Spec => KeepsPromises
<1>0. Regular
  BY CalmReachable DEF Regular
<1>1. ASSUME CalmInv, [Next]_vars PROVE CalmInv'
  <2>1. DepsInv' /\ WholeInv'
    BY <1>1, NextDepsInv, NextWholeInv, CalmReachable DEF CalmInv
  <2> QED
    BY <1>1, <2>1, NextWaiters DEF CalmInv
<1>2. ASSUME CalmInv, [Next]_vars PROVE [Service!ServiceNext]_(Service!serviceVars)
  <2>1. RegularInv /\ DepsInv
    BY <1>2, CalmRegular DEF CalmInv
  <2>2. ASSUME NEW p \in Process, Updating(p), report'[p] \in {"error", "killed"} PROVE FALSE
    <3>1. report[p] = "" /\ report'[p] # report[p]
      BY <2>1, <2>2 DEF RegularInv, WholeInv, Progress, Updating, UpdatePhases
    <3>2. ASSUME NEW q \in Process, Act(q), q # p PROVE FALSE
      BY <2>1, <3>1, <3>2, RegularTypes, ActOfOne
    <3>3. Act(p)
      BY <1>2, <3>1, <3>2, NextCases DEF Publish, RemoveDeps
    <3>4. ~Outside(p)
      BY <2>2, <3>1 DEF Outside, Start, Compare, TakeLock, WaitForOther, WaitOver, OSGrant,
           Updating, UpdatePhases
    <3>5. ~Fail(p) /\ ~Crash(p)
      BY DEF Fail, Crash, Calm
    <3>6. ~Write(p)
      BY <2>1, <2>2, Types DEF Write, End, Leave
    <3> QED
      BY <2>1, <3>1, <3>3, <3>4, <3>5, <3>6, ActCases, NoErrors
  <2> QED
    BY <1>0, <1>2, <2>1, <2>2, StepPromised DEF Promised
<1>3. Init => Service!ServiceInit
  BY <1>0, InitPromised
<1>4. Init => CalmInv
  <2>1. ASSUME Init PROVE DepsInv /\ WholeInv
    BY <2>1, InitDepsInv, InitWholeInv
  <2> QED
    BY <2>1 DEF Init, CalmInv
<1> QED
  BY <1>1, <1>2, <1>3, <1>4, PTL DEF Spec, KeepsPromises, Service!ServiceSpec
=============================================================================
