-------------------------- MODULE FileLock_proofs --------------------------
(***************************************************************************)
(* Proofs about FileLock, for any processes and any tags.  The lemmas say  *)
(* of each operation that it keeps LockInv; they are used again by the     *)
(* modules that build on the lock.                                         *)
(***************************************************************************)
EXTENDS FileLock, TLAPS

(* doLock() in either mode keeps the invariant (Lock.php:56).              *)
LEMMA DoLockKeepsInv ==
    ASSUME LockInv, NEW p \in Process, NEW m \in Modes, NEW block \in BOOLEAN,
           DoLock(p, m, block)
    PROVE  LockInv'
<1>1. CASE UNCHANGED lockVars
  BY <1>1 DEF LockInv, LockTypeOK, Locked, lockVars
<1>2. CASE /\ ~Locked(p) /\ Compatible(p, m)
           /\ mode' = [mode EXCEPT ![p] = m]
           /\ files' = files \cup {Tag[p]}
           /\ status' = [status EXCEPT ![p] = "locked"]
           /\ granted' = [granted EXCEPT ![p] = m]
  BY <1>2 DEF LockInv, LockTypeOK, Locked, Compatible, Modes, TagSet
<1>3. CASE /\ ~Locked(p)
           /\ mode' = [mode EXCEPT ![p] = m]
           /\ files' = files \cup {Tag[p]}
           /\ status' = [status EXCEPT ![p] = IF block THEN "waiting" ELSE "unlocked"]
           /\ UNCHANGED granted
  BY <1>3 DEF LockInv, LockTypeOK, Locked, Modes, TagSet
<1> QED
  BY <1>1, <1>2, <1>3 DEF DoLock

(* The constructor and the two request methods are calls of doLock().      *)
LEMMA NewKeepsInv ==
    ASSUME LockInv, NEW p \in Process, NEW m \in Modes, New(p, m)
    PROVE  LockInv'
BY DoLockKeepsInv DEF New

LEMMA RequestKeepsInv ==
    ASSUME LockInv, NEW p \in Process, NEW m \in Modes, NEW block \in BOOLEAN,
           Request(p, m, block)
    PROVE  LockInv'
BY DoLockKeepsInv DEF Request

(* So does an attempt that ends in an exception (Lock.php:68).             *)
LEMMA OpenFailsKeepsInv ==
    ASSUME LockInv, NEW p \in Process, NEW m \in Modes, OpenFails(p, m)
    PROVE  LockInv'
BY DEF OpenFails, LockInv, LockTypeOK, Locked, Modes

(* A blocked flock() that returns keeps the invariant.                     *)
LEMMA GrantKeepsInv ==
    ASSUME LockInv, NEW p \in Process, Grant(p)
    PROVE  LockInv'
BY DEF Grant, LockInv, LockTypeOK, Locked, Compatible, Modes

(* So do the destructor (Lock.php:27) and the death of a process.          *)
LEMMA DestructKeepsInv ==
    ASSUME LockInv, NEW p \in Process, Destruct(p)
    PROVE  LockInv'
BY DEF Destruct, LockInv, LockTypeOK, Locked, Modes

LEMMA KilledKeepsInv ==
    ASSUME LockInv, NEW p \in Process, Killed(p)
    PROVE  LockInv'
BY DEF Killed, LockInv, LockTypeOK, Locked, Modes

LEMMA LockInitInv == LockInit => LockInv
BY DEF LockInit, LockInv, LockTypeOK, Locked, Modes

LEMMA LockNextInv == LockInv /\ [LockNext]_lockVars => LockInv'
<1> SUFFICES ASSUME LockInv, [LockNext]_lockVars PROVE LockInv'
  OBVIOUS
<1> USE AskedModesAssumption
<1>1. CASE UNCHANGED lockVars
  BY <1>1 DEF LockInv, LockTypeOK, Locked, lockVars
<1>2. ASSUME NEW p \in Process, NEW m \in AskedModes, New(p, m) PROVE LockInv'
  BY <1>2, NewKeepsInv
<1>3. ASSUME NEW p \in Process, NEW m \in AskedModes, NEW block \in BOOLEAN,
             Request(p, m, block)
      PROVE LockInv'
  BY <1>3, RequestKeepsInv
<1>4. ASSUME NEW p \in Process, Grant(p) \/ Destruct(p) \/ Killed(p) PROVE LockInv'
  BY <1>4, GrantKeepsInv, DestructKeepsInv, KilledKeepsInv
<1>5. ASSUME NEW p \in Process, NEW m \in AskedModes, OpenFails(p, m) PROVE LockInv'
  BY <1>5, OpenFailsKeepsInv
<1> QED
  BY <1>1, <1>2, <1>3, <1>4, <1>5 DEF LockNext

(* Type correctness and the inductive invariant of the SDK's use of Lock.  *)
THEOREM LockCorrect == LockSpec => []LockInv
BY LockInitInv, LockNextInv, PTL DEF LockSpec

(* Callers that trust locked() exclude each other (Lock.php:90).           *)
LEMMA InvExcludes == LockInv => LockedExcludes
BY DEF LockInv, LockTypeOK, LockedExcludes, Locked, Modes

(* Two processes that are told "locked" on one tag both share it.        *)
THEOREM LockExclusion == LockSpec => []LockedExcludes
BY LockCorrect, InvExcludes, PTL

-----------------------------------------------------------------------------
(* Every step of the class is a step of the readers-writer lock or leaves  *)
(* it alone.                                                               *)
Hold == [p \in Process |-> IF Locked(p) THEN mode[p] ELSE "no"]

LEMMA InitRefines == LockInit => RW!RWInit
BY DEF LockInit, RW!RWInit, Locked

(* Getting the lock is an Acquire, if the object was not locked before.    *)
LEMMA AcquireRefines ==
    ASSUME LockInv, NEW p \in Process, NEW m \in Modes,
           ~Locked(p), Compatible(p, m),
           mode' = [mode EXCEPT ![p] = m],
           status' = [status EXCEPT ![p] = "locked"]
    PROVE  RW!Acquire(p, m)
<1>1. Hold[p] = "no"
  BY DEF Hold
<1>2. Hold' = [Hold EXCEPT ![p] = m]
  BY DEF Hold, Locked, LockInv, LockTypeOK
<1>3. ASSUME NEW q \in Process \ {p}, Tag[q] = Tag[p]
      PROVE  Hold[q] = "no" \/ (m = "sh" /\ Hold[q] = "sh")
  BY <1>3 DEF Compatible, LockInv, Hold
<1> QED
  BY <1>1, <1>2, <1>3 DEF RW!Acquire, RW!Allowed, Hold

(* doLock() either acquires or changes nothing that locked() tells.        *)
LEMMA DoLockRefines ==
    ASSUME LockInv, NEW p \in Process, NEW m \in Modes, NEW block \in BOOLEAN,
           DoLock(p, m, block)
    PROVE  RW!Acquire(p, m) \/ UNCHANGED Hold
<1>1. CASE UNCHANGED lockVars
  BY <1>1 DEF Hold, Locked, lockVars
<1>2. CASE /\ ~Locked(p) /\ Compatible(p, m)
           /\ mode' = [mode EXCEPT ![p] = m]
           /\ status' = [status EXCEPT ![p] = "locked"]
  BY <1>2, AcquireRefines
<1>3. CASE /\ ~Locked(p)
           /\ mode' = [mode EXCEPT ![p] = m]
           /\ status' = [status EXCEPT ![p] = IF block THEN "waiting" ELSE "unlocked"]
  <2>1. \A q \in Process : Locked(q)' = Locked(q)
    BY <1>3 DEF Locked, LockInv, LockTypeOK
  <2>2. \A q \in Process : Locked(q) => mode'[q] = mode[q]
    BY <1>3 DEF LockInv, LockTypeOK
  <2> QED
    BY <2>1, <2>2 DEF Hold
<1> QED
  BY <1>1, <1>2, <1>3 DEF DoLock

(* Losing the lock is a Release, if the object was locked.                 *)
LEMMA LeaveRefines ==
    ASSUME LockInv, NEW p \in Process,
           status' = [status EXCEPT ![p] = "none"], UNCHANGED mode
    PROVE  RW!Release(p) \/ UNCHANGED Hold
<1>1. Hold' = [Hold EXCEPT ![p] = "no"]
  BY DEF Hold, Locked, LockInv, LockTypeOK
<1>2. CASE Hold[p] = "no"
  BY <1>1, <1>2 DEF Hold
<1>3. CASE Hold[p] # "no"
  BY <1>1, <1>3 DEF RW!Release, Hold
<1> QED
  BY <1>2, <1>3

LEMMA NextRefines == LockInv /\ [LockNext]_lockVars => [RW!RWNext]_Hold
<1> SUFFICES ASSUME LockInv, [LockNext]_lockVars PROVE [RW!RWNext]_Hold
  OBVIOUS
<1> USE AskedModesAssumption
<1>1. CASE UNCHANGED lockVars
  BY <1>1 DEF Hold, Locked, lockVars
<1>2. ASSUME NEW p \in Process, NEW m \in AskedModes, NEW block \in BOOLEAN,
             New(p, m) \/ Request(p, m, block)
      PROVE  [RW!RWNext]_Hold
  <2>1. DoLock(p, m, block) \/ DoLock(p, m, FALSE)
    BY <1>2 DEF New, Request
  <2>2. RW!Acquire(p, m) \/ UNCHANGED Hold
    BY <2>1, DoLockRefines
  <2> QED
    BY <2>2 DEF RW!RWNext, Modes
<1>3. ASSUME NEW p \in Process, Grant(p) PROVE [RW!RWNext]_Hold
  <2>1. PICK m \in Modes : m = mode[p]
    BY DEF LockInv, LockTypeOK
  <2>2. /\ ~Locked(p) /\ Compatible(p, m)
        /\ mode' = [mode EXCEPT ![p] = m]
        /\ status' = [status EXCEPT ![p] = "locked"]
    BY <1>3, <2>1 DEF Grant, Locked, LockInv, LockTypeOK
  <2>3. RW!Acquire(p, m)
    BY <2>2, AcquireRefines
  <2> QED
    BY <2>3 DEF RW!RWNext, Modes
<1>4. ASSUME NEW p \in Process, Destruct(p) \/ Killed(p) PROVE [RW!RWNext]_Hold
  BY <1>4, LeaveRefines DEF Destruct, Killed, RW!RWNext
<1>5. ASSUME NEW p \in Process, NEW m \in AskedModes, OpenFails(p, m) PROVE UNCHANGED Hold
  BY <1>5 DEF OpenFails, Hold, Locked, LockInv, LockTypeOK
<1> QED
  BY <1>1, <1>2, <1>3, <1>4, <1>5 DEF LockNext

(* SDK\Lock, as the SDK uses it, implements a readers-writer lock.         *)
THEOREM LockImplements == LockSpec => ImplementsRWLock
<1>1. RW!RWSpec <=> RW!RWInit /\ [][RW!RWNext]_Hold
  BY PTL DEF RW!RWSpec, Hold
<1> QED
  BY <1>1, LockCorrect, InitRefines, NextRefines, PTL DEF LockSpec, ImplementsRWLock
=============================================================================
