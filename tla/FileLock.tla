------------------------------ MODULE FileLock ------------------------------
(***************************************************************************)
(* SDK\Lock (lib/php/libsdk/SDK/Lock.php): a lock file in the SDK's .tmp   *)
(* directory, named after the hash of a tag and locked with flock().       *)
(*                                                                         *)
(* Every process has at most one Lock object on the tag it uses.  The      *)
(* state of the object is what its properties $locked and $fd say:         *)
(*   "none"      there is no object                                        *)
(*   "unlocked"  $locked is false                                          *)
(*   "waiting"   the process is inside a blocking flock()                  *)
(*   "locked"    $locked is true and $fd is the open, locked handle        *)
(* Only the destructor calls unlock(); what the object would be afterwards *)
(* is not modelled.                                                        *)
(* $wouldBlock is left out: it is written for wouldBlock() only, and no    *)
(* code of the SDK calls wouldBlock().                                     *)
(***************************************************************************)
CONSTANTS
    Process,    \* the processes that use the lock
    Tag,        \* Tag[p]: the tag process p passes to the constructor
    AskedModes  \* the modes the processes ask for; the SDK's own code asks
                \* for "ex" only

Modes == {"sh", "ex"}

ASSUME AskedModesAssumption == AskedModes \subseteq Modes

TagSet == {Tag[p] : p \in Process}

VARIABLES
    status,     \* status[p]: the Lock object of p, see above
    mode,       \* mode[p]: $shared of that object, "sh" or "ex"
    granted,    \* granted[p]: what the operating system granted its handle
    files       \* the tags whose lock file exists

lockVars == <<status, mode, granted, files>>

LockTypeOK ==
    /\ status \in [Process -> {"none", "unlocked", "waiting", "locked"}]
    /\ mode \in [Process -> Modes]
    /\ granted \in [Process -> Modes \cup {"no"}]
    /\ files \subseteq TagSet

LockInit ==
    /\ status = [p \in Process |-> "none"]
    /\ mode = [p \in Process |-> "ex"]
    /\ granted = [p \in Process |-> "no"]
    /\ files \in SUBSET TagSet

-----------------------------------------------------------------------------
(* What locked() returns. *)
Locked(p) == status[p] = "locked"

(* flock() of the operating system: whether a lock on p's handle in mode m *)
(* is compatible with the locks on the other handles of the same file.     *)
Compatible(p, m) ==
    \A q \in Process \ {p} :
        Tag[q] = Tag[p] => granted[q] = "no" \/ (m = "sh" /\ granted[q] = "sh")

(* fopen(): mode "wb" creates the lock file, mode "rb" needs it.           *)
CanOpen(p, m) == m = "ex" \/ Tag[p] \in files

(* A variant of DoLock that does not look at what flock() answered.        *)
DoLockUnchecked(p, m, block) ==
    \/ /\ Locked(p)
       /\ UNCHANGED lockVars
    \/ /\ ~Locked(p) /\ CanOpen(p, m)
       /\ mode' = [mode EXCEPT ![p] = m]
       /\ files' = files \cup {Tag[p]}
       /\ status' = [status EXCEPT ![p] = "locked"]
       /\ granted' = [granted EXCEPT ![p] = IF Compatible(p, m) THEN m ELSE "no"]

(* doLock(): true at once when $locked; otherwise open the file and        *)
(* flock() the handle.                                                     *)
DoLock(p, m, block) ==
    \/ /\ Locked(p)
       /\ UNCHANGED lockVars
    \/ /\ ~Locked(p) /\ CanOpen(p, m)
       /\ mode' = [mode EXCEPT ![p] = m]
       /\ files' = files \cup {Tag[p]}
       /\ \/ /\ Compatible(p, m)
             /\ status' = [status EXCEPT ![p] = "locked"]
             /\ granted' = [granted EXCEPT ![p] = m]
          \/ /\ ~Compatible(p, m)
             /\ status' = [status EXCEPT ![p] = IF block THEN "waiting" ELSE "unlocked"]
             /\ UNCHANGED granted

(* The fopen() in doLock() fails, for the file is missing or for any other *)
(* reason, and doLock() throws: a constructor leaves no object, an object  *)
(* keeps the $shared that it was about to lock with.                       *)
OpenFails(p, m) ==
    /\ status[p] \in {"none", "unlocked"}
    /\ mode' = [mode EXCEPT ![p] = m]
    /\ UNCHANGED <<status, granted, files>>

(* new Lock($tag): $auto is always true in the SDK, so the constructor     *)
(* makes a first attempt that does not block.                              *)
New(p, m) ==
    /\ status[p] = "none"
    /\ DoLock(p, m, FALSE)

(* shared($block) and exclusive($block) on an existing object.             *)
Request(p, m, block) ==
    /\ status[p] \notin {"none", "waiting"}
    /\ DoLock(p, m, block)

(* The operating system lets a blocked flock() return.                     *)
Grant(p) ==
    /\ status[p] = "waiting"
    /\ Compatible(p, mode[p])
    /\ status' = [status EXCEPT ![p] = "locked"]
    /\ granted' = [granted EXCEPT ![p] = mode[p]]
    /\ UNCHANGED <<mode, files>>

(* A variant of Destruct that forgets the handle: it stays open and locked. *)
DestructLeaky(p) ==
    /\ status[p] \notin {"none", "waiting"}
    /\ status' = [status EXCEPT ![p] = "none"]
    /\ UNCHANGED <<mode, files, granted>>

(* __destruct(): unlock(), after which the object is gone.  The doLock()   *)
(* inside returns at its first test, because $locked is true, so only      *)
(* fclose() gives the lock back.                                           *)
Destruct(p) ==
    /\ status[p] \notin {"none", "waiting"}
    /\ status' = [status EXCEPT ![p] = "none"]
    /\ granted' = [granted EXCEPT ![p] = "no"]
    /\ UNCHANGED <<mode, files>>

(* The process is killed: the operating system closes its handle.          *)
Killed(p) ==
    /\ status' = [status EXCEPT ![p] = "none"]
    /\ granted' = [granted EXCEPT ![p] = "no"]
    /\ UNCHANGED <<mode, files>>

-----------------------------------------------------------------------------
(* How the SDK uses the class: objects are destroyed, never unlock()ed.    *)
LockNext ==
    \E p \in Process :
        \/ \E m \in AskedModes : New(p, m) \/ OpenFails(p, m)
        \/ \E m \in AskedModes, block \in BOOLEAN : Request(p, m, block)
        \/ Grant(p)
        \/ Destruct(p)
        \/ status[p] # "none" /\ Killed(p)

LockSpec == LockInit /\ [][LockNext]_lockVars

-----------------------------------------------------------------------------
(* Callers trust locked() alone: two processes that use one tag and are    *)
(* both told "locked" both hold a shared lock (Lock.php:90, used by        *)
(* Manager::performUpdate and Controller::handle).                         *)
LockedExcludes ==
    \A p, q \in Process :
        p # q /\ Tag[p] = Tag[q] /\ Locked(p) /\ Locked(q)
            => mode[p] = "sh" /\ mode[q] = "sh"

(* Why LockedExcludes holds, and the invariant its proof rests on: in the  *)
(* SDK's use of the class, locked() is true exactly of those whose handle  *)
(* was granted the mode they asked for, and grants on one tag agree.       *)
LockInv ==
    /\ LockTypeOK
    /\ \A p \in Process : granted[p] = IF Locked(p) THEN mode[p] ELSE "no"
    /\ \A p, q \in Process :
         p # q /\ Tag[p] = Tag[q] /\ granted[p] # "no" /\ granted[q] # "no"
            => granted[p] = "sh" /\ granted[q] = "sh"

(* To those who look at locked() only, the class is a readers-writer lock. *)
RW == INSTANCE ReadWriteLock WITH
        hold <- [p \in Process |-> IF Locked(p) THEN mode[p] ELSE "no"]
ImplementsRWLock == RW!RWSpec
=============================================================================
