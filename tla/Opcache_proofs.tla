---------------------------- MODULE Opcache_proofs ----------------------------
(***************************************************************************)
(* Proofs about the opcode cache shared by the PHP processes: for any      *)
(* number of processes, files and restarts, and with processes killed.     *)
(***************************************************************************)
EXTENDS Opcache, FiniteSetTheorems, TLAPS

(* TypeOK in two parts, without what takes the other invariants to see:    *)
(* that the two counts in shared memory are never negative.                *)
Switches ==
    /\ restart_pending \in BOOLEAN /\ restart_in_progress \in BOOLEAN
    /\ accelerator_enabled \in BOOLEAN /\ cache_status \in BOOLEAN
    /\ memory_exhausted \in BOOLEAN /\ aborted \in BOOLEAN
    /\ on \in [Process -> BOOLEAN] /\ counted \in [Process -> BOOLEAN]
    /\ pcre_reseted \in [Process -> BOOLEAN]

Numbers ==
    /\ restart_in \in Int /\ mem_usage \in Int /\ last_restart_time \in Nat
    /\ stored \in Nat /\ wasted \in Nat /\ clock \in Nat /\ gen \in Nat
    /\ stamped \in Nat /\ leaked \in Nat /\ kills \in Nat
    /\ seen \in [Process -> Nat] /\ request_time \in [Process -> Nat]
    /\ began \in [Process -> Nat]

Places ==
    /\ memory_mutex \in Process \cup {None}
    /\ hash \in [File -> {"none", "valid", "corrupted"}]
    /\ pc \in [Process -> Phases]
    /\ file \in [Process -> File \cup {None}]
    /\ \A p \in Process :
         pc[p] \in {"find", "count", "corrupt", "miss", "store", "recheck", "seek"} => file[p] # None

Pointers ==
    /\ script \in [Process -> Script \cup {None}]
    /\ using \in [Process -> SUBSET Nat]
    /\ pcre \in [Process -> SUBSET Nat]

Types == Switches /\ Numbers /\ Places /\ Pointers

LEMMA TypesInit == Init => Types
<1>1. Init => Switches
  BY Zenon DEF Init, Switches
<1>2. Init => Numbers
  BY DEF Init, Numbers
<1>3. Init => Places
  BY DEF Init, Places, Phases, Window
<1>4. Init => Pointers
  BY DEF Init, Pointers
<1>. QED
  BY <1>1, <1>2, <1>3, <1>4 DEF Types

LEMMA SwitchesStep == Switches /\ [Next]_vars => Switches'
<1> SUFFICES ASSUME Switches, [Next]_vars PROVE Switches'
  OBVIOUS
<1> USE DEF cacheVars, restartVars, progressVars, ownVars, callVars, usage, world
<1>1. ASSUME NEW p \in Process, Activate(p) PROVE Switches'
  BY <1>1, Zenon DEF Activate, CountOut, Goto, Switches
<1>2. ASSUME NEW p \in Process, CheckPending(p) PROVE Switches'
  BY <1>2, Zenon DEF CheckPending, Goto, Switches
<1>3. ASSUME NEW p \in Process, TryRestart(p) PROVE Switches'
  BY <1>3, Zenon DEF TryRestart, Goto, Switches
<1>4. ASSUME NEW p \in Process, Enter(p) PROVE Switches'
  BY <1>4, Zenon DEF Enter, Goto, Switches
<1>5. ASSUME NEW p \in Process, Begin(p) PROVE Switches'
  BY <1>5, Zenon DEF Begin, Goto, Switches
<1>6. ASSUME NEW p \in Process, Clean(p) PROVE Switches'
  BY <1>6, Zenon DEF Clean, Goto, Switches
<1>7. ASSUME NEW p \in Process, Enable(p) PROVE Switches'
  BY <1>7, Zenon DEF Enable, Goto, Switches
<1>8. ASSUME NEW p \in Process, Stamp(p) PROVE Switches'
  BY <1>8, Zenon DEF Stamp, NextTime, Goto, Switches
<1>9. ASSUME NEW p \in Process, Leave(p) PROVE Switches'
  BY <1>9, Zenon DEF Leave, Goto, Switches
<1>9a. ASSUME NEW p \in Process, Uncount(p) PROVE Switches'
  BY <1>9a, Zenon DEF Uncount, Goto, Switches
<1>9b. ASSUME NEW p \in Process, Unlock(p) PROVE Switches'
  BY <1>9b, Zenon DEF Unlock, Goto, Switches
<1>10. ASSUME NEW p \in Process, Adopt(p) PROVE Switches'
  BY <1>10, Zenon DEF Adopt, Goto, Switches
<1>11. ASSUME NEW p \in Process, Compare(p) PROVE Switches'
  BY <1>11, Zenon DEF Compare, Goto, Switches
<1>12. ASSUME NEW p \in Process, FindInterned(p) PROVE Switches'
  BY <1>12, Zenon DEF FindInterned, CountIn, Switches
<1>13. ASSUME NEW p \in Process, NEW f \in File, ResolvePath(p, f) PROVE Switches'
  BY <1>13, Zenon DEF ResolvePath, Lookup, Script, Switches
<1>14. ASSUME NEW p \in Process, NEW f \in File, Compile(p, f) PROVE Switches'
  BY <1>14, Zenon DEF Compile, Marked, Goto, Switches
<1>15. ASSUME NEW p \in Process, Find(p) PROVE Switches'
  BY <1>15, Zenon DEF Find, Lookup, Script, Goto, Switches
<1>16. ASSUME NEW p \in Process, Count(p) PROVE Switches'
  BY <1>16, Zenon DEF Count, CountIn, Execute, Script, Goto, Switches
<1>17. ASSUME NEW p \in Process, Corrupt(p) PROVE Switches'
  BY <1>17, Zenon DEF Corrupt, Marked, Locked, ScheduleIfNecessary, Schedule, Goto, Switches
<1>18. ASSUME NEW p \in Process, Miss(p) PROVE Switches'
  BY <1>18, Zenon DEF Miss, Goto, Switches
<1>19. ASSUME NEW p \in Process, Store(p) PROVE Switches'
  BY <1>19, Zenon DEF Store, Locked, Execute, Lookup, Script, ScheduleIfNecessary, Schedule, Goto, Switches
<1>20. ASSUME NEW p \in Process, NEW f \in File, ReadLock(p, f) PROVE Switches'
  BY <1>20, Zenon DEF ReadLock, Goto, Switches
<1>21. ASSUME NEW p \in Process, Recheck(p) PROVE Switches'
  BY <1>21, Zenon DEF Recheck, Goto, Switches
<1>22. ASSUME NEW p \in Process, Seek(p) PROVE Switches'
  BY <1>22, Zenon DEF Seek, Lookup, Script, Goto, Switches
<1>23. ASSUME NEW p \in Process, AskReset(p) PROVE Switches'
  BY <1>23, Zenon DEF AskReset, Goto, Switches
<1>24. ASSUME NEW p \in Process, Reset(p) PROVE Switches'
  BY <1>24, Zenon DEF Reset, Locked, Schedule, Goto, Switches
<1>25. ASSUME NEW p \in Process, EndRequest(p) PROVE Switches'
  BY <1>25, Zenon DEF EndRequest, CountOut, Goto, Switches
<1>26. ASSUME NEW p \in Process, Kill(p) PROVE Switches'
  BY <1>26, Zenon DEF Kill, Goto, Switches
<1>27. ASSUME Tick PROVE Switches'
  BY <1>27, Zenon DEF Tick, Switches
<1>28. ASSUME UNCHANGED vars PROVE Switches'
  BY <1>28, Zenon DEF vars, Switches
<1>. QED
  BY <1>1, <1>2, <1>3, <1>4, <1>5, <1>6, <1>7, <1>8, <1>9, <1>9a, <1>9b, <1>10,
     <1>11, <1>12, <1>13, <1>14, <1>15, <1>16, <1>17, <1>18, <1>19,
     <1>20, <1>21, <1>22, <1>23, <1>24, <1>25, <1>26, <1>27, <1>28
     DEF Next, Proceed, Restart, Body

LEMMA NumbersStep == Numbers /\ [Next]_vars => Numbers'
<1> SUFFICES ASSUME Numbers, [Next]_vars PROVE Numbers'
  OBVIOUS
<1> USE DEF cacheVars, restartVars, progressVars, ownVars, callVars, usage, world
<1>1. ASSUME NEW p \in Process, Activate(p) PROVE Numbers'
  BY <1>1 DEF Activate, CountOut, Goto, Numbers
<1>2. ASSUME NEW p \in Process, CheckPending(p) PROVE Numbers'
  BY <1>2 DEF CheckPending, Goto, Numbers
<1>3. ASSUME NEW p \in Process, TryRestart(p) PROVE Numbers'
  BY <1>3 DEF TryRestart, Goto, Numbers
<1>4. ASSUME NEW p \in Process, Enter(p) PROVE Numbers'
  BY <1>4 DEF Enter, Goto, Numbers
<1>5. ASSUME NEW p \in Process, Begin(p) PROVE Numbers'
  BY <1>5 DEF Begin, Goto, Numbers
<1>6. ASSUME NEW p \in Process, Clean(p) PROVE Numbers'
  BY <1>6 DEF Clean, Goto, Numbers
<1>7. ASSUME NEW p \in Process, Enable(p) PROVE Numbers'
  BY <1>7 DEF Enable, Goto, Numbers
<1>8. ASSUME NEW p \in Process, Stamp(p) PROVE Numbers'
  BY <1>8 DEF Stamp, NextTime, Goto, Numbers
<1>9. ASSUME NEW p \in Process, Leave(p) PROVE Numbers'
  BY <1>9 DEF Leave, Goto, Numbers
<1>9a. ASSUME NEW p \in Process, Uncount(p) PROVE Numbers'
  BY <1>9a DEF Uncount, Goto, Numbers
<1>9b. ASSUME NEW p \in Process, Unlock(p) PROVE Numbers'
  BY <1>9b DEF Unlock, Goto, Numbers
<1>10. ASSUME NEW p \in Process, Adopt(p) PROVE Numbers'
  BY <1>10 DEF Adopt, Goto, Numbers
<1>11. ASSUME NEW p \in Process, Compare(p) PROVE Numbers'
  BY <1>11 DEF Compare, Goto, Numbers
<1>12. ASSUME NEW p \in Process, FindInterned(p) PROVE Numbers'
  BY <1>12 DEF FindInterned, CountIn, Numbers
<1>13. ASSUME NEW p \in Process, NEW f \in File, ResolvePath(p, f) PROVE Numbers'
  BY <1>13 DEF ResolvePath, Lookup, Script, Numbers
<1>14. ASSUME NEW p \in Process, NEW f \in File, Compile(p, f) PROVE Numbers'
  BY <1>14 DEF Compile, Marked, Goto, Numbers
<1>15. ASSUME NEW p \in Process, Find(p) PROVE Numbers'
  BY <1>15 DEF Find, Lookup, Script, Goto, Numbers
<1>16. ASSUME NEW p \in Process, Count(p) PROVE Numbers'
  BY <1>16 DEF Count, CountIn, Execute, Script, Goto, Numbers
<1>17. ASSUME NEW p \in Process, Corrupt(p) PROVE Numbers'
  BY <1>17 DEF Corrupt, Marked, Locked, ScheduleIfNecessary, Schedule, Goto, Numbers
<1>18. ASSUME NEW p \in Process, Miss(p) PROVE Numbers'
  BY <1>18 DEF Miss, Goto, Numbers
<1>19. ASSUME NEW p \in Process, Store(p) PROVE Numbers'
  BY <1>19 DEF Store, Locked, Execute, Lookup, Script, ScheduleIfNecessary, Schedule, Goto, Numbers
<1>20. ASSUME NEW p \in Process, NEW f \in File, ReadLock(p, f) PROVE Numbers'
  BY <1>20 DEF ReadLock, Goto, Numbers
<1>21. ASSUME NEW p \in Process, Recheck(p) PROVE Numbers'
  BY <1>21 DEF Recheck, Goto, Numbers
<1>22. ASSUME NEW p \in Process, Seek(p) PROVE Numbers'
  BY <1>22 DEF Seek, Lookup, Script, Goto, Numbers
<1>23. ASSUME NEW p \in Process, AskReset(p) PROVE Numbers'
  BY <1>23 DEF AskReset, Goto, Numbers
<1>24. ASSUME NEW p \in Process, Reset(p) PROVE Numbers'
  BY <1>24 DEF Reset, Locked, Schedule, Goto, Numbers
<1>25. ASSUME NEW p \in Process, EndRequest(p) PROVE Numbers'
  BY <1>25 DEF EndRequest, CountOut, Goto, Numbers
<1>26. ASSUME NEW p \in Process, Kill(p) PROVE Numbers'
  BY <1>26 DEF Kill, Goto, Numbers
<1>27. ASSUME Tick PROVE Numbers'
  BY <1>27 DEF Tick, Numbers
<1>28. ASSUME UNCHANGED vars PROVE Numbers'
  BY <1>28 DEF vars, Numbers
<1>. QED
  BY <1>1, <1>2, <1>3, <1>4, <1>5, <1>6, <1>7, <1>8, <1>9, <1>9a, <1>9b, <1>10,
     <1>11, <1>12, <1>13, <1>14, <1>15, <1>16, <1>17, <1>18, <1>19,
     <1>20, <1>21, <1>22, <1>23, <1>24, <1>25, <1>26, <1>27, <1>28
     DEF Next, Proceed, Restart, Body

LEMMA PlacesStep == Places /\ [Next]_vars => Places'
<1> SUFFICES ASSUME Places, [Next]_vars PROVE Places'
  OBVIOUS
<1> USE DEF cacheVars, restartVars, progressVars, ownVars, callVars, usage, world
<1>1. ASSUME NEW p \in Process, Activate(p) PROVE Places'
  BY <1>1, OpcacheAssumption DEF Activate, CountOut, Goto, Places, Phases, Window
<1>2. ASSUME NEW p \in Process, CheckPending(p) PROVE Places'
  BY <1>2, OpcacheAssumption DEF CheckPending, Goto, Places, Phases, Window
<1>3. ASSUME NEW p \in Process, TryRestart(p) PROVE Places'
  BY <1>3, OpcacheAssumption DEF TryRestart, Goto, Places, Phases, Window
<1>4. ASSUME NEW p \in Process, Enter(p) PROVE Places'
  BY <1>4, OpcacheAssumption DEF Enter, Goto, Places, Phases, Window
<1>5. ASSUME NEW p \in Process, Begin(p) PROVE Places'
  BY <1>5, OpcacheAssumption DEF Begin, Goto, Places, Phases, Window
<1>6. ASSUME NEW p \in Process, Clean(p) PROVE Places'
  BY <1>6, OpcacheAssumption DEF Clean, Goto, Places, Phases, Window
<1>7. ASSUME NEW p \in Process, Enable(p) PROVE Places'
  BY <1>7, OpcacheAssumption DEF Enable, Goto, Places, Phases, Window
<1>8. ASSUME NEW p \in Process, Stamp(p) PROVE Places'
  BY <1>8, OpcacheAssumption DEF Stamp, NextTime, Goto, Places, Phases, Window
<1>9. ASSUME NEW p \in Process, Leave(p) PROVE Places'
  BY <1>9, OpcacheAssumption DEF Leave, Goto, Places, Phases, Window
<1>9a. ASSUME NEW p \in Process, Uncount(p) PROVE Places'
  BY <1>9a, OpcacheAssumption DEF Uncount, Goto, Places, Phases, Window
<1>9b. ASSUME NEW p \in Process, Unlock(p) PROVE Places'
  BY <1>9b, OpcacheAssumption DEF Unlock, Goto, Places, Phases, Window
<1>10. ASSUME NEW p \in Process, Adopt(p) PROVE Places'
  BY <1>10, OpcacheAssumption DEF Adopt, Goto, Places, Phases, Window
<1>11. ASSUME NEW p \in Process, Compare(p) PROVE Places'
  BY <1>11, OpcacheAssumption DEF Compare, Goto, Places, Phases, Window
<1>12. ASSUME NEW p \in Process, FindInterned(p) PROVE Places'
  BY <1>12, OpcacheAssumption DEF FindInterned, CountIn, Places, Phases, Window
<1>13. ASSUME NEW p \in Process, NEW f \in File, ResolvePath(p, f) PROVE Places'
  BY <1>13, OpcacheAssumption DEF ResolvePath, Lookup, Script, Places, Phases, Window
<1>14. ASSUME NEW p \in Process, NEW f \in File, Compile(p, f) PROVE Places'
  BY <1>14, OpcacheAssumption DEF Compile, Marked, Goto, Places, Phases, Window
<1>15. ASSUME NEW p \in Process, Find(p) PROVE Places'
  BY <1>15, OpcacheAssumption DEF Find, Lookup, Script, Goto, Places, Phases, Window
<1>16. ASSUME NEW p \in Process, Count(p) PROVE Places'
  BY <1>16, OpcacheAssumption DEF Count, CountIn, Execute, Script, Goto, Places, Phases, Window
<1>17. ASSUME NEW p \in Process, Corrupt(p) PROVE Places'
  BY <1>17, OpcacheAssumption DEF Corrupt, Marked, Locked, ScheduleIfNecessary, Schedule, Goto, Places, Phases, Window
<1>18. ASSUME NEW p \in Process, Miss(p) PROVE Places'
  BY <1>18, OpcacheAssumption DEF Miss, Goto, Places, Phases, Window
<1>19. ASSUME NEW p \in Process, Store(p) PROVE Places'
  BY <1>19, OpcacheAssumption DEF Store, Locked, Execute, Lookup, Script, ScheduleIfNecessary, Schedule, Goto, Places, Phases, Window
<1>20. ASSUME NEW p \in Process, NEW f \in File, ReadLock(p, f) PROVE Places'
  BY <1>20, OpcacheAssumption DEF ReadLock, Goto, Places, Phases, Window
<1>21. ASSUME NEW p \in Process, Recheck(p) PROVE Places'
  BY <1>21, OpcacheAssumption DEF Recheck, Goto, Places, Phases, Window
<1>22. ASSUME NEW p \in Process, Seek(p) PROVE Places'
  BY <1>22, OpcacheAssumption DEF Seek, Lookup, Script, Goto, Places, Phases, Window
<1>23. ASSUME NEW p \in Process, AskReset(p) PROVE Places'
  BY <1>23, OpcacheAssumption DEF AskReset, Goto, Places, Phases, Window
<1>24. ASSUME NEW p \in Process, Reset(p) PROVE Places'
  BY <1>24, OpcacheAssumption DEF Reset, Locked, Schedule, Goto, Places, Phases, Window
<1>25. ASSUME NEW p \in Process, EndRequest(p) PROVE Places'
  BY <1>25, OpcacheAssumption DEF EndRequest, CountOut, Goto, Places, Phases, Window
<1>26. ASSUME NEW p \in Process, Kill(p) PROVE Places'
  BY <1>26, OpcacheAssumption DEF Kill, Goto, Places, Phases, Window
<1>27. ASSUME Tick PROVE Places'
  BY <1>27, OpcacheAssumption DEF Tick, Places, Phases, Window
<1>28. ASSUME UNCHANGED vars PROVE Places'
  BY <1>28, OpcacheAssumption DEF vars, Places, Phases, Window
<1>. QED
  BY <1>1, <1>2, <1>3, <1>4, <1>5, <1>6, <1>7, <1>8, <1>9, <1>9a, <1>9b, <1>10,
     <1>11, <1>12, <1>13, <1>14, <1>15, <1>16, <1>17, <1>18, <1>19,
     <1>20, <1>21, <1>22, <1>23, <1>24, <1>25, <1>26, <1>27, <1>28
     DEF Next, Proceed, Restart, Body

(* What Lookup returns is a script of the present generation, or nothing.  *)
LEMMA LookupType ==
  ASSUME Types, NEW p \in Process, NEW f \in File
  PROVE  Lookup(p, f) \in Script \cup {None}
<1> DEFINE sound == counted[p] /\ memory_mutex = None
<1>1. sound \in BOOLEAN
  BY Zenon
<1> HIDE DEF sound
<1>2. [file |-> f, gen |-> gen, sound |-> sound] \in Script
  BY <1>1 DEF Types, Numbers, Script
<1>3. Lookup(p, f) \in {[file |-> f, gen |-> gen, sound |-> sound], None}
  BY Zenon DEF Lookup, sound
<1>. QED
  BY <1>2, <1>3

LEMMA PointersStep == Types /\ [Next]_vars => Pointers'
<1> SUFFICES ASSUME Types, [Next]_vars PROVE Pointers'
  OBVIOUS
<1> USE DEF cacheVars, restartVars, progressVars, ownVars, callVars, usage, world
<1>1. ASSUME NEW p \in Process, Activate(p) PROVE Pointers'
  BY <1>1, OpcacheAssumption DEF Activate, CountOut, Goto, Types, Numbers, Places, Pointers
<1>2. ASSUME NEW p \in Process, CheckPending(p) PROVE Pointers'
  BY <1>2, OpcacheAssumption DEF CheckPending, Goto, Types, Numbers, Places, Pointers
<1>3. ASSUME NEW p \in Process, TryRestart(p) PROVE Pointers'
  BY <1>3, OpcacheAssumption DEF TryRestart, Goto, Types, Numbers, Places, Pointers
<1>4. ASSUME NEW p \in Process, Enter(p) PROVE Pointers'
  BY <1>4, OpcacheAssumption DEF Enter, Goto, Types, Numbers, Places, Pointers
<1>5. ASSUME NEW p \in Process, Begin(p) PROVE Pointers'
  BY <1>5, OpcacheAssumption DEF Begin, Goto, Types, Numbers, Places, Pointers
<1>6. ASSUME NEW p \in Process, Clean(p) PROVE Pointers'
  BY <1>6, OpcacheAssumption DEF Clean, Goto, Types, Numbers, Places, Pointers
<1>7. ASSUME NEW p \in Process, Enable(p) PROVE Pointers'
  BY <1>7, OpcacheAssumption DEF Enable, Goto, Types, Numbers, Places, Pointers
<1>8. ASSUME NEW p \in Process, Stamp(p) PROVE Pointers'
  BY <1>8, OpcacheAssumption DEF Stamp, NextTime, Goto, Types, Numbers, Places, Pointers
<1>9. ASSUME NEW p \in Process, Leave(p) PROVE Pointers'
  BY <1>9, OpcacheAssumption DEF Leave, Goto, Types, Numbers, Places, Pointers
<1>9a. ASSUME NEW p \in Process, Uncount(p) PROVE Pointers'
  BY <1>9a, OpcacheAssumption DEF Uncount, Goto, Types, Numbers, Places, Pointers
<1>9b. ASSUME NEW p \in Process, Unlock(p) PROVE Pointers'
  BY <1>9b, OpcacheAssumption DEF Unlock, Goto, Types, Numbers, Places, Pointers
<1>10. ASSUME NEW p \in Process, Adopt(p) PROVE Pointers'
  BY <1>10, OpcacheAssumption DEF Adopt, Goto, Types, Numbers, Places, Pointers
<1>11. ASSUME NEW p \in Process, Compare(p) PROVE Pointers'
  BY <1>11, OpcacheAssumption DEF Compare, Goto, Types, Numbers, Places, Pointers
<1>12. ASSUME NEW p \in Process, FindInterned(p) PROVE Pointers'
  BY <1>12, OpcacheAssumption DEF FindInterned, CountIn, Types, Numbers, Places, Pointers
<1>13. ASSUME NEW p \in Process, NEW f \in File, ResolvePath(p, f) PROVE Pointers'
  BY <1>13, OpcacheAssumption DEF ResolvePath, Lookup, Script, Types, Numbers, Places, Pointers
<1>14. ASSUME NEW p \in Process, NEW f \in File, Compile(p, f) PROVE Pointers'
  BY <1>14, OpcacheAssumption DEF Compile, Marked, Goto, Types, Numbers, Places, Pointers
<1>15. ASSUME NEW p \in Process, Find(p) PROVE Pointers'
  <2>1. file[p] \in File
    BY <1>15, OpcacheAssumption DEF Find, Types, Places
  <2>2. Lookup(p, file[p]) \in Script \cup {None}
    BY <2>1, LookupType
  <2>. QED
    BY <1>15, <2>2 DEF Find, Types, Pointers
<1>16. ASSUME NEW p \in Process, Count(p) PROVE Pointers'
  BY <1>16, OpcacheAssumption DEF Count, CountIn, Execute, Script, Goto, Types, Numbers, Places, Pointers
<1>17. ASSUME NEW p \in Process, Corrupt(p) PROVE Pointers'
  BY <1>17, OpcacheAssumption DEF Corrupt, Marked, Locked, ScheduleIfNecessary, Schedule, Goto, Types, Numbers, Places, Pointers
<1>18. ASSUME NEW p \in Process, Miss(p) PROVE Pointers'
  BY <1>18, OpcacheAssumption DEF Miss, Goto, Types, Numbers, Places, Pointers
<1>19. ASSUME NEW p \in Process, Store(p) PROVE Pointers'
  BY <1>19, OpcacheAssumption DEF Store, Locked, Execute, Lookup, Script, ScheduleIfNecessary, Schedule, Goto, Types, Numbers, Places, Pointers
<1>20. ASSUME NEW p \in Process, NEW f \in File, ReadLock(p, f) PROVE Pointers'
  BY <1>20, OpcacheAssumption DEF ReadLock, Goto, Types, Numbers, Places, Pointers
<1>21. ASSUME NEW p \in Process, Recheck(p) PROVE Pointers'
  BY <1>21, OpcacheAssumption DEF Recheck, Goto, Types, Numbers, Places, Pointers
<1>22. ASSUME NEW p \in Process, Seek(p) PROVE Pointers'
  <2>1. file[p] \in File
    BY <1>22, OpcacheAssumption DEF Seek, Types, Places
  <2>2. Lookup(p, file[p]) \in Script \cup {None}
    BY <2>1, LookupType
  <2>. QED
    BY <1>22, <2>2 DEF Seek, Types, Pointers
<1>23. ASSUME NEW p \in Process, AskReset(p) PROVE Pointers'
  BY <1>23, OpcacheAssumption DEF AskReset, Goto, Types, Numbers, Places, Pointers
<1>24. ASSUME NEW p \in Process, Reset(p) PROVE Pointers'
  BY <1>24, OpcacheAssumption DEF Reset, Locked, Schedule, Goto, Types, Numbers, Places, Pointers
<1>25. ASSUME NEW p \in Process, EndRequest(p) PROVE Pointers'
  BY <1>25, OpcacheAssumption DEF EndRequest, CountOut, Goto, Types, Numbers, Places, Pointers
<1>26. ASSUME NEW p \in Process, Kill(p) PROVE Pointers'
  BY <1>26, OpcacheAssumption DEF Kill, Goto, Types, Numbers, Places, Pointers
<1>27. ASSUME Tick PROVE Pointers'
  BY <1>27, OpcacheAssumption DEF Tick, Types, Numbers, Places, Pointers
<1>28. ASSUME UNCHANGED vars PROVE Pointers'
  BY <1>28, OpcacheAssumption DEF vars, Types, Numbers, Places, Pointers
<1>. QED
  BY <1>1, <1>2, <1>3, <1>4, <1>5, <1>6, <1>7, <1>8, <1>9, <1>9a, <1>9b, <1>10,
     <1>11, <1>12, <1>13, <1>14, <1>15, <1>16, <1>17, <1>18, <1>19,
     <1>20, <1>21, <1>22, <1>23, <1>24, <1>25, <1>26, <1>27, <1>28
     DEF Next, Proceed, Restart, Body

-----------------------------------------------------------------------------
(* Who restarts the cache holds the mutex, and nobody else does.           *)
MutexHeld == \A p \in Process : memory_mutex = p <=> pc[p] \in Window

(* restart_in counts those who restart, and those who were killed at it.   *)
RestartIn ==
    /\ restart_in >= 0
    /\ \A p \in Process : pc[p] \in Window \ {"enter", "unlock"} => restart_in >= 1

LEMMA MutexStep ==
  Types /\ MutexHeld /\ [Next]_vars => MutexHeld'
<1> SUFFICES ASSUME Types /\ MutexHeld, [Next]_vars PROVE MutexHeld'
  OBVIOUS
<1> USE DEF cacheVars, restartVars, progressVars, ownVars, callVars, usage, world
<1>1. ASSUME NEW p \in Process, Activate(p) PROVE MutexHeld'
  BY <1>1, OpcacheAssumption DEF Activate, CountOut, Goto, Types, Places, MutexHeld, Window
<1>2. ASSUME NEW p \in Process, CheckPending(p) PROVE MutexHeld'
  BY <1>2, OpcacheAssumption DEF CheckPending, Goto, Types, Places, MutexHeld, Window
<1>3. ASSUME NEW p \in Process, TryRestart(p) PROVE MutexHeld'
  BY <1>3, OpcacheAssumption DEF TryRestart, Goto, Types, Places, MutexHeld, Window
<1>4. ASSUME NEW p \in Process, Enter(p) PROVE MutexHeld'
  BY <1>4, OpcacheAssumption DEF Enter, Goto, Types, Places, MutexHeld, Window
<1>5. ASSUME NEW p \in Process, Begin(p) PROVE MutexHeld'
  BY <1>5, OpcacheAssumption DEF Begin, Goto, Types, Places, MutexHeld, Window
<1>6. ASSUME NEW p \in Process, Clean(p) PROVE MutexHeld'
  BY <1>6, OpcacheAssumption DEF Clean, Goto, Types, Places, MutexHeld, Window
<1>7. ASSUME NEW p \in Process, Enable(p) PROVE MutexHeld'
  BY <1>7, OpcacheAssumption DEF Enable, Goto, Types, Places, MutexHeld, Window
<1>8. ASSUME NEW p \in Process, Stamp(p) PROVE MutexHeld'
  BY <1>8, OpcacheAssumption DEF Stamp, NextTime, Goto, Types, Places, MutexHeld, Window
<1>9. ASSUME NEW p \in Process, Leave(p) PROVE MutexHeld'
  BY <1>9, OpcacheAssumption DEF Leave, Goto, Types, Places, MutexHeld, Window
<1>9a. ASSUME NEW p \in Process, Uncount(p) PROVE MutexHeld'
  BY <1>9a, OpcacheAssumption DEF Uncount, Goto, Types, Places, MutexHeld, Window
<1>9b. ASSUME NEW p \in Process, Unlock(p) PROVE MutexHeld'
  BY <1>9b, OpcacheAssumption DEF Unlock, Goto, Types, Places, MutexHeld, Window
<1>10. ASSUME NEW p \in Process, Adopt(p) PROVE MutexHeld'
  BY <1>10, OpcacheAssumption DEF Adopt, Goto, Types, Places, MutexHeld, Window
<1>11. ASSUME NEW p \in Process, Compare(p) PROVE MutexHeld'
  BY <1>11, OpcacheAssumption DEF Compare, Goto, Types, Places, MutexHeld, Window
<1>12. ASSUME NEW p \in Process, FindInterned(p) PROVE MutexHeld'
  BY <1>12, OpcacheAssumption DEF FindInterned, CountIn, Types, Places, MutexHeld, Window
<1>13. ASSUME NEW p \in Process, NEW f \in File, ResolvePath(p, f) PROVE MutexHeld'
  BY <1>13, OpcacheAssumption DEF ResolvePath, Lookup, Script, Types, Places, MutexHeld, Window
<1>14. ASSUME NEW p \in Process, NEW f \in File, Compile(p, f) PROVE MutexHeld'
  BY <1>14, OpcacheAssumption DEF Compile, Marked, Goto, Types, Places, MutexHeld, Window
<1>15. ASSUME NEW p \in Process, Find(p) PROVE MutexHeld'
  BY <1>15, OpcacheAssumption DEF Find, Lookup, Script, Goto, Types, Places, MutexHeld, Window
<1>16. ASSUME NEW p \in Process, Count(p) PROVE MutexHeld'
  BY <1>16, OpcacheAssumption DEF Count, CountIn, Execute, Script, Goto, Types, Places, MutexHeld, Window
<1>17. ASSUME NEW p \in Process, Corrupt(p) PROVE MutexHeld'
  BY <1>17, OpcacheAssumption DEF Corrupt, Marked, Locked, ScheduleIfNecessary, Schedule, Goto, Types, Places, MutexHeld, Window
<1>18. ASSUME NEW p \in Process, Miss(p) PROVE MutexHeld'
  BY <1>18, OpcacheAssumption DEF Miss, Goto, Types, Places, MutexHeld, Window
<1>19. ASSUME NEW p \in Process, Store(p) PROVE MutexHeld'
  BY <1>19, OpcacheAssumption DEF Store, Locked, Execute, Lookup, Script, ScheduleIfNecessary, Schedule, Goto, Types, Places, MutexHeld, Window
<1>20. ASSUME NEW p \in Process, NEW f \in File, ReadLock(p, f) PROVE MutexHeld'
  BY <1>20, OpcacheAssumption DEF ReadLock, Goto, Types, Places, MutexHeld, Window
<1>21. ASSUME NEW p \in Process, Recheck(p) PROVE MutexHeld'
  BY <1>21, OpcacheAssumption DEF Recheck, Goto, Types, Places, MutexHeld, Window
<1>22. ASSUME NEW p \in Process, Seek(p) PROVE MutexHeld'
  BY <1>22, OpcacheAssumption DEF Seek, Lookup, Script, Goto, Types, Places, MutexHeld, Window
<1>23. ASSUME NEW p \in Process, AskReset(p) PROVE MutexHeld'
  BY <1>23, OpcacheAssumption DEF AskReset, Goto, Types, Places, MutexHeld, Window
<1>24. ASSUME NEW p \in Process, Reset(p) PROVE MutexHeld'
  BY <1>24, OpcacheAssumption DEF Reset, Locked, Schedule, Goto, Types, Places, MutexHeld, Window
<1>25. ASSUME NEW p \in Process, EndRequest(p) PROVE MutexHeld'
  BY <1>25, OpcacheAssumption DEF EndRequest, CountOut, Goto, Types, Places, MutexHeld, Window
<1>26. ASSUME NEW p \in Process, Kill(p) PROVE MutexHeld'
  BY <1>26, OpcacheAssumption DEF Kill, Goto, Types, Places, MutexHeld, Window
<1>27. ASSUME Tick PROVE MutexHeld'
  BY <1>27, OpcacheAssumption DEF Tick, Types, Places, MutexHeld, Window
<1>28. ASSUME UNCHANGED vars PROVE MutexHeld'
  BY <1>28, OpcacheAssumption DEF vars, Types, Places, MutexHeld, Window
<1>. QED
  BY <1>1, <1>2, <1>3, <1>4, <1>5, <1>6, <1>7, <1>8, <1>9, <1>9a, <1>9b, <1>10,
     <1>11, <1>12, <1>13, <1>14, <1>15, <1>16, <1>17, <1>18, <1>19,
     <1>20, <1>21, <1>22, <1>23, <1>24, <1>25, <1>26, <1>27, <1>28
     DEF Next, Proceed, Restart, Body

LEMMA RestartInStep ==
  Types /\ MutexHeld /\ RestartIn /\ [Next]_vars => RestartIn'
<1> SUFFICES ASSUME Types /\ MutexHeld /\ RestartIn, [Next]_vars PROVE RestartIn'
  OBVIOUS
<1> USE DEF cacheVars, restartVars, progressVars, ownVars, callVars, usage, world
<1>1. ASSUME NEW p \in Process, Activate(p) PROVE RestartIn'
  BY <1>1, OpcacheAssumption DEF Activate, CountOut, Goto, Types, Numbers, Places, MutexHeld, RestartIn, Window
<1>2. ASSUME NEW p \in Process, CheckPending(p) PROVE RestartIn'
  BY <1>2, OpcacheAssumption DEF CheckPending, Goto, Types, Numbers, Places, MutexHeld, RestartIn, Window
<1>3. ASSUME NEW p \in Process, TryRestart(p) PROVE RestartIn'
  BY <1>3, OpcacheAssumption DEF TryRestart, Goto, Types, Numbers, Places, MutexHeld, RestartIn, Window
<1>4. ASSUME NEW p \in Process, Enter(p) PROVE RestartIn'
  BY <1>4, OpcacheAssumption DEF Enter, Goto, Types, Numbers, Places, MutexHeld, RestartIn, Window
<1>5. ASSUME NEW p \in Process, Begin(p) PROVE RestartIn'
  BY <1>5, OpcacheAssumption DEF Begin, Goto, Types, Numbers, Places, MutexHeld, RestartIn, Window
<1>6. ASSUME NEW p \in Process, Clean(p) PROVE RestartIn'
  BY <1>6, OpcacheAssumption DEF Clean, Goto, Types, Numbers, Places, MutexHeld, RestartIn, Window
<1>7. ASSUME NEW p \in Process, Enable(p) PROVE RestartIn'
  BY <1>7, OpcacheAssumption DEF Enable, Goto, Types, Numbers, Places, MutexHeld, RestartIn, Window
<1>8. ASSUME NEW p \in Process, Stamp(p) PROVE RestartIn'
  BY <1>8, OpcacheAssumption DEF Stamp, NextTime, Goto, Types, Numbers, Places, MutexHeld, RestartIn, Window
<1>9. ASSUME NEW p \in Process, Leave(p) PROVE RestartIn'
  BY <1>9, OpcacheAssumption DEF Leave, Goto, Types, Numbers, Places, MutexHeld, RestartIn, Window
<1>9a. ASSUME NEW p \in Process, Uncount(p) PROVE RestartIn'
  BY <1>9a, OpcacheAssumption DEF Uncount, Goto, Types, Numbers, Places, MutexHeld, RestartIn, Window
<1>9b. ASSUME NEW p \in Process, Unlock(p) PROVE RestartIn'
  BY <1>9b, OpcacheAssumption DEF Unlock, Goto, Types, Numbers, Places, MutexHeld, RestartIn, Window
<1>10. ASSUME NEW p \in Process, Adopt(p) PROVE RestartIn'
  BY <1>10, OpcacheAssumption DEF Adopt, Goto, Types, Numbers, Places, MutexHeld, RestartIn, Window
<1>11. ASSUME NEW p \in Process, Compare(p) PROVE RestartIn'
  BY <1>11, OpcacheAssumption DEF Compare, Goto, Types, Numbers, Places, MutexHeld, RestartIn, Window
<1>12. ASSUME NEW p \in Process, FindInterned(p) PROVE RestartIn'
  BY <1>12, OpcacheAssumption DEF FindInterned, CountIn, Types, Numbers, Places, MutexHeld, RestartIn, Window
<1>13. ASSUME NEW p \in Process, NEW f \in File, ResolvePath(p, f) PROVE RestartIn'
  BY <1>13, OpcacheAssumption DEF ResolvePath, Lookup, Script, Types, Numbers, Places, MutexHeld, RestartIn, Window
<1>14. ASSUME NEW p \in Process, NEW f \in File, Compile(p, f) PROVE RestartIn'
  BY <1>14, OpcacheAssumption DEF Compile, Marked, Goto, Types, Numbers, Places, MutexHeld, RestartIn, Window
<1>15. ASSUME NEW p \in Process, Find(p) PROVE RestartIn'
  BY <1>15, OpcacheAssumption DEF Find, Lookup, Script, Goto, Types, Numbers, Places, MutexHeld, RestartIn, Window
<1>16. ASSUME NEW p \in Process, Count(p) PROVE RestartIn'
  BY <1>16, OpcacheAssumption DEF Count, CountIn, Execute, Script, Goto, Types, Numbers, Places, MutexHeld, RestartIn, Window
<1>17. ASSUME NEW p \in Process, Corrupt(p) PROVE RestartIn'
  BY <1>17, OpcacheAssumption DEF Corrupt, Marked, Locked, ScheduleIfNecessary, Schedule, Goto, Types, Numbers, Places, MutexHeld, RestartIn, Window
<1>18. ASSUME NEW p \in Process, Miss(p) PROVE RestartIn'
  BY <1>18, OpcacheAssumption DEF Miss, Goto, Types, Numbers, Places, MutexHeld, RestartIn, Window
<1>19. ASSUME NEW p \in Process, Store(p) PROVE RestartIn'
  BY <1>19, OpcacheAssumption DEF Store, Locked, Execute, Lookup, Script, ScheduleIfNecessary, Schedule, Goto, Types, Numbers, Places, MutexHeld, RestartIn, Window
<1>20. ASSUME NEW p \in Process, NEW f \in File, ReadLock(p, f) PROVE RestartIn'
  BY <1>20, OpcacheAssumption DEF ReadLock, Goto, Types, Numbers, Places, MutexHeld, RestartIn, Window
<1>21. ASSUME NEW p \in Process, Recheck(p) PROVE RestartIn'
  BY <1>21, OpcacheAssumption DEF Recheck, Goto, Types, Numbers, Places, MutexHeld, RestartIn, Window
<1>22. ASSUME NEW p \in Process, Seek(p) PROVE RestartIn'
  BY <1>22, OpcacheAssumption DEF Seek, Lookup, Script, Goto, Types, Numbers, Places, MutexHeld, RestartIn, Window
<1>23. ASSUME NEW p \in Process, AskReset(p) PROVE RestartIn'
  BY <1>23, OpcacheAssumption DEF AskReset, Goto, Types, Numbers, Places, MutexHeld, RestartIn, Window
<1>24. ASSUME NEW p \in Process, Reset(p) PROVE RestartIn'
  BY <1>24, OpcacheAssumption DEF Reset, Locked, Schedule, Goto, Types, Numbers, Places, MutexHeld, RestartIn, Window
<1>25. ASSUME NEW p \in Process, EndRequest(p) PROVE RestartIn'
  BY <1>25, OpcacheAssumption DEF EndRequest, CountOut, Goto, Types, Numbers, Places, MutexHeld, RestartIn, Window
<1>26. ASSUME NEW p \in Process, Kill(p) PROVE RestartIn'
  BY <1>26, OpcacheAssumption DEF Kill, Goto, Types, Numbers, Places, MutexHeld, RestartIn, Window
<1>27. ASSUME Tick PROVE RestartIn'
  BY <1>27, OpcacheAssumption DEF Tick, Types, Numbers, Places, MutexHeld, RestartIn, Window
<1>28. ASSUME UNCHANGED vars PROVE RestartIn'
  BY <1>28, OpcacheAssumption DEF vars, Types, Numbers, Places, MutexHeld, RestartIn, Window
<1>. QED
  BY <1>1, <1>2, <1>3, <1>4, <1>5, <1>6, <1>7, <1>8, <1>9, <1>9a, <1>9b, <1>10,
     <1>11, <1>12, <1>13, <1>14, <1>15, <1>16, <1>17, <1>18, <1>19,
     <1>20, <1>21, <1>22, <1>23, <1>24, <1>25, <1>26, <1>27, <1>28
     DEF Next, Proceed, Restart, Body

-----------------------------------------------------------------------------
(* The use count.  Whoever is about to look again has not set its flag.    *)
Counting ==
    /\ UsageExact
    /\ \A p \in Process : pc[p] = "recheck" => ~counted[p]

(* How the number of users changes when one process comes, goes or stays.  *)
LEMMA OneMoves ==
  ASSUME NEW p \in Process, NEW S \in SUBSET Process, NEW T \in SUBSET Process,
         \A q \in Process \ {p} : q \in S <=> q \in T
  PROVE  /\ (p \in S <=> p \in T) => T = S
         /\ p \in T /\ p \notin S => Cardinality(T) = Cardinality(S) + 1
         /\ p \in S /\ p \notin T => Cardinality(T) = Cardinality(S) - 1
         /\ Cardinality(S) \in Nat
<1>1. IsFiniteSet(S) /\ IsFiniteSet(T)
  BY OpcacheAssumption, FS_Subset
<1>2. (p \in S <=> p \in T) => T = S
  OBVIOUS
<1>3. p \in T /\ p \notin S => T = S \cup {p}
  OBVIOUS
<1>4. p \in S /\ p \notin T => T = S \ {p}
  OBVIOUS
<1>. QED
  BY <1>1, <1>2, <1>3, <1>4, FS_AddElement, FS_RemoveElement, FS_CardinalityType

LEMMA CountingStep ==
  Types /\ Counting /\ [Next]_vars => Counting'
<1> SUFFICES ASSUME Types /\ Counting, [Next]_vars PROVE Counting'
  OBVIOUS
<1> USE DEF cacheVars, restartVars, progressVars, ownVars, callVars, usage, world
<1>1. ASSUME NEW p \in Process, Activate(p) PROVE Counting'
  <2>1. \A q \in Process \ {p} : q \in Users <=> q \in Users'
    BY <1>1 DEF Activate, CountOut, Goto, Types, Switches, Places, Users
  <2>2. /\ (p \in Users <=> p \in Users') => Users' = Users
        /\ p \in Users' /\ p \notin Users => Cardinality(Users') = Cardinality(Users) + 1
        /\ p \in Users /\ p \notin Users' => Cardinality(Users') = Cardinality(Users) - 1
        /\ Cardinality(Users) \in Nat
    BY <2>1, OneMoves, Users \in SUBSET Process, Users' \in SUBSET Process DEF Users
  <2>3. /\ p \in Users <=> counted[p] \/ pc[p] = "recheck"
        /\ p \in Users' <=> counted'[p] \/ pc'[p] = "recheck"
    BY DEF Users
  <2>4. \A q \in Process : pc'[q] = "recheck" => ~counted'[q]
    BY <1>1 DEF Activate, CountOut, Goto, Counting, Types, Switches, Places
  <2>5. UsageExact'
    BY <1>1, <2>2, <2>3 DEF Activate, CountOut, Goto, Counting, UsageExact, Types, Switches, Numbers, Places
  <2>. QED
    BY <2>4, <2>5 DEF Counting
<1>2. ASSUME NEW p \in Process, CheckPending(p) PROVE Counting'
  <2>1. Users' = Users
    BY <1>2 DEF CheckPending, Goto, Types, Places, Users
  <2>. QED
    BY <1>2, <2>1 DEF CheckPending, Goto, Counting, UsageExact, Types, Places
<1>3. ASSUME NEW p \in Process, TryRestart(p) PROVE Counting'
  <2>1. Users' = Users
    BY <1>3 DEF TryRestart, Goto, Types, Places, Users
  <2>. QED
    BY <1>3, <2>1 DEF TryRestart, Goto, Counting, UsageExact, Types, Places
<1>4. ASSUME NEW p \in Process, Enter(p) PROVE Counting'
  <2>1. Users' = Users
    BY <1>4 DEF Enter, Goto, Types, Places, Users
  <2>. QED
    BY <1>4, <2>1 DEF Enter, Goto, Counting, UsageExact, Types, Places
<1>5. ASSUME NEW p \in Process, Begin(p) PROVE Counting'
  <2>1. Users' = Users
    BY <1>5 DEF Begin, Goto, Types, Places, Users
  <2>. QED
    BY <1>5, <2>1 DEF Begin, Goto, Counting, UsageExact, Types, Places
<1>6. ASSUME NEW p \in Process, Clean(p) PROVE Counting'
  <2>1. Users' = Users
    BY <1>6 DEF Clean, Goto, Types, Places, Users
  <2>. QED
    BY <1>6, <2>1 DEF Clean, Goto, Counting, UsageExact, Types, Places
<1>7. ASSUME NEW p \in Process, Enable(p) PROVE Counting'
  <2>1. Users' = Users
    BY <1>7 DEF Enable, Goto, Types, Places, Users
  <2>. QED
    BY <1>7, <2>1 DEF Enable, Goto, Counting, UsageExact, Types, Places
<1>8. ASSUME NEW p \in Process, Stamp(p) PROVE Counting'
  <2>1. Users' = Users
    BY <1>8 DEF Stamp, NextTime, Goto, Types, Places, Users
  <2>. QED
    BY <1>8, <2>1 DEF Stamp, NextTime, Goto, Counting, UsageExact, Types, Places
<1>9. ASSUME NEW p \in Process, Leave(p) PROVE Counting'
  <2>1. Users' = Users
    BY <1>9 DEF Leave, Goto, Types, Places, Users
  <2>. QED
    BY <1>9, <2>1 DEF Leave, Goto, Counting, UsageExact, Types, Places
<1>9a. ASSUME NEW p \in Process, Uncount(p) PROVE Counting'
  <2>1. Users' = Users
    BY <1>9a DEF Uncount, Goto, Types, Places, Users
  <2>. QED
    BY <1>9a, <2>1 DEF Uncount, Goto, Counting, UsageExact, Types, Places
<1>9b. ASSUME NEW p \in Process, Unlock(p) PROVE Counting'
  <2>1. Users' = Users
    BY <1>9b DEF Unlock, Goto, Types, Places, Users
  <2>. QED
    BY <1>9b, <2>1 DEF Unlock, Goto, Counting, UsageExact, Types, Places
<1>10. ASSUME NEW p \in Process, Adopt(p) PROVE Counting'
  <2>1. Users' = Users
    BY <1>10 DEF Adopt, Goto, Types, Places, Users
  <2>. QED
    BY <1>10, <2>1 DEF Adopt, Goto, Counting, UsageExact, Types, Places
<1>11. ASSUME NEW p \in Process, Compare(p) PROVE Counting'
  <2>1. Users' = Users
    BY <1>11 DEF Compare, Goto, Types, Places, Users
  <2>. QED
    BY <1>11, <2>1 DEF Compare, Goto, Counting, UsageExact, Types, Places
<1>12. ASSUME NEW p \in Process, FindInterned(p) PROVE Counting'
  <2>1. \A q \in Process \ {p} : q \in Users <=> q \in Users'
    BY <1>12 DEF FindInterned, CountIn, Types, Switches, Places, Users
  <2>2. /\ (p \in Users <=> p \in Users') => Users' = Users
        /\ p \in Users' /\ p \notin Users => Cardinality(Users') = Cardinality(Users) + 1
        /\ p \in Users /\ p \notin Users' => Cardinality(Users') = Cardinality(Users) - 1
        /\ Cardinality(Users) \in Nat
    BY <2>1, OneMoves, Users \in SUBSET Process, Users' \in SUBSET Process DEF Users
  <2>3. /\ p \in Users <=> counted[p] \/ pc[p] = "recheck"
        /\ p \in Users' <=> counted'[p] \/ pc'[p] = "recheck"
    BY DEF Users
  <2>4. \A q \in Process : pc'[q] = "recheck" => ~counted'[q]
    BY <1>12 DEF FindInterned, CountIn, Counting, Types, Switches, Places
  <2>5. UsageExact'
    BY <1>12, <2>2, <2>3 DEF FindInterned, CountIn, Counting, UsageExact, Types, Switches, Numbers, Places
  <2>. QED
    BY <2>4, <2>5 DEF Counting
<1>13. ASSUME NEW p \in Process, NEW f \in File, ResolvePath(p, f) PROVE Counting'
  <2>1. Users' = Users
    BY <1>13 DEF ResolvePath, Lookup, Script, Types, Places, Users
  <2>. QED
    BY <1>13, <2>1 DEF ResolvePath, Lookup, Script, Counting, UsageExact, Types, Places
<1>14. ASSUME NEW p \in Process, NEW f \in File, Compile(p, f) PROVE Counting'
  <2>1. Users' = Users
    BY <1>14 DEF Compile, Marked, Goto, Types, Places, Users
  <2>. QED
    BY <1>14, <2>1 DEF Compile, Marked, Goto, Counting, UsageExact, Types, Places
<1>15. ASSUME NEW p \in Process, Find(p) PROVE Counting'
  <2>1. Users' = Users
    BY <1>15 DEF Find, Lookup, Script, Goto, Types, Places, Users
  <2>. QED
    BY <1>15, <2>1 DEF Find, Lookup, Script, Goto, Counting, UsageExact, Types, Places
<1>16. ASSUME NEW p \in Process, Count(p) PROVE Counting'
  <2>1. \A q \in Process \ {p} : q \in Users <=> q \in Users'
    BY <1>16 DEF Count, CountIn, Execute, Goto, Types, Switches, Places, Users
  <2>2. /\ (p \in Users <=> p \in Users') => Users' = Users
        /\ p \in Users' /\ p \notin Users => Cardinality(Users') = Cardinality(Users) + 1
        /\ p \in Users /\ p \notin Users' => Cardinality(Users') = Cardinality(Users) - 1
        /\ Cardinality(Users) \in Nat
    BY <2>1, OneMoves, Users \in SUBSET Process, Users' \in SUBSET Process DEF Users
  <2>3. /\ p \in Users <=> counted[p] \/ pc[p] = "recheck"
        /\ p \in Users' <=> counted'[p] \/ pc'[p] = "recheck"
    BY DEF Users
  <2>4. \A q \in Process : pc'[q] = "recheck" => ~counted'[q]
    BY <1>16 DEF Count, CountIn, Execute, Goto, Counting, Types, Switches, Places
  <2>5. UsageExact'
    BY <1>16, <2>2, <2>3 DEF Count, CountIn, Execute, Goto, Counting, UsageExact, Types, Switches, Numbers, Places
  <2>. QED
    BY <2>4, <2>5 DEF Counting
<1>17. ASSUME NEW p \in Process, Corrupt(p) PROVE Counting'
  <2>1. Users' = Users
    BY <1>17 DEF Corrupt, Marked, Locked, ScheduleIfNecessary, Schedule, Goto, Types, Places, Users
  <2>. QED
    BY <1>17, <2>1 DEF Corrupt, Marked, Locked, ScheduleIfNecessary, Schedule, Goto, Counting, UsageExact, Types, Places
<1>18. ASSUME NEW p \in Process, Miss(p) PROVE Counting'
  <2>1. Users' = Users
    BY <1>18 DEF Miss, Goto, Types, Places, Users
  <2>. QED
    BY <1>18, <2>1 DEF Miss, Goto, Counting, UsageExact, Types, Places
<1>19. ASSUME NEW p \in Process, Store(p) PROVE Counting'
  <2>1. Users' = Users
    BY <1>19 DEF Store, Locked, Execute, Lookup, Script, ScheduleIfNecessary, Schedule, Goto, Types, Places, Users
  <2>. QED
    BY <1>19, <2>1 DEF Store, Locked, Execute, Lookup, Script, ScheduleIfNecessary, Schedule, Goto, Counting, UsageExact, Types, Places
<1>20. ASSUME NEW p \in Process, NEW f \in File, ReadLock(p, f) PROVE Counting'
  <2>1. \A q \in Process \ {p} : q \in Users <=> q \in Users'
    BY <1>20 DEF ReadLock, Goto, Types, Switches, Places, Users
  <2>2. /\ (p \in Users <=> p \in Users') => Users' = Users
        /\ p \in Users' /\ p \notin Users => Cardinality(Users') = Cardinality(Users) + 1
        /\ p \in Users /\ p \notin Users' => Cardinality(Users') = Cardinality(Users) - 1
        /\ Cardinality(Users) \in Nat
    BY <2>1, OneMoves, Users \in SUBSET Process, Users' \in SUBSET Process DEF Users
  <2>3. /\ p \in Users <=> counted[p] \/ pc[p] = "recheck"
        /\ p \in Users' <=> counted'[p] \/ pc'[p] = "recheck"
    BY DEF Users
  <2>4. \A q \in Process : pc'[q] = "recheck" => ~counted'[q]
    BY <1>20 DEF ReadLock, Goto, Counting, Types, Switches, Places
  <2>5. UsageExact'
    BY <1>20, <2>2, <2>3 DEF ReadLock, Goto, Counting, UsageExact, Types, Switches, Numbers, Places
  <2>. QED
    BY <2>4, <2>5 DEF Counting
<1>21. ASSUME NEW p \in Process, Recheck(p) PROVE Counting'
  <2>1. \A q \in Process \ {p} : q \in Users <=> q \in Users'
    BY <1>21 DEF Recheck, Goto, Types, Switches, Places, Users
  <2>2. /\ (p \in Users <=> p \in Users') => Users' = Users
        /\ p \in Users' /\ p \notin Users => Cardinality(Users') = Cardinality(Users) + 1
        /\ p \in Users /\ p \notin Users' => Cardinality(Users') = Cardinality(Users) - 1
        /\ Cardinality(Users) \in Nat
    BY <2>1, OneMoves, Users \in SUBSET Process, Users' \in SUBSET Process DEF Users
  <2>3. /\ p \in Users <=> counted[p] \/ pc[p] = "recheck"
        /\ p \in Users' <=> counted'[p] \/ pc'[p] = "recheck"
    BY DEF Users
  <2>4. \A q \in Process : pc'[q] = "recheck" => ~counted'[q]
    BY <1>21 DEF Recheck, Goto, Counting, Types, Switches, Places
  <2>5. UsageExact'
    BY <1>21, <2>2, <2>3 DEF Recheck, Goto, Counting, UsageExact, Types, Switches, Numbers, Places
  <2>. QED
    BY <2>4, <2>5 DEF Counting
<1>22. ASSUME NEW p \in Process, Seek(p) PROVE Counting'
  <2>1. Users' = Users
    BY <1>22 DEF Seek, Lookup, Script, Goto, Types, Places, Users
  <2>. QED
    BY <1>22, <2>1 DEF Seek, Lookup, Script, Goto, Counting, UsageExact, Types, Places
<1>23. ASSUME NEW p \in Process, AskReset(p) PROVE Counting'
  <2>1. Users' = Users
    BY <1>23 DEF AskReset, Goto, Types, Places, Users
  <2>. QED
    BY <1>23, <2>1 DEF AskReset, Goto, Counting, UsageExact, Types, Places
<1>24. ASSUME NEW p \in Process, Reset(p) PROVE Counting'
  <2>1. Users' = Users
    BY <1>24 DEF Reset, Locked, Schedule, Goto, Types, Places, Users
  <2>. QED
    BY <1>24, <2>1 DEF Reset, Locked, Schedule, Goto, Counting, UsageExact, Types, Places
<1>25. ASSUME NEW p \in Process, EndRequest(p) PROVE Counting'
  <2>1. \A q \in Process \ {p} : q \in Users <=> q \in Users'
    BY <1>25 DEF EndRequest, CountOut, Goto, Types, Switches, Places, Users
  <2>2. /\ (p \in Users <=> p \in Users') => Users' = Users
        /\ p \in Users' /\ p \notin Users => Cardinality(Users') = Cardinality(Users) + 1
        /\ p \in Users /\ p \notin Users' => Cardinality(Users') = Cardinality(Users) - 1
        /\ Cardinality(Users) \in Nat
    BY <2>1, OneMoves, Users \in SUBSET Process, Users' \in SUBSET Process DEF Users
  <2>3. /\ p \in Users <=> counted[p] \/ pc[p] = "recheck"
        /\ p \in Users' <=> counted'[p] \/ pc'[p] = "recheck"
    BY DEF Users
  <2>4. \A q \in Process : pc'[q] = "recheck" => ~counted'[q]
    BY <1>25 DEF EndRequest, CountOut, Goto, Counting, Types, Switches, Places
  <2>5. UsageExact'
    BY <1>25, <2>2, <2>3 DEF EndRequest, CountOut, Goto, Counting, UsageExact, Types, Switches, Numbers, Places
  <2>. QED
    BY <2>4, <2>5 DEF Counting
<1>26. ASSUME NEW p \in Process, Kill(p) PROVE Counting'
  <2>1. \A q \in Process \ {p} : q \in Users <=> q \in Users'
    BY <1>26 DEF Kill, Goto, Types, Switches, Places, Users
  <2>2. /\ (p \in Users <=> p \in Users') => Users' = Users
        /\ p \in Users' /\ p \notin Users => Cardinality(Users') = Cardinality(Users) + 1
        /\ p \in Users /\ p \notin Users' => Cardinality(Users') = Cardinality(Users) - 1
        /\ Cardinality(Users) \in Nat
    BY <2>1, OneMoves, Users \in SUBSET Process, Users' \in SUBSET Process DEF Users
  <2>3. /\ p \in Users <=> counted[p] \/ pc[p] = "recheck"
        /\ p \in Users' <=> counted'[p] \/ pc'[p] = "recheck"
    BY DEF Users
  <2>4. \A q \in Process : pc'[q] = "recheck" => ~counted'[q]
    BY <1>26 DEF Kill, Goto, Counting, Types, Switches, Places
  <2>5. UsageExact'
    BY <1>26, <2>2, <2>3 DEF Kill, Goto, Counting, UsageExact, Types, Switches, Numbers, Places
  <2>. QED
    BY <2>4, <2>5 DEF Counting
<1>27. ASSUME Tick PROVE Counting'
  BY <1>27 DEF Tick, Counting, UsageExact, Users
<1>28. ASSUME UNCHANGED vars PROVE Counting'
  BY <1>28 DEF vars, Counting, UsageExact, Users
<1>. QED
  BY <1>1, <1>2, <1>3, <1>4, <1>5, <1>6, <1>7, <1>8, <1>9, <1>9a, <1>9b, <1>10,
     <1>11, <1>12, <1>13, <1>14, <1>15, <1>16, <1>17, <1>18, <1>19,
     <1>20, <1>21, <1>22, <1>23, <1>24, <1>25, <1>26, <1>27, <1>28
     DEF Next, Proceed, Restart, Body

-----------------------------------------------------------------------------
(* Sound scripts are only held by those who are counted, and by nobody     *)
(* once the restart has seen that there are no users.                      *)
Sound ==
    \A p \in Process :
        /\ using[p] \subseteq {gen}
        /\ using[p] # {} => counted[p]
        /\ pc[p] = "idle" => using[p] = {}
        /\ script[p] # None /\ script[p].sound => counted[p] /\ script[p].gen = gen
        /\ pc[p] \in {"corrupt", "miss", "store"} => counted[p]
        /\ memory_mutex # None => using[p] = {} /\ (script[p] # None => ~script[p].sound)

(* When the count is 0 nobody is counted.                                  *)
LEMMA NoUsers ==
  ASSUME Types, leaked \in Nat, UsageExact, mem_usage = 0
  PROVE  \A p \in Process : ~counted[p]
<1>1. IsFiniteSet(Users)
  BY OpcacheAssumption, FS_Subset, Users \in SUBSET Process DEF Users
<1>2. Cardinality(Users) \in Nat
  BY <1>1, FS_CardinalityType
<1>3. Cardinality(Users) = 0
  BY <1>2 DEF UsageExact
<1>4. Users = {}
  BY <1>1, <1>3, FS_EmptySet
<1>. QED
  BY <1>4 DEF Users

LEMMA SoundStep ==
  Types /\ MutexHeld /\ UsageExact /\ Sound /\ [Next]_vars => Sound'
<1> SUFFICES ASSUME Types /\ MutexHeld /\ UsageExact /\ Sound, [Next]_vars PROVE Sound'
  OBVIOUS
<1> USE DEF cacheVars, restartVars, progressVars, ownVars, callVars, usage, world
<1>1. ASSUME NEW p \in Process, Activate(p) PROVE Sound'
  BY <1>1, OpcacheAssumption DEF Activate, CountOut, Goto, Types, Switches, Numbers, Places, Pointers, MutexHeld, Sound, Window
<1>2. ASSUME NEW p \in Process, CheckPending(p) PROVE Sound'
  BY <1>2, OpcacheAssumption DEF CheckPending, Goto, Types, Switches, Numbers, Places, Pointers, MutexHeld, Sound, Window
<1>3. ASSUME NEW p \in Process, TryRestart(p) PROVE Sound'
  <2>1. CASE mem_usage = 0
    <3>1. \A q \in Process : ~counted[q]
      BY <2>1, NoUsers DEF Types, Numbers
    <3>. QED
      BY <1>3, <3>1 DEF TryRestart, Goto, Sound, Types, Switches, Numbers, Places, Pointers
  <2>2. CASE mem_usage # 0
    BY <1>3, <2>2 DEF TryRestart, Goto, Sound, Types, Switches, Numbers, Places, Pointers
  <2>. QED
    BY <2>1, <2>2
<1>4. ASSUME NEW p \in Process, Enter(p) PROVE Sound'
  BY <1>4, OpcacheAssumption DEF Enter, Goto, Types, Switches, Numbers, Places, Pointers, MutexHeld, Sound, Window
<1>5. ASSUME NEW p \in Process, Begin(p) PROVE Sound'
  BY <1>5, OpcacheAssumption DEF Begin, Goto, Types, Switches, Numbers, Places, Pointers, MutexHeld, Sound, Window
<1>6. ASSUME NEW p \in Process, Clean(p) PROVE Sound'
  BY <1>6, OpcacheAssumption DEF Clean, Goto, Types, Switches, Numbers, Places, Pointers, MutexHeld, Sound, Window
<1>7. ASSUME NEW p \in Process, Enable(p) PROVE Sound'
  BY <1>7, OpcacheAssumption DEF Enable, Goto, Types, Switches, Numbers, Places, Pointers, MutexHeld, Sound, Window
<1>8. ASSUME NEW p \in Process, Stamp(p) PROVE Sound'
  BY <1>8, OpcacheAssumption DEF Stamp, NextTime, Goto, Types, Switches, Numbers, Places, Pointers, MutexHeld, Sound, Window
<1>9. ASSUME NEW p \in Process, Leave(p) PROVE Sound'
  BY <1>9, OpcacheAssumption DEF Leave, Goto, Types, Switches, Numbers, Places, Pointers, MutexHeld, Sound, Window
<1>9a. ASSUME NEW p \in Process, Uncount(p) PROVE Sound'
  BY <1>9a, OpcacheAssumption DEF Uncount, Goto, Types, Switches, Numbers, Places, Pointers, MutexHeld, Sound, Window
<1>9b. ASSUME NEW p \in Process, Unlock(p) PROVE Sound'
  BY <1>9b, OpcacheAssumption DEF Unlock, Goto, Types, Switches, Numbers, Places, Pointers, MutexHeld, Sound, Window
<1>10. ASSUME NEW p \in Process, Adopt(p) PROVE Sound'
  BY <1>10, OpcacheAssumption DEF Adopt, Goto, Types, Switches, Numbers, Places, Pointers, MutexHeld, Sound, Window
<1>11. ASSUME NEW p \in Process, Compare(p) PROVE Sound'
  BY <1>11, OpcacheAssumption DEF Compare, Goto, Types, Switches, Numbers, Places, Pointers, MutexHeld, Sound, Window
<1>12. ASSUME NEW p \in Process, FindInterned(p) PROVE Sound'
  BY <1>12, OpcacheAssumption DEF FindInterned, CountIn, Types, Switches, Numbers, Places, Pointers, MutexHeld, Sound, Window
<1>13. ASSUME NEW p \in Process, NEW f \in File, ResolvePath(p, f) PROVE Sound'
  BY <1>13, OpcacheAssumption DEF ResolvePath, Lookup, Script, Types, Switches, Numbers, Places, Pointers, MutexHeld, Sound, Window
<1>14. ASSUME NEW p \in Process, NEW f \in File, Compile(p, f) PROVE Sound'
  BY <1>14, OpcacheAssumption DEF Compile, Marked, Goto, Types, Switches, Numbers, Places, Pointers, MutexHeld, Sound, Window
<1>15. ASSUME NEW p \in Process, Find(p) PROVE Sound'
  BY <1>15, OpcacheAssumption DEF Find, Lookup, Script, Goto, Types, Switches, Numbers, Places, Pointers, MutexHeld, Sound, Window
<1>16. ASSUME NEW p \in Process, Count(p) PROVE Sound'
  BY <1>16, OpcacheAssumption DEF Count, CountIn, Execute, Script, Goto, Types, Switches, Numbers, Places, Pointers, MutexHeld, Sound, Window
<1>17. ASSUME NEW p \in Process, Corrupt(p) PROVE Sound'
  BY <1>17, OpcacheAssumption DEF Corrupt, Marked, Locked, ScheduleIfNecessary, Schedule, Goto, Types, Switches, Numbers, Places, Pointers, MutexHeld, Sound, Window
<1>18. ASSUME NEW p \in Process, Miss(p) PROVE Sound'
  BY <1>18, OpcacheAssumption DEF Miss, Goto, Types, Switches, Numbers, Places, Pointers, MutexHeld, Sound, Window
<1>19. ASSUME NEW p \in Process, Store(p) PROVE Sound'
  BY <1>19, OpcacheAssumption DEF Store, Locked, Execute, Lookup, Script, ScheduleIfNecessary, Schedule, Goto, Types, Switches, Numbers, Places, Pointers, MutexHeld, Sound, Window
<1>20. ASSUME NEW p \in Process, NEW f \in File, ReadLock(p, f) PROVE Sound'
  BY <1>20, OpcacheAssumption DEF ReadLock, Goto, Types, Switches, Numbers, Places, Pointers, MutexHeld, Sound, Window
<1>21. ASSUME NEW p \in Process, Recheck(p) PROVE Sound'
  BY <1>21, OpcacheAssumption DEF Recheck, Goto, Types, Switches, Numbers, Places, Pointers, MutexHeld, Sound, Window
<1>22. ASSUME NEW p \in Process, Seek(p) PROVE Sound'
  BY <1>22, OpcacheAssumption DEF Seek, Lookup, Script, Goto, Types, Switches, Numbers, Places, Pointers, MutexHeld, Sound, Window
<1>23. ASSUME NEW p \in Process, AskReset(p) PROVE Sound'
  BY <1>23, OpcacheAssumption DEF AskReset, Goto, Types, Switches, Numbers, Places, Pointers, MutexHeld, Sound, Window
<1>24. ASSUME NEW p \in Process, Reset(p) PROVE Sound'
  BY <1>24, OpcacheAssumption DEF Reset, Locked, Schedule, Goto, Types, Switches, Numbers, Places, Pointers, MutexHeld, Sound, Window
<1>25. ASSUME NEW p \in Process, EndRequest(p) PROVE Sound'
  BY <1>25, OpcacheAssumption DEF EndRequest, CountOut, Goto, Types, Switches, Numbers, Places, Pointers, MutexHeld, Sound, Window
<1>26. ASSUME NEW p \in Process, Kill(p) PROVE Sound'
  BY <1>26, OpcacheAssumption DEF Kill, Goto, Types, Switches, Numbers, Places, Pointers, MutexHeld, Sound, Window
<1>27. ASSUME Tick PROVE Sound'
  BY <1>27, OpcacheAssumption DEF Tick, Types, Switches, Numbers, Places, Pointers, MutexHeld, Sound, Window
<1>28. ASSUME UNCHANGED vars PROVE Sound'
  BY <1>28, OpcacheAssumption DEF vars, Types, Switches, Numbers, Places, Pointers, MutexHeld, Sound, Window
<1>. QED
  BY <1>1, <1>2, <1>3, <1>4, <1>5, <1>6, <1>7, <1>8, <1>9, <1>9a, <1>9b, <1>10,
     <1>11, <1>12, <1>13, <1>14, <1>15, <1>16, <1>17, <1>18, <1>19,
     <1>20, <1>21, <1>22, <1>23, <1>24, <1>25, <1>26, <1>27, <1>28
     DEF Next, Proceed, Restart, Body

-----------------------------------------------------------------------------
(* When the cache is off a restart is due or under way, and what restores  *)
(* the status of before knows that it was on.                              *)
Emptying == {"begin", "clean", "enable"}
OffInv ==
    \/ aborted
    \/ /\ accelerator_enabled \/ restart_pending \/ \E p \in Process : pc[p] \in Emptying
       /\ restart_pending => cache_status
       /\ \A p \in Process : pc[p] = "enter" => restart_pending
       /\ \A p \in Process : pc[p] \in Emptying => cache_status

LEMMA OffStep ==
  Types /\ MutexHeld /\ OffInv /\ [Next]_vars => OffInv'
<1> SUFFICES ASSUME Types /\ MutexHeld /\ OffInv, [Next]_vars PROVE OffInv'
  OBVIOUS
<1> USE DEF cacheVars, restartVars, progressVars, ownVars, callVars, usage, world
<1>1. ASSUME NEW p \in Process, Activate(p) PROVE OffInv'
  BY <1>1, OpcacheAssumption DEF Activate, CountOut, Goto, Types, Switches, Places, MutexHeld, OffInv, Emptying, Window
<1>2. ASSUME NEW p \in Process, CheckPending(p) PROVE OffInv'
  BY <1>2, OpcacheAssumption DEF CheckPending, Goto, Types, Switches, Places, MutexHeld, OffInv, Emptying, Window
<1>3. ASSUME NEW p \in Process, TryRestart(p) PROVE OffInv'
  BY <1>3, OpcacheAssumption DEF TryRestart, Goto, Types, Switches, Places, MutexHeld, OffInv, Emptying, Window
<1>4. ASSUME NEW p \in Process, Enter(p) PROVE OffInv'
  BY <1>4, OpcacheAssumption DEF Enter, Goto, Types, Switches, Places, MutexHeld, OffInv, Emptying, Window
<1>5. ASSUME NEW p \in Process, Begin(p) PROVE OffInv'
  BY <1>5, OpcacheAssumption DEF Begin, Goto, Types, Switches, Places, MutexHeld, OffInv, Emptying, Window
<1>6. ASSUME NEW p \in Process, Clean(p) PROVE OffInv'
  BY <1>6, OpcacheAssumption DEF Clean, Goto, Types, Switches, Places, MutexHeld, OffInv, Emptying, Window
<1>7. ASSUME NEW p \in Process, Enable(p) PROVE OffInv'
  BY <1>7, OpcacheAssumption DEF Enable, Goto, Types, Switches, Places, MutexHeld, OffInv, Emptying, Window
<1>8. ASSUME NEW p \in Process, Stamp(p) PROVE OffInv'
  BY <1>8, OpcacheAssumption DEF Stamp, NextTime, Goto, Types, Switches, Places, MutexHeld, OffInv, Emptying, Window
<1>9. ASSUME NEW p \in Process, Leave(p) PROVE OffInv'
  BY <1>9, OpcacheAssumption DEF Leave, Goto, Types, Switches, Places, MutexHeld, OffInv, Emptying, Window
<1>9a. ASSUME NEW p \in Process, Uncount(p) PROVE OffInv'
  BY <1>9a, OpcacheAssumption DEF Uncount, Goto, Types, Switches, Places, MutexHeld, OffInv, Emptying, Window
<1>9b. ASSUME NEW p \in Process, Unlock(p) PROVE OffInv'
  BY <1>9b, OpcacheAssumption DEF Unlock, Goto, Types, Switches, Places, MutexHeld, OffInv, Emptying, Window
<1>10. ASSUME NEW p \in Process, Adopt(p) PROVE OffInv'
  BY <1>10, OpcacheAssumption DEF Adopt, Goto, Types, Switches, Places, MutexHeld, OffInv, Emptying, Window
<1>11. ASSUME NEW p \in Process, Compare(p) PROVE OffInv'
  BY <1>11, OpcacheAssumption DEF Compare, Goto, Types, Switches, Places, MutexHeld, OffInv, Emptying, Window
<1>12. ASSUME NEW p \in Process, FindInterned(p) PROVE OffInv'
  BY <1>12, OpcacheAssumption DEF FindInterned, CountIn, Types, Switches, Places, MutexHeld, OffInv, Emptying, Window
<1>13. ASSUME NEW p \in Process, NEW f \in File, ResolvePath(p, f) PROVE OffInv'
  BY <1>13, OpcacheAssumption DEF ResolvePath, Lookup, Script, Types, Switches, Places, MutexHeld, OffInv, Emptying, Window
<1>14. ASSUME NEW p \in Process, NEW f \in File, Compile(p, f) PROVE OffInv'
  BY <1>14, OpcacheAssumption DEF Compile, Marked, Goto, Types, Switches, Places, MutexHeld, OffInv, Emptying, Window
<1>15. ASSUME NEW p \in Process, Find(p) PROVE OffInv'
  BY <1>15, OpcacheAssumption DEF Find, Lookup, Script, Goto, Types, Switches, Places, MutexHeld, OffInv, Emptying, Window
<1>16. ASSUME NEW p \in Process, Count(p) PROVE OffInv'
  BY <1>16, OpcacheAssumption DEF Count, CountIn, Execute, Script, Goto, Types, Switches, Places, MutexHeld, OffInv, Emptying, Window
<1>17. ASSUME NEW p \in Process, Corrupt(p) PROVE OffInv'
  BY <1>17, OpcacheAssumption DEF Corrupt, Marked, Locked, ScheduleIfNecessary, Schedule, Goto, Types, Switches, Places, MutexHeld, OffInv, Emptying, Window
<1>18. ASSUME NEW p \in Process, Miss(p) PROVE OffInv'
  BY <1>18, OpcacheAssumption DEF Miss, Goto, Types, Switches, Places, MutexHeld, OffInv, Emptying, Window
<1>19. ASSUME NEW p \in Process, Store(p) PROVE OffInv'
  BY <1>19, OpcacheAssumption DEF Store, Locked, Execute, Lookup, Script, ScheduleIfNecessary, Schedule, Goto, Types, Switches, Places, MutexHeld, OffInv, Emptying, Window
<1>20. ASSUME NEW p \in Process, NEW f \in File, ReadLock(p, f) PROVE OffInv'
  BY <1>20, OpcacheAssumption DEF ReadLock, Goto, Types, Switches, Places, MutexHeld, OffInv, Emptying, Window
<1>21. ASSUME NEW p \in Process, Recheck(p) PROVE OffInv'
  BY <1>21, OpcacheAssumption DEF Recheck, Goto, Types, Switches, Places, MutexHeld, OffInv, Emptying, Window
<1>22. ASSUME NEW p \in Process, Seek(p) PROVE OffInv'
  BY <1>22, OpcacheAssumption DEF Seek, Lookup, Script, Goto, Types, Switches, Places, MutexHeld, OffInv, Emptying, Window
<1>23. ASSUME NEW p \in Process, AskReset(p) PROVE OffInv'
  BY <1>23, OpcacheAssumption DEF AskReset, Goto, Types, Switches, Places, MutexHeld, OffInv, Emptying, Window
<1>24. ASSUME NEW p \in Process, Reset(p) PROVE OffInv'
  BY <1>24, OpcacheAssumption DEF Reset, Locked, Schedule, Goto, Types, Switches, Places, MutexHeld, OffInv, Emptying, Window
<1>25. ASSUME NEW p \in Process, EndRequest(p) PROVE OffInv'
  BY <1>25, OpcacheAssumption DEF EndRequest, CountOut, Goto, Types, Switches, Places, MutexHeld, OffInv, Emptying, Window
<1>26. ASSUME NEW p \in Process, Kill(p) PROVE OffInv'
  BY <1>26, OpcacheAssumption DEF Kill, Goto, Types, Switches, Places, MutexHeld, OffInv, Emptying, Window
<1>27. ASSUME Tick PROVE OffInv'
  BY <1>27, OpcacheAssumption DEF Tick, Types, Switches, Places, MutexHeld, OffInv, Emptying, Window
<1>28. ASSUME UNCHANGED vars PROVE OffInv'
  BY <1>28, OpcacheAssumption DEF vars, Types, Switches, Places, MutexHeld, OffInv, Emptying, Window
<1>. QED
  BY <1>1, <1>2, <1>3, <1>4, <1>5, <1>6, <1>7, <1>8, <1>9, <1>9a, <1>9b, <1>10,
     <1>11, <1>12, <1>13, <1>14, <1>15, <1>16, <1>17, <1>18, <1>19,
     <1>20, <1>21, <1>22, <1>23, <1>24, <1>25, <1>26, <1>27, <1>28
     DEF Next, Proceed, Restart, Body

-----------------------------------------------------------------------------
(* The order of the generations, the restarts that were completed and the  *)
(* times given to them: who has seen the time of the last restart has      *)
(* nothing of before it.                                                   *)
Starting == Window \cup {"check", "lock", "adopt", "compare"}
Order ==
    /\ stamped <= gen
    /\ \A p \in Process :
         /\ pc[p] \in {"enable", "stamp"} => stamped < gen
         /\ pc[p] \in Starting => script[p] = None
         /\ seen[p] <= last_restart_time
         /\ began[p] <= stamped
         /\ script[p] # None => script[p].gen >= began[p] /\ script[p].gen <= gen
         /\ seen[p] = last_restart_time =>
              /\ \A g \in pcre[p] : g >= stamped
              /\ script[p] # None => script[p].gen >= stamped
    /\ FreshCaches

LEMMA OrderStep ==
  Types /\ MutexHeld /\ Order /\ [Next]_vars => Order'
<1> SUFFICES ASSUME Types /\ MutexHeld /\ Order, [Next]_vars PROVE Order'
  OBVIOUS
<1> USE DEF cacheVars, restartVars, progressVars, ownVars, callVars, usage, world
<1>1. ASSUME NEW p \in Process, Activate(p) PROVE Order'
  BY <1>1, OpcacheAssumption DEF Activate, CountOut, Goto, Types, Switches, Numbers, Places, Pointers, MutexHeld, Order, FreshCaches, Starting, Window
<1>2. ASSUME NEW p \in Process, CheckPending(p) PROVE Order'
  BY <1>2, OpcacheAssumption DEF CheckPending, Goto, Types, Switches, Numbers, Places, Pointers, MutexHeld, Order, FreshCaches, Starting, Window
<1>3. ASSUME NEW p \in Process, TryRestart(p) PROVE Order'
  BY <1>3, OpcacheAssumption DEF TryRestart, Goto, Types, Switches, Numbers, Places, Pointers, MutexHeld, Order, FreshCaches, Starting, Window
<1>4. ASSUME NEW p \in Process, Enter(p) PROVE Order'
  BY <1>4, OpcacheAssumption DEF Enter, Goto, Types, Switches, Numbers, Places, Pointers, MutexHeld, Order, FreshCaches, Starting, Window
<1>5. ASSUME NEW p \in Process, Begin(p) PROVE Order'
  BY <1>5, OpcacheAssumption DEF Begin, Goto, Types, Switches, Numbers, Places, Pointers, MutexHeld, Order, FreshCaches, Starting, Window
<1>6. ASSUME NEW p \in Process, Clean(p) PROVE Order'
  <2>1. /\ gen' = gen + 1 /\ gen \in Nat /\ stamped' = stamped /\ stamped \in Nat
        /\ \A q \in Process : script[q] \in Script \cup {None}
        /\ UNCHANGED <<script, seen, pcre, began, last_restart_time, on>>
    BY <1>6 DEF Clean, Types, Numbers, Pointers
  <2>2. \A q \in Process : script[q] # None => script[q].gen \in Nat
    BY <2>1 DEF Script
  <2>3. pc' = [pc EXCEPT ![p] = "enable"] /\ pc[p] = "clean"
    BY <1>6 DEF Clean, Goto
  <2>4. FreshCaches'
    BY <2>1, <2>3 DEF Order, FreshCaches, Types, Places, Window
  <2>. QED
    BY <2>1, <2>2, <2>3, <2>4 DEF Order, Types, Places, Starting, Window
<1>7. ASSUME NEW p \in Process, Enable(p) PROVE Order'
  BY <1>7, OpcacheAssumption DEF Enable, Goto, Types, Switches, Numbers, Places, Pointers, MutexHeld, Order, FreshCaches, Starting, Window
<1>8. ASSUME NEW p \in Process, Stamp(p) PROVE Order'
  BY <1>8, OpcacheAssumption DEF Stamp, NextTime, Goto, Types, Switches, Numbers, Places, Pointers, MutexHeld, Order, FreshCaches, Starting, Window
<1>9. ASSUME NEW p \in Process, Leave(p) PROVE Order'
  BY <1>9, OpcacheAssumption DEF Leave, Goto, Types, Switches, Numbers, Places, Pointers, MutexHeld, Order, FreshCaches, Starting, Window
<1>9a. ASSUME NEW p \in Process, Uncount(p) PROVE Order'
  BY <1>9a, OpcacheAssumption DEF Uncount, Goto, Types, Switches, Numbers, Places, Pointers, MutexHeld, Order, FreshCaches, Starting, Window
<1>9b. ASSUME NEW p \in Process, Unlock(p) PROVE Order'
  BY <1>9b, OpcacheAssumption DEF Unlock, Goto, Types, Switches, Numbers, Places, Pointers, MutexHeld, Order, FreshCaches, Starting, Window
<1>10. ASSUME NEW p \in Process, Adopt(p) PROVE Order'
  BY <1>10, OpcacheAssumption DEF Adopt, Goto, Types, Switches, Numbers, Places, Pointers, MutexHeld, Order, FreshCaches, Starting, Window
<1>11. ASSUME NEW p \in Process, Compare(p) PROVE Order'
  BY <1>11, OpcacheAssumption DEF Compare, Goto, Types, Switches, Numbers, Places, Pointers, MutexHeld, Order, FreshCaches, Starting, Window
<1>12. ASSUME NEW p \in Process, FindInterned(p) PROVE Order'
  BY <1>12, OpcacheAssumption DEF FindInterned, CountIn, Types, Switches, Numbers, Places, Pointers, MutexHeld, Order, FreshCaches, Starting, Window
<1>13. ASSUME NEW p \in Process, NEW f \in File, ResolvePath(p, f) PROVE Order'
  BY <1>13, OpcacheAssumption DEF ResolvePath, Lookup, Script, Types, Switches, Numbers, Places, Pointers, MutexHeld, Order, FreshCaches, Starting, Window
<1>14. ASSUME NEW p \in Process, NEW f \in File, Compile(p, f) PROVE Order'
  BY <1>14, OpcacheAssumption DEF Compile, Marked, Goto, Types, Switches, Numbers, Places, Pointers, MutexHeld, Order, FreshCaches, Starting, Window
<1>15. ASSUME NEW p \in Process, Find(p) PROVE Order'
  BY <1>15, OpcacheAssumption DEF Find, Lookup, Script, Goto, Types, Switches, Numbers, Places, Pointers, MutexHeld, Order, FreshCaches, Starting, Window
<1>16. ASSUME NEW p \in Process, Count(p) PROVE Order'
  BY <1>16, OpcacheAssumption DEF Count, CountIn, Execute, Script, Goto, Types, Switches, Numbers, Places, Pointers, MutexHeld, Order, FreshCaches, Starting, Window
<1>17. ASSUME NEW p \in Process, Corrupt(p) PROVE Order'
  BY <1>17, OpcacheAssumption DEF Corrupt, Marked, Locked, ScheduleIfNecessary, Schedule, Goto, Types, Switches, Numbers, Places, Pointers, MutexHeld, Order, FreshCaches, Starting, Window
<1>18. ASSUME NEW p \in Process, Miss(p) PROVE Order'
  BY <1>18, OpcacheAssumption DEF Miss, Goto, Types, Switches, Numbers, Places, Pointers, MutexHeld, Order, FreshCaches, Starting, Window
<1>19. ASSUME NEW p \in Process, Store(p) PROVE Order'
  <2>1. /\ gen \in Nat /\ stamped \in Nat /\ stamped <= gen
        /\ pc[p] = "store" /\ pc' = [pc EXCEPT ![p] = "run"]
        /\ UNCHANGED <<gen, stamped, seen, began, last_restart_time, on>>
    BY <1>19 DEF Store, Execute, Goto, Types, Numbers, Order
  <2>2. hash[file[p]] = "valid" => Lookup(p, file[p]).gen = gen
    <3> DEFINE sound == counted[p] /\ memory_mutex = None
    <3>1. hash[file[p]] = "valid" => Lookup(p, file[p]) = [file |-> file[p], gen |-> gen, sound |-> sound]
      BY Zenon DEF Lookup
    <3> HIDE DEF sound
    <3>. QED
      BY <3>1
  <2>3. \/ script' = [script EXCEPT ![p] = None] /\ pcre' = [pcre EXCEPT ![p] = pcre[p] \cup {gen}]
        \/ UNCHANGED <<script, pcre>>
    <3>1. CASE hash[file[p]] = "valid"
      BY <1>19, <2>2, <3>1, Zenon DEF Store, Execute
    <3>2. CASE hash[file[p]] # "valid" /\ stored = Capacity
      BY <1>19, <3>2, OpcacheAssumption DEF Store
    <3>3. CASE hash[file[p]] # "valid" /\ stored # Capacity
      <4>1. [file |-> file[p], gen |-> gen, sound |-> TRUE].gen = gen
        OBVIOUS
      <4>. QED
        BY <1>19, <3>3, <4>1, Zenon DEF Store, Execute
    <3>. QED
      BY <3>1, <3>2, <3>3
  <2>4. \A q \in Process : \A g \in pcre'[q] : g \in pcre[q] \/ g = gen
    BY <2>3, pcre \in [Process -> SUBSET Nat] DEF Types, Pointers
  <2>5. \A q \in Process : script'[q] # None => script'[q] = script[q]
    BY <2>3 DEF Types, Pointers
  <2>6. FreshCaches'
    BY <2>1, <2>4 DEF Order, FreshCaches, Starting, Window, Types, Numbers, Places
  <2>7. \A q \in Process : pc'[q] \in Starting \cup {"enable", "stamp"} => pc[q] = pc'[q] /\ q # p
    BY <2>1 DEF Types, Places, Starting, Window
  <2>. QED
    BY <2>1, <2>4, <2>5, <2>6, <2>7 DEF Order, Types, Numbers, Window, Starting
<1>20. ASSUME NEW p \in Process, NEW f \in File, ReadLock(p, f) PROVE Order'
  BY <1>20, OpcacheAssumption DEF ReadLock, Goto, Types, Switches, Numbers, Places, Pointers, MutexHeld, Order, FreshCaches, Starting, Window
<1>21. ASSUME NEW p \in Process, Recheck(p) PROVE Order'
  BY <1>21, OpcacheAssumption DEF Recheck, Goto, Types, Switches, Numbers, Places, Pointers, MutexHeld, Order, FreshCaches, Starting, Window
<1>22. ASSUME NEW p \in Process, Seek(p) PROVE Order'
  BY <1>22, OpcacheAssumption DEF Seek, Lookup, Script, Goto, Types, Switches, Numbers, Places, Pointers, MutexHeld, Order, FreshCaches, Starting, Window
<1>23. ASSUME NEW p \in Process, AskReset(p) PROVE Order'
  BY <1>23, OpcacheAssumption DEF AskReset, Goto, Types, Switches, Numbers, Places, Pointers, MutexHeld, Order, FreshCaches, Starting, Window
<1>24. ASSUME NEW p \in Process, Reset(p) PROVE Order'
  BY <1>24, OpcacheAssumption DEF Reset, Locked, Schedule, Goto, Types, Switches, Numbers, Places, Pointers, MutexHeld, Order, FreshCaches, Starting, Window
<1>25. ASSUME NEW p \in Process, EndRequest(p) PROVE Order'
  BY <1>25, OpcacheAssumption DEF EndRequest, CountOut, Goto, Types, Switches, Numbers, Places, Pointers, MutexHeld, Order, FreshCaches, Starting, Window
<1>26. ASSUME NEW p \in Process, Kill(p) PROVE Order'
  BY <1>26, OpcacheAssumption DEF Kill, Goto, Types, Switches, Numbers, Places, Pointers, MutexHeld, Order, FreshCaches, Starting, Window
<1>27. ASSUME Tick PROVE Order'
  BY <1>27, OpcacheAssumption DEF Tick, Types, Switches, Numbers, Places, Pointers, MutexHeld, Order, FreshCaches, Starting, Window
<1>28. ASSUME UNCHANGED vars PROVE Order'
  BY <1>28, OpcacheAssumption DEF vars, Types, Switches, Numbers, Places, Pointers, MutexHeld, Order, FreshCaches, Starting, Window
<1>. QED
  BY <1>1, <1>2, <1>3, <1>4, <1>5, <1>6, <1>7, <1>8, <1>9, <1>9a, <1>9b, <1>10,
     <1>11, <1>12, <1>13, <1>14, <1>15, <1>16, <1>17, <1>18, <1>19,
     <1>20, <1>21, <1>22, <1>23, <1>24, <1>25, <1>26, <1>27, <1>28
     DEF Next, Proceed, Restart, Body

-----------------------------------------------------------------------------
(* The inductive invariant.                                                *)
IInv == Types /\ MutexHeld /\ RestartIn /\ Counting /\ Sound /\ OffInv /\ Order

LEMMA IInvInit == Init => IInv
<1> SUFFICES ASSUME Init PROVE IInv
  OBVIOUS
<1>1. Types
  BY TypesInit
<1>2. MutexHeld /\ RestartIn /\ OffInv
  BY OpcacheAssumption DEF Init, MutexHeld, RestartIn, OffInv, Window, Emptying
<1>3. Counting
  <2>1. Users = {}
    BY DEF Init, Users
  <2>. QED
    BY <2>1, FS_EmptySet DEF Init, Counting, UsageExact
<1>4. Sound /\ Order
  BY DEF Init, Sound, Order, FreshCaches
<1>. QED
  BY <1>1, <1>2, <1>3, <1>4 DEF IInv

LEMMA IInvStep == IInv /\ [Next]_vars => IInv'
<1> SUFFICES ASSUME IInv, [Next]_vars PROVE IInv'
  OBVIOUS
<1>1. Types'
  BY SwitchesStep, NumbersStep, PlacesStep, PointersStep DEF IInv, Types
<1>2. MutexHeld' /\ RestartIn'
  BY MutexStep, RestartInStep DEF IInv
<1>3. Counting'
  BY CountingStep DEF IInv
<1>4. Sound'
  BY SoundStep DEF IInv, Counting
<1>5. OffInv' /\ Order'
  BY OffStep, OrderStep DEF IInv
<1>. QED
  BY <1>1, <1>2, <1>3, <1>4, <1>5 DEF IInv

LEMMA Inductive == Spec => []IInv
  BY IInvInit, IInvStep, PTL DEF Spec

(* The variables keep their types; in particular neither the use count nor *)
(* the count of restarters is ever taken below 0 (ZendAccelerator.c:334,   *)
(* 263).                                                                   *)
THEOREM TypesHold == Spec => []TypeOK
<1>1. IInv => TypeOK
  <2> SUFFICES ASSUME IInv PROVE TypeOK
    OBVIOUS
  <2>1. IsFiniteSet(Users)
    BY OpcacheAssumption, FS_Subset, Users \in SUBSET Process DEF Users
  <2>2. Cardinality(Users) \in Nat
    BY <2>1, FS_CardinalityType
  <2>3. mem_usage \in Nat
    BY <2>2 DEF IInv, Counting, UsageExact, Types, Numbers
  <2>4. restart_in \in Nat
    BY DEF IInv, RestartIn, Types, Numbers
  <2>. QED
    BY <2>3, <2>4, Zenon DEF TypeOK, IInv, Types, Switches, Numbers, Places, Pointers
<1>. QED
  BY <1>1, Inductive, PTL

(* The use count in shared memory is the number of the processes that use  *)
(* the cache and of those that were killed while they did, on every way    *)
(* into and out of a request (ZendAccelerator.c:449, 2064, 2668, 2770).    *)
THEOREM UsageIsExact == Spec => []UsageExact
<1>1. IInv => UsageExact
  BY DEF IInv, Counting
<1>. QED
  BY <1>1, Inductive, PTL

(* The cache is off only while a restart is due or under way that will     *)
(* turn it on again, unless a restart was killed (ZendAccelerator.c:3400,  *)
(* 2708).                                                                  *)
THEOREM OffIsForARestart == Spec => []OffOnlyForRestart
<1>1. IInv => OffOnlyForRestart
  BY DEF IInv, OffInv, Emptying, OffOnlyForRestart
<1>. QED
  BY <1>1, Inductive, PTL

(* What a process found while it was counted and nothing was restarted is  *)
(* in the cache as long as the request executes it (ZendAccelerator.c:2675)*)
THEOREM SoundScriptsRemain == Spec => []SoundScriptsStay
<1>1. IInv => SoundScriptsStay
  BY DEF IInv, Sound, SoundScriptsStay
<1>. QED
  BY <1>1, Inductive, PTL

(* No request goes on with regular expressions of before a restart that    *)
(* was completed when it began (ZendAccelerator.c:2709, 2725).             *)
THEOREM CachesAreFresh == Spec => []FreshCaches
<1>1. IInv => FreshCaches
  BY DEF IInv, Order
<1>. QED
  BY <1>1, Inductive, PTL
===============================================================================
