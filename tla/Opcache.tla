------------------------------- MODULE Opcache -------------------------------
(***************************************************************************)
(* How the PHP processes that are built, started and trained here share    *)
(* one opcode cache, and how the cache is restarted under them             *)
(* (ext/opcache/ZendAccelerator.c of php-8.1.3 in the variant for Windows, *)
(* with zend_shared_alloc.c).                                              *)
(*                                                                         *)
(* The cache lies in shared memory.  A mutex serialises its writers; its   *)
(* readers take no lock, but count themselves in mem_usage once in each    *)
(* request.  A restart empties the cache: whoever finds it scheduled at    *)
(* the beginning of a request and mem_usage at 0 does it at once.          *)
(*                                                                         *)
(* Memory is abstracted to generations: gen is how often the cache was     *)
(* emptied, and a pointer into it is good as long as it is of generation   *)
(* gen.  Every script is taken to have one regular expression in it.       *)
(***************************************************************************)
EXTENDS Integers, FiniteSets

CONSTANTS
    Process,       \* the PHP processes attached to the cache
    File,          \* the files they compile
    None,          \* no script, no process
    Capacity,      \* how many scripts fit into the cache until a restart
    MaxWasted,     \* how many invalidated scripts make a restart worth it
    MaxTime,       \* bound: seconds that pass
    MaxRestarts,   \* bound: restarts that are scheduled
    MaxKills       \* bound: processes that are killed

ASSUME OpcacheAssumption ==
    /\ IsFiniteSet(Process)
    /\ None \notin Process \cup File
    /\ Capacity \in Nat /\ MaxWasted \in Nat

VARIABLES
    memory_mutex,         \* the process that holds the mutex, or None
    restart_pending,      \* ZCSG(restart_pending)
    restart_in_progress,  \* ZCSG(restart_in_progress)
    restart_in,           \* ZCSG(restart_in)
    accelerator_enabled,  \* ZCSG(accelerator_enabled)
    cache_status,         \* ZCSG(cache_status_before_restart)
    mem_usage,            \* ZCSG(mem_usage)
    last_restart_time,    \* ZCSG(last_restart_time)
    hash,                 \* hash[f]: the script of f in ZCSG(hash)
    stored,               \* how many scripts were stored since the restart
    wasted,               \* ZSMMG(wasted_shared_memory)
    memory_exhausted,     \* ZSMMG(memory_exhausted)
    pc,                   \* pc[p]: where process p is
    on,                   \* on[p]: ZCG(accelerator_enabled)
    counted,              \* counted[p]: ZCG(counted)
    seen,                 \* seen[p]: ZCG(last_restart_time)
    request_time,         \* request_time[p]: ZCG(request_time)
    pcre_reseted,         \* pcre_reseted[p]: ZCG(pcre_reseted)
    file,                 \* file[p]: the file it compiles or invalidates
    script,               \* script[p]: persistent_script, and whether it was
                          \* found soundly
    clock,                \* the second it is
    gen,                  \* history: the generation of the shared memory
    using,                \* using[p]: history, the generations of the soundly
                          \* found scripts that its request executes
    pcre,                 \* pcre[p]: history, the generations its cache of
                          \* regular expressions has strings of
    stamped, began,       \* history: restarts that were completed, and were
                          \* when the request of p began
    leaked, kills,        \* history: users that were killed, and kills
    aborted               \* history: whether a restart was cut short

cacheVars == <<hash, stored, wasted, memory_exhausted>>
restartVars == <<restart_pending, accelerator_enabled, cache_status>>
progressVars == <<restart_in_progress, restart_in, last_restart_time, gen, stamped>>
ownVars == <<on, seen, request_time, pcre_reseted, pcre, began>>
callVars == <<file, script, using>>
usage == <<mem_usage, counted>>
world == <<clock, leaked, kills, aborted>>
vars == <<memory_mutex, cacheVars, restartVars, progressVars, ownVars, callVars, usage, world, pc>>

Window == {"enter", "begin", "clean", "enable", "stamp", "leave", "uncount", "unlock"}
Phases == Window \cup {"idle", "check", "lock", "adopt", "compare", "run", "find", "count",
                       "corrupt", "miss", "store", "recheck", "seek",
                       "invalidate", "reset"}
(* A script found: of which file and generation, and whether whoever found *)
(* it was counted and no restart was under way.                            *)
Script == [file : File, gen : Nat, sound : BOOLEAN]

TypeOK ==
    /\ memory_mutex \in Process \cup {None}
    /\ restart_pending \in BOOLEAN /\ restart_in_progress \in BOOLEAN
    /\ accelerator_enabled \in BOOLEAN /\ cache_status \in BOOLEAN
    /\ memory_exhausted \in BOOLEAN /\ aborted \in BOOLEAN
    /\ restart_in \in Nat /\ mem_usage \in Nat /\ last_restart_time \in Nat
    /\ stored \in Nat /\ wasted \in Nat /\ clock \in Nat /\ gen \in Nat
    /\ stamped \in Nat /\ leaked \in Nat /\ kills \in Nat
    /\ hash \in [File -> {"none", "valid", "corrupted"}]
    /\ pc \in [Process -> Phases]
    /\ on \in [Process -> BOOLEAN] /\ counted \in [Process -> BOOLEAN]
    /\ pcre_reseted \in [Process -> BOOLEAN]
    /\ seen \in [Process -> Nat] /\ request_time \in [Process -> Nat]
    /\ began \in [Process -> Nat]
    /\ file \in [Process -> File \cup {None}]
    /\ script \in [Process -> Script \cup {None}]
    /\ using \in [Process -> SUBSET Nat]
    /\ pcre \in [Process -> SUBSET Nat]

Init ==
    /\ memory_mutex = None
    /\ restart_pending = FALSE /\ restart_in_progress = FALSE /\ restart_in = 0
    /\ accelerator_enabled = TRUE /\ cache_status = FALSE
    /\ mem_usage = 0 /\ last_restart_time = 0
    /\ hash = [f \in File |-> "none"]
    /\ stored = 0 /\ wasted = 0 /\ memory_exhausted = FALSE
    /\ pc = [p \in Process |-> "idle"]
    /\ on = [p \in Process |-> FALSE] /\ counted = [p \in Process |-> FALSE]
    /\ seen = [p \in Process |-> 0] /\ request_time = [p \in Process |-> 0]
    /\ pcre_reseted = [p \in Process |-> FALSE]
    /\ file = [p \in Process |-> None] /\ script = [p \in Process |-> None]
    /\ clock = 1 /\ gen = 0
    /\ using = [p \in Process |-> {}] /\ pcre = [p \in Process |-> {}]
    /\ stamped = 0 /\ began = [p \in Process |-> 0]
    /\ leaked = 0 /\ kills = 0 /\ aborted = FALSE

Goto(p, phase) == pc' = [pc EXCEPT ![p] = phase]

-----------------------------------------------------------------------------
(* The usage count, the mutex and the schedule.                            *)

(* accel_activate_add(), with the flag that the callers set.               *)
CountIn(p) ==
    IF counted[p] THEN UNCHANGED usage
    ELSE mem_usage' = mem_usage + 1 /\ counted' = [counted EXCEPT ![p] = TRUE]

(* A variant of CountOut for a process that did not count itself in.       *)
CountOutTwice(p) ==
    /\ mem_usage' = mem_usage - 1
    /\ counted' = [counted EXCEPT ![p] = FALSE]

(* accel_unlock_all().                                                     *)
CountOut(p) ==
    /\ mem_usage' = mem_usage - (IF counted[p] THEN 1 ELSE 0)
    /\ counted' = [counted EXCEPT ![p] = FALSE]

(* What happens between lock and unlock of the mutex without being a       *)
(* restart is one step.                                                    *)
Locked == memory_mutex = None /\ UNCHANGED memory_mutex

(* A variant of Schedule without its first test.                           *)
ScheduleTwice ==
    /\ restart_pending' = TRUE
    /\ cache_status' = accelerator_enabled
    /\ accelerator_enabled' = FALSE

(* A variant of Schedule that leaves the cache enabled.                    *)
ScheduleOnly ==
    /\ restart_pending' = TRUE /\ cache_status' = TRUE
    /\ UNCHANGED accelerator_enabled

(* zend_accel_schedule_restart().                                          *)
Schedule ==
    IF restart_pending THEN UNCHANGED restartVars
    ELSE /\ restart_pending' = TRUE
         /\ cache_status' = accelerator_enabled
         /\ accelerator_enabled' = FALSE

(* zend_accel_schedule_restart_if_necessary().                             *)
ScheduleIfNecessary(waste) ==
    IF waste >= MaxWasted /\ gen < MaxRestarts THEN Schedule ELSE UNCHANGED restartVars

-----------------------------------------------------------------------------
(* The beginning of a request: accel_activate().                           *)
Activate(p) ==
    /\ pc[p] = "idle"
    /\ request_time' = [request_time EXCEPT ![p] = clock]
    /\ script' = [script EXCEPT ![p] = None]
    /\ began' = [began EXCEPT ![p] = stamped]
    /\ CountOut(p)
    /\ Goto(p, "check")
    /\ UNCHANGED <<memory_mutex, cacheVars, restartVars, progressVars, world,
                   on, seen, pcre_reseted, pcre, file, using>>

CheckPending(p) ==
    /\ pc[p] = "check"
    /\ Goto(p, IF restart_pending THEN "lock" ELSE "adopt")
    /\ UNCHANGED <<memory_mutex, cacheVars, restartVars, progressVars, ownVars, callVars, usage, world>>

(* A variant of TryRestart that does not look for users.                   *)
TryRestartAnyway(p) ==
    /\ pc[p] = "lock"
    /\ memory_mutex = None
    /\ IF restart_pending
         THEN memory_mutex' = p /\ Goto(p, "enter")
         ELSE UNCHANGED memory_mutex /\ Goto(p, "adopt")
    /\ UNCHANGED <<cacheVars, restartVars, progressVars, ownVars, callVars, usage, world>>

(* Under the mutex it looks again, and whether anybody uses the cache.     *)
TryRestart(p) ==
    /\ pc[p] = "lock"
    /\ memory_mutex = None
    /\ IF restart_pending /\ mem_usage = 0
         THEN memory_mutex' = p /\ Goto(p, "enter")
         ELSE UNCHANGED memory_mutex /\ Goto(p, "adopt")
    /\ UNCHANGED <<cacheVars, restartVars, progressVars, ownVars, callVars, usage, world>>

Enter(p) ==
    /\ pc[p] = "enter"
    /\ restart_pending' = FALSE
    /\ restart_in' = restart_in + 1
    /\ Goto(p, "begin")
    /\ UNCHANGED <<memory_mutex, cacheVars, accelerator_enabled, cache_status, restart_in_progress,
                   last_restart_time, gen, stamped, ownVars, callVars, usage, world>>

Begin(p) ==
    /\ pc[p] = "begin"
    /\ restart_in_progress' = TRUE
    /\ Goto(p, "clean")
    /\ UNCHANGED <<memory_mutex, cacheVars, restartVars, restart_in, last_restart_time, gen, stamped,
                   ownVars, callVars, usage, world>>

(* zend_reset_cache_vars(), zend_accel_hash_clean() and the allocator.     *)
Clean(p) ==
    /\ pc[p] = "clean"
    /\ gen' = gen + 1
    /\ hash' = [f \in File |-> "none"]
    /\ stored' = 0 /\ wasted' = 0 /\ memory_exhausted' = FALSE
    /\ restart_pending' = FALSE
    /\ Goto(p, "enable")
    /\ UNCHANGED <<memory_mutex, accelerator_enabled, cache_status, restart_in_progress, restart_in,
                   last_restart_time, stamped, ownVars, callVars, usage, world>>

Enable(p) ==
    /\ pc[p] = "enable"
    /\ accelerator_enabled' = cache_status
    /\ Goto(p, "stamp")
    /\ UNCHANGED <<memory_mutex, cacheVars, restart_pending, cache_status, progressVars,
                   ownVars, callVars, usage, world>>

(* A variant of NextTime that does not tell two restarts of a second apart.*)
NextTimeOfDay(p) == request_time[p]

(* The time of the restart, which is never that of the one before.         *)
NextTime(p) ==
    IF last_restart_time < request_time[p] THEN request_time[p] ELSE last_restart_time + 1

Stamp(p) ==
    /\ pc[p] = "stamp"
    /\ last_restart_time' = NextTime(p)
    /\ stamped' = stamped + 1
    /\ Goto(p, "leave")
    /\ UNCHANGED <<memory_mutex, cacheVars, restartVars, restart_in_progress, restart_in, gen,
                   ownVars, callVars, usage, world>>

(* accel_restart_leave(): the flag, then the count of its processes.       *)
Leave(p) ==
    /\ pc[p] = "leave"
    /\ restart_in_progress' = FALSE
    /\ Goto(p, "uncount")
    /\ UNCHANGED <<memory_mutex, cacheVars, restartVars, restart_in, last_restart_time, gen, stamped,
                   ownVars, callVars, usage, world>>

Uncount(p) ==
    /\ pc[p] = "uncount"
    /\ restart_in' = restart_in - 1
    /\ Goto(p, "unlock")
    /\ UNCHANGED <<memory_mutex, cacheVars, restartVars, restart_in_progress, last_restart_time, gen, stamped,
                   ownVars, callVars, usage, world>>

Unlock(p) ==
    /\ pc[p] = "unlock"
    /\ memory_mutex' = None
    /\ Goto(p, "adopt")
    /\ UNCHANGED <<cacheVars, restartVars, progressVars, ownVars, callVars, usage, world>>

Adopt(p) ==
    /\ pc[p] = "adopt"
    /\ on' = [on EXCEPT ![p] = accelerator_enabled]
    /\ request_time' = [request_time EXCEPT ![p] = 0]
    /\ Goto(p, "compare")
    /\ UNCHANGED <<memory_mutex, cacheVars, restartVars, progressVars, seen,
                   pcre_reseted, pcre, began, callVars, usage, world>>

(* Whether the cache was restarted since the process looked last.          *)
Compare(p) ==
    /\ pc[p] = "compare"
    /\ \/ /\ on[p] /\ last_restart_time # seen[p]
          /\ seen' = [seen EXCEPT ![p] = last_restart_time]
          /\ pcre' = [pcre EXCEPT ![p] = {}]
          /\ pcre_reseted' = [pcre_reseted EXCEPT ![p] = FALSE]
       \/ /\ ~on[p] /\ ~pcre_reseted[p]
          /\ pcre' = [pcre EXCEPT ![p] = {}]
          /\ pcre_reseted' = [pcre_reseted EXCEPT ![p] = TRUE]
          /\ UNCHANGED seen
       \/ /\ IF on[p] THEN last_restart_time = seen[p] ELSE pcre_reseted[p]
          /\ UNCHANGED <<seen, pcre, pcre_reseted>>
    /\ Goto(p, "run")
    /\ UNCHANGED <<memory_mutex, cacheVars, restartVars, progressVars, on, request_time, began,
                   callVars, usage, world>>

-----------------------------------------------------------------------------
(* Within a request.                                                       *)

(* The lookup of a script that can be used.                                *)
Lookup(p, f) ==
    IF hash[f] = "valid"
      THEN [file |-> f, gen |-> gen, sound |-> counted[p] /\ memory_mutex = None]
      ELSE None

(* Somebody marked the script s after it was looked up.                    *)
Marked(s) == s.gen = gen /\ hash[s.file] # "valid"

(* The request goes on to execute the script s of the cache.               *)
Execute(p, s) ==
    /\ using' = [using EXCEPT ![p] = @ \cup (IF s.sound THEN {s.gen} ELSE {})]
    /\ pcre' = [pcre EXCEPT ![p] = @ \cup {s.gen}]
    /\ script' = [script EXCEPT ![p] = None]
    /\ Goto(p, "run")

(* accel_find_interned_string(), when a key is made of a relative path.    *)
FindInterned(p) ==
    /\ pc[p] = "run" /\ on[p] /\ ~counted[p]
    /\ CountIn(p)
    /\ UNCHANGED <<memory_mutex, cacheVars, restartVars, progressVars, ownVars, callVars, world, pc>>

(* persistent_zend_resolve_path() keeps what it finds for the compilation. *)
ResolvePath(p, f) ==
    /\ pc[p] = "run" /\ on[p]
    /\ script' = [script EXCEPT ![p] = Lookup(p, f)]
    /\ UNCHANGED <<memory_mutex, cacheVars, restartVars, progressVars, ownVars, file, using, usage, world, pc>>

(* persistent_compile_file(): without the cache while that is restarted.   *)
Compile(p, f) ==
    /\ pc[p] = "run" /\ on[p]
    /\ file' = [file EXCEPT ![p] = f]
    /\ IF restart_in_progress /\ restart_in # 0
         THEN script' = [script EXCEPT ![p] = None] /\ UNCHANGED pc
         ELSE IF script[p] # None /\ script[p].file = f
           THEN /\ script' = [script EXCEPT ![p] = IF Marked(@) THEN None ELSE @]
                /\ Goto(p, "count")
           ELSE script' = [script EXCEPT ![p] = None] /\ Goto(p, "find")
    /\ UNCHANGED <<memory_mutex, cacheVars, restartVars, progressVars, ownVars, using, usage, world>>

Find(p) ==
    /\ pc[p] = "find"
    /\ script' = [script EXCEPT ![p] = Lookup(p, file[p])]
    /\ Goto(p, "count")
    /\ UNCHANGED <<memory_mutex, cacheVars, restartVars, progressVars, ownVars, file, using, usage, world>>

(* It counts itself; a script whose file has changed is not used.          *)
Count(p) ==
    /\ pc[p] = "count"
    /\ CountIn(p)
    /\ \/ script[p] # None /\ Execute(p, script[p])
       \/ script[p] # None /\ Goto(p, "corrupt") /\ UNCHANGED <<using, pcre, script>>
       \/ script[p] = None /\ Goto(p, "miss") /\ UNCHANGED <<using, pcre, script>>
    /\ UNCHANGED <<memory_mutex, cacheVars, restartVars, progressVars, on, seen, request_time,
                   pcre_reseted, began, file, world>>

(* The script found is marked, in compilation and in opcache_invalidate(); *)
(* of an older generation that is a write to memory used otherwise.        *)
Corrupt(p) ==
    /\ pc[p] \in {"corrupt", "invalidate"}
    /\ Locked
    /\ IF Marked(script[p])
         THEN UNCHANGED <<cacheVars, restartVars>>
         ELSE /\ hash' = IF script[p].gen = gen
                           THEN [hash EXCEPT ![script[p].file] = "corrupted"] ELSE hash
              /\ wasted' = wasted + 1
              /\ IF memory_exhausted THEN ScheduleIfNecessary(wasted + 1) ELSE UNCHANGED restartVars
              /\ UNCHANGED <<stored, memory_exhausted>>
    /\ script' = [script EXCEPT ![p] = None]
    /\ Goto(p, IF pc[p] = "corrupt" THEN "miss" ELSE "run")
    /\ UNCHANGED <<progressVars, ownVars, file, using, usage, world>>

(* No place, or about to be emptied: it is compiled without the cache.     *)
Miss(p) ==
    /\ pc[p] = "miss"
    /\ Goto(p, IF memory_exhausted \/ restart_pending THEN "run" ELSE "store")
    /\ UNCHANGED <<memory_mutex, cacheVars, restartVars, progressVars, ownVars, callVars, usage, world>>

(* cache_script_in_shared_memory(): another process may have stored it     *)
(* meanwhile; when nothing fits any more, a restart may be worth it.       *)
Store(p) ==
    /\ pc[p] = "store"
    /\ Locked
    /\ \/ /\ hash[file[p]] = "valid"
          /\ Execute(p, Lookup(p, file[p]))
          /\ UNCHANGED <<cacheVars, restartVars>>
       \/ /\ hash[file[p]] # "valid" /\ stored = Capacity
          /\ memory_exhausted' = TRUE
          /\ ScheduleIfNecessary(wasted)
          /\ Goto(p, "run")
          /\ UNCHANGED <<hash, stored, wasted, script, using, pcre>>
       \/ /\ hash[file[p]] # "valid" /\ stored < Capacity
          /\ hash' = [hash EXCEPT ![file[p]] = "valid"]
          /\ stored' = stored + 1
          /\ Execute(p, [file |-> file[p], gen |-> gen, sound |-> TRUE])
          /\ UNCHANGED <<wasted, memory_exhausted, restartVars>>
    /\ UNCHANGED <<progressVars, on, seen, request_time, pcre_reseted, began, file, usage, world>>

(* accelerator_shm_read_lock(), in opcache_invalidate().                   *)
ReadLock(p, f) ==
    /\ pc[p] = "run" /\ on[p]
    /\ file' = [file EXCEPT ![p] = f]
    /\ script' = [script EXCEPT ![p] = None]
    /\ IF counted[p]
         THEN UNCHANGED mem_usage /\ Goto(p, "seek")
         ELSE mem_usage' = mem_usage + 1 /\ Goto(p, "recheck")
    /\ UNCHANGED <<memory_mutex, cacheVars, restartVars, progressVars, ownVars, using, counted, world>>

(* A variant of Recheck that forgets to take back the count.               *)
RecheckLeaking(p) ==
    /\ pc[p] = "recheck"
    /\ counted' = [counted EXCEPT ![p] = ~restart_in_progress]
    /\ UNCHANGED mem_usage
    /\ Goto(p, IF restart_in_progress THEN "run" ELSE "seek")
    /\ UNCHANGED <<memory_mutex, cacheVars, restartVars, progressVars, ownVars, callVars, world>>

Recheck(p) ==
    /\ pc[p] = "recheck"
    /\ IF restart_in_progress
         THEN mem_usage' = mem_usage - 1 /\ UNCHANGED counted /\ Goto(p, "run")
         ELSE UNCHANGED mem_usage /\ counted' = [counted EXCEPT ![p] = TRUE] /\ Goto(p, "seek")
    /\ UNCHANGED <<memory_mutex, cacheVars, restartVars, progressVars, ownVars, callVars, world>>

(* zend_accel_invalidate() looks for the script.                           *)
Seek(p) ==
    /\ pc[p] = "seek"
    /\ script' = [script EXCEPT ![p] = Lookup(p, file[p])]
    /\ Goto(p, IF Lookup(p, file[p]) = None THEN "run" ELSE "invalidate")
    /\ UNCHANGED <<memory_mutex, cacheVars, restartVars, progressVars, ownVars, file, using, usage, world>>

(* opcache_reset(): the test, and the schedule under the mutex.            *)
AskReset(p) ==
    /\ pc[p] = "run" /\ accelerator_enabled /\ gen < MaxRestarts
    /\ Goto(p, "reset")
    /\ UNCHANGED <<memory_mutex, cacheVars, restartVars, progressVars, ownVars, callVars, usage, world>>

Reset(p) ==
    /\ pc[p] = "reset"
    /\ Locked
    /\ Schedule
    /\ Goto(p, "run")
    /\ UNCHANGED <<cacheVars, progressVars, ownVars, callVars, usage, world>>

(* accel_post_deactivate().                                                *)
EndRequest(p) ==
    /\ pc[p] = "run"
    /\ CountOut(p)
    /\ script' = [script EXCEPT ![p] = None]
    /\ using' = [using EXCEPT ![p] = {}]
    /\ began' = [began EXCEPT ![p] = 0]
    /\ Goto(p, "idle")
    /\ UNCHANGED <<memory_mutex, cacheVars, restartVars, progressVars, on, seen, request_time,
                   pcre_reseted, pcre, file, world>>

(* A process is killed, as taskkill does, and another one takes its place: *)
(* its count stays, and its mutex is given to the next one who waits.      *)
Kill(p) ==
    /\ kills < MaxKills
    /\ kills' = kills + 1
    /\ leaked' = leaked + (IF counted[p] \/ pc[p] = "recheck" THEN 1 ELSE 0)
    /\ aborted' = (aborted \/ memory_mutex = p)
    /\ memory_mutex' = IF memory_mutex = p THEN None ELSE memory_mutex
    /\ counted' = [counted EXCEPT ![p] = FALSE]
    /\ on' = [on EXCEPT ![p] = FALSE]
    /\ seen' = [seen EXCEPT ![p] = 0]
    /\ pcre_reseted' = [pcre_reseted EXCEPT ![p] = FALSE]
    /\ pcre' = [pcre EXCEPT ![p] = {}]
    /\ using' = [using EXCEPT ![p] = {}]
    /\ script' = [script EXCEPT ![p] = None]
    /\ Goto(p, "idle")
    /\ UNCHANGED <<cacheVars, restartVars, progressVars, mem_usage, request_time, began, file, clock>>

Tick ==
    /\ clock < MaxTime
    /\ clock' = clock + 1
    /\ UNCHANGED <<memory_mutex, cacheVars, restartVars, progressVars, ownVars, callVars, usage,
                   leaked, kills, aborted, pc>>

Restart(p) ==
    \/ Enter(p) \/ Begin(p) \/ Clean(p) \/ Enable(p) \/ Stamp(p)
    \/ Leave(p) \/ Uncount(p) \/ Unlock(p)

(* What a process does without the script it executes having to ask for it.*)
Proceed(p) ==
    \/ CheckPending(p) \/ TryRestart(p) \/ Restart(p) \/ Adopt(p) \/ Compare(p)
    \/ Find(p) \/ Count(p) \/ Corrupt(p) \/ Miss(p) \/ Store(p)
    \/ Recheck(p) \/ Seek(p) \/ Reset(p)

Body(p) ==
    \/ FindInterned(p) \/ AskReset(p)
    \/ \E f \in File : ResolvePath(p, f) \/ Compile(p, f) \/ ReadLock(p, f)

Next ==
    \/ \E p \in Process : Activate(p) \/ Proceed(p) \/ Body(p) \/ EndRequest(p) \/ Kill(p)
    \/ Tick

(* Processes are scheduled, every process gets requests, requests end.     *)
Fairness ==
    \A p \in Process : WF_vars(Proceed(p)) /\ WF_vars(Activate(p)) /\ SF_vars(EndRequest(p))

Spec == Init /\ [][Next]_vars /\ Fairness

-----------------------------------------------------------------------------
(* mem_usage is the number of those who use the cache, those included that *)
(* were killed, on all ways in and out of a request                        *)
(* (ZendAccelerator.c:449, 2063, 3443 and 2668, 2770, 3449).               *)
Users == {p \in Process : counted[p] \/ pc[p] = "recheck"}
UsageExact == mem_usage = Cardinality(Users) + leaked

(* The cache is off only while a restart is due or under way, and the      *)
(* restart turns it on again, however many processes ask for one           *)
(* (ZendAccelerator.c:3400, 3411, 2708), unless it was killed.             *)
OffOnlyForRestart ==
    \/ accelerator_enabled \/ aborted
    \/ restart_pending /\ cache_status
    \/ cache_status /\ \E p \in Process : pc[p] \in {"begin", "clean", "enable"}

(* A script that was looked up while the process was counted and no restart*)
(* was under way is never swept away while it is executed                  *)
(* (ZendAccelerator.c:2675).                                               *)
SoundScriptsStay ==
    \A p \in Process : using[p] \subseteq {gen}

(* A request that begins after a restart has no string of before in the    *)
(* cache of regular expressions, also if there were two restarts within a  *)
(* second (ZendAccelerator.c:2709-2713, 2725).                             *)
FreshCaches ==
    \A p \in Process :
        on[p] /\ pc[p] \notin Window \cup {"idle", "check", "lock", "adopt", "compare"}
            => \A g \in pcre[p] : g >= began[p]

(* A restart that is due is done once the requests of the time have ended: *)
(* later ones do not use the cache (ZendAccelerator.c:3412, 2720), unless  *)
(* somebody was killed and is counted for ever.                            *)
RestartHappens == restart_pending /\ kills = 0 ~> ~restart_pending \/ kills > 0

(* accelerator_shm_read_lock() "ensures it is OK to read SHM if it's not   *)
(* OK (restart in progress) returns FAILURE" (ZendAccelerator.c:3430-3431).*)
ReadLockHolds == \A p \in Process : pc[p] = "seek" => ~restart_in_progress
=============================================================================
