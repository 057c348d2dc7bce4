----------------------------- MODULE DepsUpdate -----------------------------
(***************************************************************************)
(* The dependency updater: phpsdk_deps --check and --update on one         *)
(* dependency directory (SDK\Build\Dependency\{Manager, Series, Package,   *)
(* Fetcher}, SDK\Cache and the mv() and rm() of SDK\FileOps).              *)
(*                                                                         *)
(* The server publishes series 1, 2, ..., each naming a package file for   *)
(* every package; the file of series v is written v, and 0 is a file that  *)
(* is not there.  A fetched series list is its number, or 0 for "", which  *)
(* is what Fetcher::getByUri returns when the server cannot be reached.    *)
(*                                                                         *)
(* Tag[p] is the dependency path as process p spells it: it names both its *)
(* lock (Manager.php:62) and its saved series file (Manager.php:24).  All  *)
(* spellings denote the one directory modelled here.                       *)
(***************************************************************************)
EXTENDS FileLock, Integers

CONSTANTS
    Package,     \* the packages of a series
    MaxSeries,   \* bound: how many series the server publishes
    MaxMinute,   \* bound: no backup is begun after this many of them
    Commands,    \* the command lines in use: records [cmd, force, backup]
    Events       \* what may go wrong, see EventKinds

EventKinds == {
    "publish",     \* the server publishes while an update is running
    "fetch",       \* the server cannot be reached
    "fs",          \* a call on the file system fails
    "crash",       \* a process is killed
    "sameMinute",  \* two backups are made within one minute
    "removeDeps"}  \* the user removes the dependency directory

Command == [cmd : {"check", "update"}, force : BOOLEAN, backup : BOOLEAN]

ASSUME DepsAssumption ==
    /\ MaxSeries \in Nat \ {0}
    /\ MaxMinute \in Nat
    /\ Commands \subseteq Command /\ Commands # {}
    /\ Events \subseteq EventKinds

NoSeries == -1                       \* no series file was saved
Fetched == 0 .. MaxSeries            \* what a fetch of the list may return
Tree == [Package -> 0 .. MaxSeries]  \* the files of a directory
NoFiles == [k \in Package |-> 0]
Full(v) == [k \in Package |-> v]
FilesOf(tree) == {k \in Package : tree[k] # 0}
NoCommand == CHOOSE c \in Commands : TRUE   \* of an idle process, never read

VARIABLES
    server,    \* the newest series on the server
    depsDir,   \* whether the dependency directory exists
    deps,      \* its files
    backup,    \* backup[m]: the files of the backup directory of minute m,
               \* for every m up to minute
    minute,    \* the minute of the latest backup
    series,    \* series[t]: the saved series file of path spelling t
    pc,        \* pc[p]: the phase process p is in
    opt,       \* opt[p]: its command line
    seen,      \* seen[p]: the series list it fetched last
    tmp,       \* tmp[p]: the files in its temporary deps directory
    todo,      \* todo[p]: the files its current loop has still to visit
    stamp,     \* stamp[p]: the minute in the name of its backup directory
    report     \* report[p]: how its latest command ended, "" while it runs

dir == <<depsDir, deps, backup>>
locals == <<opt, seen, tmp, todo, stamp>>
depsVars == <<server, dir, minute, series, pc, locals, report>>
vars == <<depsVars, lockVars>>

(* The phases of performUpdate() that follow the lock.                     *)
UpdatePhases == {"getData", "build", "clear", "backup", "remove", "mkdir",
                 "place", "truncate", "write"}
Phases == {"idle", "compare", "lock", "wait", "waited"} \cup UpdatePhases

Outcomes == {"", "none", "updates", "byother", "success", "error", "killed"}

WorldTypeOK ==
    /\ server \in 1 .. MaxSeries
    /\ depsDir \in BOOLEAN
    /\ deps \in Tree
    /\ minute \in Nat
    /\ backup \in [0 .. minute -> Tree]
    /\ series \in [TagSet -> Fetched \cup {NoSeries}]

LocalTypeOK ==
    /\ pc \in [Process -> Phases]
    /\ opt \in [Process -> Commands]
    /\ seen \in [Process -> Fetched]
    /\ tmp \in [Process -> Tree]
    /\ todo \in [Process -> SUBSET Package]
    /\ stamp \in [Process -> 0 .. minute]
    /\ report \in [Process -> Outcomes]

TypeOK ==
    /\ LockTypeOK
    /\ WorldTypeOK
    /\ LocalTypeOK

(* A fresh checkout without dependencies, or dependencies of series 1 with *)
(* or without a saved series file (another machine may have installed      *)
(* them).                                                                  *)
Init ==
    /\ LockInit
    /\ server = 1
    /\ \/ /\ depsDir = FALSE /\ deps = NoFiles
          /\ series = [t \in TagSet |-> NoSeries]
       \/ /\ depsDir = TRUE /\ deps = Full(1)
          /\ series \in [TagSet -> {NoSeries, 1}]
    /\ backup = [m \in 0 .. 0 |-> NoFiles]
    /\ minute = 0
    /\ pc = [p \in Process |-> "idle"]
    /\ opt = [p \in Process |-> NoCommand]
    /\ seen = [p \in Process |-> 0]
    /\ tmp = [p \in Process |-> NoFiles]
    /\ todo = [p \in Process |-> {}]
    /\ stamp = [p \in Process |-> 0]
    /\ report = [p \in Process |-> ""]

-----------------------------------------------------------------------------
AllIdle == \A p \in Process : pc[p] = "idle"
Goto(p, phase) == pc' = [pc EXCEPT ![p] = phase] /\ UNCHANGED report

(* The process is gone, and its local variables with it.                   *)
Leave(p, outcome) ==
    /\ pc' = [pc EXCEPT ![p] = "idle"]
    /\ report' = [report EXCEPT ![p] = outcome]
    /\ opt' = [opt EXCEPT ![p] = NoCommand]
    /\ seen' = [seen EXCEPT ![p] = 0]
    /\ tmp' = [tmp EXCEPT ![p] = NoFiles]
    /\ todo' = [todo EXCEPT ![p] = {}]
    /\ stamp' = [stamp EXCEPT ![p] = 0]

(* performUpdate() and the process end: a lock it holds is destroyed, by   *)
(* unset() or when an exception unwinds the stack.                         *)
End(p, outcome) ==
    /\ Leave(p, outcome)
    /\ IF status[p] = "none" THEN UNCHANGED lockVars ELSE Destruct(p)

(* Fetcher::getByUri on the series list: after four failed attempts the    *)
(* false it returns becomes "", its declared type being string.            *)
Fetch == {server} \cup (IF "fetch" \in Events THEN {0} ELSE {})

(* phpsdk_deps starts.  --force skips the check for updates.  Bound: no    *)
(* update that makes a backup starts after MaxMinute.                      *)
Start(p) ==
    /\ pc[p] = "idle"
    /\ \E c \in Commands :
        /\ c.cmd = "update" /\ c.backup => minute < MaxMinute
        /\ opt' = [opt EXCEPT ![p] = c]
        /\ \/ /\ c.cmd = "update" /\ c.force
              /\ pc' = [pc EXCEPT ![p] = "getData"]
              /\ UNCHANGED seen
           \/ /\ ~(c.cmd = "update" /\ c.force)
              /\ pc' = [pc EXCEPT ![p] = "compare"]
              /\ \E s \in Fetch : seen' = [seen EXCEPT ![p] = s]
    /\ report' = [report EXCEPT ![p] = ""]
    /\ UNCHANGED <<server, dir, minute, series, tmp, todo, stamp, lockVars>>

(* What Manager::updatesAvailable answers: the saved series file differs   *)
(* from what was fetched, or the directory is not there.                   *)
UpdatesAvailable(p) == series[Tag[p]] # seen[p] \/ ~depsDir

Compare(p) ==
    /\ pc[p] = "compare"
    /\ \/ /\ ~UpdatesAvailable(p)
          /\ End(p, "none")
       \/ /\ UpdatesAvailable(p) /\ opt[p].cmd = "check"
          /\ End(p, "updates")
       \/ /\ UpdatesAvailable(p) /\ opt[p].cmd = "update"
          /\ Goto(p, "lock")
          /\ UNCHANGED <<locals, lockVars>>
    /\ UNCHANGED <<server, dir, minute, series>>

(* A variant of TakeLock that does not ask locked().                       *)
TakeLockUnchecked(p) ==
    /\ pc[p] = "lock"
    /\ New(p, "ex")
    /\ Goto(p, "getData")
    /\ UNCHANGED <<server, dir, minute, series, locals>>

(* new Lock(path), and what locked() says afterwards.                      *)
TakeLock(p) ==
    /\ pc[p] = "lock"
    /\ New(p, "ex")
    /\ Goto(p, IF Locked(p)' THEN "getData" ELSE "wait")
    /\ UNCHANGED <<server, dir, minute, series, locals>>

(* exclusive(true): wait for the other update to finish ...                *)
WaitForOther(p) ==
    /\ pc[p] = "wait"
    /\ Request(p, "ex", TRUE)
    /\ Goto(p, "waited")
    /\ UNCHANGED <<server, dir, minute, series, locals>>

OSGrant(p) == Grant(p) /\ UNCHANGED depsVars

(* ... and believe that it did the work.                                   *)
WaitOver(p) ==
    /\ pc[p] = "waited"
    /\ Locked(p)
    /\ End(p, "byother")
    /\ UNCHANGED <<server, dir, minute, series>>

(* series->getData(): the list is fetched again, $rawData is never set.    *)
(* An empty list gives one package named "", and fopen() on the directory  *)
(* that makes of it ends in the exception of Package::unpack.              *)
GetData(p) ==
    /\ pc[p] = "getData"
    /\ \E s \in Fetch :
        IF s = 0
          THEN End(p, "error")
          ELSE /\ seen' = [seen EXCEPT ![p] = s]
               /\ Goto(p, "build")
               /\ UNCHANGED <<opt, tmp, todo, stamp, lockVars>>
    /\ UNCHANGED <<server, dir, minute, series>>

(* A variant of Build that keeps the false of a failed download.           *)
BuildKeepsFalse(p) ==
    /\ pc[p] = "build"
    /\ \E got \in (IF "fetch" \in Events THEN SUBSET Package ELSE {Package}) :
        tmp' = [tmp EXCEPT ![p] = [k \in Package |-> IF k \in got THEN seen[p] ELSE -1]]
    /\ Goto(p, "clear")
    /\ UNCHANGED <<server, dir, minute, series, opt, seen, todo, stamp, lockVars>>

(* The package loop into a temporary directory of the process's own.  A    *)
(* failed download is an empty file, which ZipArchive opens as an archive  *)
(* without entries (or refuses, see Fail): its files are left out.         *)
Build(p) ==
    /\ pc[p] = "build"
    /\ \E got \in (IF "fetch" \in Events THEN SUBSET Package ELSE {Package}) :
        tmp' = [tmp EXCEPT ![p] = [k \in Package |-> IF k \in got THEN seen[p] ELSE 0]]
    /\ Goto(p, "clear")
    /\ UNCHANGED <<server, dir, minute, series, opt, seen, todo, stamp, lockVars>>

(* A variant of Minutes whose names change once a day only.                *)
MinutesOfADay == {minute}

(* The backup directory's name is date("YmdHi") of now.                    *)
Minutes == {minute + 1} \cup (IF "sameMinute" \in Events THEN {minute} ELSE {})

(* What to do with the old directory: mv() makes the backup directory, and *)
(* the loops list the files first.                                         *)
Clear(p) ==
    /\ pc[p] = "clear"
    /\ \/ /\ depsDir /\ opt[p].backup
          /\ \E m \in Minutes :
                /\ stamp' = [stamp EXCEPT ![p] = m]
                /\ minute' = m
                /\ backup' = [i \in 0 .. m |-> IF i <= minute THEN backup[i] ELSE NoFiles]
          /\ todo' = [todo EXCEPT ![p] = FilesOf(deps)]
          /\ Goto(p, "backup")
       \/ /\ depsDir /\ ~opt[p].backup
          /\ todo' = [todo EXCEPT ![p] = FilesOf(deps)]
          /\ Goto(p, "remove")
          /\ UNCHANGED <<stamp, minute, backup>>
       \/ /\ ~depsDir
          /\ Goto(p, "mkdir")
          /\ UNCHANGED <<todo, stamp, minute, backup>>
    /\ UNCHANGED <<server, depsDir, deps, series, opt, seen, tmp, lockVars>>

(* mv(path, path.stamp): one rename() per file, which replaces a file of   *)
(* that name.  A file that is gone by now is skipped, or its rename()      *)
(* fails, depending on when it went.                                       *)
BackupFile(p) ==
    /\ pc[p] = "backup"
    /\ \E k \in todo[p] :
        \/ /\ deps[k] # 0
           /\ backup' = [backup EXCEPT ![stamp[p]][k] = deps[k]]
           /\ deps' = [deps EXCEPT ![k] = 0]
           /\ todo' = [todo EXCEPT ![p] = @ \ {k}]
           /\ UNCHANGED <<depsDir, pc, report, opt, seen, tmp, stamp, lockVars>>
        \/ /\ deps[k] = 0
           /\ todo' = [todo EXCEPT ![p] = @ \ {k}]
           /\ UNCHANGED <<dir, pc, report, opt, seen, tmp, stamp, lockVars>>
        \/ /\ deps[k] = 0
           /\ End(p, "error")
           /\ UNCHANGED dir
    /\ UNCHANGED <<server, minute, series>>

(* mv() goes on with rm(path), which lists the directory anew.             *)
BackupDone(p) ==
    /\ pc[p] = "backup" /\ todo[p] = {}
    /\ todo' = [todo EXCEPT ![p] = FilesOf(deps)]
    /\ Goto(p, "remove")
    /\ UNCHANGED <<server, dir, minute, series, opt, seen, tmp, stamp, lockVars>>

(* rm(path): unlink() every file; one that is gone makes rm() fail.        *)
RemoveFile(p) ==
    /\ pc[p] = "remove"
    /\ \E k \in todo[p] :
        \/ /\ deps[k] # 0
           /\ deps' = [deps EXCEPT ![k] = 0]
           /\ todo' = [todo EXCEPT ![p] = @ \ {k}]
           /\ UNCHANGED <<pc, report, opt, seen, tmp, stamp, lockVars>>
        \/ /\ deps[k] = 0
           /\ End(p, "error")
           /\ UNCHANGED deps
    /\ UNCHANGED <<server, depsDir, backup, minute, series>>

(* The rmdir() of an empty directory; any other makes rm() fail.           *)
RemoveDir(p) ==
    /\ pc[p] = "remove" /\ todo[p] = {}
    /\ IF depsDir /\ deps = NoFiles
         THEN depsDir' = FALSE /\ Goto(p, "mkdir") /\ UNCHANGED <<locals, lockVars>>
         ELSE End(p, "error") /\ UNCHANGED depsDir
    /\ UNCHANGED <<server, deps, backup, minute, series>>

(* A variant of MakeDir that gives the lock back before it moves.          *)
MakeDirUnlocks(p) ==
    /\ pc[p] = "mkdir"
    /\ depsDir' = TRUE
    /\ todo' = [todo EXCEPT ![p] = FilesOf(tmp[p])]
    /\ Goto(p, "place")
    /\ IF status[p] = "none" THEN UNCHANGED lockVars ELSE Destruct(p)
    /\ UNCHANGED <<server, deps, backup, minute, series, opt, seen, tmp, stamp>>

(* mv(tmp_deps, path): make the directory, then rename() file after file,  *)
(* each after making sure that its parent directory exists.                *)
MakeDir(p) ==
    /\ pc[p] = "mkdir"
    /\ depsDir' = TRUE
    /\ todo' = [todo EXCEPT ![p] = FilesOf(tmp[p])]
    /\ Goto(p, "place")
    /\ UNCHANGED <<server, deps, backup, minute, series, opt, seen, tmp, stamp, lockVars>>

PlaceFile(p) ==
    /\ pc[p] = "place"
    /\ \E k \in todo[p] :
        /\ deps' = [deps EXCEPT ![k] = tmp[p][k]]
        /\ todo' = [todo EXCEPT ![p] = @ \ {k}]
    /\ depsDir' = TRUE
    /\ UNCHANGED <<server, backup, minute, series, pc, report, opt, seen, tmp, stamp, lockVars>>

(* A variant of FetchToSave that does not wait for the move to end.        *)
FetchToSaveEarly(p) ==
    /\ pc[p] = "place"
    /\ \E s \in Fetch : seen' = [seen EXCEPT ![p] = s]
    /\ Goto(p, "truncate")
    /\ UNCHANGED <<server, dir, minute, series, opt, tmp, todo, stamp, lockVars>>

(* series->cache() fetches the list a third time ...                       *)
FetchToSave(p) ==
    /\ pc[p] = "place" /\ todo[p] = {}
    /\ \E s \in Fetch : seen' = [seen EXCEPT ![p] = s]
    /\ Goto(p, "truncate")
    /\ UNCHANGED <<server, dir, minute, series, opt, tmp, todo, stamp, lockVars>>

(* ... and cacheContent() opens the saved series file, which empties it,   *)
Truncate(p) ==
    /\ pc[p] = "truncate"
    /\ series' = [series EXCEPT ![Tag[p]] = 0]
    /\ Goto(p, "write")
    /\ UNCHANGED <<server, dir, minute, locals, lockVars>>

(* and writes it.  The update is done.                                     *)
Write(p) ==
    /\ pc[p] = "write"
    /\ series' = [series EXCEPT ![Tag[p]] = seen[p]]
    /\ End(p, "success")
    /\ UNCHANGED <<server, dir, minute>>

(* The exceptions: a failed file system call in any phase that makes one,  *)
(* opening the lock file included, or an empty package that ZipArchive     *)
(* refuses.                                                                *)
Fail(p) ==
    /\ \/ "fs" \in Events /\ pc[p] \in UpdatePhases \cup {"lock", "wait"}
       \/ "fetch" \in Events /\ pc[p] = "build"
    /\ End(p, "error")
    /\ UNCHANGED <<server, dir, minute, series>>

Crash(p) ==
    /\ "crash" \in Events
    /\ pc[p] # "idle"
    /\ Killed(p)
    /\ Leave(p, "killed")
    /\ UNCHANGED <<server, dir, minute, series>>

(* The world around the updaters.                                          *)
Publish ==
    /\ server < MaxSeries
    /\ AllIdle \/ "publish" \in Events
    /\ server' = server + 1
    /\ UNCHANGED <<dir, minute, series, pc, locals, report, lockVars>>

RemoveDeps ==
    /\ "removeDeps" \in Events
    /\ AllIdle /\ depsDir
    /\ depsDir' = FALSE
    /\ deps' = NoFiles
    /\ UNCHANGED <<server, backup, minute, series, pc, locals, report, lockVars>>

-----------------------------------------------------------------------------
(* What a process does by itself.                                          *)
Step(p) ==
    \/ Compare(p) \/ TakeLock(p) \/ WaitForOther(p) \/ WaitOver(p)
    \/ GetData(p) \/ Build(p) \/ Clear(p)
    \/ BackupFile(p) \/ BackupDone(p) \/ RemoveFile(p) \/ RemoveDir(p)
    \/ MakeDir(p) \/ PlaceFile(p)
    \/ FetchToSave(p) \/ Truncate(p) \/ Write(p)

Next ==
    \/ \E p \in Process : Start(p) \/ Step(p) \/ OSGrant(p) \/ Fail(p) \/ Crash(p)
    \/ Publish
    \/ RemoveDeps

Spec == Init /\ [][Next]_vars

(* A started process is scheduled until it ends, and the operating system  *)
(* serves whoever waits for a lock that is given back over and over.       *)
Fairness == \A p \in Process : WF_vars(Step(p)) /\ SF_vars(OSGrant(p))
FairSpec == Spec /\ Fairness

-----------------------------------------------------------------------------
Updating(p) == pc[p] \in UpdatePhases
Quiet == \A p \in Process : ~Updating(p)

(* The state in which --check reports that nothing is new.                 *)
AllClear(t) == depsDir /\ series[t] = server

(* While no update is running, --check reports "No updates" only if the    *)
(* directory holds exactly the files of the newest series (Series.php:86,  *)
(* Manager.php:49): the saved series file vouches for the directory.       *)
AllClearIsTrue == Quiet => \A t \in TagSet : AllClear(t) => deps = Full(server)

(* From the moment an update that is not forced has the lock until it      *)
(* ends, no step of anyone else touches the dependency directory, the      *)
(* backups or the saved series file, unless a forced update, which takes   *)
(* no lock, is about (Manager.php:56-72).                                  *)
NoneForced == \A p \in Process : pc[p] # "idle" => ~opt[p].force
Isolated ==
    [][\A p \in Process :
         Updating(p) /\ NoneForced /\ UNCHANGED <<pc[p], todo[p]>>
            => UNCHANGED <<dir, series>>]_vars

(* No step makes the last copy of a package file disappear from the        *)
(* directory and its backups, an update with --no-backup excepted          *)
(* (Manager.php:100-111).                                                  *)
Kept(k) == {deps[k]} \cup {backup[m][k] : m \in DOMAIN backup}
NothingLost ==
    [][(\A p \in Process : pc[p] = "remove" => opt[p].backup)
         => \A k \in Package : Kept(k) \ {0} \subseteq Kept(k)']_vars

(* A process that waited reports "Dependencies was updated by another      *)
(* process" (Manager.php:64) only if the newest series is installed.       *)
WaiterReportTrue ==
    [][\A p \in Process :
         pc[p] = "waited" /\ pc'[p] = "idle" /\ report'[p] = "byother"
            => deps = Full(server)]_vars

(* An update that reports success (Manager.php:139) has installed every    *)
(* package of one series, and saved that series' list.                     *)
SuccessIsWhole ==
    [][\A p \in Process :
         pc[p] = "write" /\ report'[p] = "success" /\ pc'[p] = "idle"
            => deps = Full(series'[Tag[p]])]_vars

(* Every command ends: nobody waits for ever for another update.           *)
Terminates == \A p \in Process : pc[p] # "idle" ~> pc[p] = "idle"

(* How the phases use the lock.                                            *)
LockUse ==
    \A p \in Process :
        /\ pc[p] \in {"idle", "compare", "lock"} => status[p] = "none"
        /\ pc[p] = "wait" => status[p] = "unlocked"
        /\ pc[p] = "waited" => status[p] \in {"waiting", "locked"}
        /\ Updating(p) => status[p] = IF opt[p].force THEN "none" ELSE "locked"
        /\ status[p] # "none" => mode[p] = "ex"
        /\ pc[p] = "compare" /\ opt[p].cmd = "update" => ~opt[p].force
        /\ pc[p] \in {"lock", "wait", "waited"} => ~opt[p].force

(* What is true of the directory in each phase while nothing goes wrong.   *)
InPhase(p) ==
    /\ pc[p] # "idle" => seen[p] = server
    /\ pc[p] \in {"clear", "backup", "remove", "mkdir", "place"} => tmp[p] = Full(server)
    /\ pc[p] \in {"backup", "remove"} => depsDir /\ todo[p] = FilesOf(deps)
    /\ pc[p] = "mkdir" => deps = NoFiles
    /\ pc[p] = "place" => depsDir /\ \A k \in Package \ todo[p] : deps[k] = server
    /\ pc[p] \in {"truncate", "write"} => depsDir /\ deps = Full(server)
    /\ pc[p] \in {"wait", "waited"} /\ Quiet => deps = Full(server)

Tidy ==
    /\ ~depsDir => deps = NoFiles
    /\ \A t \in TagSet : series[t] <= server
    /\ \A p \in Process : InPhase(p)
    /\ AllClearIsTrue

(* Why AllClearIsTrue and WaiterReportTrue hold where nobody uses --force, *)
(* all use one spelling and nothing goes wrong: the updater has the tree   *)
(* to itself and leaves it whole, for itself and for those who waited.     *)
DepsInv == TypeOK /\ LockInv /\ LockUse /\ Tidy

(* As long as the world stands still while somebody updates, the updater   *)
(* keeps the promises of DepsService to those who use one spelling.        *)
OneSpelling == CHOOSE t \in TagSet : TRUE
Service == INSTANCE DepsService WITH
    installed <- IF depsDir /\ \E v \in 1 .. MaxSeries : deps = Full(v)
                   THEN CHOOSE v \in 1 .. MaxSeries : deps = Full(v) ELSE 0,
    recorded <- IF depsDir THEN series[OneSpelling] ELSE NoSeries,
    updater <- {p \in Process : Updating(p)},
    outcome <- report
KeepsPromises == Service!ServiceSpec
=============================================================================
