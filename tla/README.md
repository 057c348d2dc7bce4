# A verification project for the PHP SDK

The PHP SDK is the tool set with which PHP is built on Windows. Its own code is
some 5000 lines of PHP under `lib/php/libsdk`, `bin/phpsdk_*.php` and
`pgo/cases`, a few batch files and a small C program. The rest of the
repository is what the SDK carries along: `msys2/`, `bin/php/`, the binaries of
`bin/`, and in `phpdev/` the source of the PHP that is built, php-8.1.3 with its
extensions, 1.3 million lines of C.

Two commands of the SDK are hard to get right, because several processes may run
them on the same directories at once and because they may fail or be killed
half way:

* **`phpsdk_deps`** installs the libraries PHP is built with into a dependency
  directory and keeps it up to date;
* **`phpsdk_pgo`** sets up web servers and applications, runs them against an
  instrumented PHP build, and collects the profile data of the training.

Both are serialised by one class, **`SDK\Lock`**. This project models the lock
and both commands, the way `phpsdk_deps` finds what to work on, and the way
`phpsdk_pgo --init` gets its packages. Of the PHP that is built and trained it
models two parts that tests hardly reach: the **opcode cache**, which
the trained processes share and restart under each other, and the **collector of
cycles**, in the middle of which destructors run. TLC checks the models on small
instances, and TLAPS proves of most properties that they hold for every instance.

## Contents

| file | what it is |
|---|---|
| `FileLock.tla` | `SDK\Lock` and the `flock()` beneath it |
| `ReadWriteLock.tla` | what a lock promises: a readers-writer lock for each name |
| `SdkConfig.tla` | `SDK\Config`: how a command of `phpsdk_deps` finds the series it works on |
| `DepsUpdate.tla` | `phpsdk_deps --check` and `--update` on one directory |
| `DepsService.tla` | what `phpsdk_deps` promises to those who share the directory |
| `PgoController.tla` | `phpsdk_pgo --init --train --up --down --ready` on one SDK |
| `PackageWorkman.tla` | the package cache of `phpsdk_pgo --init`: download, unpack, copy |
| `Opcache.tla` | how PHP processes share opcache's memory and restart it (`ext/opcache/ZendAccelerator.c`) |
| `ZendGc.tla` | reference counts, destructors and the collector of cycles (`Zend/zend_gc.c`) |
| `ZendGcInvariant.tla` | the inductive invariant of `ZendGc` |
| `MC*.tla` | the instances for TLC, one module for each model |
| `*.cfg` | one configuration for each run |
| `FileLock_proofs.tla` | the lock: invariant, exclusion, refinement of `ReadWriteLock` |
| `SdkConfig_proofs.tla` | the configuration: invariant, right answers, right refusals |
| `DepsUpdate_proofs.tla` | the updater: all its safety properties, each under the faults it can bear; the refinement of `DepsService` |
| `PgoController_proofs.tla` | the PGO tool: types, use of its locks, what trainings and initializations achieve |
| `PackageWorkman_proofs.tla` | the package cache: invariant, damage, progress |
| `Opcache_proofs.tla` | the opcode cache: all its safety properties |
| `ZendGcOperators_proofs.tla` | lemmas about the collector's data: headers, buffer, stack of calls, counts, reachability |
| `ZendGc_proofs.tla` | the collector of cycles: its invariant and all its properties |
| `PROJECT.json` | components, runs, mutants, source map, findings, hazards, theorems |

A definition has the name of the method, variable or phase of the code it
models where TLA+ allows it; `map` in `PROJECT.json` gives the lines of each.

To check the project: `tlc -config DepsUpdate.cfg MCDepsUpdate`, and so on for
each configuration; `tlapm DepsUpdate_proofs.tla`, and so on for each module
of proofs.

## 1. Inventory

### SDK\Lock (`lib/php/libsdk/SDK/Lock.php`)

*State*: for each object the handle of a file in the temporary directory, named
by the SHA-256 hash of a tag; whether it believes to be locked; whether the lock is
shared. *Operations*: the constructor, which tries to lock at once without
waiting; `shared()` and `exclusive()`, waiting or not; `unlock()`; the
destructor; `locked()`. *Beneath it*: `flock()`, which the operating system
releases when a handle is closed or a process ends, however it ends.
*Hard*: the class serialises processes that may be killed at any time, and
keeps a flag about something the operating system decides. *Correct if* no two
objects on one tag believe to have incompatible locks, and if the flag says
what the operating system granted.

### Dependency updater (`SDK/Build/Dependency/{Manager,Series,Package}.php`)

*State*: the dependency directory, the backups beside it (named by the minute),
the saved list of the series installed last (one file for each spelling of the
path, branch, CRT, architecture and stability), a temporary directory for each
process. *Operations*: `updatesAvailable()` compares the list on the server with
the saved one and looks whether the directory exists; `performUpdate($force,
$backup)` compares, takes the lock or waits for it, downloads and unpacks all
packages of the list, renames the old directory into a backup or removes it,
renames the new files into place, fetches the list again and saves it.
*Hard*: it compares before it takes the lock; the swap of the directory is a
long sequence of renames, at each of which the process may be killed; the list
is fetched twice; a failing fetch looks like an empty list; `--force` takes no
lock at all; a backup may meet another one of the same minute. *Correct if* the
saved list vouches for the directory: `--check` says that nothing is new only
if the directory holds exactly what the newest series names; an update that
reports success has installed it; those who waited are told the truth; updates
do not disturb each other; no package file is lost; every command ends.

### Fetcher, SDK\Cache, SDK\FileOps (`Fetcher.php`, `Cache.php`, `FileOps.php`)

`Fetcher::getByUri()` tries four times to get a document and returns `""` if it
cannot; `Cache` keeps files by name (or by the MD5 sum of a path) and rewrites
them in place, truncating first; `FileOps` makes, removes, copies and moves
trees, downloads with four attempts of its own, and unpacks archives. *Hard*:
partial writes and trees after a failure, retries of retries. *Correct if* a
failed call leaves what the caller expects, and loops end.

### SDK\Config (`SDK/Config.php`)

*State*: static members, filled when they are first asked for, and a cached
list of the branches the server knows. *Operations*: finds branch, CRT,
architecture, stability and the dependency directory from options, environment,
the source tree and the server's list. *Hard*: five getters that call each other
in an order that depends on what is known already, three sources for each value;
the name of the series is computed anew at every use, from a list that the server
may have changed; the fallback to the cached list. *Correct if* a command works on
exactly the series that its options and environment ask for, refuses
only when there is none or the answer is left open, and never changes its mind.

### phpsdk_deps (`bin/phpsdk_deps.php`)

Parses options, sets the configuration, runs one of `--check` (exit code 7 if
there are updates), `--update` and `--pack` (an archive of the directory).

### PGO Controller, PGO Config, TrainingCaseIterator (`SDK/Build/PGO/`)

*State*: the directory `pgo/work`, and in it the file `phpsdk_pgo.json` with a
section for each server and each training case; its copy in the memory of each
process. *Operations*: `--init` fetches servers and applications, makes
`nginx.conf`, and for each case generates its section, adds its server to
`nginx.conf`, installs the application and writes the job file with the URLs
to train; `--train` starts the servers, throws away the profile data there is,
requests the URLs of each case and merges the data, and stops the servers;
`--up`, `--down` start and stop the servers; `--ready` tells by its exit code
whether the environment is initialized. *Hard*: `--init` and `--train` have one
lock each, which do not exclude each other; `--up`, `--down` and `--ready` have
none; the constructor of `Config` makes the directory and, for `--init`,
replaces the configuration before any lock is taken; every process writes back
all sections it read when it started; an exception or a kill leaves servers
running and profile files lying about; there is one set of server processes on
the machine, and stopping means to end every process of that name. *Correct
if* a training leaves exactly the profile data of its cases, whatever was there
before, and stops what it started; an initialization that completes is
complete; `--ready` may be relied on.

### PGO servers (`Server/NGINX.php`, `Server/MariaDB.php`, `PHP/FCGI.php`)

External processes, started with `start /b` and stopped by `nginx -s quit`,
`mysqladmin shutdown` and `taskkill /f /im`. `NGINX` owns `nginx.conf`, into
which each case puts a server. `Server/PostgreSQL.php` is complete but not
used (its line in `Controller::vitalizeSrv` is commented out).

### Tool\PGO, Tool\Training (`Tool/PGO.php`, `Tool/Training.php`)

`Tool\PGO` sweeps the counters of running instrumented PHP into a `.pgc` file
of the next free index (`pgosweep`), merges it into the `.pgd` file
(`pgomgr`) and removes it; `waste()` sweeps without merging, `clean()` removes
`.pgc` files and clears `.pgd` files. `Tool\Training` requests all URLs of a
job file in parallel. *Correct if* no data of anything but the training is
merged, and none of the training is missing.

### Training cases (`pgo/cases/*/TrainingCaseHandler.php`)

Six active cases and one marked inactive (`mediawiki`), each with `prepareInit`,
`setupDist`, `setupUrls`, `init` and `run`. They differ in the installer they call and in
whether they generate credentials after the servers are up; `pgo01org` writes
one fixed URL, the others read the start page of the site.

### Package workman (`Tool/PackageWorkman.php`)

*State*: the package cache in `pgo/work`, and the directories of servers and
applications and the tools beside it. *Operations*: `fetch()` downloads a file unless
the cache has it, and copies it to its place unless it is there; `fetchAndUnzip()`
does the same with an archive, which `FileOps::unzip()` extracts beside the target
and renames to it; `--force` does all of it anew. *Hard*: "it is there" is
`file_exists()`, of a download that may have been broken off, of a directory that may be
half removed. *Correct if* an initialization that reports no failure has everything in
place, if nothing but `--force` damages what is installed, and if what went wrong once does
not go wrong for ever.

### PHP opcache (`phpdev/.../ext/opcache/ZendAccelerator.c`, `zend_shared_alloc.c`)

*State*: in shared memory the table of compiled scripts and strings, the flags of a
restart (`restart_pending`, `restart_in_progress`, the status to go back to), the usage
count `mem_usage` (on Windows; elsewhere file locks), the time of the latest restart; in
each process whether the cache is on for its request, whether it has counted itself, the
time of the restart it knows of. *Operations*: begin and end of a request, lookup,
compilation and storing of a script, `opcache_invalidate()`, `opcache_reset()`, the
restart when memory is used up. *Hard*: readers take no lock; flags are tested before
the mutex is taken and changed under it; a request that began before a restart was scheduled goes on
using the cache; a process may die in any of it. *Correct if* nobody executes a script whose memory was
emptied under it, the count is exact, the cache comes back on after a restart, and a
restart that is due happens.

### PHP garbage collector (`phpdev/.../Zend/zend_gc.c`, `zend_objects_API.c`)

*State*: the counts, colours and buffer addresses in the headers of objects; the buffer
of possible roots with its list of unused slots; the calls in progress. *Operations*:
references come and go, the last one frees an object, a run of the collector marks,
scans, collects, calls destructors, and destroys. *Hard*: the run takes counts apart and puts
them together again; destructors, in the middle of it, may do anything; the buffer is
compacted and slots are used again while objects know their place in it; an object may
be revived. *Correct if* nothing that can be reached is freed, all garbage is found, and each
destructor runs once.

### Others

`phpsdk_dllmap.php` (one pass over archives), the starter and shell batch files
(environment variables), `doc/task.c` (starts a batch file), `PHP/CLI.php` (runs
one command), `PHP/Apache.php` (empty), `Exception.php`: no state that is
shared or kept. They are listed in `PROJECT.json` with the reason why they are
not modelled.

### How they interact

```
 phpsdk_deps ── Config ── Cache (branch list) ── Fetcher ── server
     │
     └─ Manager ── Lock(path)      Series ── Cache (saved list) ── Fetcher ── server
            │                      Package ── FileOps (download, unzip)
            └─ FileOps (rm, mv)    dependency directory, backups

 phpsdk_pgo ── Controller ── Lock("pgo_init"), Lock("pgo_train")
                  ├─ PGO\Config              work directory, phpsdk_pgo.json
                  ├─ TrainingCaseIterator ── training cases ── Tool\Training ── URLs
                  ├─ NGINX ── FCGI, MariaDB  processes of the machine
                  ├─ Tool\PGO                .pgc and .pgd files of the PHP build
                  ├─ PackageWorkman ── FileOps (download, unzip), package cache
                  └─ php-cgi ── opcache      memory that its processes share
                            └─ zend_gc      heap of one process
```

There are no threads in the SDK, and no callbacks: each process is sequential. What one
process does is interleaved with the others, and they share the file system,
the locks, the server processes and the dependency server. The `php-cgi` processes that a
training starts share the opcode cache; in each of them a request calls the
collector, which calls the request's destructors, which may do what the request may do.

## 2. Plan

The modules are written in this order; the first seven steps are done, with their proofs.

1. **`FileLock`** with `ReadWriteLock`: everything else rests on it. *Done*,
   with proofs.
2. **`DepsUpdate`** with `DepsService`, composed of the updater and `FileLock`
   (which it extends: the lock's operations are conjuncts of the updater's
   actions). *Done*, with proofs of everything but liveness.
3. **`PgoController`**, composed of the PGO tool and `FileLock` in the same way.
   *Done*, with proofs of all properties of its passing run.
4. **`SdkConfig`**: the choice of branch, CRT, architecture, stability and
   directory, with the list of known branches, against a definition of what the
   user asked for. *Done*, with proofs of all its properties.
5. **`PackageWorkman`**: `fetch` and `fetchAndUnzip` with the `download` and `unzip`
   beneath them. *Done*, with proofs of its safety properties.
6. **`Opcache`**: the protocol of restarts. *Done*, with proofs of its safety
   properties.
7. **`ZendGc`**: the collector with destructors. *Done*, with proofs of all its
   properties.
8. `DepsUpdate` with one configuration for each process (branch, CRT, architecture
   share a directory but not a saved list) and with a `--pack` reader; the
   allocation of ports.

## 3. The lock: `FileLock`

| in the model | in the code |
|---|---|
| `status[p]` | what object of process `p` is in: none, made and not locked, inside `flock()`, or locked (`$locked`) |
| `mode[p]` | `$shared` |
| `granted[p]` | what the operating system granted the handle |
| `files` | the lock files that exist |
| `New`, `Request`, `Destruct` | constructor, `shared`/`exclusive`, destructor |
| `DoLock` | `doLock()`, with its early return when `$locked` is set |
| `OpenFails` | `fopen()` fails, for whatever reason, and `doLock()` throws |
| `Grant` | `flock()` returns to someone who waited |
| `Killed` | the process dies, its handles are closed |

`unlock()` is modelled inside the destructor, which alone calls it. An object that
is used again after `unlock()` would still say that it is locked (`Lock.php:82`: the
inner `doLock(LOCK_UN)` returns early, and `$locked` stays set); no code of the SDK does that.
Properties: `LockedExcludes` (two processes that both believe to have
a lock on one tag share it), `LockInv` (the flag agrees with the operating system, grants are
compatible: the inductive invariant of the proofs), `ImplementsRWLock` (the
refinement of `ReadWriteLock`, whose state is who holds which name how, read off from
`status` and `mode`).

* Run **FileLock**: three processes on one tag and one on another, shared and
  exclusive, waiting or not, killed at any time. Three are enough for two holders
  of a shared lock and a waiter for an exclusive one.

## 4. The configuration: `SdkConfig`

| in the model | in the code |
|---|---|
| `opt`, `env` | the command line; the environment variables, headers, git branch, `cl.exe` and directories that are looked at |
| `phase` | how far `phpsdk_deps.php` has come, from the options to the command |
| `known` | `$knownBranches`: the nested arrays as a set of records |
| `branch`, `crt`, `arch`, `stability`, `path` | the other static properties of `SDK\Config`; `None` is `NULL` |
| `data`, `used` | `$branch_data`, and the series whose list was downloaded or saved |
| `listing`, `cached` | what the server lists, and `known_branches.txt` for each directory |

One command is one process, whose static properties start empty; the server may
list something else at any moment (`Publish`). Commands share only the cached list,
which every command writes and none reads: `getByUri()` has return type `string`,
so a failed fetch gives `""` and never `false` (`Config.php:147`), and a command
without a network refuses although the comment at `Config.php:161` would have it use the
cached list.

Properties: `ResolvesRight` (a command at work does what was asked for, where
`Wanted` says this without the order of the getters), `RefusesRight` (a refusal
has a reason: no such series is known, or the branch has several CRTs and nobody chose),
`OneSeries` (a command at work is not refused, and all its names are
those of the series announced, whatever the server lists now), `ConfigInv` (what each
property holds in each phase, the inductive invariant).

* Run **SdkConfig**: 34 command lines in 90 environments. Branch, CRT and `--force` are
  combined with all values of `PHP_SDK_VS` and of the guessed branch; architecture and
  stability, known and unknown, with some. The four listings have a branch with one CRT
  and with two, `master` in staging only, branches that appear and disappear, and nothing at all.
  A branch needs two CRTs at most to be ambiguous, and the command asks for one series,
  so nothing new happens with more.

## 5. The dependency updater: `DepsUpdate`

One action for each step that another process can see or be seen by: a fetch,
the comparison, each call on the lock, each `rename()`, `unlink()`, `mkdir()`,
the truncation and the write of the saved list. Reading the list and downloading and
unpacking a package touch nothing but the process's own temporary directory;
they are one step each. `Fail` is an exception wherever one can be thrown: in the constructor of
the lock and in waiting for it, when the lock file cannot be opened, as well as in the update. A package is one file, whose content is the series it
is from; 0 is a file that is missing or empty. The saved list is
the number of its series, 0 when it is empty, -1 when there is none. `server`
is the newest series on the server. `--check` and `--update`, with `--force` and
`--no-backup`, are command lines of `Commands`; what may go wrong is chosen by
`Events`.

`Tag[p]` is the path as process `p` spells it: lock and saved list are named after
the spelling. All instances use one spelling; the theorems about the directory assume
one too, and without it none of them would hold.

Properties:

* `AllClearIsTrue`: whenever nobody updates and a `--check` would say that nothing
  is new, the directory holds exactly the newest series.
* `WaiterReportTrue`, `SuccessIsWhole`: who waited, or was successful, is told
  the truth.
* `Isolated`: from the moment an unforced update has the lock, no step of anyone
  else touches directory, backups or saved list.
* `NothingLost`: no step makes the last copy of a package file disappear, except
  with `--no-backup`.
* `Terminates`: every command ends.
* `KeepsPromises`: the whole implements `DepsService`, in which updates happen one at
  a time, are all or nothing as far as outcome and next check can tell, and change nothing
  outside their turn.
* `LockUse`, `DepsInv`: which lock which phase has; the inductive invariants.

Runs and their bounds:

* **DepsUpdate**: three processes, two packages, two series, the user may remove the
  directory between updates; no faults. Three processes give an updater,
  one that waits and one that comes late; two packages give a half-filled
  directory; two series give old and new. `MaxMinute = 1` allows one update with
  backup and any number without. `DepsInv` has `AllClearIsTrue` as a consequence (section 10).
* **DepsFaults**: two processes, one forced without backup and one not, all
  faults, at every step. Isolation where nobody forces, the use of the lock and
  termination. One package suffices: its file is there or not.
* **DepsCrash**: one process that fails or is killed at any step and is run
  again, two packages, three series, two backups. It is the run that shows that an
  interrupted update is found and repaired by the next one.

Each run leaves out the events with which its properties fail, and section 11
says which those are; the hazards in `PROJECT.json` that such an event is name no property, and their notes say why. `AllClearIsTrue` holds of several processes without kills
and of one with kills, and not of several with kills. The runs together are the precise
statement of when `--check` may be believed.

### Fairness

`Fairness` asks for weak fairness of `Step(p)` — a process that can go on is
scheduled; each has its own thread of the operating system, and nothing
disables its next step for ever — and for strong fairness of `OSGrant(p)`: a request
inside `flock()` on Windows is queued, so a lock that is given back over and
over is given to whoever waits. `Fail`, `Crash`, `Start`, `Publish` and
`RemoveDeps` have no fairness: nobody has to start a command or make it fail.

## 6. The PGO tool: `PgoController`

| in the model | in the code |
|---|---|
| `workDir`, `confFile`, `conf[c]` | `pgo/work`, `phpsdk_pgo.json` in it, its section of case `c`: none, the template's, generated |
| `mem[p]` | the case sections in the `Config` object of process `p` |
| `vhosts`, `job[c]` | the servers of cases in `nginx.conf`; the job file: none, empty, URLs |
| `php`, `serving`, `mysqld` | running `php-cgi`, the ports `nginx` serves, `mysqld` |
| `counters`, `pgc`, `pgd` | profile data in memory, in the `.pgc` files by index, in the `.pgd` file |
| `pc`, `opt`, `todo`, `idx` | phase, command line, cases left in the loop, index of the `.pgc` file |
| `disturbed[p]` | history, not in the code: whether a command ran beside `p` that its lock does not keep away |

Profile data is the set of what it was collected from: a case, or `other` for what
PHP does when it starts or while an application is installed. One action for each step
that others can see: the constructor's test, its `mkdir()` and the
load or replacement of the configuration, each call on the lock, each server
started or stopped, each sweep, merge and clean, each case of a loop. `Fail` and
`Crash` end a command at any step at which an exception can be thrown, and at any
step. They leave the servers and profile files as they are.

What the model abstracts: the four sections of the servers are written as one;
`file_put_contents` is atomic; the servers of a case are started in one step; the
files of all binaries of one index are one; a training case is the one of
wordpress, with the choice that others have (credentials that are saved again
after the servers are up, or not); `pgo01org`, whose URL is fixed, is covered by a
site that answers; the scenario `cache`, which only adds a directory for opcache,
and PostgreSQL, which is commented out, are left out. What `pgosweep`, `pgomgr`,
`taskkill`, `nginx` and `mysqld` do is modelled from how the code uses them.

Properties:

* `TrainedExactly`: a training that was not disturbed leaves in the `.pgd` file the
  data of the wanted cases only, and of each whose site works, and no `.pgc` file —
  whatever servers, counters and files earlier commands left behind.
* `ServersStopped`: it leaves neither `php-cgi` nor MariaDB running. (`nginx -s quit`
  reaches one of two running masters only, and is not claimed.)
* `InitComplete`: an initialization that completes has made the server and the job
  file of each case, whatever ran beside it; and all sections, if nothing did.
* `LockUse`: the sections of `handle()` are entered by one process at a time,
  which has the lock on its handle.

Runs and their bounds:

* **Pgo**: two initializers, two trainers, all commands, two cases of which a
  training wants one, two commands at a time, all faults. Two
  processes of each kind suffice for holder and waiter; the wanted and the unwanted
  case are the two branches of the loop. `Beside` lets two initializations, two
  trainings, or `--init` and `--ready` run at a time, and every other command alone, in
  any order one after the other; the same properties were also checked with one case and `--init` and
  `--train` beside each other, and the theorems allow all commands beside each other. `MaxPgc = 2` ends the accumulation
  of `.pgc` files by trainings that break off. The lock files exist from the start
  (`MCSpec`): their creation is checked in FileLock. Symmetry is taken in the two initializers and
  in the two trainers, which are used in no other way; no liveness is checked.
  The theorems have none of these bounds.
* **PgoInitLeaks** (violation): `--init` beside `--train` puts the
  data of installations into the profile.

## 7. The packages of an initialization: `PackageWorkman`

| in the model | in the code |
|---|---|
| `cache[k]` | the file of package `k` in the package cache: none, whole, or broken (truncated, a part, an error page) |
| `target[k]` | the directory that `fetchAndUnzip()` or the tool that `fetch()` makes of it |
| `pc`, `idx`, `force` | phase of `--init`, the package it is at, `--force` |
| `retry` | `$retry` of `FileOps::download()` |
| `report` | how the latest `--init` ended: without an exception, with one, killed |
| `healthy` | not in the code: from now on server, disk and user are well-behaved |

One `--init` at a time, as its lock has it. `Open` empties the file, or throws if it cannot be opened, `Receive` is the
outcome of an attempt, `Install` the test for the target, `Unzip` the opening of the
archive, `Extract` its extraction beside the target, `Clear`, `Remove` and `Rename` put it
in its place, `DropCache` is the exception that removes an archive that could
not be unpacked. `Fail` and `Kill` may end it in any of them. An
archive that is broken does not open; a transfer that curl takes for complete is
complete, so a truncated one that curl cannot tell, or the page of a captive portal, is not in the model. The
branch for a package without an explicit target (`!$tgt_bn`) has no caller.
Composer's installer (`Controller.php:135-148`) is fetched in the same way, and its tool is removed
after use: it is one more package without a target.

Properties: `SuccessInstalls` (an `--init` without an exception has everything in place, and
with `--force` everything whole), `UnforcedNeverBreaks` (without `--force` no step turns
a whole or missing directory into a broken one, whatever fails), `FailureIsProgress`
(once `healthy`, each run that fails has removed a broken archive and leaves
no new one: failures end after as many runs as there are broken archives), `Heals` (so
that everything is whole at last), `PackageInv` (the inductive invariant).

Two things the properties leave open because the code does. A tool that was copied from a broken cached
file stays broken until `--force`, since only archives are noticed to be broken
(`PackageWorkman.php:29-33` has no counterpart of lines 49-54): `Heals` speaks of archives. A
directory half removed by a `--force` that was killed counts as installed from then on.

* Run **PackageWorkman**: two archives and a tool between them, `--force` or not, all
  faults until `healthy`. Packages meet nowhere but in their order, for which
  three are enough.
* Fairness: weak fairness of `Step` (a running command goes on) and of
  `Begin(FALSE)` (the user runs `--init` until it works; `Heals` is the only property that needs this).

## 8. The opcode cache: `Opcache`

| in the model | in the code |
|---|---|
| `memory_mutex` | the holder of `zend_shared_alloc_lock()` |
| `restart_pending`, `restart_in_progress`, `restart_in`, `accelerator_enabled`, `cache_status`, `mem_usage`, `last_restart_time` | the members of `ZCSG` of these names |
| `hash`, `stored`, `wasted`, `memory_exhausted` | the table of scripts and the state of the allocator |
| `on`, `counted`, `seen`, `request_time`, `pcre_reseted` | the members of `ZCG` of each process |
| `script` | `persistent_script` in a local variable, or `ZCG(cache_persistent_script)` |
| `gen`, `using`, `pcre`, `stamped`, `began`, `leaked`, `aborted` | history: how often the memory was emptied, what of it each process holds |

One action for each access to shared memory that others can notice: the test of
`restart_pending` before the mutex, the one under it together with `mem_usage`,
each flag the restart writes (its end is three steps: the flag, the count, the mutex), each lookup, each change of the count, and whole
sections under the mutex where nothing inside is seen without it. It is the
variant for Windows, on which the SDK runs: `mem_usage` with `InterlockedIncrement`
in the place of file locks. A pointer into the shared memory is the
generation of the memory it points to. Scripts are all of one size, `Capacity` of them
fit; a script found may be out of date (`Corrupt`) whenever one is found. `Kill` ends a process at any
step, with what Windows does about it: its count stays, its mutex is given to the next
who waits, in whatever state the memory is.

Properties:

* `UsageExact`: `mem_usage` is the number of those who use the cache plus those killed in it.
* `OffOnlyForRestart`: the cache is off only while a restart is due or under way that will turn
  it on again, however many processes schedule one at the same time — unless the restarter
  itself is killed half way, which leaves the cache off.
* `SoundScriptsStay`: a script that was looked up while the process was counted and no restart was under way is
  never swept away while it is executed.
* `FreshCaches`: a request that begins after a restart has no compiled regular expressions with
  strings of before, also if two restarts come within a second.
* `RestartHappens`: a restart that is scheduled is done.
* `ReadLockHolds`, which fails: whoever was given `accelerator_shm_read_lock()` reads while
  nobody restarts.

`sound` in a script is no part of the code. `persistent_compile_file()` looks a script up
(`ZendAccelerator.c:2007`, 2032) before it counts itself (2063), so that a process may look up, a second one find
`mem_usage` at 0 and empty the memory, and the first one go on with
what it found. Of such scripts nothing is claimed, `SoundScriptsStay` says that those are all.

Runs, bounds and fairness:

* **Opcache**: two processes, one file, room for one script, two seconds, one kill. A restart is asked for
  while none has been done (`MaxRestarts = 1`); as another process may have asked before and schedule it
  after, up to two are done. Two processes are a user and a restarter; one file
  suffices, since files meet only in `stored`, which one script fills. Symmetry in the processes: no liveness.
* **OpcacheRestart**: the same within one second and without kills, for `RestartHappens`, as a killed process that was counted
  blocks restarts for ever on Windows.
* **OpcacheReaders** (violation): `ReadLockHolds`.
* `Fairness`: weak fairness of `Proceed(p)`, a process goes on by itself, and of `Activate(p)`, the
  web server hands out requests; strong fairness of `EndRequest(p)`, because a script may do other things for as long as it likes, but
  `max_execution_time` has it end. `RestartHappens` follows because a request that begins after the
  schedule does not use the cache, so that the count falls to 0.

Not in the model: the file cache, preloading, JIT, checksums, the table of interned strings apart from the
count that `accel_find_interned_string()` takes, and the persisting and optimizing of scripts.
`request_time` is set to 0 at `Adopt` and `began` at `EndRequest` because neither is read from there on.

## 9. The collector of cycles: `ZendGc`

| in the model | in the code |
|---|---|
| `state`, `out`, `var` | allocated objects; their properties; variables of the program |
| `dtor_called`, `free_called` | `IS_OBJ_DESTRUCTOR_CALLED`, `IS_OBJ_FREE_CALLED` |
| `gc.refcount`, `gc.color`, `gc.address` | the header of an object |
| `gc.buf`, `gc.unused` | the buffer of roots; the list of its unused slots |
| `frames` | the C stack: releases, destructors, the collector |
| `phase`, `idx`, `end`, `todo`, `black`, `has_dtors`, `rerun` | where `zend_gc_collect_cycles()` is, its stacks, its flags |

The program (`Script`) makes objects, reads properties into variables, assigns and
unsets, wherever it runs: outside, in a destructor of a last release, in a destructor the
collector called. `Collect` is `gc_collect_cycles()`, at any moment at which the program runs
and no collection does. `Engine` is all that goes on by itself: the last release with destructor, destruction of properties
one by one, `free`; and the collector, where a visit of one
object by `gc_mark_grey`, `gc_scan`, `gc_scan_black`, `gc_collect_white` or
`gc_remove_nested_data_from_buffer` is one action. The stacks of these are sets, the model visits in
any order; the code's is one of them.

Properties:

* `NoDangling`: whatever the program can get at has not been freed, and no reference, of an object or of a
  destruction in progress, leads to memory given back.
* `RefcountExact`: outside of the traversals a count is the number of variables, properties and frames that refer to the object.
* `BufferConsistent`: objects and slots know each other through reuse, compaction and removal;
  between two runs what is in the buffer is purple and nothing else is.
* `GarbageIsFound`: when no call is in progress, all garbage is reachable from a root in the buffer
  that is garbage itself: a next run finds it.
* `CollectsAll`: a run in which no destructor was to be called leaves no garbage at all.
* `DestructedOnce`: an object with a destructor is not freed before it was called, and it is called once, by whichever of the
  three ways it is reached, however often the object is revived.

* Run **ZendGc**: three objects, one with a destructor, three references between them. Three
  objects are a cycle of two with a third one inside, beside or hanging on it; three references allow
  each of them, and one more than a cycle of two. The bound is on references at one
  time: they may be moved at will. The same properties were seen to hold with two destructors of three
  objects (5.1 million states), and with two objects, both with destructors, and four references (61 050 states), which takes longer
  than a run should. Symmetry in objects of one kind, no liveness.

What is left out: arrays and PHP references (a collector run treats them as objects without
destructors), more than one reference between two objects, the threshold that starts a run and a buffer that
is full or beyond 512K entries, weak maps, fibers, `get_gc` handlers of internal classes, `gc_protect` at
shutdown and the pass over all destructors there (`zend_objects_store_call_destructors()`).
`zend_gc_root_tmpvars()` (`zend_gc.c:1640`), which after a run puts the objects in live temporaries into the buffer,
is left out too: it only adds roots, and the program reaches the same state by assigning such an object to a property of
its own and unsetting it.

All six properties are proved for every finite set of objects (section 10).

## 10. Proofs

All theorems are for any finite or infinite set of processes (finite in `Opcache`, which counts them), any tags, packages, series,
cases and command lines, and any finite set of objects. The assumptions of the modules (`AskedModesAssumption`,
`DepsAssumption`, `PgoAssumption`, `SdkConfigAssumption`, `PackageAssumption`, `OpcacheAssumption`, `ZendGcAssumption`) say what kind of values the constants are;
TLC evaluates them in every run.

**`FileLock_proofs`.** `LockInv` is inductive: types; `locked` exactly when the
operating system granted the handle; grants on one tag compatible. Each operation
preserves it by a lemma of its own, which the other modules cite. `LockExclusion`
follows, and `LockImplements` by a step-by-step mapping to `ReadWriteLock`.

**`SdkConfig_proofs`.** `ConfigInv` is inductive (`ConfigCorrect`). `SearchIsRight`: in
the last phases the code's search and the definition of what was asked for give the same set; `SearchIsUnique`: it has
at most one member. `ConfigResolves` follows. `ConfigRefuses` needs
a reason for each refusal (`RefusalIsRight`), `ConfigKeeps` that the name computed anew
is that of `data` (`NameIsData`), because the list is remembered.

**`DepsUpdate_proofs`**, under every combination of faults. `TypeCorrect`. `LockUseCorrect`:
the invariant says for each phase which state the lock is in; each
action moves one process to a phase whose lock it has. `UpdatesIsolated`: by
`LockUse` and `LockInv` two unforced updates of one spelling are one process, so a step
that changes directory, backups or list is the updater's own.

**The rest of `DepsUpdate_proofs`.** Nothing about the directory holds under every combination of faults
(section 11). Each property has a theorem that names the faults it bears; all assume that nobody uses
`--force` and that all spell the path alike:

| theorem | property | beyond this it assumes | so it bears |
|---|---|---|---|
| `DepsInvHolds`, `AllClearHolds`, `WaitersAreToldTheTruth` | `DepsInv`, `AllClearIsTrue`, `WaiterReportTrue` | `Calm`: no event but the removal of the directory | many processes, removals |
| `SuccessMeansWhole` | `SuccessIsWhole` | `Reachable`: no failing fetch, the server publishes between commands only | many processes, kills, failing file system calls, two backups in a minute, removals |
| `NothingIsLost` | `NothingLost` | `Orderly`: backups begin in different minutes, the user removes nothing | many processes, kills, failing fetches and file system calls, a server that publishes at any time |
| `AllClearAfterCrash` | `AllClearIsTrue` | `Lone`: one process, no failing fetch, the server publishes between commands only, the user removes nothing | kills, failing file system calls, two backups in a minute |
| `LonePromises`, `CalmPromises` | `KeepsPromises` | `Lone`, or `Calm`; `Process` and `Package` not empty | as above |

* `DepsInv`: `AllClearIsTrue` is not inductive, as it speaks of the times between updates. `DepsInv` adds what is
  true of the directory in each phase (`InPhase`): the temporary directory is full before the old one is
  touched, the loops list exactly the files there are, all files outside `todo` are placed, the directory
  is full when the list is written; and those who wait were overtaken by an update, so that when no
  update runs the directory is full. The lemmas show it for steps outside updates
  (`OutsideTidy`), inside (`UpdateTidy`, `WriteTidy`) and of the world (`WorldTidy`).
* `WholeInv` says for a process in each phase what it has done itself (`Progress`). It is weaker, since of what is in
  the directory before it is emptied it says nothing, and therefore survives that others fail or are killed.
* `LossInv` says where the files are in each phase (`FilesSafe`): what is still to be moved into the backup has no copy
  there that it could replace, what was backed up is not in the directory when that is removed, and what is placed replaces nothing
  but itself. `NothingLost` is then seen for each step from what it does to `Kept`.
* `CrashInv` says that the saved list never vouches for a directory that is not whole, not even in the middle of an
  update (`SavedTrue`): an update begins only if the list differs (`Turn`), and `truncate` comes after `place`. With a second process
  that is no longer so, because the comparison is not repeated under the lock.
* The refinement. `StepPromised` takes every step of the code to a step of the service or a stutter, under `RegularInv` and
  `Trusty` (a list that is up to date vouches for a whole directory); `InitPromised` does so for the beginnings.
  `LonePromises` has `Trusty` from `CrashInv`, `CalmPromises` from `CalmInv`, which adds to `DepsInv` that the newest
  series is recorded, not only installed, when nobody updates and someone waits. `Package` must not be empty, because an empty series is
  installed as soon as the directory is there and the mapping could not tell one from another; `Process` must not be
  empty, because the mapping reads the list under the one spelling there is.

**`PgoController_proofs`**, under every combination of faults and commands.
`TypeCorrect` needs `NextIndexIsFree` (the index searched for exists) and `Visiting`
(a case is being visited where the code reads the current one). `LockUseCorrect`
needs `RoleInv` (who initializes has the initializers' tag) and `UseInv`.

**The rest of `PgoController_proofs`**, under every combination of faults and commands, for
commands that were not disturbed. `CalmInv`: no other active command of a kind that
disturbs runs beside an undisturbed one. `TrainInv` is what is true in each phase of a training:
which servers run, that from `clean` on no profile data but that of wanted cases
is in counters, files or database, that every case passed is in the database, or on its way.
`MadeInv`, `ConfInv` and `FreshInv` are the same of an initialization. `TrainingIsExact`,
`TrainingStopsServers` and `InitIsComplete` are read off at the last step.

**`PackageWorkman_proofs`**, under every combination of faults. `PackageInv` is inductive
(`PackageInvHolds`): what each phase has reached (`PhaseInv`; without `--force` an archive is only unpacked to where there is
nothing; `drop` of a healthy run means that the archive was broken) and what the packages passed have (`PassedInv`).
`SuccessIsInstalled`, `UnforcedIsHarmless` and `FailureDropsAnArchive` are read off.

**`Opcache_proofs`**, for any number of processes, files, seconds, restarts and kills. The inductive
invariant `IInv` has seven parts: `Types`; `MutexHeld` (who is in the window of a restart holds the mutex,
and so is alone); `RestartIn`
(`restart_in` counts whoever restarts); `Counting` (`UsageExact`, from which `mem_usage` never falls below 0);
`Sound` (a soundly found script is of the present generation and its user is counted; while
somebody restarts, nobody holds one); `OffInv` (the status saved
is the one to go back to); `Order` (the times that
processes know are never ahead of the latest restart, and one who knows the latest time has nothing of before). `UsageExact` needs lemmas on the cardinality
of a set with one process more or less.

**`ZendGcOperators_proofs` and `ZendGc_proofs`**, for any number of objects and references, and whatever the program and
its destructors do. The properties speak of the times outside of the traversals, or between two runs, and are far from
inductive. `IInv` (in `ZendGcInvariant`, checked by TLC on the instance of the run before it was proved) says what holds in between:

* `StackInv`: at most one collector is on the stack, with at most the calls above it that its phase makes; a last release is on the top.
* `Wired`: objects and slots know each other, and all other slots are listed once.
* `HeapInv`, `FrameInv`: nothing refers to memory that was given back; an object whose properties are destroyed is
  referred to by nobody but the call that does it, or it is garbage that the collector has passed; what calls may assume of their object.
* `ColorInv`: which colours and tags there are in each phase, and on which side of `idx`.
* `CountInv`: a count is the number of references *without those of the objects in* `Taken`: the grey objects
  that are no longer on the stack while marking, the grey and white ones and those on `gc_scan_black()`'s stack while scanning, the white
  ones and those on the stack while collecting. `RefcountExact` follows, as `Taken` is empty outside.
* `FoundInv`: variables, calls and the buffer lead to every object. `GarbageIsFound` follows.
* `MarkInv`, `ScanInv`, `CollectInv`: what is grey is closed under references when marking ends; what is black when
  scanning ends is in use; what is white or in the buffer then is referred to by its like only.
* `GarbageInv`: what is tagged garbage is referred to by garbage only, or is about to be removed because an object with a destructor
  leads to it; so destructors never get at it. `NoDangling` follows.
* `AllInv`: in a run without destructors whatever is not tagged is in use. `CollectsAll` follows.

The proof has a lemma `...Keeps` for each action. They rest on lemmas about the data: `CompactWired` (that `gc_compact()`
moves each entry to one free slot: `Ranks` counts the free slots before and the used ones behind), `EnterIs`, `RemoveIs`, `SweepIs`, and the
lemmas `Refs...` on what one reference more or less does to a cardinality. No induction over data is needed although the
traversals are about reachability: `Reach(S)` is the intersection of all closed sets around `S`, so that to show an object in it is to show it in any closed
set, and to show one outside is to name a closed set (`LeadsStep`, `LeadsAround`, `LeadsMore`). `DestructorsRunOnce` looks at each action's
effect on the top of the stack (`NextStarts`).

**Only model-checked.** `Terminates`, `Heals` and `RestartHappens`: liveness under fairness is out of the prover's reach. Every
other property of a passing run is stated by a theorem. The theorems about `DepsUpdate` assume no fairness;
`DepsService` promises none.

## 11. What the models found

Runs with `expect: violation` show where the code does not do what its
comments say; `findings` in `PROJECT.json` quotes them:

1. `PgoInitLeaks`: an initialization's data gets into the profile.
2. `OpcacheReaders`: `opcache_invalidate()` may search the table while it is emptied.

More such disagreements can be seen by giving an existing run other constants. They bound what the passing
runs claim, and there is no run for them:

| change | what fails | why |
|---|---|---|
| DepsCrash with two processes, `Commands <- Updates`, `Events = {"crash"}` | `AllClearIsTrue` | the comparison (`Manager.php:57`) is not repeated under the lock: a process that was overtaken by a whole update installs again and, if killed, leaves a partial directory that `--check` calls up to date |
| DepsCrash with `Events = {"publish"}` | `AllClearIsTrue` | the list is fetched again to be saved (`Manager.php:136`) and may be newer than the packages |
| DepsCrash with `Events = {"crash", "removeDeps"}` | `AllClearIsTrue` | the saved list (`Series.php:89`) outlives the directory that the user removes; an update that is killed after that leaves a partial directory, and `--check` calls it up to date |
| DepsCrash with `Events = {"sameMinute"}`, `MaxMinute = 3` | `NothingLost` | backups are named by the minute (`Manager.php:101`); the second of one minute replaces the first |
| DepsUpdate with two processes, `Events = {"fs"}`, `MaxMinute = 3` | `WaiterReportTrue` | a waiter reports success (`Manager.php:64`) without looking whether the update it waited for failed |

The same reading of the code showed more: `--train`, `--up` or `--down` on a fresh checkout fails, but makes the work directory, which is all that
`--ready` looks at (`PGO/Config.php:29`, 73); `unlock()` leaves
`$locked` set (section 3); the cached list of branches, which the comment at `Config.php:161` means to be used when a
fetch fails, never is (section 4); a download that failed
for good counts as an empty package, and the update still reports success
(`Fetcher.php:57`, `Manager.php:139`); a `--check` without a network reports updates (exit
code 7), as the list looks changed; a forced update takes no lock
(`Manager.php:56`), and killed in the middle it leaves a partial directory at once; two
spellings of one path are two locks (`Lock.php:15`); saved lists are kept per branch, CRT,
architecture and stability, but the directory is one; a second `--init` wipes the configuration
before it waits for the first one (`PGO/Config.php:43`); who waited for an
initialization reports that it finished, whatever became of it (`Controller.php:89`); a tool
copied from a broken file of the package cache stays broken (section 7); a script looked up before the process
counted itself may be emptied under it (section 8).

## 12. What is not modelled

See `components` in `PROJECT.json`. Of the SDK's own code: `--pack`, the
retry and write loops, the tree operations beyond one level, the allocation of ports and the template variables of
`nginx.conf`; PostgreSQL, `PHP/CLI`, `dllmap`, the batch files and `task.c` have no state that is shared or kept.

Of `phpdev/`: everything but opcache's restarts and the collector. These
1.3 million lines are almost all of the lines of the repository, and a model of a share of them worth naming is out of reach: most are generated (`zend_vm_execute.h`, `parse_date.c`), tables,
or bindings of libraries, and sequential functions from values to values, which a
specification would repeat rather than check. The two parts chosen are those where steps of several actors
meet: processes on one memory, and destructors within a collection. Others of that kind, not modelled, are fibers, the
thread-safe resource manager and the JIT's shared buffer; `swoole` with its own scheduler is an extension
that only lies beside PHP's.

Contents of files, messages, exit codes other than those
of `--check` and `--ready`, and the wording of configuration files are abstracted throughout.
