--------------------------- MODULE PgoController ---------------------------
(***************************************************************************)
(* The PGO training tool: phpsdk_pgo --init, --train, --up, --down and     *)
(* --ready on one SDK and one instrumented PHP build (SDK\Build\PGO\       *)
(* {Controller, Config, TrainingCaseIterator}, its servers, Tool\PGO,      *)
(* Tool\Training and the training cases).                                  *)
(*                                                                         *)
(* --init and --train take locks of different names, so Tag[p] says which  *)
(* of the two process p may run; --up, --down and --ready take none.  All  *)
(* commands share the directory pgo/work, the machine's php-cgi, nginx and *)
(* mysqld processes and the profile files beside the PHP build.            *)
(*                                                                         *)
(* Profile data is the set of the sources it was collected from: the name  *)
(* of a case for its training, "other" for what PHP does when it starts or *)
(* when an initialization uses it.                                         *)
(***************************************************************************)
EXTENDS FileLock, Integers, Sequences, FiniteSets

CONSTANTS
    Cases,       \* the active training cases as glob() returns them
    Commands,    \* the command lines in use, see Command
    MaxRunning,  \* bound: how many commands run at a time
    Beside,      \* bound: the sets of commands that run beside each other
    MaxPgc,      \* bound: nothing is broken off while so many .pgc files exist
    Faults       \* what may go wrong, see FaultKinds

Case == {Cases[i] : i \in DOMAIN Cases}

Command == [cmd : {"init", "train", "up", "down", "check_init"},
            force : BOOLEAN, want : SUBSET Case]

FaultKinds == {
    "fail",   \* a step throws an exception
    "site",   \* an installed application does not answer with a page
    "crash"}  \* a process is killed

ASSUME PgoAssumption ==
    /\ TagSet \subseteq {"pgo_init", "pgo_train"}
    /\ Cases \in Seq(Case)
    /\ Case \cap {"main", "other"} = {}
    /\ Commands \subseteq Command /\ Commands # {}
    /\ Faults \subseteq FaultKinds

Source == Case \cup {"other"}
Port == Case \cup {"main"}           \* of nginx: its own, one for each case
Sections == [Case -> {"none", "template", "generated"}]
NoFiles == [i \in {} |-> {}]
NoReport == [p \in Process |-> ""]
NoSections == [c \in Case |-> "none"]
NoCommand == CHOOSE c \in Commands : TRUE   \* of an idle process, never read

VARIABLES
    workDir,    \* whether the directory pgo/work exists
    confFile,   \* whether work/phpsdk_pgo.json exists, with all its
                \* sections of the servers and of PHP
    conf,       \* conf[c]: the section of case c in it
    vhosts,     \* the cases that nginx.conf has a server for
    job,        \* job[c]: the URL list of case c
    php,        \* whether instrumented php-cgi processes are running
    serving,    \* the ports that nginx processes listen on
    mysqld,     \* whether MariaDB is running
    counters,   \* profile data in the memory of the php-cgi processes
    pgc,        \* the .pgc files: their data by the index in the name
    pgd,        \* the data in the .pgd file
    pc,         \* pc[p]: the phase process p is in
    opt,        \* opt[p]: its command line
    mem,        \* mem[p]: the case sections of its Config object
    todo,       \* todo[p]: the cases its current loop has still to visit
    idx,        \* idx[p]: the index of the .pgc file it works on
    report,     \* report[p]: how its command ended, if the latest step
                \* ended it, and "" otherwise
    disturbed   \* disturbed[p]: history, whether a command was running at
                \* some time of p's that p's lock does not keep away

work == <<workDir, confFile, conf, vhosts, job>>
servers == <<php, serving, mysqld>>
profile == <<counters, pgc, pgd>>
locals == <<opt, mem, todo, idx, disturbed>>
pgoVars == <<work, servers, profile, pc, locals, report>>
vars == <<pgoVars, lockVars>>

InitPhases == {"prepare", "setupNginx", "stopNginx", "stopMaria", "cases",
               "installUp", "installDown", "urlsUp", "urlsDown"}
TrainPhases == {"waste", "clean", "train", "sweep", "merge"}
UpDownPhases == {"upPhp", "upNginx", "upMaria", "downPhp", "downNginx", "downMaria"}
Phases == {"idle", "check", "begin", "mkdir", "config", "lock", "wait", "waited"}
          \cup InitPhases \cup TrainPhases \cup UpDownPhases

Outcomes == {"", "ready", "notready", "initialized", "byother", "trained",
             "up", "down", "error", "killed"}

WorkTypeOK ==
    /\ workDir \in BOOLEAN /\ confFile \in BOOLEAN
    /\ conf \in Sections
    /\ vhosts \subseteq Case
    /\ job \in [Case -> {"none", "empty", "urls"}]

ServersTypeOK ==
    /\ php \in BOOLEAN /\ mysqld \in BOOLEAN
    /\ serving \subseteq Port

ProfileTypeOK ==
    /\ counters \subseteq Source
    /\ DOMAIN pgc \subseteq Nat
    /\ \A i \in DOMAIN pgc : pgc[i] \subseteq Source
    /\ pgd \subseteq Source

TypeOK ==
    /\ LockTypeOK
    /\ WorkTypeOK
    /\ ServersTypeOK
    /\ ProfileTypeOK
    /\ pc \in [Process -> Phases]
    /\ opt \in [Process -> Commands]
    /\ mem \in [Process -> Sections]
    /\ todo \in [Process -> Seq(Case)]
    /\ idx \in [Process -> Nat]
    /\ report \in [Process -> Outcomes]
    /\ disturbed \in [Process -> BOOLEAN]

(* A fresh checkout, or an environment that was initialized; the .pgd file *)
(* may hold the data of an earlier training.                               *)
Init ==
    /\ LockInit
    /\ \/ /\ workDir = FALSE /\ confFile = FALSE
          /\ conf = NoSections
          /\ vhosts = {}
          /\ job = [c \in Case |-> "none"]
       \/ /\ workDir = TRUE /\ confFile = TRUE
          /\ conf = [c \in Case |-> "generated"]
          /\ vhosts = Case
          /\ job = [c \in Case |-> "urls"]
    /\ php = FALSE /\ mysqld = FALSE
    /\ serving = {}
    /\ counters = {} /\ pgc = NoFiles
    /\ pgd \in {{}, Case}
    /\ pc = [p \in Process |-> "idle"]
    /\ opt = [p \in Process |-> NoCommand]
    /\ mem = [p \in Process |-> NoSections]
    /\ todo = [p \in Process |-> << >>]
    /\ idx = [p \in Process |-> 0]
    /\ report = NoReport
    /\ disturbed = [p \in Process |-> FALSE]

-----------------------------------------------------------------------------
Cmd(p) == opt[p].cmd
Silent == report' = NoReport
Goto(p, phase) == pc' = [pc EXCEPT ![p] = phase] /\ Silent

(* The process ends, its lock with it: Controller::handle has the Lock     *)
(* object in a local variable.                                             *)
Leave(p, outcome) ==
    /\ pc' = [pc EXCEPT ![p] = "idle"]
    /\ report' = [NoReport EXCEPT ![p] = outcome]
    /\ opt' = [opt EXCEPT ![p] = NoCommand]
    /\ mem' = [mem EXCEPT ![p] = NoSections]
    /\ todo' = [todo EXCEPT ![p] = << >>]
    /\ idx' = [idx EXCEPT ![p] = 0]
    /\ disturbed' = [disturbed EXCEPT ![p] = FALSE]

End(p, outcome) ==
    /\ Leave(p, outcome)
    /\ IF status[p] = "none" THEN UNCHANGED lockVars ELSE Destruct(p)

(* Whether a command that runs beside cmd may spoil its work: trainings    *)
(* exclude each other, nothing else that writes is kept away.              *)
Disturbs(other, cmd) ==
    /\ other # "check_init"
    /\ ~(other = "train" /\ cmd = "train")

Running == {q \in Process : pc[q] # "idle"}

(* phpsdk_pgo starts.                                                      *)
Start(p) ==
    /\ pc[p] = "idle"
    /\ Cardinality(Running) < MaxRunning
    /\ \E c \in Commands :
        /\ c.cmd = "init" => Tag[p] = "pgo_init"
        /\ c.cmd = "train" => Tag[p] = "pgo_train"
        /\ \A q \in Running : {Cmd(q), c.cmd} \in Beside
        /\ opt' = [opt EXCEPT ![p] = c]
        /\ pc' = [pc EXCEPT ![p] = IF c.cmd = "check_init" THEN "check" ELSE "begin"]
        /\ disturbed' = [q \in Process |->
             IF q = p THEN \E r \in Running : Disturbs(Cmd(r), c.cmd)
             ELSE disturbed[q] \/ (q \in Running /\ Disturbs(c.cmd, Cmd(q)))]
    /\ Silent
    /\ UNCHANGED <<work, servers, profile, mem, todo, idx, lockVars>>

(* --ready: the exit code is isInitialized(), that is, is_dir().           *)
CheckInit(p) ==
    /\ pc[p] = "check"
    /\ End(p, IF workDir THEN "ready" ELSE "notready")
    /\ UNCHANGED <<work, servers, profile>>

-----------------------------------------------------------------------------
(* The constructor of PGO\Config, run before any lock is taken: it makes   *)
(* the work directory if it does not see it ...                            *)
Construct(p) ==
    /\ pc[p] = "begin"
    /\ Goto(p, IF workDir THEN "config" ELSE "mkdir")
    /\ UNCHANGED <<work, servers, profile, locals, lockVars>>

(* ... which throws if another process made it meanwhile, ...              *)
InitWorkDir(p) ==
    /\ pc[p] = "mkdir"
    /\ IF workDir
         THEN End(p, "error") /\ UNCHANGED workDir
         ELSE workDir' = TRUE /\ Goto(p, "config") /\ UNCHANGED <<locals, lockVars>>
    /\ UNCHANGED <<confFile, conf, vhosts, job, servers, profile>>

(* ... then replaces the file by the sections of the templates (--init)    *)
(* or reads it (every other command).                                      *)
LoadConfig(p) ==
    /\ pc[p] = "config"
    /\ \/ /\ Cmd(p) = "init"
          /\ confFile' = TRUE /\ conf' = NoSections
          /\ Goto(p, "lock")
          /\ UNCHANGED <<locals, lockVars>>
       \/ /\ Cmd(p) # "init" /\ confFile
          /\ mem' = [mem EXCEPT ![p] = conf]
          /\ Goto(p, CASE Cmd(p) = "train" -> "lock"
                       [] Cmd(p) = "up" -> "upPhp"
                       [] OTHER -> "downPhp")
          /\ UNCHANGED <<confFile, conf, opt, todo, idx, disturbed, lockVars>>
       \/ /\ Cmd(p) # "init" /\ ~confFile
          /\ End(p, "error")
          /\ UNCHANGED <<confFile, conf>>
    /\ UNCHANGED <<workDir, vhosts, job, servers, profile>>

(* dump(): all sections of the Config object of p go to the file.          *)
Dump(p) == conf' = mem'[p]

(* setSectionItem() changes one section and dumps them all.                *)
SetSection(p, c, value) ==
    /\ mem' = [mem EXCEPT ![p][c] = value]
    /\ Dump(p)

ImportSection(p, c) == SetSection(p, c, "template")

(* Port, host and credentials of a case, where it has none yet.            *)
GenerateSection(p, c) == SetSection(p, c, "generated")

(* TrainingCaseIterator::current: a case without a section gets that of    *)
(* its template.                                                           *)
Current(p, c) ==
    IF mem[p][c] = "none" THEN ImportSection(p, c) ELSE UNCHANGED <<mem, conf>>

-----------------------------------------------------------------------------
(* What Controller::handle does with the lock it got: init() or train().   *)
Section(p) == IF Cmd(p) = "init" THEN "prepare" ELSE "upPhp"

(* A variant of TakeLock that does not ask locked().                       *)
TakeLockUnchecked(p) ==
    /\ pc[p] = "lock"
    /\ New(p, "ex")
    /\ Goto(p, Section(p))
    /\ todo' = [todo EXCEPT ![p] = Cases]
    /\ UNCHANGED <<work, servers, profile, opt, mem, idx, disturbed>>

TakeLock(p) ==
    /\ pc[p] = "lock"
    /\ New(p, "ex")
    /\ \/ /\ Locked(p)'
          /\ Goto(p, Section(p))
          /\ todo' = [todo EXCEPT ![p] = Cases]
       \/ /\ ~Locked(p)'
          /\ Goto(p, "wait")
          /\ UNCHANGED todo
    /\ UNCHANGED <<work, servers, profile, opt, mem, idx, disturbed>>

WaitForOther(p) ==
    /\ pc[p] = "wait"
    /\ Request(p, "ex", TRUE)
    /\ Goto(p, "waited")
    /\ UNCHANGED <<work, servers, profile, locals>>

OSGrant(p) ==
    /\ Grant(p)
    /\ Silent
    /\ UNCHANGED <<work, servers, profile, pc, locals>>

(* Who waited for another initialization quits, who waited for another     *)
(* training goes on with its own.                                          *)
WaitOver(p) ==
    /\ pc[p] = "waited"
    /\ Locked(p)
    /\ \/ /\ Cmd(p) = "init"
          /\ End(p, "byother")
       \/ /\ Cmd(p) = "train"
          /\ Goto(p, Section(p))
          /\ todo' = [todo EXCEPT ![p] = Cases]
          /\ UNCHANGED <<opt, mem, idx, disturbed, lockVars>>
    /\ UNCHANGED <<work, servers, profile>>
-----------------------------------------------------------------------------
(* The servers.  A second php-cgi joins the first, whose data remains, a   *)
(* second mysqld gives up.  A second nginx serves beside the first: "-s    *)
(* quit" then reaches one of the two only.                                 *)
StartPhp == php' = TRUE /\ counters' = counters \cup {"other"}
KillPhp == php' = FALSE /\ counters' = {}       \* taskkill /f writes no data

StartNginx == serving' = serving \cup vhosts' \cup {"main"}
QuitNginx == serving' \in {{}, serving}
KillNginx == serving' = {}

(* nginx.conf: NGINX::setupDist makes it from the template, addServer adds *)
(* a server to what is there.                                              *)
FreshConf == vhosts' = {}
AddServerToTemplate(c) == vhosts' = {c}   \* a variant that starts anew
AddServer(c) == vhosts' = vhosts \cup {c}

(* PHP answers a request to the site of case c.                            *)
Served(c) == php /\ c \in serving

-----------------------------------------------------------------------------
(* Controller::init, first loop: the packages of a case are fetched, its   *)
(* section is that of the template.                                        *)
PrepareInit(p) ==
    /\ pc[p] = "prepare"
    /\ \/ /\ todo[p] # << >>
          /\ Current(p, Head(todo[p]))
          /\ todo' = [todo EXCEPT ![p] = Tail(@)]
          /\ Silent
          /\ UNCHANGED pc
       \/ /\ todo[p] = << >>
          /\ Goto(p, "setupNginx")
          /\ UNCHANGED <<mem, conf, todo>>
    /\ UNCHANGED <<workDir, confFile, vhosts, job, servers, profile, opt, idx,
                   disturbed, lockVars>>

(* NGINX::init: a fresh nginx.conf without the cases' servers; nginx is    *)
(* started and stopped, and so is MariaDB after it.                        *)
SetupNginx(p) ==
    /\ pc[p] = "setupNginx"
    /\ FreshConf
    /\ StartNginx
    /\ Goto(p, "stopNginx")
    /\ UNCHANGED <<workDir, confFile, conf, job, php, mysqld, profile, locals, lockVars>>

StopNginx(p) ==
    /\ pc[p] = "stopNginx"
    /\ KillNginx
    /\ mysqld' = TRUE
    /\ Goto(p, "stopMaria")
    /\ UNCHANGED <<work, php, profile, locals, lockVars>>

StopMaria(p) ==
    /\ pc[p] = "stopMaria"
    /\ mysqld' = FALSE
    /\ todo' = [todo EXCEPT ![p] = Cases]
    /\ Goto(p, "cases")
    /\ UNCHANGED <<work, php, serving, profile, opt, mem, idx, disturbed, lockVars>>

(* Second loop, TrainingCaseHandler::setupDist: port, credentials and the  *)
(* like are generated into the section, nginx.conf gets the case's server. *)
SetupCase(p) ==
    /\ pc[p] = "cases"
    /\ \/ /\ todo[p] # << >>
          /\ GenerateSection(p, Head(todo[p]))
          /\ AddServer(Head(todo[p]))
          /\ Goto(p, "installUp")
          /\ UNCHANGED <<opt, todo, idx, disturbed, lockVars>>
       \/ /\ todo[p] = << >>
          /\ End(p, "initialized")
          /\ UNCHANGED <<conf, vhosts>>
    /\ UNCHANGED <<workDir, confFile, job, servers, profile>>

(* Servers are started to install the application, and once more to read   *)
(* its pages; the requests leave profile data in php-cgi.                  *)
CaseUp(p) ==
    /\ pc[p] \in {"installUp", "urlsUp"}
    /\ StartPhp
    /\ UNCHANGED work
    /\ StartNginx
    /\ mysqld' = TRUE
    /\ Goto(p, IF pc[p] = "installUp" THEN "installDown" ELSE "urlsDown")
    /\ UNCHANGED <<pgc, pgd, locals, lockVars>>

(* Some cases generate the credentials of the application only then, with  *)
(* another dump() of their section.                                        *)
InstallDown(p) ==
    /\ pc[p] = "installDown"
    /\ conf' \in {conf, mem[p]}
    /\ KillPhp /\ KillNginx /\ mysqld' = FALSE
    /\ Goto(p, "urlsUp")
    /\ UNCHANGED <<workDir, confFile, vhosts, job, pgc, pgd, locals, lockVars>>

(* setupUrls(): the page is read, the servers are stopped, and the links   *)
(* found become the job file: none, with a warning only, if there was no   *)
(* answer.                                                                 *)
UrlsDown(p) ==
    /\ pc[p] = "urlsDown"
    /\ KillPhp /\ KillNginx /\ mysqld' = FALSE
    /\ \/ /\ \E urls \in (IF Served(Head(todo[p])) THEN {"urls"} ELSE {"empty"})
                         \cup (IF "site" \in Faults THEN {"empty"} ELSE {}) :
                job' = [job EXCEPT ![Head(todo[p])] = urls]
          /\ todo' = [todo EXCEPT ![p] = Tail(@)]
          /\ Goto(p, "cases")
          /\ UNCHANGED <<opt, mem, idx, disturbed, lockVars>>
       \/ /\ "fail" \in Faults
          /\ End(p, "error")
          /\ UNCHANGED job
    /\ UNCHANGED <<workDir, confFile, conf, vhosts, pgc, pgd>>

-----------------------------------------------------------------------------
(* Controller::up, of --up and of --train: PHP, nginx, MariaDB.            *)
UpPhp(p) ==
    /\ pc[p] = "upPhp"
    /\ StartPhp
    /\ Goto(p, "upNginx")
    /\ UNCHANGED <<work, serving, mysqld, pgc, pgd, locals, lockVars>>

UpNginx(p) ==
    /\ pc[p] = "upNginx"
    /\ UNCHANGED work
    /\ StartNginx
    /\ Goto(p, "upMaria")
    /\ UNCHANGED <<php, mysqld, profile, locals, lockVars>>

UpMaria(p) ==
    /\ pc[p] = "upMaria"
    /\ mysqld' = TRUE
    /\ IF Cmd(p) = "train"
         THEN Goto(p, "waste") /\ UNCHANGED <<locals, lockVars>>
         ELSE End(p, "up")
    /\ UNCHANGED <<work, php, serving, profile>>

(* A variant of DownPhp that only asks for the shutdown.                   *)
DownPhpLater(p) ==
    /\ pc[p] = "downPhp"
    /\ Goto(p, "downNginx")
    /\ UNCHANGED <<work, servers, profile, locals, lockVars>>

(* Controller::down, of --down and of --train, in the same order; only     *)
(* --down can be forced.                                                   *)
DownPhp(p) ==
    /\ pc[p] = "downPhp"
    /\ KillPhp
    /\ Goto(p, "downNginx")
    /\ UNCHANGED <<work, serving, mysqld, pgc, pgd, locals, lockVars>>

DownNginx(p) ==
    /\ pc[p] = "downNginx"
    /\ IF Cmd(p) = "down" /\ opt[p].force THEN KillNginx ELSE QuitNginx
    /\ Goto(p, "downMaria")
    /\ UNCHANGED <<work, php, mysqld, profile, locals, lockVars>>

DownMaria(p) ==
    /\ pc[p] = "downMaria"
    /\ mysqld' = FALSE
    /\ End(p, IF Cmd(p) = "train" THEN "trained" ELSE "down")
    /\ UNCHANGED <<work, php, serving, profile>>

-----------------------------------------------------------------------------
(* A variant of NextIndex that is off by one.                              *)
LastIndex == Cardinality(DOMAIN pgc) - 1

(* PGO::getWorkItems: the first index for which there is no .pgc file.     *)
NextIndex == CHOOSE i \in 0 .. Cardinality(DOMAIN pgc) : i \notin DOMAIN pgc

(* pgosweep: the data of all running php-cgi goes to a .pgc file, and      *)
(* their counters start anew.                                              *)
SweepCounters(p) ==
    /\ idx' = [idx EXCEPT ![p] = NextIndex]
    /\ IF php
         THEN /\ pgc' = [i \in DOMAIN pgc \cup {NextIndex} |->
                            IF i = NextIndex THEN counters ELSE pgc[i]]
              /\ counters' = {}
         ELSE UNCHANGED <<pgc, counters>>
    /\ UNCHANGED pgd

(* A variant of Waste that leaves the counters alone.                      *)
WasteNothing(p) ==
    /\ pc[p] = "waste"
    /\ Goto(p, "clean")
    /\ UNCHANGED <<work, servers, profile, locals, lockVars>>

(* Controller::train: what the start of PHP left in the counters is swept  *)
(* out, and the files are cleaned.                                         *)
Waste(p) ==
    /\ pc[p] = "waste"
    /\ SweepCounters(p)
    /\ Goto(p, "clean")
    /\ UNCHANGED <<work, servers, opt, mem, todo, disturbed, lockVars>>

Clean(p) ==
    /\ pc[p] = "clean"
    /\ pgc' = NoFiles /\ pgd' = {}
    /\ Goto(p, "train")
    /\ UNCHANGED <<work, servers, counters, locals, lockVars>>

(* Training::runWeb: the URLs in the job file of case c are requested, and *)
(* PHP counts what it does as far as it answers; bad answers are reported, *)
(* and an empty or missing file is passed over.                            *)
RunWeb(c) == IF job[c] = "urls" /\ Served(c) THEN {c} ELSE {}

(* Controller::train, the loop over the cases: a case that is not wanted   *)
(* is passed over, and after the last one the .pgc files go.               *)
RunCase(p) ==
    /\ pc[p] = "train"
    /\ \/ /\ todo[p] # << >>
          /\ Current(p, Head(todo[p]))
          /\ LET c == Head(todo[p]) IN
               \/ /\ c \in opt[p].want
                  /\ counters' = counters \cup RunWeb(c)
                  /\ Goto(p, "sweep")
                  /\ UNCHANGED todo
               \/ /\ c \notin opt[p].want
                  /\ todo' = [todo EXCEPT ![p] = Tail(@)]
                  /\ Silent
                  /\ UNCHANGED <<counters, pc>>
          /\ UNCHANGED pgc
       \/ /\ todo[p] = << >>
          /\ pgc' = NoFiles
          /\ Goto(p, "downPhp")
          /\ UNCHANGED <<mem, conf, todo, counters>>
    /\ UNCHANGED <<workDir, confFile, vhosts, job, servers, pgd, opt, idx,
                   disturbed, lockVars>>

(* PGO::dump: sweep, then merge the file into the .pgd and remove it.      *)
Sweep(p) ==
    /\ pc[p] = "sweep"
    /\ SweepCounters(p)
    /\ Goto(p, "merge")
    /\ UNCHANGED <<work, servers, opt, mem, todo, disturbed, lockVars>>

Merge(p) ==
    /\ pc[p] = "merge"
    /\ pgd' = pgd \cup (IF idx[p] \in DOMAIN pgc THEN pgc[idx[p]] ELSE {})
    /\ pgc' = [i \in DOMAIN pgc \ {idx[p]} |-> pgc[i]]
    /\ todo' = [todo EXCEPT ![p] = Tail(@)]
    /\ Goto(p, "train")
    /\ UNCHANGED <<work, servers, counters, opt, mem, idx, disturbed, lockVars>>

-----------------------------------------------------------------------------
(* A step throws: whatever was started goes on running.  The PHP object is *)
(* made anew by --down, not by the training that is about to end.          *)
Fail(p) ==
    /\ "fail" \in Faults /\ Cardinality(DOMAIN pgc) < MaxPgc
    /\ pc[p] \in {"mkdir", "config", "lock", "wait", "prepare", "setupNginx", "stopNginx",
                  "cases", "installUp", "urlsUp", "upPhp", "upNginx", "upMaria",
                  "downPhp", "waste", "train", "sweep"}
    /\ pc[p] \in {"cases", "train"} => todo[p] # << >>
    /\ pc[p] = "downPhp" => Cmd(p) = "down"
    /\ End(p, "error")
    /\ UNCHANGED <<work, servers, profile>>

(* The process is killed; the servers it started are not.                  *)
Crash(p) ==
    /\ "crash" \in Faults /\ Cardinality(DOMAIN pgc) < MaxPgc
    /\ pc[p] # "idle"
    /\ Leave(p, "killed")
    /\ Killed(p)
    /\ UNCHANGED <<work, servers, profile>>

Initialize(p) ==
    \/ PrepareInit(p) \/ SetupNginx(p) \/ StopNginx(p) \/ StopMaria(p)
    \/ SetupCase(p) \/ CaseUp(p) \/ InstallDown(p) \/ UrlsDown(p)

Train(p) == Waste(p) \/ Clean(p) \/ RunCase(p) \/ Sweep(p) \/ Merge(p)

UpDown(p) ==
    \/ UpPhp(p) \/ UpNginx(p) \/ UpMaria(p)
    \/ DownPhp(p) \/ DownNginx(p) \/ DownMaria(p)

Next == \E p \in Process :
    \/ Start(p) \/ CheckInit(p)
    \/ Construct(p) \/ InitWorkDir(p) \/ LoadConfig(p)
    \/ TakeLock(p) \/ WaitForOther(p) \/ OSGrant(p) \/ WaitOver(p)
    \/ Initialize(p) \/ Train(p) \/ UpDown(p)
    \/ Fail(p) \/ Crash(p)

Spec == Init /\ [][Next]_vars

-----------------------------------------------------------------------------
Ends(p, outcome) == report'[p] = outcome

(* A training that no other kind of command disturbed leaves exactly the   *)
(* data of the cases it was to run, as far as their sites work, whatever   *)
(* servers, counters and profile files were left by commands that failed   *)
(* or were killed (Controller.php:198).                                    *)
TrainedExactly ==
    [][\A p \in Process : Ends(p, "trained") /\ ~disturbed[p] =>
         /\ pgd' \subseteq opt[p].want
         /\ \A c \in opt[p].want : job[c] = "urls" /\ c \in vhosts => c \in pgd'
         /\ DOMAIN pgc' = {}]_vars

(* It also stops what it started (phpsdk_pgo.php:109).                     *)
ServersStopped ==
    [][\A p \in Process : Ends(p, "trained") /\ ~disturbed[p] =>
         ~php' /\ ~mysqld']_vars

(* An initialization that completes has made the server and the job file   *)
(* of every case, whatever ran beside it; if nothing did, the generated    *)
(* sections are in the file as well (Controller.php:151).                  *)
InitComplete ==
    [][\A p \in Process : Ends(p, "initialized") =>
         /\ \A c \in Case : c \in vhosts' /\ job'[c] # "none"
         /\ ~disturbed[p] => \A c \in Case : conf'[c] = "generated"]_vars

(* The two sections of Controller::handle are entered by one process at a  *)
(* time, which has the lock on its handle, and nobody else keeps it.       *)
Holding(p) ==
    \/ pc[p] \in InitPhases \cup TrainPhases
    \/ pc[p] \in UpDownPhases /\ Cmd(p) = "train"
LockUse ==
    /\ \A p \in Process :
         /\ Holding(p) => status[p] = "locked"
         /\ pc[p] = "wait" => status[p] = "unlocked"
         /\ pc[p] = "waited" => status[p] \in {"waiting", "locked"}
         /\ ~Holding(p) /\ pc[p] \notin {"wait", "waited"} => status[p] = "none"
    /\ \A p, q \in Process :
         Holding(p) /\ Holding(q) /\ Tag[p] = Tag[q] => p = q

(* What the comment at Controller.php:198 claims of every training: "any   *)
(* data created during init or startup is wasted".                         *)
InitDataWasted ==
    [][\A p \in Process : Ends(p, "trained") =>
         "other" \notin pgd']_vars
=============================================================================
