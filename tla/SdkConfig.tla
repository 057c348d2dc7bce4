------------------------------ MODULE SdkConfig ------------------------------
(***************************************************************************)
(* SDK\Config (lib/php/libsdk/SDK/Config.php) as bin/phpsdk_deps.php uses  *)
(* it: from the options, the environment and the list of series that the   *)
(* server offers, one command finds the series it works on, or refuses.    *)
(*                                                                         *)
(* The class keeps everything in static properties that are filled when    *)
(* they are first asked for; None is NULL.  A list of series is a set of   *)
(* records: the nested arrays of $knownBranches hold the same.             *)
(***************************************************************************)
CONSTANTS
    Branch,        \* branch names
    Crt,           \* CRT names, vc15, vs16, ...
    None,          \* NULL, or an option or environment variable not given
    Options,       \* the command lines
    Environments,  \* the environments the commands are run in
    Listings       \* what the server's directory of series may list

Arch == {"x64", "x86"}
Stability == {"stable", "staging"}
Series == [branch: Branch, crt: Crt, arch: Arch, stability: Stability]

(* The switches of phpsdk_deps; "unknown" stands for any value that the    *)
(* setter does not know, cmd says whether one of -c, -u and -p is there.   *)
Option ==
    [branch: Branch \cup {None}, crt: Crt \cup {None},
     arch: Arch \cup {None, "unknown"}, stability: Stability \cup {None, "unknown"},
     deps: BOOLEAN, force: BOOLEAN, cmd: BOOLEAN]

(* What the guesses look at: rmtools, PHP_RMTOOLS_PHP_BUILD_BRANCH is      *)
(* "master"; version, the version in main/php_version.h of the current     *)
(* directory or beside phpize; onMaster, git's current branch is master;   *)
(* vs and arch, PHP_SDK_VS and PHP_SDK_ARCH; cl, what cl.exe compiles for; *)
(* places, what the current directory says about the dependencies.         *)
Environment ==
    [rmtools: BOOLEAN, version: Branch \cup {None, "unreadable"}, onMaster: BOOLEAN,
     vs: Crt \cup {None}, arch: Arch \cup {None, "unknown"}, cl: Arch \cup {None},
     places: SUBSET {"makefile", "parent", "source"}]

ASSUME SdkConfigAssumption ==
    /\ "master" \in Branch
    /\ None \notin Branch \cup Crt \cup Arch \cup Stability
                   \cup {"unreadable", "unknown", "option", "makefile", "parent"}
    /\ "unreadable" \notin Branch
    /\ Options \subseteq Option
    /\ Environments \subseteq Environment
    /\ \A e \in Environments : "source" \in e.places => e.version # None
    /\ Listings \subseteq SUBSET Series

Paths == {"option", "makefile", "parent"}

VARIABLES
    opt, env,    \* the command line and the environment of the command
    phase,       \* how far phpsdk_deps.php has come
    known,       \* $knownBranches
    branch, crt, arch, stability,   \* $currentBranchName, ...
    path,        \* $depsLocalPath
    data,        \* $branch_data of phpsdk_deps.php
    used,        \* the series the command has downloaded or saved a list of
    listing,     \* what the server lists now
    cached       \* cached[path]: the file known_branches.txt for that directory

statics == <<known, branch, crt, arch, stability, path>>
vars == <<opt, env, phase, statics, data, used, listing, cached>>

Phases == {"options", "branch", "arch", "crt", "active", "resolve",
           "work", "done", "refused"}

TypeOK ==
    /\ opt \in Options /\ env \in Environments
    /\ phase \in Phases
    /\ known \subseteq Series
    /\ branch \in Branch \cup {None} /\ crt \in Crt \cup {None}
    /\ arch \in Arch \cup {None} /\ stability \in Stability \cup {None}
    /\ path \in Paths \cup {None}
    /\ data \in Series \cup {None}
    /\ used \subseteq Series
    /\ listing \in Listings
    /\ cached \in [Paths -> SUBSET Series]

Init ==
    /\ opt \in Options /\ env \in Environments
    /\ phase = "options"
    /\ known = {} /\ data = None /\ used = {}
    /\ branch = None /\ crt = None /\ arch = None /\ stability = None /\ path = None
    /\ listing \in Listings
    /\ \E list \in Listings : cached = [p \in Paths |-> list]

-----------------------------------------------------------------------------
(* An exception that nobody catches, or usage().                           *)
Refuse ==
    /\ phase' = "refused"
    /\ UNCHANGED <<opt, env, statics, data, used, listing, cached>>

Continue(from, to) ==
    /\ phase = from
    /\ phase' = to
    /\ UNCHANGED <<opt, env, data, used, listing>>

(* The loop over the switches, with the setters of Config: an unknown      *)
(* architecture or stability is refused at once.                           *)
ReadOptions ==
    IF opt.arch = "unknown" \/ opt.stability = "unknown"
      THEN phase = "options" /\ Refuse
      ELSE /\ Continue("options", "branch")
           /\ arch' = opt.arch /\ stability' = opt.stability /\ crt' = opt.crt
           /\ path' = IF opt.deps THEN "option" ELSE None
           /\ UNCHANGED <<known, branch, cached>>

(* guessCurrentBranchName().  A header is looked at first; whether git     *)
(* says master matters only beside a header.                               *)
Guess ==
    IF env.rmtools THEN "master"
    ELSE IF env.version = None THEN None
    ELSE IF env.onMaster THEN "master"
    ELSE IF env.version = "unreadable" THEN None ELSE env.version

(* getDepsLocalPath(): what -d said, else the directory that the Makefile  *)
(* names, else ../deps, if it exists or the current directory is that of   *)
(* the PHP sources.                                                        *)
DepsPath ==
    IF path # None THEN path
    ELSE IF "makefile" \in env.places THEN "makefile"
    ELSE IF env.places # {} THEN "parent" ELSE None

Named(list) == {s.branch : s \in list}
Crts(list) == {s.crt : s \in {x \in list : x.branch = branch}}

(* A variant that asks the server every time.                              *)
RememberedNot == listing

(* getKnownBranches() after the first call.                                *)
Remembered == known

(* A variant of ChooseBranch that takes over any name.                     *)
ChooseBranchUnchecked ==
    LET name == IF opt.branch # None THEN opt.branch ELSE Guess IN
    /\ name # None /\ DepsPath # None /\ listing # {}
    /\ Continue("branch", "arch")
    /\ path' = DepsPath
    /\ known' = listing
    /\ cached' = [cached EXCEPT ![DepsPath] = listing]
    /\ branch' = name
    /\ UNCHANGED <<crt, arch, stability>>

(* The branch is that of -b or the guessed one, and setCurrentBranchName() *)
(* asks getKnownBranches() for the first time.  A download that fails, or  *)
(* a page without a series, gives an empty list (getByUri() turns its      *)
(* false into "", so the cached list is never looked at); another one is   *)
(* written to the cache, or breaks off there and leaves an empty file.     *)
ChooseBranch ==
    LET name == IF opt.branch # None THEN opt.branch ELSE Guess IN
    \/ /\ phase = "branch"     \* no name, no directory or no list
       /\ Refuse
    \/ /\ phase = "branch" /\ name # None /\ DepsPath # None /\ listing # {}
       /\ phase' = "refused"
       /\ cached' = [cached EXCEPT ![DepsPath] = {}]
       /\ UNCHANGED <<opt, env, statics, data, used, listing>>
    \/ /\ name # None /\ DepsPath # None /\ listing # {}
       /\ path' = DepsPath
       /\ known' = listing
       /\ cached' = [cached EXCEPT ![DepsPath] = listing]
       /\ IF name \in Named(listing)
            THEN Continue("branch", "arch") /\ branch' = name
            ELSE Continue("branch", "refused") /\ UNCHANGED branch
       /\ UNCHANGED <<crt, arch, stability>>

(* Without a command: the usage text, and exit code 0.                     *)
Usage ==
    /\ ~opt.cmd
    /\ Continue("arch", "done")
    /\ UNCHANGED <<statics, cached>>

(* getCurrentArchName(): what -a said, else PHP_SDK_ARCH, which must be a  *)
(* known one, else what cl.exe compiles for.                               *)
GetArch ==
    LET found == IF arch # None THEN arch ELSE IF env.arch # None THEN env.arch ELSE env.cl IN
    /\ opt.cmd
    /\ \/ /\ found \in Arch
          /\ Continue("arch", "crt")
          /\ arch' = found
          /\ UNCHANGED <<known, branch, crt, stability, path, cached>>
       \/ phase = "arch" /\ found \notin Arch /\ Refuse

(* getCurrentCrtName(): what -t said, else PHP_SDK_VS, else the only CRT   *)
(* that the branch has.                                                    *)
GetCrt ==
    LET found == IF crt # None THEN {crt} ELSE IF env.vs # None THEN {env.vs} ELSE Crts(Remembered) IN
    \/ \E c \in Crt :
         /\ found = {c}
         /\ Continue("crt", "active")
         /\ crt' = c
         /\ UNCHANGED <<known, branch, arch, stability, path, cached>>
    \/ /\ phase = "crt" /\ \A c \in Crt : found # {c}
       /\ Refuse

(* The CRT of the shell must be the one found, but for --force.            *)
CheckActive ==
    \/ /\ crt = env.vs \/ opt.force
       /\ Continue("active", "resolve")
       /\ UNCHANGED <<statics, cached>>
    \/ phase = "active" /\ crt # env.vs /\ ~opt.force /\ Refuse

(* A variant that knows no exception for master.                           *)
StabilityNameStable == IF stability # None THEN stability ELSE "stable"

(* getCurrentStabilityName().                                              *)
StabilityName ==
    IF stability # None THEN stability
    ELSE IF branch = "master" THEN "staging" ELSE "stable"

(* A variant that takes the only CRT of a branch without comparing it.     *)
BranchDataAnyCrt ==
    {s \in Remembered : /\ s.branch = branch
                        /\ s.crt = crt \/ Crts(Remembered) = {s.crt}
                        /\ s.arch = arch
                        /\ s.stability = StabilityName}

(* getCurrentBranchData(): the CRT must be one of the branch, and among    *)
(* its series one must have the architecture and the stability.            *)
BranchData ==
    {s \in Remembered : /\ s.branch = branch
                        /\ s.crt = crt
                        /\ s.arch = arch
                        /\ s.stability = StabilityName}

Resolve ==
    \/ \E s \in BranchData :
         /\ phase = "resolve" /\ phase' = "work"
         /\ data' = s
         /\ stability' = StabilityName
         /\ UNCHANGED <<opt, env, known, branch, crt, arch, path, used, listing, cached>>
    \/ phase = "resolve" /\ BranchData = {} /\ Refuse

(* Series::getName(), for the address to download the list from and for    *)
(* the file to save it in: the CRT is found anew each time, architecture   *)
(* and stability are those given to Manager and Series.                    *)
UseName ==
    /\ phase = "work"
    /\ IF BranchData = {}
         THEN Refuse
         ELSE \E s \in BranchData :
                /\ used' = used \cup {[branch |-> branch, crt |-> s.crt, arch |-> data.arch,
                                       stability |-> data.stability]}
                /\ UNCHANGED <<opt, env, phase, statics, data, listing, cached>>

Finish ==
    /\ Continue("work", "done")
    /\ UNCHANGED <<statics, cached>>

(* The server lists other series than before.                              *)
Publish ==
    /\ listing' \in Listings
    /\ UNCHANGED <<opt, env, phase, statics, data, used, cached>>

Next ==
    \/ ReadOptions \/ ChooseBranch \/ Usage \/ GetArch \/ GetCrt \/ CheckActive
    \/ Resolve \/ UseName \/ Finish \/ Publish

Spec == Init /\ [][Next]_vars

-----------------------------------------------------------------------------
(* What the user asked for, said without the order in which the code       *)
(* looks: an option counts more than the environment, and that more than   *)
(* a default.                                                              *)
WantedBranch == IF opt.branch # None THEN opt.branch ELSE Guess
WantedArch ==
    IF opt.arch # None THEN opt.arch ELSE IF env.arch # None THEN env.arch ELSE env.cl
WantedStability ==
    IF opt.stability # None THEN opt.stability
    ELSE IF WantedBranch = "master" THEN "staging" ELSE "stable"

Wanted(s) ==
    /\ s.branch = WantedBranch /\ s.arch = WantedArch /\ s.stability = WantedStability
    /\ opt.crt # None => s.crt = opt.crt
    /\ opt.crt = None /\ env.vs # None => s.crt = env.vs
    /\ ~opt.force => s.crt = env.vs

Candidates == {s \in known : Wanted(s)}

(* Nobody said which CRT, and the branch has several.                      *)
Ambiguous ==
    /\ opt.crt = None /\ env.vs = None
    /\ \E s, t \in known : s.branch = WantedBranch /\ t.branch = WantedBranch /\ s.crt # t.crt

(* A command that goes to work does so on the one series that its options  *)
(* and its environment ask for (Config.php:255, built up lazily by five    *)
(* getters from three sources).                                            *)
ResolvesRight == phase = "work" => Candidates = {data}

(* A command that refuses has a reason: no known series is what was asked  *)
(* for, or the CRT is left open (the exceptions of Config.php:46-315 and   *)
(* phpsdk_deps.php:99-132).                                                *)
RefusesRight == phase = "refused" => Candidates = {} \/ Ambiguous

(* Whatever the server publishes meanwhile, a command at work is not       *)
(* refused any more, and all lists it downloads and saves are of the       *)
(* series that it announced (Series.php:45 asks Config again every time).  *)
OneSeries == [][phase = "work" => phase' # "refused" /\ used' \subseteq {data}]_vars

(* The inductive invariant: what each static property holds in each phase. *)
Settled ==
    /\ phase \notin {"options", "branch", "refused"} =>
          /\ branch = WantedBranch /\ branch \in Named(known)
          /\ path # None /\ cached[path] = known
    /\ phase # "options" /\ phase # "refused" =>
          opt.arch # "unknown" /\ opt.stability # "unknown"
    /\ phase \in {"branch", "arch"} => arch = opt.arch
    /\ phase \in {"crt", "active", "resolve", "work"} => arch = WantedArch
    /\ phase \in {"branch", "arch", "crt"} => crt = opt.crt
    /\ phase \in {"active", "resolve", "work"} =>
          /\ crt # None
          /\ opt.crt # None => crt = opt.crt
          /\ opt.crt = None /\ env.vs # None => crt = env.vs
          /\ opt.crt = None /\ env.vs = None => Crts(known) = {crt}
    /\ phase \in {"resolve", "work"} => crt = env.vs \/ opt.force
    /\ phase \in {"branch", "arch", "crt", "active", "resolve"} => stability = opt.stability
    /\ phase = "work" => stability = WantedStability /\ data \in BranchData
    /\ phase \in {"options", "branch"} => known = {}
    /\ phase \notin {"work", "done", "refused"} => used = {}
    /\ used \subseteq {data}

ConfigInv == TypeOK /\ Settled /\ ResolvesRight /\ RefusesRight
=============================================================================
