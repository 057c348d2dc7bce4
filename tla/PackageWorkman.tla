--------------------------- MODULE PackageWorkman ---------------------------
(***************************************************************************)
(* How phpsdk_pgo --init gets the servers, applications and tools it needs *)
(* (SDK\Build\PGO\Tool\PackageWorkman with the download() and unzip() of   *)
(* SDK\FileOps): a package is downloaded into the package cache of         *)
(* pgo/work, and unpacked or copied from there, unless it is there.        *)
(*                                                                         *)
(* The lock of --init lets one process at a time do this, so the module    *)
(* has one, which may fail or be killed at any step and be run again.  A   *)
(* file or directory is missing, whole or broken: a part of what it should *)
(* be, or the error page of a server under the name of a package.          *)
(***************************************************************************)
EXTENDS Integers, Sequences

CONSTANTS
    Packages,   \* the packages in the order in which --init asks for them
    Zips        \* those that fetchAndUnzip() gets; the others are tools,
                \* single files that fetch() gets

Package == {Packages[i] : i \in DOMAIN Packages}

ASSUME PackageAssumption ==
    /\ Packages \in Seq(Package)
    /\ \A i, j \in DOMAIN Packages : Packages[i] = Packages[j] => i = j
    /\ Zips \subseteq Package

MaxRetry == 3                        \* of download()
Content == {"none", "broken", "whole"}

VARIABLES
    cache,     \* cache[k]: the file of k in the package cache
    target,    \* target[k]: the directory or the tool k is installed as
    pc,        \* the phase of the running --init, or "idle"
    idx,       \* the package it works on
    force,     \* whether it was given --force
    retry,     \* $retry of download()
    report,    \* how the latest --init ended
    healthy    \* whether the server answers, files can be written and
               \* removed, and nobody kills anything, from now on

vars == <<cache, target, pc, idx, force, retry, report, healthy>>

Phases == {"idle", "next", "open", "receive", "install", "copy",
           "unzip", "extract", "clear", "remove", "rename", "drop"}

TypeOK ==
    /\ cache \in [Package -> Content]
    /\ target \in [Package -> Content]
    /\ pc \in Phases
    /\ idx \in Nat \ {0}
    /\ pc \notin {"idle", "next"} => idx \in DOMAIN Packages
    /\ force \in BOOLEAN
    /\ retry \in 0 .. MaxRetry
    /\ report \in {"none", "done", "failed", "killed"}
    /\ healthy \in BOOLEAN

Init ==
    /\ cache = [k \in Package |-> "none"]
    /\ target = [k \in Package |-> "none"]
    /\ pc = "idle" /\ idx = 1 /\ force = FALSE /\ retry = 0
    /\ report = "none" /\ healthy = FALSE

Current == Packages[idx]

-----------------------------------------------------------------------------
(* An exception ends the command.                                          *)
Fail == pc' = "idle" /\ report' = "failed" /\ UNCHANGED <<idx, force, retry, healthy>>

Goto(phase) == pc' = phase /\ UNCHANGED <<idx, force, retry, report, healthy>>

Begin(f) ==
    /\ pc = "idle"
    /\ pc' = "next" /\ idx' = 1 /\ force' = f /\ report' = "none"
    /\ UNCHANGED <<cache, target, retry, healthy>>

Finish ==
    /\ pc = "next" /\ idx \notin DOMAIN Packages
    /\ pc' = "idle" /\ report' = "done"
    /\ UNCHANGED <<cache, target, idx, force, retry, healthy>>

(* A variant of LookIntoCache that uses the file there is with --force too.*)
LookIntoCacheLazily ==
    /\ pc = "next" /\ idx \in DOMAIN Packages
    /\ pc' = IF cache[Current] = "none" THEN "open" ELSE "install"
    /\ retry' = 0
    /\ UNCHANGED <<cache, target, idx, force, report, healthy>>

(* The first half of fetch() and fetchAndUnzip(): a file in the package    *)
(* cache is taken for the package.                                         *)
LookIntoCache ==
    /\ pc = "next" /\ idx \in DOMAIN Packages
    /\ IF force \/ cache[Current] = "none"
         THEN pc' = "open" /\ retry' = 0
         ELSE pc' = "install" /\ UNCHANGED retry
    /\ UNCHANGED <<cache, target, idx, force, report, healthy>>

(* download(): fopen() in mode w+ empties the file before each attempt; if *)
(* it fails, curl_setopt() refuses its false with an exception.            *)
Open ==
    /\ pc = "open"
    /\ \/ cache' = [cache EXCEPT ![Current] = "broken"] /\ Goto("receive")
       \/ ~healthy /\ UNCHANGED cache /\ Fail
    /\ UNCHANGED target

(* curl_exec() with its outcome.                                           *)
Receive ==
    /\ pc = "receive"
    /\ \/ /\ cache' = [cache EXCEPT ![Current] = "whole"]
          /\ Goto("install")
       \/ /\ ~healthy /\ UNCHANGED cache
          /\ \/ /\ retry < MaxRetry
                /\ pc' = "open" /\ retry' = retry + 1
                /\ UNCHANGED <<idx, force, report, healthy>>
             \/ /\ retry = MaxRetry
                /\ Fail
    /\ UNCHANGED target

(* The second half: an installed package stays, except with --force.       *)
NextPackage == pc' = "next" /\ idx' = idx + 1 /\ UNCHANGED <<force, retry, report, healthy>>

Install ==
    /\ pc = "install"
    /\ IF force \/ target[Current] = "none"
         THEN Goto(IF Current \in Zips THEN "unzip" ELSE "copy")
         ELSE NextPackage
    /\ UNCHANGED <<cache, target>>

(* fetch(): copy() truncates the tool and writes it; it is as good as the  *)
(* file in the cache.                                                      *)
Copy ==
    /\ pc = "copy"
    /\ \/ /\ target[Current] # "broken"
          /\ target' = [target EXCEPT ![Current] = "broken"]
          /\ Goto("copy")
       \/ /\ target[Current] = "broken"
          /\ target' = [target EXCEPT ![Current] = cache[Current]]
          /\ NextPackage
       \/ /\ ~healthy /\ UNCHANGED target
          /\ Fail
    /\ UNCHANGED cache

(* A variant of Unzip that takes whatever it is given.                     *)
UnzipAnything == pc = "unzip" /\ Goto("extract") /\ UNCHANGED <<cache, target>>

(* unzip() opens the archive, which fails unless the file is whole.        *)
Unzip ==
    /\ pc = "unzip"
    /\ Goto(IF cache[Current] = "whole" THEN "extract" ELSE "drop")
    /\ UNCHANGED <<cache, target>>

(* A variant of Extract that has no directory of the archive's own name.   *)
ExtractInPlace ==
    /\ pc = "extract"
    /\ \/ target[Current] # "broken" /\ target' = [target EXCEPT ![Current] = "broken"] /\ Goto("extract")
       \/ target[Current] = "broken" /\ UNCHANGED target /\ Goto("rename")
    /\ UNCHANGED cache

(* It extracts beside the target, under the name the archive gives.        *)
Extract ==
    /\ pc = "extract"
    /\ \/ Goto("clear")
       \/ ~healthy /\ Goto("drop")
    /\ UNCHANGED <<cache, target>>

(* What is at the target is removed file by file.                          *)
Clear ==
    /\ pc = "clear"
    /\ IF target[Current] = "none"
         THEN Goto("rename") /\ UNCHANGED target
         ELSE Goto("remove") /\ target' = [target EXCEPT ![Current] = "broken"]
    /\ UNCHANGED cache

Remove ==
    /\ pc = "remove"
    /\ \/ target' = [target EXCEPT ![Current] = "none"] /\ Goto("rename")
       \/ ~healthy /\ UNCHANGED target /\ Goto("drop")
    /\ UNCHANGED cache

Rename ==
    /\ pc = "rename"
    /\ \/ target' = [target EXCEPT ![Current] = "whole"] /\ NextPackage
       \/ ~healthy /\ UNCHANGED target /\ Goto("drop")
    /\ UNCHANGED cache

(* A variant of DropCache that keeps the archive it could not unpack.      *)
KeepCache == pc = "drop" /\ UNCHANGED <<cache, target>> /\ Fail

(* fetchAndUnzip() removes the file it could not unpack and passes the     *)
(* exception on.                                                           *)
DropCache ==
    /\ pc = "drop"
    /\ cache' = [cache EXCEPT ![Current] = "none"]
    /\ UNCHANGED target
    /\ Fail

(* The process is killed.                                                  *)
Kill ==
    /\ pc # "idle" /\ ~healthy
    /\ pc' = "idle" /\ report' = "killed"
    /\ UNCHANGED <<cache, target, idx, force, retry, healthy>>

(* From the next command on nothing goes wrong.                            *)
Heal ==
    /\ pc = "idle" /\ ~healthy
    /\ healthy' = TRUE
    /\ UNCHANGED <<cache, target, pc, idx, force, retry, report>>

Step ==
    \/ Finish \/ LookIntoCache \/ Open \/ Receive \/ Install \/ Copy
    \/ Unzip \/ Extract \/ Clear \/ Remove \/ Rename \/ DropCache

Next == (\E f \in BOOLEAN : Begin(f)) \/ Step \/ Kill \/ Heal

(* Who wants the environment runs --init until it works.                   *)
Fairness == WF_vars(Step) /\ WF_vars(Begin(FALSE))

Spec == Init /\ [][Next]_vars /\ Fairness

-----------------------------------------------------------------------------
(* No step of an --init without --force damages the directory of a server  *)
(* or application that is whole or not there yet, whatever fails or is     *)
(* killed: it appears by one rename() (FileOps.php:203-213).               *)
UnforcedNeverBreaks ==
    [][~force => \A k \in Zips : target[k] # "broken" => target'[k] # "broken"]_vars

(* An --init that ends without an exception has everything at its place;   *)
(* with --force everything is whole, in the package cache too              *)
(* (PackageWorkman.php:24, 46).                                            *)
SuccessInstalls ==
    report = "done" =>
        /\ \A k \in Package : target[k] # "none"
        /\ force => \A k \in Package : target[k] = "whole" /\ cache[k] = "whole"

(* Once nothing goes wrong any more, each --init that still fails has got  *)
(* rid of a broken archive and leaves no new one: there are no more failing*)
(* runs than broken archives (PackageWorkman.php:51).                      *)
BrokenZips == {k \in Zips : cache[k] = "broken"}
FailureIsProgress ==
    [][healthy /\ report' = "failed" /\ report # "failed"
         => BrokenZips' \subseteq BrokenZips /\ BrokenZips' # BrokenZips]_vars

(* And so every server and application is whole at last, whatever went     *)
(* wrong before, unless --force had begun to remove it (FileOps.php:206).  *)
Heals ==
    healthy /\ (\A k \in Zips : target[k] # "broken")
        ~> \A k \in Zips : target[k] = "whole"

(* Why: what each phase has reached, and what the packages passed have.    *)
PhaseInv ==
    /\ pc # "idle" => report = "none"
    /\ pc \in {"extract", "clear", "remove", "rename"} => cache[Current] = "whole"
    /\ pc \in {"unzip", "extract", "clear", "remove", "rename", "drop"} => Current \in Zips
    /\ pc = "copy" => Current \notin Zips
    /\ pc = "remove" => force
    /\ pc \in {"unzip", "extract", "clear"} /\ ~force => target[Current] = "none"
    /\ pc = "rename" => target[Current] = "none"
    /\ pc \in {"install", "copy", "unzip"} => cache[Current] # "none"
    /\ pc \in {"install", "copy", "unzip"} /\ force => cache[Current] = "whole"
    /\ pc = "receive" => cache[Current] = "broken"
    /\ pc = "drop" /\ healthy => cache[Current] = "broken"

PassedInv ==
    pc # "idle" => \A i \in DOMAIN Packages : i < idx =>
        /\ target[Packages[i]] # "none"
        /\ force => target[Packages[i]] = "whole" /\ cache[Packages[i]] = "whole"

PackageInv == TypeOK /\ PhaseInv /\ PassedInv /\ SuccessInstalls
=============================================================================
