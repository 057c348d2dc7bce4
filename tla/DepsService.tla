---------------------------- MODULE DepsService ----------------------------
(***************************************************************************)
(* What phpsdk_deps promises to those who share a dependency directory:    *)
(* updates happen one at a time and each is all or nothing as far as its   *)
(* outcome and the next check can tell.  "installed" is the series whose   *)
(* packages fill the directory, or Broken; "recorded" is the series that   *)
(* the saved list names, or NoSeries if there is no list or no directory.  *)
(***************************************************************************)
EXTENDS Integers

CONSTANTS Process, MaxSeries

Broken == 0
NoSeries == -1

VARIABLES server, installed, recorded, updater, outcome

serviceVars == <<server, installed, recorded, updater, outcome>>

(* The record may be trusted: it never claims that Broken is up to date.   *)
Sound == recorded = server => installed = server

ServiceInit ==
    /\ server = 1
    /\ installed \in {Broken, 1}
    /\ recorded \in {NoSeries, 1}
    /\ Sound
    /\ updater = {}
    /\ outcome = [p \in Process |-> ""]

(* A command that has not ended yet has the outcome "".                    *)
Ask(p) ==
    /\ outcome' = [outcome EXCEPT ![p] = ""]
    /\ UNCHANGED <<server, installed, recorded, updater>>

Answer(p) ==
    /\ p \notin updater /\ outcome[p] = ""
    /\ \/ outcome' = [outcome EXCEPT ![p] = "none"] /\ recorded = server
       \/ outcome' = [outcome EXCEPT ![p] = "updates"] /\ recorded # server
       \/ outcome' = [outcome EXCEPT ![p] = "byother"]
          /\ updater = {} /\ recorded = server /\ installed = server
       \/ \E o \in {"error", "killed"} : outcome' = [outcome EXCEPT ![p] = o]
    /\ UNCHANGED <<server, installed, recorded, updater>>

Begin(p) ==
    /\ updater = {} /\ outcome[p] = ""
    /\ updater' = {p}
    /\ UNCHANGED <<server, installed, recorded, outcome>>

(* Only an updater changes anything, and only the next two end its turn.   *)
Change ==
    /\ updater # {}
    /\ installed' \in 0 .. MaxSeries
    /\ recorded' \in -1 .. MaxSeries
    /\ UNCHANGED <<server, updater, outcome>>

Commit(p) ==
    /\ updater = {p}
    /\ installed = server /\ recorded' = server
    /\ outcome' = [outcome EXCEPT ![p] = "success"]
    /\ updater' = {}
    /\ UNCHANGED <<server, installed>>

Abandon(p) ==
    /\ updater = {p}
    /\ Sound
    /\ \E o \in {"error", "killed"} : outcome' = [outcome EXCEPT ![p] = o]
    /\ updater' = {}
    /\ UNCHANGED <<server, installed, recorded>>

Release ==
    /\ updater = {} /\ server < MaxSeries
    /\ server' = server + 1
    /\ UNCHANGED <<installed, recorded, updater, outcome>>

(* The user removes the directory.                                         *)
Drop ==
    /\ updater = {}
    /\ installed' = Broken /\ recorded' = NoSeries
    /\ UNCHANGED <<server, updater, outcome>>

ServiceNext ==
    \/ \E p \in Process : Ask(p) \/ Answer(p) \/ Begin(p) \/ Commit(p) \/ Abandon(p)
    \/ Change
    \/ Release
    \/ Drop

ServiceSpec == ServiceInit /\ [][ServiceNext]_serviceVars
=============================================================================
