------------------------ MODULE PgoController_proofs ------------------------
(***************************************************************************)
(* Proofs about PgoController, for any processes, cases and command lines: *)
(* type correctness and the use of the two locks.                          *)
(***************************************************************************)
EXTENDS PgoController, FileLock_proofs, FiniteSetTheorems

-----------------------------------------------------------------------------
(* The locks: every step leaves them alone or is one of their operations.  *)
LEMMA EndKeepsLock ==
    ASSUME LockInv, NEW p \in Process, NEW o, End(p, o)
    PROVE  LockInv'
<1>1. CASE UNCHANGED lockVars
  BY <1>1 DEF LockInv, LockTypeOK, Locked, lockVars
<1>2. CASE Destruct(p)
  BY <1>2, DestructKeepsInv
<1> QED
  BY <1>1, <1>2 DEF End

LEMMA NextKeepsLock ==
    ASSUME LockInv, [Next]_vars
    PROVE  LockInv'
<1>1. CASE UNCHANGED lockVars
  BY <1>1 DEF LockInv, LockTypeOK, Locked, lockVars
<1>2. ASSUME NEW p \in Process, NEW o, End(p, o) PROVE LockInv'
  BY <1>2, EndKeepsLock
<1>3. ASSUME NEW p \in Process, TakeLock(p) PROVE LockInv'
  BY <1>3, NewKeepsInv DEF TakeLock, Modes
<1>4. ASSUME NEW p \in Process, WaitForOther(p) PROVE LockInv'
  BY <1>4, RequestKeepsInv DEF WaitForOther, Modes
<1>5. ASSUME NEW p \in Process, OSGrant(p) PROVE LockInv'
  BY <1>5, GrantKeepsInv DEF OSGrant
<1>6. ASSUME NEW p \in Process, Crash(p) PROVE LockInv'
  BY <1>6, KilledKeepsInv DEF Crash
<1>7. ASSUME NEW p \in Process,
             Start(p) \/ CheckInit(p) \/ Construct(p) \/ InitWorkDir(p) \/ LoadConfig(p)
             \/ WaitOver(p) \/ Fail(p)
      PROVE  LockInv'
  BY <1>1, <1>2, <1>7 DEF Start, CheckInit, Construct, InitWorkDir, LoadConfig, WaitOver, Fail
<1>8. ASSUME NEW p \in Process, Initialize(p) PROVE LockInv'
  BY <1>1, <1>2, <1>8 DEF Initialize, PrepareInit, SetupNginx, StopNginx, StopMaria,
                          SetupCase, CaseUp, InstallDown, UrlsDown
<1>9. ASSUME NEW p \in Process, Train(p) PROVE LockInv'
  BY <1>1, <1>9 DEF Train, Waste, Clean, RunCase, Sweep, Merge
<1>10. ASSUME NEW p \in Process, UpDown(p) PROVE LockInv'
  BY <1>1, <1>2, <1>10 DEF UpDown, UpPhp, UpNginx, UpMaria, DownPhp, DownNginx, DownMaria
<1>11. CASE UNCHANGED vars
  BY <1>1, <1>11 DEF vars
<1> QED
  BY <1>3, <1>4, <1>5, <1>6, <1>7, <1>8, <1>9, <1>10, <1>11 DEF Next

-----------------------------------------------------------------------------
(* getWorkItems() finds an index that is free: among the first n + 1       *)
(* numbers one is not among the n indices in use.                          *)
LEMMA NextIndexIsFree ==
    ASSUME IsFiniteSet(DOMAIN pgc)
    PROVE  NextIndex \in Nat /\ NextIndex \notin DOMAIN pgc
<1> DEFINE n == Cardinality(DOMAIN pgc)
<1>1. n \in Nat
  BY FS_CardinalityType
<1>2. IsFiniteSet(0 .. n) /\ Cardinality(0 .. n) = n + 1
  BY <1>1, FS_Interval
<1>3. ~(0 .. n \subseteq DOMAIN pgc)
  <2> SUFFICES ASSUME 0 .. n \subseteq DOMAIN pgc PROVE FALSE
    OBVIOUS
  <2>1. Cardinality(0 .. n) <= Cardinality(DOMAIN pgc)
    BY FS_Subset
  <2> QED
    BY <1>1, <1>2, <2>1
<1>4. \E i \in 0 .. n : i \notin DOMAIN pgc
  BY <1>3
<1>5. NextIndex \in 0 .. n /\ NextIndex \notin DOMAIN pgc
  BY <1>4 DEF NextIndex
<1> QED
  BY <1>1, <1>5

-----------------------------------------------------------------------------
(* Types.                                                                  *)
USE DEF work, servers, profile, locals, pgoVars, vars,
        Dump, ImportSection, GenerateSection, FreshConf, AddServer

LEMMA ConstantTypes ==
    /\ NoCommand \in Commands
    /\ Cases \in Seq(Case)
    /\ NoSections \in Sections
    /\ \A m \in [Process -> Sections], p \in Process, c \in Case,
          v \in {"none", "template", "generated"} :
             /\ [m EXCEPT ![p][c] = v] \in [Process -> Sections]
             /\ [m EXCEPT ![p][c] = v][p] \in Sections
    /\ Phases = {"idle", "check", "begin", "mkdir", "config", "lock", "wait", "waited",
                 "prepare", "setupNginx", "stopNginx", "stopMaria", "cases",
                 "installUp", "installDown", "urlsUp", "urlsDown",
                 "waste", "clean", "train", "sweep", "merge",
                 "upPhp", "upNginx", "upMaria", "downPhp", "downNginx", "downMaria"}
<1>1. NoCommand \in Commands
  BY PgoAssumption DEF NoCommand
<1>2. Cases \in Seq(Case)
  BY PgoAssumption
<1>3. NoSections \in Sections
  BY DEF NoSections, Sections
<1>4. \A m \in [Process -> Sections], p \in Process, c \in Case,
         v \in {"none", "template", "generated"} :
             /\ [m EXCEPT ![p][c] = v] \in [Process -> Sections]
             /\ [m EXCEPT ![p][c] = v][p] \in Sections
  BY DEF Sections
<1>5. Phases = {"idle", "check", "begin", "mkdir", "config", "lock", "wait", "waited",
                 "prepare", "setupNginx", "stopNginx", "stopMaria", "cases",
                 "installUp", "installDown", "urlsUp", "urlsDown",
                 "waste", "clean", "train", "sweep", "merge",
                 "upPhp", "upNginx", "upMaria", "downPhp", "downNginx", "downMaria"}
  BY DEF Phases, InitPhases, TrainPhases, UpDownPhases
<1> QED
  BY <1>1, <1>2, <1>3, <1>4, <1>5

(* Tail of a list of cases, and its head.                                  *)
LEMMA TodoTypes ==
    ASSUME NEW s \in Seq(Case), s # << >>
    PROVE  Head(s) \in Case /\ Tail(s) \in Seq(Case)
OBVIOUS

LocalTypeOK ==
    /\ pc \in [Process -> Phases]
    /\ opt \in [Process -> Commands]
    /\ mem \in [Process -> Sections]
    /\ todo \in [Process -> Seq(Case)]
    /\ idx \in [Process -> Nat]
    /\ report \in [Process -> Outcomes]
    /\ disturbed \in [Process -> BOOLEAN]

(* What type correctness rests on: there are finitely many .pgc files, so  *)
(* an index is found, and the loops that take the tail of their list work  *)
(* on a case of it.                                                        *)
PgcFinite == IsFiniteSet(DOMAIN pgc)
Visiting ==
    \A p \in Process :
        pc[p] \in {"installUp", "installDown", "urlsUp", "urlsDown", "sweep", "merge"}
            => todo[p] # << >>
TypeInv == TypeOK /\ PgcFinite /\ Visiting
LEMMA InitType == Init => TypeInv
<1> SUFFICES ASSUME Init PROVE TypeInv
  OBVIOUS
<1>1. LockTypeOK
  BY LockInitInv DEF Init, LockInv
<1>2. WorkTypeOK
  BY DEF Init, WorkTypeOK, Sections, NoSections
<1>3. ServersTypeOK
  BY DEF Init, ServersTypeOK
<1>4. ProfileTypeOK /\ PgcFinite
  <2>1. DOMAIN pgc = {}
    BY DEF Init, NoFiles
  <2> QED
    BY <2>1, FS_EmptySet DEF Init, ProfileTypeOK, PgcFinite, Source
<1>5. LocalTypeOK
  <2>1. << >> \in Seq(Case)
    OBVIOUS
  <2> QED
    BY <2>1, ConstantTypes DEF Init, LocalTypeOK, NoReport, Outcomes
<1>6. Visiting
  BY DEF Init, Visiting
<1> QED
  BY <1>1, <1>2, <1>3, <1>4, <1>5, <1>6 DEF TypeInv, TypeOK, LocalTypeOK

LEMMA LeaveType ==
    ASSUME LocalTypeOK, NEW p \in Process, NEW o \in Outcomes, Leave(p, o)
    PROVE  LocalTypeOK'
<1>1. << >> \in Seq(Case)
  OBVIOUS
<1> QED
  BY <1>1, ConstantTypes DEF LocalTypeOK, Leave, NoReport, Outcomes

LEMMA GotoType ==
    ASSUME LocalTypeOK, NEW p \in Process, NEW phase \in Phases, Goto(p, phase)
    PROVE  pc' \in [Process -> Phases] /\ report' \in [Process -> Outcomes]
BY DEF LocalTypeOK, Goto, Silent, NoReport, Outcomes

LEMMA CurrentType ==
    ASSUME LocalTypeOK, conf \in Sections, NEW p \in Process, NEW c \in Case,
           \/ Current(p, c)
           \/ SetSection(p, c, "generated")
    PROVE  mem' \in [Process -> Sections] /\ conf' \in Sections
<1>1. ASSUME NEW v \in {"none", "template", "generated"}, SetSection(p, c, v)
      PROVE  mem' \in [Process -> Sections] /\ conf' \in Sections
  <2>1. mem' = [mem EXCEPT ![p][c] = v] /\ conf' = mem'[p] /\ mem \in [Process -> Sections]
    BY <1>1 DEF SetSection, LocalTypeOK
  <2>2. [mem EXCEPT ![p][c] = v] \in [Process -> Sections]
    BY <2>1, ConstantTypes
  <2> QED
    BY <2>1, <2>2
<1>2. CASE UNCHANGED <<mem, conf>>
  BY <1>2 DEF LocalTypeOK
<1> QED
  BY <1>1, <1>2 DEF Current

(* Every step keeps the types of the processes' variables.                 *)
LEMMA NextLocalType ==
    ASSUME TypeInv, [Next]_vars
    PROVE  LocalTypeOK'
<1>0. LocalTypeOK /\ conf \in Sections
  BY DEF TypeInv, TypeOK, LocalTypeOK, WorkTypeOK
<1>1. ASSUME NEW p \in Process, NEW o \in Outcomes, Leave(p, o) PROVE LocalTypeOK'
  BY <1>0, <1>1, LeaveType
<1>2. ASSUME NEW p \in Process, NEW phase \in Phases, Goto(p, phase), UNCHANGED locals
      PROVE  LocalTypeOK'
  BY <1>0, <1>2, GotoType DEF LocalTypeOK
<1>3. ASSUME NEW p \in Process, NEW phase \in Phases, Goto(p, phase),
             todo' \in [Process -> Seq(Case)], mem' \in [Process -> Sections],
             idx' \in [Process -> Nat], UNCHANGED <<opt, disturbed>>
      PROVE  LocalTypeOK'
  BY <1>0, <1>3, GotoType DEF LocalTypeOK
<1>4. ASSUME NEW p \in Process
      PROVE  /\ [todo EXCEPT ![p] = Cases] \in [Process -> Seq(Case)]
             /\ todo[p] # << >> => /\ Head(todo[p]) \in Case
                                   /\ [todo EXCEPT ![p] = Tail(@)] \in [Process -> Seq(Case)]
  <2>1. todo[p] \in Seq(Case)
    BY <1>0 DEF LocalTypeOK
  <2> QED
    BY <1>0, <2>1, TodoTypes, ConstantTypes DEF LocalTypeOK
<1>5. ASSUME NEW p \in Process, Start(p) PROVE LocalTypeOK'
  <2>1. opt' \in [Process -> Commands] /\ disturbed' \in [Process -> BOOLEAN]
    BY <1>0, <1>5 DEF Start, LocalTypeOK
  <2>2. pc' \in [Process -> Phases] /\ report' \in [Process -> Outcomes]
    BY <1>0, <1>5, ConstantTypes DEF Start, LocalTypeOK, Silent, NoReport, Outcomes
  <2> QED
    BY <1>0, <1>5, <2>1, <2>2 DEF Start, LocalTypeOK
<1>6. ASSUME NEW p \in Process,
             CheckInit(p) \/ Construct(p) \/ InitWorkDir(p) \/ WaitForOther(p)
             \/ Fail(p) \/ Crash(p)
      PROVE  LocalTypeOK'
  BY <1>1, <1>2, <1>6, ConstantTypes
     DEF CheckInit, Construct, InitWorkDir, WaitForOther, Fail, Crash, End, Outcomes
<1>7. ASSUME NEW p \in Process, LoadConfig(p) PROVE LocalTypeOK'
  <2>1. CASE End(p, "error")
    BY <1>1, <2>1 DEF End, Outcomes
  <2>2. CASE UNCHANGED locals
    BY <1>2, <1>7, <2>2, <2>1, ConstantTypes DEF LoadConfig
  <2>3. CASE mem' = [mem EXCEPT ![p] = conf] /\ UNCHANGED <<opt, todo, idx, disturbed>>
    <3>1. mem' \in [Process -> Sections]
      BY <1>0, <2>3 DEF LocalTypeOK
    <3>2. (\E phase \in Phases : Goto(p, phase)) \/ End(p, "error")
      BY <1>7, ConstantTypes DEF LoadConfig
    <3> QED
      BY <1>0, <1>3, <2>1, <2>3, <3>1, <3>2 DEF LocalTypeOK
  <2> QED
    BY <1>7, <2>1, <2>2, <2>3 DEF LoadConfig
<1>8. ASSUME NEW p \in Process, TakeLock(p) PROVE LocalTypeOK'
  <2>1. todo' \in [Process -> Seq(Case)] /\ UNCHANGED <<mem, idx, opt, disturbed>>
    BY <1>0, <1>4, <1>8 DEF TakeLock, LocalTypeOK
  <2>2. \E phase \in Phases : Goto(p, phase)
    BY <1>8, ConstantTypes DEF TakeLock, Section
  <2> QED
    BY <1>0, <1>3, <2>1, <2>2 DEF LocalTypeOK
<1>9. ASSUME NEW p \in Process, WaitOver(p) PROVE LocalTypeOK'
  <2>1. CASE End(p, "byother")
    BY <1>1, <2>1 DEF End, Outcomes
  <2>2. CASE Goto(p, Section(p)) /\ todo' = [todo EXCEPT ![p] = Cases]
             /\ UNCHANGED <<opt, mem, idx, disturbed>>
    BY <1>0, <1>3, <1>4, <2>2, ConstantTypes DEF LocalTypeOK, Section
  <2> QED
    BY <1>9, <2>1, <2>2 DEF WaitOver
<1>10. ASSUME NEW p \in Process, PrepareInit(p) PROVE LocalTypeOK'
  <2>0. UNCHANGED <<opt, idx, disturbed>>
    BY <1>10 DEF PrepareInit
  <2>1. CASE /\ todo[p] # << >> /\ Current(p, Head(todo[p]))
             /\ todo' = [todo EXCEPT ![p] = Tail(@)]
             /\ Silent /\ UNCHANGED pc
    BY <1>0, <1>4, <2>0, <2>1, CurrentType DEF LocalTypeOK, Silent, NoReport, Outcomes
  <2>2. CASE Goto(p, "setupNginx") /\ UNCHANGED <<mem, todo>>
    BY <1>2, <2>0, <2>2, ConstantTypes
  <2> QED
    BY <1>10, <2>1, <2>2 DEF PrepareInit
<1>11. ASSUME NEW p \in Process, SetupCase(p) PROVE LocalTypeOK'
  <2>1. CASE End(p, "initialized")
    BY <1>1, <2>1 DEF End, Outcomes
  <2>2. CASE /\ todo[p] # << >> /\ SetSection(p, Head(todo[p]), "generated")
             /\ Goto(p, "installUp") /\ UNCHANGED <<opt, todo, idx, disturbed>>
    BY <1>0, <1>3, <1>4, <2>2, CurrentType, ConstantTypes DEF LocalTypeOK
  <2> QED
    BY <1>11, <2>1, <2>2 DEF SetupCase
<1>12. ASSUME NEW p \in Process, UrlsDown(p) PROVE LocalTypeOK'
  <2>0. todo[p] # << >>
    BY <1>12 DEF UrlsDown, TypeInv, Visiting
  <2>1. CASE End(p, "error")
    BY <1>1, <2>1 DEF End, Outcomes
  <2>2. CASE todo' = [todo EXCEPT ![p] = Tail(@)] /\ Goto(p, "cases")
             /\ UNCHANGED <<opt, mem, idx, disturbed>>
    BY <1>0, <1>3, <1>4, <2>0, <2>2, ConstantTypes DEF LocalTypeOK
  <2> QED
    BY <1>12, <2>1, <2>2 DEF UrlsDown
<1>13. ASSUME NEW p \in Process, StopMaria(p) PROVE LocalTypeOK'
  BY <1>0, <1>3, <1>4, <1>13, ConstantTypes DEF StopMaria, LocalTypeOK
<1>14. ASSUME NEW p \in Process, SetupNginx(p) \/ StopNginx(p) \/ CaseUp(p) \/ InstallDown(p)
       PROVE  LocalTypeOK'
  BY <1>2, <1>14, ConstantTypes DEF SetupNginx, StopNginx, CaseUp, InstallDown
<1>15. ASSUME NEW p \in Process, UpDown(p) PROVE LocalTypeOK'
  BY <1>1, <1>2, <1>15, ConstantTypes
     DEF UpDown, UpPhp, UpNginx, UpMaria, DownPhp, DownNginx, DownMaria, End, Outcomes
<1>16. ASSUME NEW p \in Process, Waste(p) \/ Sweep(p) PROVE LocalTypeOK'
  <2>1. NextIndex \in Nat
    BY NextIndexIsFree DEF TypeInv, PgcFinite
  <2>2. idx' \in [Process -> Nat]
    BY <1>0, <1>16, <2>1 DEF Waste, Sweep, SweepCounters, LocalTypeOK
  <2> QED
    BY <1>0, <1>3, <1>16, <2>2, ConstantTypes DEF Waste, Sweep, LocalTypeOK
<1>17. ASSUME NEW p \in Process, Clean(p) PROVE LocalTypeOK'
  BY <1>2, <1>17, ConstantTypes DEF Clean
<1>18. ASSUME NEW p \in Process, RunCase(p) PROVE LocalTypeOK'
  <2>0. UNCHANGED <<opt, idx, disturbed>>
    BY <1>18 DEF RunCase
  <2>1. CASE todo[p] # << >>
    <3>1. mem' \in [Process -> Sections]
      BY <1>0, <1>4, <1>18, <2>1, CurrentType DEF RunCase
    <3>2. todo' \in [Process -> Seq(Case)]
      BY <1>0, <1>4, <1>18, <2>1 DEF RunCase, LocalTypeOK
    <3>3. Goto(p, "sweep") \/ (Silent /\ UNCHANGED pc)
      BY <1>18, <2>1 DEF RunCase
    <3>4. pc' \in [Process -> Phases] /\ report' \in [Process -> Outcomes]
      <4>1. CASE Goto(p, "sweep")
        BY <1>0, <4>1, GotoType, ConstantTypes
      <4>2. CASE Silent /\ UNCHANGED pc
        BY <1>0, <4>2 DEF LocalTypeOK, Silent, NoReport, Outcomes
      <4> QED
        BY <3>3, <4>1, <4>2
    <3> QED
      BY <1>0, <2>0, <3>1, <3>2, <3>4 DEF LocalTypeOK
  <2>2. CASE todo[p] = << >>
    BY <1>2, <1>18, <2>0, <2>2, ConstantTypes DEF RunCase
  <2> QED
    BY <2>1, <2>2
<1>19. ASSUME NEW p \in Process, Merge(p) PROVE LocalTypeOK'
  <2>1. todo[p] # << >>
    BY <1>19 DEF Merge, TypeInv, Visiting
  <2>2. todo' \in [Process -> Seq(Case)]
    BY <1>4, <1>19, <2>1 DEF Merge
  <2>3. Goto(p, "train") /\ UNCHANGED <<opt, mem, idx, disturbed>>
    BY <1>19 DEF Merge
  <2> QED
    BY <1>0, <1>3, <2>2, <2>3, ConstantTypes DEF LocalTypeOK
<1>20. ASSUME NEW p \in Process, OSGrant(p) PROVE LocalTypeOK'
  BY <1>0, <1>20 DEF OSGrant, LocalTypeOK, Silent, NoReport, Outcomes
<1>21. CASE UNCHANGED vars
  BY <1>0, <1>21 DEF LocalTypeOK
<1> QED
  BY <1>5, <1>6, <1>7, <1>8, <1>9, <1>10, <1>11, <1>12, <1>13, <1>14, <1>15, <1>16,
     <1>17, <1>18, <1>19, <1>20, <1>21 DEF Next, Initialize, Train

(* The types of the working directory and the servers.                     *)
LEMMA NextWorkType ==
    ASSUME TypeInv, [Next]_vars
    PROVE  WorkTypeOK' /\ ServersTypeOK'
<1>0. LocalTypeOK /\ WorkTypeOK /\ ServersTypeOK /\ conf \in Sections
  BY DEF TypeInv, TypeOK, LocalTypeOK, WorkTypeOK
<1>1. ASSUME UNCHANGED work PROVE WorkTypeOK'
  BY <1>0, <1>1 DEF WorkTypeOK
<1>2. ASSUME UNCHANGED servers PROVE ServersTypeOK'
  BY <1>0, <1>2 DEF ServersTypeOK
<1>3. ASSUME NEW p \in Process, todo[p] # << >> PROVE Head(todo[p]) \in Case
  BY <1>0, <1>3, TodoTypes DEF LocalTypeOK
<1>4. ASSUME NEW p \in Process,
             \/ Start(p) \/ CheckInit(p) \/ Construct(p) \/ TakeLock(p)
             \/ WaitForOther(p) \/ WaitOver(p) \/ OSGrant(p) \/ Fail(p) \/ Crash(p)
             \/ Waste(p) \/ Clean(p) \/ Sweep(p) \/ Merge(p)
      PROVE  UNCHANGED <<work, servers>>
  BY <1>4 DEF Start, CheckInit, Construct, TakeLock, WaitForOther, WaitOver, OSGrant,
              Fail, Crash, Waste, Clean, Sweep, Merge
<1>5. ASSUME NEW p \in Process, InitWorkDir(p) \/ LoadConfig(p)
      PROVE  WorkTypeOK' /\ UNCHANGED servers
  BY <1>0, <1>5, ConstantTypes DEF InitWorkDir, LoadConfig, WorkTypeOK
<1>6. ASSUME NEW p \in Process, PrepareInit(p) \/ RunCase(p)
      PROVE  WorkTypeOK' /\ UNCHANGED servers
  <2>1. conf' \in Sections
    BY <1>0, <1>3, <1>6, CurrentType DEF PrepareInit, RunCase
  <2> QED
    BY <1>0, <1>6, <2>1 DEF PrepareInit, RunCase, WorkTypeOK
<1>7. ASSUME NEW p \in Process, SetupCase(p) PROVE WorkTypeOK' /\ UNCHANGED servers
  <2>1. conf' \in Sections /\ vhosts' \subseteq Case
    BY <1>0, <1>3, <1>7, CurrentType DEF SetupCase, WorkTypeOK
  <2> QED
    BY <1>0, <1>7, <2>1 DEF SetupCase, WorkTypeOK
<1>8. ASSUME NEW p \in Process,
             \/ SetupNginx(p) \/ StopNginx(p) \/ StopMaria(p) \/ CaseUp(p)
             \/ InstallDown(p) \/ UpDown(p)
      PROVE  WorkTypeOK' /\ ServersTypeOK'
  <2>1. WorkTypeOK'
    BY <1>0, <1>8 DEF LocalTypeOK, SetupNginx, StopNginx, StopMaria, CaseUp, InstallDown, UpDown,
       UpPhp, UpNginx, UpMaria, DownPhp, DownNginx, DownMaria, WorkTypeOK
  <2>2. \/ serving' = serving
        \/ serving' = {}
        \/ serving' = serving \cup vhosts' \cup {"main"}
    BY <1>8 DEF SetupNginx, StopNginx, StopMaria, CaseUp, InstallDown, UpDown,
       UpPhp, UpNginx, UpMaria, DownPhp, DownNginx, DownMaria,
       StartNginx, KillNginx, QuitNginx
  <2>3. serving' \subseteq Port
    BY <1>0, <2>1, <2>2 DEF ServersTypeOK, WorkTypeOK, Port
  <2>4. php' \in BOOLEAN /\ mysqld' \in BOOLEAN
    BY <1>0, <1>8 DEF SetupNginx, StopNginx, StopMaria, CaseUp, InstallDown, UpDown,
       UpPhp, UpNginx, UpMaria, DownPhp, DownNginx, DownMaria,
       StartPhp, KillPhp, ServersTypeOK
  <2> QED
    BY <2>1, <2>3, <2>4 DEF ServersTypeOK
<1>9. ASSUME NEW p \in Process, UrlsDown(p) PROVE WorkTypeOK' /\ ServersTypeOK'
  <2>1. UNCHANGED <<workDir, confFile, conf, vhosts>>
    BY <1>9 DEF UrlsDown
  <2>2. job' \in [Case -> {"none", "empty", "urls"}]
    BY <1>0, <1>9 DEF UrlsDown, WorkTypeOK
  <2>3. php' = FALSE /\ serving' = {} /\ mysqld' = FALSE
    BY <1>9 DEF UrlsDown, KillPhp, KillNginx
  <2> QED
    BY <1>0, <2>1, <2>2, <2>3 DEF WorkTypeOK, ServersTypeOK
<1>10. CASE UNCHANGED vars
  BY <1>1, <1>2, <1>10
<1> QED
  BY <1>1, <1>2, <1>4, <1>5, <1>6, <1>7, <1>8, <1>9, <1>10 DEF Next, Initialize, Train

(* pgosweep adds one file with what the counters held.                     *)
LEMMA SweepFacts ==
    ASSUME PgcFinite, NEW p \in Process, SweepCounters(p)
    PROVE  /\ NextIndex \in Nat /\ NextIndex \notin DOMAIN pgc
           /\ php => /\ counters' = {}
                     /\ DOMAIN pgc' = DOMAIN pgc \cup {NextIndex}
                     /\ \A i \in DOMAIN pgc : pgc'[i] = pgc[i]
                     /\ pgc'[NextIndex] = counters
           /\ ~php => UNCHANGED <<counters, pgc>>
           /\ UNCHANGED pgd
BY NextIndexIsFree DEF SweepCounters, PgcFinite

(* The types of the profile data.                                          *)
LEMMA NextProfileType ==
    ASSUME TypeInv, [Next]_vars
    PROVE  ProfileTypeOK' /\ PgcFinite'
<1>0. LocalTypeOK /\ ProfileTypeOK /\ PgcFinite
  BY DEF TypeInv, TypeOK, LocalTypeOK
<1>1. ASSUME counters' \subseteq Source, pgd' \subseteq Source, UNCHANGED pgc
      PROVE  ProfileTypeOK' /\ PgcFinite'
  BY <1>0, <1>1 DEF ProfileTypeOK, PgcFinite
<1>2. ASSUME counters' \subseteq Source, pgd' \subseteq Source, pgc' = NoFiles
      PROVE  ProfileTypeOK' /\ PgcFinite'
  <2>1. DOMAIN pgc' = {}
    BY <1>2 DEF NoFiles
  <2> QED
    BY <1>2, <2>1, FS_EmptySet DEF ProfileTypeOK, PgcFinite
<1>3. counters \subseteq Source /\ pgd \subseteq Source /\ "other" \in Source /\ {} \subseteq Source
  BY <1>0 DEF ProfileTypeOK, Source
<1>4. ASSUME NEW p \in Process,
             \/ Start(p) \/ CheckInit(p) \/ Construct(p) \/ InitWorkDir(p) \/ LoadConfig(p)
             \/ TakeLock(p) \/ WaitForOther(p) \/ WaitOver(p) \/ OSGrant(p)
             \/ PrepareInit(p) \/ SetupNginx(p) \/ StopNginx(p) \/ StopMaria(p)
             \/ SetupCase(p) \/ UpNginx(p) \/ UpMaria(p) \/ DownNginx(p) \/ DownMaria(p)
             \/ Fail(p) \/ Crash(p)
      PROVE  UNCHANGED profile
  BY <1>4 DEF Start, CheckInit, Construct, InitWorkDir, LoadConfig, TakeLock, WaitForOther,
     WaitOver, OSGrant, PrepareInit, SetupNginx, StopNginx, StopMaria, SetupCase, UpNginx,
     UpMaria, DownNginx, DownMaria, Fail, Crash
<1>5. ASSUME NEW p \in Process,
             CaseUp(p) \/ InstallDown(p) \/ UrlsDown(p) \/ UpPhp(p) \/ DownPhp(p)
      PROVE  ProfileTypeOK' /\ PgcFinite'
  BY <1>1, <1>3, <1>5 DEF CaseUp, InstallDown, UrlsDown, UpPhp, DownPhp, StartPhp, KillPhp
<1>6. ASSUME NEW p \in Process, Waste(p) \/ Sweep(p) PROVE ProfileTypeOK' /\ PgcFinite'
  <2>1. SweepCounters(p)
    BY <1>6 DEF Waste, Sweep
  <2>2. CASE php
    <3>1. IsFiniteSet(DOMAIN pgc \cup {NextIndex})
      BY <1>0, FS_AddElement DEF PgcFinite
    <3> QED
      BY <1>0, <1>3, <2>1, <2>2, <3>1, SweepFacts DEF ProfileTypeOK, PgcFinite
  <2>3. CASE ~php
    BY <1>0, <1>1, <1>3, <2>1, <2>3, SweepFacts
  <2> QED
    BY <2>2, <2>3
<1>7. ASSUME NEW p \in Process, Clean(p) PROVE ProfileTypeOK' /\ PgcFinite'
  BY <1>2, <1>3, <1>7 DEF Clean
<1>8. ASSUME NEW p \in Process, RunCase(p) PROVE ProfileTypeOK' /\ PgcFinite'
  <2>1. pgd' \subseteq Source /\ (UNCHANGED pgc \/ pgc' = NoFiles)
    BY <1>3, <1>8 DEF RunCase
  <2>2. counters' \subseteq Source
    <3>1. CASE todo[p] # << >>
      <4>1. Head(todo[p]) \in Source
        BY <1>0, <3>1, TodoTypes DEF LocalTypeOK, Source
      <4> QED
        BY <1>3, <1>8, <3>1, <4>1 DEF RunCase, RunWeb
    <3>2. CASE todo[p] = << >>
      BY <1>3, <1>8, <3>2 DEF RunCase
    <3> QED
      BY <3>1, <3>2
  <2> QED
    BY <1>1, <1>2, <2>1, <2>2
<1>9. ASSUME NEW p \in Process, Merge(p) PROVE ProfileTypeOK' /\ PgcFinite'
  <2>1. DOMAIN pgc' = DOMAIN pgc \ {idx[p]} /\ \A i \in DOMAIN pgc' : pgc'[i] = pgc[i]
    BY <1>9 DEF Merge
  <2>2. IsFiniteSet(DOMAIN pgc')
    BY <1>0, <2>1, FS_Subset DEF PgcFinite
  <2>3. counters' \subseteq Source /\ pgd' \subseteq Source
    BY <1>0, <1>3, <1>9 DEF Merge, ProfileTypeOK
  <2> QED
    BY <1>0, <2>1, <2>2, <2>3 DEF ProfileTypeOK, PgcFinite
<1>10. CASE UNCHANGED profile
  BY <1>1, <1>3, <1>10
<1> QED
  BY <1>4, <1>5, <1>6, <1>7, <1>8, <1>9, <1>10 DEF Next, Initialize, Train, UpDown

(* A loop that works on a case leaves its list alone until it is done.     *)
LEMMA NextVisiting ==
    ASSUME TypeInv, [Next]_vars
    PROVE  Visiting'
<1>0. LocalTypeOK /\ Visiting
  BY DEF TypeInv, TypeOK, LocalTypeOK
<1>1. ASSUME NEW p \in Process, NEW o, Leave(p, o) PROVE Visiting'
  BY <1>0, <1>1 DEF Leave, Visiting, LocalTypeOK
<1>2. ASSUME NEW p \in Process, NEW phase, Goto(p, phase),
             \A q \in Process \ {p} : todo'[q] = todo[q],
             phase \in {"installUp", "installDown", "urlsUp", "urlsDown", "sweep", "merge"}
                => todo'[p] # << >>
      PROVE  Visiting'
  BY <1>0, <1>2 DEF Goto, Visiting, LocalTypeOK
<1>3. ASSUME UNCHANGED <<pc, todo>> PROVE Visiting'
  BY <1>0, <1>3 DEF Visiting
<1>4. ASSUME NEW p \in Process,
             \/ CheckInit(p) \/ Construct(p) \/ InitWorkDir(p) \/ LoadConfig(p)
             \/ WaitForOther(p) \/ Fail(p) \/ Crash(p) \/ UpDown(p)
             \/ SetupNginx(p) \/ StopNginx(p)
      PROVE  Visiting'
  BY <1>1, <1>2, <1>4 DEF CheckInit, Construct, InitWorkDir, LoadConfig, WaitForOther,
     Fail, Crash, End, UpDown, UpPhp, UpNginx, UpMaria, DownPhp, DownNginx, DownMaria,
     SetupNginx, StopNginx
<1>5. ASSUME NEW p \in Process, Start(p) PROVE Visiting'
  BY <1>0, <1>5 DEF Start, Visiting, LocalTypeOK
<1>6. ASSUME NEW p \in Process, TakeLock(p) \/ WaitOver(p) \/ StopMaria(p) PROVE Visiting'
  <2>1. CASE End(p, "byother")
    BY <1>1, <2>1 DEF End
  <2>2. CASE \E phase \in {"prepare", "upPhp", "wait", "cases"} :
               Goto(p, phase) /\ \A q \in Process \ {p} : todo'[q] = todo[q]
    BY <1>2, <2>2
  <2> QED
    BY <1>0, <1>6, <2>1, <2>2 DEF TakeLock, WaitOver, StopMaria, Section, LocalTypeOK
<1>7. ASSUME NEW p \in Process,
             CaseUp(p) \/ InstallDown(p) \/ Waste(p) \/ Sweep(p) \/ Clean(p)
      PROVE  Visiting'
  <2>1. UNCHANGED todo
    BY <1>7 DEF CaseUp, InstallDown, Waste, Sweep, Clean
  <2>2. pc[p] \in {"installUp", "installDown", "urlsUp", "sweep"} => todo[p] # << >>
    BY <1>0 DEF Visiting
  <2> QED
    BY <1>2, <1>7, <2>1, <2>2 DEF CaseUp, InstallDown, Waste, Sweep, Clean
<1>8. ASSUME NEW p \in Process, PrepareInit(p) \/ RunCase(p) \/ SetupCase(p) PROVE Visiting'
  <2>1. CASE \E phase \in {"setupNginx", "downPhp", "installUp", "sweep"} :
               Goto(p, phase) /\ UNCHANGED todo
                 /\ (phase \in {"installUp", "sweep"} => todo[p] # << >>)
    BY <1>2, <2>1
  <2>2. CASE /\ UNCHANGED pc /\ \A q \in Process \ {p} : todo'[q] = todo[q]
             /\ pc[p] \in {"prepare", "train"}
    BY <1>0, <2>2 DEF Visiting
  <2>3. CASE End(p, "initialized")
    BY <1>1, <2>3 DEF End
  <2> QED
    BY <1>0, <1>8, <2>1, <2>2, <2>3 DEF PrepareInit, RunCase, SetupCase, LocalTypeOK
<1>9. ASSUME NEW p \in Process, UrlsDown(p) \/ Merge(p) PROVE Visiting'
  <2>1. CASE End(p, "error")
    BY <1>1, <2>1 DEF End
  <2>2. CASE \E phase \in {"cases", "train"} :
               Goto(p, phase) /\ todo' = [todo EXCEPT ![p] = Tail(@)]
    BY <1>0, <1>2, <2>2 DEF LocalTypeOK
  <2> QED
    BY <1>9, <2>1, <2>2 DEF UrlsDown, Merge
<1>10. ASSUME NEW p \in Process, OSGrant(p) PROVE Visiting'
  BY <1>3, <1>10 DEF OSGrant
<1>11. CASE UNCHANGED vars
  BY <1>3, <1>11
<1> QED
  BY <1>4, <1>5, <1>6, <1>7, <1>8, <1>9, <1>10, <1>11 DEF Next, Initialize, Train

LEMMA NextTypeInv ==
    ASSUME TypeInv, LockInv, [Next]_vars
    PROVE  TypeInv' /\ LockInv'
<1>1. LockInv' /\ LockTypeOK'
  BY NextKeepsLock DEF LockInv
<1> QED
  BY <1>1, NextLocalType, NextWorkType, NextProfileType, NextVisiting
     DEF TypeInv, TypeOK, LocalTypeOK

(* Type correctness of every behaviour of the tool.                        *)
THEOREM TypeCorrect == Spec => []TypeOK
<1>1. Init => TypeInv /\ LockInv
  BY InitType, LockInitInv DEF Init
<1>2. TypeInv /\ LockInv /\ [Next]_vars => (TypeInv /\ LockInv)'
  BY NextTypeInv
<1>3. TypeInv => TypeOK
  BY DEF TypeInv
<1> QED
  BY <1>1, <1>2, <1>3, PTL DEF Spec

-----------------------------------------------------------------------------
(* The use of the locks.  What a process does fits its command line, and   *)
(* the command line fits the lock it may take.                             *)
RoleInv ==
    \A p \in Process :
        /\ pc[p] \in InitPhases => Cmd(p) = "init"
        /\ pc[p] \in TrainPhases => Cmd(p) = "train"
        /\ pc[p] \in UpDownPhases => Cmd(p) \in {"train", "up", "down"}
        /\ pc[p] \in {"begin", "mkdir", "config"} => Cmd(p) # "check_init"
        /\ pc[p] \in {"lock", "wait", "waited"} => Cmd(p) \in {"init", "train"}
        /\ pc[p] # "idle" /\ Cmd(p) = "init" => Tag[p] = "pgo_init"
        /\ pc[p] # "idle" /\ Cmd(p) = "train" => Tag[p] = "pgo_train"

(* The state of its Lock object follows from where it is, and it never     *)
(* asks for anything but the exclusive lock.                               *)
UseInv ==
    \A p \in Process :
        /\ Holding(p) => status[p] = "locked"
        /\ pc[p] = "wait" => status[p] = "unlocked"
        /\ pc[p] = "waited" => status[p] \in {"waiting", "locked"}
        /\ ~Holding(p) /\ pc[p] \notin {"wait", "waited"} => status[p] = "none"
        /\ status[p] # "none" => mode[p] = "ex"

(* What a phase asks of a command, and whether it is in a locked section.  *)
Fits(phase, cmd) ==
    /\ phase \in InitPhases => cmd = "init"
    /\ phase \in TrainPhases => cmd = "train"
    /\ phase \in UpDownPhases => cmd \in {"train", "up", "down"}
    /\ phase \in {"begin", "mkdir", "config"} => cmd # "check_init"
    /\ phase \in {"lock", "wait", "waited"} => cmd \in {"init", "train"}
    /\ phase # "idle"
InSection(phase, cmd) ==
    \/ phase \in InitPhases \cup TrainPhases
    \/ phase \in UpDownPhases /\ cmd = "train"

LEMMA PhaseSets ==
    /\ InitPhases = {"prepare", "setupNginx", "stopNginx", "stopMaria", "cases",
                     "installUp", "installDown", "urlsUp", "urlsDown"}
    /\ TrainPhases = {"waste", "clean", "train", "sweep", "merge"}
    /\ UpDownPhases = {"upPhp", "upNginx", "upMaria", "downPhp", "downNginx", "downMaria"}
BY DEF InitPhases, TrainPhases, UpDownPhases

LEMMA CommandNames ==
    ASSUME TypeInv, NEW p \in Process
    PROVE  Cmd(p) \in {"init", "train", "up", "down", "check_init"}
BY PgoAssumption DEF TypeInv, TypeOK, Command, Cmd

(* A process that goes on without touching its lock.                       *)
LEMMA GoOn ==
    ASSUME TypeInv, RoleInv, UseInv, NEW p \in Process, NEW phase, Goto(p, phase),
           UNCHANGED <<opt, lockVars>>, pc[p] # "idle", Fits(phase, Cmd(p)),
           InSection(phase, Cmd(p)) <=> InSection(pc[p], Cmd(p)),
           pc[p] \notin {"wait", "waited"}, phase \notin {"wait", "waited"}
    PROVE  RoleInv' /\ UseInv'
<1>1. pc' = [pc EXCEPT ![p] = phase] /\ pc \in [Process -> Phases]
  BY DEF Goto, TypeInv, TypeOK
<1>2. UNCHANGED <<opt, status, mode>>
  BY DEF lockVars
<1>3. RoleInv'
  BY <1>1, <1>2 DEF RoleInv, Fits, Cmd
<1>4. UseInv'
  BY <1>1, <1>2 DEF UseInv, InSection, Holding, Cmd
<1> QED
  BY <1>3, <1>4

(* A process that ends, with its lock.                                     *)
LEMMA EndUse ==
    ASSUME TypeInv, LockInv, RoleInv, UseInv, NEW p \in Process, NEW o,
           \/ End(p, o)
           \/ Leave(p, o) /\ Killed(p)
    PROVE  RoleInv' /\ UseInv'
<1>1. /\ pc \in [Process -> Phases] /\ opt \in [Process -> Commands]
      /\ status \in [Process -> {"none", "unlocked", "waiting", "locked"}]
  BY DEF TypeInv, TypeOK, LockTypeOK
<1>2. pc' = [pc EXCEPT ![p] = "idle"] /\ opt' = [opt EXCEPT ![p] = NoCommand]
  BY DEF End, Leave
<1>3. status' = [status EXCEPT ![p] = "none"] /\ UNCHANGED mode
  <2>1. CASE UNCHANGED lockVars /\ status[p] = "none"
    BY <1>1, <2>1 DEF lockVars
  <2>2. CASE Destruct(p) \/ Killed(p)
    BY <2>2 DEF Destruct, Killed
  <2> QED
    BY <2>1, <2>2 DEF End
<1>4. "idle" \notin InitPhases \cup TrainPhases \cup UpDownPhases
  BY PhaseSets
<1>5. RoleInv'
  BY <1>1, <1>2, <1>4 DEF RoleInv, Cmd
<1>6. UseInv'
  BY <1>1, <1>2, <1>3, <1>4 DEF UseInv, Holding, Cmd
<1> QED
  BY <1>5, <1>6

LEMMA NextUse ==
    ASSUME TypeInv, LockInv, RoleInv, UseInv, [Next]_vars
    PROVE  RoleInv' /\ UseInv'
<1> USE PhaseSets
<1>0. /\ pc \in [Process -> Phases] /\ opt \in [Process -> Commands]
      /\ status \in [Process -> {"none", "unlocked", "waiting", "locked"}]
      /\ mode \in [Process -> Modes]
  BY DEF TypeInv, TypeOK, LockTypeOK
<1>1. ASSUME NEW p \in Process
      PROVE  /\ pc[p] \in InitPhases => Cmd(p) = "init"
             /\ pc[p] \in TrainPhases => Cmd(p) = "train"
             /\ pc[p] \in UpDownPhases => Cmd(p) \in {"train", "up", "down"}
             /\ pc[p] \in {"begin", "mkdir", "config"} => Cmd(p) # "check_init"
             /\ pc[p] = "lock" => Cmd(p) \in {"init", "train"}
  BY DEF RoleInv
<1>2. ASSUME NEW p \in Process, Start(p) PROVE RoleInv' /\ UseInv'
  <2>1. PICK c \in Commands :
          /\ c.cmd = "init" => Tag[p] = "pgo_init"
          /\ c.cmd = "train" => Tag[p] = "pgo_train"
          /\ opt' = [opt EXCEPT ![p] = c]
          /\ pc' = [pc EXCEPT ![p] = IF c.cmd = "check_init" THEN "check" ELSE "begin"]
    BY <1>2 DEF Start
  <2>2. pc[p] = "idle" /\ UNCHANGED <<status, mode>>
    BY <1>2 DEF Start, lockVars
  <2>3. status[p] = "none"
    BY <2>2 DEF UseInv, Holding
  <2>4. RoleInv'
    BY <1>0, <2>1 DEF RoleInv, Cmd
  <2>5. UseInv'
    BY <1>0, <2>1, <2>2, <2>3 DEF UseInv, Holding, Cmd
  <2> QED
    BY <2>4, <2>5
<1>3. ASSUME NEW p \in Process, NEW o, End(p, o) PROVE RoleInv' /\ UseInv'
  BY <1>3, EndUse
<1>4. ASSUME NEW p \in Process, Construct(p) \/ InitWorkDir(p) \/ LoadConfig(p)
      PROVE  RoleInv' /\ UseInv'
  <2>1. CASE \E o : End(p, o)
    BY <1>3, <2>1
  <2>2. CASE ~\E o : End(p, o)
    <3>1. PICK phase : /\ Goto(p, phase) /\ UNCHANGED <<opt, lockVars>>
                       /\ pc[p] \in {"begin", "mkdir", "config"}
                       /\ \/ phase \in {"config", "mkdir"}
                          \/ phase = "lock" /\ Cmd(p) \in {"init", "train"}
                          \/ phase \in {"upPhp", "downPhp"} /\ Cmd(p) \in {"up", "down"}
      BY <1>1, <1>4, <2>2, CommandNames DEF Construct, InitWorkDir, LoadConfig
    <3>2. Fits(phase, Cmd(p)) /\ ~InSection(phase, Cmd(p)) /\ ~InSection(pc[p], Cmd(p))
      BY <1>1, <3>1 DEF Fits, InSection
    <3> QED
      BY <3>1, <3>2, GoOn
  <2> QED
    BY <2>1, <2>2
<1>5. ASSUME NEW p \in Process, TakeLock(p) PROVE RoleInv' /\ UseInv'
  <2>1. /\ pc[p] = "lock" /\ status[p] = "none" /\ DoLock(p, "ex", FALSE)
        /\ UNCHANGED opt
    BY <1>5 DEF TakeLock, New
  <2>2. /\ mode' = [mode EXCEPT ![p] = "ex"]
        /\ \/ status' = [status EXCEPT ![p] = "locked"]
           \/ status' = [status EXCEPT ![p] = "unlocked"]
    BY <2>1 DEF DoLock, Locked, CanOpen
  <2>3. \/ status'[p] = "locked" /\ pc' = [pc EXCEPT ![p] = Section(p)]
        \/ status'[p] = "unlocked" /\ pc' = [pc EXCEPT ![p] = "wait"]
    BY <1>0, <1>5, <2>2 DEF TakeLock, Goto, Locked
  <2>4. RoleInv'
    BY <1>0, <1>1, <2>1, <2>3 DEF RoleInv, Cmd, Section
  <2>5. UseInv'
    BY <1>0, <1>1, <2>1, <2>2, <2>3 DEF UseInv, Holding, Cmd, Section
  <2> QED
    BY <2>4, <2>5
<1>6. ASSUME NEW p \in Process, WaitForOther(p) PROVE RoleInv' /\ UseInv'
  <2>1. /\ pc[p] = "wait" /\ status[p] = "unlocked" /\ DoLock(p, "ex", TRUE)
        /\ UNCHANGED opt /\ pc' = [pc EXCEPT ![p] = "waited"]
    BY <1>6 DEF WaitForOther, Request, UseInv, Goto
  <2>2. /\ mode' = [mode EXCEPT ![p] = "ex"]
        /\ \/ status' = [status EXCEPT ![p] = "locked"]
           \/ status' = [status EXCEPT ![p] = "waiting"]
    BY <2>1 DEF DoLock, Locked, CanOpen
  <2>3. RoleInv'
    BY <1>0, <2>1 DEF RoleInv, Cmd
  <2>4. UseInv'
    BY <1>0, <2>1, <2>2 DEF UseInv, Holding, Cmd
  <2> QED
    BY <2>3, <2>4
<1>7. ASSUME NEW p \in Process, OSGrant(p) PROVE RoleInv' /\ UseInv'
  <2>1. /\ status[p] = "waiting" /\ status' = [status EXCEPT ![p] = "locked"]
        /\ UNCHANGED <<pc, opt, mode>>
    BY <1>7 DEF OSGrant, Grant
  <2>2. pc[p] = "waited"
    BY <2>1 DEF UseInv
  <2> QED
    BY <1>0, <2>1, <2>2 DEF RoleInv, UseInv, Holding, Cmd
<1>8. ASSUME NEW p \in Process, WaitOver(p) PROVE RoleInv' /\ UseInv'
  <2>1. CASE End(p, "byother")
    BY <1>3, <2>1
  <2>2. CASE Cmd(p) = "train" /\ Goto(p, "upPhp") /\ UNCHANGED <<opt, lockVars>>
    <3>1. status[p] = "locked" /\ pc[p] = "waited"
      BY <1>8 DEF WaitOver, Locked, UseInv
    <3> QED
      BY <1>0, <2>2, <3>1 DEF Goto, lockVars, RoleInv, UseInv, Holding, Cmd
  <2> QED
    BY <1>8, <2>1, <2>2 DEF WaitOver, Section
<1>9. ASSUME NEW p \in Process, Initialize(p) PROVE RoleInv' /\ UseInv'
  <2>1. CASE \E o : End(p, o)
    BY <1>3, <2>1
  <2>2. CASE /\ UNCHANGED <<pc, opt, lockVars>>
    BY <2>2 DEF RoleInv, UseInv, Holding, Cmd, lockVars
  <2>3. CASE \E phase \in InitPhases : Goto(p, phase) /\ UNCHANGED <<opt, lockVars>>
    <3>1. pc[p] \in InitPhases
      BY <1>9 DEF Initialize, PrepareInit, SetupNginx, StopNginx, StopMaria,
                  SetupCase, CaseUp, InstallDown, UrlsDown
    <3>2. PICK phase \in InitPhases : Goto(p, phase) /\ UNCHANGED <<opt, lockVars>>
      BY <2>3
    <3>3. Fits(phase, Cmd(p)) /\ InSection(phase, Cmd(p)) /\ InSection(pc[p], Cmd(p))
      BY <1>1, <3>1 DEF Fits, InSection
    <3> QED
      BY <3>1, <3>2, <3>3, GoOn
  <2> QED
    BY <1>9, <2>1, <2>2, <2>3 DEF Initialize, PrepareInit, SetupNginx, StopNginx, StopMaria,
                                  SetupCase, CaseUp, InstallDown, UrlsDown
<1>10. ASSUME NEW p \in Process, Train(p) PROVE RoleInv' /\ UseInv'
  <2>1. CASE UNCHANGED <<pc, opt, lockVars>>
    BY <2>1 DEF RoleInv, UseInv, Holding, Cmd, lockVars
  <2>2. CASE \E phase \in TrainPhases \cup {"downPhp"} :
               Goto(p, phase) /\ UNCHANGED <<opt, lockVars>>
    <3>1. pc[p] \in TrainPhases
      BY <1>10 DEF Train, Waste, Clean, RunCase, Sweep, Merge
    <3>2. PICK phase \in TrainPhases \cup {"downPhp"} :
               Goto(p, phase) /\ UNCHANGED <<opt, lockVars>>
      BY <2>2
    <3>3. Fits(phase, Cmd(p)) /\ InSection(phase, Cmd(p)) /\ InSection(pc[p], Cmd(p))
      BY <1>1, <3>1 DEF Fits, InSection
    <3> QED
      BY <3>1, <3>2, <3>3, GoOn
  <2> QED
    BY <1>10, <2>1, <2>2 DEF Train, Waste, Clean, RunCase, Sweep, Merge
<1>11. ASSUME NEW p \in Process, UpDown(p) PROVE RoleInv' /\ UseInv'
  <2>1. CASE \E o : End(p, o)
    BY <1>3, <2>1
  <2>2. CASE \E phase \in UpDownPhases \cup {"waste"} :
               /\ Goto(p, phase) /\ UNCHANGED <<opt, lockVars>>
               /\ phase = "waste" => Cmd(p) = "train"
    <3>1. pc[p] \in UpDownPhases
      BY <1>11 DEF UpDown, UpPhp, UpNginx, UpMaria, DownPhp, DownNginx, DownMaria
    <3>2. PICK phase \in UpDownPhases \cup {"waste"} :
               /\ Goto(p, phase) /\ UNCHANGED <<opt, lockVars>>
               /\ phase = "waste" => Cmd(p) = "train"
      BY <2>2
    <3>3. /\ Fits(phase, Cmd(p))
          /\ InSection(phase, Cmd(p)) <=> InSection(pc[p], Cmd(p))
      BY <1>1, <3>1, <3>2 DEF Fits, InSection
    <3> QED
      BY <3>1, <3>2, <3>3, GoOn
  <2> QED
    BY <1>11, <2>1, <2>2 DEF UpDown, UpPhp, UpNginx, UpMaria, DownPhp, DownNginx, DownMaria
<1>12. ASSUME NEW p \in Process, CheckInit(p) \/ Fail(p) PROVE RoleInv' /\ UseInv'
  BY <1>3, <1>12 DEF CheckInit, Fail
<1>13. ASSUME NEW p \in Process, Crash(p) PROVE RoleInv' /\ UseInv'
  BY <1>13, EndUse DEF Crash
<1>14. CASE UNCHANGED vars
  BY <1>14 DEF RoleInv, UseInv, Holding, Cmd, lockVars
<1> QED
  BY <1>2, <1>4, <1>5, <1>6, <1>7, <1>8, <1>9, <1>10, <1>11, <1>12, <1>13, <1>14 DEF Next

LEMMA InitUse == Init => RoleInv /\ UseInv
BY PhaseSets DEF Init, LockInit, RoleInv, UseInv, Holding

(* The inductive invariant so far, and what it says of the sections.       *)
PgoInv == TypeInv /\ LockInv /\ RoleInv /\ UseInv

LEMMA PgoInvInit == Init => PgoInv
BY InitType, LockInitInv, InitUse DEF Init, PgoInv

LEMMA PgoInvNext == PgoInv /\ [Next]_vars => PgoInv'
BY NextTypeInv, NextUse DEF PgoInv

(* Two processes in a section of the same lock are the same process.       *)
LEMMA OneAtATime ==
    ASSUME PgoInv, NEW p \in Process, NEW q \in Process,
           Holding(p), Holding(q), Tag[p] = Tag[q]
    PROVE  p = q
<1>1. granted[p] = "ex" /\ granted[q] = "ex"
  BY DEF PgoInv, UseInv, LockInv, Locked
<1> QED
  BY <1>1 DEF PgoInv, LockInv

(* The locked sections of initialization and of training are entered by    *)
(* one process at a time, which has the lock (Controller.php:72).          *)
THEOREM LockUseCorrect == Spec => []LockUse
<1>1. PgoInv => LockUse
  BY OneAtATime DEF PgoInv, UseInv, LockUse
<1> QED
  BY <1>1, PgoInvInit, PgoInvNext, PTL DEF Spec

-----------------------------------------------------------------------------
(* Proofs about what a training and an initialization leave behind, for    *)
(* any processes, cases and command lines and with all the faults.         *)

USE DEF work, servers, profile, locals, pgoVars, vars,
        Dump, ImportSection, GenerateSection, FreshConf, AddServer

-----------------------------------------------------------------------------
(* What two commands mean for each other.                                  *)
Active(p) == pc[p] # "idle"

(* Nothing that was counted as a disturbance is running.                   *)
CalmInv ==
    \A p \in Process : \A q \in Process \ {p} :
        Active(p) /\ Active(q) /\ ~disturbed[p] => ~Disturbs(Cmd(q), Cmd(p))

LEMMA LeaveFrame ==
    ASSUME TypeInv, NEW p \in Process, NEW o, Leave(p, o)
    PROVE  /\ pc' = [pc EXCEPT ![p] = "idle"] /\ opt' = [opt EXCEPT ![p] = NoCommand]
           /\ disturbed' = [disturbed EXCEPT ![p] = FALSE]
           /\ \A q \in Process \ {p} :
                /\ pc'[q] = pc[q] /\ opt'[q] = opt[q] /\ mem'[q] = mem[q]
                /\ todo'[q] = todo[q] /\ idx'[q] = idx[q]
                /\ disturbed'[q] = disturbed[q] /\ report'[q] = ""
           /\ report'[p] = o /\ pc'[p] = "idle" /\ mem'[p] = NoSections
BY DEF Leave, TypeInv, TypeOK, NoReport

(* A step of p, whichever it is, changes nobody else's variables; it ends  *)
(* p or goes on with p's command.                                          *)
LEMMA StepFrame ==
    ASSUME TypeInv, NEW p \in Process,
           \/ CheckInit(p) \/ Construct(p) \/ InitWorkDir(p) \/ LoadConfig(p)
           \/ TakeLock(p) \/ WaitForOther(p) \/ OSGrant(p) \/ WaitOver(p)
           \/ Initialize(p) \/ Train(p) \/ UpDown(p) \/ Fail(p) \/ Crash(p)
    PROVE  /\ \A q \in Process \ {p} :
                /\ pc'[q] = pc[q] /\ opt'[q] = opt[q] /\ mem'[q] = mem[q]
                /\ todo'[q] = todo[q] /\ idx'[q] = idx[q]
                /\ disturbed'[q] = disturbed[q] /\ report'[q] = ""
           /\ \/ pc'[p] = "idle"
              \/ Active(p) /\ opt'[p] = opt[p] /\ disturbed'[p] = disturbed[p]
<1> DEFINE Frame ==
      /\ \A q \in Process \ {p} :
            /\ pc'[q] = pc[q] /\ opt'[q] = opt[q] /\ mem'[q] = mem[q]
            /\ todo'[q] = todo[q] /\ idx'[q] = idx[q]
            /\ disturbed'[q] = disturbed[q] /\ report'[q] = ""
      /\ \/ pc'[p] = "idle"
         \/ Active(p) /\ opt'[p] = opt[p] /\ disturbed'[p] = disturbed[p]
<1>0. /\ pc \in [Process -> Phases] /\ opt \in [Process -> Commands]
      /\ mem \in [Process -> Sections] /\ todo \in [Process -> Seq(Case)]
      /\ idx \in [Process -> Nat] /\ disturbed \in [Process -> BOOLEAN]
      /\ report \in [Process -> Outcomes]
  BY DEF TypeInv, TypeOK
<1>1. ASSUME NEW o, Leave(p, o) PROVE Frame
  BY <1>1, LeaveFrame
<1>2. ASSUME NEW phase, Goto(p, phase), Active(p), UNCHANGED <<opt, disturbed>>,
             \A q \in Process \ {p} : mem'[q] = mem[q] /\ todo'[q] = todo[q] /\ idx'[q] = idx[q]
      PROVE  Frame
  BY <1>0, <1>2 DEF Goto, Silent, NoReport, Active
<1>3. ASSUME Silent, UNCHANGED <<pc, opt, disturbed, idx>>, Active(p),
             \A q \in Process \ {p} : mem'[q] = mem[q] /\ todo'[q] = todo[q]
      PROVE  Frame
  BY <1>3 DEF Silent, NoReport
<1>4. ASSUME NEW c, NEW v, Current(p, c) \/ SetSection(p, c, v)
      PROVE  \A q \in Process \ {p} : mem'[q] = mem[q]
  BY <1>0, <1>4 DEF Current, SetSection
<1>5. CASE CheckInit(p) \/ Construct(p) \/ InitWorkDir(p) \/ LoadConfig(p)
  BY <1>0, <1>1, <1>2, <1>5 DEF CheckInit, Construct, InitWorkDir, LoadConfig, End, Active
<1>6. CASE TakeLock(p) \/ WaitForOther(p) \/ WaitOver(p)
  BY <1>0, <1>1, <1>2, <1>6 DEF TakeLock, WaitForOther, WaitOver, End, Active
<1>7. CASE OSGrant(p)
  <2>1. CASE Active(p)
    BY <1>3, <1>7, <2>1 DEF OSGrant
  <2>2. CASE ~Active(p)
    BY <1>7, <2>2 DEF OSGrant, Silent, NoReport, Active
  <2> QED
    BY <2>1, <2>2
<1>8. CASE PrepareInit(p) \/ RunCase(p)
  <2>1. Active(p) /\ \A q \in Process \ {p} : mem'[q] = mem[q] /\ todo'[q] = todo[q]
    BY <1>0, <1>4, <1>8 DEF PrepareInit, RunCase, Active
  <2>2. (\E phase : Goto(p, phase)) \/ (Silent /\ UNCHANGED pc)
    BY <1>8 DEF PrepareInit, RunCase
  <2>3. UNCHANGED <<opt, disturbed, idx>>
    BY <1>8 DEF PrepareInit, RunCase
  <2> QED
    BY <1>2, <1>3, <2>1, <2>2, <2>3
<1>9. CASE SetupCase(p)
  BY <1>1, <1>2, <1>4, <1>9 DEF SetupCase, End, Active
<1>10. CASE SetupNginx(p) \/ StopNginx(p) \/ StopMaria(p) \/ CaseUp(p) \/ InstallDown(p)
            \/ UrlsDown(p)
  BY <1>0, <1>1, <1>2, <1>10 DEF SetupNginx, StopNginx, StopMaria, CaseUp, InstallDown,
     UrlsDown, End, Active
<1>11. CASE Waste(p) \/ Clean(p) \/ Sweep(p) \/ Merge(p)
  BY <1>0, <1>2, <1>11 DEF Waste, Clean, Sweep, Merge, SweepCounters, Active
<1>12. CASE UpDown(p)
  BY <1>1, <1>2, <1>12 DEF UpDown, UpPhp, UpNginx, UpMaria, DownPhp, DownNginx, DownMaria,
     End, Active
<1>13. CASE Fail(p) \/ Crash(p)
  BY <1>1, <1>13 DEF Fail, Crash, End
<1> QED
  BY <1>5, <1>6, <1>7, <1>8, <1>9, <1>10, <1>11, <1>12, <1>13 DEF Initialize, Train

LEMMA CalmInit == Init => CalmInv
BY DEF Init, CalmInv, Active

LEMMA CalmNext ==
    ASSUME TypeInv, CalmInv, [Next]_vars
    PROVE  CalmInv'
<1>0. /\ pc \in [Process -> Phases] /\ opt \in [Process -> Commands]
      /\ disturbed \in [Process -> BOOLEAN]
  BY DEF TypeInv, TypeOK
<1>1. ASSUME NEW r \in Process, Start(r) PROVE CalmInv'
  <2>1. PICK c \in Commands :
          /\ opt' = [opt EXCEPT ![r] = c]
          /\ pc' = [pc EXCEPT ![r] = IF c.cmd = "check_init" THEN "check" ELSE "begin"]
          /\ disturbed' = [q \in Process |->
               IF q = r THEN \E s \in Running : Disturbs(Cmd(s), c.cmd)
               ELSE disturbed[q] \/ (q \in Running /\ Disturbs(c.cmd, Cmd(q)))]
    BY <1>1 DEF Start
  <2>2. opt'[r] = c /\ \A q \in Process \ {r} : opt'[q] = opt[q] /\ pc'[q] = pc[q]
    BY <1>0, <2>1
  <2>3. ASSUME NEW p \in Process, NEW q \in Process \ {p}, Active(p)', Active(q)',
               ~disturbed'[p]
        PROVE  ~Disturbs(opt'[q].cmd, opt'[p].cmd)
    <3>1. CASE p = r
      <4>1. q \in Running /\ opt'[q] = opt[q]
        BY <2>2, <2>3, <3>1 DEF Running, Active
      <4>2. ~\E s \in Running : Disturbs(Cmd(s), c.cmd)
        BY <2>1, <2>3, <3>1
      <4> QED
        BY <2>2, <3>1, <4>1, <4>2 DEF Cmd
    <3>2. CASE q = r
      <4>1. p \in Running /\ opt'[p] = opt[p]
        BY <2>2, <2>3, <3>2 DEF Running, Active
      <4>2. ~Disturbs(c.cmd, Cmd(p))
        BY <2>1, <2>3, <3>2, <4>1
      <4> QED
        BY <2>2, <3>2, <4>1, <4>2 DEF Cmd
    <3>3. CASE p # r /\ q # r
      <4>1. ~disturbed[p] /\ Active(p) /\ Active(q)
        BY <2>1, <2>2, <2>3, <3>3 DEF Active
      <4> QED
        BY <2>2, <3>3, <4>1 DEF CalmInv, Cmd
    <3> QED
      BY <3>1, <3>2, <3>3
  <2> QED
    BY <2>3 DEF CalmInv, Cmd
<1>2. ASSUME NEW r \in Process,
             /\ \A q \in Process \ {r} :
                  pc'[q] = pc[q] /\ opt'[q] = opt[q] /\ disturbed'[q] = disturbed[q]
             /\ \/ pc'[r] = "idle"
                \/ Active(r) /\ opt'[r] = opt[r] /\ disturbed'[r] = disturbed[r]
      PROVE  CalmInv'
  BY <1>2 DEF CalmInv, Active, Cmd
<1>3. ASSUME NEW p \in Process,
             \/ CheckInit(p) \/ Construct(p) \/ InitWorkDir(p) \/ LoadConfig(p)
             \/ TakeLock(p) \/ WaitForOther(p) \/ OSGrant(p) \/ WaitOver(p)
             \/ Initialize(p) \/ Train(p) \/ UpDown(p) \/ Fail(p) \/ Crash(p)
      PROVE  CalmInv'
  BY <1>2, <1>3, StepFrame
<1>4. CASE UNCHANGED vars
  BY <1>4 DEF CalmInv, Active, Cmd
<1> QED
  BY <1>1, <1>3, <1>4 DEF Next

-----------------------------------------------------------------------------
(* The state that a training works on, and the one an initialization of    *)
(* the cases works on.                                                     *)
TrainVars == <<php, serving, counters, pgc, pgd, job, vhosts>>

(* Nobody else works in the section of p's lock.                           *)
LEMMA OthersOutside ==
    ASSUME PgoInv, NEW p \in Process, Holding(p), NEW r \in Process \ {p}, Active(r),
           Cmd(r) = Cmd(p), Cmd(p) \in {"init", "train"}
    PROVE  ~Holding(r)
<1>1. Tag[r] = Tag[p]
  BY PhaseSets DEF PgoInv, RoleInv, Active, Holding
<1> QED
  BY <1>1, OneAtATime

(* While a training is calm, the steps of others leave what it works on    *)
(* alone.                                                                  *)
Calm(p) == Holding(p) /\ ~disturbed[p]

LEMMA OthersLeaveTraining ==
    ASSUME PgoInv, CalmInv, NEW p \in Process, Calm(p), Cmd(p) = "train",
           NEW r \in Process \ {p},
           \/ Start(r)
           \/ CheckInit(r) \/ Construct(r) \/ InitWorkDir(r) \/ LoadConfig(r)
           \/ TakeLock(r) \/ WaitForOther(r) \/ OSGrant(r) \/ WaitOver(r)
           \/ Initialize(r) \/ Train(r) \/ UpDown(r) \/ Fail(r) \/ Crash(r)
    PROVE  UNCHANGED TrainVars
<1>1. CASE \/ Start(r)
           \/ CheckInit(r) \/ Construct(r) \/ InitWorkDir(r) \/ LoadConfig(r)
           \/ TakeLock(r) \/ WaitForOther(r) \/ OSGrant(r) \/ WaitOver(r)
           \/ Fail(r) \/ Crash(r)
  BY <1>1 DEF Start, CheckInit, Construct, InitWorkDir, LoadConfig, TakeLock, WaitForOther,
     OSGrant, WaitOver, Fail, Crash, TrainVars
<1>2. ASSUME pc[r] \in InitPhases \cup TrainPhases \cup UpDownPhases PROVE FALSE
  <2>1. Active(r) /\ Active(p)
    BY <1>2, PhaseSets DEF Active, Calm, Holding
  <2>2. ~Disturbs(Cmd(r), "train")
    BY <2>1 DEF CalmInv, Calm
  <2>3. Cmd(r) \in {"train", "check_init"}
    BY <2>2, CommandNames DEF PgoInv, Disturbs
  <2>4. Cmd(r) = "train"
    BY <1>2, <2>3 DEF PgoInv, RoleInv
  <2>5. Holding(r)
    BY <1>2, <2>4 DEF PgoInv, RoleInv, Holding
  <2> QED
    BY <2>1, <2>4, <2>5, OthersOutside DEF Calm
<1>3. ~(Initialize(r) \/ Train(r) \/ UpDown(r))
  BY <1>2, PhaseSets DEF Initialize, Train, UpDown, PrepareInit, SetupNginx, StopNginx,
     StopMaria, SetupCase, CaseUp, InstallDown, UrlsDown, Waste, Clean, RunCase, Sweep, Merge,
     UpPhp, UpNginx, UpMaria, DownPhp, DownNginx, DownMaria
<1> QED
  BY <1>1, <1>3

-----------------------------------------------------------------------------
(* Where the profile data is while p trains: the parts of the invariant.   *)
Downs == {"downPhp", "downNginx", "downMaria"}
Works(c) == job[c] = "urls" /\ c \in vhosts
Left(p, c) == \E i \in 1 .. Len(todo[p]) : todo[p][i] = c

(* The servers it needs run, and serve every configured case.              *)
TrainServers(p) ==
    /\ pc[p] \in {"upNginx", "upMaria"} \cup TrainPhases => php
    /\ pc[p] \in {"upMaria"} \cup TrainPhases => vhosts \subseteq serving
    /\ pc[p] \in {"downNginx", "downMaria"} => ~php

(* Between two cases there is no data outside the .pgd file.               *)
TrainClean(p) ==
    /\ pc[p] \in {"clean", "train", "merge"} => counters = {}
    /\ pc[p] \in {"train", "sweep"} \cup Downs => DOMAIN pgc = {}
    /\ pc[p] = "merge" => DOMAIN pgc = {idx[p]}

(* What is collected belongs to cases that were asked for ...              *)
TrainOnly(p) ==
    /\ pc[p] \in {"train", "sweep", "merge"} \cup Downs => pgd \subseteq opt[p].want
    /\ pc[p] = "sweep" => counters \subseteq opt[p].want
    /\ pc[p] = "merge" => pgc[idx[p]] \subseteq opt[p].want

(* ... and none of these is forgotten: it was merged or is still to come.  *)
TrainAll(p) ==
    \A c \in opt[p].want : Works(c) =>
        /\ \/ pc[p] \in {"train", "sweep", "merge"} \cup Downs /\ c \in pgd
           \/ pc[p] \in {"upPhp", "upNginx", "upMaria"} \cup TrainPhases /\ Left(p, c)
        /\ pc[p] = "sweep" /\ c = Head(todo[p]) => c \in counters
        /\ pc[p] = "merge" /\ c = Head(todo[p]) => c \in pgc[idx[p]]

TrainFacts(p) == TrainServers(p) /\ TrainClean(p) /\ TrainOnly(p) /\ TrainAll(p)
TrainInv == \A p \in Process : Calm(p) /\ Cmd(p) = "train" => TrainFacts(p)

(* An element of a list is its head or an element of its tail.             *)
LEMMA HeadOrTail ==
    ASSUME NEW s \in Seq(Case), s # << >>, NEW i \in 1 .. Len(s)
    PROVE  s[i] = Head(s) \/ \E j \in 1 .. Len(Tail(s)) : Tail(s)[j] = s[i]
<1>1. CASE i = 1
  BY <1>1
<1>2. CASE i # 1
  <2>1. i - 1 \in 1 .. Len(Tail(s)) /\ Tail(s)[i - 1] = s[i]
    BY <1>2
  <2> QED
    BY <2>1
<1> QED
  BY <1>1, <1>2

(* Every case is in the list that init() and train() start from.           *)
LEMMA AllCases ==
    ASSUME NEW c \in Case
    PROVE  \E i \in 1 .. Len(Cases) : Cases[i] = c
BY PgoAssumption DEF Case

(* The steps of the training itself, one by one.                           *)
LEMMA EnterSection ==
    ASSUME TypeInv, NEW p \in Process, Cmd(p) = "train", UNCHANGED opt,
           pc'[p] = "upPhp", todo'[p] = Cases
    PROVE  TrainFacts(p)'
<1>1. opt[p].want \subseteq Case
  BY PgoAssumption DEF TypeInv, TypeOK, Command
<1>2. \A c \in opt[p].want : Left(p, c)'
  BY <1>1, AllCases DEF Left
<1> QED
  BY <1>2, PhaseSets DEF TrainFacts, TrainServers, TrainClean, TrainOnly, TrainAll, Downs

LEMMA UpStep ==
    ASSUME TypeInv, NEW p \in Process, Cmd(p) = "train", TrainFacts(p),
           UpPhp(p) \/ UpNginx(p) \/ UpMaria(p)
    PROVE  TrainFacts(p)'
<1>0. pc \in [Process -> Phases]
  BY DEF TypeInv, TypeOK
<1>1. UNCHANGED <<opt, todo, job, vhosts>>
  BY DEF UpPhp, UpNginx, UpMaria
<1>2. \/ pc[p] = "upPhp" /\ pc'[p] = "upNginx" /\ php'
      \/ pc[p] = "upNginx" /\ pc'[p] = "upMaria" /\ UNCHANGED php /\ vhosts \subseteq serving'
      \/ pc[p] = "upMaria" /\ pc'[p] = "waste" /\ UNCHANGED <<php, serving>>
  BY <1>0 DEF UpPhp, UpNginx, UpMaria, Goto, StartPhp, StartNginx
<1>3. \A c \in opt[p].want : Works(c) => Left(p, c)
  BY <1>2, PhaseSets DEF TrainFacts, TrainAll, Downs
<1>4. \A c \in opt[p].want : Works(c)' => Left(p, c)'
  BY <1>1, <1>3 DEF Works, Left
<1>5. TrainServers(p)'
  BY <1>1, <1>2, PhaseSets DEF TrainFacts, TrainServers
<1> QED
  BY <1>1, <1>2, <1>4, <1>5, PhaseSets DEF TrainFacts, TrainClean, TrainOnly, TrainAll, Downs

LEMMA WasteStep ==
    ASSUME TypeInv, NEW p \in Process, TrainFacts(p), Waste(p) \/ Clean(p)
    PROVE  TrainFacts(p)'
<1>0. pc \in [Process -> Phases] /\ PgcFinite
  BY DEF TypeInv, TypeOK
<1>1. UNCHANGED <<opt, todo, job, vhosts, php, serving>>
  BY DEF Waste, Clean
<1>2. php /\ vhosts \subseteq serving
  BY PhaseSets DEF TrainFacts, TrainServers, Waste, Clean
<1>3. \/ pc[p] = "waste" /\ pc'[p] = "clean" /\ counters' = {}
      \/ pc[p] = "clean" /\ pc'[p] = "train" /\ counters' = {} /\ pgc' = NoFiles /\ pgd' = {}
  BY <1>0, <1>2, SweepFacts DEF Waste, Clean, Goto, TrainFacts, TrainClean
<1>4. DOMAIN NoFiles = {}
  BY DEF NoFiles
<1>5. \A c \in opt[p].want : Works(c) => Left(p, c)
  BY <1>3, PhaseSets DEF TrainFacts, TrainAll, Downs
<1>6. \A c \in opt[p].want : Works(c)' => Left(p, c)'
  BY <1>1, <1>5 DEF Works, Left
<1> QED
  BY <1>1, <1>2, <1>3, <1>4, <1>6, PhaseSets
     DEF TrainFacts, TrainServers, TrainClean, TrainOnly, TrainAll, Downs

LEMMA RunCaseStep ==
    ASSUME TypeInv, NEW p \in Process, TrainFacts(p), RunCase(p)
    PROVE  TrainFacts(p)'
<1>0. pc \in [Process -> Phases] /\ todo \in [Process -> Seq(Case)]
  BY DEF TypeInv, TypeOK
<1>1. UNCHANGED <<opt, job, vhosts, php, serving, pgd, idx>> /\ pc[p] = "train"
  BY DEF RunCase
<1>2. php /\ vhosts \subseteq serving /\ counters = {} /\ DOMAIN pgc = {}
      /\ pgd \subseteq opt[p].want
  BY <1>1, PhaseSets DEF TrainFacts, TrainServers, TrainClean, TrainOnly
<1>3. \A c \in opt[p].want : Works(c) => c \in pgd \/ Left(p, c)
  BY <1>1 DEF TrainFacts, TrainAll
<1>4. CASE todo[p] # << >> /\ Head(todo[p]) \in opt[p].want
  <2> DEFINE h == Head(todo[p])
  <2>1. /\ pc'[p] = "sweep" /\ todo'[p] = todo[p] /\ UNCHANGED pgc
        /\ counters' = counters \cup (IF job[h] = "urls" /\ Served(h) THEN {h} ELSE {})
    BY <1>0, <1>4 DEF RunCase, RunWeb, Goto
  <2>2. Works(h) => h \in counters'
    BY <1>2, <2>1 DEF Works, Served
  <2>3. counters' \subseteq opt[p].want
    BY <1>2, <1>4, <2>1
  <2>4. \A c \in opt[p].want : Works(c)' => c \in pgd' \/ Left(p, c)'
    BY <1>1, <1>3, <2>1 DEF Works, Left
  <2>5. TrainAll(p)'
    BY <1>1, <2>1, <2>2, <2>4, PhaseSets DEF TrainAll, Works, Downs
  <2> QED
    BY <1>1, <1>2, <2>1, <2>3, <2>5, PhaseSets
       DEF TrainFacts, TrainServers, TrainClean, TrainOnly, Downs
<1>5. CASE todo[p] # << >> /\ Head(todo[p]) \notin opt[p].want
  <2>1. pc'[p] = "train" /\ todo'[p] = Tail(todo[p]) /\ UNCHANGED <<pgc, counters>>
    BY <1>0, <1>1, <1>5 DEF RunCase
  <2>2. \A c \in opt[p].want : Left(p, c) => Left(p, c)'
    BY <1>0, <1>5, <2>1, HeadOrTail DEF Left
  <2>3. \A c \in opt[p].want : Works(c)' => c \in pgd' \/ Left(p, c)'
    BY <1>1, <1>3, <2>2 DEF Works
  <2> QED
    BY <1>1, <1>2, <2>1, <2>3, PhaseSets
       DEF TrainFacts, TrainServers, TrainClean, TrainOnly, TrainAll, Downs
<1>6. CASE todo[p] = << >>
  <2>1. pc'[p] = "downPhp" /\ pgc' = NoFiles
    BY <1>0, <1>6 DEF RunCase, Goto
  <2>2. DOMAIN pgc' = {}
    BY <2>1 DEF NoFiles
  <2>3. \A c \in opt[p].want : Works(c)' => c \in pgd'
    BY <1>1, <1>3, <1>6 DEF Works, Left
  <2> QED
    BY <1>1, <1>2, <2>1, <2>2, <2>3, PhaseSets
       DEF TrainFacts, TrainServers, TrainClean, TrainOnly, TrainAll, Downs
<1> QED
  BY <1>4, <1>5, <1>6

LEMMA DumpStep ==
    ASSUME TypeInv, NEW p \in Process, TrainFacts(p), Sweep(p) \/ Merge(p)
    PROVE  TrainFacts(p)'
<1>0. /\ pc \in [Process -> Phases] /\ todo \in [Process -> Seq(Case)]
      /\ idx \in [Process -> Nat] /\ PgcFinite
  BY DEF TypeInv, TypeOK
<1>1. UNCHANGED <<opt, job, vhosts, php, serving>>
  BY DEF Sweep, Merge
<1>2. php /\ vhosts \subseteq serving /\ pgd \subseteq opt[p].want
  BY PhaseSets DEF Sweep, Merge, TrainFacts, TrainServers, TrainOnly
<1>3. \A c \in opt[p].want : Works(c) => c \in pgd \/ Left(p, c)
  BY DEF Sweep, Merge, TrainFacts, TrainAll
<1>4. CASE Sweep(p)
  <2>1. /\ pc[p] = "sweep" /\ pc'[p] = "merge" /\ idx'[p] = NextIndex
        /\ UNCHANGED todo /\ SweepCounters(p)
    BY <1>0, <1>4 DEF Sweep, SweepCounters, Goto
  <2>2. /\ counters' = {} /\ DOMAIN pgc' = {NextIndex} /\ pgc'[NextIndex] = counters
        /\ UNCHANGED pgd
    BY <1>0, <1>2, <2>1, SweepFacts DEF TrainFacts, TrainClean
  <2>3. counters \subseteq opt[p].want
    BY <2>1 DEF TrainFacts, TrainOnly
  <2>4. \A c \in opt[p].want : Works(c) /\ c = Head(todo[p]) => c \in counters
    BY <2>1 DEF TrainFacts, TrainAll
  <2>5. TrainAll(p)'
    BY <1>1, <1>3, <2>1, <2>2, <2>4, PhaseSets DEF TrainAll, Works, Left, Downs
  <2> QED
    BY <1>1, <1>2, <2>1, <2>2, <2>3, <2>5, PhaseSets
       DEF TrainFacts, TrainServers, TrainClean, TrainOnly, Downs
<1>5. CASE Merge(p)
  <2>1. /\ pc[p] = "merge" /\ pc'[p] = "train" /\ UNCHANGED counters
        /\ todo'[p] = Tail(todo[p])
        /\ pgd' = pgd \cup (IF idx[p] \in DOMAIN pgc THEN pgc[idx[p]] ELSE {})
        /\ DOMAIN pgc' = DOMAIN pgc \ {idx[p]}
    BY <1>0, <1>5 DEF Merge, Goto
  <2>2. counters = {} /\ DOMAIN pgc = {idx[p]} /\ pgc[idx[p]] \subseteq opt[p].want
    BY <2>1 DEF TrainFacts, TrainClean, TrainOnly
  <2>3. DOMAIN pgc' = {} /\ pgd' = pgd \cup pgc[idx[p]] /\ pgd' \subseteq opt[p].want
    BY <1>2, <2>1, <2>2
  <2>4. todo[p] \in Seq(Case) /\ todo[p] # << >>
    BY <1>0, <2>1 DEF TypeInv, Visiting
  <2>5. \A c \in opt[p].want : Left(p, c) => c = Head(todo[p]) \/ Left(p, c)'
    BY <2>1, <2>4, HeadOrTail DEF Left
  <2>6. \A c \in opt[p].want : Works(c) /\ c = Head(todo[p]) => c \in pgd'
    BY <2>1, <2>3 DEF TrainFacts, TrainAll
  <2>7. \A c \in opt[p].want : Works(c)' => c \in pgd' \/ Left(p, c)'
    BY <1>1, <1>3, <2>3, <2>5, <2>6 DEF Works
  <2> QED
    BY <1>1, <1>2, <2>1, <2>2, <2>3, <2>7, PhaseSets
       DEF TrainFacts, TrainServers, TrainClean, TrainOnly, TrainAll, Downs
<1> QED
  BY <1>4, <1>5

LEMMA DownStep ==
    ASSUME TypeInv, NEW p \in Process, Cmd(p) = "train", TrainFacts(p),
           DownPhp(p) \/ DownNginx(p)
    PROVE  TrainFacts(p)'
<1>0. pc \in [Process -> Phases]
  BY DEF TypeInv, TypeOK
<1>1. UNCHANGED <<opt, job, vhosts, pgc, pgd>>
  BY DEF DownPhp, DownNginx
<1>2. /\ pc[p] \in Downs /\ pc'[p] \in {"downNginx", "downMaria"}
      /\ ~php'
  BY <1>0 DEF DownPhp, DownNginx, Goto, KillPhp, Downs, TrainFacts, TrainServers
<1>3. /\ DOMAIN pgc = {} /\ pgd \subseteq opt[p].want
      /\ \A c \in opt[p].want : Works(c) => c \in pgd
  BY <1>2, PhaseSets DEF TrainFacts, TrainClean, TrainOnly, TrainAll, Downs
<1> QED
  BY <1>1, <1>2, <1>3, PhaseSets
     DEF TrainFacts, TrainServers, TrainClean, TrainOnly, TrainAll, Works, Downs

LEMMA TrainStep ==
    ASSUME PgoInv, TrainInv, NEW p \in Process, Calm(p)', Cmd(p)' = "train",
           \/ Start(p) \/ CheckInit(p) \/ Construct(p) \/ InitWorkDir(p) \/ LoadConfig(p)
           \/ TakeLock(p) \/ WaitForOther(p) \/ OSGrant(p) \/ WaitOver(p)
           \/ Initialize(p) \/ Train(p) \/ UpDown(p) \/ Fail(p) \/ Crash(p)
    PROVE  TrainFacts(p)'
<1> USE PhaseSets
<1>0. /\ TypeInv /\ pc \in [Process -> Phases] /\ opt \in [Process -> Commands]
      /\ todo \in [Process -> Seq(Case)]
  BY DEF PgoInv, TypeInv, TypeOK
<1>1. pc'[p] \in TrainPhases \cup UpDownPhases
  <2>1. ~(pc'[p] \in InitPhases)
    BY NextUse, PgoInvNext DEF Next, PgoInv, RoleInv, Cmd
  <2> QED
    BY <2>1 DEF Calm, Holding
<1>2. ~Start(p)
  BY <1>0, <1>1 DEF Start
<1>3. opt'[p] = opt[p] /\ disturbed'[p] = disturbed[p] /\ Cmd(p) = "train"
  BY <1>0, <1>1, <1>2, StepFrame DEF Cmd
<1>4. ASSUME Holding(p) PROVE TrainFacts(p)
  BY <1>3, <1>4 DEF TrainInv, Calm
<1>5. CASE CheckInit(p) \/ Construct(p) \/ InitWorkDir(p) \/ LoadConfig(p)
           \/ WaitForOther(p) \/ Fail(p) \/ Crash(p)
  BY <1>0, <1>1, <1>3, <1>5 DEF CheckInit, Construct, InitWorkDir, LoadConfig, WaitForOther,
     Fail, Crash, End, Leave, Goto
<1>6. CASE TakeLock(p) \/ WaitOver(p)
  <2>1. pc'[p] = "upPhp" /\ todo'[p] = Cases /\ UNCHANGED opt
    BY <1>0, <1>1, <1>3, <1>6 DEF TakeLock, WaitOver, Section, Goto
  <2> QED
    BY <1>0, <1>3, <2>1, EnterSection
<1>7. CASE OSGrant(p)
  BY <1>1, <1>7 DEF OSGrant, Grant, PgoInv, UseInv, Holding, Cmd
<1>8. CASE Initialize(p)
  <2>1. pc[p] \in InitPhases
    BY <1>8 DEF Initialize, PrepareInit, SetupNginx, StopNginx, StopMaria,
                SetupCase, CaseUp, InstallDown, UrlsDown
  <2> QED
    BY <1>3, <2>1 DEF PgoInv, RoleInv
<1>9. CASE Train(p)
  <2>1. Holding(p)
    BY <1>9 DEF Train, Waste, Clean, RunCase, Sweep, Merge, Holding
  <2> QED
    BY <1>0, <1>4, <1>9, <2>1, WasteStep, RunCaseStep, DumpStep DEF Train
<1>10. CASE UpDown(p)
  <2>1. Holding(p)
    BY <1>3, <1>10 DEF UpDown, UpPhp, UpNginx, UpMaria, DownPhp, DownNginx, DownMaria, Holding
  <2>2. ~DownMaria(p)
    BY <1>0, <1>1 DEF DownMaria, End, Leave
  <2> QED
    BY <1>0, <1>3, <1>4, <1>10, <2>1, <2>2, UpStep, DownStep DEF UpDown
<1> QED
  BY <1>2, <1>5, <1>6, <1>7, <1>8, <1>9, <1>10

LEMMA TrainNext ==
    ASSUME PgoInv, CalmInv, TrainInv, [Next]_vars
    PROVE  TrainInv'
<1>0. /\ TypeInv /\ pc \in [Process -> Phases] /\ opt \in [Process -> Commands]
      /\ disturbed \in [Process -> BOOLEAN]
  BY DEF PgoInv, TypeInv, TypeOK
<1>1. ASSUME NEW p \in Process, pc'[p] = pc[p], opt'[p] = opt[p], todo'[p] = todo[p],
             idx'[p] = idx[p], ~disturbed'[p] => ~disturbed[p],
             Calm(p) /\ Cmd(p) = "train" => UNCHANGED TrainVars,
             Calm(p)', Cmd(p)' = "train"
      PROVE  TrainFacts(p)'
  <2>1. Calm(p) /\ Cmd(p) = "train"
    BY <1>1 DEF Calm, Holding, Cmd
  <2>2. TrainFacts(p) /\ UNCHANGED <<php, serving, counters, pgc, pgd, job, vhosts>>
    BY <1>1, <2>1 DEF TrainInv, TrainVars
  <2> QED
    BY <1>1, <2>2 DEF TrainFacts, TrainServers, TrainClean, TrainOnly, TrainAll, Works, Left
<1>2. ASSUME NEW r \in Process, NEW p \in Process \ {r},
             \/ Start(r) \/ CheckInit(r) \/ Construct(r) \/ InitWorkDir(r) \/ LoadConfig(r)
             \/ TakeLock(r) \/ WaitForOther(r) \/ OSGrant(r) \/ WaitOver(r)
             \/ Initialize(r) \/ Train(r) \/ UpDown(r) \/ Fail(r) \/ Crash(r)
      PROVE  /\ pc'[p] = pc[p] /\ opt'[p] = opt[p] /\ todo'[p] = todo[p] /\ idx'[p] = idx[p]
             /\ ~disturbed'[p] => ~disturbed[p]
             /\ Calm(p) /\ Cmd(p) = "train" => UNCHANGED TrainVars
  <2>1. CASE Start(r)
    <3>1. Calm(p) /\ Cmd(p) = "train" => UNCHANGED TrainVars
      BY <2>1, OthersLeaveTraining
    <3>2. /\ pc'[p] = pc[p] /\ opt'[p] = opt[p] /\ UNCHANGED <<todo, idx>>
          /\ ~disturbed'[p] => ~disturbed[p]
      BY <1>0, <2>1 DEF Start
    <3> QED
      BY <3>1, <3>2
  <2>2. CASE ~Start(r)
    <3>0. r \in Process \ {p} /\ p \in Process
      OBVIOUS
    <3>1. /\ pc'[p] = pc[p] /\ opt'[p] = opt[p] /\ todo'[p] = todo[p] /\ idx'[p] = idx[p]
          /\ disturbed'[p] = disturbed[p]
      BY <1>0, <1>2, <2>2, StepFrame
    <3>2. Calm(p) /\ Cmd(p) = "train" => UNCHANGED TrainVars
      BY <1>2, <3>0, OthersLeaveTraining
    <3> QED
      BY <3>1, <3>2
  <2> QED
    BY <2>1, <2>2
<1>3. ASSUME NEW r \in Process,
             \/ Start(r) \/ CheckInit(r) \/ Construct(r) \/ InitWorkDir(r) \/ LoadConfig(r)
             \/ TakeLock(r) \/ WaitForOther(r) \/ OSGrant(r) \/ WaitOver(r)
             \/ Initialize(r) \/ Train(r) \/ UpDown(r) \/ Fail(r) \/ Crash(r)
      PROVE  TrainInv'
  <2>1. ASSUME NEW p \in Process, Calm(p)', Cmd(p)' = "train" PROVE TrainFacts(p)'
    <3>1. CASE p = r
      BY <1>3, <2>1, <3>1, TrainStep
    <3>2. CASE p # r
      BY <1>1, <1>2, <1>3, <2>1, <3>2
    <3> QED
      BY <3>1, <3>2
  <2> QED
    BY <2>1 DEF TrainInv
<1>4. CASE UNCHANGED vars
  BY <1>1, <1>4 DEF TrainInv, TrainVars
<1> QED
  BY <1>3, <1>4 DEF Next

-----------------------------------------------------------------------------
(* A training ends well in one place only.                                 *)
LEMMA TrainedAtDownMaria ==
    ASSUME TypeInv, Next, NEW p \in Process, Ends(p, "trained")
    PROVE  DownMaria(p) /\ Cmd(p) = "train"
<1>0. report \in [Process -> Outcomes] /\ NoReport[p] = ""
  BY DEF TypeInv, TypeOK, NoReport
<1>1. ASSUME Silent PROVE FALSE
  BY <1>0, <1>1 DEF Silent, Ends
<1>2. ASSUME NEW r \in Process, NEW o, Leave(r, o) PROVE r = p /\ o = "trained"
  <2>1. report' = [NoReport EXCEPT ![r] = o] /\ report'[p] = "trained"
    BY <1>2 DEF Leave, Ends
  <2> QED
    BY <2>1 DEF NoReport
<1>3. ASSUME NEW r \in Process, Initialize(r) PROVE FALSE
  BY <1>1, <1>2, <1>3 DEF Initialize, PrepareInit, SetupNginx, StopNginx, StopMaria,
     SetupCase, CaseUp, InstallDown, UrlsDown, End, Goto
<1>4. ASSUME NEW r \in Process, Train(r) PROVE FALSE
  BY <1>1, <1>4 DEF Train, Waste, Clean, RunCase, Sweep, Merge, Goto
<1>5. ASSUME NEW r \in Process,
             \/ Start(r) \/ Construct(r) \/ InitWorkDir(r) \/ LoadConfig(r)
             \/ TakeLock(r) \/ WaitForOther(r) \/ OSGrant(r) \/ WaitOver(r)
             \/ Fail(r) \/ Crash(r)
      PROVE  FALSE
  <2>1. Silent \/ Leave(r, "error") \/ Leave(r, "byother") \/ Leave(r, "killed")
    BY <1>5 DEF Start, Construct, InitWorkDir, LoadConfig, TakeLock,
       WaitForOther, OSGrant, WaitOver, Fail, Crash, End, Goto
  <2> QED
    BY <1>1, <1>2, <2>1
<1>6. ASSUME NEW r \in Process, UpDown(r) PROVE DownMaria(p) /\ Cmd(p) = "train"
  <2>1. DownMaria(r)
    BY <1>1, <1>2, <1>6 DEF UpDown, UpPhp, UpNginx, UpMaria, DownPhp, DownNginx, End, Goto
  <2>2. r = p /\ (IF Cmd(r) = "train" THEN "trained" ELSE "down") = "trained"
    BY <1>2, <2>1 DEF DownMaria, End
  <2> QED
    BY <2>1, <2>2
<1>7. ASSUME NEW r \in Process, CheckInit(r) PROVE FALSE
  <2>1. Leave(r, IF workDir THEN "ready" ELSE "notready")
    BY <1>7 DEF CheckInit, End
  <2> QED
    BY <1>2, <2>1
<1> QED
  BY <1>3, <1>4, <1>5, <1>6, <1>7 DEF Next

TrainingInv == PgoInv /\ CalmInv /\ TrainInv

LEMMA TrainingInvHolds == Spec => []TrainingInv
<1>1. Init => TrainingInv
  BY PgoInvInit, CalmInit, PhaseSets DEF Init, TrainingInv, TrainInv, Calm, Holding
<1>2. TrainingInv /\ [Next]_vars => TrainingInv'
  BY PgoInvNext, CalmNext, TrainNext DEF TrainingInv, PgoInv
<1> QED
  BY <1>1, <1>2, PTL DEF Spec

(* At its last step an undisturbed training has merged the data of every   *)
(* case it was asked for that answers, and nothing else.                   *)
LEMMA LastStep ==
    ASSUME TrainingInv, Next, NEW p \in Process, Ends(p, "trained"), ~disturbed[p]
    PROVE  /\ pgd' \subseteq opt[p].want
           /\ \A c \in opt[p].want : job[c] = "urls" /\ c \in vhosts => c \in pgd'
           /\ DOMAIN pgc' = {}
           /\ ~php' /\ ~mysqld'
<1>1. DownMaria(p) /\ Cmd(p) = "train"
  BY TrainedAtDownMaria DEF TrainingInv, PgoInv
<1>2. pc[p] = "downMaria" /\ UNCHANGED <<php, pgc, pgd>> /\ mysqld' = FALSE
  BY <1>1 DEF DownMaria
<1>3. TrainFacts(p)
  BY <1>1, <1>2, PhaseSets DEF TrainingInv, TrainInv, Calm, Holding
<1> QED
  BY <1>2, <1>3, PhaseSets
     DEF TrainFacts, TrainServers, TrainClean, TrainOnly, TrainAll, Works, Downs

(* Whatever earlier commands left behind, the profile of an undisturbed    *)
(* training is exactly that of its cases (Controller.php:198).             *)
THEOREM TrainingIsExact == Spec => TrainedExactly
<1>1. TrainingInv /\ [Next]_vars =>
        [\A p \in Process : Ends(p, "trained") /\ ~disturbed[p] =>
            /\ pgd' \subseteq opt[p].want
            /\ \A c \in opt[p].want : job[c] = "urls" /\ c \in vhosts => c \in pgd'
            /\ DOMAIN pgc' = {}]_vars
  BY LastStep
<1> QED
  BY <1>1, TrainingInvHolds, PTL DEF Spec, TrainedExactly

(* ... and PHP and MariaDB are stopped (phpsdk_pgo.php:109).               *)
THEOREM TrainingStopsServers == Spec => ServersStopped
<1>1. TrainingInv /\ [Next]_vars =>
        [\A p \in Process : Ends(p, "trained") /\ ~disturbed[p] =>
            ~php' /\ ~mysqld']_vars
  BY LastStep
<1> QED
  BY <1>1, TrainingInvHolds, PTL DEF Spec, ServersStopped

-----------------------------------------------------------------------------
(* Initialization.  The loop over the cases has made the server and the    *)
(* job file of every case that is not in its list any more.                *)
BusyPhases == {"installUp", "installDown", "urlsUp", "urlsDown"}
MadeInv ==
    \A p \in Process :
        /\ pc[p] \in {"cases"} \cup BusyPhases =>
             \A c \in Case : Left(p, c) \/ (c \in vhosts /\ job[c] # "none")
        /\ pc[p] \in BusyPhases => Head(todo[p]) \in vhosts

(* While nothing disturbs it, its Config object and the file agree, and    *)
(* the sections of the same cases are generated.                           *)
Initializing(p) == Active(p) /\ Cmd(p) = "init" /\ ~disturbed[p]
ConfFacts(p) ==
    /\ pc[p] \in {"lock", "wait", "waited"} \cup InitPhases => mem[p] = conf
    /\ pc[p] \in {"cases"} \cup BusyPhases =>
         \A c \in Case : Left(p, c) \/ conf[c] = "generated"
    /\ pc[p] \in BusyPhases => conf[Head(todo[p])] = "generated"
FreshInv ==
    \A p \in Process : pc[p] \in {"idle", "begin", "mkdir", "config"} => mem[p] = NoSections
ConfInv == \A p \in Process : Initializing(p) => ConfFacts(p)

LEMMA FreshNext ==
    ASSUME PgoInv, FreshInv, [Next]_vars
    PROVE  FreshInv'
<1>0. /\ TypeInv /\ pc \in [Process -> Phases] /\ mem \in [Process -> Sections]
  BY DEF PgoInv, TypeInv, TypeOK
<1>1. ASSUME NEW r \in Process,
             \/ CheckInit(r) \/ Construct(r) \/ InitWorkDir(r) \/ LoadConfig(r)
             \/ TakeLock(r) \/ WaitForOther(r) \/ OSGrant(r) \/ WaitOver(r)
             \/ Initialize(r) \/ Train(r) \/ UpDown(r) \/ Fail(r) \/ Crash(r)
      PROVE  FreshInv'
  <2>1. \A q \in Process \ {r} : pc'[q] = pc[q] /\ mem'[q] = mem[q]
    BY <1>0, <1>1, StepFrame
  <2>2. pc'[r] \in {"idle", "begin", "mkdir", "config"} => mem'[r] = NoSections
    <3>1. ASSUME NEW o, Leave(r, o) PROVE mem'[r] = NoSections
      BY <1>0, <3>1, LeaveFrame
    <3>2. CASE CheckInit(r) \/ Fail(r) \/ Crash(r)
      BY <3>1, <3>2 DEF CheckInit, Fail, Crash, End
    <3>3. CASE Construct(r) \/ InitWorkDir(r) \/ WaitForOther(r) \/ OSGrant(r)
      BY <1>0, <3>1, <3>3 DEF Construct, InitWorkDir, WaitForOther, OSGrant, End, FreshInv, Goto
    <3>4. CASE LoadConfig(r) \/ TakeLock(r) \/ WaitOver(r)
      BY <1>0, <3>1, <3>4 DEF LoadConfig, TakeLock, WaitOver, End, Goto, Section
    <3>5. CASE Initialize(r)
      BY <1>0, <3>1, <3>5 DEF Initialize, PrepareInit, SetupNginx, StopNginx, StopMaria,
         SetupCase, CaseUp, InstallDown, UrlsDown, End, Goto
    <3>6. CASE Train(r)
      BY <1>0, <3>6 DEF Train, Waste, Clean, RunCase, Sweep, Merge, Goto
    <3>7. CASE UpDown(r)
      BY <1>0, <3>1, <3>7 DEF UpDown, UpPhp, UpNginx, UpMaria, DownPhp, DownNginx, DownMaria,
         End, Goto
    <3> QED
      BY <1>1, <3>2, <3>3, <3>4, <3>5, <3>6, <3>7
  <2> QED
    BY <2>1, <2>2 DEF FreshInv
<1>2. ASSUME NEW r \in Process, Start(r) PROVE FreshInv'
  BY <1>0, <1>2 DEF Start, FreshInv
<1>3. CASE UNCHANGED vars
  BY <1>3 DEF FreshInv
<1> QED
  BY <1>1, <1>2, <1>3 DEF Next

(* Only an initialization that has the lock makes servers and job files.   *)
LEMMA OthersLeaveCases ==
    ASSUME PgoInv, NEW p \in Process, pc[p] \in InitPhases, NEW r \in Process \ {p},
           \/ Start(r) \/ CheckInit(r) \/ Construct(r) \/ InitWorkDir(r) \/ LoadConfig(r)
           \/ TakeLock(r) \/ WaitForOther(r) \/ OSGrant(r) \/ WaitOver(r)
           \/ Initialize(r) \/ Train(r) \/ UpDown(r) \/ Fail(r) \/ Crash(r)
    PROVE  UNCHANGED <<vhosts, job>>
<1>1. CASE \/ Start(r)
           \/ CheckInit(r) \/ Construct(r) \/ InitWorkDir(r) \/ LoadConfig(r)
           \/ TakeLock(r) \/ WaitForOther(r) \/ OSGrant(r) \/ WaitOver(r)
           \/ Fail(r) \/ Crash(r)
  BY <1>1 DEF Start, CheckInit, Construct, InitWorkDir, LoadConfig, TakeLock, WaitForOther,
     OSGrant, WaitOver, Fail, Crash
<1>2. CASE Train(r) \/ UpDown(r)
  BY <1>2 DEF Train, UpDown, Waste, Clean, RunCase, Sweep, Merge,
     UpPhp, UpNginx, UpMaria, DownPhp, DownNginx, DownMaria
<1>3. CASE Initialize(r)
  <2>1. pc[r] \in InitPhases
    BY <1>3, PhaseSets DEF Initialize, PrepareInit, SetupNginx, StopNginx,
       StopMaria, SetupCase, CaseUp, InstallDown, UrlsDown
  <2>2. Active(r) /\ Holding(r) /\ Holding(p) /\ Cmd(r) = "init" /\ Cmd(p) = "init"
    BY <2>1, PhaseSets DEF PgoInv, RoleInv, Holding, Active
  <2> QED
    BY <2>2, OthersOutside
<1> QED
  BY <1>1, <1>2, <1>3

LEMMA MadeNext ==
    ASSUME PgoInv, MadeInv, [Next]_vars
    PROVE  MadeInv'
<1> USE PhaseSets DEF BusyPhases
<1>0. /\ TypeInv /\ pc \in [Process -> Phases] /\ todo \in [Process -> Seq(Case)]
      /\ job \in [Case -> {"none", "empty", "urls"}]
  BY DEF PgoInv, TypeInv, TypeOK, WorkTypeOK
<1> DEFINE Made(p) ==
        /\ pc[p] \in {"cases"} \cup BusyPhases =>
             \A c \in Case : Left(p, c) \/ (c \in vhosts /\ job[c] # "none")
        /\ pc[p] \in BusyPhases => Head(todo[p]) \in vhosts
<1>1. ASSUME NEW p \in Process, pc'[p] = pc[p], todo'[p] = todo[p],
             pc[p] \in InitPhases => UNCHANGED <<vhosts, job>>
      PROVE  Made(p)'
  BY <1>1 DEF MadeInv, Left
<1>2. ASSUME NEW r \in Process,
             \/ Start(r) \/ CheckInit(r) \/ Construct(r) \/ InitWorkDir(r) \/ LoadConfig(r)
             \/ TakeLock(r) \/ WaitForOther(r) \/ OSGrant(r) \/ WaitOver(r)
             \/ Train(r) \/ UpDown(r) \/ Fail(r) \/ Crash(r)
             \/ PrepareInit(r) \/ SetupNginx(r) \/ StopNginx(r)
      PROVE  Made(r)'
  <2>1. CASE pc'[r] \notin {"cases"} \cup BusyPhases
    BY <2>1
  <2>2. ASSUME NEW o, Leave(r, o) PROVE pc'[r] = "idle"
    BY <1>0, <2>2 DEF Leave
  <2>3. CASE Start(r) \/ CheckInit(r) \/ Construct(r) \/ InitWorkDir(r) \/ LoadConfig(r)
             \/ WaitForOther(r) \/ Fail(r) \/ Crash(r)
    BY <1>0, <2>1, <2>2, <2>3 DEF Start, CheckInit, Construct, InitWorkDir, LoadConfig,
       WaitForOther, Fail, Crash, End, Goto
  <2>4. CASE TakeLock(r) \/ WaitOver(r) \/ PrepareInit(r) \/ SetupNginx(r) \/ StopNginx(r)
    BY <1>0, <2>1, <2>2, <2>4 DEF TakeLock, WaitOver, PrepareInit, SetupNginx, StopNginx,
       End, Goto, Section
  <2>5. CASE Train(r)
    BY <1>0, <2>1, <2>5 DEF Train, Waste, Clean, RunCase, Sweep, Merge, Goto
  <2>6. CASE UpDown(r)
    BY <1>0, <2>1, <2>2, <2>6 DEF UpDown, UpPhp, UpNginx, UpMaria, DownPhp, DownNginx,
       DownMaria, End, Goto
  <2>7. CASE OSGrant(r)
    BY <1>1, <2>7 DEF OSGrant
  <2> QED
    BY <1>2, <2>3, <2>4, <2>5, <2>6, <2>7
<1>3. ASSUME NEW r \in Process, StopMaria(r) PROVE Made(r)'
  BY <1>0, <1>3, AllCases DEF StopMaria, Goto, Left
<1>4. ASSUME NEW r \in Process, SetupCase(r) PROVE Made(r)'
  <2>1. CASE End(r, "initialized")
    BY <1>0, <2>1 DEF End, Leave
  <2>2. CASE /\ vhosts' = vhosts \cup {Head(todo[r])} /\ Goto(r, "installUp")
             /\ UNCHANGED <<todo, job>>
    BY <1>0, <1>4, <2>2 DEF SetupCase, MadeInv, Left, Goto
  <2> QED
    BY <1>4, <2>1, <2>2 DEF SetupCase
<1>5. ASSUME NEW r \in Process, CaseUp(r) \/ InstallDown(r) PROVE Made(r)'
  <2>1. UNCHANGED <<todo, job, vhosts>> /\ pc[r] \in BusyPhases /\ pc'[r] \in BusyPhases
    BY <1>0, <1>5 DEF CaseUp, InstallDown, Goto
  <2> QED
    BY <2>1 DEF MadeInv, Left
<1>6. ASSUME NEW r \in Process, UrlsDown(r) PROVE Made(r)'
  <2>1. CASE End(r, "error")
    BY <1>0, <2>1 DEF End, Leave
  <2>2. CASE ~End(r, "error")
    <3>1. PICK urls \in {"urls", "empty"} : job' = [job EXCEPT ![Head(todo[r])] = urls]
      BY <1>6, <2>2 DEF UrlsDown
    <3>2. todo'[r] = Tail(todo[r]) /\ pc'[r] = "cases" /\ UNCHANGED vhosts
      BY <1>0, <1>6, <2>2 DEF UrlsDown, Goto
    <3>3. todo[r] \in Seq(Case) /\ todo[r] # << >> /\ pc[r] = "urlsDown"
      BY <1>0, <1>6 DEF UrlsDown, TypeInv, Visiting
    <3>4. \A c \in Case : Left(r, c) => c = Head(todo[r]) \/ Left(r, c)'
      BY <3>2, <3>3, HeadOrTail DEF Left
    <3>5. Head(todo[r]) \in vhosts /\ \A c \in Case : Left(r, c) \/ (c \in vhosts /\ job[c] # "none")
      BY <3>3 DEF MadeInv
    <3> QED
      BY <1>0, <3>1, <3>2, <3>4, <3>5
  <2> QED
    BY <2>1, <2>2
<1>7. ASSUME NEW r \in Process,
             \/ Start(r) \/ CheckInit(r) \/ Construct(r) \/ InitWorkDir(r) \/ LoadConfig(r)
             \/ TakeLock(r) \/ WaitForOther(r) \/ OSGrant(r) \/ WaitOver(r)
             \/ Initialize(r) \/ Train(r) \/ UpDown(r) \/ Fail(r) \/ Crash(r)
      PROVE  MadeInv'
  <2>1. Made(r)'
    BY <1>2, <1>3, <1>4, <1>5, <1>6, <1>7 DEF Initialize
  <2>2. ASSUME NEW p \in Process, p # r PROVE Made(p)'
    <3>1. pc'[p] = pc[p] /\ todo'[p] = todo[p]
      <4>1. CASE Start(r)
        BY <1>0, <2>2, <4>1 DEF Start
      <4> QED
        BY <1>0, <1>7, <2>2, <4>1, StepFrame
    <3>2. pc[p] \in InitPhases => UNCHANGED <<vhosts, job>>
      BY <1>7, <2>2, OthersLeaveCases
    <3> QED
      BY <1>1, <3>1, <3>2
  <2> QED
    BY <2>1, <2>2 DEF MadeInv
<1>8. CASE UNCHANGED vars
  BY <1>1, <1>8 DEF MadeInv
<1> QED
  BY <1>7, <1>8 DEF Next

(* While nothing disturbs an initialization nobody else writes the file.   *)
LEMMA OthersLeaveConf ==
    ASSUME PgoInv, CalmInv, NEW p \in Process, Initializing(p), NEW r \in Process \ {p},
           \/ Start(r) \/ CheckInit(r) \/ Construct(r) \/ InitWorkDir(r) \/ LoadConfig(r)
           \/ TakeLock(r) \/ WaitForOther(r) \/ OSGrant(r) \/ WaitOver(r)
           \/ Initialize(r) \/ Train(r) \/ UpDown(r) \/ Fail(r) \/ Crash(r)
    PROVE  UNCHANGED conf
<1>1. Active(r) => Cmd(r) = "check_init"
  BY DEF CalmInv, Initializing, Disturbs
<1>2. pc[r] \notin {"begin", "mkdir", "config", "lock", "wait", "waited"}
                     \cup InitPhases \cup TrainPhases \cup UpDownPhases
  BY <1>1, PhaseSets DEF PgoInv, RoleInv, Active
<1>3. CASE Start(r) \/ CheckInit(r) \/ Fail(r) \/ Crash(r) \/ OSGrant(r)
  BY <1>3 DEF Start, CheckInit, Fail, Crash, OSGrant
<1>4. ~(Construct(r) \/ InitWorkDir(r) \/ LoadConfig(r) \/ TakeLock(r) \/ WaitForOther(r)
        \/ WaitOver(r))
  BY <1>2 DEF Construct, InitWorkDir, LoadConfig, TakeLock, WaitForOther, WaitOver
<1>5. ~(Initialize(r) \/ Train(r) \/ UpDown(r))
  BY <1>2, PhaseSets DEF Initialize, Train, UpDown, PrepareInit, SetupNginx, StopNginx,
     StopMaria, SetupCase, CaseUp, InstallDown, UrlsDown, Waste, Clean, RunCase, Sweep, Merge,
     UpPhp, UpNginx, UpMaria, DownPhp, DownNginx, DownMaria
<1> QED
  BY <1>3, <1>4, <1>5

(* The steps of the initialization itself.                                 *)
LEMMA ConfStep ==
    ASSUME PgoInv, FreshInv, ConfInv, NEW p \in Process, Initializing(p)',
           \/ Start(p) \/ CheckInit(p) \/ Construct(p) \/ InitWorkDir(p) \/ LoadConfig(p)
           \/ TakeLock(p) \/ WaitForOther(p) \/ OSGrant(p) \/ WaitOver(p)
           \/ Initialize(p) \/ Train(p) \/ UpDown(p) \/ Fail(p) \/ Crash(p)
    PROVE  ConfFacts(p)'
<1> USE PhaseSets DEF BusyPhases
<1>0. /\ TypeInv /\ pc \in [Process -> Phases] /\ opt \in [Process -> Commands]
      /\ todo \in [Process -> Seq(Case)] /\ mem \in [Process -> Sections]
  BY DEF PgoInv, TypeInv, TypeOK
<1>1. CASE Start(p)
  BY <1>0, <1>1 DEF Start, ConfFacts
<1>2. ASSUME NEW o, Leave(p, o) PROVE FALSE
  BY <1>0, <1>2 DEF Leave, Initializing, Active
<1>3. ASSUME ~Start(p)
      PROVE  opt'[p] = opt[p] /\ disturbed'[p] = disturbed[p] /\ Active(p) /\ Cmd(p) = "init"
             /\ Initializing(p)
  BY <1>0, <1>3, StepFrame DEF Initializing, Active, Cmd
<1>4. ASSUME ~Start(p) PROVE ConfFacts(p)
  BY <1>3, <1>4 DEF ConfInv
<1>5. CASE CheckInit(p) \/ Fail(p) \/ Crash(p)
  BY <1>2, <1>5 DEF CheckInit, Fail, Crash, End
<1>6. CASE Construct(p) \/ InitWorkDir(p)
  <2>1. pc'[p] \in {"mkdir", "config"}
    BY <1>0, <1>2, <1>6 DEF Construct, InitWorkDir, End, Goto
  <2> QED
    BY <2>1 DEF ConfFacts
<1>7. CASE LoadConfig(p)
  <2>1. Cmd(p) = "init" /\ pc[p] = "config"
    BY <1>0, <1>3, <1>7 DEF LoadConfig, Start
  <2>2. pc'[p] = "lock" /\ conf' = NoSections /\ UNCHANGED mem
    BY <1>0, <1>7, <2>1 DEF LoadConfig, Goto
  <2> QED
    BY <2>1, <2>2 DEF ConfFacts, FreshInv
<1>8. CASE TakeLock(p) \/ WaitForOther(p) \/ OSGrant(p) \/ WaitOver(p)
  <2>0. ~Start(p) \/ UNCHANGED pc
    BY <1>8 DEF Start, TakeLock, WaitForOther, OSGrant, WaitOver
  <2>1. CASE ~Start(p)
    <3>1. /\ pc[p] \in {"lock", "wait", "waited"} /\ UNCHANGED <<mem, conf>>
          /\ pc'[p] \in {"wait", "waited", "prepare"}
      <4>1. CASE TakeLock(p)
        BY <1>0, <1>3, <2>1, <4>1 DEF TakeLock, Goto, Section
      <4>2. CASE WaitForOther(p)
        BY <1>0, <4>2 DEF WaitForOther, Goto
      <4>3. CASE OSGrant(p)
        BY <4>3 DEF OSGrant, Grant, PgoInv, UseInv
      <4>4. ~WaitOver(p)
        BY <1>2, <1>3, <2>1 DEF WaitOver, End
      <4> QED
        BY <1>8, <4>1, <4>2, <4>3, <4>4
    <3> QED
      BY <1>4, <2>1, <3>1 DEF ConfFacts
  <2> QED
    BY <1>1, <2>1
<1>9. CASE PrepareInit(p)
  <2>1. pc[p] = "prepare" /\ pc'[p] \in {"prepare", "setupNginx"} /\ ~Start(p)
    BY <1>0, <1>9 DEF PrepareInit, Goto, Start
  <2>2. mem[p] = conf
    BY <1>4, <2>1 DEF ConfFacts
  <2>3. mem'[p] = conf'
    BY <1>9, <2>2 DEF PrepareInit, Current, SetSection
  <2> QED
    BY <2>1, <2>3 DEF ConfFacts
<1>10. CASE SetupNginx(p) \/ StopNginx(p) \/ StopMaria(p)
  <2>1. /\ pc[p] \in {"setupNginx", "stopNginx", "stopMaria"} /\ ~Start(p)
        /\ UNCHANGED <<mem, conf>>
        /\ \/ pc'[p] \in {"stopNginx", "stopMaria"}
           \/ pc'[p] = "cases" /\ todo'[p] = Cases
    BY <1>0, <1>10 DEF SetupNginx, StopNginx, StopMaria, Goto, Start
  <2>2. mem'[p] = conf'
    BY <1>4, <2>1 DEF ConfFacts
  <2> QED
    BY <2>1, <2>2, AllCases DEF ConfFacts, Left
<1>11. CASE SetupCase(p)
  <2> DEFINE h == Head(todo[p])
  <2>0. pc[p] = "cases" /\ ~Start(p)
    BY <1>11 DEF SetupCase, Start
  <2>1. /\ todo[p] # << >> /\ mem' = [mem EXCEPT ![p][h] = "generated"] /\ conf' = mem'[p]
        /\ pc'[p] = "installUp" /\ UNCHANGED todo
    BY <1>0, <1>2, <1>11 DEF SetupCase, SetSection, End, Goto
  <2>2. h \in Case /\ mem[p] \in [Case -> {"none", "template", "generated"}]
    BY <1>0, <2>1, TodoTypes DEF Sections
  <2>3. conf' = [mem[p] EXCEPT ![h] = "generated"] /\ mem[p] = conf
    BY <1>0, <1>4, <2>0, <2>1 DEF ConfFacts
  <2>4. conf'[h] = "generated" /\ \A c \in Case : conf[c] = "generated" => conf'[c] = "generated"
    BY <2>2, <2>3
  <2>5. \A c \in Case : Left(p, c) \/ conf[c] = "generated"
    BY <1>4, <2>0 DEF ConfFacts
  <2>6. \A c \in Case : Left(p, c)' \/ conf'[c] = "generated"
    BY <2>1, <2>4, <2>5 DEF Left
  <2> QED
    BY <2>1, <2>4, <2>6 DEF ConfFacts
<1>12. CASE CaseUp(p) \/ InstallDown(p)
  <2>1. /\ pc[p] \in BusyPhases /\ pc'[p] \in BusyPhases /\ ~Start(p)
        /\ UNCHANGED <<mem, todo>> /\ conf' \in {conf, mem[p]}
    BY <1>0, <1>12 DEF CaseUp, InstallDown, Goto, Start
  <2> QED
    BY <1>4, <2>1 DEF ConfFacts, Left
<1>13. CASE UrlsDown(p)
  <2>1. /\ pc[p] = "urlsDown" /\ ~Start(p) /\ pc'[p] = "cases"
        /\ todo'[p] = Tail(todo[p]) /\ UNCHANGED <<mem, conf>>
    BY <1>0, <1>2, <1>13 DEF UrlsDown, End, Goto, Start
  <2>2. todo[p] \in Seq(Case) /\ todo[p] # << >>
    BY <1>0, <2>1 DEF TypeInv, Visiting
  <2>3. \A c \in Case : Left(p, c) => c = Head(todo[p]) \/ Left(p, c)'
    BY <2>1, <2>2, HeadOrTail DEF Left
  <2> QED
    BY <1>4, <2>1, <2>3 DEF ConfFacts
<1>14. ~(Train(p) \/ UpDown(p))
  <2>1. Train(p) => pc[p] \in TrainPhases
    BY DEF Train, Waste, Clean, RunCase, Sweep, Merge
  <2>2. UpDown(p) => pc[p] \in UpDownPhases
    BY DEF UpDown, UpPhp, UpNginx, UpMaria, DownPhp, DownNginx, DownMaria
  <2>3. pc[p] \in TrainPhases \cup UpDownPhases => ~Start(p)
    BY DEF Start
  <2> QED
    BY <1>3, <2>1, <2>2, <2>3 DEF PgoInv, RoleInv
<1> QED
  BY <1>1, <1>5, <1>6, <1>7, <1>8, <1>9, <1>10, <1>11, <1>12, <1>13, <1>14 DEF Initialize

LEMMA ConfNext ==
    ASSUME PgoInv, CalmInv, FreshInv, ConfInv, [Next]_vars
    PROVE  ConfInv'
<1>0. /\ TypeInv /\ pc \in [Process -> Phases] /\ opt \in [Process -> Commands]
      /\ disturbed \in [Process -> BOOLEAN]
  BY DEF PgoInv, TypeInv, TypeOK
<1>1. ASSUME NEW p \in Process, pc'[p] = pc[p], opt'[p] = opt[p], todo'[p] = todo[p],
             mem'[p] = mem[p], ~disturbed'[p] => ~disturbed[p],
             Initializing(p) => UNCHANGED conf, Initializing(p)'
      PROVE  ConfFacts(p)'
  <2>1. Initializing(p)
    BY <1>1 DEF Initializing, Active, Cmd
  <2> QED
    BY <1>1, <2>1 DEF ConfInv, ConfFacts, Left
<1>2. ASSUME NEW r \in Process,
             \/ Start(r) \/ CheckInit(r) \/ Construct(r) \/ InitWorkDir(r) \/ LoadConfig(r)
             \/ TakeLock(r) \/ WaitForOther(r) \/ OSGrant(r) \/ WaitOver(r)
             \/ Initialize(r) \/ Train(r) \/ UpDown(r) \/ Fail(r) \/ Crash(r)
      PROVE  ConfInv'
  <2>1. ASSUME NEW p \in Process, Initializing(p)' PROVE ConfFacts(p)'
    <3>1. CASE p = r
      BY <1>2, <2>1, <3>1, ConfStep
    <3>2. CASE p # r
      <4>1. /\ pc'[p] = pc[p] /\ opt'[p] = opt[p] /\ todo'[p] = todo[p] /\ mem'[p] = mem[p]
            /\ ~disturbed'[p] => ~disturbed[p]
        <5>1. CASE Start(r)
          BY <1>0, <3>2, <5>1 DEF Start
        <5> QED
          BY <1>0, <1>2, <3>2, <5>1, StepFrame
      <4>2. Initializing(p) => UNCHANGED conf
        BY <1>2, <3>2, OthersLeaveConf
      <4> QED
        BY <1>1, <2>1, <4>1, <4>2
    <3> QED
      BY <3>1, <3>2
  <2> QED
    BY <2>1 DEF ConfInv
<1>3. CASE UNCHANGED vars
  BY <1>1, <1>3 DEF ConfInv
<1> QED
  BY <1>2, <1>3 DEF Next

(* An initialization completes in one place only.                          *)
LEMMA InitializedAtCases ==
    ASSUME TypeInv, Next, NEW p \in Process, Ends(p, "initialized")
    PROVE  SetupCase(p) /\ todo[p] = << >>
<1>0. report \in [Process -> Outcomes] /\ NoReport[p] = ""
  BY DEF TypeInv, TypeOK, NoReport
<1>1. ASSUME Silent PROVE FALSE
  BY <1>0, <1>1 DEF Silent, Ends
<1>2. ASSUME NEW r \in Process, NEW o, Leave(r, o) PROVE r = p /\ o = "initialized"
  <2>1. report' = [NoReport EXCEPT ![r] = o] /\ report'[p] = "initialized"
    BY <1>2 DEF Leave, Ends
  <2> QED
    BY <2>1 DEF NoReport
<1>3. ASSUME NEW r \in Process, SetupCase(r) PROVE SetupCase(p) /\ todo[p] = << >>
  BY <1>1, <1>2, <1>3 DEF SetupCase, End, Goto
<1>4. ASSUME NEW r \in Process,
             \/ PrepareInit(r) \/ SetupNginx(r) \/ StopNginx(r) \/ StopMaria(r)
             \/ CaseUp(r) \/ InstallDown(r) \/ UrlsDown(r) \/ Train(r)
      PROVE  FALSE
  <2>1. Silent \/ Leave(r, "error")
    BY <1>4 DEF PrepareInit, SetupNginx, StopNginx, StopMaria, CaseUp, InstallDown, UrlsDown,
       Train, Waste, Clean, RunCase, Sweep, Merge, End, Goto
  <2> QED
    BY <1>1, <1>2, <2>1
<1>5. ASSUME NEW r \in Process,
             \/ Start(r) \/ Construct(r) \/ InitWorkDir(r) \/ LoadConfig(r)
             \/ TakeLock(r) \/ WaitForOther(r) \/ OSGrant(r) \/ WaitOver(r)
             \/ Fail(r) \/ Crash(r)
      PROVE  FALSE
  <2>1. Silent \/ Leave(r, "error") \/ Leave(r, "byother") \/ Leave(r, "killed")
    BY <1>5 DEF Start, Construct, InitWorkDir, LoadConfig, TakeLock,
       WaitForOther, OSGrant, WaitOver, Fail, Crash, End, Goto
  <2> QED
    BY <1>1, <1>2, <2>1
<1>6. ASSUME NEW r \in Process, UpDown(r) PROVE FALSE
  <2>1. Silent \/ Leave(r, "up") \/ Leave(r, "trained") \/ Leave(r, "down")
    BY <1>6 DEF UpDown, UpPhp, UpNginx, UpMaria, DownPhp, DownNginx, DownMaria, End, Goto
  <2> QED
    BY <1>1, <1>2, <2>1
<1>7. ASSUME NEW r \in Process, CheckInit(r) PROVE FALSE
  <2>1. Leave(r, "ready") \/ Leave(r, "notready")
    BY <1>7 DEF CheckInit, End
  <2> QED
    BY <1>2, <2>1
<1> QED
  BY <1>3, <1>4, <1>5, <1>6, <1>7 DEF Next, Initialize

InitializingInv == PgoInv /\ CalmInv /\ FreshInv /\ MadeInv /\ ConfInv

LEMMA InitializingInvHolds == Spec => []InitializingInv
<1>1. Init => InitializingInv
  BY PgoInvInit, CalmInit
     DEF Init, InitializingInv, FreshInv, MadeInv, ConfInv, BusyPhases, Initializing, Active
<1>2. InitializingInv /\ [Next]_vars => InitializingInv'
  BY PgoInvNext, CalmNext, FreshNext, MadeNext, ConfNext DEF InitializingInv, PgoInv
<1> QED
  BY <1>1, <1>2, PTL DEF Spec

LEMMA LastCase ==
    ASSUME InitializingInv, Next, NEW p \in Process, Ends(p, "initialized")
    PROVE  /\ \A c \in Case : c \in vhosts' /\ job'[c] # "none"
           /\ ~disturbed[p] => \A c \in Case : conf'[c] = "generated"
<1>1. SetupCase(p) /\ todo[p] = << >>
  BY InitializedAtCases DEF InitializingInv, PgoInv
<1>2. pc[p] = "cases" /\ UNCHANGED <<vhosts, job, conf>> /\ \A c : ~Left(p, c)
  BY <1>1 DEF SetupCase, Left
<1>3. \A c \in Case : c \in vhosts /\ job[c] # "none"
  BY <1>2 DEF InitializingInv, MadeInv
<1>4. ASSUME ~disturbed[p] PROVE \A c \in Case : conf[c] = "generated"
  <2>1. Initializing(p)
    BY <1>2, <1>4, PhaseSets DEF Initializing, Active, InitializingInv, PgoInv, RoleInv
  <2> QED
    BY <1>2, <2>1 DEF InitializingInv, ConfInv, ConfFacts
<1> QED
  BY <1>2, <1>3, <1>4

(* An initialization that completes has made everything a training needs;  *)
(* the lock is enough for the servers and the job files, for the sections  *)
(* of the file nothing may disturb it (Controller.php:151).                *)
THEOREM InitIsComplete == Spec => InitComplete
<1>1. InitializingInv /\ [Next]_vars =>
        [\A p \in Process : Ends(p, "initialized") =>
           /\ \A c \in Case : c \in vhosts' /\ job'[c] # "none"
           /\ ~disturbed[p] => \A c \in Case : conf'[c] = "generated"]_vars
  BY LastCase
<1> QED
  BY <1>1, InitializingInvHolds, PTL DEF Spec, InitComplete
=============================================================================
