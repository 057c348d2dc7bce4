--------------------------- MODULE SdkConfig_proofs ---------------------------
(* Proofs about SdkConfig, for all branches, CRTs, command lines,          *)
(* environments and listings.                                              *)
EXTENDS SdkConfig, TLAPS

(* What the guesses and options may yield.                                 *)
LEMMA WantedTypes ==
    ASSUME TypeOK
    PROVE  /\ WantedBranch \in Branch \cup {None}
           /\ WantedArch \in Arch \cup {None, "unknown"}
           /\ DepsPath \in Paths \cup {None}
BY SdkConfigAssumption
   DEF TypeOK, Option, Environment, WantedBranch, WantedArch, Guess, DepsPath, Paths

(* The five getters agree with what the user asked for: once architecture, *)
(* CRT and branch are settled, the code's search finds the candidates.     *)
LEMMA SearchIsRight ==
    ASSUME TypeOK, Settled, phase \in {"resolve", "work"},
           phase = "work" => stability = WantedStability
    PROVE  BranchData = Candidates
<1> DEFINE Same(s) == /\ s.branch = branch /\ s.crt = crt /\ s.arch = arch
                      /\ s.stability = StabilityName
<1>1. branch = WantedBranch /\ arch = WantedArch /\ StabilityName = WantedStability
  BY SdkConfigAssumption DEF TypeOK, Settled, StabilityName, WantedStability, Stability
<1>2. ASSUME NEW s \in known, Wanted(s) PROVE s.crt = crt
  <2>1. CASE opt.crt # None \/ env.vs # None
    BY <1>2, <2>1 DEF Settled, Wanted
  <2>2. CASE opt.crt = None /\ env.vs = None
    <3>1. s.crt \in Crts(known)
      BY <1>1, <1>2 DEF Crts, Wanted
    <3> QED  BY <2>2, <3>1 DEF Settled
  <2> QED  BY <2>1, <2>2
<1>3. ASSUME NEW s \in known, Same(s) PROVE Wanted(s)
  BY <1>1, <1>3 DEF Wanted, Settled
<1>4. ASSUME NEW s \in known, Wanted(s) PROVE Same(s)
  BY <1>1, <1>2, <1>4 DEF Wanted
<1> QED
  BY <1>3, <1>4 DEF BranchData, Candidates, Remembered

(* Two series that fit are one: the search leaves nothing open.            *)
LEMMA SearchIsUnique ==
    ASSUME TypeOK, NEW s \in BranchData
    PROVE  BranchData = {s}
<1> SUFFICES ASSUME NEW t \in BranchData PROVE t = s
  OBVIOUS
<1>1. s \in Series /\ t \in Series
  BY DEF BranchData, Remembered, TypeOK
<1> QED
  BY <1>1 DEF BranchData, Series

(* What a command works on is what was asked for.                          *)
LEMMA WorkIsRight == TypeOK /\ Settled => ResolvesRight
<1> SUFFICES ASSUME TypeOK, Settled, phase = "work" PROVE Candidates = {data}
  BY DEF ResolvesRight
<1>1. BranchData = Candidates /\ data \in BranchData
  BY SearchIsRight DEF Settled
<1> QED
  BY <1>1, SearchIsUnique

(* Every refusal has its reason.                                           *)
LEMMA RefusalIsRight ==
    ASSUME TypeOK, Settled, Next, phase # "refused", phase' = "refused"
    PROVE  RefusesRight'
<1> USE SdkConfigAssumption
<1> SUFFICES (Candidates = {} \/ Ambiguous)'
  BY DEF RefusesRight
<1>1. ASSUME UNCHANGED <<known, opt, env>>, Candidates = {} \/ Ambiguous
      PROVE  (Candidates = {} \/ Ambiguous)'
  BY <1>1 DEF Candidates, Ambiguous, Wanted, WantedBranch, WantedArch, WantedStability, Guess
<1>2. ASSUME phase \in {"options", "branch"}, UNCHANGED <<known, opt, env>>
      PROVE  (Candidates = {} \/ Ambiguous)'
  BY <1>1, <1>2 DEF Candidates, Settled
<1>3. CASE ReadOptions
  BY <1>2, <1>3 DEF ReadOptions, Continue, Refuse, statics
<1>4. CASE ChooseBranch
  <2>1. CASE UNCHANGED <<known, opt, env>>
    BY <1>2, <1>4, <2>1 DEF ChooseBranch, Continue
  <2>2. CASE ~UNCHANGED <<known, opt, env>>
    <3>1. known' = listing /\ WantedBranch \notin Named(listing) /\ UNCHANGED <<opt, env>>
      BY <1>4, <2>2 DEF ChooseBranch, Continue, Refuse, statics, WantedBranch
    <3>2. WantedBranch' = WantedBranch
      BY <3>1 DEF WantedBranch, Guess
    <3> QED
      BY <3>1, <3>2 DEF Candidates, Wanted, Named
  <2> QED  BY <2>1, <2>2
<1>5. CASE Usage
  BY <1>5 DEF Usage, Continue
<1>6. CASE GetArch
  <2>1. phase = "arch" /\ WantedArch \notin Arch /\ Refuse
    BY <1>6 DEF GetArch, Continue, Settled, WantedArch
  <2>2. Candidates = {}
    BY <2>1 DEF Candidates, Wanted, TypeOK, Series
  <2> QED  BY <1>1, <2>1, <2>2 DEF Refuse, statics
<1>7. CASE GetCrt
  <2>1. phase = "crt" /\ Refuse
    BY <1>7 DEF GetCrt, Continue
  <2>2. crt = None /\ env.vs = None /\ \A c \in Crt : Crts(known) # {c}
    BY <1>7, <2>1 DEF GetCrt, Continue, TypeOK, Environment, Remembered
  <2>3. PICK s \in known : s.branch = branch
    BY <2>1 DEF Settled, Named
  <2>4. s.crt \in Crts(known) /\ s.crt \in Crt
    BY <2>3 DEF Crts, TypeOK, Series
  <2>5. PICK c \in Crts(known) : c # s.crt
    BY <2>2, <2>4
  <2>6. PICK t \in known : t.branch = branch /\ t.crt = c
    BY <2>5 DEF Crts
  <2>7. Ambiguous
    BY <2>1, <2>2, <2>3, <2>5, <2>6 DEF Ambiguous, Settled
  <2> QED  BY <1>1, <2>1, <2>7 DEF Refuse, statics
<1>8. CASE CheckActive
  <2>1. phase = "active" /\ crt # env.vs /\ ~opt.force /\ Refuse
    BY <1>8 DEF CheckActive, Continue
  <2>2. ASSUME NEW s \in known, Wanted(s) PROVE FALSE
    <3>1. s.crt \in Crt /\ s.crt = env.vs
      BY <2>1, <2>2 DEF TypeOK, Series, Wanted
    <3> QED  BY <2>1, <2>2, <3>1 DEF Settled, Wanted
  <2>3. Candidates = {}
    BY <2>2 DEF Candidates
  <2> QED  BY <1>1, <2>1, <2>3 DEF Refuse, statics
<1>9. CASE Resolve
  <2>1. phase = "resolve" /\ BranchData = {} /\ Refuse
    BY <1>9 DEF Resolve
  <2>2. Candidates = {}
    BY <2>1, SearchIsRight
  <2> QED  BY <1>1, <2>1, <2>2 DEF Refuse, statics
<1>10. CASE UseName
  BY <1>10 DEF UseName, Settled
<1>11. CASE Finish
  BY <1>11 DEF Finish, Continue
<1>12. CASE Publish
  BY <1>12 DEF Publish
<1> QED
  BY <1>3, <1>4, <1>5, <1>6, <1>7, <1>8, <1>9, <1>10, <1>11, <1>12 DEF Next

-----------------------------------------------------------------------------
LEMMA InitSettled == Init => TypeOK /\ Settled
BY SdkConfigAssumption DEF Init, TypeOK, Settled, Phases, Paths

(* Every step keeps the types.                                             *)
LEMMA TypeStep ==
    ASSUME TypeOK, Settled, [Next]_vars
    PROVE  TypeOK'
<1> USE SdkConfigAssumption DEF TypeOK, Phases, Continue, Refuse, statics
<1>1. CASE ReadOptions
  BY <1>1 DEF ReadOptions, Option, Paths
<1>2. CASE ChooseBranch
  <2>1. WantedBranch \in Branch \cup {None} /\ DepsPath \in Paths \cup {None}
    BY WantedTypes
  <2>2. listing \subseteq Series
    OBVIOUS
  <2> QED  BY <1>2, <2>1, <2>2 DEF ChooseBranch, WantedBranch
<1>3. CASE Usage
  BY <1>3 DEF Usage
<1>4. CASE GetArch
  BY <1>4 DEF GetArch
<1>5. CASE GetCrt
  BY <1>5 DEF GetCrt
<1>6. CASE CheckActive
  BY <1>6 DEF CheckActive
<1>7. CASE Resolve
  <2>1. StabilityName \in Stability
    BY DEF StabilityName, Stability
  <2>2. BranchData \subseteq Series
    BY DEF BranchData, Remembered
  <2> QED  BY <1>7, <2>1, <2>2 DEF Resolve
<1>8. CASE UseName
  <2>1. phase = "work" /\ data \in BranchData
    BY <1>8 DEF UseName, Settled
  <2>2. \A s \in BranchData : s \in Series
    BY DEF BranchData, Remembered
  <2>3. \A s \in BranchData :
          [branch |-> branch, crt |-> s.crt, arch |-> data.arch, stability |-> data.stability] \in Series
    BY <2>1, <2>2 DEF Series, BranchData
  <2> QED  BY <1>8, <2>1, <2>2, <2>3 DEF UseName
<1>9. CASE Finish
  BY <1>9 DEF Finish
<1>10. CASE Publish
  BY <1>10 DEF Publish
<1>11. CASE UNCHANGED vars
  BY <1>11 DEF vars
<1> QED
  BY <1>1, <1>2, <1>3, <1>4, <1>5, <1>6, <1>7, <1>8, <1>9, <1>10, <1>11 DEF Next

(* Nothing that a lazily filled property depends on changes behind it.     *)
LEMMA SettledFrame ==
    ASSUME Settled, UNCHANGED <<opt, env, phase, statics, data, used, cached>>
    PROVE  Settled'
BY DEF Settled, statics, WantedBranch, WantedArch, WantedStability, Guess, Named,
       Crts, BranchData, StabilityName, Remembered

(* At work, Series::getName() gives the name of the series announced.      *)
LEMMA NameIsData ==
    ASSUME TypeOK, Settled, phase = "work"
    PROVE  /\ BranchData = {data}
           /\ data = [branch |-> branch, crt |-> data.crt, arch |-> data.arch,
                      stability |-> data.stability]
<1>1. data \in BranchData
  BY DEF Settled
<1>2. data \in Series /\ data.branch = branch
  BY <1>1 DEF BranchData, Remembered, TypeOK
<1> QED
  BY <1>1, <1>2, SearchIsUnique DEF Series

LEMMA SettledStep ==
    ASSUME TypeOK, Settled, [Next]_vars
    PROVE  Settled'
<1> USE SdkConfigAssumption
<1>0. ASSUME UNCHANGED <<opt, env>>
      PROVE  UNCHANGED <<WantedBranch, WantedArch, WantedStability>>
  BY <1>0 DEF WantedBranch, WantedArch, WantedStability, Guess
<1>r. ASSUME phase' = "refused", UNCHANGED used, UNCHANGED data
      PROVE  Settled'
  BY <1>r DEF Settled
<1>1. CASE ReadOptions
  BY <1>1, <1>r DEF ReadOptions, Continue, Refuse, Settled
<1>2. CASE ChooseBranch
  <2>1. CASE phase' = "refused"
    BY <1>2, <1>r, <2>1 DEF ChooseBranch, Continue, Refuse
  <2>2. CASE phase' # "refused"
    <3>1. /\ phase = "branch" /\ phase' = "arch"
          /\ branch' = WantedBranch /\ WantedBranch \in Named(listing) /\ known' = listing
          /\ path' = DepsPath /\ DepsPath # None
          /\ cached' = [cached EXCEPT ![DepsPath] = listing]
          /\ UNCHANGED <<opt, env, crt, arch, stability, data, used>>
      BY <1>2, <2>2 DEF ChooseBranch, Continue, Refuse, WantedBranch
    <3>2. cached'[path'] = known'
      BY <3>1, WantedTypes DEF TypeOK
    <3>3. branch' = WantedBranch' /\ branch' \in Named(known')
      BY <1>0, <3>1
    <3> QED  BY <3>1, <3>2, <3>3 DEF Settled, Named
  <2> QED  BY <2>1, <2>2
<1>3. CASE Usage
  BY <1>0, <1>3 DEF Usage, Continue, Settled, statics, Named
<1>4. CASE GetArch
  <2>1. CASE phase' = "refused"
    BY <1>4, <1>r, <2>1 DEF GetArch, Continue, Refuse
  <2>2. CASE phase' # "refused"
    <3>1. phase = "arch" /\ phase' = "crt" /\ arch' = WantedArch
      BY <1>4, <2>2 DEF GetArch, Continue, Refuse, Settled, WantedArch
    <3> QED  BY <1>0, <1>4, <2>2, <3>1 DEF GetArch, Continue, Refuse, Settled, Named
  <2> QED  BY <2>1, <2>2
<1>5. CASE GetCrt
  <2>1. CASE phase' = "refused"
    BY <1>5, <1>r, <2>1 DEF GetCrt, Continue, Refuse
  <2>2. CASE phase' # "refused"
    <3>1. /\ phase = "crt" /\ phase' = "active" /\ crt' \in Crt
          /\ UNCHANGED <<opt, env, data, used, known, branch, arch, stability, path, cached>>
      BY <1>5, <2>2 DEF GetCrt, Continue, Refuse
    <3>2. crt = opt.crt
      BY <3>1 DEF Settled
    <3>3. /\ opt.crt # None => crt' = opt.crt
          /\ opt.crt = None /\ env.vs # None => crt' = env.vs
          /\ opt.crt = None /\ env.vs = None => Crts(known) = {crt'}
      BY <1>5, <2>2, <3>2 DEF GetCrt, Continue, Refuse, Remembered
    <3>4. Crts(known)' = Crts(known)
      BY <3>1 DEF Crts
    <3> QED  BY <1>0, <3>1, <3>3, <3>4 DEF Settled, Named
  <2> QED  BY <2>1, <2>2
<1>6. CASE CheckActive
  <2>1. CASE phase' = "refused"
    BY <1>6, <1>r, <2>1 DEF CheckActive, Continue, Refuse
  <2>2. CASE phase' # "refused"
    BY <1>0, <1>6, <2>2 DEF CheckActive, Continue, Refuse, Settled, statics, Named, Crts
  <2> QED  BY <2>1, <2>2
<1>7. CASE Resolve
  <2>1. CASE phase' = "refused"
    BY <1>7, <1>r, <2>1 DEF Resolve, Refuse
  <2>2. CASE phase' # "refused"
    <3>1. /\ phase = "resolve" /\ phase' = "work" /\ data' \in BranchData
          /\ stability' = StabilityName
          /\ UNCHANGED <<opt, env, known, branch, crt, arch, path, used, cached>>
      BY <1>7, <2>2 DEF Resolve, Refuse
    <3>2. StabilityName = WantedStability /\ StabilityName # None
      BY <3>1 DEF Settled, StabilityName, WantedStability, TypeOK, Stability
    <3>3. BranchData' = BranchData
      BY <3>1, <3>2 DEF BranchData, StabilityName, Remembered
    <3>4. used = {}
      BY <3>1 DEF Settled
    <3> QED  BY <1>0, <3>1, <3>2, <3>3, <3>4 DEF Settled, Named, Crts
  <2> QED  BY <2>1, <2>2
<1>8. CASE UseName
  <2>1. phase = "work" /\ BranchData = {data} /\ data \in BranchData
    BY <1>8, NameIsData DEF UseName
  <2>2. /\ used' \subseteq {data}
        /\ UNCHANGED <<opt, env, phase, statics, data, listing, cached>>
    BY <1>8, <2>1, NameIsData DEF UseName, Settled
  <2> QED  BY <1>0, <2>1, <2>2 DEF Settled, statics, Named, Crts, BranchData, StabilityName, Remembered
<1>9. CASE Finish
  BY <1>0, <1>9 DEF Finish, Continue, Settled, statics, Named
<1>10. CASE Publish
  BY <1>10, SettledFrame DEF Publish
<1>11. CASE UNCHANGED vars
  BY <1>11, SettledFrame DEF vars
<1> QED
  BY <1>1, <1>2, <1>3, <1>4, <1>5, <1>6, <1>7, <1>8, <1>9, <1>10, <1>11 DEF Next

-----------------------------------------------------------------------------
(* ConfigInv is an invariant: what each property of the class holds in     *)
(* each phase, and with it both halves of a right answer.                  *)
THEOREM ConfigCorrect == Spec => []ConfigInv
<1>1. Init => ConfigInv
  <2> SUFFICES ASSUME Init PROVE ConfigInv
    OBVIOUS
  <2>1. TypeOK /\ Settled
    BY InitSettled
  <2> QED  BY <2>1, WorkIsRight DEF ConfigInv, RefusesRight, Init
<1>2. ConfigInv /\ [Next]_vars => ConfigInv'
  <2> SUFFICES ASSUME ConfigInv, [Next]_vars PROVE ConfigInv'
    OBVIOUS
  <2>0. TypeOK /\ Settled /\ RefusesRight
    BY DEF ConfigInv
  <2>1. TypeOK' /\ Settled'
    BY <2>0, TypeStep, SettledStep
  <2>2. ResolvesRight'
    BY <2>1, WorkIsRight, PTL
  <2>3. RefusesRight'
    <3>1. CASE phase' # "refused"
      BY <3>1 DEF RefusesRight
    <3>2. CASE phase' = "refused" /\ phase # "refused"
      <4>1. Next
        BY <3>2 DEF vars
      <4> QED  BY <2>0, <3>2, <4>1, RefusalIsRight
    <3>3. CASE phase' = "refused" /\ phase = "refused"
      <4>1. UNCHANGED <<opt, env, known>>
        BY <3>3 DEF Next, vars, statics, ReadOptions, ChooseBranch, Usage, GetArch, GetCrt,
              CheckActive, Resolve, UseName, Finish, Publish, Continue, Refuse
      <4> QED
        BY <2>0, <3>3, <4>1 DEF RefusesRight, Candidates, Ambiguous, Wanted,
              WantedBranch, WantedArch, WantedStability, Guess
    <3> QED  BY <3>1, <3>2, <3>3
  <2> QED  BY <2>1, <2>2, <2>3 DEF ConfigInv
<1> QED  BY <1>1, <1>2, PTL DEF Spec

(* A command works on the one series that was asked for.                   *)
THEOREM ConfigResolves == Spec => []ResolvesRight
<1>1. ConfigInv => ResolvesRight
  BY DEF ConfigInv
<1> QED  BY <1>1, ConfigCorrect, PTL

(* A command refuses only when there is no such series, or several CRTs.   *)
THEOREM ConfigRefuses == Spec => []RefusesRight
<1>1. ConfigInv => RefusesRight
  BY DEF ConfigInv
<1> QED  BY <1>1, ConfigCorrect, PTL

(* A command at work keeps to its series, whatever the server lists now.   *)
THEOREM ConfigKeeps == Spec => OneSeries
<1>1. ConfigInv /\ [Next]_vars => [phase = "work" => phase' # "refused" /\ used' \subseteq {data}]_vars
  <2> SUFFICES ASSUME ConfigInv, [Next]_vars, phase = "work"
               PROVE  phase' # "refused" /\ used' \subseteq {data}
    OBVIOUS
  <2>0. TypeOK /\ Settled
    BY DEF ConfigInv
  <2>1. BranchData = {data} /\ used \subseteq {data}
    BY <2>0, NameIsData DEF Settled
  <2>2. CASE UseName
    BY <2>0, <2>1, <2>2, NameIsData DEF UseName
  <2>3. CASE ~UseName
    BY <2>1, <2>3 DEF Next, vars, ReadOptions, ChooseBranch, Usage, GetArch, GetCrt,
          CheckActive, Resolve, Finish, Publish, Continue, Refuse
  <2> QED  BY <2>2, <2>3
<1> QED  BY <1>1, ConfigCorrect, PTL DEF Spec, OneSeries
=============================================================================
