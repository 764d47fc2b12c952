-------------------------- MODULE DiscoveryChecks_proofs --------------------------
(***************************************************************************)
(* Proofs about Discovery: where the checks come from, what they run, and  *)
(* which ids they have, in any repository.                                 *)
(***************************************************************************)
EXTENDS Discovery, Verifiers_proofs

-----------------------------------------------------------------------------
(* Picking and sorting.                                                     *)

\* What is picked from a sequence are its elements at those places, once each
\* and in their order.
LEMMA PickedFacts ==
  ASSUME NEW S, NEW s \in Seq(S), NEW I \in SUBSET DOMAIN s,
         NEW p, p = Picked(s, I)
  PROVE  \E o \in [DOMAIN p -> I] :
           /\ p \in Seq(S)
           /\ \A n \in DOMAIN p : p[n] = s[o[n]]
           /\ \A i \in I : \E n \in DOMAIN p : o[n] = i
           /\ \A m, n \in DOMAIN p : o[m] = o[n] => m = n
           /\ \A m, n \in DOMAIN p : m < n => o[m] < o[n]
<1> DEFINE before == {q \in I \X I : q[1] < q[2]}
           o == InOrder(I, before)
           c == Cardinality(I)
<1>1. IsFiniteSet(I) /\ I \subseteq Nat
  <2>1. DOMAIN s = 1..Len(s) /\ Len(s) \in Nat
    OBVIOUS
  <2>2. IsFiniteSet(DOMAIN s) /\ DOMAIN s \subseteq Nat
    BY <2>1, FS_Interval
  <2> QED
    BY <2>2, FS_Subset
<1>2. \A i, j \in I : <<i, j>> \in before <=> i < j
  OBVIOUS
<1> HIDE DEF before
<1>3. StrictOrder(before, I)
  BY <1>1, <1>2 DEF StrictOrder
<1>4. /\ c \in Nat /\ o \in [1..c -> I]
      /\ \A x \in I : \E n \in 1..c : o[n] = x
      /\ \A m, n \in 1..c : o[m] = o[n] => m = n
      /\ \A m, n \in 1..c : m < n => <<o[m], o[n]>> \in before
  BY <1>1, <1>3, InOrderFacts
<1>5. p = [n \in DOMAIN o |-> s[o[n]]]
  BY DEF Picked, before
<1> HIDE DEF o, c
<1>6. DOMAIN p = 1..c /\ \A n \in 1..c : p[n] = s[o[n]] /\ p[n] \in S
  BY <1>4, <1>5
<1>7. p \in Seq(S)
  BY <1>4, <1>5, <1>6
<1>8. \A m, n \in 1..c : m < n => o[m] < o[n]
  BY <1>2, <1>4
<1>9. o \in [DOMAIN p -> I]
  BY <1>4, <1>6
<1> WITNESS o \in [DOMAIN p -> I]
<1> QED
  BY <1>4, <1>6, <1>7, <1>8

\* p has the elements of s at other places, in the order of their ids.
IsSortOf(p, s) ==
  \E o \in [DOMAIN p -> DOMAIN s] :
    /\ p \in Seq(Check)
    /\ \A n \in DOMAIN p : p[n] = s[o[n]]
    /\ \A i \in DOMAIN s : \E n \in DOMAIN p : o[n] = i
    /\ \A m, n \in DOMAIN p : o[m] = o[n] => m = n
    /\ \A m, n \in DOMAIN p : m < n => IdRank[p[m].id] <= IdRank[p[n].id]

\* A sorted sequence has the elements it had, once each, in the order of their ids.
LEMMA SortFacts ==
  ASSUME NEW s \in Seq(Check), NEW p, p = SortById(s)
  PROVE  IsSortOf(p, s)
<1> DEFINE D == DOMAIN s
           Rank(i) == IdRank[s[i].id]
           Before(i, j) == \/ Rank(i) < Rank(j)
                           \/ s[i].id = s[j].id /\ i < j
           before == {q \in D \X D : Before(q[1], q[2])}
           o == InOrder(D, before)
           c == Cardinality(D)
<1>1. IsFiniteSet(D) /\ D \subseteq Nat
  <2>1. D = 1..Len(s) /\ Len(s) \in Nat
    OBVIOUS
  <2> QED
    BY <2>1, FS_Interval
<1>2. /\ \A i \in D : s[i].id \in Ids /\ Rank(i) \in Nat /\ s[i] \in Check
      /\ \A i, j \in D : Rank(i) = Rank(j) <=> s[i].id = s[j].id
  <2>1. \A i \in D : s[i] \in Check
    OBVIOUS
  <2>2. \A i \in D : s[i].id \in Ids
    BY <2>1 DEF Check
  <2> HIDE DEF D
  <2> QED
    BY <2>1, <2>2, IdAssumption
<1>3. \A i, j \in D : <<i, j>> \in before <=> Before(i, j)
  OBVIOUS
<1>4. p = [n \in DOMAIN o |-> s[o[n]]]
  BY DEF SortById
<1> HIDE DEF before, Rank, D
<1>5. StrictOrder(before, D)
  <2>1. \A i \in D : ~Before(i, i)
    BY <1>1, <1>2
  <2>2. \A i, j, k \in D : Before(i, j) /\ Before(j, k) => Before(i, k)
    BY <1>1, <1>2
  <2>3. \A i, j \in D : i # j => Before(i, j) \/ Before(j, i)
    BY <1>1, <1>2
  <2> QED
    BY <1>3, <2>1, <2>2, <2>3 DEF StrictOrder
<1>6. /\ c \in Nat /\ o \in [1..c -> D]
      /\ \A x \in D : \E n \in 1..c : o[n] = x
      /\ \A m, n \in 1..c : o[m] = o[n] => m = n
      /\ \A m, n \in 1..c : m < n => <<o[m], o[n]>> \in before
  BY <1>1, <1>5, InOrderFacts
<1> HIDE DEF o, c
<1>7. DOMAIN p = 1..c /\ \A n \in 1..c : p[n] = s[o[n]] /\ p[n] \in Check
  BY <1>2, <1>4, <1>6
<1>8. p \in Seq(Check)
  BY <1>4, <1>6, <1>7
<1>9. ASSUME NEW m \in 1..c, NEW n \in 1..c, m < n
      PROVE  IdRank[p[m].id] <= IdRank[p[n].id]
  <2>1. Before(o[m], o[n]) /\ o[m] \in D /\ o[n] \in D
    BY <1>3, <1>6, <1>9
  <2>2. Rank(o[m]) \in Nat /\ Rank(o[n]) \in Nat
    BY <1>2, <2>1
  <2>3. Rank(o[m]) < Rank(o[n]) \/ Rank(o[m]) = Rank(o[n])
    BY <1>2, <2>1
  <2>4. Rank(o[m]) <= Rank(o[n])
    BY <2>2, <2>3
  <2> QED
    BY <1>7, <2>4 DEF Rank
<1>10. o \in [DOMAIN p -> DOMAIN s]
  BY <1>6, <1>7 DEF D
<1> SUFFICES \E r \in [DOMAIN p -> DOMAIN s] :
                /\ p \in Seq(Check)
                /\ \A n \in DOMAIN p : p[n] = s[r[n]]
                /\ \A i \in DOMAIN s : \E n \in DOMAIN p : r[n] = i
                /\ \A m, n \in DOMAIN p : r[m] = r[n] => m = n
                /\ \A m, n \in DOMAIN p : m < n => IdRank[p[m].id] <= IdRank[p[n].id]
  BY DEF IsSortOf
<1> WITNESS o \in [DOMAIN p -> DOMAIN s]
<1> QED
  BY <1>6, <1>7, <1>8, <1>9 DEF D

-----------------------------------------------------------------------------
(* Types.                                                                   *)

\* What the manifests yield are checks.
LEMMA ManifestIsCheck == ManifestCheck \subseteq Check
<1>1. /\ ToolIds \cup ScriptIds \subseteq Ids /\ Here \in Dirs
      /\ \A l \in {"javascript", "python", "rust", "go"} : Coverage[l] \in SUBSET Paths
  BY IdAssumption, DirAssumption, InputAssumption DEF ScriptIds
<1>2. <<>> \in Seq(Names)
  OBVIOUS
<1> QED
  BY <1>1, <1>2 DEF ManifestCheck, Check

\* The repository at hand is one of those the assumptions are about.
LEMMA ProjectFacts ==
  ASSUME NEW p \in Projects \cup {NoProject}
  PROVE  DOMAIN p.scripts \subseteq Scripts /\ IsFiniteSet(DOMAIN p.scripts)
<1>1. CASE p \in Projects
  BY <1>1, InputAssumption
<1>2. CASE p = NoProject
  <2>1. DOMAIN p.scripts = {}
    BY <1>2 DEF NoProject
  <2> QED
    BY <2>1, FS_EmptySet
<1> QED
  BY <1>1, <1>2

ChecksOf(p) == ManifestChecks(p.files, p.scripts, p.requirements)
IsYielded(c, p) == c \in ToolCheck \/ IsScriptCheck(c, p.files, p.scripts)

\* The checks of a repository are those of its tools and scripts, and a tool has one.
LEMMA ChecksOfFacts ==
  ASSUME NEW p \in Projects \cup {NoProject}, NEW cs, cs = ChecksOf(p)
  PROVE  /\ cs \in Seq(ManifestCheck) /\ cs \in Seq(Check)
         /\ \A i \in DOMAIN cs : IsYielded(cs[i], p)
         /\ \A i, j \in DOMAIN cs : cs[i].argv = cs[j].argv => i = j
         /\ \A i, j \in DOMAIN cs :
              cs[i] \in ToolCheck /\ cs[j] \in ToolCheck /\ cs[i].id = cs[j].id => i = j
<1>1. DOMAIN p.scripts \subseteq Scripts /\ IsFiniteSet(DOMAIN p.scripts)
  BY ProjectFacts
<1> DEFINE files == p.files
           scripts == p.scripts
           requirements == p.requirements
<1>2. cs = ManifestChecks(files, scripts, requirements)
  BY DEF ChecksOf
<1> HIDE DEF files, scripts, requirements
<1>3. /\ cs \in Seq(ManifestCheck)
      /\ \A i \in DOMAIN cs : cs[i] \in ToolCheck \/ IsScriptCheck(cs[i], files, scripts)
      /\ \A i, j \in DOMAIN cs : cs[i].argv = cs[j].argv => i = j
      /\ \A i, j \in DOMAIN cs :
           cs[i] \in ToolCheck /\ cs[j] \in ToolCheck /\ cs[i].id = cs[j].id => i = j
  BY <1>1, <1>2, ManifestFacts DEF scripts
<1>4. cs \in Seq(Check)
  BY <1>3, ManifestIsCheck
<1> QED
  BY <1>3, <1>4 DEF IsYielded, files, scripts

\* The checks of a configuration are explicit ones.
LEMMA ConfigFacts ==
  ASSUME NEW c \in Configs \cup {NoConfig}
  PROVE  c.checks \in Seq(Check) /\ \A i \in DOMAIN c.checks : c.checks[i].explicit
<1>1. CASE c \in Configs
  BY <1>1, InputAssumption
<1>2. CASE c = NoConfig
  BY <1>2 DEF NoConfig
<1> QED
  BY <1>1, <1>2

\* The check that becomes of a step.
CheckOf(step) ==
  [id |-> CiId[step.text], argv |-> Split[step.text], dir |-> step.dir,
   covers |-> CiCovers[step.text], explicit |-> FALSE, replaces |-> <<>>]

\* A safe step is a command in a directory, and what is made of it is a check.
LEMMA CheckOfIsCheck ==
  ASSUME NEW step \in Steps
  PROVE  /\ CheckOf(step) \in Check
         /\ step.name \in Names /\ step.text \in Texts /\ step.dir \in Dirs
<1>1. step.name \in Names /\ step.text \in Texts /\ step.dir \in Dirs
  BY InputAssumption DEF Step
<1>2. /\ CiId[step.text] \in Ids /\ Split[step.text] \in Seq(Words)
      /\ CiCovers[step.text] \in SUBSET Paths
  BY <1>1, TextAssumption
<1>3. <<>> \in Seq(Names)
  OBVIOUS
<1> QED
  BY <1>1, <1>2, <1>3 DEF CheckOf, Check

\* What is left of the checks, and those of the configuration, in their order.
LEMMA ConfigureFacts ==
  ASSUME TypeOK, Configure, stage' # "failed"
  PROVE  /\ checks' \in Seq(Check)
         /\ \A n \in DOMAIN checks' :
              \/ \E i \in DOMAIN checks : checks'[n] = checks[i]
              \/ \E j \in DOMAIN config.checks : checks'[n] = config.checks[j]
         /\ \A i \in DOMAIN checks :
              checks[i].id \notin config.disable_checks =>
                \E n \in DOMAIN checks' : checks'[n] = checks[i]
         /\ \A m, n \in DOMAIN checks' :
              /\ ~checks'[m].explicit /\ ~checks'[n].explicit /\ m # n
              => \E i, j \in DOMAIN checks :
                   i # j /\ checks'[m] = checks[i] /\ checks'[n] = checks[j]
         /\ \A m, n \in DOMAIN checks' :
              m < n => IdRank[checks'[m].id] <= IdRank[checks'[n].id]
<1> DEFINE kept == {i \in DOMAIN checks : checks[i].id \notin config.disable_checks}
           p == Picked(checks, kept)
           u == p \o config.checks
<1>1. checks' = SortById(u)
  BY DEF Configure, Fail
<1>2. checks \in Seq(Check) /\ kept \in SUBSET DOMAIN checks
  BY DEF TypeOK
<1>3. /\ config.checks \in Seq(Check)
      /\ \A j \in DOMAIN config.checks : config.checks[j].explicit
  BY ConfigFacts DEF TypeOK
<1> HIDE DEF kept, p, u
<1>4. PICK o \in [DOMAIN p -> kept] :
           /\ p \in Seq(Check)
           /\ \A n \in DOMAIN p : p[n] = checks[o[n]]
           /\ \A i \in kept : \E n \in DOMAIN p : o[n] = i
           /\ \A m, n \in DOMAIN p : o[m] = o[n] => m = n
           /\ \A m, n \in DOMAIN p : m < n => o[m] < o[n]
  <2>1. p = Picked(checks, kept)
    BY DEF p
  <2> QED
    BY <1>2, <2>1, PickedFacts
<1>5. /\ u \in Seq(Check)
      /\ \A i \in DOMAIN u :
           \/ i \in DOMAIN p /\ u[i] = p[i]
           \/ i \notin DOMAIN p /\ i - Len(p) \in DOMAIN config.checks
              /\ u[i] = config.checks[i - Len(p)]
      /\ \A i \in DOMAIN p : i \in DOMAIN u /\ u[i] = p[i]
  BY <1>3, <1>4, Joined DEF u
<1>6. PICK f \in [DOMAIN checks' -> DOMAIN u] :
           /\ checks' \in Seq(Check)
           /\ \A n \in DOMAIN checks' : checks'[n] = u[f[n]]
           /\ \A i \in DOMAIN u : \E n \in DOMAIN checks' : f[n] = i
           /\ \A m, n \in DOMAIN checks' : f[m] = f[n] => m = n
           /\ \A m, n \in DOMAIN checks' : m < n => IdRank[checks'[m].id] <= IdRank[checks'[n].id]
  <2>1. IsSortOf(checks', u)
    BY <1>1, <1>5, SortFacts
  <2> QED
    BY <2>1 DEF IsSortOf
<1>7. ASSUME NEW n \in DOMAIN checks'
      PROVE  \/ \E i \in DOMAIN checks : checks'[n] = checks[i]
             \/ \E j \in DOMAIN config.checks : checks'[n] = config.checks[j]
  <2>1. f[n] \in DOMAIN u /\ checks'[n] = u[f[n]]
    BY <1>6
  <2>2. CASE f[n] \in DOMAIN p
    BY <1>2, <1>4, <1>5, <2>1, <2>2
  <2>3. CASE f[n] \notin DOMAIN p
    BY <1>5, <2>1, <2>3
  <2> QED
    BY <2>2, <2>3
<1>8. ASSUME NEW i \in DOMAIN checks, checks[i].id \notin config.disable_checks
      PROVE  \E n \in DOMAIN checks' : checks'[n] = checks[i]
  <2>1. i \in kept
    BY <1>8 DEF kept
  <2>2. PICK m \in DOMAIN p : p[m] = checks[i]
    BY <1>4, <2>1
  <2> QED
    BY <1>5, <1>6, <2>2
<1>9. ASSUME NEW m \in DOMAIN checks', NEW n \in DOMAIN checks', m # n,
             ~checks'[m].explicit, ~checks'[n].explicit
      PROVE  \E i, j \in DOMAIN checks :
               i # j /\ checks'[m] = checks[i] /\ checks'[n] = checks[j]
  <2>1. /\ f[m] \in DOMAIN u /\ checks'[m] = u[f[m]] /\ f[m] # f[n]
        /\ f[n] \in DOMAIN u /\ checks'[n] = u[f[n]]
    BY <1>6, <1>9
  <2>2. f[m] \in DOMAIN p /\ f[n] \in DOMAIN p
    BY <1>3, <1>5, <1>9, <2>1
  <2>3. /\ o[f[m]] \in DOMAIN checks /\ o[f[n]] \in DOMAIN checks /\ o[f[m]] # o[f[n]]
        /\ checks'[m] = checks[o[f[m]]] /\ checks'[n] = checks[o[f[n]]]
    BY <1>2, <1>4, <1>5, <2>1, <2>2
  <2> QED
    BY <2>3
<1> QED
  BY <1>6, <1>7, <1>8, <1>9

\* A step of a workflow keeps to the types.
LEMMA TypesInspect ==
  ASSUME TypeOK, InspectStep
  PROVE  TypeOK'
<1>1. PICK step \in Steps :
        /\ steps' = Append(steps, step)
        /\ stage' \in {stage, "failed"}
        /\ error' \in {error, "configuration"}
        /\ \/ UNCHANGED found
           \/ MatchCheck(step) \/ NewCheck(step) \/ LeaveGap(step)
  BY DEF InspectStep, Goto, Fail
<1>2. /\ stage' \in Stages /\ error' \in {"none", "configuration", "discovery"}
      /\ UNCHANGED <<config, project, request, selection>> /\ Len(steps) < MaxSteps
  BY <1>1 DEF InspectStep, TypeOK, Stages
<1>3. steps' \in Seq(Steps) /\ Len(steps') <= MaxSteps
  BY <1>1, <1>2, BoundAssumption DEF TypeOK
<1>4. CheckOf(step) \in Check /\ step.name \in Names /\ step.text \in Texts
  BY CheckOfIsCheck
<1>5. ASSUME NEW class \in Classes, NEW id \in Ids \cup {NoCheck}, Observe(step, class, id)
      PROVE  observations' \in Seq(Observation)
  <2>1. [id |-> step.name, run |-> step.text, class |-> class, check_id |-> id] \in Observation
    BY <1>4 DEF Observation
  <2>2. observations \in Seq(Observation)
    BY DEF TypeOK
  <2> QED
    BY <1>5, <2>1, <2>2 DEF Observe
<1>6. /\ checks' \in Seq(Check) /\ observations' \in Seq(Observation)
      /\ gaps' \subseteq {StepGap(n) : n \in Names} \cup {PathGap(p) : p \in Paths} \cup {NothingGap}
  <2>1. CASE UNCHANGED found
    BY <2>1 DEF TypeOK, found
  <2>2. CASE MatchCheck(step)
    <3>1. PICK i \in DOMAIN checks : Observe(step, "MatchedCheck", checks[i].id)
      BY <2>2 DEF MatchCheck, Existing
    <3>2. checks[i] \in Check
      BY DEF TypeOK
    <3>3. checks[i].id \in Ids
      BY <3>2 DEF Check
    <3>4. observations' \in Seq(Observation)
      BY <1>5, <3>1, <3>3 DEF Classes
    <3> QED
      BY <2>2, <3>4 DEF MatchCheck, TypeOK
  <2>3. CASE NewCheck(step)
    <3>1. checks' = Append(checks, CheckOf(step))
      BY <2>3 DEF NewCheck, CheckOf
    <3>2. CiId[step.text] \in Ids
      BY <1>4, TextAssumption
    <3>3. observations' \in Seq(Observation)
      BY <1>5, <2>3, <3>2 DEF NewCheck, Classes
    <3>4. checks \in Seq(Check)
      BY DEF TypeOK
    <3>5. checks' \in Seq(Check)
      BY <1>4, <3>1, <3>4
    <3> QED
      BY <2>3, <3>3, <3>5 DEF NewCheck, TypeOK
  <2>4. CASE LeaveGap(step)
    <3>1. observations' \in Seq(Observation)
      BY <1>5, <2>4 DEF LeaveGap, Classes
    <3> QED
      BY <1>4, <2>4, <3>1 DEF LeaveGap, TypeOK
  <2> QED
    BY <1>1, <2>1, <2>2, <2>3, <2>4
<1> QED
  BY <1>2, <1>3, <1>6 DEF TypeOK

\* So do the replacements.
LEMMA TypesReplace ==
  ASSUME TypeOK, ApplyReplacements
  PROVE  TypeOK'
<1>1. CASE UNCHANGED <<observations, gaps>>
  BY <1>1 DEF ApplyReplacements, ReplaceIf, Goto, Fail, TypeOK, Stages
<1>2. CASE ~UNCHANGED <<observations, gaps>>
  <2> DEFINE ClaimOf(k) == CHOOSE c \in Claims : Claimed(c) = observations[k].id
             After(k) ==
               IF observations[k].id \in ClaimedIds /\ IsFirst(k)
                 THEN [observations[k] EXCEPT !.class = "ReplacedByExplicitCheck",
                                              !.check_id = checks[ClaimOf(k)[1]].id]
                 ELSE observations[k]
  <2>1. /\ stage' = "select" /\ error' = error /\ gaps' = UnclaimedGaps
        /\ observations' = [k \in DOMAIN observations |-> After(k)]
        /\ UNCHANGED <<config, project, steps, checks, request, selection>>
    BY <1>2 DEF ApplyReplacements, ReplaceIf, Goto
  <2>2. ASSUME NEW k \in DOMAIN observations, observations[k].id \in ClaimedIds
        PROVE  checks[ClaimOf(k)[1]].id \in Ids
    <3>1. \E c \in Claims : Claimed(c) = observations[k].id
      BY <2>2 DEF ClaimedIds
    <3>2. ClaimOf(k) \in Claims
      BY <3>1
    <3> HIDE DEF ClaimOf
    <3>3. PICK i \in DOMAIN checks : ClaimOf(k) \in {<<i, j>> : j \in DOMAIN checks[i].replaces}
      BY <3>2 DEF Claims
    <3>4. ClaimOf(k)[1] = i /\ checks[i] \in Check
      BY <3>3 DEF TypeOK
    <3> QED
      BY <3>4 DEF Check
  <2>3. observations \in Seq(Observation)
    BY DEF TypeOK
  <2>4. \A k \in DOMAIN observations : observations[k] \in Observation
    BY <2>3
  <2> HIDE DEF ClaimOf
  <2>5. \A k \in DOMAIN observations : After(k) \in Observation
    BY <2>2, <2>4 DEF Observation, Classes
  <2> HIDE DEF After
  <2>6. observations' \in Seq(Observation)
    <3>1. DOMAIN observations = 1..Len(observations) /\ Len(observations) \in Nat
      BY <2>3
    <3>2. observations' \in [1..Len(observations) -> Observation]
      BY <2>1, <2>5, <3>1
    <3> QED
      BY <3>1, <3>2
  <2>7. gaps' \subseteq gaps
    BY <2>1 DEF UnclaimedGaps
  <2> QED
    BY <2>1, <2>6, <2>7 DEF TypeOK, Stages
<1> QED
  BY <1>1, <1>2

\* So does the selection.
LEMMA TypesSelect ==
  ASSUME TypeOK, Select
  PROVE  TypeOK'
<1>1. CASE UNCHANGED <<selection, gaps>>
  BY <1>1 DEF Select, Goto, Fail, TypeOK, Stages
<1>2. CASE ~UNCHANGED <<selection, gaps>>
  <2>1. /\ stage' = "done" /\ error' = error
        /\ selection' = [i \in DOMAIN checks |-> select_check(checks[i])]
        /\ gaps' = gaps \cup coverage_gaps(selection')
        /\ UNCHANGED <<config, project, steps, checks, observations, request>>
    BY <1>2 DEF Select, Goto
  <2>2. request.changed \in SUBSET Paths /\ request.changed_only \in BOOLEAN
    BY InputAssumption DEF TypeOK
  <2>3. \A i \in DOMAIN checks : select_check(checks[i]) \in BOOLEAN
    <3>1. \A c : request.requested = {} => select_check(c) \in BOOLEAN
      BY Zenon DEF select_check
    <3>2. \A c : request.requested # {} =>
                    select_check(c) = (c.id \in request.requested)
      BY Zenon DEF select_check
    <3>3. \A c : (c.id \in request.requested) \in BOOLEAN
      BY SMT
    <3> QED
      BY <3>1, <3>2, <3>3
  <2>4. selection' \in Seq(BOOLEAN)
    <3>1. DOMAIN checks = 1..Len(checks) /\ Len(checks) \in Nat
      BY DEF TypeOK
    <3>2. selection' \in [1..Len(checks) -> BOOLEAN]
      BY <2>1, <2>3, <3>1
    <3> QED
      BY <3>1, <3>2
  <2>5. coverage_gaps(selection') \subseteq {PathGap(p) : p \in Paths} \cup {NothingGap}
    BY <2>2 DEF coverage_gaps
  <2> QED
    BY <2>1, <2>4, <2>5 DEF TypeOK, Stages
<1> QED
  BY <1>1, <1>2

\* And so does every step.
LEMMA TypesNext ==
  ASSUME TypeOK, [Next]_vars
  PROVE  TypeOK'
<1>1. CASE ReadConfig
  BY <1>1 DEF ReadConfig, Goto, Fail, found, TypeOK, Stages
<1>2. CASE ReadManifests
  <2>1. project' \in Projects /\ stage' \in Stages /\ error' \in {error, "discovery"}
    BY <1>2 DEF ReadManifests, Goto, Fail, Stages
  <2>2. ChecksOf(project') \in Seq(Check)
    BY <2>1, ChecksOfFacts
  <2>3. checks' \in {checks, ChecksOf(project')}
    BY <1>2 DEF ReadManifests, ChecksOf
  <2>4. checks' \in Seq(Check)
    BY <2>2, <2>3 DEF TypeOK
  <2> QED
    BY <1>2, <2>1, <2>4 DEF ReadManifests, TypeOK
<1>3. CASE EndWorkflows \/ Validate
  BY <1>3 DEF EndWorkflows, Validate, Goto, Fail, found, TypeOK, Stages
<1>4. CASE Configure
  <2>1. checks' \in Seq(Check)
    <3>1. CASE stage' = "failed"
      BY <1>4, <3>1 DEF Configure, Goto, TypeOK
    <3> QED
      BY <1>4, <3>1, ConfigureFacts
  <2>2. stage' \in Stages /\ error' \in {error, "configuration"}
    BY <1>4 DEF Configure, Goto, Fail, Stages
  <2> QED
    BY <1>4, <2>1, <2>2 DEF Configure, TypeOK
<1>5. CASE UNCHANGED vars
  BY <1>5 DEF vars, TypeOK
<1> QED
  BY <1>1, <1>2, <1>3, <1>4, <1>5, TypesInspect, TypesReplace, TypesSelect DEF Next, Returned

\* Every variable keeps to its type.
THEOREM TypesHold == Spec => []TypeOK
<1>1. Init => TypeOK
  <2> SUFFICES ASSUME Init PROVE TypeOK
    OBVIOUS
  <2>1. Len(<<>>) <= MaxSteps
    BY BoundAssumption
  <2> QED
    BY <2>1 DEF Init, TypeOK, Stages
<1>2. TypeOK /\ [Next]_vars => TypeOK'
  BY TypesNext
<1> QED
  BY <1>1, <1>2, PTL DEF Spec

-----------------------------------------------------------------------------
(* Where the checks are from.                                               *)

FromConfig(c) == \E j \in DOMAIN config.checks : c = config.checks[j]
FromManifest(c) == c \in ManifestCheck /\ IsYielded(c, project)
FromStep(c) ==
  \E n \in DOMAIN steps : safe_workflow_command(steps[n]) # NoArgv /\ c = CheckOf(steps[n])

InvOrigin ==
  \A i \in DOMAIN checks :
    FromConfig(checks[i]) \/ FromManifest(checks[i]) \/ FromStep(checks[i])

\* The manifests yield the check of a tool once.
InvTools ==
  \A i, j \in DOMAIN checks :
    /\ checks[i] \in ToolCheck /\ checks[j] \in ToolCheck
    /\ ~FromStep(checks[i]) /\ ~FromStep(checks[j]) /\ checks[i].id = checks[j].id
    => i = j

\* What is not there yet.
InvStart ==
  /\ stage \in {"config", "manifests"} => checks = <<>> /\ steps = <<>> /\ observations = <<>>
  /\ stage = "config" => config = NoConfig
  /\ stage = "workflows" /\ steps = <<>> => checks = ChecksOf(project)

InvChecks == InvStart /\ InvOrigin /\ InvTools /\ OneCheckPerCommand

\* Where none exists for a step, no check runs its command in its directory.
LEMMA NothingExists ==
  ASSUME TypeOK, NEW step, Existing(step) = {}, NEW i \in DOMAIN checks
  PROVE  checks[i].argv # Split[step.text] \/ checks[i].dir # step.dir
<1> DEFINE T == {k \in DOMAIN checks : checks[k].argv = Split[step.text] /\ checks[k].dir = step.dir}
<1>1. DOMAIN checks = 1..Len(checks) /\ Len(checks) \in Nat
  BY DEF TypeOK
<1> SUFFICES ASSUME T # {} PROVE FALSE
  OBVIOUS
<1>2. PICK m \in T : \A n \in T : m <= n
  <2>1. T \in SUBSET Nat
    BY <1>1
  <2> HIDE DEF T
  <2> QED
    BY <2>1, LeastElement
<1>3. \A j \in 1..(m - 1) : j \in DOMAIN checks /\ j \notin T
  BY <1>1, <1>2
<1>4. m \in Existing(step)
  BY <1>2, <1>3 DEF Existing
<1> QED
  BY <1>4

\* A step becomes a check, or what is found stays as it is.
LEMMA InspectFacts ==
  ASSUME TypeOK, InspectStep
  PROVE  \E step \in Steps :
           /\ stage = "workflows" /\ stage' \in {"workflows", "failed"}
           /\ steps' = Append(steps, step) /\ UNCHANGED <<config, project, request, selection>>
           /\ DOMAIN steps' = DOMAIN steps \cup {Len(steps) + 1}
           /\ Len(steps) + 1 \notin DOMAIN steps /\ steps'[Len(steps) + 1] = step
           /\ \A n \in DOMAIN steps : steps'[n] = steps[n]
           /\ \/ UNCHANGED checks
              \/ /\ checks' = Append(checks, CheckOf(step)) /\ Existing(step) = {}
                 /\ safe_workflow_command(step) # NoArgv
                 /\ DOMAIN checks' = DOMAIN checks \cup {Len(checks) + 1}
                 /\ Len(checks) + 1 \notin DOMAIN checks
                 /\ checks'[Len(checks) + 1] = CheckOf(step)
                 /\ \A i \in DOMAIN checks : checks'[i] = checks[i]
<1>1. PICK step \in Steps :
        /\ stage = "workflows" /\ stage' \in {"workflows", "failed"}
        /\ steps' = Append(steps, step) /\ UNCHANGED <<config, project, request, selection>>
        /\ \/ UNCHANGED checks
           \/ NewCheck(step) /\ safe_workflow_command(step) # NoArgv
  BY DEF InspectStep, Goto, Fail, MatchCheck, LeaveGap, found
<1>2. steps \in Seq(Steps) /\ checks \in Seq(Check)
  BY DEF TypeOK
<1>3. /\ DOMAIN steps' = DOMAIN steps \cup {Len(steps) + 1}
      /\ Len(steps) + 1 \notin DOMAIN steps /\ steps'[Len(steps) + 1] = step
      /\ \A n \in DOMAIN steps : steps'[n] = steps[n]
  BY <1>1, <1>2
<1>4. ASSUME NewCheck(step)
      PROVE  /\ checks' = Append(checks, CheckOf(step)) /\ Existing(step) = {}
             /\ DOMAIN checks' = DOMAIN checks \cup {Len(checks) + 1}
             /\ Len(checks) + 1 \notin DOMAIN checks
             /\ checks'[Len(checks) + 1] = CheckOf(step)
             /\ \A i \in DOMAIN checks : checks'[i] = checks[i]
  <2>1. checks' = Append(checks, CheckOf(step)) /\ Existing(step) = {}
    BY <1>4 DEF NewCheck, CheckOf
  <2> QED
    BY <1>2, <2>1
<1> QED
  BY <1>1, <1>3, <1>4

\* A step adds a check only of a command that has none.
LEMMA ChecksInspect ==
  ASSUME TypeOK, InvChecks, InspectStep
  PROVE  InvChecks'
<1>1. PICK step \in Steps :
           /\ stage = "workflows" /\ stage' \in {"workflows", "failed"}
           /\ steps' = Append(steps, step) /\ UNCHANGED <<config, project, request, selection>>
           /\ DOMAIN steps' = DOMAIN steps \cup {Len(steps) + 1}
           /\ Len(steps) + 1 \notin DOMAIN steps /\ steps'[Len(steps) + 1] = step
           /\ \A n \in DOMAIN steps : steps'[n] = steps[n]
           /\ \/ UNCHANGED checks
              \/ /\ checks' = Append(checks, CheckOf(step)) /\ Existing(step) = {}
                 /\ safe_workflow_command(step) # NoArgv
                 /\ DOMAIN checks' = DOMAIN checks \cup {Len(checks) + 1}
                 /\ Len(checks) + 1 \notin DOMAIN checks
                 /\ checks'[Len(checks) + 1] = CheckOf(step)
                 /\ \A i \in DOMAIN checks : checks'[i] = checks[i]
  BY InspectFacts
<1>2. InvStart'
  <2>1. steps' # <<>>
    BY <1>1
  <2> QED
    BY <1>1, <2>1 DEF InvStart
<1>3. \A c : FromStep(c) => FromStep(c)'
  BY <1>1 DEF FromStep, safe_workflow_command
<1>4. \A c : (FromConfig(c) => FromConfig(c)') /\ (FromManifest(c) => FromManifest(c)')
  BY <1>1 DEF FromConfig, FromManifest, IsYielded
<1>5. CASE UNCHANGED checks
  BY <1>2, <1>3, <1>4, <1>5 DEF InvChecks, InvOrigin, InvTools, OneCheckPerCommand
<1>6. CASE checks' # checks
  <2> DEFINE c == CheckOf(step)
             l == Len(checks) + 1
  <2>1. FromStep(c)'
    BY <1>1, <1>6 DEF FromStep, safe_workflow_command
  <2>2. InvOrigin'
    BY <1>1, <1>3, <1>4, <1>6, <2>1 DEF InvChecks, InvOrigin
  <2>4. InvTools'
    BY <1>1, <1>3, <1>6, <2>1 DEF InvChecks, InvTools
  <2>5. \A i \in DOMAIN checks : checks[i].argv # c.argv \/ checks[i].dir # c.dir
    BY <1>1, <1>6, NothingExists DEF CheckOf
  <2> HIDE DEF c
  <2>6. OneCheckPerCommand'
    BY <1>1, <1>6, <2>5, SMTT(30) DEF InvChecks, OneCheckPerCommand, c
  <2> QED
    BY <1>2, <2>2, <2>4, <2>6 DEF InvChecks
<1> QED
  BY <1>5, <1>6

\* The checks of the configuration are explicit; the others are among those there were.
LEMMA ChecksConfigure ==
  ASSUME TypeOK, InvChecks, Configure
  PROVE  InvChecks'
<1>1. stage' \in {"validate", "failed"} /\ UNCHANGED <<config, project, steps>>
  BY DEF Configure, Goto, Fail
<1>2. InvStart'
  BY <1>1 DEF InvStart
<1>3. \A c : FromConfig(c)' = FromConfig(c) /\ FromManifest(c)' = FromManifest(c) /\ FromStep(c)' = FromStep(c)
  BY <1>1 DEF FromConfig, FromManifest, IsYielded, FromStep, safe_workflow_command
<1>4. CASE stage' = "failed"
  <2>1. checks' = checks
    BY <1>4 DEF Configure, Goto
  <2> QED
    BY <1>2, <1>3, <2>1 DEF InvChecks, InvOrigin, InvTools, OneCheckPerCommand
<1>5. CASE stage' # "failed"
  <2>1. /\ \A n \in DOMAIN checks' :
              \/ \E i \in DOMAIN checks : checks'[n] = checks[i]
              \/ \E j \in DOMAIN config.checks : checks'[n] = config.checks[j]
        /\ \A m, n \in DOMAIN checks' :
              /\ ~checks'[m].explicit /\ ~checks'[n].explicit /\ m # n
              => \E i, j \in DOMAIN checks :
                   i # j /\ checks'[m] = checks[i] /\ checks'[n] = checks[j]
    BY <1>5, ConfigureFacts
  <2>2. InvOrigin'
    BY <1>3, <2>1 DEF InvChecks, InvOrigin, FromConfig
  <2>3. \A c \in ToolCheck : ~c.explicit
    BY DEF ToolCheck, ManifestCheck
  <2>4. InvTools'
    BY <1>3, <2>1, <2>3 DEF InvChecks, InvTools
  <2>5. OneCheckPerCommand'
    BY <2>1 DEF InvChecks, OneCheckPerCommand
  <2> QED
    BY <1>2, <2>2, <2>4, <2>5 DEF InvChecks
<1> QED
  BY <1>4, <1>5

\* Every step keeps the invariant of the checks.
LEMMA ChecksNext ==
  ASSUME TypeOK, InvChecks, [Next]_vars
  PROVE  InvChecks'
<1>1. CASE ReadConfig
  <2>1. /\ stage = "config" /\ UNCHANGED <<steps, checks, observations>>
        /\ stage' \in {"manifests", "failed"}
    BY <1>1 DEF ReadConfig, Goto, Fail, found
  <2>2. checks = <<>> /\ steps = <<>> /\ observations = <<>>
    BY <2>1 DEF InvChecks, InvStart
  <2> QED
    BY <2>1, <2>2 DEF InvChecks, InvStart, InvOrigin, InvTools, OneCheckPerCommand
<1>2. CASE ReadManifests
  <2>1. /\ checks = <<>> /\ steps = <<>> /\ stage' \in {"workflows", "failed"}
        /\ project' \in Projects /\ steps' = steps
        /\ checks' = ChecksOf(project') \/ (checks' = checks /\ stage' = "failed")
    <3>1. /\ checks = <<>> /\ steps = <<>>
      BY <1>2 DEF InvChecks, InvStart, ReadManifests
    <3>2. /\ stage' \in {"workflows", "failed"} /\ project' \in Projects /\ steps' = steps
      BY <1>2 DEF ReadManifests, Goto, Fail
    <3>3. checks' = ChecksOf(project') \/ (checks' = checks /\ stage' = "failed")
      BY <1>2 DEF ReadManifests, ChecksOf, Fail
    <3> QED
      BY <3>1, <3>2, <3>3
  <2>2. CASE checks' = checks
    BY <2>1, <2>2 DEF InvChecks, InvStart, InvOrigin, InvTools, OneCheckPerCommand
  <2>3. CASE checks' = ChecksOf(project')
    <3>1. /\ checks' \in Seq(ManifestCheck)
          /\ \A i \in DOMAIN checks' : IsYielded(checks'[i], project')
          /\ \A i, j \in DOMAIN checks' : checks'[i].argv = checks'[j].argv => i = j
          /\ \A i, j \in DOMAIN checks' :
               checks'[i] \in ToolCheck /\ checks'[j] \in ToolCheck /\ checks'[i].id = checks'[j].id
               => i = j
      BY <2>1, <2>3, ChecksOfFacts
    <3>2. InvOrigin'
      BY <3>1 DEF InvOrigin, FromManifest, IsYielded
    <3>3. InvStart'
      BY <2>1, <2>3 DEF InvStart, ChecksOf
    <3> QED
      BY <3>1, <3>2, <3>3 DEF InvChecks, InvTools, OneCheckPerCommand
  <2> QED
    BY <2>1, <2>2, <2>3
<1>3. CASE UNCHANGED <<config, project, steps, checks>> /\ stage' \notin {"config", "manifests", "workflows"}
  BY <1>3 DEF InvChecks, InvStart, InvOrigin, FromConfig, FromManifest, FromStep, IsYielded,
              safe_workflow_command, InvTools, OneCheckPerCommand
<1>4. CASE EndWorkflows \/ Validate \/ ApplyReplacements \/ Select
  BY <1>3, <1>4 DEF EndWorkflows, Validate, ApplyReplacements, ReplaceIf, Select, Goto, Fail, found
<1>5. CASE UNCHANGED vars
  BY <1>5 DEF vars, InvChecks, InvStart, InvOrigin, FromConfig, FromManifest, FromStep, IsYielded,
              safe_workflow_command, InvTools, OneCheckPerCommand, ChecksOf
<1> QED
  BY <1>1, <1>2, <1>4, <1>5, ChecksInspect, ChecksConfigure DEF Next, Returned

\* Every check has its origin, in every reachable state.
THEOREM ChecksInvariance == Spec => []InvChecks
<1>1. Init => InvChecks
  BY DEF Init, InvChecks, InvStart, InvOrigin, InvTools, OneCheckPerCommand
<1>2. TypeOK /\ InvChecks /\ [Next]_vars => InvChecks'
  BY ChecksNext
<1> QED
  BY <1>1, <1>2, TypesHold, PTL DEF Spec

\* However many steps name a command, and whether the manifests yield it too,
\* discovery makes one check of it in each directory: at any time, for any
\* repository, through the sorting, the disabled and the explicit checks.
THEOREM CommandsRunOnce == Spec => []OneCheckPerCommand
<1>1. InvChecks => OneCheckPerCommand
  BY DEF InvChecks
<1> QED
  BY <1>1, ChecksInvariance, PTL

-----------------------------------------------------------------------------
(* Ids of package scripts.                                                  *)

\* What the distinct ids come to for scripts.
LEMMA ScriptIdsDiffer ==
  ASSUME NEW s \in Scripts, NEW t \in Scripts
  PROVE  /\ JsId[s] \notin InvalidIds /\ ScriptRank[s] \in Nat
         /\ LongJsId[s] = JsId[t] => LongJsId[s] \in InvalidIds
         /\ LongJsId[s] = LongJsId[t] /\ s # t => LongJsId[s] \in InvalidIds
         /\ s # t => ScriptBefore(s, t) \/ ScriptBefore(t, s)
         /\ ScriptBefore(s, t) => s # t
  BY DistinctIdsAssumption, ScriptAssumption DEF ScriptBefore

\* A script has its longer id just when one before it has the same portable
\* name: no longer id stands in the way of a script.
LEMMA TakenFacts ==
  ASSUME NEW S \in SUBSET Scripts, NEW long \in SUBSET S, IsLong(long, S), NEW s \in S
  PROVE  s \in long <=> \E t \in S : ScriptBefore(t, s) /\ JsId[t] = JsId[s]
<1>1. ASSUME NEW r \in S, r \in long
      PROVE  \E t \in S : ScriptBefore(t, r) /\ JsId[t] = JsId[r]
  <2>1. PICK t \in S : ScriptBefore(t, r) /\ ScriptId(long, t) = JsId[r]
    BY <1>1 DEF IsLong
  <2>2. JsId[r] \notin InvalidIds /\ (LongJsId[t] = JsId[r] => LongJsId[t] \in InvalidIds)
    BY ScriptIdsDiffer
  <2>3. JsId[t] = JsId[r]
    BY <2>1, <2>2 DEF ScriptId
  <2> QED
    BY <2>1, <2>3
<1>2. ASSUME NEW u \in S, ScriptBefore(u, s), JsId[u] = JsId[s]
      PROVE  s \in long
  <2> DEFINE R == {ScriptRank[t] : t \in {v \in S : JsId[v] = JsId[s]}}
  <2>1. \A t \in S : ScriptRank[t] \in Nat
    BY ScriptIdsDiffer
  <2>2. R \in SUBSET Nat /\ ScriptRank[u] \in R
    BY <1>2, <2>1
  <2>3. PICK m \in R : \A n \in R : m <= n
    <3> HIDE DEF R
    <3> QED
      BY <2>2, LeastElement
  <2>4. PICK t \in S : JsId[t] = JsId[s] /\ m = ScriptRank[t]
    BY <2>3
  <2>5. \A v \in S : JsId[v] = JsId[s] => ScriptRank[t] <= ScriptRank[v]
    BY <2>3, <2>4
  <2>6. ~\E v \in S : ScriptBefore(v, t) /\ JsId[v] = JsId[t]
    BY <2>1, <2>4, <2>5 DEF ScriptBefore
  <2>7. t \notin long
    BY <1>1, <2>6
  <2>8. ScriptBefore(t, s)
    BY <1>2, <2>1, <2>5 DEF ScriptBefore
  <2> QED
    BY <2>4, <2>7, <2>8 DEF IsLong, ScriptId
<1> QED
  BY <1>1, <1>2

\* Scripts of the package are the checks; which of them have the longer id.
LEMMA CheckScriptsFacts ==
  ASSUME NEW scripts, DOMAIN scripts \subseteq Scripts, IsFiniteSet(DOMAIN scripts),
         NEW S, S = CheckScripts(scripts), NEW long, long = LongNamed(S)
  PROVE  /\ S \in SUBSET Scripts /\ S \subseteq DOMAIN scripts
         /\ \A s \in S : s \in long <=> \E t \in S : ScriptBefore(t, s) /\ JsId[t] = JsId[s]
<1>1. S \in SUBSET Scripts /\ S \subseteq DOMAIN scripts
  BY DEF CheckScripts
<1>2. IsFiniteSet(S)
  BY <1>1, FS_Subset
<1>3. long \in SUBSET S /\ IsLong(long, S)
  BY <1>1, <1>2, LongNamedFacts
<1> QED
  BY <1>1, <1>3, TakenFacts

\* A script that has its short id in the smaller package and the longer one in
\* the larger has a namesake before it that was added.
LEMMA IdsFollow ==
  ASSUME TypeOK, InvChecks
  PROVE  IdsChangeHandsByName
<1> SUFFICES ASSUME stage = "workflows", steps = <<>>,
                    NEW fewer \in SUBSET DOMAIN project.scripts,
                    NEW before,
                    before = discover_javascript(project.files, [s \in fewer |-> project.scripts[s]]),
                    NEW i \in DOMAIN before, NEW j \in DOMAIN checks,
                    before[i].argv = checks[j].argv, before[i].id # checks[j].id
             PROVE  \E added \in DOMAIN project.scripts \ fewer :
                      /\ JsId[added] = before[i].id
                      /\ ScriptRank[added] < ScriptRank[Last(before[i].argv)]
  BY DEF IdsChangeHandsByName
<1> DEFINE files == project.files
           scripts == project.scripts
           few == [s \in fewer |-> scripts[s]]
           All == CheckScripts(scripts)
           Few == CheckScripts(few)
<1>1. DOMAIN scripts \subseteq Scripts /\ IsFiniteSet(DOMAIN scripts)
  BY ProjectFacts DEF TypeOK
<1>2. DOMAIN few = fewer /\ fewer \subseteq Scripts /\ IsFiniteSet(fewer)
  BY <1>1, FS_Subset
<1>3. before = discover_javascript(files, few)
  OBVIOUS
<1>4. Few = All \cap fewer
  BY <1>2 DEF CheckScripts
<1>5. IsYielded(checks[j], project)
  BY ChecksOfFacts DEF InvChecks, InvStart, TypeOK
<1> HIDE DEF files, few, Few, All
<1>6. /\ All \in SUBSET Scripts /\ All \subseteq DOMAIN scripts
      /\ \A s \in All :
           s \in LongNamed(All) <=> \E t \in All : ScriptBefore(t, s) /\ JsId[t] = JsId[s]
  BY <1>1, CheckScriptsFacts DEF All
<1>7. \A s \in Few :
        s \in LongNamed(Few) <=> \E t \in Few : ScriptBefore(t, s) /\ JsId[t] = JsId[s]
  BY <1>2, CheckScriptsFacts DEF Few
<1>8. IsScriptCheck(before[i], files, few)
  BY <1>2, <1>3, ScriptChecks
<1>9. PICK s \in Few : /\ before[i].id = ScriptId(LongNamed(Few), s)
                       /\ before[i].argv = <<package_manager(files), "run", s>>
  BY <1>8 DEF IsScriptCheck, Few
<1>10. Last(before[i].argv) = s
  <2> DEFINE manager == package_manager(files)
             argv == <<manager, "run", s>>
  <2> HIDE DEF manager
  <2>1. Len(argv) = 3 /\ argv[3] = s
    OBVIOUS
  <2> QED
    BY <1>9, <2>1 DEF Last, manager
<1>11. checks[j].id = ScriptId(LongNamed(All), s)
  <2>1. checks[j].argv = <<package_manager(files), "run", s>>
    BY <1>9
  <2>2. checks[j] \notin ToolCheck
    <3>1. checks[j].argv[1] \in Managers
      BY <2>1, ManagerFacts
    <3> QED
      BY <3>1 DEF ToolCheck, Managers
  <2>3. PICK t \in All : /\ checks[j].id = ScriptId(LongNamed(All), t)
                         /\ checks[j].argv = <<package_manager(files), "run", t>>
    BY <1>5, <2>2 DEF IsYielded, IsScriptCheck, All, files
  <2>4. t = s
    <3>1. <<package_manager(files), "run", t>>[3] = <<package_manager(files), "run", s>>[3]
      BY <2>1, <2>3
    <3> QED
      BY <3>1
  <2> QED
    BY <2>3, <2>4
<1>12. s \notin LongNamed(Few) /\ s \in LongNamed(All)
  BY <1>4, <1>6, <1>7, <1>9, <1>11 DEF ScriptId
<1>13. PICK added \in All : ScriptBefore(added, s) /\ JsId[added] = JsId[s]
  BY <1>4, <1>6, <1>12
<1>14. added \notin fewer
  BY <1>4, <1>7, <1>12, <1>13
<1> QED
  BY <1>6, <1>9, <1>10, <1>12, <1>13, <1>14 DEF ScriptBefore, ScriptId

\* A script that was there keeps its id when scripts are added, unless one of
\* them sorts before it and has the same portable name.
THEOREM IdsAreHandedOn == Spec => []IdsChangeHandsByName
<1>1. TypeOK /\ InvChecks => IdsChangeHandsByName
  BY IdsFollow
<1> QED
  BY <1>1, TypesHold, ChecksInvariance, PTL

-----------------------------------------------------------------------------
(* Rejections.                                                              *)

\* What can go wrong with ids, as RejectsOnlyCollisions has it.
TwoDirectories ==
  \E m, n \in DOMAIN steps : steps[m].text = steps[n].text /\ steps[m].dir # steps[n].dir
LongIdTooLong ==
  \E s, t \in DOMAIN project.scripts :
    s # t /\ JsId[s] = JsId[t] /\ LongJsId[t] \in InvalidIds

CommandIds == {CiId[t] : t \in Texts}

\* The ids of tools, of scripts and of commands are apart.
LEMMA IdClasses ==
  /\ \A id \in ToolIds : id \notin ScriptIds /\ id \notin CommandIds /\ id \notin InvalidIds
  /\ \A id \in CommandIds : id \notin ScriptIds /\ id \notin ToolIds /\ id \notin InvalidIds
BY DistinctIdsAssumption DEF ScriptIds, CommandIds

\* Checks that have one id have one origin, and it yields the check once.
LEMMA OwnIdsAreGood ==
  ASSUME TypeOK, InvChecks, config = NoConfig, ~TwoDirectories, ~LongIdTooLong
  PROVE  UniqueIds(checks) /\ \A id \in IdsOf(checks) : valid_check_id(id)
<1> DEFINE scripts == project.scripts
           All == CheckScripts(scripts)
           long == LongNamed(All)
           Id(s) == ScriptId(long, s)
           argv(s) == <<package_manager(project.files), "run", s>>
           Script(c) == \E s \in All : c.id = Id(s) /\ c.argv = argv(s)
           Tool(c) == c \in ToolCheck
           Ours(c) == c.dir = Here /\ ~c.explicit
<1>1. DOMAIN scripts \subseteq Scripts /\ IsFiniteSet(DOMAIN scripts)
  BY ProjectFacts DEF TypeOK
<1>2. /\ All \in SUBSET Scripts /\ All \subseteq DOMAIN scripts
      /\ \A s \in All : s \in long <=> \E t \in All : ScriptBefore(t, s) /\ JsId[t] = JsId[s]
  BY <1>1, CheckScriptsFacts
<1>3. \A i \in DOMAIN checks :
        \/ Tool(checks[i])
        \/ Script(checks[i]) /\ Ours(checks[i])
        \/ FromStep(checks[i])
  <2>1. \A i \in DOMAIN checks : ~FromConfig(checks[i])
    BY DEF FromConfig, NoConfig
  <2>2. \A c \in ManifestCheck : Ours(c)
    BY DEF ManifestCheck
  <2> QED
    BY <2>1, <2>2 DEF InvChecks, InvOrigin, FromManifest, IsYielded, IsScriptCheck
<1> HIDE DEF All, long, argv
<1>4. \A s \in All : Id(s) \notin InvalidIds /\ Id(s) \in ScriptIds
  <2> TAKE s \in All
  <2>1. s \in Scripts /\ JsId[s] \notin InvalidIds
    BY <1>2, ScriptIdsDiffer
  <2>2. ASSUME s \in long PROVE LongJsId[s] \notin InvalidIds
    <3>1. PICK t \in All : ScriptBefore(t, s) /\ JsId[t] = JsId[s]
      BY <1>2, <2>2
    <3>2. t # s
      BY <1>2, <3>1, ScriptIdsDiffer
    <3> QED
      BY <1>2, <3>1, <3>2 DEF LongIdTooLong
  <2> QED
    BY <2>1, <2>2 DEF ScriptId, ScriptIds
<1>5. \A s, t \in All : Id(s) = Id(t) => s = t
  <2> SUFFICES ASSUME NEW s \in All, NEW t \in All, Id(s) = Id(t), s # t, ScriptBefore(s, t)
               PROVE  FALSE
    BY <1>2, ScriptIdsDiffer
  <2>1. s \in Scripts /\ t \in Scripts
    BY <1>2
  <2>2. CASE s \in long
    BY <1>4, <2>1, <2>2, ScriptIdsDiffer DEF ScriptId
  <2>3. CASE s \notin long /\ t \in long
    BY <1>4, <2>1, <2>3, ScriptIdsDiffer DEF ScriptId
  <2>4. CASE s \notin long /\ t \notin long
    BY <1>2, <2>4 DEF ScriptId
  <2> QED
    BY <2>2, <2>3, <2>4
<1> HIDE DEF Id
<1>6. \A c : FromStep(c) =>
        \E n \in DOMAIN steps :
          /\ steps[n] \in Steps /\ steps[n].text \in Texts
          /\ c.id = CiId[steps[n].text] /\ c.argv = Split[steps[n].text]
          /\ c.dir = steps[n].dir /\ ~c.explicit
  <2>1. \A n \in DOMAIN steps : steps[n] \in Steps
    BY DEF TypeOK
  <2> QED
    BY <2>1, CheckOfIsCheck DEF FromStep, CheckOf
<1>7. \A i \in DOMAIN checks :
        /\ Tool(checks[i]) => checks[i].id \in ToolIds
        /\ Script(checks[i]) => checks[i].id \in ScriptIds /\ checks[i].id \notin InvalidIds
        /\ FromStep(checks[i]) => checks[i].id \in CommandIds
  BY <1>4, <1>6 DEF ToolCheck, CommandIds
<1> HIDE DEF Tool, Script
<1>8. UniqueIds(checks)
  <2> SUFFICES ASSUME NEW i \in DOMAIN checks, NEW j \in DOMAIN checks,
                      checks[i].id = checks[j].id
               PROVE  i = j
    BY DEF UniqueIds
  <2>1. CASE Tool(checks[i])
    <3>1. Tool(checks[j])
      BY <1>3, <1>7, <2>1, IdClasses
    <3> QED
      BY <1>7, <2>1, <3>1, IdClasses DEF InvChecks, InvTools, Tool
  <2>2. CASE Script(checks[i]) /\ Ours(checks[i])
    <3>1. Script(checks[j]) /\ Ours(checks[j])
      BY <1>3, <1>7, <2>2, IdClasses
    <3>2. checks[i].argv = checks[j].argv
      BY <1>5, <2>2, <3>1 DEF Script
    <3> QED
      BY <2>2, <3>1, <3>2 DEF InvChecks, OneCheckPerCommand
  <2>3. CASE FromStep(checks[i])
    <3>1. FromStep(checks[j])
      BY <1>3, <1>7, <2>3, IdClasses
    <3>2. PICK m \in DOMAIN steps :
            /\ steps[m].text \in Texts /\ checks[i].id = CiId[steps[m].text]
            /\ checks[i].argv = Split[steps[m].text]
            /\ checks[i].dir = steps[m].dir /\ ~checks[i].explicit
      BY <1>6, <2>3
    <3>3. PICK n \in DOMAIN steps :
            /\ steps[n].text \in Texts /\ checks[j].id = CiId[steps[n].text]
            /\ checks[j].argv = Split[steps[n].text]
            /\ checks[j].dir = steps[n].dir /\ ~checks[j].explicit
      BY <1>6, <3>1
    <3>4. steps[m].text = steps[n].text
      BY <3>2, <3>3, DistinctIdsAssumption
    <3>5. steps[m].dir = steps[n].dir
      BY <3>4 DEF TwoDirectories
    <3> QED
      BY <3>2, <3>3, <3>4, <3>5 DEF InvChecks, OneCheckPerCommand
  <2> QED
    BY <1>3, <2>1, <2>2, <2>3
<1>9. \A i \in DOMAIN checks : checks[i].id \notin InvalidIds
  BY <1>3, <1>7, IdClasses
<1> QED
  BY <1>8, <1>9 DEF IdsOf, valid_check_id

\* Without a configuration no check claims a step, and no entry is malformed.
LEMMA NothingClaimed ==
  ASSUME TypeOK, InvChecks, config = NoConfig
  PROVE  config.checks = <<>> /\ Claims = {}
<1>1. config.checks = <<>> /\ \A c : ~FromConfig(c)
  BY DEF FromConfig, NoConfig
<1>2. ASSUME NEW c, FromManifest(c) \/ FromStep(c) PROVE c.replaces = <<>>
  <2>1. CASE FromManifest(c)
    BY <2>1 DEF FromManifest, ManifestCheck
  <2>2. CASE FromStep(c)
    BY <2>2 DEF FromStep, CheckOf
  <2> QED
    BY <1>2, <2>1, <2>2
<1>3. \A i \in DOMAIN checks : checks[i].replaces = <<>>
  BY <1>1, <1>2 DEF InvChecks, InvOrigin
<1> QED
  BY <1>1, <1>3 DEF Claims

\* The validation alone rejects, and it finds a collision.
LEMMA RejectsNext ==
  ASSUME TypeOK, InvChecks, RejectsOnlyCollisions, [Next]_vars
  PROVE  RejectsOnlyCollisions'
<1>1. CASE UNCHANGED vars
  BY <1>1 DEF vars, RejectsOnlyCollisions, validate_working_directory
<1>2. ASSUME Next, ~UNCHANGED vars, stage' = "failed", error' = "configuration",
             config' = NoConfig, checks' # <<>>,
             \A n \in DOMAIN steps' : validate_working_directory(steps'[n].dir)
      PROVE  TwoDirectories' \/ LongIdTooLong'
  <2>1. CASE ReadConfig
    BY <1>2, <2>1 DEF ReadConfig, InvChecks, InvStart, found
  <2>2. CASE ReadManifests \/ EndWorkflows \/ Select
    BY <1>2, <2>2, Zenon DEF ReadManifests, EndWorkflows, Select, Goto, Fail
  <2>3. CASE InspectStep
    <3>1. PICK step \in Steps :
            /\ steps' = Append(steps, step) /\ ~validate_working_directory(step.dir)
      BY <1>2, <2>3 DEF InspectStep, Goto
    <3>2. /\ Len(steps) + 1 \in DOMAIN Append(steps, step)
          /\ Append(steps, step)[Len(steps) + 1] = step
      BY DEF TypeOK
    <3> QED
      BY <1>2, <3>1, <3>2
  <2>4. CASE Configure
    <3>1. config.checks # <<>> /\ config = NoConfig
      BY <1>2, <2>4 DEF Configure, Goto
    <3> QED
      BY <3>1 DEF NoConfig
  <2>5. CASE Validate
    <3>1. config = NoConfig /\ UNCHANGED <<steps, project>>
      BY <1>2, <2>5 DEF Validate
    <3>2. ~(UniqueIds(checks) /\ \A id \in IdsOf(checks) : valid_check_id(id))
      BY <1>2, <2>5, <3>1, NothingClaimed DEF Validate, Goto
    <3>3. TwoDirectories \/ LongIdTooLong
      BY <3>1, <3>2, OwnIdsAreGood
    <3> QED
      BY <3>1, <3>3 DEF TwoDirectories, LongIdTooLong
  <2>6. CASE ApplyReplacements
    <3>1. config = NoConfig /\ ~(ClaimedOnce /\ AllReplaceable)
      BY <1>2, <2>6 DEF ApplyReplacements, ReplaceIf, Goto
    <3> QED
      BY <3>1, NothingClaimed DEF ClaimedOnce, AllReplaceable, ClaimedIds
  <2> QED
    BY <1>2, <2>1, <2>2, <2>3, <2>4, <2>5, <2>6 DEF Next, Returned
<1> QED
  BY <1>1, <1>2 DEF RejectsOnlyCollisions, TwoDirectories, LongIdTooLong

\* Without a configuration and with usable directories, only a text that is run
\* in two directories and scripts that begin alike for longer than an id can
\* make discovery reject what it found: duplicates, other spellings and scripts
\* with names alike but for punctuation never collide, in any repository.
THEOREM OnlyCollisionsReject == Spec => []RejectsOnlyCollisions
<1>1. Init => RejectsOnlyCollisions
  BY DEF Init, RejectsOnlyCollisions
<1>2. TypeOK /\ InvChecks /\ RejectsOnlyCollisions /\ [Next]_vars => RejectsOnlyCollisions'
  BY RejectsNext
<1> QED
  BY <1>1, <1>2, TypesHold, ChecksInvariance, PTL DEF Spec
=============================================================================
