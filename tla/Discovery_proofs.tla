---------------------------- MODULE Discovery_proofs ----------------------------
(***************************************************************************)
(* Proofs about Discovery: what becomes of workflow steps, of the          *)
(* replacements and of the plan, for any repository, configuration,        *)
(* request and spelling of names.                                          *)
(***************************************************************************)
EXTENDS DiscoveryChecks_proofs

-----------------------------------------------------------------------------
(* Gaps of steps.                                                           *)

\* Observations whose checks have ids in S.
Seen(S) == [id : Names, run : Texts, class : Classes, check_id : S]
IsObserved == \E S : observations \in Seq(Seen(S))

\* Before the replacements every step that was not modelled has its gap.
Unreplaced == {"config", "manifests", "workflows", "configure", "validate", "replace"}
InvOpen ==
  stage \in Unreplaced =>
    \A k \in DOMAIN observations :
      /\ observations[k].class # "ReplacedByExplicitCheck"
      /\ observations[k].class = "UnmodeledVerification" => StepGap(observations[k].id) \in gaps

\* Afterwards it has, or its id ends with that of a step that was replaced.
Told(k) ==
  LET o == observations[k] IN
  /\ o.class = "UnmodeledVerification" =>
       \/ StepGap(o.id) \in gaps
       \/ \E j \in DOMAIN observations \ {k} :
            /\ observations[j].class = "ReplacedByExplicitCheck"
            /\ <<o.id, observations[j].id>> \in EndsWith
  /\ o.class = "ReplacedByExplicitCheck" => StepGap(o.id) \notin gaps
InvTold == stage \in {"select", "done"} => \A k \in DOMAIN observations : Told(k)

IInv == IsObserved /\ InvOpen /\ InvTold

-----------------------------------------------------------------------------
\* A further observation leaves the earlier ones as they are.
LEMMA ObserveStep ==
  ASSUME IsObserved, NEW step \in Steps, NEW class \in Classes, NEW check_id,
         Observe(step, class, check_id)
  PROVE  /\ IsObserved'
         /\ \A k \in DOMAIN observations' :
              \/ k \in DOMAIN observations /\ observations'[k] = observations[k]
              \/ observations'[k].class = class /\ observations'[k].id = step.name
<1>1. PICK S : observations \in Seq(Seen(S))
  BY DEF IsObserved
<1> DEFINE T == S \cup {check_id}
           o == [id |-> step.name, run |-> step.text, class |-> class, check_id |-> check_id]
<1>2. observations \in Seq(Seen(T))
  <2>1. Seen(S) \subseteq Seen(T)
    BY DEF Seen
  <2>2. /\ Len(observations) \in Nat /\ DOMAIN observations = 1..Len(observations)
        /\ observations \in [1..Len(observations) -> Seen(S)]
    BY <1>1
  <2>3. observations \in [1..Len(observations) -> Seen(T)]
    BY <2>1, <2>2
  <2> HIDE DEF T
  <2> QED
    BY <2>2, <2>3
<1>3. o \in Seen(T) /\ o.class = class /\ o.id = step.name
  <2>1. step.name \in Names /\ step.text \in Texts
    BY InputAssumption DEF Step
  <2> QED
    BY <2>1 DEF Seen
<1>4. observations' = Append(observations, o)
  BY DEF Observe
<1> HIDE DEF o, T
<1>5. observations' \in Seq(Seen(T))
  BY <1>2, <1>3, <1>4
<1>6. \A k \in DOMAIN observations' :
        \/ k \in DOMAIN observations /\ observations'[k] = observations[k]
        \/ observations'[k] = o
  BY <1>2, <1>3, <1>4
<1> QED
  BY <1>3, <1>5, <1>6 DEF IsObserved, Seen

\* A step that is not modelled leaves its gap.
LEMMA InspectKeeps ==
  ASSUME IInv, InspectStep
  PROVE  IInv'
<1>1. PICK step \in Steps :
        \/ UNCHANGED found
        \/ Goto(stage) /\ (MatchCheck(step) \/ NewCheck(step) \/ LeaveGap(step))
  BY DEF InspectStep
<1>2. stage = "workflows" /\ stage' \in {"workflows", "failed"}
  BY DEF InspectStep, Goto, Fail
<1>3. InvTold'
  BY <1>2 DEF InvTold
<1>4. CASE UNCHANGED found
  BY <1>2, <1>3, <1>4 DEF IInv, IsObserved, InvOpen, found, Unreplaced
<1>5. ASSUME NEW class \in Classes, NEW check_id, Observe(step, class, check_id),
             class # "ReplacedByExplicitCheck", gaps \subseteq gaps',
             class = "UnmodeledVerification" => StepGap(step.name) \in gaps'
      PROVE  IInv'
  <2>1. /\ IsObserved'
        /\ \A k \in DOMAIN observations' :
             \/ k \in DOMAIN observations /\ observations'[k] = observations[k]
             \/ observations'[k].class = class /\ observations'[k].id = step.name
    BY <1>5, ObserveStep DEF IInv
  <2>2. InvOpen'
    BY <1>2, <1>5, <2>1 DEF IInv, InvOpen, Unreplaced, StepGap
  <2> QED
    BY <1>3, <2>1, <2>2 DEF IInv
<1>6. CASE MatchCheck(step)
  <2>1. PICK i \in Existing(step) : Observe(step, "MatchedCheck", checks[i].id)
    BY <1>6 DEF MatchCheck
  <2> QED
    BY <1>5, <1>6, <2>1 DEF MatchCheck, Classes
<1>7. CASE NewCheck(step)
  BY <1>5, <1>7 DEF NewCheck, Classes
<1>8. CASE LeaveGap(step)
  BY <1>5, <1>8 DEF LeaveGap, Classes
<1> QED
  BY <1>1, <1>4, <1>6, <1>7, <1>8

\* The replacements: a gap is dropped only for a claimed id, and every claimed
\* id is that of a step which is replaced now.
LEMMA ReplaceKeeps ==
  ASSUME IInv, ApplyReplacements
  PROVE  IInv'
<1>1. stage = "replace"
  BY DEF ApplyReplacements, ReplaceIf
<1>2. CASE Fail("configuration") /\ UNCHANGED <<observations, gaps>>
  BY <1>2 DEF Fail, IInv, IsObserved, InvOpen, InvTold, Unreplaced
<1>3. CASE ~(Fail("configuration") /\ UNCHANGED <<observations, gaps>>)
  <2> DEFINE Hit(k) == observations[k].id \in ClaimedIds /\ IsFirst(k)
             By(k) == checks[(CHOOSE c \in Claims : Claimed(c) = observations[k].id)[1]].id
             After(k) == [observations[k] EXCEPT !.class = "ReplacedByExplicitCheck",
                                                 !.check_id = By(k)]
  <2>1. /\ stage' = "select" /\ AllReplaceable /\ gaps' = UnclaimedGaps
        /\ observations' = [k \in DOMAIN observations |->
                              IF Hit(k) THEN After(k) ELSE observations[k]]
    BY <1>3 DEF ApplyReplacements, ReplaceIf, Goto
  <2>2. PICK S : observations \in Seq(Seen(S))
    BY DEF IInv, IsObserved
  <2> DEFINE T == S \cup {By(k) : k \in DOMAIN observations}
  <2>3. \A k \in DOMAIN observations :
          /\ observations[k] \in Seen(S) /\ observations[k] \in Seen(T)
          /\ After(k) \in Seen(T) /\ After(k).id = observations[k].id
          /\ After(k).class = "ReplacedByExplicitCheck"
          /\ observations[k].id \in Names
    <3> SUFFICES ASSUME NEW k \in DOMAIN observations
                 PROVE  /\ observations[k] \in Seen(S) /\ observations[k] \in Seen(T)
                        /\ After(k) \in Seen(T) /\ After(k).id = observations[k].id
                        /\ After(k).class = "ReplacedByExplicitCheck"
                        /\ observations[k].id \in Names
      OBVIOUS
    <3>1. observations[k] \in Seen(S)
      BY <2>2
    <3>2. By(k) \in T /\ S \subseteq T
      OBVIOUS
    <3> HIDE DEF By, T
    <3> QED
      BY <3>1, <3>2 DEF Seen, Classes
  <2>4. \A k \in DOMAIN observations :
          /\ observations[k].class # "ReplacedByExplicitCheck"
          /\ observations[k].class = "UnmodeledVerification" => StepGap(observations[k].id) \in gaps
    BY <1>1 DEF IInv, InvOpen, Unreplaced
  <2> HIDE DEF Hit, After, T
  <2>5. IsObserved'
    <3>1. Len(observations) \in Nat /\ DOMAIN observations = 1..Len(observations)
      BY <2>2
    <3>2. observations' \in [1..Len(observations) -> Seen(T)]
      BY <2>1, <2>3, <3>1
    <3>3. observations' \in Seq(Seen(T))
      BY <3>1, <3>2
    <3> QED
      BY <3>3 DEF IsObserved
  <2>6. /\ DOMAIN observations' = DOMAIN observations
        /\ \A k \in DOMAIN observations :
             /\ Hit(k) => /\ observations'[k].class = "ReplacedByExplicitCheck"
                          /\ observations'[k].id = observations[k].id
             /\ ~Hit(k) => observations'[k] = observations[k]
    BY <2>1, <2>3
  <2>7. ASSUME NEW k \in DOMAIN observations PROVE Told(k)'
    <3>1. CASE Hit(k)
      <4>1. observations[k].id \in ClaimedIds /\ <<observations[k].id, observations[k].id>> \in EndsWith
        BY <2>3, <3>1, NameAssumption DEF Hit
      <4>2. StepGap(observations[k].id) \notin gaps'
        BY <2>1, <4>1 DEF UnclaimedGaps, StepGap
      <4> QED
        BY <2>6, <3>1, <4>2 DEF Told, StepGap
    <3>2. CASE ~Hit(k)
      <4>1. observations'[k] = observations[k] /\ observations[k].class # "ReplacedByExplicitCheck"
        BY <2>4, <2>6, <3>2
      <4>2. CASE StepGap(observations[k].id) \in gaps'
        BY <4>1, <4>2 DEF Told, StepGap
      <4>3. ASSUME observations[k].class = "UnmodeledVerification",
                   StepGap(observations[k].id) \notin gaps'
            PROVE  \E j \in DOMAIN observations \ {k} :
                     /\ observations'[j].class = "ReplacedByExplicitCheck"
                     /\ <<observations[k].id, observations'[j].id>> \in EndsWith
        <5>1. PICK id \in ClaimedIds : <<observations[k].id, id>> \in EndsWith
          BY <2>1, <2>4, <4>3 DEF UnclaimedGaps, StepGap
        <5>2. PICK j \in DOMAIN observations : observations[j].id = id /\ IsFirst(j)
          BY <2>1, <5>1 DEF AllReplaceable, Replaceable
        <5>3. Hit(j)
          BY <5>1, <5>2 DEF Hit
        <5> QED
          BY <2>6, <3>2, <5>1, <5>2, <5>3
      <4> QED
        BY <2>6, <4>1, <4>2, <4>3 DEF Told, StepGap
    <3> QED
      BY <3>1, <3>2
  <2>8. InvOpen' /\ InvTold'
    BY <2>1, <2>6, <2>7 DEF InvOpen, InvTold, Unreplaced
  <2> QED
    BY <2>5, <2>8 DEF IInv
<1> QED
  BY <1>2, <1>3

\* The gaps of paths and of an empty selection are not those of steps.
LEMMA SelectKeeps ==
  ASSUME IInv, Select
  PROVE  IInv'
<1>1. stage = "select" /\ observations' = observations
  BY DEF Select
<1>2. CASE stage' = "failed"
  BY <1>1, <1>2 DEF IInv, IsObserved, InvOpen, InvTold, Unreplaced
<1>3. CASE stage' # "failed"
  <2>1. stage' = "done" /\ gaps' = gaps \cup coverage_gaps(selection')
    BY <1>3 DEF Select, Goto, Fail
  <2>2. \A n : StepGap(n) \notin coverage_gaps(selection')
    <3>1. ASSUME NEW n, NEW p PROVE StepGap(n) # PathGap(p) /\ StepGap(n) # NothingGap
      <4>1. StepGap(n).kind = "step" /\ PathGap(p).kind = "path" /\ NothingGap.kind = "nothing"
        BY DEF StepGap, PathGap, NothingGap
      <4> QED
        BY <4>1
    <3> QED
      BY <3>1 DEF coverage_gaps
  <2>3. \A n : StepGap(n) \in gaps' <=> StepGap(n) \in gaps
    BY <2>1, <2>2
  <2>4. ASSUME NEW k \in DOMAIN observations PROVE Told(k)'
    <3>1. Told(k)
      BY <1>1 DEF IInv, InvTold
    <3> QED
      BY <1>1, <2>3, <3>1 DEF Told, StepGap
  <2> QED
    BY <1>1, <2>1, <2>4 DEF IInv, IsObserved, InvOpen, InvTold, Unreplaced
<1> QED
  BY <1>2, <1>3

\* Every step keeps the invariant of the gaps.
LEMMA NextKeeps ==
  ASSUME IInv, [Next]_vars
  PROVE  IInv'
<1>1. CASE UNCHANGED <<observations, gaps>> /\ stage' \in Unreplaced \cup {"failed"} /\ stage \in Unreplaced
  BY <1>1 DEF IInv, IsObserved, InvOpen, InvTold, Unreplaced
<1>2. CASE ReadConfig \/ ReadManifests
  BY <1>1, <1>2 DEF ReadConfig, ReadManifests, Goto, Fail, found, Unreplaced
<1>3. CASE EndWorkflows \/ Configure \/ Validate
  BY <1>1, <1>3 DEF EndWorkflows, Configure, Validate, Goto, Fail, found, Unreplaced
<1>4. CASE UNCHANGED vars
  BY <1>4 DEF vars, IInv, IsObserved, InvOpen, InvTold, Told, StepGap
<1> QED
  BY <1>2, <1>3, <1>4, InspectKeeps, ReplaceKeeps, SelectKeeps DEF Next, Returned

\* Every step that was not modelled has its gap or was replaced, in every state.
THEOREM Invariance == Spec => []IInv
<1>1. Init => IInv
  BY DEF Init, IInv, IsObserved, InvOpen, InvTold
<1>2. IInv /\ [Next]_vars => IInv'
  BY NextKeeps
<1> QED
  BY <1>1, <1>2, PTL DEF Spec

\* A step that looks like verification and was not modelled is reported as a
\* gap unless a check replaces a step whose id its id is or ends with, and a
\* replaced step is not reported: for any repository and configuration,
\* however many steps there are and whatever ids they share.
THEOREM GapsAreTold == Spec => []GapsMatchObservations
<1>1. IInv => GapsMatchObservations
  BY DEF IInv, InvTold, Told, GapsMatchObservations, Done
<1> QED
  BY <1>1, Invariance, PTL

-----------------------------------------------------------------------------
(* Checks of steps.                                                         *)

\* The step is one command and observation k tells which check runs it.
Runs(step, k) ==
  LET o == observations[k] IN
  /\ o.id = step.name /\ o.run = step.text
  /\ o.class \in {"MatchedCheck", "DiscoveredCheck"}
  /\ \/ o.check_id \in config.disable_checks
     \/ \E i \in DOMAIN checks :
          /\ checks[i].id = o.check_id
          /\ checks[i].argv = Split[step.text] /\ checks[i].dir = step.dir

\* The property, by the check that runs a step.
LEMMA StepsBecome ==
  StepsBecomeChecks <=>
    (stage # "failed" =>
       \A n \in DOMAIN steps :
         safe_workflow_command(steps[n]) # NoArgv =>
           \E k \in DOMAIN observations : Runs(steps[n], k))
BY DEF StepsBecomeChecks, Runs

\* The step just read has its check, and the others keep theirs.
LEMMA StepsInspect ==
  ASSUME TypeOK, StepsBecomeChecks, InspectStep, stage' # "failed",
         NEW n \in DOMAIN steps', NEW t, t = steps'[n], safe_workflow_command(t) # NoArgv
  PROVE  \E k \in DOMAIN observations' : Runs(t, k)'
<1>1. PICK step \in Steps :
        /\ stage = "workflows" /\ steps' = Append(steps, step) /\ UNCHANGED config
        /\ \/ /\ safe_workflow_command(step) # NoArgv
              /\ MatchCheck(step) \/ NewCheck(step)
           \/ /\ safe_workflow_command(step) = NoArgv
              /\ LeaveGap(step) \/ UNCHANGED found
  BY DEF InspectStep, Fail
<1>2. /\ steps \in Seq(Steps) /\ checks \in Seq(Check) /\ observations \in Seq(Observation)
  BY DEF TypeOK
<1>3. \/ n \in DOMAIN steps /\ t = steps[n]
      \/ t = step
  BY <1>1, <1>2
<1>4. ASSUME NEW class, NEW id, Observe(step, class, id)
      PROVE  /\ \A k \in DOMAIN observations :
                  k \in DOMAIN observations' /\ observations'[k] = observations[k]
             /\ \E k \in DOMAIN observations' :
                  observations'[k] = [id |-> step.name, run |-> step.text, class |-> class,
                                      check_id |-> id]
  <2> DEFINE o == [id |-> step.name, run |-> step.text, class |-> class, check_id |-> id]
  <2>1. observations' = Append(observations, o)
    BY <1>4 DEF Observe
  <2> HIDE DEF o
  <2>2. /\ Len(observations) + 1 \in DOMAIN observations'
        /\ observations'[Len(observations) + 1] = o
        /\ \A k \in DOMAIN observations :
             k \in DOMAIN observations' /\ observations'[k] = observations[k]
    BY <1>2, <2>1
  <2> QED
    BY <2>2 DEF o
<1>5. /\ \A i \in DOMAIN checks : i \in DOMAIN checks' /\ checks'[i] = checks[i]
      /\ \A k \in DOMAIN observations :
           k \in DOMAIN observations' /\ observations'[k] = observations[k]
  <2>1. CASE UNCHANGED found
    BY <2>1 DEF found
  <2>2. CASE MatchCheck(step) \/ LeaveGap(step)
    BY <1>4, <2>2 DEF MatchCheck, LeaveGap
  <2>3. CASE NewCheck(step)
    <3>1. checks' = Append(checks, CheckOf(step)) /\ Observe(step, "DiscoveredCheck", CiId[step.text])
      BY <2>3 DEF NewCheck, CheckOf
    <3>2. \A i \in DOMAIN checks : i \in DOMAIN checks' /\ checks'[i] = checks[i]
      BY <1>2, <3>1
    <3> QED
      BY <1>4, <3>1, <3>2
  <2> QED
    BY <1>1, <2>1, <2>2, <2>3
<1>6. CASE n \in DOMAIN steps /\ t = steps[n]
  <2>1. PICK k \in DOMAIN observations : Runs(t, k)
    BY <1>1, <1>6, StepsBecome
  <2>2. Runs(t, k)'
    BY <1>1, <1>5, <2>1 DEF Runs
  <2> QED
    BY <1>5, <2>2
<1>7. CASE t = step
  <2>1. CASE MatchCheck(step)
    <3>1. PICK i \in Existing(step) : Observe(step, "MatchedCheck", checks[i].id)
      BY <2>1 DEF MatchCheck
    <3>2. /\ i \in DOMAIN checks' /\ checks'[i] = checks[i]
          /\ checks[i].argv = Split[step.text] /\ checks[i].dir = step.dir
      BY <1>5, <3>1 DEF Existing
    <3>3. PICK k \in DOMAIN observations' :
            observations'[k] = [id |-> step.name, run |-> step.text, class |-> "MatchedCheck",
                                check_id |-> checks[i].id]
      BY <1>4, <3>1
    <3>4. Runs(t, k)'
      BY <1>7, <3>2, <3>3 DEF Runs
    <3> QED
      BY <3>4
  <2>2. CASE NewCheck(step)
    <3>1. checks' = Append(checks, CheckOf(step)) /\ Observe(step, "DiscoveredCheck", CiId[step.text])
      BY <2>2 DEF NewCheck, CheckOf
    <3>2. PICK i \in DOMAIN checks' : checks'[i] = CheckOf(step)
      BY <1>2, <3>1
    <3>3. PICK k \in DOMAIN observations' :
            observations'[k] = [id |-> step.name, run |-> step.text, class |-> "DiscoveredCheck",
                                check_id |-> CiId[step.text]]
      BY <1>4, <3>1
    <3>4. Runs(t, k)'
      BY <1>7, <3>2, <3>3 DEF Runs, CheckOf
    <3> QED
      BY <3>4
  <2> QED
    BY <1>1, <1>7, <2>1, <2>2
<1> QED
  BY <1>3, <1>6, <1>7

\* What the replacements do: an observation is hit if it is the first with an id
\* that a check claims.
Hit(k) == observations[k].id \in ClaimedIds /\ IsFirst(k)

\* What the replacements do to each observation: those that are hit were not modelled.
LEMMA ReplaceFacts ==
  ASSUME TypeOK, ApplyReplacements, stage' # "failed"
  PROVE  /\ stage = "replace" /\ stage' = "select" /\ ClaimedOnce
         /\ UNCHANGED <<config, project, steps, checks, request, selection>>
         /\ gaps' \subseteq gaps /\ DOMAIN observations' = DOMAIN observations
         /\ \A k \in DOMAIN observations : ~Hit(k) => observations'[k] = observations[k]
         /\ \A k \in DOMAIN observations : Hit(k) =>
              /\ observations[k].class = "UnmodeledVerification"
              /\ observations'[k].id = observations[k].id
              /\ observations'[k].class = "ReplacedByExplicitCheck"
              /\ \E c \in Claims : /\ Claimed(c) = observations[k].id
                                 /\ observations'[k].check_id = checks[c[1]].id
         /\ \A id \in ClaimedIds :
              \E k \in DOMAIN observations : Hit(k) /\ observations[k].id = id
         /\ \A k, l \in DOMAIN observations :
              Hit(k) /\ Hit(l) /\ observations[k].id = observations[l].id => k = l
<1> DEFINE ClaimOf(k) == CHOOSE c \in Claims : Claimed(c) = observations[k].id
           After(k) == [observations[k] EXCEPT !.class = "ReplacedByExplicitCheck",
                                               !.check_id = checks[ClaimOf(k)[1]].id]
<1>1. /\ stage = "replace" /\ stage' = "select" /\ ClaimedOnce /\ AllReplaceable
      /\ UNCHANGED <<config, project, steps, checks, request, selection>>
      /\ gaps' = UnclaimedGaps
      /\ observations' = [k \in DOMAIN observations |->
                            IF Hit(k) THEN After(k) ELSE observations[k]]
  BY DEF ApplyReplacements, ReplaceIf, Goto, Fail, Hit
<1>2. gaps' \subseteq gaps
  BY <1>1 DEF UnclaimedGaps
<1>3. \A k \in DOMAIN observations : observations[k] \in Observation
  BY DEF TypeOK
<1>4. DOMAIN observations = 1..Len(observations) /\ Len(observations) \in Nat
  BY DEF TypeOK
<1>5. \A k \in DOMAIN observations :
        /\ After(k).id = observations[k].id /\ After(k).class = "ReplacedByExplicitCheck"
        /\ After(k).check_id = checks[ClaimOf(k)[1]].id
  <2> HIDE DEF ClaimOf
  <2> QED
    BY <1>3 DEF Observation
<1>6. \A k \in DOMAIN observations :
        Hit(k) => ClaimOf(k) \in Claims /\ Claimed(ClaimOf(k)) = observations[k].id
  BY DEF Hit, ClaimedIds
<1>7. \A k, l \in DOMAIN observations :
        IsFirst(k) /\ IsFirst(l) /\ observations[k].id = observations[l].id => k = l
  <2> SUFFICES ASSUME NEW k \in DOMAIN observations, NEW l \in DOMAIN observations,
                      IsFirst(k), IsFirst(l), observations[k].id = observations[l].id, k < l
               PROVE  FALSE
    BY <1>4
  <2> QED
    BY <1>4 DEF IsFirst
<1>8. \A id \in ClaimedIds :
        \E k \in DOMAIN observations :
          /\ Hit(k) /\ observations[k].id = id
          /\ observations[k].class = "UnmodeledVerification"
  BY <1>1 DEF AllReplaceable, Replaceable, Hit
<1> HIDE DEF After, ClaimOf
<1>9. /\ DOMAIN observations' = DOMAIN observations
      /\ \A k \in DOMAIN observations :
           observations'[k] = IF Hit(k) THEN After(k) ELSE observations[k]
  BY <1>1
<1>10. \A k, l \in DOMAIN observations :
        Hit(k) /\ Hit(l) /\ observations[k].id = observations[l].id => k = l
  BY <1>7 DEF Hit
<1>11. ASSUME NEW k \in DOMAIN observations, Hit(k)
       PROVE  /\ observations[k].class = "UnmodeledVerification"
              /\ observations'[k].id = observations[k].id
              /\ observations'[k].class = "ReplacedByExplicitCheck"
              /\ \E c \in Claims : /\ Claimed(c) = observations[k].id
                                 /\ observations'[k].check_id = checks[c[1]].id
  <2>1. observations[k].class = "UnmodeledVerification"
    BY <1>8, <1>10, <1>11 DEF Hit
  <2> QED
    BY <1>5, <1>6, <1>9, <1>11, <2>1
<1> QED
  BY <1>1, <1>2, <1>8, <1>9, <1>10, <1>11

\* Sorting and replacing leave the steps their checks.
LEMMA StepsNext ==
  ASSUME TypeOK, InvChecks, StepsBecomeChecks, [Next]_vars
  PROVE  StepsBecomeChecks'
<1>1. CASE UNCHANGED vars
  BY <1>1 DEF vars, StepsBecomeChecks, safe_workflow_command
<1>2. ASSUME Next, stage' # "failed", ~UNCHANGED vars, NEW n \in DOMAIN steps',
             NEW t, t = steps'[n], safe_workflow_command(t) # NoArgv
      PROVE  \E k \in DOMAIN observations' : Runs(t, k)'
  <2>1. CASE ReadConfig \/ ReadManifests
    <3>1. steps = <<>> /\ steps' = steps
      BY <2>1 DEF InvChecks, InvStart, ReadConfig, ReadManifests
    <3> QED
      BY <1>2, <3>1
  <2>2. CASE InspectStep
    BY <1>2, <2>2, StepsInspect
  <2>3. ASSUME UNCHANGED <<steps, config>>, stage # "failed",
               \A i \in DOMAIN checks :
                 checks[i].id \in config.disable_checks \/ \E j \in DOMAIN checks' : checks'[j] = checks[i],
               \A k \in DOMAIN observations :
                 /\ k \in DOMAIN observations'
                 /\ \/ observations'[k] = observations[k]
                    \/ observations[k].class \notin {"MatchedCheck", "DiscoveredCheck"}
        PROVE  \E k \in DOMAIN observations' : Runs(t, k)'
    <3>1. PICK k \in DOMAIN observations : Runs(t, k)
      BY <1>2, <2>3, StepsBecome
    <3>2. observations'[k] = observations[k] /\ k \in DOMAIN observations'
      BY <2>3, <3>1 DEF Runs
    <3>3. Runs(t, k)'
      BY <2>3, <3>1, <3>2 DEF Runs
    <3> QED
      BY <3>2, <3>3
  <2>4. CASE EndWorkflows \/ Validate \/ Select
    <3>1. UNCHANGED <<steps, config, checks, observations>> /\ stage # "failed"
      BY <2>4 DEF EndWorkflows, Validate, Select, found
    <3> QED
      BY <2>3, <3>1
  <2>5. CASE Configure
    <3>1. \A i \in DOMAIN checks :
            checks[i].id \notin config.disable_checks => \E j \in DOMAIN checks' : checks'[j] = checks[i]
      BY <1>2, <2>5, ConfigureFacts
    <3>2. UNCHANGED <<steps, config, observations>> /\ stage # "failed"
      BY <2>5 DEF Configure
    <3> QED
      BY <2>3, <3>1, <3>2
  <2>6. CASE ApplyReplacements
    <3>1. /\ stage = "replace" /\ UNCHANGED <<config, steps, checks>>
          /\ DOMAIN observations' = DOMAIN observations
          /\ \A k \in DOMAIN observations : ~Hit(k) => observations'[k] = observations[k]
          /\ \A k \in DOMAIN observations : Hit(k) => observations[k].class = "UnmodeledVerification"
      BY <1>2, <2>6, ReplaceFacts
    <3> QED
      BY <2>3, <3>1
  <2> QED
    BY <1>2, <2>1, <2>2, <2>4, <2>5, <2>6 DEF Next, Returned
<1>3. ASSUME ~UNCHANGED vars PROVE StepsBecomeChecks'
  <2> SUFFICES ASSUME stage' # "failed", NEW n \in DOMAIN steps',
                      safe_workflow_command(steps'[n]) # NoArgv
               PROVE  \E k \in DOMAIN observations' :
                        /\ observations'[k].id = steps'[n].name
                        /\ observations'[k].run = steps'[n].text
                        /\ observations'[k].class \in {"MatchedCheck", "DiscoveredCheck"}
                        /\ \/ observations'[k].check_id \in config'.disable_checks
                           \/ \E i \in DOMAIN checks' :
                                /\ checks'[i].id = observations'[k].check_id
                                /\ checks'[i].argv = Split[steps'[n].text]
                                /\ checks'[i].dir = steps'[n].dir
    BY DEF StepsBecomeChecks, safe_workflow_command
  <2>1. PICK t : t = steps'[n]
    OBVIOUS
  <2>2. safe_workflow_command(t) # NoArgv
    BY <2>1 DEF safe_workflow_command
  <2>3. \E k \in DOMAIN observations' : Runs(t, k)'
    BY <1>2, <1>3, <2>1, <2>2
  <2> QED
    BY <2>1, <2>3 DEF Runs
<1> QED
  BY <1>1, <1>3

\* Every step that is one safe command has a check with exactly that command
\* and directory, and an observation that names it, unless the configuration
\* disables it: for any repository, through duplicates, sorting, explicit
\* checks and replacements.
THEOREM StepsAreChecked == Spec => []StepsBecomeChecks
<1>1. Init => StepsBecomeChecks
  BY DEF Init, StepsBecomeChecks
<1>2. TypeOK /\ InvChecks /\ StepsBecomeChecks /\ [Next]_vars => StepsBecomeChecks'
  BY StepsNext
<1> QED
  BY <1>1, <1>2, TypesHold, ChecksInvariance, PTL DEF Spec

-----------------------------------------------------------------------------
(* Replacements.                                                            *)

\* Observation k was replaced for claim c.
ReplacedFor(k, c) ==
  /\ observations[k].id = Claimed(c)
  /\ observations[k].check_id = checks[c[1]].id
  /\ observations[k].class = "ReplacedByExplicitCheck"

InvReplaced ==
  stage \in {"select", "done"} =>
    /\ \A k \in DOMAIN observations :
         observations[k].class = "ReplacedByExplicitCheck" => \E c \in Claims : ReplacedFor(k, c)
    /\ \A c \in Claims :
         \E k \in DOMAIN observations :
           ReplacedFor(k, c) /\ \A l \in DOMAIN observations : ReplacedFor(l, c) => l = k

\* Only explicit checks claim steps.
LEMMA OnlyExplicitClaim ==
  ASSUME TypeOK, InvChecks, NEW c \in Claims
  PROVE  \E i \in DOMAIN checks : \E j \in DOMAIN checks[i].replaces :
           c = <<i, j>> /\ checks[i].explicit
<1>1. PICK i \in DOMAIN checks : c \in {<<i, j>> : j \in DOMAIN checks[i].replaces}
  BY DEF Claims
<1>2. PICK j \in DOMAIN checks[i].replaces : c = <<i, j>>
  BY <1>1
<1>3. checks[i].replaces # <<>>
  BY <1>2
<1>4. ~FromManifest(checks[i])
  BY <1>3 DEF FromManifest, ManifestCheck
<1>5. ~FromStep(checks[i])
  BY <1>3 DEF FromStep, CheckOf
<1>6. FromConfig(checks[i])
  BY <1>4, <1>5 DEF InvChecks, InvOrigin
<1>7. checks[i].explicit
  BY <1>6, ConfigFacts DEF FromConfig, TypeOK
<1> QED
  BY <1>2, <1>7

\* The replacements are made as they are claimed, and nothing is replaced later.
LEMMA ReplacedNext ==
  ASSUME TypeOK, IInv, InvReplaced, [Next]_vars
  PROVE  InvReplaced'
<1>1. CASE ApplyReplacements
  <2> SUFFICES ASSUME stage' # "failed" PROVE InvReplaced'
    BY DEF InvReplaced
  <2>1. /\ stage = "replace" /\ ClaimedOnce /\ UNCHANGED checks
        /\ DOMAIN observations' = DOMAIN observations
        /\ \A k \in DOMAIN observations : ~Hit(k) => observations'[k] = observations[k]
        /\ \A k \in DOMAIN observations : Hit(k) =>
             /\ observations'[k].id = observations[k].id
             /\ observations'[k].class = "ReplacedByExplicitCheck"
             /\ \E c \in Claims : /\ Claimed(c) = observations[k].id
                                /\ observations'[k].check_id = checks[c[1]].id
        /\ \A id \in ClaimedIds :
             \E k \in DOMAIN observations : Hit(k) /\ observations[k].id = id
        /\ \A k, l \in DOMAIN observations :
             Hit(k) /\ Hit(l) /\ observations[k].id = observations[l].id => k = l
    BY <1>1, ReplaceFacts
  <2>2. \A k \in DOMAIN observations :
          observations'[k].class = "ReplacedByExplicitCheck" => Hit(k)
    BY <2>1 DEF IInv, InvOpen, Unreplaced
  <2>3. Claims' = Claims /\ \A c : Claimed(c)' = Claimed(c)
    BY <2>1 DEF Claims, Claimed
  <2>4. ASSUME NEW k \in DOMAIN observations, Hit(k)
        PROVE  \E c \in Claims : ReplacedFor(k, c)'
    BY <2>1, <2>3, <2>4 DEF ReplacedFor
  <2>5. ASSUME NEW c \in Claims
        PROVE  \E k \in DOMAIN observations :
                 ReplacedFor(k, c)' /\ \A l \in DOMAIN observations : ReplacedFor(l, c)' => l = k
    <3>1. Claimed(c) \in ClaimedIds
      BY DEF ClaimedIds
    <3>2. PICK k \in DOMAIN observations : Hit(k) /\ observations[k].id = Claimed(c)
      BY <2>1, <3>1
    <3>3. PICK d \in Claims : /\ Claimed(d) = observations[k].id
                             /\ observations'[k].check_id = checks[d[1]].id
      BY <2>1, <3>2
    <3>4. d = c
      BY <2>1, <3>2, <3>3 DEF ClaimedOnce
    <3>5. ReplacedFor(k, c)'
      BY <2>1, <2>3, <3>2, <3>3, <3>4 DEF ReplacedFor
    <3>6. ASSUME NEW l \in DOMAIN observations, ReplacedFor(l, c)' PROVE l = k
      <4>1. Hit(l) /\ observations[l].id = Claimed(c)
        BY <2>1, <2>2, <2>3, <3>6 DEF ReplacedFor
      <4> QED
        BY <2>1, <3>2, <4>1
    <3> QED
      BY <3>5, <3>6
  <2> QED
    BY <2>1, <2>2, <2>3, <2>4, <2>5 DEF InvReplaced
<1>2. CASE Select \/ UNCHANGED vars
  <2>1. UNCHANGED <<checks, observations>> /\ (stage \in {"select", "done"} \/ stage' = stage)
    BY <1>2 DEF Select, vars
  <2>2. Claims' = Claims /\ \A k, c : ReplacedFor(k, c)' = ReplacedFor(k, c)
    BY <2>1 DEF Claims, Claimed, ReplacedFor
  <2> QED
    BY <2>1, <2>2 DEF InvReplaced
<1>3. CASE ReadConfig \/ ReadManifests \/ InspectStep \/ EndWorkflows \/ Configure \/ Validate
  <2>1. stage' \notin {"select", "done"}
    BY <1>3 DEF ReadConfig, ReadManifests, InspectStep, EndWorkflows, Configure, Validate, Goto, Fail
  <2> QED
    BY <2>1 DEF InvReplaced
<1> QED
  BY <1>1, <1>2, <1>3 DEF Next, Returned

\* Exactly one observation is replaced for a claim.
LEMMA ReplacedFollow ==
  ASSUME TypeOK, InvChecks, InvReplaced
  PROVE  ReplacementsExact
<1> SUFFICES ASSUME stage = "done" PROVE ReplacementsExact
  BY DEF ReplacementsExact, Done
<1>1. ASSUME NEW k \in DOMAIN observations,
             observations[k].class = "ReplacedByExplicitCheck"
      PROVE  \E i \in DOMAIN checks :
               /\ checks[i].explicit /\ checks[i].id = observations[k].check_id
               /\ \E j \in DOMAIN checks[i].replaces : checks[i].replaces[j] = observations[k].id
  <2>1. PICK c \in Claims : ReplacedFor(k, c)
    BY <1>1 DEF InvReplaced
  <2>2. PICK i \in DOMAIN checks : \E j \in DOMAIN checks[i].replaces :
          c = <<i, j>> /\ checks[i].explicit
    BY OnlyExplicitClaim
  <2> QED
    BY <2>1, <2>2 DEF ReplacedFor, Claimed
<1>2. ASSUME NEW i \in DOMAIN checks, NEW j \in DOMAIN checks[i].replaces
      PROVE  Cardinality({k \in DOMAIN observations :
                            /\ observations[k].id = checks[i].replaces[j]
                            /\ observations[k].check_id = checks[i].id
                            /\ observations[k].class = "ReplacedByExplicitCheck"}) = 1
  <2> DEFINE c == <<i, j>>
             S == {k \in DOMAIN observations : ReplacedFor(k, c)}
  <2>1. c \in Claims
    BY DEF Claims
  <2>2. PICK k \in DOMAIN observations :
          ReplacedFor(k, c) /\ \A l \in DOMAIN observations : ReplacedFor(l, c) => l = k
    BY <2>1 DEF InvReplaced
  <2>3. S = {k}
    BY <2>2
  <2>4. Cardinality(S) = 1
    <3> HIDE DEF S
    <3> QED
      BY <2>3, FS_Singleton
  <2>5. S = {l \in DOMAIN observations :
               /\ observations[l].id = checks[i].replaces[j]
               /\ observations[l].check_id = checks[i].id
               /\ observations[l].class = "ReplacedByExplicitCheck"}
    BY DEF ReplacedFor, Claimed
  <2> QED
    BY <2>4, <2>5
<1> QED
  BY <1>1, <1>2 DEF ReplacementsExact

\* In any report the ids that explicit checks list are those of the replaced
\* observations; each names the one check that lists it, and no id is listed
\* twice: whatever ids the workflow steps share.
THEOREM ReplacementsAreExact == Spec => []ReplacementsExact
<1>1. Init => InvReplaced
  BY DEF Init, InvReplaced
<1>2. TypeOK /\ IInv /\ InvReplaced /\ [Next]_vars => InvReplaced'
  BY ReplacedNext
<1>3. TypeOK /\ InvChecks /\ InvReplaced => ReplacementsExact
  BY ReplacedFollow
<1> QED
  BY <1>1, <1>2, <1>3, TypesHold, ChecksInvariance, Invariance, PTL DEF Spec

-----------------------------------------------------------------------------
(* The plan.                                                                *)

Covered(p) == \E i \in DOMAIN checks : selection[i] /\ p \in checks[i].covers

SelectionMade == selection = [i \in DOMAIN checks |-> select_check(checks[i])]

\* From the sorting on the checks are in the order of their ids and from the
\* validation on these differ; until the selection only steps leave gaps, so
\* that the gaps of paths are those of this selection.
InvPlan ==
  /\ stage \in {"validate", "replace", "select", "done"} =>
       \A m, n \in DOMAIN checks : m < n => IdRank[checks[m].id] <= IdRank[checks[n].id]
  /\ stage \in {"replace", "select", "done"} => UniqueIds(checks)
  /\ stage \in Unreplaced \cup {"select"} => gaps \subseteq {StepGap(n) : n \in Names}
  /\ stage = "done" =>
       /\ SelectionMade
       /\ request.requested \subseteq IdsOf(checks)
       /\ \A p \in request.changed : Covered(p) <=> PathGap(p) \notin gaps
       /\ (\E i \in DOMAIN checks : selection[i]) \/ NothingGap \in gaps

\* Gaps of different kinds, or of different paths, are different.
LEMMA GapKinds ==
  /\ \A n, p : StepGap(n) # PathGap(p) /\ StepGap(n) # NothingGap /\ PathGap(p) # NothingGap
  /\ \A p, q : PathGap(p) = PathGap(q) => p = q
<1>1. \A n, p : /\ StepGap(n).kind = "step" /\ PathGap(p).kind = "path" /\ PathGap(p).of = p
                /\ NothingGap.kind = "nothing"
  BY DEF StepGap, PathGap, NothingGap
<1> QED
  BY <1>1

\* The gaps the selection adds are those of the paths it leaves.
LEMMA PlanSelect ==
  ASSUME TypeOK, InvPlan, Select
  PROVE  InvPlan'
<1> SUFFICES ASSUME stage' # "failed" PROVE InvPlan'
  BY DEF InvPlan, Unreplaced
<1>1. /\ stage = "select" /\ stage' = "done" /\ UNCHANGED <<checks, request>>
      /\ request.requested \subseteq IdsOf(checks)
      /\ selection' = [i \in DOMAIN checks |-> select_check(checks[i])]
      /\ gaps' = gaps \cup coverage_gaps(selection')
  BY DEF Select, Goto, Fail
<1>2. \A c : select_check(c)' = select_check(c)
  BY <1>1 DEF select_check
<1>3. IdsOf(checks)' = IdsOf(checks) /\ UniqueIds(checks)' = UniqueIds(checks)
  BY <1>1 DEF IdsOf, UniqueIds
<1>4. gaps \subseteq {StepGap(n) : n \in Names}
  BY <1>1 DEF InvPlan
<1> DEFINE Hidden(p) == ~\E i \in DOMAIN checks : selection'[i] /\ p \in checks[i].covers
<1>5. coverage_gaps(selection') =
        {PathGap(p) : p \in {q \in request.changed : Hidden(q)}}
          \cup (IF \E i \in DOMAIN selection' : selection'[i] THEN {} ELSE {NothingGap})
  BY DEF coverage_gaps
<1>6. DOMAIN selection' = DOMAIN checks
  BY <1>1
<1>7. \A p : Covered(p)' <=> ~Hidden(p)
  BY <1>1 DEF Covered
<1> HIDE DEF Hidden
<1>8. ASSUME NEW p \in request.changed PROVE Hidden(p) <=> PathGap(p) \in gaps'
  <2>1. PathGap(p) \notin gaps
    BY <1>4, GapKinds
  <2>2. PathGap(p) \in coverage_gaps(selection') <=> Hidden(p)
    BY <1>5, <1>8, GapKinds
  <2> QED
    BY <1>1, <2>1, <2>2
<1>9. (\E i \in DOMAIN checks : selection'[i]) \/ NothingGap \in gaps'
  BY <1>1, <1>5, <1>6
<1>10. SelectionMade'
  BY <1>1, <1>2 DEF SelectionMade
<1> QED
  BY <1>1, <1>3, <1>7, <1>8, <1>9, <1>10 DEF InvPlan, Unreplaced

\* Every step keeps the invariant of the plan.
LEMMA PlanNext ==
  ASSUME TypeOK, InvPlan, [Next]_vars
  PROVE  InvPlan'
<1>1. CASE UNCHANGED vars
  BY <1>1, ZenonT(40) DEF vars, InvPlan, SelectionMade, UniqueIds, IdsOf, select_check, Covered, Unreplaced
<1>2. CASE ReadConfig \/ ReadManifests \/ EndWorkflows
  BY <1>2 DEF ReadConfig, ReadManifests, EndWorkflows, Goto, Fail, found, InvPlan, Unreplaced
<1>3. CASE InspectStep
  <2>1. PICK step \in Steps : UNCHANGED gaps \/ gaps' = gaps \cup {StepGap(step.name)}
    BY <1>3 DEF InspectStep, found, MatchCheck, NewCheck, LeaveGap
  <2>2. stage = "workflows" /\ stage' \in {"workflows", "failed"} /\ step.name \in Names
    BY <1>3, CheckOfIsCheck DEF InspectStep, Goto, Fail
  <2> QED
    BY <2>1, <2>2 DEF InvPlan, Unreplaced
<1>4. CASE Configure
  <2>1. CASE stage' = "failed"
    BY <2>1 DEF InvPlan, Unreplaced
  <2>2. CASE stage' # "failed"
    <3>1. \A m, n \in DOMAIN checks' : m < n => IdRank[checks'[m].id] <= IdRank[checks'[n].id]
      BY <1>4, <2>2, ConfigureFacts
    <3>2. stage = "configure" /\ stage' = "validate" /\ UNCHANGED gaps
      BY <1>4, <2>2 DEF Configure, Goto, Fail
    <3> QED
      BY <3>1, <3>2 DEF InvPlan, Unreplaced
  <2> QED
    BY <2>1, <2>2
<1>5. CASE Validate
  <2>1. CASE stage' = "failed"
    BY <2>1 DEF InvPlan, Unreplaced
  <2>2. CASE stage' # "failed"
    <3>1. /\ stage = "validate" /\ stage' = "replace" /\ UNCHANGED <<checks, gaps>>
          /\ UniqueIds(checks)
      BY <1>5, <2>2 DEF Validate, Goto, Fail, found
    <3> QED
      BY <3>1 DEF InvPlan, Unreplaced, UniqueIds
  <2> QED
    BY <2>1, <2>2
<1>6. CASE ApplyReplacements
  <2>1. CASE stage' = "failed"
    BY <2>1 DEF InvPlan, Unreplaced
  <2>2. CASE stage' # "failed"
    <3>1. stage = "replace" /\ stage' = "select" /\ UNCHANGED checks /\ gaps' \subseteq gaps
      BY <1>6, <2>2, ReplaceFacts
    <3> QED
      BY <3>1 DEF InvPlan, Unreplaced, UniqueIds
  <2> QED
    BY <2>1, <2>2
<1> QED
  BY <1>1, <1>2, <1>3, <1>4, <1>5, <1>6, PlanSelect DEF Next, Returned

\* The plan invariant holds in every reachable state.
THEOREM PlanInvariance == Spec => []InvPlan
<1>1. Init => InvPlan
  BY DEF Init, InvPlan
<1>2. TypeOK /\ InvPlan /\ [Next]_vars => InvPlan'
  BY PlanNext
<1> QED
  BY <1>1, <1>2, TypesHold, PTL DEF Spec

\* The plan is the selected checks, in the order they have.
LEMMA PlanFacts ==
  ASSUME TypeOK, InvPlan, stage = "done",
         NEW plan, plan = selected_checks
  PROVE  \E o \in [DOMAIN plan -> {i \in DOMAIN checks : selection[i]}] :
           /\ plan \in Seq(Check)
           /\ \A n \in DOMAIN plan : plan[n] = checks[o[n]]
           /\ \A i \in {i \in DOMAIN checks : selection[i]} : \E n \in DOMAIN plan : o[n] = i
           /\ \A m, n \in DOMAIN plan : o[m] = o[n] => m = n
           /\ \A m, n \in DOMAIN plan : m < n => o[m] < o[n]
<1> DEFINE I == {i \in DOMAIN checks : selection[i]}
<1>1. plan = Picked(checks, {i \in DOMAIN checks :
                              \E j \in DOMAIN checks : checks[j].id = checks[i].id /\ selection[j]})
  BY DEF selected_checks
<1>2. {i \in DOMAIN checks :
         \E j \in DOMAIN checks : checks[j].id = checks[i].id /\ selection[j]} = I
  BY DEF InvPlan, UniqueIds
<1>3. plan = Picked(checks, I) /\ checks \in Seq(Check) /\ I \in SUBSET DOMAIN checks
  BY <1>1, <1>2 DEF TypeOK
<1> HIDE DEF I
<1>4. \E o \in [DOMAIN plan -> I] :
        /\ plan \in Seq(Check)
        /\ \A n \in DOMAIN plan : plan[n] = checks[o[n]]
        /\ \A i \in I : \E n \in DOMAIN plan : o[n] = i
        /\ \A m, n \in DOMAIN plan : o[m] = o[n] => m = n
        /\ \A m, n \in DOMAIN plan : m < n => o[m] < o[n]
  BY <1>3, PickedFacts, SMTT(30)
<1> QED
  BY <1>4 DEF I

\* A plan in the order of different ids is in strict order.
LEMMA PlanFollows ==
  ASSUME TypeOK, InvPlan
  PROVE  PlanAssumed /\ ChangesAccounted
<1> SUFFICES ASSUME stage = "done" PROVE PlanAssumed /\ ChangesAccounted
  BY DEF PlanAssumed, ChangesAccounted, Done
<1> DEFINE I == {i \in DOMAIN checks : selection[i]}
           plan == selected_checks
<1>1. PICK o \in [DOMAIN plan -> I] :
        /\ plan \in Seq(Check)
        /\ \A n \in DOMAIN plan : plan[n] = checks[o[n]]
        /\ \A i \in I : \E n \in DOMAIN plan : o[n] = i
        /\ \A m, n \in DOMAIN plan : o[m] = o[n] => m = n
        /\ \A m, n \in DOMAIN plan : m < n => o[m] < o[n]
  BY PlanFacts
<1>2. \A i \in DOMAIN checks : selection[i] = select_check(checks[i])
  BY DEF InvPlan, SelectionMade
<1>3. /\ DOMAIN checks \subseteq Nat
      /\ \A i \in DOMAIN checks : checks[i].id \in Ids /\ IdRank[checks[i].id] \in Nat
  <2>1. DOMAIN checks \subseteq Nat /\ \A i \in DOMAIN checks : checks[i] \in Check
    BY DEF TypeOK
  <2>2. \A i \in DOMAIN checks : checks[i].id \in Ids
    BY <2>1 DEF Check
  <2> QED
    BY <2>1, <2>2, IdAssumption
<1> HIDE DEF plan
<1>4. ASSUME NEW m \in DOMAIN plan, NEW n \in DOMAIN plan, m < n
      PROVE  IdRank[plan[m].id] < IdRank[plan[n].id]
  <2>1. o[m] \in DOMAIN checks /\ o[n] \in DOMAIN checks /\ o[m] < o[n]
    BY <1>1, <1>4
  <2>2. IdRank[checks[o[m]].id] <= IdRank[checks[o[n]].id]
    BY <2>1 DEF InvPlan
  <2>3. checks[o[m]].id # checks[o[n]].id
    BY <1>3, <2>1 DEF InvPlan, UniqueIds
  <2>4. IdRank[checks[o[m]].id] # IdRank[checks[o[n]].id]
    BY <1>3, <2>1, <2>3, IdAssumption
  <2> QED
    BY <1>1, <1>3, <2>1, <2>2, <2>4
<1>5. IdsOf(plan) = {checks[i].id : i \in I}
  BY <1>1 DEF IdsOf
<1>6. request.requested # {} => IdsOf(plan) = request.requested
  <2> SUFFICES ASSUME request.requested # {} PROVE IdsOf(plan) = request.requested
    OBVIOUS
  <2>1. \A i \in DOMAIN checks : i \in I <=> checks[i].id \in request.requested
    BY <1>2 DEF select_check
  <2>2. request.requested \subseteq {checks[i].id : i \in DOMAIN checks}
    BY DEF InvPlan, IdsOf
  <2> HIDE DEF I
  <2>3. I \subseteq DOMAIN checks
    BY DEF I
  <2> QED
    BY <1>5, <2>1, <2>2, <2>3
<1>7. plan = <<>> => gaps # {}
  <2> SUFFICES ASSUME plan = <<>> PROVE gaps # {}
    OBVIOUS
  <2>1. I = {}
    BY <1>1
  <2> QED
    BY <2>1 DEF InvPlan
<1>8. PlanAssumed
  BY <1>4, <1>6, <1>7 DEF PlanAssumed, plan
<1>9. \A p : (\E n \in DOMAIN plan : p \in plan[n].covers) <=> Covered(p)
  BY <1>1 DEF Covered
<1>10. ASSUME request.requested = {}, NEW i \in DOMAIN checks,
              checks[i].covers \cap request.changed # {}
       PROVE  selection[i]
  BY <1>2, <1>10 DEF select_check
<1>11. ChangesAccounted
  <2>1. \A p \in request.changed : Covered(p) <=> PathGap(p) \notin gaps
    BY DEF InvPlan
  <2> QED
    BY <1>9, <1>10, <2>1 DEF ChangesAccounted, plan
<1> QED
  BY <1>8, <1>11

\* What run_checks relies on: the plan's ids are different and in order, they
\* are the requested ones if any were, and an empty plan comes with a gap.
THEOREM PlansAreAsAssumed == Spec => []PlanAssumed
<1>1. TypeOK /\ InvPlan => PlanAssumed
  BY PlanFollows
<1> QED
  BY <1>1, TypesHold, PlanInvariance, PTL

\* Every changed path is covered by a check of the plan or named as a gap, and
\* unless checks were requested none that covers one is left out.
THEOREM ChangesAreAccounted == Spec => []ChangesAccounted
<1>1. TypeOK /\ InvPlan => ChangesAccounted
  BY PlanFollows
<1> QED
  BY <1>1, TypesHold, PlanInvariance, PTL
=============================================================================
