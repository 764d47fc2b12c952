------------------------------ MODULE Discovery ------------------------------
(***************************************************************************)
(* discover_checks (src/src/discover.rs): the checks that the manifests    *)
(* yield, the steps of the GitHub Actions workflows in the order they are  *)
(* read, .taskattest.toml, the replacements it declares, the selection and *)
(* the coverage gaps.                                                      *)
(*                                                                         *)
(* The function runs alone; what is hard about it is that ids tie its data *)
(* together.  An observation of a workflow step, the gap it leaves, the    *)
(* check that replaces it and the check it became are found again by id,   *)
(* after each of them may have been dropped, renamed or met twice.         *)
(*                                                                         *)
(* A name stands for workflow, job and step name, that is for the id of an *)
(* observation.  A text is the `run` value of a step.                      *)
(***************************************************************************)
EXTENDS Verifiers, TLC

CONSTANTS
  Names,           \* ids workflow steps may have; nothing makes them unique
  Texts,           \* `run` values
  Dirs,            \* working directories, as they are spelled
  InvalidDirs,     \* those validate_working_directory rejects
  DynamicDirs,     \* those that hold an expression
  NeedsShell,      \* texts with characters of the shell, or that do not split
  Split,           \* text -> the words it splits into
  Looks,           \* pairs <<name, text>> that look like verification
  EndsWith,        \* pairs <<name, suffix>> of ids
  Ids, IdRank,     \* check ids and their lexical order
  InvalidIds,      \* ids that are too long or have other characters
  CiId,            \* text -> the id of the check made of it
  Paths,           \* paths that may be changed
  CiCovers,        \* text -> paths covered by the check made of it
  Steps,           \* workflow steps a repository may have
  Projects,        \* its manifests: [files, scripts, requirements], where
                   \* scripts is script -> flags in its text
  Configs,         \* configurations it may have
  Requests,        \* [changed, changed_only, requested]: the changed paths and
                   \* what the command line asks for
  MaxSteps         \* bound: workflow steps in a repository

Step == [name : Names, text : Texts, dir : Dirs]
Check == [id : Ids, argv : Seq(Words), dir : Dirs, covers : SUBSET Paths,
          explicit : BOOLEAN, replaces : Seq(Names)]

ASSUME DirAssumption ==
  Here \in Dirs /\ InvalidDirs \subseteq Dirs /\ DynamicDirs \subseteq Dirs
ASSUME TextAssumption ==
  /\ NeedsShell \subseteq Texts
  /\ DOMAIN Split = Texts /\ \A t \in Texts : Split[t] \in Seq(Words)
  /\ CiId \in [Texts -> Ids]
  /\ CiCovers \in [Texts -> SUBSET Paths]
ASSUME NameAssumption ==
  /\ Looks \subseteq Names \X Texts
  /\ EndsWith \subseteq Names \X Names
  /\ \A n \in Names : <<n, n>> \in EndsWith
ASSUME IdAssumption ==
  /\ InvalidIds \subseteq Ids
  /\ ToolIds \subseteq Ids /\ JsId \in [Scripts -> Ids] /\ LongJsId \in [Scripts -> Ids]
  /\ IdRank \in [Ids -> Nat]
  /\ \A a, b \in Ids : IdRank[a] = IdRank[b] => a = b
\* Ids are made so as to differ.  Those of tools are fixed, those of scripts begin
\* with "js-" and those of commands with "ci-"; their characters are valid and all
\* but the longer ids of scripts are short enough.  The digests are taken to tell
\* texts and scripts apart, and no script to have the longer id of another for its
\* name; longer ids that are invalid need not differ.
ASSUME DistinctIdsAssumption ==
  LET ScriptsIds == {JsId[s] : s \in Scripts} \cup {LongJsId[s] : s \in Scripts}
      CommandIds == {CiId[t] : t \in Texts}
  IN  /\ ToolIds \cap ScriptsIds = {} /\ (ToolIds \cup ScriptsIds) \cap CommandIds = {}
      /\ (ToolIds \cup {JsId[s] : s \in Scripts} \cup CommandIds) \cap InvalidIds = {}
      /\ \A t, u \in Texts : CiId[t] = CiId[u] => t = u
      /\ \A s, t \in Scripts :
           /\ LongJsId[s] = JsId[t] => LongJsId[s] \in InvalidIds
           /\ LongJsId[s] = LongJsId[t] => s = t \/ LongJsId[s] \in InvalidIds
ASSUME InputAssumption ==
  /\ \A l \in {"javascript", "python", "rust", "go"} : Coverage[l] \subseteq Paths
  /\ Steps \subseteq Step
  /\ \A p \in Projects : DOMAIN p.scripts \subseteq Scripts /\ IsFiniteSet(DOMAIN p.scripts)
  /\ \A c \in Configs :
       /\ c.disable_checks \subseteq Ids
       /\ c.checks \in Seq(Check) /\ \A i \in DOMAIN c.checks : c.checks[i].explicit
  /\ Requests \subseteq [changed : SUBSET Paths, changed_only : BOOLEAN,
                         requested : SUBSET Ids]
ASSUME BoundAssumption == MaxSteps \in Nat

Stages == {"config", "manifests", "workflows", "configure", "validate",
           "replace", "select", "done", "failed"}
Classes == {"MatchedCheck", "DiscoveredCheck", "UnmodeledVerification",
            "ReplacedByExplicitCheck"}
NoCheck == "no check"
NoArgv == <<>>

VARIABLES
  stage,         \* the next stage of discover_checks
  error,         \* the kind of error it returned, or "none"
  config,        \* .taskattest.toml
  project,       \* history: the manifests
  steps,         \* history: the workflow steps read so far
  checks,        \* the checks found so far
  observations,  \* the workflow observations so far
  gaps,          \* the coverage gaps so far
  request,       \* the changed paths and what the command line asks for
  selection      \* for each check, whether it is selected

vars == <<stage, error, config, project, steps, checks, observations, gaps, request, selection>>

Observation == [id : Names, run : Texts, class : Classes, check_id : Ids \cup {NoCheck}]

StepGap(name) == [kind |-> "step", of |-> name]
PathGap(path) == [kind |-> "path", of |-> path]
NothingGap == [kind |-> "nothing", of |-> "checks"]

NoProject == [files |-> {}, scripts |-> <<>>, requirements |-> {}]
NoConfig == [disable_checks |-> {}, checks |-> <<>>]

TypeOK ==
  /\ stage \in Stages
  /\ error \in {"none", "configuration", "discovery"}
  /\ config \in Configs \cup {NoConfig}
  /\ project \in Projects \cup {NoProject}
  /\ steps \in Seq(Steps) /\ Len(steps) <= MaxSteps
  /\ checks \in Seq(Check)
  /\ observations \in Seq(Observation)
  /\ gaps \subseteq {StepGap(n) : n \in Names} \cup {PathGap(p) : p \in Paths} \cup {NothingGap}
  /\ request \in Requests
  /\ selection \in Seq(BOOLEAN)

Init ==
  /\ stage = "config" /\ error = "none"
  /\ config = NoConfig /\ project = NoProject
  /\ steps = <<>> /\ checks = <<>> /\ observations = <<>>
  /\ gaps = {}
  /\ request \in Requests
  /\ selection = <<>>

-----------------------------------------------------------------------------
(* Reading the repository.                                                 *)

Goto(next) == stage' = next /\ UNCHANGED error
Fail(kind) == stage' = "failed" /\ error' = kind
found == <<checks, observations, gaps>>

\* .taskattest.toml, if there is one; it may fail to parse.
ReadConfig ==
  /\ stage = "config"
  /\ \/ Goto("manifests") /\ config' \in Configs \cup {NoConfig}
     \/ Fail("configuration") /\ UNCHANGED config
  /\ UNCHANGED <<project, steps, found, request, selection>>

\* discover_javascript, discover_python, discover_rust and discover_go, each of
\* which fails when it cannot read or parse a file.
ReadManifests ==
  /\ stage = "manifests"
  /\ project' \in Projects
  /\ \/ /\ Goto("workflows")
        /\ checks' = ManifestChecks(project'.files, project'.scripts, project'.requirements)
     \/ project'.files # {} /\ Fail("discovery") /\ UNCHANGED checks
  /\ UNCHANGED <<config, steps, observations, gaps, request, selection>>

validate_working_directory(dir) == dir \notin InvalidDirs

\* The words of a step that is one command of a known verifier.
safe_workflow_command(step) ==
  IF step.text \in NeedsShell \/ step.dir \in DynamicDirs \/ CommandKind(Split[step.text]) = NoKind
    THEN NoArgv ELSE Split[step.text]

looks_like_unmodeled_verification(step) == <<step.name, step.text>> \in Looks

\* Mutants: an existing check is found by its id, or by its program and
\* arguments alone.
ExistingById(step) == {i \in DOMAIN checks : checks[i].id = CiId[step.text]}
ExistingAnywhere(step) ==
  {i \in DOMAIN checks :
     /\ checks[i].argv = Split[step.text]
     /\ \A j \in 1..(i - 1) : checks[j].argv # checks[i].argv}

\* The first check with the command of the step, in its directory.
Existing(step) ==
  {i \in DOMAIN checks :
     /\ checks[i].argv = Split[step.text] /\ checks[i].dir = step.dir
     /\ \A j \in 1..(i - 1) : checks[j].argv # checks[i].argv \/ checks[j].dir # step.dir}

Observe(step, class, check_id) ==
  observations' = Append(observations, [id |-> step.name, run |-> step.text,
                                        class |-> class, check_id |-> check_id])

MatchCheck(step) ==
  \E i \in Existing(step) :
    /\ Observe(step, "MatchedCheck", checks[i].id)
    /\ UNCHANGED <<checks, gaps>>

\* Mutant: its id is made of the command, however it is spelled.
NewCheckOfCommand(step) ==
  LET id == CHOOSE id \in {CiId[t] : t \in {u \in Texts : Split[u] = Split[step.text]}} : TRUE
  IN  /\ Existing(step) = {}
      /\ checks' = Append(checks, [id |-> id, argv |-> Split[step.text],
                                   dir |-> step.dir, covers |-> CiCovers[step.text],
                                   explicit |-> FALSE, replaces |-> <<>>])
      /\ Observe(step, "DiscoveredCheck", id)
      /\ UNCHANGED gaps

\* Its id is made of the kind and the digest of the text, not of the directory.
NewCheck(step) ==
  /\ Existing(step) = {}
  /\ checks' = Append(checks, [id |-> CiId[step.text], argv |-> Split[step.text],
                               dir |-> step.dir, covers |-> CiCovers[step.text],
                               explicit |-> FALSE, replaces |-> <<>>])
  /\ Observe(step, "DiscoveredCheck", CiId[step.text])
  /\ UNCHANGED gaps

\* Mutant: the observation names itself as its check.
LeaveGapNamed(step) ==
  /\ gaps' = gaps \cup {StepGap(step.name)}
  /\ Observe(step, "UnmodeledVerification", step.name)
  /\ UNCHANGED checks

LeaveGap(step) ==
  /\ gaps' = gaps \cup {StepGap(step.name)}
  /\ Observe(step, "UnmodeledVerification", NoCheck)
  /\ UNCHANGED checks

\* One step of a workflow in inspect_workflow_document.
InspectStep ==
  /\ stage = "workflows" /\ Len(steps) < MaxSteps
  /\ \E step \in Steps :
       /\ steps' = Append(steps, step)
       /\ IF safe_workflow_command(step) # NoArgv
            THEN IF validate_working_directory(step.dir)
                   THEN Goto(stage) /\ (MatchCheck(step) \/ NewCheck(step))
                   ELSE Fail("configuration") /\ UNCHANGED found
            ELSE /\ Goto(stage)
                 /\ IF looks_like_unmodeled_verification(step)
                      THEN LeaveGap(step) ELSE UNCHANGED found
  /\ UNCHANGED <<config, project, request, selection>>

\* A workflow that cannot be read or parsed, or is too large, ends it all.
EndWorkflows ==
  /\ stage = "workflows"
  /\ Goto("configure") \/ Fail("discovery")
  /\ UNCHANGED <<config, project, steps, found, request, selection>>

-----------------------------------------------------------------------------
(* Configuration, validation and replacement.                              *)

\* The elements of s at the places in I.
Picked(s, I) ==
  LET order == InOrder(I, {p \in I \X I : p[1] < p[2]})
  IN  [n \in DOMAIN order |-> s[order[n]]]

\* Sorted by id; checks with one id stay as they are.
SortById(s) ==
  LET Before(i, j) == \/ IdRank[s[i].id] < IdRank[s[j].id]
                      \/ s[i].id = s[j].id /\ i < j
      order == InOrder(DOMAIN s, {p \in (DOMAIN s) \X (DOMAIN s) : Before(p[1], p[2])})
  IN  [n \in DOMAIN order |-> s[order[n]]]

IdsOf(s) == {s[i].id : i \in DOMAIN s}
UniqueIds(s) == \A i, j \in DOMAIN s : s[i].id = s[j].id => i = j

\* The explicit check an entry of the configuration becomes, if its directory
\* is one; its command and variable names may be malformed too.
configured_check(entry) == IF validate_working_directory(entry.dir) THEN {entry} ELSE {}

\* Disabled checks go, explicit ones are added, and all are sorted.  An entry
\* that is not well formed ends discovery.
Configure ==
  /\ stage = "configure"
  /\ \/ /\ \A i \in DOMAIN config.checks : configured_check(config.checks[i]) # {}
        /\ Goto("validate")
        /\ LET kept == {i \in DOMAIN checks : checks[i].id \notin config.disable_checks} IN
           checks' = SortById(Picked(checks, kept) \o config.checks)
     \/ config.checks # <<>> /\ Fail("configuration") /\ UNCHANGED checks
  /\ UNCHANGED <<config, project, steps, observations, gaps, request, selection>>

\* Mutant: the first of two checks with one id is taken.
ValidateLenient ==
  /\ stage = "validate"
  /\ Goto("replace")
  /\ UNCHANGED <<config, project, steps, found, request, selection>>

valid_check_id(id) == id \notin InvalidIds

\* validate_checks; the patterns of an explicit check may be malformed.
Validate ==
  /\ stage = "validate"
  /\ IF UniqueIds(checks) /\ \A id \in IdsOf(checks) : valid_check_id(id)
       THEN Goto("replace") \/ (config.checks # <<>> /\ Fail("configuration"))
       ELSE Fail("configuration")
  /\ UNCHANGED <<config, project, steps, found, request, selection>>

\* The places <<check, position>> that claim a step, and the steps they claim.
Claims ==
  UNION {{<<i, j>> : j \in DOMAIN checks[i].replaces} : i \in DOMAIN checks}
Claimed(c) == checks[c[1]].replaces[c[2]]
ClaimedIds == {Claimed(c) : c \in Claims}

\* The observation that is found for an id is the first one that has it.
IsFirst(k) == \A j \in 1..(k - 1) : observations[j].id # observations[k].id

Replaceable(id) ==
  \E k \in DOMAIN observations :
    /\ observations[k].id = id /\ IsFirst(k)
    /\ observations[k].class = "UnmodeledVerification"

\* A gap is dropped when its text ends with a claimed id; at this stage every
\* gap is one of a step.
UnclaimedGaps == {g \in gaps : ~\E id \in ClaimedIds : <<g.of, id>> \in EndsWith}

ReplaceIf(allowed, kept) ==
  /\ stage = "replace"
  /\ IF allowed
       THEN /\ Goto("select")
            /\ observations' =
                 [k \in DOMAIN observations |->
                    IF observations[k].id \in ClaimedIds /\ IsFirst(k)
                      THEN LET c == CHOOSE c \in Claims : Claimed(c) = observations[k].id
                           IN  [observations[k] EXCEPT !.class = "ReplacedByExplicitCheck",
                                                       !.check_id = checks[c[1]].id]
                      ELSE observations[k]]
            /\ gaps' = kept
       ELSE Fail("configuration") /\ UNCHANGED <<observations, gaps>>
  /\ UNCHANGED <<config, project, steps, checks, request, selection>>

ClaimedOnce == \A c, d \in Claims : Claimed(c) = Claimed(d) => c = d
AllReplaceable == \A id \in ClaimedIds : Replaceable(id)

\* Mutants: two checks may claim one step; the gaps of replaced steps stay.
ReplacementsShared == ReplaceIf(AllReplaceable, UnclaimedGaps)
ReplacementsKeepGaps == ReplaceIf(ClaimedOnce /\ AllReplaceable, gaps)

\* apply_workflow_replacements.
ApplyReplacements == ReplaceIf(ClaimedOnce /\ AllReplaceable, UnclaimedGaps)

-----------------------------------------------------------------------------
(* Selection and coverage.                                                 *)

select_check(check) ==
  IF request.requested # {} THEN check.id \in request.requested
  ELSE \/ ~request.changed_only
       \/ request.changed = {}
       \/ check.covers \cap request.changed # {}

\* Mutant: a check covers its paths whether it is selected or not.
coverage_gaps_of_all(chosen) ==
  LET Covered(p) == \E i \in DOMAIN checks : p \in checks[i].covers IN
  {PathGap(p) : p \in {q \in request.changed : ~Covered(q)}}
    \cup (IF \E i \in DOMAIN chosen : chosen[i] THEN {} ELSE {NothingGap})

\* The changed paths no selected check covers, and the absence of checks.
coverage_gaps(chosen) ==
  LET Covered(p) == \E i \in DOMAIN checks : chosen[i] /\ p \in checks[i].covers IN
  {PathGap(p) : p \in {q \in request.changed : ~Covered(q)}}
    \cup (IF \E i \in DOMAIN chosen : chosen[i] THEN {} ELSE {NothingGap})

\* A requested check must exist; else selection, gaps and the report.
Select ==
  /\ stage = "select"
  /\ IF request.requested \subseteq IdsOf(checks)
       THEN /\ Goto("done")
            /\ selection' = [i \in DOMAIN checks |-> select_check(checks[i])]
            /\ gaps' = gaps \cup coverage_gaps(selection')
       ELSE Fail("discovery") /\ UNCHANGED <<selection, gaps>>
  /\ UNCHANGED <<config, project, steps, checks, observations, request>>

\* What run_checks executes: selected_checks of the report.
selected_checks ==
  LET Selected(id) == \E i \in DOMAIN checks : checks[i].id = id /\ selection[i]
  IN  Picked(checks, {i \in DOMAIN checks : Selected(checks[i].id)})

Returned == stage \in {"done", "failed"} /\ UNCHANGED vars

Next ==
  \/ ReadConfig \/ ReadManifests \/ InspectStep \/ EndWorkflows \/ Configure
  \/ Validate \/ ApplyReplacements \/ Select \/ Returned

Spec == Init /\ [][Next]_vars

-----------------------------------------------------------------------------
(* Properties.                                                             *)

Done == stage = "done"

\* Every step that is one safe command became a check that runs exactly that
\* command in exactly that directory, and its observation names this check,
\* through duplicates, the sorting and explicit checks; only a check that the
\* configuration disables is no longer there.
StepsBecomeChecks ==
  stage # "failed" =>
    \A n \in DOMAIN steps :
      safe_workflow_command(steps[n]) # NoArgv =>
        \E k \in DOMAIN observations :
          LET o == observations[k] IN
          /\ o.id = steps[n].name /\ o.run = steps[n].text
          /\ o.class \in {"MatchedCheck", "DiscoveredCheck"}
          /\ \/ o.check_id \in config.disable_checks
             \/ \E i \in DOMAIN checks :
                  /\ checks[i].id = o.check_id
                  /\ checks[i].argv = Split[steps[n].text]
                  /\ checks[i].dir = steps[n].dir

\* However many steps name a command, and whether the manifests yield it too
\* (they yield it once), discovery makes one check of it in each directory, so
\* that it runs once.
OneCheckPerCommand ==
  \A i, j \in DOMAIN checks :
    /\ ~checks[i].explicit /\ ~checks[j].explicit
    /\ checks[i].argv = checks[j].argv /\ checks[i].dir = checks[j].dir
    => i = j

\* A step that was not modelled shows as a gap unless a check replaces a step
\* whose id its own id is or ends with; and a replaced step leaves no gap.
GapsMatchObservations ==
  Done => \A k \in DOMAIN observations :
    LET o == observations[k] IN
    /\ o.class = "UnmodeledVerification" =>
         \/ StepGap(o.id) \in gaps
         \/ \E j \in DOMAIN observations \ {k} :
              /\ observations[j].class = "ReplacedByExplicitCheck"
              /\ <<o.id, observations[j].id>> \in EndsWith
    /\ o.class = "ReplacedByExplicitCheck" => StepGap(o.id) \notin gaps

\* Replacements are declared, exact and exclusive: the ids that explicit checks
\* list are those of the replaced observations, each of which names the one
\* check that lists it, and an id is listed once.
ReplacementsExact ==
  Done =>
    /\ \A k \in DOMAIN observations :
         observations[k].class = "ReplacedByExplicitCheck" =>
           \E i \in DOMAIN checks :
             /\ checks[i].explicit /\ checks[i].id = observations[k].check_id
             /\ \E j \in DOMAIN checks[i].replaces : checks[i].replaces[j] = observations[k].id
    /\ \A i \in DOMAIN checks : \A j \in DOMAIN checks[i].replaces :
         Cardinality({k \in DOMAIN observations :
                        /\ observations[k].id = checks[i].replaces[j]
                        /\ observations[k].check_id = checks[i].id
                        /\ observations[k].class = "ReplacedByExplicitCheck"}) = 1

\* What run_checks relies on: the ids of the plan are different and in order,
\* they are the requested ones if any were, and an empty plan comes with a gap.
PlanAssumed ==
  Done =>
    /\ \A i, j \in DOMAIN selected_checks :
         i < j => IdRank[selected_checks[i].id] < IdRank[selected_checks[j].id]
    /\ request.requested # {} => IdsOf(selected_checks) = request.requested
    /\ selected_checks = <<>> => gaps # {}

\* Every changed path is covered by a check of the plan or named as a gap.
\* With --changed alone no check that covers a changed path is left out.
ChangesAccounted ==
  Done =>
    /\ \A p \in request.changed :
         (\E i \in DOMAIN selected_checks : p \in selected_checks[i].covers)
           <=> PathGap(p) \notin gaps
    /\ request.requested = {} =>
         \A i \in DOMAIN checks :
           checks[i].covers \cap request.changed # {} => selection[i]

\* Without a configuration and with usable directories, two things in a readable
\* repository can make discovery fail: a text that workflows run in two
\* directories, since both checks get its id, and package scripts whose names
\* begin alike, when the id that tells them apart is too long.  Other spellings
\* of a command, steps that occur twice, commands that a manifest yields too and
\* scripts whose names differ in punctuation never collide.
RejectsOnlyCollisions ==
  /\ stage = "failed" /\ error = "configuration"
  /\ config = NoConfig /\ checks # <<>>
  /\ \A n \in DOMAIN steps : validate_working_directory(steps[n].dir)
  => \/ \E m, n \in DOMAIN steps :
          steps[m].text = steps[n].text /\ steps[m].dir # steps[n].dir
     \/ \E s, t \in DOMAIN project.scripts :
          s # t /\ JsId[s] = JsId[t] /\ LongJsId[t] \in InvalidIds

\* The configuration, `--check` and receipts know a check by its id.  When
\* scripts are added to a package, a script that was there keeps its id, unless
\* one is added that sorts before it and has the same portable name: then the
\* id becomes the added one's.
IdsChangeHandsByName ==
  stage = "workflows" /\ steps = <<>> =>
    \A fewer \in SUBSET DOMAIN project.scripts :
      LET before == discover_javascript(project.files, [s \in fewer |-> project.scripts[s]])
      IN  \A i \in DOMAIN before : \A j \in DOMAIN checks :
            before[i].argv = checks[j].argv /\ before[i].id # checks[j].id =>
              \E added \in DOMAIN project.scripts \ fewer :
                /\ JsId[added] = before[i].id
                /\ ScriptRank[added] < ScriptRank[Last(before[i].argv)]

\* README.md: watch and auto-fix JavaScript scripts are not selected automatically.
\* A script that a package's text makes one is no check of a plan unless the
\* configuration or the request asks for it.
FixersNotSelected ==
  Done /\ request.requested = {} =>
    \A i \in DOMAIN selected_checks :
      LET argv == selected_checks[i].argv IN
      /\ ~selected_checks[i].explicit
      /\ argv # <<>> /\ argv[1] \in Managers /\ Last(argv) \in DOMAIN project.scripts
      => project.scripts[Last(argv)] \cap {"--watch", "--fix", "--write"} = {}

\* README.md: shell expressions and dynamic steps are reported as coverage gaps
\* unless an explicit replacement is declared for them.
UnmodeledIsReported ==
  Done => \A k \in DOMAIN observations :
    observations[k].class = "UnmodeledVerification" => StepGap(observations[k].id) \in gaps
=============================================================================
